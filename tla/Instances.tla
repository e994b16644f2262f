------------------------------ MODULE Instances ------------------------------
(***************************************************************************)
(* An instance across its two homes: the row in SQLite and the labelled    *)
(* container in Docker (server/src/instances/service.ts).                  *)
(*                                                                         *)
(* One Node process answers every request.  SQLite is synchronous, Docker  *)
(* is not: what a handler does between two awaits is one action, what the  *)
(* daemon does while the handler waits is another, and handlers interleave *)
(* at every await -- creates, DELETEs (several for one instance too) and   *)
(* the reconcile that buildApp starts without awaiting it.  The process    *)
(* may die between any two steps; rows and containers survive it.          *)
(***************************************************************************)
EXTENDS Naturals

CONSTANTS
    Ids,            \* instance ids; generateId never returns one twice
    Containers,     \* container ids Docker will hand out, each at most once
    Handlers,       \* DELETE requests that can be in flight at the same time
    NoRow,          \* SELECT ... WHERE id = ? finds nothing
    NoContainer,    \* container_id IS NULL
    MaxFaults,      \* bound: failing Docker calls and failing writes
    MaxRestarts     \* bound: deaths of the server process

ASSUME SentinelAssumption ==
    /\ NoRow # NoContainer
    /\ NoRow \notin Containers /\ NoRow \notin Ids
    /\ NoContainer \notin Containers

ASSUME BoundAssumption == MaxFaults \in Nat /\ MaxRestarts \in Nat

VARIABLES
    containerId,    \* the instances table: id -> NoRow, or its container_id
    docker,         \* container id -> what the daemon has under it
    label,          \* container id -> its claudops.instance label
    volumes,        \* instances with a labelled volume outside any container
    createPc,       \* where the create of an instance stands
    made,           \* the container runContainer made for it
    deletePc,       \* where a DELETE handler stands
    target,         \* the instance it deletes
    record,         \* the container_id it read before its first await
    recPc,          \* where this process's reconcile stands
    snapshot,       \* the rows it read before its first await
    live,           \* listed containers it found claimed by their own row
    orphans,        \* listed containers it still has to remove
    strayVolumes,   \* listed volumes it still has to remove
    failures,       \* removals that failed (report.failures)
    leftovers,      \* history: what was out of step when the process began
    contested,      \* history: containers that are still there although a
                    \* removal was answered 409, and to whom it was
    faults, restarts

dockerVars  == <<docker, label, volumes>>
createVars  == <<createPc, made>>
deleteVars  == <<deletePc, target, record>>
recVars     == <<recPc, snapshot, live, orphans, strayVolumes, failures>>
processVars == <<leftovers, restarts>>
vars == <<containerId, dockerVars, createVars, deleteVars, recVars, processVars,
          contested, faults>>

-----------------------------------------------------------------------------

Rows         == Containers \cup {NoContainer, NoRow}
NoRows       == [i \in Ids |-> NoRow]
DockerStates == {"unused", "created", "running", "exited", "removing", "gone"}
Callers      == {"create", "delete", "reconcile"}
CreateEnded  == {"done", "failed", "leaked", "dead"}
CreatePcs    == CreateEnded \cup
                {"unborn", "creating", "created", "started",
                 "unstarting", "unattaching", "rollback"}
DeletePcs    == {"idle", "removing", "listing", "volume", "row"}
RecPcs       == {"listing", "sweeping", "listingVolumes", "sweepingVolumes",
                 "done", "skipped"}

TypeOK ==
    /\ containerId \in [Ids -> Rows]
    /\ docker \in [Containers -> DockerStates]
    /\ label \in [Containers -> Ids \cup {NoRow}]
    /\ volumes \subseteq Ids
    /\ createPc \in [Ids -> CreatePcs]
    /\ made \in [Ids -> Containers \cup {NoContainer}]
    /\ deletePc \in [Handlers -> DeletePcs]
    /\ target \in [Handlers -> Ids \cup {NoRow}]
    /\ record \in [Handlers -> Containers \cup {NoContainer}]
    /\ recPc \in RecPcs
    /\ snapshot \in [Ids -> Rows]
    /\ live \subseteq Containers /\ orphans \subseteq Containers
    /\ strayVolumes \subseteq Ids
    /\ failures \in Nat
    /\ leftovers \in [containers : SUBSET Containers, rows : SUBSET Ids,
                      volumes : SUBSET Ids]
    /\ contested \subseteq Containers \X Callers
    /\ faults \in Nat /\ restarts \in Nat

Init ==
    /\ containerId = NoRows
    /\ docker = [c \in Containers |-> "unused"]
    /\ label = [c \in Containers |-> NoRow]
    /\ volumes = {}
    /\ createPc = [i \in Ids |-> "unborn"]
    /\ made = [i \in Ids |-> NoContainer]
    /\ deletePc = [h \in Handlers |-> "idle"]
    /\ target = [h \in Handlers |-> NoRow]
    /\ record = [h \in Handlers |-> NoContainer]
    /\ recPc = "listing" /\ snapshot = NoRows
    /\ live = {} /\ orphans = {} /\ strayVolumes = {} /\ failures = 0
    /\ leftovers = [containers |-> {}, rows |-> {}, volumes |-> {}]
    /\ contested = {} /\ faults = 0 /\ restarts = 0

(* One more of the failures the environment may cause. *)
Fault == faults < MaxFaults /\ faults' = faults + 1

(* Deviation: no 404 for an id that has no row. *)
AnyId(i) == TRUE

(* repository.get(id) !== undefined *)
Known(i) == containerId[i] # NoRow

(* A container `docker ps -a` shows, whatever its state. *)
Exists(c) == docker[c] \in {"created", "running", "exited", "removing"}

(* Deviation: `docker ps` without `all: true`. *)
ManagedRunning == {c \in Containers : docker[c] = "running"}

(* listManagedContainers *)
Managed == {c \in Containers : Exists(c)}

Vanishes(c) ==
    /\ docker' = [docker EXCEPT ![c] = IF @ = "unused" THEN @ ELSE "gone"]
    /\ contested' = contested \ ({c} \X Callers)

(* removeContainer is waited for.  Which of its orphans the pass is at is  *)
(* left open.                                                              *)
RemovalCalled(c) ==
    \/ \E h \in Handlers : deletePc[h] = "removing" /\ record[h] = c
    \/ \E i \in Ids : createPc[i] \in {"unstarting", "unattaching"}
                     /\ made[i] = c
    \/ recPc = "sweeping" /\ c \in orphans

(* The daemon is at it for a caller of before, or for another one of now:  *)
(* its answer to one more removal is 409.                                  *)
InProgress(c) ==
    docker[c] = "removing" \/ (Exists(c) /\ RemovalCalled(c)')

(* Deviation: `force: false`.  The 409 that refuses a running container is *)
(* swallowed with the others.                                              *)
RemoveUnforced(c, caller) ==
    /\ docker' = [docker EXCEPT ![c] =
                     IF @ \in {"unused", "running"} THEN @ ELSE "gone"]
    /\ UNCHANGED contested

(* remove({ force: true, v: true }), as isGone reads its answers.  404 is  *)
(* the outcome the caller wanted.  409 is taken for it: the container is   *)
(* still there, and the removal under way may yet fail.                    *)
RemoveContainer(c, caller) ==
    \/ docker[c] # "removing" /\ Vanishes(c)
    \/ /\ InProgress(c)
       /\ contested' = contested \cup {<<c, caller>>}
       /\ UNCHANGED docker

-----------------------------------------------------------------------------
(* POST /instances: create                                                 *)

GoTo(i, pc) == createPc' = [createPc EXCEPT ![i] = pc]

(* Up to the first await: template and choice have been accepted, the row  *)
(* is inserted with container_id NULL, createContainer is on its way.  A   *)
(* refused request changes nothing and is no step.                         *)
CreateRow(i) ==
    /\ createPc[i] = "unborn"
    /\ containerId' = [containerId EXCEPT ![i] = NoContainer]
    /\ GoTo(i, "creating")
    /\ UNCHANGED <<dockerVars, made, deleteVars, recVars, processVars, contested,
                   faults>>

DockerCreates(i) ==
    /\ createPc[i] = "creating"
    /\ \E c \in Containers :
          /\ docker[c] = "unused"
          /\ docker' = [docker EXCEPT ![c] = "created"]
          /\ label' = [label EXCEPT ![c] = i]
          /\ made' = [made EXCEPT ![i] = c]
    /\ GoTo(i, "created")
    /\ UNCHANGED <<containerId, contested, faults>>

(* The daemon refuses; the catch block takes the row back.                 *)
CreateFails(i) ==
    /\ createPc[i] = "creating"
    /\ containerId' = [containerId EXCEPT ![i] = NoRow]
    /\ GoTo(i, "failed") /\ Fault
    /\ UNCHANGED <<docker, label, made, contested>>

DockerStarts(i) ==
    /\ createPc[i] = "created" /\ docker[made[i]] = "created"
    /\ docker' = [docker EXCEPT ![made[i]] = "running"]
    /\ GoTo(i, "started")
    /\ UNCHANGED <<containerId, label, made, contested, faults>>

(* ... because the daemon does, or because somebody removed the container, *)
(* or is about to, or tried to.                                            *)
StartFails(i) ==
    /\ createPc[i] = "created"
    /\ \/ docker[made[i]] = "created" /\ Fault
       \/ docker[made[i]] # "created" /\ UNCHANGED faults
    /\ GoTo(i, "unstarting")
    /\ UNCHANGED <<containerId, docker, label, made, contested>>

(* Deviations: an upsert; the first running container instead of one's own. *)
AttachedUpsert(i) == made[i]
AttachedFirst(i) ==
    CHOOSE c \in Containers : docker[c] = "running" \/ c = made[i]

(* attachContainer is an UPDATE: it does not bring a deleted row back, and *)
(* the create succeeds all the same.                                       *)
Attached(i) == IF Known(i) THEN made[i] ELSE NoRow

Attach(i) ==
    /\ createPc[i] = "started"
    /\ containerId' = [containerId EXCEPT ![i] = Attached(i)]
    /\ GoTo(i, "done")
    /\ UNCHANGED <<docker, label, made, contested, faults>>

AttachFails(i) ==
    /\ createPc[i] = "started"
    /\ GoTo(i, "unattaching") /\ Fault
    /\ UNCHANGED <<containerId, docker, label, made, contested>>

(* Both failure paths remove the container before they delete the row.     *)
Cleanup(i) ==
    /\ createPc[i] \in {"unstarting", "unattaching"}
    /\ GoTo(i, "rollback")
    /\ UNCHANGED <<containerId, label, made, faults>>
    /\ RemoveContainer(made[i], "create")

(* That removal fails.  Out of runContainer its error still reaches the    *)
(* catch block that deletes the row; out of the attach's own catch block   *)
(* it leaves create, and the row stays behind without its container.       *)
CleanupFails(i) ==
    /\ createPc[i] \in {"unstarting", "unattaching"}
    /\ containerId' = [containerId EXCEPT
                         ![i] = IF createPc[i] = "unstarting" THEN NoRow ELSE @]
    /\ GoTo(i, "leaked") /\ Fault
    /\ UNCHANGED <<docker, label, made, contested>>

Rollback(i) ==
    /\ createPc[i] = "rollback"
    /\ containerId' = [containerId EXCEPT ![i] = NoRow]
    /\ GoTo(i, "failed")
    /\ UNCHANGED <<docker, label, made, contested, faults>>

(* What a create that has begun does by itself.                            *)
CreateStep(i) ==
    /\ UNCHANGED <<volumes, deleteVars, recVars, processVars>>
    /\ \/ DockerCreates(i) \/ CreateFails(i)
       \/ DockerStarts(i)  \/ StartFails(i)
       \/ Attach(i)        \/ AttachFails(i)
       \/ Cleanup(i)       \/ CleanupFails(i)
       \/ Rollback(i)

-----------------------------------------------------------------------------
(* DELETE /instances/:id: delete                                           *)

Proceed(h, pc) ==
    /\ deletePc' = [deletePc EXCEPT ![h] = pc]
    /\ UNCHANGED <<target, record>>

Finish(h) ==
    /\ deletePc' = [deletePc EXCEPT ![h] = "idle"]
    /\ target' = [target EXCEPT ![h] = NoRow]
    /\ record' = [record EXCEPT ![h] = NoContainer]

(* The row is read once; its container_id decides whether a container is   *)
(* removed at all.  An unknown id is a 404 and no step.                    *)
DeleteBegin(h, i) ==
    /\ deletePc[h] = "idle" /\ Known(i)
    /\ deletePc' = [deletePc EXCEPT ![h] =
                      IF containerId[i] = NoContainer THEN "listing"
                      ELSE "removing"]
    /\ target' = [target EXCEPT ![h] = i]
    /\ record' = [record EXCEPT ![h] = containerId[i]]
    /\ UNCHANGED <<containerId, dockerVars, createVars, recVars, processVars,
                   contested, faults>>

DeleteContainer(h) ==
    /\ deletePc[h] = "removing"
    /\ Proceed(h, "listing")
    /\ UNCHANGED <<containerId, volumes, faults>>
    /\ RemoveContainer(record[h], "delete")

(* volumesOf: the labelled volumes of this instance, as they are now.      *)
DeleteListsVolumes(h) ==
    /\ deletePc[h] = "listing"
    /\ Proceed(h, IF target[h] \in volumes THEN "volume" ELSE "row")
    /\ UNCHANGED <<containerId, docker, volumes, contested, faults>>

DeleteVolume(h) ==
    /\ deletePc[h] = "volume"
    /\ volumes' = volumes \ {target[h]}
    /\ Proceed(h, "row")
    /\ UNCHANGED <<containerId, docker, contested, faults>>

(* The row goes last: DELETE ... WHERE id = ?, whatever the row says now.  *)
DeleteRow(h) ==
    /\ deletePc[h] = "row"
    /\ containerId' = [containerId EXCEPT ![target[h]] = NoRow]
    /\ Finish(h)
    /\ UNCHANGED <<docker, volumes, contested, faults>>

(* Any of the three Docker calls fails: the row survives for another try.  *)
DeleteFails(h) ==
    /\ deletePc[h] \in {"removing", "listing", "volume"}
    /\ Finish(h) /\ Fault
    /\ UNCHANGED <<containerId, docker, volumes, contested>>

DeleteStep(h) ==
    /\ UNCHANGED <<label, createVars, recVars, processVars>>
    /\ \/ DeleteContainer(h) \/ DeleteListsVolumes(h) \/ DeleteVolume(h)
       \/ DeleteRow(h)       \/ DeleteFails(h)

-----------------------------------------------------------------------------
(* The startup reconcile                                                   *)

(* Deviation: a container whose label names a row of the snapshot is kept. *)
ClaimedByLabel(c) == label[c] \in Ids /\ snapshot[label[c]] # NoRow

(* A row of the snapshot points at this container, and it is the row the   *)
(* container's label names.                                                *)
Claimed(c) == label[c] \in Ids /\ snapshot[label[c]] = c

(* Every managed container, stopped ones too, held against the snapshot.   *)
RecLists ==
    /\ recPc = "listing"
    /\ live' = {c \in Managed : Claimed(c)}
    /\ orphans' = {c \in Managed : ~Claimed(c)}
    /\ recPc' = "sweeping"
    /\ UNCHANGED <<containerId, docker, volumes, snapshot, strayVolumes,
                   failures, contested, faults>>

(* A list call fails: the pass is abandoned until the next start.          *)
RecSkips ==
    /\ recPc \in {"listing", "listingVolumes"}
    /\ recPc' = "skipped" /\ snapshot' = NoRows /\ Fault
    /\ UNCHANGED <<containerId, docker, volumes, live, orphans, strayVolumes,
                   failures, contested>>

(* Whatever the row says by now: the pass decided on its snapshot.  A      *)
(* removal that fails is recorded, and the pass goes on; one that is       *)
(* answered 409 counts as done.                                            *)
RecRemoves(c) ==
    /\ recPc = "sweeping" /\ c \in orphans
    /\ orphans' = orphans \ {c}
    /\ UNCHANGED <<containerId, volumes, recPc, snapshot, live, strayVolumes>>
    /\ \/ RemoveContainer(c, "reconcile") /\ UNCHANGED <<failures, faults>>
       \/ /\ UNCHANGED <<docker, contested>>
          /\ failures' = failures + 1 /\ Fault

(* Rows whose container was not in the list forget it: detachContainer for *)
(* each, in one synchronous loop over the snapshot.                        *)
RecDetaches ==
    /\ recPc = "sweeping" /\ orphans = {}
    /\ containerId' = [i \in Ids |->
          IF snapshot[i] \in Containers \ live /\ containerId[i] \in Containers
          THEN NoContainer ELSE containerId[i]]
    /\ recPc' = "listingVolumes" /\ live' = {}
    /\ UNCHANGED <<docker, volumes, snapshot, orphans, strayVolumes, failures,
                   contested, faults>>

RecListsVolumes ==
    /\ recPc = "listingVolumes"
    /\ strayVolumes' = {i \in volumes : snapshot[i] = NoRow}
    /\ recPc' = "sweepingVolumes"
    /\ UNCHANGED <<containerId, docker, volumes, snapshot, live, orphans,
                   failures, contested, faults>>

RecRemovesVolume(i) ==
    /\ recPc = "sweepingVolumes" /\ i \in strayVolumes
    /\ strayVolumes' = strayVolumes \ {i}
    /\ \/ volumes' = volumes \ {i} /\ UNCHANGED <<failures, faults>>
       \/ UNCHANGED volumes /\ failures' = failures + 1 /\ Fault
    /\ UNCHANGED <<containerId, docker, recPc, snapshot, live, orphans,
                   contested>>

RecEnds ==
    /\ recPc = "sweepingVolumes" /\ strayVolumes = {}
    /\ recPc' = "done" /\ snapshot' = NoRows
    /\ UNCHANGED <<containerId, docker, volumes, live, orphans, strayVolumes,
                   failures, contested, faults>>

ReconcileStep ==
    /\ UNCHANGED <<label, createVars, deleteVars, processVars>>
    /\ \/ RecLists \/ RecSkips \/ RecDetaches \/ RecListsVolumes \/ RecEnds
       \/ \E c \in Containers : RecRemoves(c)
       \/ \E i \in Ids : RecRemovesVolume(i)

-----------------------------------------------------------------------------
(* The rest of the world                                                   *)

(* stop, start: one Docker call on the container the row names.            *)
Switch(i, from, to) ==
    /\ containerId[i] \in Containers /\ docker[containerId[i]] = from
    /\ docker' = [docker EXCEPT ![containerId[i]] = to]
    /\ UNCHANGED <<volumes, contested, faults>>

StopContainer(i) == Switch(i, "running", "exited")
StartContainer(i) == Switch(i, "exited", "running")

(* A container ends by itself: the OOM killer, an entrypoint that failed.  *)
ContainerExits(c) ==
    /\ docker[c] = "running"
    /\ docker' = [docker EXCEPT ![c] = "exited"]
    /\ UNCHANGED <<volumes, contested, faults>>

(* `docker rm -f` by hand begins ...                                       *)
RemovedByHand(c) ==
    /\ Exists(c) /\ docker[c] # "removing"
    /\ docker' = [docker EXCEPT ![c] = "removing"]
    /\ UNCHANGED <<volumes, contested, faults>>

(* ... and ends, as a removal does that the process before this one asked  *)
(* for: with -v or without, or in an error.                                *)
RemovalEnds(c) ==
    /\ docker[c] = "removing"
    /\ \/ /\ Vanishes(c)
          /\ volumes' \in {volumes, volumes \cup {label[c]}}
          /\ UNCHANGED faults
       \/ /\ docker' = [docker EXCEPT ![c] = "exited"]
          /\ UNCHANGED <<volumes, contested>> /\ Fault

Outside ==
    /\ \/ \E i \in Ids : StopContainer(i) \/ StartContainer(i)
       \/ \E c \in Containers :
              ContainerExits(c) \/ RemovedByHand(c) \/ RemovalEnds(c)
    /\ UNCHANGED <<containerId, label, createVars, deleteVars, recVars,
                   processVars>>

(* The process dies and a new one starts.  Handlers end where they are.    *)
(* onReady calls reconcile before the first request can arrive, and        *)
(* reconcile reads the rows before its first await: the same step.  The    *)
(* daemon goes on with any removal it was asked for.                       *)
Restart ==
    /\ restarts < MaxRestarts /\ restarts' = restarts + 1
    /\ createPc' = [i \in Ids |->
          IF createPc[i] \in CreateEnded \cup {"unborn"} THEN createPc[i]
          ELSE "dead"]
    /\ deletePc' = [h \in Handlers |-> "idle"]
    /\ target' = [h \in Handlers |-> NoRow]
    /\ record' = [h \in Handlers |-> NoContainer]
    /\ recPc' = "listing" /\ snapshot' = containerId
    /\ live' = {} /\ orphans' = {} /\ strayVolumes' = {} /\ failures' = 0
    /\ leftovers' =
          [containers |-> {c \in Containers : /\ Exists(c)
                                              /\ containerId[label[c]] # c},
           rows |-> {i \in Ids : /\ containerId[i] \in Containers
                                 /\ ~Exists(containerId[i])},
           volumes |-> {i \in volumes : ~Known(i)}]
    /\ \E S \in SUBSET {c \in Containers : Exists(c) /\ RemovalCalled(c)} :
          docker' = [c \in Containers |->
                        IF c \in S THEN "removing" ELSE docker[c]]
    /\ contested' = contested \cap (Containers \X {"create"})
    /\ UNCHANGED <<containerId, label, volumes, made, faults>>

-----------------------------------------------------------------------------

Next ==
    \/ \E i \in Ids : CreateRow(i) \/ CreateStep(i)
    \/ \E h \in Handlers : DeleteStep(h) \/ \E i \in Ids : DeleteBegin(h, i)
    \/ ReconcileStep
    \/ Outside
    \/ Restart

Spec == Init /\ [][Next]_vars

-----------------------------------------------------------------------------
(* Properties                                                              *)

(* A row never names a container that was made for another instance, so no *)
(* two rows ever name the same one: the unique index on container_id never *)
(* throws, and a DELETE never removes somebody else's workspace            *)
(* (db/instances.ts attachContainer, service.ts delete).                   *)
OwnContainer ==
    \A i \in Ids : containerId[i] \in Containers =>
        label[containerId[i]] = i /\ docker[containerId[i]] # "unused"

(* "Container first: if the removal fails the row survives": by the time a *)
(* DELETE that read a container id goes on to the volumes and the row,     *)
(* that container is gone, whoever else was deleting, sweeping or failing  *)
(* meanwhile (service.ts delete).  The exception, which that comment does  *)
(* not make: a DELETE whose removal was answered 409 because another one   *)
(* was under way goes on as well, and if that one fails the row is deleted *)
(* before a container that stays (dockerode-engine.ts isGone).             *)
RowOutlivesContainer ==
    \A h \in Handlers :
        deletePc[h] \in {"listing", "volume", "row"} /\ record[h] \in Containers
            => \/ docker[record[h]] = "gone"
               \/ <<record[h], "delete">> \in contested

(* A create that failed and could clean up after itself leaves neither a   *)
(* row nor a container, also when a reconcile or a DELETE worked on the    *)
(* same instance in between (service.ts create, both catch blocks); except *)
(* where its removal met another one under way, and that one failed.       *)
FailedCreateLeavesNothing ==
    \A i \in Ids : createPc[i] = "failed" =>
        /\ ~Known(i)
        /\ \A c \in Containers :
              Exists(c) /\ label[c] = i => <<c, "create">> \in contested

(* The three leftovers reconcile names: once a pass has ended without a    *)
(* failed removal, every container nobody claimed when the process began   *)
(* is gone, so is every volume without an instance, and every row whose    *)
(* container was gone says so (service.ts reconcile); except a container   *)
(* whose removal was under way already, which counts as removed.           *)
ReconcileRestores ==
    recPc = "done" /\ failures = 0 =>
        /\ \A c \in leftovers.containers :
              docker[c] = "gone" \/ <<c, "reconcile">> \in contested
        /\ \A i \in leftovers.rows : containerId[i] \notin Containers
        /\ leftovers.volumes \cap volumes = {}

(* A row forgets its container only when Docker no longer has it: neither  *)
(* a stopped container nor one attached while the pass was running is      *)
(* mistaken for a missing one (service.ts reconcile, detachContainer).     *)
OnlyMissingDetached ==
    [][\A i \in Ids :
          containerId[i] \in Containers /\ containerId'[i] = NoContainer
              => docker[containerId[i]] = "gone"]_vars

(* Rows and labelled containers together behave like InstanceLife: a       *)
(* deleted row is never revived by a create that is still running, no row  *)
(* is given a second container, and none is told "missing" while its       *)
(* container exists (service.ts create, delete, reconcile).                *)
LifeOf(i) ==
    IF createPc[i] = "unborn" THEN "unborn"
    ELSE IF ~Known(i) THEN "deleted"
    ELSE IF containerId[i] \in Containers THEN "linked"
    ELSE IF createPc[i] = "done" THEN "lost" ELSE "pending"

BoxOf(i) ==
    IF \E c \in Containers : label[c] = i /\ Exists(c) THEN "kept"
    ELSE IF \E c \in Containers : label[c] = i THEN "gone" ELSE "none"

Life == INSTANCE InstanceLife WITH life <- [i \in Ids |-> LifeOf(i)],
                                   box  <- [i \in Ids |-> BoxOf(i)]

ImplementsLife == Life!Spec

(* "a container can never exist without claudops knowing about it"         *)
(* (service.ts create).                                                    *)
NoUnknownContainer ==
    \A c \in Containers : Exists(c) => Known(label[c])

=============================================================================
