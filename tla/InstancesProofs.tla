--------------------------- MODULE InstancesProofs ---------------------------
(***************************************************************************)
(* The safety of Instances for every set of ids, containers and handlers   *)
(* and every number of faults and restarts.  IInv is what an action needs  *)
(* to know about the state it starts from; each property is a part of it,  *)
(* follows from it, or is an action that IInv makes harmless.              *)
(***************************************************************************)
EXTENDS Instances, TLAPS

(* What `made` holds while the create that set it still uses it.           *)
HoldsContainer == {"created", "started", "unstarting", "unattaching"}

MadeOwn ==
    \A i \in Ids : createPc[i] \in HoldsContainer =>
        /\ made[i] \in Containers
        /\ label[made[i]] = i
        /\ docker[made[i]] # "unused"

(* Only a create labels a container, and it makes one.                     *)
Solo ==
    \A c \in Containers : label[c] \in Ids =>
        /\ createPc[label[c]] \notin {"unborn", "creating"}
        /\ made[label[c]] = c

(* A container in use has a label: the sweep never meets another.          *)
UsedLabelled ==
    \A c \in Containers : (docker[c] # "unused") <=> (label[c] \in Ids)

(* Only a create that ran to its end has attached anything.                *)
AttachedDone ==
    \A i \in Ids : containerId[i] \in Containers => createPc[i] = "done"

(* The snapshot may be old, but what it saw attached was attached for good.*)
SnapshotOwn ==
    \A i \in Ids : snapshot[i] \in Containers =>
        /\ createPc[i] = "done"
        /\ label[snapshot[i]] = i
        /\ docker[snapshot[i]] # "unused"
        /\ containerId[i] \in Containers => containerId[i] = snapshot[i]

(* After the listing, a snapshot row whose container is not `live` names a *)
(* container that is gone, and gone it stays.                              *)
NotLiveIsGone ==
    recPc = "sweeping" =>
        \A i \in Ids : snapshot[i] \in Containers \ live
            => docker[snapshot[i]] = "gone"

(* A DELETE in flight removes a container that Docker really made.         *)
RecordUsed ==
    \A h \in Handlers :
        /\ record[h] \in Containers => docker[record[h]] # "unused"
        /\ deletePc[h] = "removing" => record[h] \in Containers

(* A create that is about to fail cleanly has nothing left in Docker, or   *)
(* was told that somebody is removing it.                                  *)
RolledBack ==
    \A i \in Ids : createPc[i] \in {"rollback", "failed"} =>
        \A c \in Containers : label[c] = i =>
            docker[c] = "gone" \/ <<c, "create">> \in contested

FailedUnknown ==
    \A i \in Ids : createPc[i] \in {"unborn", "failed"} => ~Known(i)

(* Which container belongs to whom; how far each create has got with it;   *)
(* what the removals in flight rely on.                                    *)
Ownership == OwnContainer /\ SnapshotOwn /\ AttachedDone /\ FailedUnknown
Making    == MadeOwn /\ Solo /\ UsedLabelled /\ RolledBack
Removing  == RecordUsed /\ RowOutlivesContainer /\ NotLiveIsGone

IInv == TypeOK /\ Ownership /\ Making /\ Removing

-----------------------------------------------------------------------------
(* Type correctness                                                        *)

LEMMA InitTypeOK == Init => TypeOK
  BY SentinelAssumption, BoundAssumption
     DEF Init, TypeOK, NoRows, Rows, DockerStates, CreatePcs, DeletePcs, RecPcs

LEMMA RemovalType ==
  ASSUME TypeOK, NEW c \in Containers, NEW who \in Callers,
         RemoveContainer(c, who)
  PROVE  /\ docker' \in [Containers -> DockerStates]
         /\ contested' \subseteq Containers \X Callers
  BY DEF TypeOK, DockerStates, RemoveContainer, Vanishes

LEMMA CreateTypeOK ==
  ASSUME TypeOK, MadeOwn, NEW i \in Ids, CreateRow(i) \/ CreateStep(i)
  PROVE  TypeOK'
<1> USE DEF TypeOK, Rows, DockerStates, CreatePcs, CreateEnded, Fault, GoTo,
            dockerVars, deleteVars, recVars, processVars
<1>1. CASE CreateRow(i)
  BY <1>1 DEF CreateRow
<1>2. CASE CreateStep(i)
  <2> USE <1>2 DEF CreateStep
  <2>1. CASE DockerCreates(i)
    BY <2>1 DEF DockerCreates
  <2>2. CASE CreateFails(i)
    BY <2>2 DEF CreateFails
  <2>3. CASE DockerStarts(i)
    BY <2>3 DEF DockerStarts
  <2>4. CASE StartFails(i)
    BY <2>4 DEF StartFails
  <2>5. CASE Attach(i)
    BY <2>5 DEF Attach, Attached, Known
  <2>6. CASE AttachFails(i)
    BY <2>6 DEF AttachFails
  <2>7. CASE Cleanup(i)
    <3>1. made[i] \in Containers
      BY <2>7 DEF Cleanup, MadeOwn, HoldsContainer
    <3>2. /\ docker' \in [Containers -> DockerStates]
          /\ contested' \subseteq Containers \X Callers
      BY <2>7, <3>1, RemovalType DEF Cleanup, Callers
    <3> QED
      BY <2>7, <3>2 DEF Cleanup
  <2>8. CASE CleanupFails(i)
    BY <2>8 DEF CleanupFails
  <2>9. CASE Rollback(i)
    BY <2>9 DEF Rollback
  <2> QED
    BY <2>1, <2>2, <2>3, <2>4, <2>5, <2>6, <2>7, <2>8, <2>9
<1> QED
  BY <1>1, <1>2

LEMMA DeleteTypeOK ==
  ASSUME TypeOK, RecordUsed, NEW h \in Handlers,
         DeleteStep(h) \/ \E i \in Ids : DeleteBegin(h, i)
  PROVE  TypeOK'
<1> USE DEF TypeOK, Rows, DockerStates, DeletePcs, Fault, dockerVars,
            createVars,
            recVars, processVars, Proceed, Finish
<1>1. ASSUME NEW i \in Ids, DeleteBegin(h, i)
      PROVE  TypeOK'
  BY <1>1 DEF DeleteBegin, Known
<1>2. CASE DeleteStep(h)
  <2> USE <1>2 DEF DeleteStep
  <2>1. CASE DeleteContainer(h)
    <3>1. record[h] \in Containers
      BY <2>1 DEF DeleteContainer, RecordUsed
    <3>2. /\ docker' \in [Containers -> DockerStates]
          /\ contested' \subseteq Containers \X Callers
      BY <2>1, <3>1, RemovalType DEF DeleteContainer, Callers
    <3> QED
      BY <2>1, <3>2 DEF DeleteContainer
  <2>2. CASE DeleteListsVolumes(h)
    BY <2>2 DEF DeleteListsVolumes
  <2>3. CASE DeleteVolume(h)
    BY <2>3 DEF DeleteVolume
  <2>4. CASE DeleteRow(h)
    BY <2>4 DEF DeleteRow
  <2>5. CASE DeleteFails(h)
    BY <2>5 DEF DeleteFails
  <2> QED
    BY <2>1, <2>2, <2>3, <2>4, <2>5
<1> QED
  BY <1>1, <1>2

LEMMA ReconcileTypeOK ==
  ASSUME TypeOK, ReconcileStep
  PROVE  TypeOK'
<1> USE ReconcileStep
    DEF TypeOK, Rows, DockerStates, RecPcs, NoRows, Fault, createVars,
        deleteVars,
        processVars, ReconcileStep
<1>1. CASE RecLists
  BY <1>1 DEF RecLists, Managed
<1>2. CASE RecSkips
  BY <1>2 DEF RecSkips
<1>3. CASE RecDetaches
  BY <1>3 DEF RecDetaches
<1>4. CASE RecListsVolumes
  BY <1>4 DEF RecListsVolumes
<1>5. CASE RecEnds
  BY <1>5 DEF RecEnds
<1>6. ASSUME NEW c \in Containers, RecRemoves(c)
      PROVE  TypeOK'
  <2>1. /\ docker' \in [Containers -> DockerStates]
        /\ contested' \subseteq Containers \X Callers
    BY <1>6, RemovalType DEF RecRemoves, Callers
  <2> QED
    BY <1>6, <2>1 DEF RecRemoves
<1>7. ASSUME NEW i \in Ids, RecRemovesVolume(i)
      PROVE  TypeOK'
  BY <1>7 DEF RecRemovesVolume
<1> QED
  BY <1>1, <1>2, <1>3, <1>4, <1>5, <1>6, <1>7

LEMMA OutsideTypeOK ==
  ASSUME TypeOK, UsedLabelled, Outside
  PROVE  TypeOK'
<1> USE Outside
    DEF TypeOK, Rows, DockerStates, createVars, deleteVars, recVars,
        processVars,
        Outside
<1>1. ASSUME NEW i \in Ids, StopContainer(i) \/ StartContainer(i)
      PROVE  TypeOK'
  BY <1>1 DEF StopContainer, StartContainer, Switch
<1>2. ASSUME NEW c \in Containers, ContainerExits(c)
      PROVE  TypeOK'
  BY <1>2 DEF ContainerExits
<1>3. ASSUME NEW c \in Containers, RemovedByHand(c)
      PROVE  TypeOK'
  BY <1>3 DEF RemovedByHand
<1>4. ASSUME NEW c \in Containers, RemovalEnds(c)
      PROVE  TypeOK'
  BY <1>4 DEF RemovalEnds, Vanishes, UsedLabelled, Fault
<1> QED
  BY <1>1, <1>2, <1>3, <1>4

LEMMA RestartTypeOK ==
  ASSUME TypeOK, Restart
  PROVE  TypeOK'
  BY DEF TypeOK, Restart, Rows, DockerStates, CreatePcs, CreateEnded,
         DeletePcs, RecPcs

-----------------------------------------------------------------------------
(* The inductive step                                                      *)

LEMMA InitIInv == Init => IInv
<1> SUFFICES ASSUME Init
             PROVE  IInv
  OBVIOUS
<1>1. TypeOK
  BY InitTypeOK
<1>2. Ownership /\ Making /\ Removing
  BY SentinelAssumption
     DEF Init, NoRows, Ownership, OwnContainer, SnapshotOwn, AttachedDone,
         FailedUnknown, Making, MadeOwn, Solo, UsedLabelled, RolledBack,
         Removing, RecordUsed,
         RowOutlivesContainer, NotLiveIsGone, HoldsContainer, Known
<1> QED
  BY <1>1, <1>2 DEF IInv

LEMMA CreateIInv ==
  ASSUME IInv, NEW i \in Ids, CreateRow(i) \/ CreateStep(i)
  PROVE  IInv'
<1> USE SentinelAssumption
    DEF IInv, TypeOK, Rows, DockerStates, HoldsContainer, Known, dockerVars,
        deleteVars, recVars, processVars
<1>0. TypeOK'
  BY CreateTypeOK DEF Making
<1>1. CASE CreateRow(i)
  <2>1. Ownership'
    BY <1>1
       DEF Ownership, OwnContainer, SnapshotOwn, AttachedDone, FailedUnknown,
           CreateRow, GoTo
  <2>2. Making'
    BY <1>1 DEF Making, MadeOwn, Solo, UsedLabelled, RolledBack, CreateRow,
                GoTo
  <2>3. Removing'
    BY <1>1
       DEF Removing, RecordUsed, RowOutlivesContainer, NotLiveIsGone,
           CreateRow, GoTo
  <2> QED
    BY <1>0, <2>1, <2>2, <2>3 DEF IInv
<1>2. CASE CreateStep(i)
  <2>0. UNCHANGED <<volumes, deleteVars, recVars, processVars>>
    BY <1>2 DEF CreateStep
  <2>1. CASE DockerCreates(i)
    <3>1. Ownership'
      BY <2>0, <2>1
         DEF Ownership, OwnContainer, SnapshotOwn, AttachedDone, FailedUnknown,
             DockerCreates, GoTo
    <3>2. Making'
      BY <2>0, <2>1
         DEF Making, MadeOwn, Solo, UsedLabelled, RolledBack, DockerCreates,
             GoTo
    <3>3. Removing'
      BY <2>0, <2>1
         DEF Removing, RecordUsed, RowOutlivesContainer, NotLiveIsGone,
             DockerCreates, GoTo
    <3> QED
      BY <1>0, <3>1, <3>2, <3>3 DEF IInv
  <2>2. CASE CreateFails(i)
    <3>1. Ownership'
      BY <2>0, <2>2
         DEF Ownership, OwnContainer, SnapshotOwn, AttachedDone, FailedUnknown,
             CreateFails, GoTo
    <3>2. Making'
      BY <2>0, <2>2
         DEF Making, MadeOwn, Solo, UsedLabelled, RolledBack, CreateFails, GoTo
    <3>3. Removing'
      BY <2>0, <2>2
         DEF Removing, RecordUsed, RowOutlivesContainer, NotLiveIsGone,
             CreateFails, GoTo
    <3> QED
      BY <1>0, <3>1, <3>2, <3>3 DEF IInv
  <2>3. CASE DockerStarts(i)
    <3>1. Ownership'
      BY <2>0, <2>3
         DEF Ownership, OwnContainer, SnapshotOwn, AttachedDone, FailedUnknown,
             DockerStarts, GoTo
    <3>2. Making'
      BY <2>0, <2>3
         DEF Making, MadeOwn, Solo, UsedLabelled, RolledBack, DockerStarts,
             GoTo
    <3>3. Removing'
      BY <2>0, <2>3
         DEF Removing, RecordUsed, RowOutlivesContainer, NotLiveIsGone,
             DockerStarts, GoTo
    <3> QED
      BY <1>0, <3>1, <3>2, <3>3 DEF IInv
  <2>4. CASE StartFails(i)
    <3>1. Ownership'
      BY <2>0, <2>4
         DEF Ownership, OwnContainer, SnapshotOwn, AttachedDone, FailedUnknown,
             StartFails, GoTo
    <3>2. Making'
      BY <2>0, <2>4
         DEF Making, MadeOwn, Solo, UsedLabelled, RolledBack, StartFails, GoTo
    <3>3. Removing'
      BY <2>0, <2>4
         DEF Removing, RecordUsed, RowOutlivesContainer, NotLiveIsGone,
             StartFails, GoTo
    <3> QED
      BY <1>0, <3>1, <3>2, <3>3 DEF IInv
  <2>5. CASE Attach(i)
    <3>1. Ownership'
      BY <2>0, <2>5
         DEF Ownership, OwnContainer, SnapshotOwn, AttachedDone, FailedUnknown,
             Making, MadeOwn, Attach, GoTo, Attached
    <3>2. Making'
      BY <2>0, <2>5
         DEF Making, MadeOwn, Solo, UsedLabelled, RolledBack, Attach, GoTo,
             Attached
    <3>3. Removing'
      BY <2>0, <2>5
         DEF Removing, RecordUsed, RowOutlivesContainer, NotLiveIsGone, Attach,
             GoTo, Attached
    <3> QED
      BY <1>0, <3>1, <3>2, <3>3 DEF IInv
  <2>6. CASE AttachFails(i)
    <3>1. Ownership'
      BY <2>0, <2>6
         DEF Ownership, OwnContainer, SnapshotOwn, AttachedDone, FailedUnknown,
             AttachFails, GoTo
    <3>2. Making'
      BY <2>0, <2>6
         DEF Making, MadeOwn, Solo, UsedLabelled, RolledBack, AttachFails, GoTo
    <3>3. Removing'
      BY <2>0, <2>6
         DEF Removing, RecordUsed, RowOutlivesContainer, NotLiveIsGone,
             AttachFails, GoTo
    <3> QED
      BY <1>0, <3>1, <3>2, <3>3 DEF IInv
  <2>7. CASE Cleanup(i)
    <3>1. Ownership'
      BY <2>0, <2>7
         DEF Ownership, OwnContainer, SnapshotOwn, AttachedDone, FailedUnknown,
             Cleanup, GoTo, RemoveContainer, Vanishes
    <3>2. Making'
      BY <2>0, <2>7
         DEF Making, MadeOwn, Solo, UsedLabelled, RolledBack, Cleanup, GoTo,
             RemoveContainer, Vanishes
    <3>3. Removing'
      BY <2>0, <2>7
         DEF Removing, RecordUsed, RowOutlivesContainer, NotLiveIsGone,
             Cleanup,
             GoTo, RemoveContainer, Vanishes
    <3> QED
      BY <1>0, <3>1, <3>2, <3>3 DEF IInv
  <2>8. CASE CleanupFails(i)
    <3>1. Ownership'
      BY <2>0, <2>8
         DEF Ownership, OwnContainer, SnapshotOwn, AttachedDone, FailedUnknown,
             CleanupFails, GoTo
    <3>2. Making'
      BY <2>0, <2>8
         DEF Making, MadeOwn, Solo, UsedLabelled, RolledBack, CleanupFails,
             GoTo
    <3>3. Removing'
      BY <2>0, <2>8
         DEF Removing, RecordUsed, RowOutlivesContainer, NotLiveIsGone,
             CleanupFails, GoTo
    <3> QED
      BY <1>0, <3>1, <3>2, <3>3 DEF IInv
  <2>9. CASE Rollback(i)
    <3>1. Ownership'
      BY <2>0, <2>9
         DEF Ownership, OwnContainer, SnapshotOwn, AttachedDone, FailedUnknown,
             Rollback, GoTo
    <3>2. Making'
      BY <2>0, <2>9
         DEF Making, MadeOwn, Solo, UsedLabelled, RolledBack, Rollback, GoTo
    <3>3. Removing'
      BY <2>0, <2>9
         DEF Removing, RecordUsed, RowOutlivesContainer, NotLiveIsGone,
             Rollback, GoTo
    <3> QED
      BY <1>0, <3>1, <3>2, <3>3 DEF IInv
  <2> QED
    BY <1>2, <2>1, <2>2, <2>3, <2>4, <2>5, <2>6, <2>7, <2>8, <2>9
       DEF CreateStep
<1> QED
  BY <1>1, <1>2

LEMMA DeleteIInv ==
  ASSUME IInv, NEW h \in Handlers,
         DeleteStep(h) \/ \E i \in Ids : DeleteBegin(h, i)
  PROVE  IInv'
<1> USE SentinelAssumption
    DEF IInv, TypeOK, Rows, DockerStates, HoldsContainer, Known, dockerVars,
        createVars, recVars, processVars
<1>0. TypeOK'
  BY DeleteTypeOK DEF Removing
<1>1. ASSUME NEW i \in Ids, DeleteBegin(h, i)
      PROVE  IInv'
  <2>1. Removing'
    BY <1>1
       DEF Removing, RecordUsed, RowOutlivesContainer, NotLiveIsGone,
           Ownership,
           OwnContainer, DeleteBegin
  <2>2. Ownership' /\ Making'
    BY <1>1
       DEF Ownership, OwnContainer, SnapshotOwn, AttachedDone, FailedUnknown,
           Making, MadeOwn, Solo, UsedLabelled, RolledBack, DeleteBegin
  <2> QED
    BY <1>0, <2>1, <2>2 DEF IInv
<1>2. CASE DeleteStep(h)
  <2>0. UNCHANGED <<label, createVars, recVars, processVars>>
    BY <1>2 DEF DeleteStep
  <2>1. CASE DeleteContainer(h)
    <3>1. Ownership'
      BY <2>0, <2>1
         DEF Ownership, OwnContainer, SnapshotOwn, AttachedDone, FailedUnknown,
             DeleteContainer, Proceed, RemoveContainer, Vanishes
    <3>2. Making'
      BY <2>0, <2>1
         DEF Making, MadeOwn, Solo, UsedLabelled, RolledBack, DeleteContainer,
             Proceed, RemoveContainer, Vanishes
    <3>3. Removing'
      BY <2>0, <2>1
         DEF Removing, RecordUsed, RowOutlivesContainer, NotLiveIsGone,
             DeleteContainer, Proceed, RemoveContainer, Vanishes
    <3> QED
      BY <1>0, <3>1, <3>2, <3>3 DEF IInv
  <2>2. CASE DeleteListsVolumes(h)
    <3>1. Removing'
      BY <2>0, <2>2
         DEF Removing, RecordUsed, RowOutlivesContainer, NotLiveIsGone,
             DeleteListsVolumes, Proceed
    <3>2. Ownership' /\ Making'
      BY <2>0, <2>2
         DEF Ownership, OwnContainer, SnapshotOwn, AttachedDone, FailedUnknown,
             Making, MadeOwn, Solo, UsedLabelled, RolledBack,
             DeleteListsVolumes, Proceed
    <3> QED
      BY <1>0, <3>1, <3>2 DEF IInv
  <2>3. CASE DeleteVolume(h)
    <3>1. Removing'
      BY <2>0, <2>3
         DEF Removing, RecordUsed, RowOutlivesContainer, NotLiveIsGone,
             DeleteVolume, Proceed
    <3>2. Ownership' /\ Making'
      BY <2>0, <2>3
         DEF Ownership, OwnContainer, SnapshotOwn, AttachedDone, FailedUnknown,
             Making, MadeOwn, Solo, UsedLabelled, RolledBack, DeleteVolume,
             Proceed
    <3> QED
      BY <1>0, <3>1, <3>2 DEF IInv
  <2>4. CASE DeleteRow(h)
    <3>1. Ownership'
      BY <2>0, <2>4
         DEF Ownership, OwnContainer, SnapshotOwn, AttachedDone, FailedUnknown,
             DeleteRow, Finish
    <3>2. Removing'
      BY <2>0, <2>4
         DEF Removing, RecordUsed, RowOutlivesContainer, NotLiveIsGone,
             DeleteRow, Finish
    <3>3. Making'
      BY <2>0, <2>4
         DEF Making, MadeOwn, Solo, UsedLabelled, RolledBack, DeleteRow, Finish
    <3> QED
      BY <1>0, <3>1, <3>2, <3>3 DEF IInv
  <2>5. CASE DeleteFails(h)
    <3>1. Removing'
      BY <2>0, <2>5
         DEF Removing, RecordUsed, RowOutlivesContainer, NotLiveIsGone,
             DeleteFails, Finish
    <3>2. Ownership' /\ Making'
      BY <2>0, <2>5
         DEF Ownership, OwnContainer, SnapshotOwn, AttachedDone, FailedUnknown,
             Making, MadeOwn, Solo, UsedLabelled, RolledBack, DeleteFails,
             Finish
    <3> QED
      BY <1>0, <3>1, <3>2 DEF IInv
  <2> QED
    BY <1>2, <2>1, <2>2, <2>3, <2>4, <2>5 DEF DeleteStep
<1> QED
  BY <1>1, <1>2

LEMMA ReconcileIInv ==
  ASSUME IInv, ReconcileStep
  PROVE  IInv'
<1> USE SentinelAssumption
    DEF IInv, TypeOK, Rows, DockerStates, HoldsContainer, Known, createVars,
        deleteVars, processVars
<1>0. TypeOK' /\ UNCHANGED <<label, createVars, deleteVars, processVars>>
  BY ReconcileTypeOK DEF ReconcileStep
<1>1. CASE RecLists
  <2>1. Removing'
    BY <1>0, <1>1
       DEF Removing, RecordUsed, RowOutlivesContainer, NotLiveIsGone,
           Ownership,
           SnapshotOwn, Making, UsedLabelled, RecLists, Managed, Claimed,
           Exists
  <2>2. Ownership' /\ Making'
    BY <1>0, <1>1
       DEF Ownership, OwnContainer, SnapshotOwn, AttachedDone, FailedUnknown,
           Making, MadeOwn, Solo, UsedLabelled, RolledBack, RecLists, Managed,
           Claimed, Exists
  <2> QED
    BY <1>0, <2>1, <2>2 DEF IInv
<1>2. CASE RecSkips
  <2>1. Ownership'
    BY <1>0, <1>2
       DEF Ownership, OwnContainer, SnapshotOwn, AttachedDone, FailedUnknown,
           RecSkips, NoRows
  <2>2. Removing'
    BY <1>0, <1>2
       DEF Removing, RecordUsed, RowOutlivesContainer, NotLiveIsGone, RecSkips,
           NoRows
  <2>3. Making'
    BY <1>0, <1>2
       DEF Making, MadeOwn, Solo, UsedLabelled, RolledBack, RecSkips, NoRows
  <2> QED
    BY <1>0, <2>1, <2>2, <2>3 DEF IInv
<1>3. CASE RecDetaches
  <2>1. Ownership'
    BY <1>0, <1>3
       DEF Ownership, OwnContainer, SnapshotOwn, AttachedDone, FailedUnknown,
           RecDetaches
  <2>2. Removing'
    BY <1>0, <1>3
       DEF Removing, RecordUsed, RowOutlivesContainer, NotLiveIsGone,
           RecDetaches
  <2>3. Making'
    BY <1>0, <1>3
       DEF Making, MadeOwn, Solo, UsedLabelled, RolledBack, RecDetaches
  <2> QED
    BY <1>0, <2>1, <2>2, <2>3 DEF IInv
<1>4. CASE RecListsVolumes
  <2>1. Removing'
    BY <1>0, <1>4
       DEF Removing, RecordUsed, RowOutlivesContainer, NotLiveIsGone,
           RecListsVolumes
  <2>2. Ownership' /\ Making'
    BY <1>0, <1>4
       DEF Ownership, OwnContainer, SnapshotOwn, AttachedDone, FailedUnknown,
           Making, MadeOwn, Solo, UsedLabelled, RolledBack, RecListsVolumes
  <2> QED
    BY <1>0, <2>1, <2>2 DEF IInv
<1>5. CASE RecEnds
  <2>1. Ownership'
    BY <1>0, <1>5
       DEF Ownership, OwnContainer, SnapshotOwn, AttachedDone, FailedUnknown,
           RecEnds, NoRows
  <2>2. Removing'
    BY <1>0, <1>5
       DEF Removing, RecordUsed, RowOutlivesContainer, NotLiveIsGone, RecEnds,
           NoRows
  <2>3. Making'
    BY <1>0, <1>5
       DEF Making, MadeOwn, Solo, UsedLabelled, RolledBack, RecEnds, NoRows
  <2> QED
    BY <1>0, <2>1, <2>2, <2>3 DEF IInv
<1>6. ASSUME NEW c \in Containers, RecRemoves(c)
      PROVE  IInv'
  <2>1. Ownership'
    BY <1>0, <1>6
       DEF Ownership, OwnContainer, SnapshotOwn, AttachedDone, FailedUnknown,
           RecRemoves, RemoveContainer, Vanishes
  <2>2. Making'
    BY <1>0, <1>6
       DEF Making, MadeOwn, Solo, UsedLabelled, RolledBack, RecRemoves,
           RemoveContainer, Vanishes
  <2>3. Removing'
    BY <1>0, <1>6
       DEF Removing, RecordUsed, RowOutlivesContainer, NotLiveIsGone,
           RecRemoves, RemoveContainer, Vanishes
  <2> QED
    BY <1>0, <2>1, <2>2, <2>3 DEF IInv
<1>7. ASSUME NEW i \in Ids, RecRemovesVolume(i)
      PROVE  IInv'
  <2>1. Ownership' /\ Making' /\ Removing'
    BY <1>0, <1>7
       DEF Ownership, OwnContainer, SnapshotOwn, AttachedDone, FailedUnknown,
           Making, MadeOwn, Solo, UsedLabelled, RolledBack, Removing,
           RecordUsed, RowOutlivesContainer, NotLiveIsGone, RecRemovesVolume
  <2> QED
    BY <1>0, <2>1 DEF IInv
<1> QED
  BY <1>1, <1>2, <1>3, <1>4, <1>5, <1>6, <1>7 DEF ReconcileStep

LEMMA OutsideIInv ==
  ASSUME IInv, Outside
  PROVE  IInv'
<1> USE SentinelAssumption
    DEF IInv, TypeOK, Rows, DockerStates, HoldsContainer, Known, createVars,
        deleteVars, recVars, processVars
<1>0. /\ TypeOK'
      /\ UNCHANGED <<containerId, label, createVars, deleteVars, recVars,
                     processVars>>
  BY OutsideTypeOK DEF Outside, Making
<1>1. ASSUME NEW i \in Ids, StopContainer(i) \/ StartContainer(i)
      PROVE  IInv'
  <2>1. Ownership'
    BY <1>0, <1>1
       DEF Ownership, OwnContainer, SnapshotOwn, AttachedDone, FailedUnknown,
           Switch, StopContainer, StartContainer
  <2>2. Making'
    BY <1>0, <1>1
       DEF Making, MadeOwn, Solo, UsedLabelled, RolledBack, Switch,
           StopContainer, StartContainer
  <2>3. Removing'
    BY <1>0, <1>1
       DEF Removing, RecordUsed, RowOutlivesContainer, NotLiveIsGone, Switch,
           StopContainer, StartContainer
  <2> QED
    BY <1>0, <2>1, <2>2, <2>3 DEF IInv
<1>2. ASSUME NEW c \in Containers, ContainerExits(c)
      PROVE  IInv'
  <2>1. Ownership'
    BY <1>0, <1>2
       DEF Ownership, OwnContainer, SnapshotOwn, AttachedDone, FailedUnknown,
           ContainerExits
  <2>2. Making'
    BY <1>0, <1>2
       DEF Making, MadeOwn, Solo, UsedLabelled, RolledBack, ContainerExits
  <2>3. Removing'
    BY <1>0, <1>2
       DEF Removing, RecordUsed, RowOutlivesContainer, NotLiveIsGone,
           ContainerExits
  <2> QED
    BY <1>0, <2>1, <2>2, <2>3 DEF IInv
<1>3. ASSUME NEW c \in Containers, RemovedByHand(c)
      PROVE  IInv'
  <2>1. Ownership'
    BY <1>0, <1>3
       DEF Ownership, OwnContainer, SnapshotOwn, AttachedDone, FailedUnknown,
           RemovedByHand, Exists
  <2>2. Making'
    BY <1>0, <1>3
       DEF Making, MadeOwn, Solo, UsedLabelled, RolledBack, RemovedByHand,
           Exists
  <2>3. Removing'
    BY <1>0, <1>3
       DEF Removing, RecordUsed, RowOutlivesContainer, NotLiveIsGone,
           RemovedByHand, Exists
  <2> QED
    BY <1>0, <2>1, <2>2, <2>3 DEF IInv
<1>4. ASSUME NEW c \in Containers, RemovalEnds(c)
      PROVE  IInv'
  <2>1. Ownership'
    BY <1>0, <1>4
       DEF Ownership, OwnContainer, SnapshotOwn, AttachedDone, FailedUnknown,
           RemovalEnds, Vanishes
  <2>2. Making'
    BY <1>0, <1>4
       DEF Making, MadeOwn, Solo, UsedLabelled, RolledBack, RemovalEnds,
           Vanishes
  <2>3. Removing'
    BY <1>0, <1>4
       DEF Removing, RecordUsed, RowOutlivesContainer, NotLiveIsGone,
           RemovalEnds, Vanishes
  <2> QED
    BY <1>0, <2>1, <2>2, <2>3 DEF IInv
<1> QED
  BY <1>1, <1>2, <1>3, <1>4 DEF Outside

(* A restart leaves the daemon its removals.                               *)
LEMMA RestartDocker ==
  ASSUME TypeOK, Restart
  PROVE  /\ docker' \in [Containers -> DockerStates]
         /\ \A c \in Containers :
                \/ docker'[c] = docker[c]
                \/ Exists(c) /\ docker'[c] = "removing"
  BY DEF TypeOK, Restart, DockerStates

LEMMA RestartIInv ==
  ASSUME IInv, Restart
  PROVE  IInv'
<1> USE RestartDocker, SentinelAssumption
    DEF IInv, TypeOK, Rows, DockerStates, HoldsContainer, Known, dockerVars
<1>0. TypeOK'
  BY RestartTypeOK
<1>1. Ownership'
  BY  DEF Ownership, OwnContainer, SnapshotOwn, AttachedDone, FailedUnknown,
         Restart, CreateEnded, CreatePcs
<1>2. Making'
  <2>1. \A c \in Containers :
            <<c, "create">> \in contested => <<c, "create">> \in contested'
    BY DEF Restart
  <2>2. RolledBack'
    BY <2>1 DEF Making, RolledBack, Restart, CreateEnded, Exists
  <2>3. MadeOwn' /\ Solo' /\ UsedLabelled'
    BY DEF Making, MadeOwn, Solo, UsedLabelled, Restart, CreateEnded,
           CreatePcs, Exists
  <2> QED
    BY <2>2, <2>3 DEF Making
<1>3. Removing'
  BY  DEF Removing, RecordUsed, RowOutlivesContainer, NotLiveIsGone, Restart,
         CreateEnded, CreatePcs
<1> QED
  BY <1>0, <1>1, <1>2, <1>3 DEF IInv

LEMMA StutterIInv ==
  ASSUME IInv, UNCHANGED vars
  PROVE  IInv'
  BY DEF IInv, TypeOK, Ownership, OwnContainer, SnapshotOwn, AttachedDone,
         FailedUnknown, Making, MadeOwn, Solo, UsedLabelled, RolledBack,
         Removing, RecordUsed,
         RowOutlivesContainer, NotLiveIsGone, HoldsContainer,
         Known,
         Rows, vars, dockerVars, createVars, deleteVars, recVars, processVars

(* IInv holds in every state the server, Docker and the database can reach *)
(* together, whatever interleaves, fails or restarts (service.ts).         *)
THEOREM SpecIInv == Spec => []IInv
<1>1. Init => IInv
  BY InitIInv
<1>2. IInv /\ [Next]_vars => IInv'
  BY CreateIInv, DeleteIInv, ReconcileIInv, OutsideIInv, RestartIInv,
     StutterIInv
     DEF Next
<1> QED
  BY <1>1, <1>2, PTL DEF Spec

-----------------------------------------------------------------------------
(* The properties                                                          *)

(* Every table, program counter and list keeps its type.                   *)
THEOREM SpecTypeOK == Spec => []TypeOK
  BY SpecIInv, PTL DEF IInv

(* No row ever names another instance's container: a DELETE cannot remove  *)
(* somebody else's workspace (service.ts delete, db attachContainer).      *)
THEOREM SpecOwnContainer == Spec => []OwnContainer
  BY SpecIInv, PTL DEF IInv, Ownership

(* A DELETE gives up the row only after the container it read is gone, or  *)
(* after a 409 said that another removal of it was under way (service.ts   *)
(* delete, dockerode-engine.ts isGone).                                    *)
THEOREM SpecRowOutlivesContainer == Spec => []RowOutlivesContainer
  BY SpecIInv, PTL DEF IInv, Removing

(* A create that failed and rolled back has left no row, and no container  *)
(* but one that somebody was removing (service.ts create).                 *)
THEOREM SpecFailedCreateLeavesNothing == Spec => []FailedCreateLeavesNothing
<1>1. IInv => FailedCreateLeavesNothing
  BY DEF IInv, Ownership, Making, FailedCreateLeavesNothing, FailedUnknown,
         RolledBack, Exists
<1> QED
  BY <1>1, SpecIInv, PTL

(* A row is told "missing" only when its container is: also when the pass  *)
(* works from a snapshot that is long out of date (service.ts reconcile).  *)
THEOREM SpecOnlyMissingDetached == Spec => OnlyMissingDetached
<1> DEFINE Detached ==
      \A i \in Ids :
          containerId[i] \in Containers /\ containerId'[i] = NoContainer
              => docker[containerId[i]] = "gone"
<1>1. ASSUME IInv, [Next]_vars
      PROVE  Detached
  <2> USE IInv, SentinelAssumption DEF IInv, TypeOK, Rows
  <2>1. CASE RecDetaches
    BY <2>1
       DEF RecDetaches, Ownership, SnapshotOwn, Removing, NotLiveIsGone
  <2>2. ASSUME NEW j \in Ids, CreateRow(j)
        PROVE  Detached
    BY <2>2 DEF CreateRow, Ownership, AttachedDone
  <2>3. ASSUME NEW j \in Ids, CreateStep(j)
        PROVE  Detached
    BY <2>3
       DEF CreateStep, DockerCreates, CreateFails, DockerStarts, StartFails,
           Attach,
           Attached, AttachFails, Cleanup, CleanupFails, Rollback, Making,
           MadeOwn,
           HoldsContainer
  <2>4. ASSUME NEW h \in Handlers, DeleteStep(h)
        PROVE  Detached
    BY <2>4
       DEF DeleteStep, DeleteContainer, DeleteListsVolumes, DeleteVolume,
           DeleteRow,
           DeleteFails
  <2>5. CASE UNCHANGED containerId
    BY <2>5
  <2> QED
    BY <1>1, <2>1, <2>2, <2>3, <2>4, <2>5
       DEF Next, ReconcileStep, RecLists, RecSkips, RecListsVolumes, RecEnds,
           RecRemoves, RecRemovesVolume, DeleteBegin, Outside, Restart, vars
<1> QED
  BY <1>1, SpecIInv, PTL DEF Spec, OnlyMissingDetached

-----------------------------------------------------------------------------
(* Instances implements InstanceLife                                       *)

LifeMap == [i \in Ids |-> LifeOf(i)]
BoxMap  == [i \in Ids |-> BoxOf(i)]

(* A container that goes is the only one its instance ever had.            *)
LEMMA VanishStep ==
  ASSUME IInv, NEW c \in Containers,
         docker[c] # "unused",
         docker' = [docker EXCEPT ![c] = "gone"], label' = label,
         \A i \in Ids : LifeOf(i)' = LifeOf(i)
  PROVE  Life!Next \/ UNCHANGED Life!vars
<1> DEFINE i == label[c]
<1>1. i \in Ids /\ \A d \in Containers : label[d] = i <=> d = c
  BY DEF IInv, Making, UsedLabelled, Solo
<1>2. docker[c] = "gone" => BoxOf(i) = "gone"
  BY <1>1 DEF BoxOf, Exists
<1>3. docker[c] # "gone" => BoxOf(i) = "kept"
  BY <1>1 DEF BoxOf, Exists, IInv, TypeOK, DockerStates
<1>4. BoxOf(i)' = "gone"
  BY <1>1 DEF BoxOf, Exists, IInv, TypeOK
<1>5. \A j \in Ids \ {i} : BoxOf(j)' = BoxOf(j)
  BY <1>1 DEF BoxOf, Exists, IInv, TypeOK
<1>6. LifeMap' = LifeMap
  BY DEF LifeMap
<1>7. BoxMap' = [BoxMap EXCEPT ![i] = "gone"]
  BY <1>1, <1>4, <1>5 DEF BoxMap
<1>8. CASE docker[c] = "gone"
  BY <1>1, <1>2, <1>6, <1>7, <1>8 DEF BoxMap, LifeMap, Life!vars
<1>9. CASE docker[c] # "gone"
  <2>1. Life!Vanish(i)
    BY <1>1, <1>3, <1>6, <1>7, <1>9 DEF BoxMap, LifeMap, Life!Vanish
  <2> QED
    BY <1>1, <2>1 DEF Life!Next
<1> QED
  BY <1>8, <1>9

(* A step that only moves rows: the boxes stay, and so may the rows.       *)
LEMMA SameBoxes ==
  ASSUME docker' = docker, label' = label
  PROVE  BoxMap' = BoxMap
  BY DEF BoxMap, BoxOf, Exists

LEMMA SameLives ==
  ASSUME containerId' = containerId, createPc' = createPc
  PROVE  LifeMap' = LifeMap
  BY DEF LifeMap, LifeOf, Known

(* A removal is the end of the container, or changes nothing in Docker.    *)
LEMMA RemoveStep ==
  ASSUME IInv, NEW c \in Containers, NEW who,
         docker[c] # "unused", RemoveContainer(c, who), label' = label,
         \A i \in Ids : LifeOf(i)' = LifeOf(i)
  PROVE  Life!Next \/ UNCHANGED Life!vars
<1>1. CASE docker' = docker
  <2>1. BoxMap' = BoxMap /\ LifeMap' = LifeMap
    BY <1>1, SameBoxes DEF LifeMap
  <2> QED
    BY <2>1 DEF Life!vars, LifeMap, BoxMap
<1>2. CASE docker' = [docker EXCEPT ![c] = "gone"]
  BY <1>2, VanishStep
<1> QED
  BY <1>1, <1>2 DEF RemoveContainer, Vanishes, IInv, TypeOK

(* A row that is deleted, by whomever, drops its instance.                 *)
LEMMA DropStep ==
  ASSUME IInv, NEW i \in Ids,
         containerId' = [containerId EXCEPT ![i] = NoRow],
         createPc[i] # "unborn", createPc'[i] # "unborn",
         \A j \in Ids \ {i} : createPc'[j] = createPc[j],
         docker' = docker, label' = label
  PROVE  Life!Next \/ UNCHANGED Life!vars
<1>1. BoxMap' = BoxMap
  BY SameBoxes
<1>2. LifeMap' = [LifeMap EXCEPT ![i] = "deleted"]
  BY DEF LifeMap, LifeOf, Known, IInv, TypeOK
<1>3. CASE Known(i)
  <2>1. LifeMap[i] \in {"pending", "linked", "lost"}
    BY <1>3 DEF LifeMap, LifeOf
  <2>2. Life!Drop(i)
    BY <1>1, <1>2, <2>1 DEF Life!Drop, LifeMap, BoxMap
  <2> QED
    BY <2>2 DEF Life!Next
<1>4. CASE ~Known(i)
  <2>1. LifeMap[i] = "deleted"
    BY <1>4 DEF LifeMap, LifeOf
  <2>2. LifeMap' = LifeMap
    BY <1>2, <2>1 DEF LifeMap
  <2> QED
    BY <1>1, <2>2 DEF Life!vars, LifeMap, BoxMap
<1> QED
  BY <1>3, <1>4

LEMMA CreateRefines ==
  ASSUME IInv, NEW i \in Ids, CreateRow(i) \/ CreateStep(i)
  PROVE  Life!Next \/ UNCHANGED Life!vars
<1> USE SentinelAssumption
<1>1. CASE CreateRow(i)
  <2>1. BoxMap' = BoxMap
    BY <1>1, SameBoxes DEF CreateRow, dockerVars
  <2>2. LifeMap[i] = "unborn" /\ LifeMap' = [LifeMap EXCEPT ![i] = "pending"]
    BY <1>1 DEF CreateRow, GoTo, LifeMap, LifeOf, Known, IInv, TypeOK
  <2>3. Life!Accept(i)
    BY <2>1, <2>2 DEF Life!Accept, LifeMap, BoxMap
  <2> QED
    BY <2>3 DEF Life!Next
<1>2. CASE DockerCreates(i)
  <2>1. LifeMap[i] # "unborn" /\ LifeMap' = LifeMap
    BY <1>2 DEF DockerCreates, GoTo, LifeMap, LifeOf, Known, IInv, TypeOK
  <2>2. BoxMap[i] = "none" /\ BoxMap' = [BoxMap EXCEPT ![i] = "kept"]
    <3>1. PICK c \in Containers :
             /\ docker[c] = "unused"
             /\ docker' = [docker EXCEPT ![c] = "created"]
             /\ label' = [label EXCEPT ![c] = i]
      BY <1>2 DEF DockerCreates
    <3>2. label[c] \notin Ids
      BY <3>1 DEF IInv, Making, UsedLabelled
    <3>3. BoxOf(i) = "none"
      BY <1>2 DEF DockerCreates, BoxOf, IInv, Making, Solo
    <3>4. BoxOf(i)' = "kept"
      BY <3>1 DEF BoxOf, Exists, IInv, TypeOK
    <3>5. ASSUME NEW j \in Ids, j # i
          PROVE  BoxOf(j)' = BoxOf(j)
      BY <3>1, <3>2, <3>5 DEF BoxOf, Exists, IInv, TypeOK
    <3> QED
      BY <3>3, <3>4, <3>5 DEF BoxMap
  <2>3. Life!Appear(i)
    BY <2>1, <2>2 DEF Life!Appear, LifeMap, BoxMap
  <2> QED
    BY <2>3 DEF Life!Next
<1>3. CASE CreateFails(i)
  BY <1>3, DropStep DEF CreateFails, GoTo, IInv, TypeOK
<1>4. CASE DockerStarts(i)
  <2>1. LifeMap' = LifeMap
    BY <1>4 DEF DockerStarts, GoTo, LifeMap, LifeOf, Known, IInv, TypeOK
  <2>2. BoxMap' = BoxMap
    BY <1>4 DEF DockerStarts, BoxMap, BoxOf, Exists, IInv, TypeOK
  <2> QED
    BY <2>1, <2>2 DEF Life!vars, LifeMap, BoxMap
<1>5. CASE StartFails(i) \/ AttachFails(i)
  <2>1. LifeMap' = LifeMap
    BY <1>5 DEF StartFails, AttachFails, GoTo, LifeMap, LifeOf, Known, IInv,
                TypeOK
  <2>2. BoxMap' = BoxMap
    BY <1>5, SameBoxes DEF StartFails, AttachFails
  <2> QED
    BY <2>1, <2>2 DEF Life!vars, LifeMap, BoxMap
<1>6. CASE Attach(i)
  <2>1. BoxMap' = BoxMap
    BY <1>6, SameBoxes DEF Attach
  <2>2. CASE Known(i)
    <3>1. LifeMap[i] = "pending" /\ LifeMap' = [LifeMap EXCEPT ![i] = "linked"]
      BY <1>6, <2>2, ZenonT(30)
         DEF Attach, Attached, GoTo, LifeMap, LifeOf, Known, IInv, Ownership,
             Making, TypeOK, AttachedDone,
             MadeOwn, HoldsContainer
    <3>2. BoxMap[i] # "none"
      BY <1>6 DEF Attach, BoxMap, BoxOf, IInv, Making, MadeOwn, HoldsContainer
    <3>3. Life!Link(i)
      BY <2>1, <3>1, <3>2 DEF Life!Link, LifeMap, BoxMap
    <3> QED
      BY <3>3 DEF Life!Next
  <2>3. CASE ~Known(i)
    <3>1. LifeMap' = LifeMap
      BY <1>6, <2>3
         DEF Attach, Attached, GoTo, LifeMap, LifeOf, Known, IInv, TypeOK
    <3> QED
      BY <2>1, <3>1 DEF Life!vars, LifeMap, BoxMap
  <2> QED
    BY <2>2, <2>3
<1>7. CASE Cleanup(i)
  <2>1. made[i] \in Containers /\ docker[made[i]] # "unused"
    BY <1>7 DEF Cleanup, IInv, Making, MadeOwn, HoldsContainer
  <2>2. \A j \in Ids : LifeOf(j)' = LifeOf(j)
    BY <1>7 DEF Cleanup, GoTo, LifeOf, Known, IInv, TypeOK
  <2> QED
    BY <1>7, <2>1, <2>2, RemoveStep DEF Cleanup
<1>8. CASE CleanupFails(i)
  <2>1. CASE createPc[i] = "unstarting"
    BY <1>8, <2>1, DropStep DEF CleanupFails, GoTo, IInv, TypeOK
  <2>2. CASE createPc[i] # "unstarting"
    <3>1. LifeMap' = LifeMap
      BY <1>8, <2>2 DEF CleanupFails, GoTo, LifeMap, LifeOf, Known, IInv,
                        TypeOK
    <3>2. BoxMap' = BoxMap
      BY <1>8, SameBoxes DEF CleanupFails
    <3> QED
      BY <3>1, <3>2 DEF Life!vars, LifeMap, BoxMap
  <2> QED
    BY <2>1, <2>2
<1>9. CASE Rollback(i)
  BY <1>9, DropStep DEF Rollback, GoTo, IInv, TypeOK
<1> QED
  BY <1>1, <1>2, <1>3, <1>4, <1>5, <1>6, <1>7, <1>8, <1>9 DEF CreateStep

(* Nothing the refinement looks at moves.                                  *)
LEMMA LifeStutter ==
  ASSUME UNCHANGED <<containerId, docker, label, createPc>>
  PROVE  UNCHANGED Life!vars
  BY SameLives, SameBoxes DEF Life!vars, LifeMap, BoxMap

LEMMA DeleteRefines ==
  ASSUME IInv, NEW h \in Handlers,
         DeleteStep(h) \/ \E i \in Ids : DeleteBegin(h, i)
  PROVE  Life!Next \/ UNCHANGED Life!vars
<1>1. ASSUME NEW i \in Ids, DeleteBegin(h, i)
      PROVE  UNCHANGED Life!vars
  BY <1>1, LifeStutter DEF DeleteBegin, dockerVars, createVars
<1>2. CASE DeleteStep(h) /\ DeleteContainer(h)
  <2>1. record[h] \in Containers /\ docker[record[h]] # "unused"
    BY <1>2 DEF DeleteContainer, IInv, Removing, RecordUsed
  <2>2. \A j \in Ids : LifeOf(j)' = LifeOf(j)
    BY <1>2 DEF DeleteContainer, DeleteStep, createVars, LifeOf, Known
  <2> QED
    BY <1>2, <2>1, <2>2, RemoveStep DEF DeleteContainer, DeleteStep
<1>3. CASE DeleteStep(h) /\ DeleteRow(h)
  <2>1. CASE target[h] \in Ids /\ Known(target[h])
    <3>1. createPc[target[h]] # "unborn"
      BY <2>1 DEF IInv, Ownership, FailedUnknown
    <3> QED
      BY <1>3, <2>1, <3>1, DropStep DEF DeleteRow, DeleteStep, createVars
  <2>2. CASE ~(target[h] \in Ids /\ Known(target[h]))
    <3>1. containerId' = containerId
      BY <1>3, <2>2 DEF DeleteRow, Known, IInv, TypeOK
    <3> QED
      BY <1>3, <3>1, LifeStutter DEF DeleteRow, DeleteStep, createVars
  <2> QED
    BY <2>1, <2>2
<1>4. CASE /\ DeleteStep(h)
           /\ DeleteListsVolumes(h) \/ DeleteVolume(h) \/ DeleteFails(h)
  BY <1>4, LifeStutter
     DEF DeleteStep, DeleteListsVolumes, DeleteVolume, DeleteFails, createVars
<1> QED
  BY <1>1, <1>2, <1>3, <1>4 DEF DeleteStep

LEMMA ReconcileRefines ==
  ASSUME IInv, ReconcileStep
  PROVE  Life!Next \/ UNCHANGED Life!vars
<1> USE ReconcileStep DEF ReconcileStep, createVars
<1>1. ASSUME NEW c \in Containers, RecRemoves(c),
             RemoveContainer(c, "reconcile")
      PROVE  Life!Next \/ UNCHANGED Life!vars
  <2>1. CASE docker[c] = "unused"
    <3>1. docker' = docker
      BY <1>1, <2>1 DEF RemoveContainer, Vanishes, IInv, TypeOK
    <3> QED
      BY <1>1, <3>1, LifeStutter DEF RecRemoves
  <2>2. CASE docker[c] # "unused"
    <3>1. \A j \in Ids : LifeOf(j)' = LifeOf(j)
      BY <1>1 DEF RecRemoves, LifeOf, Known
    <3> QED
      BY <1>1, <2>2, <3>1, RemoveStep
  <2> QED
    BY <2>1, <2>2
<1>2. ASSUME NEW c \in Containers, RecRemoves(c), UNCHANGED docker
      PROVE  UNCHANGED Life!vars
  BY <1>2, LifeStutter DEF RecRemoves
<1>3. CASE RecDetaches
  <2> DEFINE S == {i \in Ids : snapshot[i] \in Containers \ live
                                  /\ containerId[i] \in Containers}
  <2>1. BoxMap' = BoxMap
    BY <1>3, SameBoxes DEF RecDetaches
  <2>2. ASSUME NEW i \in S
        PROVE  LifeMap[i] = "linked" /\ BoxMap[i] = "gone"
    <3>1. createPc[i] = "done" /\ label[containerId[i]] = i
          /\ docker[containerId[i]] = "gone"
      BY <1>3, <2>2 DEF RecDetaches, IInv, Ownership, Removing, SnapshotOwn,
                        NotLiveIsGone
    <3>2. \A c \in Containers : label[c] = i => c = containerId[i]
      BY <2>2, <3>1 DEF IInv, Making, Solo
    <3> QED
      BY <2>2, <3>1, <3>2, SentinelAssumption
         DEF LifeMap, BoxMap, LifeOf, BoxOf, Known, Exists
  <2>3. LifeMap' = [i \in Ids |-> IF i \in S THEN "lost" ELSE LifeMap[i]]
    BY <1>3, SentinelAssumption
       DEF RecDetaches, LifeMap, LifeOf, Known, IInv, Ownership, SnapshotOwn
  <2>4. Life!Lose(S)
    BY <2>1, <2>2, <2>3 DEF Life!Lose, LifeMap, BoxMap
  <2> QED
    BY <2>4 DEF Life!Next
<1>4. CASE RecLists \/ RecSkips \/ RecListsVolumes \/ RecEnds
  BY <1>4, LifeStutter DEF RecLists, RecSkips, RecListsVolumes, RecEnds
<1>5. ASSUME NEW i \in Ids, RecRemovesVolume(i)
      PROVE  UNCHANGED Life!vars
  BY <1>5, LifeStutter DEF RecRemovesVolume
<1> QED
  BY <1>1, <1>2, <1>3, <1>4, <1>5 DEF RecRemoves

LEMMA OutsideRefines ==
  ASSUME IInv, Outside
  PROVE  Life!Next \/ UNCHANGED Life!vars
<1> USE Outside DEF Outside, createVars
<1>1. ASSUME NEW c \in Containers, docker[c] = "removing", Vanishes(c)
      PROVE  Life!Next \/ UNCHANGED Life!vars
  <2>1. \A j \in Ids : LifeOf(j)' = LifeOf(j)
    BY DEF LifeOf, Known
  <2>2. docker' = [docker EXCEPT ![c] = "gone"]
    BY <1>1 DEF Vanishes
  <2> QED
    BY <1>1, <2>1, <2>2, VanishStep
<1>2. ASSUME \/ \E i \in Ids : StopContainer(i) \/ StartContainer(i)
             \/ \E c \in Containers :
                    \/ ContainerExits(c) \/ RemovedByHand(c)
                    \/ /\ docker[c] = "removing"
                       /\ docker' = [docker EXCEPT ![c] = "exited"]
      PROVE  UNCHANGED Life!vars
  <2>1. \A c \in Containers : Exists(c)' = Exists(c)
    BY <1>2 DEF StopContainer, StartContainer, Switch, ContainerExits,
                RemovedByHand, Exists, IInv, TypeOK
  <2>2. BoxMap' = BoxMap
    BY <2>1 DEF BoxMap, BoxOf
  <2>3. LifeMap' = LifeMap
    BY SameLives
  <2> QED
    BY <2>2, <2>3 DEF Life!vars, LifeMap, BoxMap
<1> QED
  BY <1>1, <1>2 DEF RemovalEnds

LEMMA RestartRefines ==
  ASSUME IInv, Restart
  PROVE  UNCHANGED Life!vars
<1>0. \A c \in Containers : Exists(c)' = Exists(c)
  BY RestartDocker DEF IInv, Exists
<1>1. BoxMap' = BoxMap
  BY <1>0 DEF Restart, BoxMap, BoxOf
<1>2. LifeMap' = LifeMap
  BY DEF Restart, CreateEnded, LifeMap, LifeOf, Known
<1> QED
  BY <1>1, <1>2 DEF Life!vars, LifeMap, BoxMap

(* Rows and labelled containers together are the instance that claudops    *)
(* promises, in every interleaving (InstanceLife; service.ts).             *)
THEOREM SpecImplementsLife == Spec => ImplementsLife
<1>1. ASSUME Init
      PROVE  Life!Init
  <2>1. \A i \in Ids : LifeOf(i) = "unborn" /\ BoxOf(i) = "none"
    BY <1>1, SentinelAssumption DEF Init, LifeOf, BoxOf
  <2> QED
    BY <2>1 DEF Life!Init
<1>2. ASSUME IInv, [Next]_vars
      PROVE  [Life!Next]_(Life!vars)
  <2>1. CASE UNCHANGED vars
    BY <2>1, LifeStutter DEF vars, dockerVars, createVars
  <2> QED
    BY <1>2, <2>1, CreateRefines, DeleteRefines, ReconcileRefines,
       OutsideRefines,
       RestartRefines
       DEF Next
<1> QED
  BY <1>1, <1>2, SpecIInv, PTL DEF Spec, Life!Spec, ImplementsLife

-----------------------------------------------------------------------------
(* What a pass does about the leftovers the process began with.            *)

AfterSweep == {"listingVolumes", "sweepingVolumes", "done"}

(* A container that the sweep need not come back to.                       *)
Swept(c) == docker[c] = "gone" \/ <<c, "reconcile">> \in contested

(* A container left over is no row's: the listing makes it an orphan, and  *)
(* once the sweep is through it is gone, or somebody was removing it.      *)
ContainersGo ==
    \A c \in leftovers.containers :
        /\ docker[c] # "unused"
        /\ recPc = "listing" => snapshot[label[c]] # c
        /\ failures = 0 /\ recPc = "sweeping" =>
               c \in orphans \/ Swept(c)
        /\ failures = 0 /\ recPc \in AfterSweep => Swept(c)

(* A row left over is not found by the listing and detached by the sweep;  *)
(* its create has ended, so nothing attaches a container to it afterwards. *)
RowsForget ==
    \A i \in leftovers.rows :
        /\ createPc[i] = "done"
        /\ recPc \in {"listing", "sweeping"} =>
               snapshot[i] \in Containers /\ docker[snapshot[i]] = "gone"
        /\ recPc = "sweeping" => snapshot[i] \notin live
        /\ recPc \in AfterSweep => containerId[i] \notin Containers

(* A volume left over comes from a container that is gone, the only one    *)
(* its instance will ever have had.                                        *)
VolumesGo ==
    \A i \in leftovers.volumes :
        /\ createPc[i] \in CreateEnded
        /\ \A c \in Containers : label[c] = i => docker[c] = "gone"
        /\ recPc \in {"listing", "sweeping", "listingVolumes"} =>
               snapshot[i] = NoRow
        /\ failures = 0 /\ recPc = "sweepingVolumes" =>
               i \in strayVolumes \/ i \notin volumes
        /\ failures = 0 /\ recPc = "done" => i \notin volumes

(* A volume is what a container leaves behind.                             *)
VolumesMade ==
    \A i \in volumes :
        /\ createPc[i] \notin {"unborn", "creating"}
        /\ \A c \in Containers : label[c] = i => docker[c] = "gone"

RInv == ContainersGo /\ RowsForget /\ VolumesGo /\ VolumesMade

(* Steps of anybody but the pass: gone is gone, a label stays, only an     *)
(* Attach gives a row a container, and a volume appears only where its     *)
(* container still was.                                                    *)
Bystanding ==
    /\ UNCHANGED <<recVars, leftovers>>
    /\ \A c \in Containers :
           /\ docker[c] = "gone" => docker'[c] = "gone"
           /\ docker[c] # "unused" /\ Swept(c) => Swept(c)'
           /\ docker[c] # "unused" =>
                  docker'[c] # "unused" /\ label'[c] = label[c]
           /\ label'[c] # label[c] => createPc[label'[c]] = "creating"
    /\ \A i \in Ids :
           /\ createPc[i] \in CreateEnded => createPc'[i] = createPc[i]
           /\ createPc[i] \notin {"unborn", "creating"} =>
                  createPc'[i] \notin {"unborn", "creating"}
           /\ createPc[i] = "done" /\ containerId[i] \notin Containers =>
                  containerId'[i] \notin Containers
    /\ \A i \in volumes' : i \in volumes
           \/ \E c \in Containers : /\ docker[c] = "removing" /\ label[c] = i
                                   /\ docker'[c] = "gone"

LEMMA SweptStays ==
  ASSUME TypeOK, NEW c \in Containers, NEW who, RemoveContainer(c, who)
  PROVE  \A d \in Containers :
             docker[d] # "unused" /\ Swept(d) => Swept(d)'
<1>1. CASE Vanishes(c)
  <2>1. \A d \in Containers : docker[d] = "gone" => docker'[d] = "gone"
    BY <1>1 DEF Vanishes, TypeOK
  <2>2. docker[c] # "unused" => docker'[c] = "gone"
    BY <1>1 DEF Vanishes, TypeOK
  <2>3. ASSUME NEW d \in Containers, d # c, <<d, "reconcile">> \in contested
        PROVE  <<d, "reconcile">> \in contested'
    BY <1>1, <2>3 DEF Vanishes
  <2> QED
    BY <2>1, <2>2, <2>3 DEF Swept
<1>2. CASE UNCHANGED docker /\ contested \subseteq contested'
  BY <1>2 DEF Swept
<1> QED
  BY <1>1, <1>2 DEF RemoveContainer

LEMMA BystandingRInv ==
  ASSUME IInv, RInv, Bystanding
  PROVE  RInv'
<1> USE DEF IInv, TypeOK, Rows, recVars, RInv, Bystanding
<1>1. ContainersGo'
  <2> SUFFICES ASSUME NEW c \in leftovers.containers
               PROVE  /\ docker'[c] # "unused"
                      /\ recPc = "listing" => snapshot[label'[c]] # c
                      /\ failures = 0 /\ recPc = "sweeping" =>
                             c \in orphans \/ Swept(c)'
                      /\ failures = 0 /\ recPc \in AfterSweep => Swept(c)'
    BY DEF ContainersGo
  <2> QED BY DEF ContainersGo
<1>2. RowsForget'
  BY DEF RowsForget, CreateEnded
<1>3. VolumesMade'
  <2> SUFFICES ASSUME NEW i \in volumes'
               PROVE  /\ createPc'[i] \notin {"unborn", "creating"}
                      /\ \A c \in Containers :
                             label'[c] = i => docker'[c] = "gone"
    BY DEF VolumesMade
  <2>1. CASE i \in volumes
    BY <2>1 DEF VolumesMade
  <2>2. ASSUME NEW c \in Containers, docker[c] = "removing", label[c] = i,
               docker'[c] = "gone"
        PROVE  /\ createPc'[i] \notin {"unborn", "creating"}
               /\ \A d \in Containers : label'[d] = i => d = c
    <3>1. i \in Ids
      BY <2>2 DEF Making, UsedLabelled
    <3>2. createPc[i] \notin {"unborn", "creating"}
      BY <2>2, <3>1 DEF Making, Solo
    <3> QED
      BY <2>2, <3>1, <3>2 DEF Making, Solo
  <2> QED
    BY <2>1, <2>2
<1>4. VolumesGo'
  <2> SUFFICES ASSUME NEW i \in leftovers.volumes
               PROVE  /\ createPc'[i] \in CreateEnded
                      /\ \A c \in Containers :
                             label'[c] = i => docker'[c] = "gone"
                      /\ recPc \in {"listing", "sweeping",
                                    "listingVolumes"} => snapshot[i] = NoRow
                      /\ failures = 0 /\ recPc = "sweepingVolumes" =>
                             i \in strayVolumes \/ i \notin volumes'
                      /\ failures = 0 /\ recPc = "done" => i \notin volumes'
    BY DEF VolumesGo
  <2>1. createPc[i] \in CreateEnded /\ createPc'[i] = createPc[i]
    BY DEF VolumesGo
  <2>2. \A c \in Containers : label'[c] = i => docker'[c] = "gone"
    BY <2>1 DEF VolumesGo, CreateEnded
  <2>3. i \notin volumes => i \notin volumes'
    BY DEF VolumesGo
  <2> QED BY <2>1, <2>2, <2>3 DEF VolumesGo
<1> QED BY <1>1, <1>2, <1>3, <1>4

LEMMA CreateRInv ==
  ASSUME IInv, RInv, NEW i \in Ids, CreateRow(i) \/ CreateStep(i)
  PROVE  RInv'
<1> SUFFICES Bystanding
  BY BystandingRInv
<1> USE SentinelAssumption
    DEF Bystanding, IInv, TypeOK, Rows, DockerStates, Making, MadeOwn,
        UsedLabelled, HoldsContainer, dockerVars, deleteVars, processVars,
        GoTo, CreateEnded, Swept
<1>1. CASE CreateRow(i)
  BY <1>1 DEF CreateRow
<1>2. CASE CreateStep(i)
  <2> USE <1>2 DEF CreateStep
  <2>1. CASE DockerCreates(i)
    BY <2>1 DEF DockerCreates
  <2>2. CASE CreateFails(i) \/ AttachFails(i) \/ CleanupFails(i)
             \/ Rollback(i)
    BY <2>2 DEF CreateFails, AttachFails, CleanupFails, Rollback
  <2>3. CASE DockerStarts(i)
    BY <2>3 DEF DockerStarts
  <2>4. CASE StartFails(i)
    BY <2>4 DEF StartFails
  <2>5. CASE Attach(i)
    BY <2>5 DEF Attach, Attached
  <2>6. CASE Cleanup(i)
    BY <2>6 DEF Cleanup, RemoveContainer, Vanishes
  <2> QED
    BY <2>1, <2>2, <2>3, <2>4, <2>5, <2>6
<1> QED
  BY <1>1, <1>2

LEMMA DeleteRInv ==
  ASSUME IInv, RInv, NEW h \in Handlers,
         DeleteStep(h) \/ \E i \in Ids : DeleteBegin(h, i)
  PROVE  RInv'
<1> SUFFICES Bystanding
  BY BystandingRInv
<1> USE SentinelAssumption
    DEF Bystanding, IInv, TypeOK, Rows, DockerStates, dockerVars, createVars,
        processVars, Swept
<1>1. ASSUME NEW i \in Ids, DeleteBegin(h, i)
      PROVE  Bystanding
  BY <1>1 DEF DeleteBegin
<1>2. CASE DeleteStep(h)
  <2> USE <1>2 DEF DeleteStep
  <2>1. CASE DeleteContainer(h)
    <3>1. record[h] \in Containers
      BY <2>1 DEF DeleteContainer, Removing, RecordUsed
    <3>2. \A c \in Containers :
              docker[c] # "unused" /\ Swept(c) => Swept(c)'
      BY <2>1, <3>1, SweptStays DEF DeleteContainer
    <3>3. \A c \in Containers :
              /\ docker[c] = "gone" => docker'[c] = "gone"
              /\ docker[c] # "unused" => docker'[c] # "unused"
      BY <2>1, <3>1 DEF DeleteContainer, RemoveContainer, Vanishes
    <3> QED
      BY <2>1, <3>2, <3>3 DEF DeleteContainer
  <2>2. CASE DeleteListsVolumes(h) \/ DeleteVolume(h) \/ DeleteFails(h)
    BY <2>2 DEF DeleteListsVolumes, DeleteVolume, DeleteFails
  <2>3. CASE DeleteRow(h)
    BY <2>3 DEF DeleteRow
  <2> QED
    BY <2>1, <2>2, <2>3
<1> QED
  BY <1>1, <1>2

LEMMA OutsideRInv ==
  ASSUME IInv, RInv, Outside
  PROVE  RInv'
<1> SUFFICES Bystanding
  BY BystandingRInv
<1> USE Outside
    DEF Bystanding, IInv, TypeOK, Rows, DockerStates, createVars, processVars,
        Swept, Outside
<1>1. ASSUME NEW i \in Ids, StopContainer(i) \/ StartContainer(i)
      PROVE  Bystanding
  BY <1>1 DEF StopContainer, StartContainer, Switch
<1>2. ASSUME NEW c \in Containers, ContainerExits(c)
      PROVE  Bystanding
  BY <1>2 DEF ContainerExits
<1>3. ASSUME NEW c \in Containers, RemovedByHand(c)
      PROVE  Bystanding
  BY <1>3 DEF RemovedByHand, Exists
<1>4. ASSUME NEW c \in Containers, RemovalEnds(c)
      PROVE  Bystanding
  BY <1>4 DEF RemovalEnds, Vanishes
<1> QED
  BY <1>1, <1>2, <1>3, <1>4

(* The pass itself.                                                        *)
LEMMA ReconcileRInv ==
  ASSUME IInv, RInv, ReconcileStep
  PROVE  RInv'
<1> USE SentinelAssumption
    DEF IInv, TypeOK, Rows, DockerStates, RInv, AfterSweep, Swept
<1>0. UNCHANGED <<label, createPc, leftovers>>
  BY DEF ReconcileStep, createVars, processVars
<1>1. CASE RecLists
  <2>1. ContainersGo'
    BY <1>0, <1>1 DEF RecLists, ContainersGo, Managed, Exists, Claimed
  <2>2. RowsForget'
    BY <1>0, <1>1 DEF RecLists, RowsForget, Managed, Exists
  <2>3. VolumesGo' /\ VolumesMade'
    BY <1>0, <1>1 DEF RecLists, VolumesGo, VolumesMade
  <2> QED BY <2>1, <2>2, <2>3
<1>2. CASE RecSkips
  <2>1. ContainersGo' /\ RowsForget'
    BY <1>0, <1>2 DEF RecSkips, ContainersGo, RowsForget
  <2>2. VolumesGo' /\ VolumesMade'
    BY <1>0, <1>2 DEF RecSkips, VolumesGo, VolumesMade
  <2> QED BY <2>1, <2>2
<1>3. CASE RecDetaches
  <2>1. ContainersGo'
    BY <1>0, <1>3 DEF RecDetaches, ContainersGo
  <2>2. RowsForget'
    BY <1>0, <1>3 DEF RecDetaches, RowsForget
  <2>3. VolumesGo' /\ VolumesMade'
    BY <1>0, <1>3 DEF RecDetaches, VolumesGo, VolumesMade
  <2> QED BY <2>1, <2>2, <2>3
<1>4. CASE RecListsVolumes
  <2>1. ContainersGo' /\ RowsForget'
    BY <1>0, <1>4 DEF RecListsVolumes, ContainersGo, RowsForget
  <2>2. VolumesGo' /\ VolumesMade'
    BY <1>0, <1>4 DEF RecListsVolumes, VolumesGo, VolumesMade
  <2> QED BY <2>1, <2>2
<1>5. CASE RecEnds
  <2>1. ContainersGo' /\ RowsForget'
    BY <1>0, <1>5 DEF RecEnds, ContainersGo, RowsForget
  <2>2. VolumesGo' /\ VolumesMade'
    BY <1>0, <1>5 DEF RecEnds, VolumesGo, VolumesMade
  <2> QED BY <2>1, <2>2
<1>6. ASSUME NEW c \in Containers, RecRemoves(c)
      PROVE  RInv'
  <2>1. /\ \A d \in Containers \ {c} : docker'[d] = docker[d]
        /\ docker[c] = "unused" => docker'[c] = "unused"
        /\ docker[c] \in {"gone"} => docker'[c] = "gone"
        /\ docker[c] # "unused" => docker'[c] # "unused"
        /\ failures' = 0 => failures = 0
    BY <1>6 DEF RecRemoves, RemoveContainer, Vanishes
  <2>5. \A d \in Containers :
            docker[d] # "unused" /\ Swept(d) => Swept(d)'
    BY <1>6, SweptStays DEF RecRemoves
  <2>6. failures' = 0 /\ docker[c] # "unused" => Swept(c)'
    <3>1. CASE RemoveContainer(c, "reconcile")
      BY <3>1 DEF RemoveContainer, Vanishes
    <3>2. CASE failures' = failures + 1
      BY <3>2
    <3> QED
      BY <1>6, <3>1, <3>2 DEF RecRemoves
  <2>2. ContainersGo'
    BY <1>0, <1>6, <2>1, <2>5, <2>6 DEF RecRemoves, ContainersGo
  <2>3. RowsForget'
    BY <1>0, <1>6, <2>1 DEF RecRemoves, RowsForget
  <2>4. VolumesGo' /\ VolumesMade'
    BY <1>0, <1>6, <2>1 DEF RecRemoves, VolumesGo, VolumesMade
  <2> QED BY <2>2, <2>3, <2>4
<1>7. ASSUME NEW i \in Ids, RecRemovesVolume(i)
      PROVE  RInv'
  <2>1. /\ volumes' \subseteq volumes
        /\ failures' = 0 => failures = 0 /\ volumes' = volumes \ {i}
    BY <1>7 DEF RecRemovesVolume
  <2>2. ContainersGo' /\ RowsForget'
    BY <1>0, <1>7, <2>1 DEF RecRemovesVolume, ContainersGo, RowsForget
  <2>3. VolumesGo' /\ VolumesMade'
    BY <1>0, <1>7, <2>1 DEF RecRemovesVolume, VolumesGo, VolumesMade
  <2> QED BY <2>2, <2>3
<1> QED
  BY <1>1, <1>2, <1>3, <1>4, <1>5, <1>6, <1>7 DEF ReconcileStep

(* A new process: what is out of step now is what its pass will meet.      *)
LEMMA RestartRInv ==
  ASSUME IInv, RInv, Restart
  PROVE  RInv'
<1> USE SentinelAssumption
    DEF IInv, TypeOK, Rows, DockerStates, RInv, AfterSweep, Restart,
        dockerVars
<1>1. ContainersGo'
  BY RestartDocker DEF ContainersGo, Exists
<1>2. RowsForget'
  BY RestartDocker DEF RowsForget, Exists, Ownership, OwnContainer, AttachedDone,
         CreateEnded
<1>3. VolumesMade'
  BY RestartDocker DEF VolumesMade, CreateEnded, Exists
<1>4. VolumesGo'
  <2> SUFFICES ASSUME NEW i \in volumes, ~Known(i)
               PROVE  /\ createPc'[i] \in CreateEnded
                      /\ \A c \in Containers :
                             label[c] = i => docker'[c] = "gone"
                      /\ snapshot'[i] = NoRow
    BY ZenonT(30) DEF VolumesGo
  <2>1. createPc'[i] \in CreateEnded
    BY DEF VolumesMade, CreateEnded
  <2>2. ASSUME NEW c \in Containers, label[c] = i
        PROVE  docker'[c] = "gone"
    BY <2>2, RestartDocker DEF VolumesMade, Exists
  <2> QED BY <2>1, <2>2 DEF Known
<1> QED BY <1>1, <1>2, <1>3, <1>4

(* Whatever a crash left behind, the pass of the next process puts right,  *)
(* unless a removal fails: with creates, DELETEs and people at the Docker  *)
(* command line at work beside it (service.ts reconcile).                  *)
THEOREM SpecReconcileRestores == Spec => []ReconcileRestores
<1>1. Init => RInv
  BY DEF Init, RInv, ContainersGo, RowsForget, VolumesGo, VolumesMade
<1>2. IInv /\ RInv /\ UNCHANGED vars => RInv'
  BY DEF vars, dockerVars, createVars, recVars, processVars, RInv,
         ContainersGo, RowsForget, VolumesGo, VolumesMade, Swept
<1>3. IInv /\ RInv /\ [Next]_vars => RInv'
  BY <1>2, CreateRInv, DeleteRInv, ReconcileRInv, OutsideRInv, RestartRInv
     DEF Next
<1>4. RInv => ReconcileRestores
  BY DEF RInv, ContainersGo, RowsForget, VolumesGo, AfterSweep, Swept,
         ReconcileRestores
<1> QED
  BY <1>1, <1>3, <1>4, SpecIInv, PTL DEF Spec

=============================================================================
