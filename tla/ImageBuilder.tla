---------------------------- MODULE ImageBuilder ----------------------------
(***************************************************************************)
(* A project's image: the status column in SQLite, the tag in Docker, and  *)
(* the builder between them (server/src/projects/images.ts, service.ts).   *)
(*                                                                         *)
(* Routes are synchronous up to images.request, which appends one build to *)
(* a promise chain; the chain runs builds one after another, and a build   *)
(* waits for the daemon while PATCHes, rebuilds, DELETEs and instance      *)
(* creations go on.  Queue and build die with the process; rows and tags   *)
(* survive it.                                                             *)
(***************************************************************************)
EXTENDS Naturals, FiniteSets, Sequences

CONSTANTS
    Projects,       \* project ids, never used twice
    Blocks,         \* combinations of building blocks
    NoProject,      \* nothing is being built
    NoImage,        \* the daemon has nothing under the project's tag
    MaxEdits,       \* bound: PATCHes that change something, and rebuilds
    MaxFaults,      \* bound: failing builds and removals
    MaxRestarts,    \* bound: deaths of the server process
    MaxRows         \* bound: instances of one project at a time

ASSUME ProjectAssumption == IsFiniteSet(Projects) /\ NoProject \notin Projects
ASSUME ImageAssumption == NoImage \notin Blocks
ASSUME LimitAssumption ==
    {MaxEdits, MaxFaults, MaxRestarts, MaxRows} \subseteq Nat

VARIABLES
    status,         \* projects.image_status, or that there is no such row
    blocks,         \* projects.block_dotnet and block_playwright
    rows,           \* how many instances point at the project
    image,          \* the blocks the tagged image was built with
    queue,          \* builds on the promise chain that have not begun
    queued,         \* this.queued
    job,            \* the project being built
    spec,           \* the blocks its build was given
    tagged,         \* 1 once the daemon has tagged it: the answer is on its way
    removing,       \* DELETEs waiting for images.remove
    edits, faults, restarts

chainVars == <<queue, queued>>
buildVars == <<job, spec, tagged>>
vars == <<status, blocks, rows, image, chainVars, buildVars, removing, edits,
          faults, restarts>>

-----------------------------------------------------------------------------

Statuses == {"unborn", "pending", "building", "ready", "failed", "deleted"}

TypeOK ==
    /\ status \in [Projects -> Statuses]
    /\ blocks \in [Projects -> Blocks]
    /\ rows \in [Projects -> Nat]
    /\ image \in [Projects -> Blocks \cup {NoImage}]
    /\ queue \in Seq(Projects)
    /\ queued \subseteq Projects
    /\ job \in Projects \cup {NoProject}
    /\ spec \in Blocks \cup {NoImage}
    /\ tagged \in {0, 1}
    /\ removing \subseteq Projects
    /\ edits \in Nat /\ faults \in Nat /\ restarts \in Nat

Init ==
    /\ status = [p \in Projects |-> "unborn"]
    /\ blocks \in [Projects -> Blocks]
    /\ rows = [p \in Projects |-> 0]
    /\ image = [p \in Projects |-> NoImage]
    /\ queue = <<>> /\ queued = {}
    /\ job = NoProject /\ spec = NoImage /\ tagged = 0
    /\ removing = {}
    /\ edits = 0 /\ faults = 0 /\ restarts = 0

Exists(p) == status[p] \in {"pending", "building", "ready", "failed"}

(* The chain runs in microtasks: no request and no answer of the daemon is *)
(* handled between the end of a build and the beginning of the next, or    *)
(* between a request for a build and its beginning on an idle chain.       *)
TurnOver == job # NoProject \/ queue = <<>>

Edit  == edits < MaxEdits /\ edits' = edits + 1
Fault == faults < MaxFaults /\ faults' = faults + 1

(* Deviation: an upsert, which brings a deleted project back.              *)
StateUpserted(p, state) == [status EXCEPT ![p] = state]

(* setImageState: an UPDATE, so nothing for a row that is gone.            *)
ImageState(p, state) ==
    IF Exists(p) THEN [status EXCEPT ![p] = state] ELSE status

(* Deviation: no look at `queued`.                                         *)
RequestAlways(p) == queue' = Append(queue, p) /\ queued' = queued \cup {p}

(* images.request *)
Request(p) ==
    IF p \in queued THEN UNCHANGED chainVars
    ELSE queue' = Append(queue, p) /\ queued' = queued \cup {p}

-----------------------------------------------------------------------------
(* The routes                                                              *)

CreateProject(p) ==
    /\ TurnOver /\ status[p] = "unborn"
    /\ status' = [status EXCEPT ![p] = "pending"]
    /\ Request(p)
    /\ UNCHANGED <<blocks, rows, image, buildVars, removing, edits, faults,
                   restarts>>

(* PATCH: only a real change invalidates the image, in the statement that  *)
(* makes it; whoever is `pending` afterwards is requested, once more or    *)
(* for the first time.                                                     *)
Patch(p, b) ==
    /\ TurnOver /\ Exists(p)
    /\ blocks' = [blocks EXCEPT ![p] = b]
    /\ IF b = blocks[p] THEN UNCHANGED <<status, edits>>
       ELSE status' = [status EXCEPT ![p] = "pending"] /\ Edit
    /\ IF status'[p] = "pending" THEN Request(p) ELSE UNCHANGED chainVars
    /\ UNCHANGED <<rows, image, buildVars, removing, faults, restarts>>

(* POST /projects/:id/build *)
Rebuild(p) ==
    /\ TurnOver /\ Exists(p)
    /\ status' = [status EXCEPT ![p] = "pending"]
    /\ Request(p) /\ Edit
    /\ UNCHANGED <<blocks, rows, image, buildVars, removing, faults, restarts>>

(* ProjectInUseError while instances point at the project. *)
Deletable(p) == Exists(p) /\ rows[p] = 0

(* The row goes first, in the same turn as the check; the tag is removed   *)
(* while the route waits.  What is queued or being built stays so.         *)
DeleteProject(p) ==
    /\ TurnOver /\ Deletable(p)
    /\ status' = [status EXCEPT ![p] = "deleted"]
    /\ removing' = removing \cup {p}
    /\ UNCHANGED <<blocks, rows, image, chainVars, buildVars, edits, faults,
                   restarts>>

(* Best effort: a failure is logged, and the tag stays.                    *)
ImageRemoved(p) ==
    /\ TurnOver /\ p \in removing
    /\ removing' = removing \ {p}
    /\ \/ image' = [image EXCEPT ![p] = NoImage] /\ UNCHANGED faults
       \/ UNCHANGED image /\ Fault
    /\ UNCHANGED <<status, blocks, rows, chainVars, buildVars, edits, restarts>>

(* Deviation: any project will do, whatever its image.                     *)
GateOpen(p) == Exists(p)

(* POST /instances: the project's image has to be `ready`.                 *)
Startable(p) == status[p] = "ready"

CreateInstance(p) ==
    /\ TurnOver /\ Startable(p) /\ rows[p] < MaxRows
    /\ rows' = [rows EXCEPT ![p] = @ + 1]
    /\ UNCHANGED <<status, blocks, image, chainVars, buildVars, removing, edits,
                   faults, restarts>>

(* Deviation: deleting an instance twice counts twice.                     *)
AnyInstance(p) == Exists(p)

HasInstance(p) == rows[p] > 0

DeleteInstance(p) ==
    /\ TurnOver /\ HasInstance(p)
    /\ rows' = [rows EXCEPT ![p] = @ - 1]
    /\ UNCHANGED <<status, blocks, image, chainVars, buildVars, removing, edits,
                   faults, restarts>>

Route(p) ==
    \/ CreateProject(p) \/ Rebuild(p) \/ DeleteProject(p)
    \/ \E b \in Blocks : Patch(p, b)
    \/ CreateInstance(p) \/ DeleteInstance(p)

-----------------------------------------------------------------------------
(* The builder                                                             *)

(* Deviation: the project leaves `queued` only after its build.            *)
QueuedThroughout(p) == queued

Unqueued(p) == queued \ {p}

Idle == job' = NoProject /\ spec' = NoImage /\ tagged' = 0

(* Up to the await of buildImage.  A project deleted while it waited has   *)
(* nothing to build.                                                       *)
BuildBegins ==
    /\ job = NoProject /\ queue # <<>>
    /\ queue' = Tail(queue)
    /\ queued' = Unqueued(Head(queue))
    /\ IF Exists(Head(queue))
       THEN /\ job' = Head(queue) /\ spec' = blocks[Head(queue)] /\ tagged' = 0
            /\ status' = ImageState(Head(queue), "building")
       ELSE UNCHANGED <<status, buildVars>>
    /\ UNCHANGED <<blocks, rows, image, removing, edits, faults, restarts>>

(* The daemon sent output: the log so far is written, under `building`.    *)
Flush ==
    /\ job # NoProject
    /\ status' = ImageState(job, "building")
    /\ UNCHANGED <<blocks, rows, image, chainVars, buildVars, removing, edits,
                   faults, restarts>>

DaemonTags ==
    /\ job # NoProject /\ tagged = 0
    /\ image' = [image EXCEPT ![job] = spec]
    /\ tagged' = 1
    /\ UNCHANGED <<status, blocks, rows, chainVars, job, spec, removing, edits,
                   faults, restarts>>

(* The outcome is recorded over whatever the row says by now, and the next *)
(* build may begin.                                                        *)
BuildReady ==
    /\ job # NoProject /\ tagged = 1
    /\ status' = ImageState(job, "ready")
    /\ Idle
    /\ UNCHANGED <<blocks, rows, image, chainVars, removing, edits, faults,
                   restarts>>

(* A failing step, or a connection lost before or after the tag.           *)
BuildFails ==
    /\ job # NoProject /\ Fault
    /\ status' = ImageState(job, "failed")
    /\ Idle
    /\ UNCHANGED <<blocks, rows, image, chainVars, removing, edits, restarts>>

Builder == BuildBegins \/ Flush \/ DaemonTags \/ BuildReady \/ BuildFails

-----------------------------------------------------------------------------
(* The process                                                             *)

(* Every order in which the elements of S can be queued.                   *)
Orders(S) ==
    {s \in [1 .. Cardinality(S) -> S] :
        \A x \in S : \E n \in DOMAIN s : s[n] = x}

(* Deviation: `building` is left as it is.                                 *)
InterruptedStays == status

(* A `building` row is always a leftover.            *)
Interrupted ==
    [p \in Projects |-> IF status[p] = "building" THEN "pending" ELSE status[p]]

(* The process dies and resumePending, in onReady, sees to the rows: all   *)
(* in one step, for no request is answered before it.  (Oldest first; the  *)
(* model takes any order.)  A build that was running may just have made    *)
(* it.                                                                     *)
Restart ==
    /\ restarts < MaxRestarts /\ restarts' = restarts + 1
    /\ status' = Interrupted
    /\ queued' = {p \in Projects : status'[p] = "pending"}
    /\ queue' \in Orders(queued')
    /\ \/ UNCHANGED image
       \/ job # NoProject /\ image' = [image EXCEPT ![job] = spec]
    /\ Idle /\ removing' = {}
    /\ UNCHANGED <<blocks, rows, edits, faults>>

Next ==
    \/ \E p \in Projects : Route(p) \/ ImageRemoved(p)
    \/ Builder
    \/ Restart

(* The daemon ends every build and answers every removal, and Node runs    *)
(* what waits for them.                                                    *)
Fairness ==
    /\ WF_vars(BuildBegins)
    /\ WF_vars(DaemonTags \/ BuildReady \/ BuildFails)
    /\ \A p \in Projects : WF_vars(ImageRemoved(p))

Spec == Init /\ [][Next]_vars
FairSpec == Spec /\ Fairness

-----------------------------------------------------------------------------
(* Properties                                                              *)

Waiting(p) == \E n \in DOMAIN queue : queue[n] = p

(* "`pending`: it is queued" (wiki/operations.md): no interleaving of      *)
(* PATCHes, builds and restarts leaves a pending project without a build   *)
(* on the chain, where it would wait for ever (images.ts request, build).  *)
PendingIsQueued ==
    \A p \in Projects : status[p] = "pending" => Waiting(p)

(* However many PATCHes and rebuilds arrive, and whatever is running, no   *)
(* project waits on the chain twice (images.ts queued).                    *)
QueuedOnce ==
    \A m, n \in DOMAIN queue : queue[m] = queue[n] => m = n

(* A row says `building` only while that very build is running: neither a  *)
(* flush nor the next build nor a crash leaves it behind (images.ts).      *)
BuildingIsRunning ==
    \A p \in Projects : status[p] = "building" => job = p

(* What the status column says of a build in flight is what the chain in   *)
(* memory will do about it, which is all that a page and a restart go by.  *)
StatusAgrees == PendingIsQueued /\ QueuedOnce /\ BuildingIsRunning

(* The gate, the refusal to delete a project in use and the order of its   *)
(* DELETE together: an instance's project and image are there for as long  *)
(* as its row is, also while the image is rebuilt or a rebuild fails       *)
(* (instances/service.ts create, projects/service.ts delete).              *)
InstanceHasImage ==
    \A p \in Projects : rows[p] > 0 => Exists(p) /\ image[p] # NoImage

(* As long as the server lives, an outdated image that counts as `ready`   *)
(* is at least about to be rebuilt (images.ts build, routes.ts PATCH).     *)
OutdatedIsQueued ==
    restarts = 0 =>
        \A p \in Projects :
            status[p] = "ready" /\ image[p] # blocks[p] => Waiting(p)

(* A deleted project stays deleted, whatever build of it is still under    *)
(* way (images.ts build, db/projects.ts setImageState).                    *)
DeletedStays ==
    [][\A p \in Projects : status[p] = "deleted" => status'[p] = "deleted"]_vars

(* Nobody waits for an image for ever: a project that is pending or        *)
(* building is ready, failed or deleted in the end, behind any number of   *)
(* other builds and across restarts (images.ts request, resumePending).    *)
BuildsSettle ==
    \A p \in Projects :
        status[p] \in {"pending", "building"} ~>
            status[p] \in {"ready", "failed", "deleted"}

=============================================================================
