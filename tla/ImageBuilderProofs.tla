-------------------------- MODULE ImageBuilderProofs --------------------------
(***************************************************************************)
(* The safety of ImageBuilder for every finite set of projects, every set  *)
(* of blocks and every bound.  Most of the argument is about the promise   *)
(* chain: `queued` is exactly what waits on it, and a row changes to       *)
(* `pending` only together with a request.                                 *)
(***************************************************************************)
EXTENDS ImageBuilder, FiniteSetTheorems, TLAPS

(* queued is what waits on the chain. *)
QueueExact == \A p \in Projects : p \in queued <=> Waiting(p)

(* The row of a project under construction says so, is about to say so     *)
(* again, or is gone.                                                      *)
JobStatus ==
    job # NoProject =>
        /\ status[job] \in {"pending", "building", "deleted"}
        /\ spec \in Blocks

(* What the daemon has tagged is there until the project is deleted.       *)
TaggedIsThere ==
    tagged = 1 => /\ job # NoProject
                  /\ Exists(job) => image[job] = spec

(* A build for blocks that are no longer the project's is not the last.    *)
OutdatedJobQueued ==
    job # NoProject /\ Exists(job) /\ spec # blocks[job] => Waiting(job)

ReadyHasImage == \A p \in Projects : status[p] = "ready" => image[p] # NoImage

RemovingDeleted == \A p \in removing : status[p] = "deleted"

Chain    == QueueExact /\ QueuedOnce /\ PendingIsQueued
Building == BuildingIsRunning /\ JobStatus /\ TaggedIsThere
Current  == OutdatedJobQueued /\ OutdatedIsQueued
Images   == ReadyHasImage /\ RemovingDeleted /\ InstanceHasImage

IInv == TypeOK /\ Chain /\ Building /\ Current /\ Images

-----------------------------------------------------------------------------
(* The promise chain                                                       *)

(* A request adds its project once, and leaves every other where it was.   *)
LEMMA RequestChain ==
  ASSUME TypeOK, QueueExact, QueuedOnce, NEW p \in Projects, Request(p)
  PROVE  /\ queue' \in Seq(Projects) /\ queued' \subseteq Projects
         /\ QueueExact' /\ QueuedOnce'
         /\ \A q \in Projects : Waiting(q)' <=> (Waiting(q) \/ q = p)
<1>1. CASE p \in queued
  BY <1>1 DEF Request, chainVars, TypeOK, QueueExact, QueuedOnce, Waiting
<1>2. CASE p \notin queued
  <2>1. queue' = Append(queue, p) /\ queued' = queued \cup {p}
    BY <1>2 DEF Request
  <2>2. /\ queue' \in Seq(Projects)
        /\ DOMAIN queue' = 1 .. Len(queue) + 1
        /\ \A n \in DOMAIN queue : queue'[n] = queue[n]
        /\ queue'[Len(queue) + 1] = p
        /\ DOMAIN queue = 1 .. Len(queue) /\ Len(queue) \in Nat
    BY <2>1 DEF TypeOK
  <2>3. \A q \in Projects : Waiting(q)' <=> (Waiting(q) \/ q = p)
    BY <2>2 DEF Waiting
  <2>4. QueuedOnce'
    BY <1>2, <2>2 DEF QueuedOnce, QueueExact, Waiting
  <2> QED
    BY <2>1, <2>2, <2>3, <2>4 DEF QueueExact, TypeOK
<1> QED
  BY <1>1, <1>2

(* The build that begins leaves the chain, and nothing else does.          *)
LEMMA BeginChain ==
  ASSUME TypeOK, QueueExact, QueuedOnce, queue # <<>>,
         queue' = Tail(queue), queued' = queued \ {Head(queue)}
  PROVE  /\ Head(queue) \in Projects
         /\ queue' \in Seq(Projects) /\ queued' \subseteq Projects
         /\ QueueExact' /\ QueuedOnce'
         /\ \A q \in Projects : Waiting(q)' <=> (Waiting(q) /\ q # Head(queue))
<1>1. /\ Len(queue) \in Nat \ {0} /\ DOMAIN queue = 1 .. Len(queue)
      /\ Head(queue) = queue[1] /\ Head(queue) \in Projects
      /\ queue' \in Seq(Projects)
      /\ DOMAIN queue' = 1 .. Len(queue) - 1
      /\ \A n \in DOMAIN queue' : queue'[n] = queue[n + 1]
  BY DEF TypeOK
<1>2. \A q \in Projects : Waiting(q)' <=> (Waiting(q) /\ q # Head(queue))
  <2> TAKE q \in Projects
  <2>1. ASSUME Waiting(q)'
        PROVE  Waiting(q) /\ q # Head(queue)
    BY <1>1, <2>1 DEF Waiting, QueuedOnce
  <2>2. ASSUME NEW n \in DOMAIN queue, queue[n] = q, q # Head(queue)
        PROVE  Waiting(q)'
    <3>1. n - 1 \in DOMAIN queue' /\ queue'[n - 1] = q
      BY <1>1, <2>2
    <3> QED
      BY <3>1 DEF Waiting
  <2> QED
    BY <2>1, <2>2 DEF Waiting
<1>3. QueuedOnce'
  BY <1>1 DEF QueuedOnce
<1> QED
  BY <1>1, <1>2, <1>3 DEF QueueExact, TypeOK

(* Any order of a finite set holds each of its elements once.              *)
LEMMA OrdersChain ==
  ASSUME NEW S \in SUBSET Projects, NEW s \in Orders(S)
  PROVE  /\ s \in Seq(Projects)
         /\ \A p \in Projects : (\E n \in DOMAIN s : s[n] = p) <=> p \in S
         /\ \A m, n \in DOMAIN s : s[m] = s[n] => m = n
<1>1. IsFiniteSet(S) /\ Cardinality(S) \in Nat
  BY ProjectAssumption, FS_Subset, FS_CardinalityType
<1>2. /\ s \in [1 .. Cardinality(S) -> S]
      /\ \A x \in S : \E n \in DOMAIN s : s[n] = x
  BY DEF Orders
<1>3. s \in Seq(Projects)
  BY <1>1, <1>2
<1>4. /\ IsFiniteSet(1 .. Cardinality(S))
      /\ Cardinality(1 .. Cardinality(S)) = Cardinality(S)
  BY <1>1, FS_Interval
<1>5. \A m, n \in DOMAIN s : s[m] = s[n] => m = n
  <2>1. s \in Surjection(1 .. Cardinality(S), S)
    BY <1>2 DEF Surjection
  <2>2. s \in Injection(1 .. Cardinality(S), S)
    BY <1>4, <2>1, FS_SurjSameCardinalityImpliesInj
  <2> QED
    BY <2>2 DEF Injection, IsInjective
<1> QED
  BY <1>2, <1>3, <1>5

-----------------------------------------------------------------------------
(* The inductive step                                                      *)

LEMMA InitIInv == Init => IInv
  BY ProjectAssumption, ImageAssumption
     DEF Init, IInv, TypeOK, Statuses, Chain, QueueExact, QueuedOnce,
         PendingIsQueued, Building, BuildingIsRunning, JobStatus, TaggedIsThere,
         Current, OutdatedJobQueued, OutdatedIsQueued, Images, ReadyHasImage,
         RemovingDeleted, InstanceHasImage, Waiting, Exists

LEMMA StutterIInv ==
  ASSUME IInv, UNCHANGED vars
  PROVE  IInv'
  BY DEF vars, chainVars, buildVars, IInv, TypeOK, Chain, QueueExact,
         QueuedOnce,
         PendingIsQueued, Building, BuildingIsRunning, JobStatus, TaggedIsThere,
         Current, OutdatedJobQueued, OutdatedIsQueued, Images, ReadyHasImage,
         RemovingDeleted, InstanceHasImage, Waiting, Exists

(* CreateProject, a PATCH that invalidates and Rebuild are alike.          *)
LEMMA InvalidateIInv ==
  ASSUME IInv, NEW p \in Projects, status[p] # "deleted",
         status' = [status EXCEPT ![p] = "pending"], Request(p),
         blocks' \in [Projects -> Blocks],
         \A q \in Projects \ {p} : blocks'[q] = blocks[q],
         edits' \in Nat,
         UNCHANGED <<rows, image, buildVars, removing, faults, restarts>>
  PROVE  IInv'
<1> USE DEF IInv, TypeOK, buildVars, Exists
<1>1. /\ queue' \in Seq(Projects) /\ queued' \subseteq Projects
      /\ QueueExact' /\ QueuedOnce'
      /\ \A q \in Projects : Waiting(q)' <=> (Waiting(q) \/ q = p)
  BY RequestChain DEF Chain
<1>2. TypeOK'
  BY <1>1 DEF Statuses
<1>3. Chain'
  BY <1>1 DEF Chain, PendingIsQueued
<1>4. Building'
  BY DEF Building, BuildingIsRunning, JobStatus, TaggedIsThere
<1>5. Current'
  BY <1>1 DEF Current, OutdatedJobQueued, OutdatedIsQueued
<1>6. Images'
  BY DEF Images, ReadyHasImage, RemovingDeleted, InstanceHasImage
<1> QED
  BY <1>2, <1>3, <1>4, <1>5, <1>6

LEMMA RouteIInv ==
  ASSUME IInv, NEW p \in Projects, Route(p) \/ ImageRemoved(p)
  PROVE  IInv'
<1> USE DEF IInv, TypeOK
<1>1. CASE CreateProject(p)
  BY <1>1, InvalidateIInv DEF CreateProject
<1>2. ASSUME NEW b \in Blocks, Patch(p, b)
      PROVE  IInv'
  <2>1. CASE b = blocks[p]
    <3>1. status[p] = "pending" => p \in queued
      BY DEF Chain, PendingIsQueued, QueueExact
    <3>2. blocks' = blocks /\ UNCHANGED <<status, edits>>
      BY <1>2, <2>1 DEF Patch
    <3>3. UNCHANGED chainVars
      BY <1>2, <3>1, <3>2 DEF Patch, Request
    <3> QED
      BY <1>2, <3>2, <3>3, StutterIInv DEF Patch, vars
  <2>2. CASE b # blocks[p]
    BY <1>2, <2>2, InvalidateIInv DEF Patch, Edit, Exists
  <2> QED
    BY <2>1, <2>2
<1>3. CASE Rebuild(p)
  <2>1. status[p] # "deleted" /\ blocks' = blocks /\ edits' \in Nat
    BY <1>3 DEF Rebuild, Edit, Exists
  <2> QED
    BY <1>3, <2>1, InvalidateIInv DEF Rebuild
<1>4. CASE DeleteProject(p)
  <2> USE <1>4 DEF DeleteProject, Deletable, buildVars, chainVars
  <2>1. TypeOK'
    BY DEF Statuses
  <2>2. Chain'
    BY DEF Chain, QueueExact, QueuedOnce, PendingIsQueued, Waiting
  <2>3. Building'
    BY DEF Building, BuildingIsRunning, JobStatus, TaggedIsThere, Exists
  <2>4. Current'
    BY DEF Current, OutdatedJobQueued, OutdatedIsQueued, Waiting, Exists
  <2>5. Images'
    BY DEF Images, ReadyHasImage, RemovingDeleted, InstanceHasImage, Exists
  <2> QED
    BY <2>1, <2>2, <2>3, <2>4, <2>5
<1>5. CASE ImageRemoved(p)
  <2> USE <1>5 DEF ImageRemoved, buildVars, chainVars
  <2>1. TypeOK'
    <3>1. faults' \in Nat
      BY DEF Fault
    <3>2. image' \in [Projects -> Blocks \cup {NoImage}]
      OBVIOUS
    <3> QED
      BY <3>1, <3>2
  <2>2. Chain'
    BY DEF Chain, QueueExact, QueuedOnce, PendingIsQueued, Waiting
  <2>3. status[p] = "deleted"
    BY DEF Images, RemovingDeleted
  <2>4. Building'
    BY <2>3 DEF Building, BuildingIsRunning, JobStatus, TaggedIsThere, Exists
  <2>5. Current'
    BY <2>3 DEF Current, OutdatedJobQueued, OutdatedIsQueued, Waiting, Exists
  <2>6. Images'
    BY <2>3 DEF Images, ReadyHasImage, RemovingDeleted, InstanceHasImage, Exists
  <2> QED
    BY <2>1, <2>2, <2>4, <2>5, <2>6
<1>6. CASE CreateInstance(p)
  BY <1>6
     DEF CreateInstance, Startable, chainVars, buildVars, Chain, QueueExact,
         QueuedOnce, PendingIsQueued, Building, BuildingIsRunning, JobStatus,
         TaggedIsThere, Current, OutdatedJobQueued, OutdatedIsQueued, Images,
         ReadyHasImage, RemovingDeleted, InstanceHasImage, Waiting, Exists
<1>7. CASE DeleteInstance(p)
  BY <1>7
     DEF DeleteInstance, HasInstance, chainVars, buildVars, Chain, QueueExact,
         QueuedOnce, PendingIsQueued, Building, BuildingIsRunning, JobStatus,
         TaggedIsThere, Current, OutdatedJobQueued, OutdatedIsQueued, Images,
         ReadyHasImage, RemovingDeleted, InstanceHasImage, Waiting, Exists
<1> QED
  BY <1>1, <1>2, <1>3, <1>4, <1>5, <1>6, <1>7 DEF Route

LEMMA BuilderIInv ==
  ASSUME IInv, Builder
  PROVE  IInv'
<1> USE ProjectAssumption DEF IInv, TypeOK, Exists
<1>1. CASE BuildBegins
  <2> DEFINE p == Head(queue)
  <2>1. /\ p \in Projects
        /\ queue' \in Seq(Projects) /\ queued' \subseteq Projects
        /\ QueueExact' /\ QueuedOnce'
        /\ \A q \in Projects : Waiting(q)' <=> (Waiting(q) /\ q # p)
    BY <1>1, BeginChain DEF BuildBegins, Unqueued, Chain
  <2>2. CASE Exists(p)
    <3> USE <1>1, <2>1, <2>2 DEF BuildBegins, ImageState
    <3>1. /\ job' = p /\ spec' = blocks[p] /\ tagged' = 0
          /\ status' = [status EXCEPT ![p] = "building"]
      OBVIOUS
    <3>2. TypeOK'
      BY <3>1 DEF Statuses
    <3>3. Chain'
      BY <3>1 DEF Chain, PendingIsQueued
    <3>4. Building'
      BY <3>1 DEF Building, BuildingIsRunning, JobStatus, TaggedIsThere
    <3>5. Current'
      BY <3>1 DEF Current, OutdatedJobQueued, OutdatedIsQueued
    <3>6. Images'
      BY <3>1 DEF Images, ReadyHasImage, RemovingDeleted, InstanceHasImage
    <3> QED
      BY <3>2, <3>3, <3>4, <3>5, <3>6
  <2>3. CASE ~Exists(p)
    <3> USE <1>1, <2>1, <2>3 DEF BuildBegins, buildVars
    <3>1. TypeOK'
      OBVIOUS
    <3>2. Chain'
      BY DEF Chain, PendingIsQueued
    <3>3. Building' /\ Images'
      BY DEF Building, BuildingIsRunning, JobStatus, TaggedIsThere, Images,
             ReadyHasImage, RemovingDeleted, InstanceHasImage
    <3>4. Current'
      BY DEF Current, OutdatedJobQueued, OutdatedIsQueued
    <3> QED
      BY <3>1, <3>2, <3>3, <3>4
  <2> QED
    BY <2>2, <2>3
<1>2. CASE Flush
  <2> USE <1>2 DEF Flush, ImageState, chainVars, buildVars
  <2>1. TypeOK'
    BY DEF Statuses
  <2>2. Chain'
    BY DEF Chain, QueueExact, QueuedOnce, PendingIsQueued, Waiting
  <2>3. Building'
    BY DEF Building, BuildingIsRunning, JobStatus, TaggedIsThere
  <2>4. Current'
    BY DEF Current, OutdatedJobQueued, OutdatedIsQueued, Waiting
  <2>5. Images'
    BY DEF Images, ReadyHasImage, RemovingDeleted, InstanceHasImage
  <2> QED
    BY <2>1, <2>2, <2>3, <2>4, <2>5
<1>3. CASE DaemonTags
  <2> USE <1>3 DEF DaemonTags, chainVars
  <2>0. job \in Projects /\ spec \in Blocks
        /\ status[job] \in {"pending", "building", "deleted"}
    BY DEF Building, JobStatus
  <2>1. TypeOK'
    BY <2>0
  <2>2. Chain'
    BY DEF Chain, QueueExact, QueuedOnce, PendingIsQueued, Waiting
  <2>3. Building'
    BY <2>0 DEF Building, BuildingIsRunning, JobStatus, TaggedIsThere
  <2>4. Current'
    BY <2>0 DEF Current, OutdatedJobQueued, OutdatedIsQueued, Waiting
  <2>5. Images'
    BY <2>0, ImageAssumption
       DEF Images, ReadyHasImage, RemovingDeleted, InstanceHasImage
  <2> QED
    BY <2>1, <2>2, <2>3, <2>4, <2>5
<1>4. CASE BuildReady
  <2> USE <1>4 DEF BuildReady, Idle, ImageState, chainVars
  <2>0. job \in Projects /\ spec \in Blocks
        /\ (Exists(job) => image[job] = spec)
    BY DEF Building, JobStatus, TaggedIsThere
  <2>1. TypeOK'
    BY <2>0 DEF Statuses
  <2>2. Chain'
    BY <2>0 DEF Chain, QueueExact, QueuedOnce, PendingIsQueued, Waiting
  <2>3. Building'
    BY <2>0 DEF Building, BuildingIsRunning, JobStatus, TaggedIsThere
  <2>4. Current'
    BY <2>0 DEF Current, OutdatedJobQueued, OutdatedIsQueued, Waiting
  <2>5. Images'
    BY <2>0, ImageAssumption
       DEF Images, ReadyHasImage, RemovingDeleted, InstanceHasImage
  <2> QED
    BY <2>1, <2>2, <2>3, <2>4, <2>5
<1>5. CASE BuildFails
  <2> USE <1>5 DEF BuildFails, Idle, ImageState, chainVars
  <2>0. job \in Projects /\ faults' \in Nat
    BY DEF Fault
  <2>1. TypeOK'
    BY <2>0 DEF Statuses
  <2>2. Chain'
    BY <2>0 DEF Chain, QueueExact, QueuedOnce, PendingIsQueued, Waiting
  <2>3. Building'
    BY <2>0 DEF Building, BuildingIsRunning, JobStatus, TaggedIsThere
  <2>4. Current'
    BY <2>0 DEF Current, OutdatedJobQueued, OutdatedIsQueued, Waiting
  <2>5. Images'
    BY <2>0 DEF Images, ReadyHasImage, RemovingDeleted, InstanceHasImage
  <2> QED
    BY <2>1, <2>2, <2>3, <2>4, <2>5
<1> QED
  BY <1>1, <1>2, <1>3, <1>4, <1>5 DEF Builder

LEMMA RestartIInv ==
  ASSUME IInv, Restart
  PROVE  IInv'
<1> USE Restart, ProjectAssumption
    DEF IInv, TypeOK, Exists, Restart, Idle, Interrupted
<1>1. /\ queued' \subseteq Projects
      /\ queue' \in Seq(Projects)
      /\ \A p \in Projects : Waiting(p)' <=> p \in queued'
      /\ QueuedOnce'
  BY OrdersChain DEF Waiting, QueuedOnce
<1>2. restarts' \in Nat \ {0}
  OBVIOUS
<1>3. job # NoProject => job \in Projects /\ spec \in Blocks
                         /\ status[job] \in {"pending", "building", "deleted"}
  BY DEF Building, JobStatus
<1>4. image' \in [Projects -> Blocks \cup {NoImage}]
  BY <1>3
<1>5. TypeOK'
  BY <1>1, <1>2, <1>4 DEF Statuses
<1>6. Chain'
  BY <1>1 DEF Chain, QueueExact, PendingIsQueued
<1>7. Building'
  BY DEF Building, BuildingIsRunning, JobStatus, TaggedIsThere
<1>8. Current'
  BY <1>2 DEF Current, OutdatedJobQueued, OutdatedIsQueued
<1>9. Images'
  BY <1>3, ImageAssumption
     DEF Images, ReadyHasImage, RemovingDeleted, InstanceHasImage
<1> QED
  BY <1>5, <1>6, <1>7, <1>8, <1>9

(* IInv holds however requests, builds and restarts interleave.            *)
THEOREM SpecIInv == Spec => []IInv
<1>1. IInv /\ [Next]_vars => IInv'
  BY RouteIInv, BuilderIInv, RestartIInv, StutterIInv DEF Next
<1> QED
  BY <1>1, InitIInv, PTL DEF Spec

-----------------------------------------------------------------------------
(* The properties                                                          *)

(* Rows, tags and the promise chain keep their types.                      *)
THEOREM SpecTypeOK == Spec => []TypeOK
  BY SpecIInv, PTL DEF IInv

(* A pending project has its build on the chain (images.ts request, build, *)
(* resumePending).                                                         *)
THEOREM SpecPendingIsQueued == Spec => []PendingIsQueued
  BY SpecIInv, PTL DEF IInv, Chain

(* No project waits on the chain twice (images.ts queued).                 *)
THEOREM SpecQueuedOnce == Spec => []QueuedOnce
  BY SpecIInv, PTL DEF IInv, Chain

(* `building` is said of the running build only (images.ts build).         *)
THEOREM SpecBuildingIsRunning == Spec => []BuildingIsRunning
  BY SpecIInv, PTL DEF IInv, Building

(* Status column and chain agree, of any number of projects (images.ts).   *)
THEOREM SpecStatusAgrees == Spec => []StatusAgrees
  BY SpecPendingIsQueued, SpecQueuedOnce, SpecBuildingIsRunning, PTL
  DEF StatusAgrees

(* An instance's project and its image outlive the instance's row          *)
(* (service.ts create; projects/service.ts delete; routes.ts DELETE).      *)
THEOREM SpecInstanceHasImage == Spec => []InstanceHasImage
  BY SpecIInv, PTL DEF IInv, Images

(* While the process lives, an outdated image that counts as `ready` is    *)
(* about to be rebuilt (images.ts build; routes.ts PATCH).                 *)
THEOREM SpecOutdatedIsQueued == Spec => []OutdatedIsQueued
  BY SpecIInv, PTL DEF IInv, Current

(* No build brings a deleted project back, not even one that was under way *)
(* when it was deleted (db/projects.ts setImageState).                     *)
THEOREM SpecDeletedStays == Spec => DeletedStays
<1>1. ASSUME TypeOK, [Next]_vars
      PROVE  \A p \in Projects : status[p] = "deleted" => status'[p] = "deleted"
  <2> SUFFICES ASSUME NEW p \in Projects, status[p] = "deleted"
               PROVE  status'[p] = "deleted"
    OBVIOUS
  <2> USE <1>1 DEF TypeOK, Exists
  <2>1. ASSUME NEW q \in Projects, Route(q) \/ ImageRemoved(q)
        PROVE  status'[p] = "deleted"
    BY <2>1
       DEF Route, CreateProject, Rebuild, DeleteProject, Deletable, Patch,
           CreateInstance, DeleteInstance, ImageRemoved
  <2>2. CASE Builder
    <3>1. \A q : status' = ImageState(q, "building") => status'[p] = "deleted"
      BY DEF ImageState
    <3>2. \A q : status' = ImageState(q, "ready") => status'[p] = "deleted"
      BY DEF ImageState
    <3>3. \A q : status' = ImageState(q, "failed") => status'[p] = "deleted"
      BY DEF ImageState
    <3>4. CASE UNCHANGED status
      BY <3>4
    <3> QED
      BY <2>2, <3>1, <3>2, <3>3, <3>4
         DEF Builder, BuildBegins, Flush, DaemonTags, BuildReady, BuildFails
  <2>3. CASE Restart
    BY <2>3 DEF Restart, Interrupted
  <2>4. CASE UNCHANGED vars
    BY <2>4 DEF vars
  <2> QED
    BY <2>1, <2>2, <2>3, <2>4 DEF Next
<1> QED
  BY <1>1, SpecTypeOK, PTL DEF Spec, DeletedStays

=============================================================================
