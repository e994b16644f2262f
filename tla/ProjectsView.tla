----------------------------- MODULE ProjectsView -----------------------------
(***************************************************************************)
(* The table of the projects page (web/src/views/projects.ts): the list,   *)
(* which polls while an image is being built, and the log of one build,    *)
(* which is read along with it.  The form is in ProjectForm.               *)
(*                                                                         *)
(* What a request changes on the server it changes with its answer; a list *)
(* and a log are read when they are asked for and arrive when they like.   *)
(***************************************************************************)
EXTENDS Naturals, SequencesExt, Page

CONSTANTS
    Projects,
    Moving,         \* bound: those anything happens to while the page is open,
                    \* whose image is queued when it opens
    MaxLists,       \* bound: lists and logs on their way, each
    MaxSteps        \* bound: requests and failures

ASSUME ProjectsAssumption ==
    /\ None \notin Projects /\ Moving \subseteq Projects
    /\ MaxSteps \in Nat

VARIABLES
    stored,         \* the server: per project its image and its build log
    lists,          \* the lists on their way, in the order they were read
    logs,           \* and the logs
    projects,       \* those of the last list that came
    poll,           \* a timer's handle is held
    ticking,        \* and the timer runs
    showingLog,     \* the project whose log is open
    log,            \* what is shown of it: whose, as of which build
    logAt,          \* the build that belongs to, None before it came
    failed,         \* history: a list or a log was refused
    overtook,       \* history: a list or a log came before an older one
    unread,         \* history: a failed build's log was taken for that of
                    \* the failed build before it
    steps

logVars == <<logs, showingLog, log, logAt, overtook, unread>>
listOf == <<lists, projects, poll, ticking, failed>>
projectsVars == <<stored, logVars, listOf, steps>>

-----------------------------------------------------------------------------

(* An image: its status, the build it is of, and the build that was last   *)
(* started.  One that fails leaves the image, and `builtAt`, as it was; one *)
(* that is ready is of the last build.                                     *)
Statuses == {"gone", "pending", "building", "ready", "failed"}
InFlight(s) == s \in {"pending", "building"}
Image == {i \in [is : Statuses, built : Nat, run : Nat] :
              i.is = "ready" => i.built = i.run}
IsListed(i) == i.is # "gone"

(* imageKey, and the log itself: a part of it while the build runs, all of *)
(* it after.                                                               *)
Key(i) == <<i.is, i.built>>
Text(i) == <<i.is, i.run>>

NoLog == [of |-> None, text |-> None]

ASSUME NoneAssumption == None \notin Statuses \X Nat

ProjectsInit ==
    /\ stored = [p \in Projects |->
           [is |-> IF p \in Moving THEN "pending" ELSE "ready",
            built |-> 0, run |-> 0]]
    /\ lists = <<stored>> /\ projects = {}
    /\ poll = FALSE /\ ticking = FALSE
    /\ showingLog = None /\ log = NoLog /\ logAt = None /\ logs = << >>
    /\ failed = FALSE /\ overtook = FALSE /\ unread = FALSE /\ steps = 0

ProjectsTypeOK ==
    /\ stored \in [Projects -> Image] /\ projects \subseteq Projects
    /\ lists \in Seq([Projects -> Image])
    /\ logs \in Seq(Projects \X Image)
    /\ showingLog \in Projects \cup {None}
    /\ log \in [of : Projects \cup {None},
               text : {None} \cup (Statuses \X Nat)]
    /\ logAt \in {None} \cup (Statuses \X Nat)
    /\ poll \in BOOLEAN /\ ticking \in BOOLEAN
    /\ failed \in BOOLEAN /\ overtook \in BOOLEAN /\ unread \in BOOLEAN
    /\ steps \in 0 .. MaxSteps

Steps == steps < MaxSteps /\ steps' = steps + 1
Here == Mounted("projects")

(* refresh and loadLog, up to their awaits                                 *)
AsksList == Len(lists) < MaxLists /\ lists' = Append(lists, stored')
AsksLog(p) == Len(logs) < MaxLists /\ logs' = Append(logs, <<p, stored'[p]>>)

-----------------------------------------------------------------------------
(* The list and its timer                                                  *)

(* Deviation: the handle of a timer that fired is kept.                    *)
KeepsHandle == UNCHANGED poll

ReleasesHandle == poll' = FALSE

TimerFires ==
    /\ Here /\ ticking /\ ticking' = FALSE
    /\ ReleasesHandle
    /\ UNCHANGED stored /\ AsksList
    /\ UNCHANGED <<projects, failed, logVars, steps>>

(* scheduleWhileBuilding                                                   *)
Schedules(list) ==
    IF \E p \in Projects : InFlight(list[p].is)
    THEN poll' = TRUE /\ ticking' = (ticking \/ ~poll)
    ELSE poll' = FALSE /\ ticking' = FALSE

(* Deviation: a log is read only while its build runs.                     *)
ReadsWhileBuilding(image) == InFlight(image.is)

(* The log of a build in flight, and of one that has moved since.          *)
ReadsLog(image) == InFlight(image.is) \/ Key(image) # logAt

(* Its key says that it is the one that is shown, and it is not.           *)
SeemsRead(image) ==
    IsListed(image) /\ Key(image) = logAt /\ Text(image) # log.text

(* refresh, after its await                                                *)
ListArrives(k) ==
    /\ Here /\ k \in DOMAIN lists
    /\ lists' = RemoveAt(lists, k)
    /\ projects' = {p \in Projects : IsListed(lists[k][p])}
    /\ Schedules(lists[k])
    /\ overtook' = (overtook \/ k > 1) /\ UNCHANGED stored
    /\ IF showingLog = None THEN UNCHANGED <<logs, unread>>
       ELSE LET open == lists[k][showingLog]
            IN  IF IsListed(open) /\ ReadsLog(open)
                THEN AsksLog(showingLog) /\ UNCHANGED unread
                ELSE /\ UNCHANGED logs
                     /\ unread' = (unread \/ SeemsRead(open))
    /\ UNCHANGED <<failed, showingLog, log, logAt, steps>>

(* Nothing is scheduled after a refusal.                                   *)
ListFails(k) ==
    /\ Here /\ Steps /\ k \in DOMAIN lists
    /\ lists' = RemoveAt(lists, k) /\ failed' = TRUE
    /\ UNCHANGED <<stored, projects, poll, ticking, logVars>>

-----------------------------------------------------------------------------
(* The log                                                                 *)

OpensLog(p) ==
    showingLog' = p /\ log' = [of |-> p, text |-> None] /\ logAt' = None
Shows(p, i) == log' = [of |-> p, text |-> Text(i)] /\ logAt' = Key(i)

(* toggleLog                                                               *)
TogglesLog(p) ==
    /\ Here /\ p \in projects /\ UNCHANGED stored
    /\ IF showingLog = p
       THEN OpensLog(None) /\ UNCHANGED logs
       ELSE OpensLog(p) /\ AsksLog(p)
    /\ UNCHANGED <<overtook, unread, listOf, steps>>

(* Deviation: an answer is shown whichever log is open.                    *)
AnyLog(p) == showingLog # None

OpenLog(p) == showingLog = p

(* loadLog, after its await                                                *)
LogArrives(k) ==
    /\ Here /\ k \in DOMAIN logs
    /\ logs' = RemoveAt(logs, k) /\ overtook' = (overtook \/ k > 1)
    /\ IF OpenLog(logs[k][1])
       THEN Shows(logs[k][1], logs[k][2])
       ELSE UNCHANGED <<log, logAt>>
    /\ UNCHANGED <<stored, showingLog, unread, listOf, steps>>

(* A refusal empties the panel, whichever log is open by now.              *)
LogFails(k) ==
    /\ Here /\ Steps /\ k \in DOMAIN logs
    /\ logs' = RemoveAt(logs, k) /\ failed' = TRUE
    /\ log' = [log EXCEPT !.text = None]
    /\ UNCHANGED <<stored, lists, projects, poll, ticking, showingLog, logAt,
                   overtook, unread>>

-----------------------------------------------------------------------------
(* The requests                                                            *)

(* What one that is granted may have changed: an image is queued by a      *)
(* rebuild or a save, a project is deleted; others than the one that moves *)
(* are neither created nor changed.                                        *)
Granted(p) ==
    \/ /\ stored[p].is \in {"ready", "failed"}
       /\ stored' = [stored EXCEPT ![p].is = "pending"]
    \/ /\ IsListed(stored[p])
       /\ stored' = [stored EXCEPT ![p].is = "gone"]
    \/ UNCHANGED stored

(* rebuild, deleteProject, save, dropToken and dropVariable, after their   *)
(* awaits: granted or refused, the list is asked for.                      *)
Answered(p) ==
    /\ Here /\ Steps /\ p \in Moving /\ Granted(p) /\ AsksList
    /\ UNCHANGED <<projects, poll, ticking, failed, logVars>>

-----------------------------------------------------------------------------

(* The builder: a build starts, and ends with an image or without one.     *)
Builds(p) ==
    /\ Here
    /\ \/ /\ stored[p].is = "pending"
          /\ stored' = [stored EXCEPT ![p].is = "building",
                                      ![p].run = @ + 1]
       \/ /\ stored[p].is = "building"
          /\ \/ stored' = [stored EXCEPT ![p].is = "ready",
                                         ![p].built = stored[p].run]
             \/ stored' = [stored EXCEPT ![p].is = "failed"]
    /\ UNCHANGED <<logVars, listOf, steps>>

ListHeard == \E k \in DOMAIN lists : ListArrives(k)
LogHeard == \E k \in DOMAIN logs : LogArrives(k)

ProjectsNext ==
    \/ TimerFires \/ ListHeard \/ LogHeard
    \/ \E k \in 1 .. MaxLists : ListFails(k) \/ LogFails(k)
    \/ \E p \in Projects :
           TogglesLog(p) \/ Answered(p) \/ Builds(p)

-----------------------------------------------------------------------------

LogIsOfOpen == log.of = showingLog

(* Nothing has been asked that is not answered, and nothing will be.       *)
AtRest == lists = << >> /\ logs = << >> /\ ~ticking

(* The key of the log has no more than the status and `builtAt`, which a   *)
(* build that fails leaves alone.  The end of one that fails as the one    *)
(* before it did goes unread if that one's log is still the panel's when   *)
(* the list comes that shows it: no list showed the new build in flight,   *)
(* or one did and the log it asked for is slower than the next list.  The  *)
(* panel then keeps the old log, or a part of the new one, for good, which *)
(* the comments at logAt and in refresh say cannot happen (projects.ts).   *)
MayBeShort(p) == unread /\ stored[p].is = "failed"

(* A page that comes to rest has seen the end of everything: no image is   *)
(* in flight, the table has the projects there are, and the log that is    *)
(* open is whole, that of a failed build unless it went unread.            *)
RestIsTrue ==
    (AtRest /\ ~failed /\ ~overtook) =>
        /\ \A p \in Projects : ~InFlight(stored[p].is)
        /\ projects = {p \in Projects : IsListed(stored[p])}
        /\ showingLog \in projects =>
               \/ log.text = Text(stored[showingLog])
               \/ MayBeShort(showingLog)

(* A log left open ends up whole: as long as a build is shown somebody     *)
(* asks again, and the last read is after its end (projects.ts             *)
(* scheduleWhileBuilding, logAt).  The exceptions are a list or a log that *)
(* was refused or overtaken, and a failed build whose end went unread.     *)
LogIsCompleted ==
    \A p \in Projects :
        <>[](Here /\ showingLog = p /\ ~failed /\ ~overtook
             /\ stored[p].is \in {"ready", "failed"} /\ ~MayBeShort(p))
            => <>[](log.text = Text(stored[p]))

=============================================================================
