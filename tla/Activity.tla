------------------------------- MODULE Activity -------------------------------
(***************************************************************************)
(* What the list says one instance's Claude is doing: the in-memory        *)
(* tracker (server/src/instances/activity.ts) between the hook reports of  *)
(* the container (docker/base/claudops-status, status/routes.ts) and the   *)
(* pane probes that a view starts and does not await (service.ts).         *)
(*                                                                         *)
(* Reports, views, probes and the DELETE of the instance meet in the       *)
(* tracker in any order.  Its maps are keyed by instance id and no entry   *)
(* is read for another id, so one instance stands for all of them.  What a *)
(* page calls by the same word (Web.tla) carries the module's name here.   *)
(***************************************************************************)
EXTENDS Naturals

CONSTANTS
    Probes,         \* pane probes that can be in flight at the same time
    NoReport,       \* no hook report is on its way
    StaleAfter,     \* STALE_MS, in ticks of the clock
    ProbeInterval,  \* PROBE_INTERVAL_MS, likewise
    MaxFaults,      \* bound: lost reports, failing lists and probes
    MaxRestarts     \* bound: deaths of the server process

ASSUME ClockAssumption == StaleAfter \in Nat /\ ProbeInterval \in Nat \ {0}
ASSUME LimitAssumption == MaxFaults \in Nat /\ MaxRestarts \in Nat

VARIABLES
    row,            \* the instance's row: "live", or "gone" once deleted
    claude,         \* what really goes on in the container
    report,         \* the hook report on its way to the status port
    known,          \* states.get(id)?.activity, or "unknown"
    age,            \* ticks since it was confirmed, one past StaleAfter at most
    sinceProbe,     \* ticks since the last probe began, ProbeInterval at most
    view,           \* GET /instances/:id: where it stands, what Docker listed
    probe,          \* per probe: where it stands, what the pane showed
    faults, restarts

tracker == <<known, age, sinceProbe>>
world   == <<row, claude>>
activityVars == <<world, report, tracker, view, probe, faults, restarts>>

-----------------------------------------------------------------------------

Activities == {"idle", "running", "needs_input", "done"}
Sessions   == {"ready", "working", "asking", "finished", "ended"}
Reports    == {"UserPromptSubmit", "asking", "quiet", "other", "Stop",
               "SessionEnd"}

ActivityTypeOK ==
    /\ row \in {"live", "gone"}
    /\ claude \in Sessions \cup {"down", "booting", "removed"}
    /\ report \in Reports \cup {NoReport}
    /\ known \in Activities \cup {"unknown"}
    /\ age \in 0 .. StaleAfter + 1
    /\ sinceProbe \in 0 .. ProbeInterval
    /\ view \in {"none", "asked", "up", "down"}
    /\ probe \in [Probes -> {"none", "asked", "busy", "still"}]
    /\ faults \in 0 .. MaxFaults /\ restarts \in 0 .. MaxRestarts

(* A created instance in a process that has just started.                  *)
ActivityInit ==
    /\ row = "live" /\ claude = "booting" /\ report = NoReport
    /\ known = "unknown" /\ age = 0 /\ sinceProbe = ProbeInterval
    /\ view = "none" /\ probe = [p \in Probes |-> "none"]
    /\ faults = 0 /\ restarts = 0

Fault == faults < MaxFaults /\ faults' = faults + 1

(* The container runs, so Docker lists it as running.                      *)
Up == claude \in Sessions \cup {"booting"}

-----------------------------------------------------------------------------
(* The tracker                                                             *)

(* this.states.set(id, { activity, at: now })                              *)
Confirm(activity) == known' = activity /\ age' = 0 /\ UNCHANGED sinceProbe

(* Deviation: the event is stored as it came.                              *)
AsReported(r) == r

(* nextActivity: what a report that changes anything makes of the state.   *)
NextActivity(r) ==
    IF r = "UserPromptSubmit" THEN "running"
    ELSE IF r \in {"Stop", "SessionEnd"} THEN "done" ELSE "needs_input"

(* A quiet notification says nothing, and one of a type nobody has seen is *)
(* a question only while a turn is in flight.                              *)
Tells(r) == r # "quiet" /\ (r = "other" => known = "running")

Record(r) == IF Tells(r) THEN Confirm(NextActivity(r)) ELSE UNCHANGED tracker

(* Deviation: a pane without the marker ends whatever is known.            *)
EndAll(pane) == Confirm(IF pane = "busy" THEN "running" ELSE "done")

ObservePane(pane) ==
    IF pane = "busy" THEN Confirm("running")
    ELSE IF known = "running" THEN Confirm("done")
    ELSE IF known = "unknown" THEN Confirm("idle")
    ELSE UNCHANGED tracker

(* A `running` that nothing has confirmed for a while.                     *)
Unconfirmed == known = "running" /\ age > StaleAfter

(* Deviations: a `running` is never asked about again; nothing but a       *)
(* `running` ever is.                                                      *)
OnlyUnknown == known = "unknown"
OnlyRunning == Unconfirmed

Stale == known = "unknown" \/ Unconfirmed

(* beginProbe *)
MayProbe == sinceProbe >= ProbeInterval /\ Stale

Forget == known' = "unknown" /\ age' = 0 /\ sinceProbe' = ProbeInterval

(* The clock both thresholds are read from, counted no further than they   *)
(* tell apart.                                                             *)
Tick ==
    /\ age' = IF age > StaleAfter THEN age ELSE age + 1
    /\ sinceProbe' = IF sinceProbe = ProbeInterval THEN sinceProbe
                     ELSE sinceProbe + 1
    /\ UNCHANGED <<world, report, known, view, probe, faults, restarts>>

-----------------------------------------------------------------------------
(* The container                                                           *)

(* Claude waits for a hook: the next event is not before its report has    *)
(* arrived or curl has given up.                                           *)
Turn(from, to, r) ==
    /\ claude = from /\ report = NoReport
    /\ claude' = to /\ report' = r

(* An answer is a prompt like any other (test/activity.test.ts).           *)
Prompted == \E s \in {"ready", "finished", "asking"} :
                Turn(s, "working", "UserPromptSubmit")
Asks     == \E r \in {"asking", "other"} : Turn("working", "asking", r)
Finishes == Turn("working", "finished", "Stop")
Nags     == \E r \in {"quiet", "other"} : Turn("finished", "finished", r)
Quits    == \E s \in Sessions \ {"ended"} : Turn(s, "ended", "SessionEnd")

(* Killed: no hook.                                                        *)
Dies ==
    /\ claude \in Sessions \ {"ended"}
    /\ claude' = "ended" /\ UNCHANGED report

(* The container stops, with a report of Claude's last moment or without;  *)
(* starts, after curl has given up on that report; has its session up; is  *)
(* removed by the DELETE.                                                  *)
Stops ==
    /\ Up /\ claude' = "down"
    /\ \/ UNCHANGED report
       \/ /\ claude \in Sessions \ {"ended"} /\ report = NoReport
          /\ report' = "SessionEnd"
Starts ==
    /\ claude = "down" /\ report = NoReport
    /\ claude' = "booting" /\ UNCHANGED report
Boots  == claude = "booting" /\ claude' = "ready" /\ UNCHANGED report
Removed ==
    /\ claude # "removed" /\ claude' = "removed" /\ UNCHANGED report

Container ==
    /\ \/ Prompted \/ Asks \/ Finishes \/ Nags \/ Quits \/ Dies
       \/ Stops \/ Starts \/ Boots \/ Removed
    /\ UNCHANGED <<row, tracker, view, probe, faults, restarts>>

-----------------------------------------------------------------------------
(* POST /instances/:id/status                                              *)

(* Deviation: whoever has the token is believed.                           *)
AnyToken == TRUE

(* instances.get(id) finds the row; else 404, and nothing is recorded.     *)
RowThere == row = "live"

ReportArrives ==
    /\ report # NoReport /\ report' = NoReport
    /\ IF RowThere THEN Record(report) ELSE UNCHANGED tracker
    /\ UNCHANGED <<world, view, probe, faults, restarts>>

(* curl gives up; the hook exits 0 and nobody tries again.                 *)
ReportLost ==
    /\ report # NoReport /\ report' = NoReport /\ Fault
    /\ UNCHANGED <<world, tracker, view, probe, restarts>>

-----------------------------------------------------------------------------
(* GET /instances/:id, whose view starts a probe                           *)

(* The row is read, then Docker asked.                                     *)
ViewAsks ==
    /\ view = "none" /\ row = "live" /\ view' = "asked"
    /\ UNCHANGED <<world, report, tracker, probe, faults, restarts>>

DockerLists ==
    /\ view = "asked" /\ view' = IF Up THEN "up" ELSE "down"
    /\ UNCHANGED <<world, report, tracker, probe, faults, restarts>>

DockerListFails ==
    /\ view = "asked" /\ view' = "none" /\ Fault
    /\ UNCHANGED <<world, report, tracker, probe, restarts>>

(* The list is back: activityOf and probePane.  The row is not read again. *)
ViewAnswers ==
    /\ view \in {"up", "down"} /\ view' = "none"
    /\ IF view = "up" /\ MayProbe
       THEN /\ sinceProbe' = 0 /\ UNCHANGED <<known, age>>
            /\ \E p \in Probes : /\ probe[p] = "none"
                                 /\ probe' = [probe EXCEPT ![p] = "asked"]
       ELSE UNCHANGED <<tracker, probe>>
    /\ UNCHANGED <<world, report, faults, restarts>>

View == ViewAsks \/ DockerLists \/ DockerListFails \/ ViewAnswers

ProbeIs(p, is) == probe' = [probe EXCEPT ![p] = is]

(* tmux prints the pane: the interrupt hint is on it while a turn runs.    *)
Captures(p) ==
    /\ probe[p] = "asked" /\ claude \in Sessions
    /\ ProbeIs(p, IF claude = "working" THEN "busy" ELSE "still")
    /\ UNCHANGED <<world, report, tracker, view, faults, restarts>>

(* No container, no session yet, or the daemon: nothing is recorded.       *)
ProbeFails(p) ==
    /\ probe[p] # "none" /\ ProbeIs(p, "none")
    /\ IF claude \in Sessions THEN Fault ELSE UNCHANGED faults
    /\ UNCHANGED <<world, report, tracker, view, restarts>>

(* Nobody awaited it, and whatever has happened since, it is recorded.     *)
ProbeAnswers(p) ==
    /\ probe[p] \in {"busy", "still"}
    /\ ObservePane(probe[p]) /\ ProbeIs(p, "none")
    /\ UNCHANGED <<world, report, view, faults, restarts>>

Probe(p) == Captures(p) \/ ProbeFails(p) \/ ProbeAnswers(p)

-----------------------------------------------------------------------------
(* The instance and the process                                            *)

(* The end of delete: the row goes and the tracker forgets, in one turn.   *)
InstanceDeleted ==
    /\ row = "live" /\ claude = "removed"
    /\ row' = "gone" /\ Forget
    /\ UNCHANGED <<claude, report, view, probe, faults, restarts>>

Restart ==
    /\ restarts < MaxRestarts /\ restarts' = restarts + 1
    /\ Forget /\ view' = "none" /\ probe' = [p \in Probes |-> "none"]
    /\ UNCHANGED <<world, report, faults>>

ActivityNext ==
    \/ Container \/ ReportArrives \/ ReportLost
    \/ View \/ \E p \in Probes : Probe(p)
    \/ Tick \/ InstanceDeleted \/ Restart

(* Docker and curl come to an end, and a browser that shows the list asks  *)
(* again every three seconds.  Claude does as it likes.                    *)
ActivityFairness ==
    /\ WF_activityVars(Tick) /\ WF_activityVars(View)
    /\ WF_activityVars(ReportArrives \/ ReportLost)
    /\ \A p \in Probes : WF_activityVars(Probe(p))

ActivitySpec == ActivityInit /\ [][ActivityNext]_activityVars
ActivityFairSpec == ActivitySpec /\ ActivityFairness

-----------------------------------------------------------------------------
(* Properties                                                              *)

Quiet == \A p \in Probes : probe[p] = "none"
Hook  == report # NoReport /\ report' = NoReport

(* Once Claude's question is on record, no look at the pane begins any     *)
(* more, and only a report, the DELETE or a new process takes it off       *)
(* again, or a look that had already seen a turn running when the question *)
(* came.  One that saw no turn does not (activity.ts observePane,          *)
(* beginProbe).  That last exception is what the code's comment rules out: *)
(* PaneKeepsQuestions is the comment's claim, and it fails.                *)
QuestionStands ==
    [][known = "needs_input" =>
          /\ Quiet => probe' = probe
          /\ \/ known' = "needs_input" \/ Hook
             \/ row' # row \/ restarts' # restarts
             \/ \E p \in Probes : probe[p] = "busy" /\ probe'[p] = "none"
    ]_activityVars

(* "it must never overwrite a `needs_input`", said of what a pane shows    *)
(* (activity.ts observePane).                                              *)
PaneKeepsQuestions ==
    [][known = "needs_input" /\ restarts' = restarts
        /\ (\E p \in Probes : probe[p] # "none" /\ probe'[p] = "none")
            => known' = "needs_input"]_activityVars

(* After its DELETE an instance stays forgotten, unless a probe had seen   *)
(* its pane before: no report and no view that is late brings it back      *)
(* (status/routes.ts, activity.ts forget, service.ts delete).              *)
StaysForgotten ==
    [][row = "gone" /\ known' \notin {known, "unknown"} =>
          \E p \in Probes : probe[p] # "none" /\ probe'[p] = "none"
    ]_activityVars

(* As long as somebody looks, a `running` whose turn is over does not      *)
(* stand for ever, whatever became of the Stop report (activity.ts         *)
(* beginProbe, STALE_MS).                                                  *)
RunningEnds ==
    <>[](claude \in Sessions \ {"working"}) => <>[](known # "running")

(* What a restart loses is read from the pane again (activity.ts).         *)
Relearned ==
    known = "unknown" /\ row = "live" /\ claude \in Sessions
        ~> known # "unknown" \/ claude \notin Sessions

=============================================================================
