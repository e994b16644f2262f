------------------------------ MODULE ViewProofs ------------------------------
(***************************************************************************)
(* What the browser is told and what it makes of it: Activity, the tracker *)
(* on the server, for any number of probes and any two thresholds, and Web,*)
(* the client, for any number of instances, projects, sockets, directories *)
(* and files.  The two share no state; each has its own invariant.         *)
(***************************************************************************)
EXTENDS Activity, Web, SequenceTheorems, TLAPS

-----------------------------------------------------------------------------
(* The activity tracker.                                                   *)

(* Whatever a report or a pane makes of the tracker, it is an activity,     *)
(* confirmed now (activity.ts record, observePane).                         *)
LEMMA TrackerType ==
    ASSUME ActivityTypeOK,
           \/ \E r \in Reports : Record(r)
           \/ \E pane \in {"busy", "still"} : ObservePane(pane)
           \/ Forget
    PROVE  /\ known' \in Activities \cup {"unknown"}
           /\ age' \in 0 .. StaleAfter + 1
           /\ sinceProbe' \in 0 .. ProbeInterval
BY ClockAssumption
DEF ActivityTypeOK, Record, ObservePane, Forget, Confirm, NextActivity, tracker,
    Activities

(* Type correctness is inductive by itself: the clock is counted no further *)
(* than its thresholds, and every answer finds its probe (activity.ts).     *)
LEMMA ActivityTypeStep ==
    ActivityTypeOK /\ [ActivityNext]_activityVars => ActivityTypeOK'
<1> SUFFICES ASSUME ActivityTypeOK, [ActivityNext]_activityVars
             PROVE  ActivityTypeOK'
    OBVIOUS
<1> USE ClockAssumption, LimitAssumption
<1>1. CASE Container
    <2>1. /\ claude' \in Sessions \cup {"down", "booting", "removed"}
          /\ report' \in Reports \cup {NoReport}
        BY <1>1
        DEF ActivityTypeOK, Container, Prompted, Asks, Finishes, Nags, Quits,
            Dies, Stops, Starts, Boots, Removed, Turn, Sessions, Reports
    <2> QED BY <1>1, <2>1 DEF ActivityTypeOK, Container, tracker
<1>2. CASE ReportArrives
    <2>1. CASE RowThere
        BY <1>2, <2>1, TrackerType DEF ActivityTypeOK, ReportArrives, world
    <2>2. CASE ~RowThere
        BY <1>2, <2>2 DEF ActivityTypeOK, ReportArrives, world, tracker
    <2> QED BY <2>1, <2>2
<1>3. CASE ReportLost
    BY <1>3 DEF ActivityTypeOK, ReportLost, Fault, world, tracker
<1>4. CASE ViewAsks \/ DockerLists \/ DockerListFails
    BY <1>4
    DEF ActivityTypeOK, ViewAsks, DockerLists, DockerListFails, Fault, world,
        tracker
<1>5. CASE ViewAnswers
    BY <1>5 DEF ActivityTypeOK, ViewAnswers, world, tracker
<1>6. ASSUME NEW p \in Probes, Captures(p) \/ ProbeFails(p)
      PROVE  ActivityTypeOK'
    BY <1>6
    DEF ActivityTypeOK, Captures, ProbeFails, ProbeIs, Fault, world, tracker
<1>7. ASSUME NEW p \in Probes, ProbeAnswers(p) PROVE ActivityTypeOK'
    BY <1>7, TrackerType DEF ActivityTypeOK, ProbeAnswers, ProbeIs, world
<1>8. CASE Tick
    BY <1>8 DEF ActivityTypeOK, Tick, world
<1>9. CASE InstanceDeleted
    BY <1>9, TrackerType DEF ActivityTypeOK, InstanceDeleted
<1>10. CASE Restart
    BY <1>10, TrackerType DEF ActivityTypeOK, Restart, world
<1>11. CASE UNCHANGED activityVars
    BY <1>11 DEF ActivityTypeOK, activityVars, world, tracker
<1> QED
    BY <1>1, <1>2, <1>3, <1>4, <1>5, <1>6, <1>7, <1>8, <1>9, <1>10, <1>11
    DEF ActivityNext, View, Probe

(* Type correctness of the tracker and of everything that feeds it.         *)
THEOREM SpecActivityTypeOK == ActivitySpec => []ActivityTypeOK
<1>1. ActivityInit => ActivityTypeOK
    BY ClockAssumption, LimitAssumption
    DEF ActivityInit, ActivityTypeOK, Activities
<1> QED BY <1>1, ActivityTypeStep, PTL DEF ActivitySpec

-----------------------------------------------------------------------------

(* What a step may do to a question on record (activity.ts observePane).    *)
AnsweredBy ==
    \/ Hook \/ row' # row \/ restarts' # restarts
    \/ \E p \in Probes : probe[p] = "busy" /\ probe'[p] = "none"

LEMMA QuestionStep ==
    ASSUME ActivityTypeOK, [ActivityNext]_activityVars, known = "needs_input"
    PROVE  /\ Quiet => probe' = probe
           /\ known' = "needs_input" \/ AnsweredBy
<1> USE LimitAssumption
<1>1. CASE Container \/ ReportLost \/ Tick
    BY <1>1 DEF Container, ReportLost, Tick, tracker
<1>2. CASE ReportArrives
    BY <1>2 DEF ReportArrives, AnsweredBy, Hook
<1>3. CASE ViewAsks \/ DockerLists \/ DockerListFails
    BY <1>3 DEF ViewAsks, DockerLists, DockerListFails, tracker
<1>4. CASE ViewAnswers
    <2>1. ~MayProbe BY DEF MayProbe, Stale, Unconfirmed
    <2> QED BY <1>4, <2>1 DEF ViewAnswers, tracker
<1>5. ASSUME NEW p \in Probes, Captures(p) \/ ProbeFails(p)
      PROVE  (Quiet => probe' = probe) /\ known' = "needs_input"
    BY <1>5 DEF Captures, ProbeFails, Quiet, tracker
<1>6. ASSUME NEW p \in Probes, ProbeAnswers(p)
      PROVE  ~Quiet /\ (known' = "needs_input" \/ AnsweredBy)
    <2>1. ~Quiet BY <1>6 DEF ProbeAnswers, Quiet
    <2>2. CASE probe[p] = "busy"
        BY <1>6, <2>1, <2>2
        DEF ProbeAnswers, ProbeIs, AnsweredBy, ActivityTypeOK
    <2>3. CASE probe[p] # "busy"
        BY <1>6, <2>1, <2>3 DEF ProbeAnswers, ObservePane, tracker
    <2> QED BY <2>1, <2>2, <2>3
<1>7. CASE InstanceDeleted
    BY <1>7 DEF InstanceDeleted, AnsweredBy
<1>8. CASE Restart
    <2>1. restarts' # restarts BY <1>8 DEF Restart, ActivityTypeOK
    <2>2. Quiet => probe' = probe BY <1>8 DEF Restart, Quiet, ActivityTypeOK
    <2> QED BY <2>1, <2>2 DEF AnsweredBy
<1>9. CASE UNCHANGED activityVars
    BY <1>9 DEF activityVars, tracker
<1> QED
    BY <1>1, <1>2, <1>3, <1>4, <1>5, <1>6, <1>7, <1>8, <1>9
    DEF ActivityNext, View, Probe

(* Claude's question stays on record until a report, the DELETE or a new    *)
(* process takes it off, or a probe that had seen a turn running before, for*)
(* any number of probes and whatever the thresholds (activity.ts).          *)
THEOREM SpecQuestionStands == ActivitySpec => QuestionStands
<1>1. ActivityTypeOK /\ [ActivityNext]_activityVars =>
        [known = "needs_input" =>
          /\ Quiet => probe' = probe
          /\ \/ known' = "needs_input" \/ Hook
             \/ row' # row \/ restarts' # restarts
             \/ \E p \in Probes : probe[p] = "busy" /\ probe'[p] = "none"
        ]_activityVars
    BY QuestionStep DEF AnsweredBy
<1> QED BY <1>1, SpecActivityTypeOK, PTL DEF ActivitySpec, QuestionStands

-----------------------------------------------------------------------------

(* A deleted instance comes back into the tracker only through a probe that *)
(* was under way (status/routes.ts, activity.ts forget).                    *)
LEMMA ForgottenStep ==
    ASSUME ActivityTypeOK, [ActivityNext]_activityVars,
           row = "gone", known' \notin {known, "unknown"}
    PROVE  \E p \in Probes : probe[p] # "none" /\ probe'[p] = "none"
<1>1. CASE Container \/ ReportArrives \/ ReportLost \/ Tick
    BY <1>1 DEF Container, ReportArrives, ReportLost, Tick, RowThere, tracker
<1>2. CASE View
    BY <1>2
    DEF View, ViewAsks, DockerLists, DockerListFails, ViewAnswers, tracker
<1>3. ASSUME NEW p \in Probes, Probe(p)
      PROVE  \E q \in Probes : probe[q] # "none" /\ probe'[q] = "none"
    BY <1>3
    DEF Probe, Captures, ProbeFails, ProbeAnswers, ProbeIs, tracker,
        ActivityTypeOK
<1>4. CASE InstanceDeleted \/ Restart
    BY <1>4 DEF InstanceDeleted, Restart, Forget
<1>5. CASE UNCHANGED activityVars
    BY <1>5 DEF activityVars, tracker
<1> QED BY <1>1, <1>2, <1>3, <1>4, <1>5 DEF ActivityNext

(* No late report and no late view brings a deleted instance back.          *)
THEOREM SpecStaysForgotten == ActivitySpec => StaysForgotten
<1>1. ActivityTypeOK /\ [ActivityNext]_activityVars =>
        [row = "gone" /\ known' \notin {known, "unknown"} =>
          \E p \in Probes : probe[p] # "none" /\ probe'[p] = "none"
        ]_activityVars
    BY ForgottenStep
<1> QED BY <1>1, SpecActivityTypeOK, PTL DEF ActivitySpec, StaysForgotten

-----------------------------------------------------------------------------
(* Two facts about sequences, for the answers that come in any order.      *)

(* What is left of a sequence without one of its elements.                 *)
LEMMA RemoveAtIs ==
    ASSUME NEW S, NEW s \in Seq(S), NEW k \in DOMAIN s
    PROVE  /\ RemoveAt(s, k) \in Seq(S)
           /\ Len(RemoveAt(s, k)) = Len(s) - 1
           /\ DOMAIN RemoveAt(s, k) = 1 .. Len(s) - 1
           /\ \A j \in 1 .. Len(s) - 1 :
                  RemoveAt(s, k)[j] = IF j < k THEN s[j] ELSE s[j + 1]
<1> DEFINE a == SubSeq(s, 1, k - 1)
           b == SubSeq(s, k + 1, Len(s))
<1>1. Len(s) \in Nat /\ k \in 1 .. Len(s) /\ \A j \in 1 .. Len(s) : s[j] \in S
    BY ElementOfSeq, LenProperties
<1>2. /\ a \in Seq(S) /\ Len(a) = k - 1
      /\ \A j \in 1 .. k - 1 : a[j] = s[j]
    <2>1. \A j \in 1 .. k - 1 : s[j] \in S
        BY <1>1
    <2> QED BY <1>1, <2>1, SubSeqProperties
<1>3. /\ b \in Seq(S) /\ Len(b) = Len(s) - k
      /\ \A j \in 1 .. Len(s) - k : b[j] = s[k + j]
    <2>1. \A j \in k + 1 .. Len(s) : s[j] \in S
        BY <1>1
    <2> QED BY <1>1, <2>1, SubSeqProperties
<1> HIDE DEF a, b
<1>4. /\ a \o b \in Seq(S) /\ Len(a \o b) = Len(s) - 1
      /\ \A j \in 1 .. Len(s) - 1 :
             (a \o b)[j] = IF j < k THEN s[j] ELSE s[j + 1]
    <2>1. /\ a \o b \in Seq(S) /\ Len(a \o b) = Len(a) + Len(b)
          /\ \A j \in 1 .. Len(a) + Len(b) :
                 (a \o b)[j] = IF j <= Len(a) THEN a[j] ELSE b[j - Len(a)]
        BY <1>2, <1>3, ConcatProperties
    <2>2. ASSUME NEW j \in 1 .. Len(s) - 1
          PROVE  (a \o b)[j] = IF j < k THEN s[j] ELSE s[j + 1]
        <3>1. CASE j < k
            BY <1>1, <1>2, <1>3, <2>1, <3>1, SMTT(40)
        <3>2. CASE ~(j < k)
            <4>1. j - (k - 1) \in 1 .. Len(s) - k /\ ~(j <= k - 1)
                BY <1>1, <3>2
            <4>2. (a \o b)[j] = b[j - (k - 1)]
                <5>1. Len(a) = k - 1 /\ j \in 1 .. Len(a) + Len(b)
                    BY <1>1, <1>2, <1>3
                <5> QED BY <2>1, <4>1, <5>1
            <4>3. b[j - (k - 1)] = s[k + (j - (k - 1))]
                BY <1>3, <4>1
            <4>4. s[k + (j - (k - 1))] = s[j + 1]
                <5>1. k + (j - (k - 1)) = j + 1
                    BY <1>1
                <5> QED BY <5>1
            <4>5. (a \o b)[j] = s[j + 1]
                BY <4>2, <4>3, <4>4
            <4> QED BY <3>2, <4>5, Zenon
        <3> QED BY <3>1, <3>2
    <2>3. Len(a \o b) = Len(s) - 1
        BY <1>1, <1>2, <1>3, <2>1
    <2>4. a \o b \in Seq(S)
        BY <2>1
    <2> QED BY <2>2, <2>3, <2>4, Zenon
<1>5. RemoveAt(s, k) = a \o b
    BY DEF RemoveAt, a, b
<1> QED BY <1>1, <1>4, <1>5, LenProperties

(* What a request that is sent adds to those on their way.                 *)
LEMMA AppendIs ==
    ASSUME NEW S, NEW s \in Seq(S), NEW e \in S
    PROVE  /\ Append(s, e) \in Seq(S)
           /\ Len(Append(s, e)) = Len(s) + 1 /\ Len(s) \in Nat
           /\ DOMAIN s = 1 .. Len(s)
           /\ DOMAIN Append(s, e) = 1 .. Len(s) + 1
           /\ \A i \in 1 .. Len(s) : Append(s, e)[i] = s[i]
           /\ Append(s, e)[Len(s) + 1] = e
BY AppendProperties, LenProperties

-----------------------------------------------------------------------------
(* The form, and the secrets it may cost a project.                        *)

(* A request that drops a secret is one somebody asked for.                *)
DropsAreAsked ==
    \A r \in waiting : r.kind \in {"token", "variable"} =>
        r.of \in Listed /\ r.secrets \subseteq dropped[r.of]

FormInv ==
    FormTypeOK /\ SecretsAreKept /\ DropsAreAsked /\ OnlyVariablesMislead

LEMMA FormBegins == FormInit => FormInv
<1> SUFFICES ASSUME FormInit PROVE FormInv
    OBVIOUS
<1>1. StoreTypeOK
    BY DEF FormInit, StoreInit, StoreTypeOK
<1>2. FormTypeOK
    <2>1. requests \in 0 .. MaxRequests
        BY FormAssumption DEF FormInit
    <2>2. /\ {editing, form, asked} \subseteq Listed \cup {None}
          /\ waiting \subseteq Request /\ resumed \in BOOLEAN
        BY DEF FormInit
    <2> QED BY <1>1, <2>1, <2>2 DEF FormTypeOK
<1>3. SecretsAreKept
    BY DEF FormInit, StoreInit, SecretsAreKept
<1>4. DropsAreAsked /\ OnlyVariablesMislead
    BY DEF FormInit, DropsAreAsked, OnlyVariablesMislead
<1> QED BY <1>2, <1>3, <1>4 DEF FormInv

(* What a request does to the store when it is granted.                    *)
LEMMA HandlesKeeps ==
    ASSUME FormInv, NEW r \in waiting, Handles(r), UNCHANGED dropped
    PROVE  StoreTypeOK' /\ SecretsAreKept'
<1> USE FormAssumption DEF FormInv, FormTypeOK, StoreTypeOK, SecretsAreKept,
        Rowed, Request
<1>1. r \in Request
    OBVIOUS
<1>2. CASE r.kind = "delete"
    BY <1>1, <1>2 DEF Handles, Removes
<1>3. CASE r.kind = "save" /\ r.of = None
    <2>1. PICK p \in Unborn : Inserts(p, r.secrets)
        BY <1>3 DEF Handles
    <2> QED BY <1>1, <2>1 DEF Inserts, Unborn
<1>4. CASE r.kind = "save" /\ r.of # None
    <2>1. Updates(r.of, r.secrets, {})
        BY <1>4 DEF Handles
    <2> QED BY <1>1, <2>1 DEF Updates, Merged
<1>5. CASE r.kind \in {"token", "variable"}
    <2>1. Updates(r.of, {}, r.secrets)
        BY <1>5 DEF Handles
    <2>2. r.secrets \subseteq dropped[r.of]
        BY <1>5 DEF DropsAreAsked
    <2> QED BY <1>1, <2>1, <2>2 DEF Updates, Merged
<1> QED BY <1>1, <1>2, <1>3, <1>4, <1>5

LEMMA SucceedsKeeps ==
    ASSUME FormInv, NEW r \in waiting, Succeeds(r)
    PROVE  /\ {editing', form'} \subseteq Listed \cup {None}
           /\ resumed' \in BOOLEAN /\ OnlyVariablesMislead'
<1> USE DEF FormInv, FormTypeOK, OnlyVariablesMislead, Request
<1>1. CASE r.kind = "variable"
    <2>1. editing' = r.of /\ form' = form
        BY <1>1 DEF Succeeds
    <2>2. resumed' = (resumed \/ form # r.of)
        BY <1>1 DEF Succeeds
    <2> QED BY <2>1, <2>2
<1>2. CASE r.kind # "variable"
    BY <1>2 DEF Succeeds, StopEditing
<1> QED BY <1>1, <1>2

LEMMA FormStep ==
    ASSUME FormInv, FormNext
    PROVE  FormInv'
<1> USE FormAssumption DEF FormInv, FormTypeOK
<1>1. CASE Cancel
    BY <1>1
    DEF Cancel, StopEditing, storeVars, StoreTypeOK, SecretsAreKept, Rowed,
        DropsAreAsked, OnlyVariablesMislead
<1>2. ASSUME NEW given \in SUBSET Secrets, Submits(given) PROVE FormInv'
    <2>1. /\ UNCHANGED <<life, secrets, had, resumed, editing, form, asked,
                         dropped>>
          /\ requests' = requests + 1 /\ requests < MaxRequests
          /\ waiting' = waiting \cup {[kind |-> "save", of |-> editing,
                                       secrets |-> given]}
        BY <1>2 DEF Submits, Requests, shownVars, Carried
    <2>2. waiting' \subseteq Request
        BY <2>1 DEF Request
    <2> QED BY <2>1, <2>2
            DEF StoreTypeOK, SecretsAreKept, Rowed, DropsAreAsked,
                OnlyVariablesMislead
<1>3. ASSUME NEW s \in Secrets, DropsSecret(s) PROVE FormInv'
    <2> DEFINE r == [kind |-> IF s = "token" THEN "token" ELSE "variable",
                     of |-> editing, secrets |-> {s}]
    <2>1. /\ UNCHANGED <<life, secrets, had, resumed, editing, form, asked>>
          /\ requests' = requests + 1 /\ requests < MaxRequests
          /\ waiting' = waiting \cup {r} /\ editing # None
          /\ dropped' = [dropped EXCEPT ![editing] = @ \cup {s}]
        BY <1>3 DEF DropsSecret, Requests, shownVars
    <2>2. editing \in Listed /\ r \in Request
        BY <2>1 DEF Request
    <2>3. /\ dropped' \in [Listed -> SUBSET Secrets]
          /\ s \in dropped'[editing]
          /\ \A p \in Listed : dropped[p] \subseteq dropped'[p]
        BY <2>1, <2>2 DEF StoreTypeOK
    <2>4. DropsAreAsked'
        BY <2>1, <2>2, <2>3 DEF DropsAreAsked
    <2>5. SecretsAreKept'
        BY <2>1, <2>3 DEF SecretsAreKept, Rowed
    <2> HIDE DEF r
    <2>6. waiting' \subseteq Request
        BY <2>1, <2>2
    <2>8. requests' \in 0 .. MaxRequests
        BY <2>1
    <2>7. StoreTypeOK'
        BY <2>1, <2>3 DEF StoreTypeOK
    <2> QED BY <2>1, <2>4, <2>5, <2>6, <2>7, <2>8 DEF OnlyVariablesMislead
<1>4. ASSUME NEW p \in Listed, StartsEditing(p) PROVE FormInv'
    BY <1>4
    DEF StartsEditing, storeVars, StoreTypeOK, SecretsAreKept, Rowed,
        DropsAreAsked, OnlyVariablesMislead
<1>5. ASSUME NEW p \in Listed, Deletes(p) PROVE FormInv'
    <2>1. /\ UNCHANGED <<life, secrets, had, resumed, editing, form, dropped>>
          /\ asked' \in {asked, p} /\ requests' \in 0 .. MaxRequests
          /\ waiting' \subseteq waiting \cup {[kind |-> "delete", of |-> p,
                                               secrets |-> {}]}
        BY <1>5 DEF Deletes, Requests
    <2>2. waiting' \subseteq Request
        BY <2>1 DEF Request
    <2> QED BY <2>1, <2>2
            DEF StoreTypeOK, SecretsAreKept, Rowed, DropsAreAsked,
                OnlyVariablesMislead
<1>6. ASSUME NEW r \in waiting, Answers(r) PROVE FormInv'
    <2>1. /\ UNCHANGED <<dropped, requests>> /\ waiting' \subseteq waiting
          /\ asked' \in {asked, None}
        BY <1>6 DEF Answers
    <2>2. StoreTypeOK' /\ SecretsAreKept'
        <3>1. CASE Handles(r)
            BY <2>1, <3>1, HandlesKeeps
        <3>2. CASE UNCHANGED <<life, secrets, had>>
            BY <2>1, <3>2 DEF StoreTypeOK, SecretsAreKept, Rowed
        <3> QED BY <1>6, <3>1, <3>2 DEF Answers
    <2>3. /\ {editing', form'} \subseteq Listed \cup {None}
          /\ resumed' \in BOOLEAN /\ OnlyVariablesMislead'
        <3>1. CASE Succeeds(r)
            BY <3>1, SucceedsKeeps
        <3>2. CASE UNCHANGED <<editing, form, resumed>>
            BY <3>2 DEF OnlyVariablesMislead
        <3> QED BY <1>6, <3>1, <3>2 DEF Answers
    <2> QED BY <2>1, <2>2, <2>3 DEF DropsAreAsked
<1> QED BY <1>1, <1>2, <1>3, <1>4, <1>5, <1>6 DEF FormNext

LEMMA FormStays == FormInv /\ UNCHANGED formVars => FormInv'
BY DEF FormInv, FormTypeOK, StoreTypeOK, SecretsAreKept, Rowed, DropsAreAsked,
   OnlyVariablesMislead, formVars, storeVars, shownVars

-----------------------------------------------------------------------------
(* The projects, their list and the log that is open.                      *)

(* How far a build of the same run has come.                               *)
Phase(i) ==
    IF i.is = "building" THEN 0
    ELSE IF i.is \in {"ready", "failed"} THEN 1
    ELSE IF i.is = "pending" THEN 2 ELSE 3

(* The image of a project as it was before it became another.              *)
AsOf(a, b) ==
    \/ a = b
    \/ a.run < b.run
    \/ (a.run = b.run /\ Phase(a) < Phase(b))

InMotion(list) == \E p \in Projects : InFlight(list[p].is)
ListedIn(list) == {p \in Projects : IsListed(list[p])}

(* The last list that was asked for, if it has not come.                   *)
Newest == lists[Len(lists)]

(* A build in flight is in the newest list, or the timer will ask.         *)
Watched ==
    InMotion(stored) => IF lists = << >> THEN ticking ELSE InMotion(Newest)

(* The newest list, on its way or painted, has the projects there are.     *)
TableIsNewest ==
    ListedIn(stored) = IF lists = << >> THEN projects ELSE ListedIn(Newest)

(* Logs are read in order, and what is shown was read before them.         *)
LogsAge ==
    /\ \A k \in DOMAIN logs : AsOf(logs[k][2], stored[logs[k][1]])
    /\ \A j, k \in DOMAIN logs :
           (j < k /\ logs[j][1] = logs[k][1]) => AsOf(logs[j][2], logs[k][2])

Displays(i) == log.text = Text(i) /\ logAt = Key(i)

ShownAge ==
    showingLog # None =>
        \A i \in Image : Displays(i) =>
            /\ AsOf(i, stored[showingLog])
            /\ \A k \in DOMAIN logs :
                   logs[k][1] = showingLog => AsOf(i, logs[k][2])

(* A key is the one of the image the text was read with.                   *)
ShownIsRead == logAt # None => \E i \in Image : Displays(i)

(* The log of the open build is shown as it is now or will be, by a log on *)
(* its way or by a list that will ask for one, or it went unread.          *)
Heeded ==
    \/ Displays(stored[showingLog])
    \/ \E k \in DOMAIN logs : logs[k] = <<showingLog, stored[showingLog]>>

Awaited ==
    IF lists = << >> THEN ticking
    ELSE InMotion(Newest) \/ Newest[showingLog] = stored[showingLog]

Followed ==
    (showingLog # None /\ IsListed(stored[showingLog])) =>
        Heeded \/ Awaited \/ MayBeShort(showingLog)

InStep ==
    /\ Watched /\ TableIsNewest /\ LogsAge /\ ShownAge /\ ShownIsRead
    /\ Followed

(* The handle is held as long as the timer runs, and no longer.            *)
ProjectsBase == ProjectsTypeOK /\ LogIsOfOpen /\ poll = ticking

ProjectsInv == ProjectsBase /\ (failed \/ overtook \/ InStep)

LEMMA BaseBegins == ProjectsInit => ProjectsBase
<1> SUFFICES ASSUME ProjectsInit PROVE ProjectsBase
    OBVIOUS
<1>1. stored \in [Projects -> Image]
    BY DEF ProjectsInit, Image, Statuses
<1>2. lists \in Seq([Projects -> Image]) /\ logs \in Seq(Projects \X Image)
    BY <1>1 DEF ProjectsInit
<1>3. steps \in 0 .. MaxSteps
    BY ProjectsAssumption DEF ProjectsInit
<1> QED BY <1>1, <1>2, <1>3 DEF ProjectsInit, ProjectsBase, ProjectsTypeOK,
           LogIsOfOpen, NoLog

(* What the requests and the builder may have made of the images.          *)
LEMMA StoredKeeps ==
    ASSUME ProjectsTypeOK, NEW p \in Projects, Granted(p) \/ Builds(p)
    PROVE  stored' \in [Projects -> Image]
<1>1. stored \in [Projects -> Image] /\ stored[p] \in Image
    BY DEF ProjectsTypeOK
<1>2. \A i \in Image, s \in Statuses \ {"ready"} :
          [i EXCEPT !.is = s] \in Image
    BY DEF Image
<1>3. {"pending", "building", "failed", "gone"} \subseteq Statuses \ {"ready"}
    BY DEF Statuses
<1>4. CASE Granted(p)
    <2>1. \E s \in Statuses \ {"ready"} :
               stored' = [stored EXCEPT ![p].is = s] \/ stored' = stored
        BY <1>3, <1>4 DEF Granted
    <2> QED BY <1>1, <1>2, <2>1
<1>5. CASE Builds(p)
    <2>1. \/ stored' = [stored EXCEPT ![p].is = "building", ![p].run = @ + 1]
          \/ stored' = [stored EXCEPT ![p].is = "ready",
                                      ![p].built = stored[p].run]
          \/ stored' = [stored EXCEPT ![p].is = "failed"]
        BY <1>5 DEF Builds
    <2>2. stored[p].run \in Nat /\ stored[p].run + 1 \in Nat
        BY <1>1 DEF Image
    <2>3. \A i \in Image, n \in Nat :
              i.is # "ready" => [i EXCEPT !.run = n] \in Image
        BY DEF Image
    <2>4. [stored[p] EXCEPT !.is = "building", !.run = @ + 1] \in Image
        <3>1. [stored[p] EXCEPT !.is = "building"] \in Image
            BY <1>1, <1>2, <1>3
        <3>2. [[stored[p] EXCEPT !.is = "building"] EXCEPT
                  !.run = stored[p].run + 1] \in Image
            <4>1. [stored[p] EXCEPT !.is = "building"].is = "building"
                BY <1>1 DEF Image
            <4> QED BY <2>2, <2>3, <3>1, <4>1
        <3>3. [stored[p] EXCEPT !.is = "building", !.run = @ + 1]
              = [[stored[p] EXCEPT !.is = "building"] EXCEPT
                    !.run = stored[p].run + 1]
            BY <1>1 DEF Image
        <3> QED BY <3>2, <3>3
    <2>5. [stored[p] EXCEPT !.is = "ready", !.built = stored[p].run] \in Image
        BY <1>1 DEF Image, Statuses
    <2> QED BY <1>1, <1>2, <1>3, <2>1, <2>4, <2>5
<1> QED BY <1>4, <1>5

(* What is asked for is asked of the server as it is.                      *)
LEMMA AskedKeeps ==
    ASSUME ProjectsTypeOK, stored' \in [Projects -> Image]
    PROVE  /\ AsksList => lists' \in Seq([Projects -> Image])
           /\ \A p \in Projects :
                  AsksLog(p) => logs' \in Seq(Projects \X Image)
<1>1. AsksList => lists' \in Seq([Projects -> Image])
    <2>1. lists \in Seq([Projects -> Image])
        BY DEF ProjectsTypeOK
    <2>2. Append(lists, stored') \in Seq([Projects -> Image])
        BY <2>1, AppendIs
    <2> QED BY <2>2 DEF AsksList
<1>2. ASSUME NEW p \in Projects, AsksLog(p)
      PROVE  logs' \in Seq(Projects \X Image)
    <2>1. logs \in Seq(Projects \X Image)
        BY DEF ProjectsTypeOK
    <2>2. <<p, stored'[p]>> \in Projects \X Image
        OBVIOUS
    <2>3. Append(logs, <<p, stored'[p]>>) \in Seq(Projects \X Image)
        BY <2>1, <2>2, AppendIs
    <2> QED BY <1>2, <2>3 DEF AsksLog
<1> QED BY <1>1, <1>2

LEMMA ListArrivesBase ==
    ASSUME ProjectsBase, NEW k \in DOMAIN lists, ListArrives(k)
    PROVE  ProjectsBase'
<1> USE DEF ProjectsBase, ProjectsTypeOK
<1>1. /\ lists' = RemoveAt(lists, k) /\ stored' = stored
      /\ projects' \subseteq Projects
      /\ UNCHANGED <<failed, showingLog, log, logAt, steps>>
    BY DEF ListArrives
<1>2. lists' \in Seq([Projects -> Image])
    BY <1>1, RemoveAtIs
<1>3. poll' \in BOOLEAN /\ ticking' \in BOOLEAN /\ poll' = ticking'
    BY DEF ListArrives, Schedules
<1>4. overtook' \in BOOLEAN /\ unread' \in BOOLEAN
    BY DEF ListArrives
<1>5. logs' \in Seq(Projects \X Image)
    <2>1. CASE UNCHANGED logs
        BY <2>1
    <2>2. CASE showingLog # None /\ AsksLog(showingLog)
        BY <1>1, <2>2, AskedKeeps
    <2> QED BY <2>1, <2>2 DEF ListArrives
<1> QED BY <1>1, <1>2, <1>3, <1>4, <1>5 DEF LogIsOfOpen

LEMMA LogArrivesBase ==
    ASSUME ProjectsBase, NEW k \in DOMAIN logs, LogArrives(k)
    PROVE  ProjectsBase'
<1> USE DEF ProjectsBase, ProjectsTypeOK
<1>1. /\ logs' = RemoveAt(logs, k)
      /\ UNCHANGED <<stored, showingLog, unread, listOf, steps>>
      /\ overtook' \in BOOLEAN
    BY DEF LogArrives
<1>2. logs' \in Seq(Projects \X Image)
    BY <1>1, RemoveAtIs
<1>3. /\ log' \in [of : Projects \cup {None},
                   text : {None} \cup (Statuses \X Nat)]
      /\ logAt' \in {None} \cup (Statuses \X Nat)
      /\ LogIsOfOpen'
    <2>1. CASE UNCHANGED <<log, logAt>>
        BY <1>1, <2>1 DEF LogIsOfOpen
    <2>2. CASE /\ OpenLog(logs[k][1])
               /\ Shows(logs[k][1], logs[k][2])
        <3>1. logs[k][1] \in Projects /\ logs[k][2] \in Image
            <4>1. logs[k] \in Projects \X Image
                BY ElementOfSeq, LenProperties
            <4> QED BY <4>1
        <3>2. Text(logs[k][2]) \in Statuses \X Nat
            BY <3>1 DEF Text, Image
        <3>3. Key(logs[k][2]) \in Statuses \X Nat
            BY <3>1 DEF Key, Image
        <3> QED BY <1>1, <2>2, <3>1, <3>2, <3>3
                DEF Shows, OpenLog, LogIsOfOpen
    <2> QED BY <2>1, <2>2 DEF LogArrives
<1> QED BY <1>1, <1>2, <1>3 DEF listOf

LEMMA BaseStep ==
    ASSUME ProjectsBase, ProjectsNext
    PROVE  ProjectsBase'
<1> USE DEF ProjectsBase, ProjectsTypeOK
<1>1. CASE TimerFires
    <2>1. lists' \in Seq([Projects -> Image])
        BY <1>1, AskedKeeps DEF TimerFires
    <2> QED BY <1>1, <2>1
            DEF TimerFires, ReleasesHandle, logVars, LogIsOfOpen
<1>2. CASE ListHeard
    BY <1>2, ListArrivesBase DEF ListHeard
<1>3. CASE LogHeard
    BY <1>3, LogArrivesBase DEF LogHeard
<1>4. ASSUME NEW k \in 1 .. MaxLists, ListFails(k) PROVE ProjectsBase'
    <2>1. lists' \in Seq([Projects -> Image])
        BY <1>4, RemoveAtIs DEF ListFails
    <2>2. steps' \in 0 .. MaxSteps
        BY <1>4, ProjectsAssumption DEF ListFails, Steps
    <2> QED BY <1>4, <2>1, <2>2 DEF ListFails, logVars, LogIsOfOpen
<1>5. ASSUME NEW k \in 1 .. MaxLists, LogFails(k) PROVE ProjectsBase'
    <2>1. logs' \in Seq(Projects \X Image)
        BY <1>5, RemoveAtIs DEF LogFails
    <2>2. steps' \in 0 .. MaxSteps
        BY <1>5, ProjectsAssumption DEF LogFails, Steps
    <2> QED BY <1>5, <2>1, <2>2 DEF LogFails, LogIsOfOpen
<1>6. ASSUME NEW p \in Projects, TogglesLog(p) PROVE ProjectsBase'
    <2>1. logs' \in Seq(Projects \X Image)
        <3>1. CASE UNCHANGED logs
            BY <3>1
        <3>2. CASE AsksLog(p)
            BY <1>6, <3>2, AskedKeeps DEF TogglesLog
        <3> QED BY <1>6, <3>1, <3>2 DEF TogglesLog
    <2>2. \E q \in {None, p} : OpensLog(q)
        BY <1>6 DEF TogglesLog
    <2> QED BY <1>6, <2>1, <2>2 DEF TogglesLog, OpensLog, listOf, LogIsOfOpen
<1>7. ASSUME NEW p \in Projects, Answered(p) PROVE ProjectsBase'
    <2>1. stored' \in [Projects -> Image]
        BY <1>7, StoredKeeps DEF Answered
    <2>2. lists' \in Seq([Projects -> Image])
        BY <1>7, <2>1, AskedKeeps DEF Answered
    <2>3. steps' \in 0 .. MaxSteps
        BY <1>7, ProjectsAssumption DEF Answered, Steps
    <2> QED BY <1>7, <2>1, <2>2, <2>3 DEF Answered, logVars, LogIsOfOpen
<1>8. ASSUME NEW p \in Projects, Builds(p) PROVE ProjectsBase'
    <2>1. stored' \in [Projects -> Image]
        BY <1>8, StoredKeeps
    <2> QED BY <1>8, <2>1 DEF Builds, logVars, listOf, LogIsOfOpen
<1> QED BY <1>1, <1>2, <1>3, <1>4, <1>5, <1>6, <1>7, <1>8 DEF ProjectsNext

LEMMA PhaseIs ==
    /\ \A i \in Image : Phase(i) \in 0 .. 3
    /\ \A i \in Image : i.is = "building" => Phase(i) = 0
    /\ \A i \in Image : i.is \in {"ready", "failed"} => Phase(i) = 1
    /\ \A i \in Image : i.is = "pending" => Phase(i) = 2
    /\ \A i \in Image : i.is = "gone" => Phase(i) = 3
BY DEF Phase, Image, Statuses

LEMMA AsOfOrders ==
    ASSUME NEW a \in Image, NEW b \in Image, NEW c \in Image
    PROVE  /\ AsOf(a, a)
           /\ AsOf(a, b) /\ AsOf(b, c) => AsOf(a, c)
           /\ AsOf(a, b) /\ AsOf(b, a) => a = b
<1>1. a.run \in Nat /\ b.run \in Nat /\ c.run \in Nat
    BY DEF Image
<1>2. Phase(a) \in Nat /\ Phase(b) \in Nat /\ Phase(c) \in Nat
    BY PhaseIs
<1>3. AsOf(a, a)
    BY DEF AsOf
<1>4. ASSUME AsOf(a, b), AsOf(b, c) PROVE AsOf(a, c)
    <2>1. CASE a = b \/ b = c
        BY <1>4, <2>1
    <2>2. CASE a # b /\ b # c
        <3>1. /\ \/ a.run < b.run
                 \/ (a.run = b.run /\ Phase(a) < Phase(b))
              /\ \/ b.run < c.run
                 \/ (b.run = c.run /\ Phase(b) < Phase(c))
            BY <1>4, <2>2 DEF AsOf
        <3>2. a.run < c.run \/ (a.run = c.run /\ Phase(a) < Phase(c))
            BY <1>1, <1>2, <3>1
        <3> QED BY <3>2 DEF AsOf
    <2> QED BY <2>1, <2>2
<1>5. ASSUME AsOf(a, b), AsOf(b, a), a # b PROVE FALSE
    <2>1. /\ \/ a.run < b.run
             \/ (a.run = b.run /\ Phase(a) < Phase(b))
          /\ \/ b.run < a.run
             \/ (b.run = a.run /\ Phase(b) < Phase(a))
        BY <1>5 DEF AsOf
    <2> QED BY <1>1, <1>2, <2>1
<1> QED BY <1>3, <1>4, <1>5

(* What is displayed tells the image it is of.                             *)
LEMMA SameImage ==
    ASSUME NEW a \in Image, NEW b \in Image, Text(a) = Text(b), Key(a) = Key(b)
    PROVE  a = b
<1>1. a.is = b.is /\ a.run = b.run /\ a.built = b.built
    BY DEF Text, Key
<1> QED BY <1>1 DEF Image

(* An image only goes on, whatever is granted or built.                    *)
LEMMA StoredGrows ==
    ASSUME ProjectsTypeOK, NEW p \in Projects,
           Granted(p) \/ Builds(p) \/ UNCHANGED stored
    PROVE  /\ stored' \in [Projects -> Image]
           /\ \A q \in Projects : AsOf(stored[q], stored'[q])
           /\ \A q \in Projects : q # p => stored'[q] = stored[q]
           /\ \A q \in Projects :
                  stored[q].is = "gone" => stored'[q] = stored[q]
<1>1. stored \in [Projects -> Image] /\ stored' \in [Projects -> Image]
    BY StoredKeeps DEF ProjectsTypeOK
<1>2. stored[p] \in Image /\ stored'[p] \in Image /\ stored[p].run \in Nat
    BY <1>1 DEF Image
<1>3. ASSUME stored' # stored
      PROVE  /\ AsOf(stored[p], stored'[p]) /\ stored[p].is # "gone"
             /\ \A q \in Projects : q # p => stored'[q] = stored[q]
    <2>1. CASE Granted(p)
        <3>1. \/ /\ stored[p].is \in {"ready", "failed"}
                 /\ stored' = [stored EXCEPT ![p].is = "pending"]
              \/ /\ stored[p].is # "gone"
                 /\ stored' = [stored EXCEPT ![p].is = "gone"]
            BY <1>3, <2>1 DEF Granted, IsListed
        <3>2. /\ \A q \in Projects : q # p => stored'[q] = stored[q]
              /\ stored'[p].run = stored[p].run /\ stored[p].is # "gone"
              /\ \/ /\ stored[p].is \in {"ready", "failed"}
                    /\ stored'[p].is = "pending"
                 \/ stored'[p].is = "gone"
            BY <1>1, <1>2, <3>1 DEF Image
        <3>3. Phase(stored[p]) < Phase(stored'[p])
            BY <1>2, <3>2, PhaseIs DEF Image, Statuses
        <3> QED BY <3>2, <3>3 DEF AsOf
    <2>2. CASE Builds(p)
        <3>1. \/ /\ stored[p].is = "pending"
                 /\ stored' = [stored EXCEPT ![p].is = "building",
                                             ![p].run = @ + 1]
              \/ /\ stored[p].is = "building"
                 /\ \/ stored' = [stored EXCEPT ![p].is = "ready",
                                                ![p].built = stored[p].run]
                    \/ stored' = [stored EXCEPT ![p].is = "failed"]
            BY <2>2 DEF Builds
        <3>2. /\ \A q \in Projects : q # p => stored'[q] = stored[q]
              /\ stored[p].is # "gone"
              /\ \/ stored'[p].run = stored[p].run + 1
                 \/ /\ stored'[p].run = stored[p].run
                    /\ stored[p].is = "building"
                    /\ stored'[p].is \in {"ready", "failed"}
            BY <1>1, <1>2, <3>1 DEF Image
        <3>3. \/ stored[p].run < stored'[p].run
              \/ /\ stored[p].run = stored'[p].run
                 /\ Phase(stored[p]) < Phase(stored'[p])
            BY <1>2, <3>2, PhaseIs
        <3> QED BY <3>2, <3>3 DEF AsOf
    <2> QED BY <1>3, <2>1, <2>2
<1>4. \A q \in Projects : AsOf(stored[q], stored'[q])
    <2> SUFFICES ASSUME NEW q \in Projects PROVE AsOf(stored[q], stored'[q])
        OBVIOUS
    <2>1. CASE stored'[q] = stored[q]
        BY <2>1 DEF AsOf
    <2>2. CASE q = p /\ stored' # stored
        BY <1>3, <2>2
    <2>3. CASE q # p /\ stored' # stored
        BY <1>3, <2>1, <2>3
    <2> QED BY <2>1, <2>2, <2>3
<1>5. CASE stored' = stored
    BY <1>1, <1>4, <1>5
<1>6. CASE stored' # stored
    <2>1. \A q \in Projects : stored[q].is = "gone" => q # p
        BY <1>3, <1>6, SMTT(30)
    <2> QED BY <1>1, <1>3, <1>4, <1>6, <2>1
<1> QED BY <1>5, <1>6

(* The first answer that comes, when none overtakes another.               *)
LEMMA FirstRemoved ==
    ASSUME NEW S, NEW s \in Seq(S), 1 \in DOMAIN s
    PROVE  /\ Len(s) \in Nat /\ DOMAIN s = 1 .. Len(s) /\ Len(s) >= 1
           /\ DOMAIN RemoveAt(s, 1) = 1 .. Len(s) - 1
           /\ Len(RemoveAt(s, 1)) = Len(s) - 1
           /\ RemoveAt(s, 1) \in Seq(S)
           /\ \A j \in 1 .. Len(s) - 1 : RemoveAt(s, 1)[j] = s[j + 1]
           /\ (RemoveAt(s, 1) = << >>) <=> (Len(s) = 1)
<1>1. Len(s) \in Nat /\ DOMAIN s = 1 .. Len(s)
    BY LenProperties
<1>2. /\ DOMAIN RemoveAt(s, 1) = 1 .. Len(s) - 1
      /\ Len(RemoveAt(s, 1)) = Len(s) - 1 /\ RemoveAt(s, 1) \in Seq(S)
      /\ \A j \in 1 .. Len(s) - 1 :
             RemoveAt(s, 1)[j] = IF j < 1 THEN s[j] ELSE s[j + 1]
    BY RemoveAtIs
<1>3. \A j \in 1 .. Len(s) - 1 : ~(j < 1)
    BY <1>1
<1>4. (RemoveAt(s, 1) = << >>) <=> (Len(s) - 1 = 0)
    BY <1>2, EmptySeq
<1>5. Len(s) >= 1 /\ ((Len(s) - 1 = 0) <=> (Len(s) = 1))
    BY <1>1
<1>6. \A j \in 1 .. Len(s) - 1 : RemoveAt(s, 1)[j] = s[j + 1]
    BY <1>2, <1>3
<1>7. (RemoveAt(s, 1) = << >>) <=> (Len(s) = 1)
    BY <1>4, <1>5
<1>8. /\ DOMAIN RemoveAt(s, 1) = 1 .. Len(s) - 1
      /\ Len(RemoveAt(s, 1)) = Len(s) - 1 /\ RemoveAt(s, 1) \in Seq(S)
    BY <1>2
<1> QED BY <1>1, <1>5, <1>6, <1>7, <1>8, Zenon

(* The newest list, when one is asked for and when the first one comes.    *)
LEMMA NewestAsked ==
    ASSUME ProjectsTypeOK, stored' \in [Projects -> Image], AsksList
    PROVE  lists' # << >> /\ Newest' = stored'
<1>1. /\ lists' = Append(lists, stored') /\ lists \in Seq([Projects -> Image])
    BY DEF AsksList, ProjectsTypeOK
<1>2. /\ Len(lists) \in Nat /\ Len(lists') = Len(lists) + 1
      /\ lists'[Len(lists) + 1] = stored'
    BY <1>1, AppendIs
<1>3. Len(lists') # 0
    BY <1>2
<1> QED BY <1>2, <1>3, EmptySeq DEF Newest

LEMMA NewestLeft ==
    ASSUME ProjectsTypeOK, 1 \in DOMAIN lists, lists' = RemoveAt(lists, 1)
    PROVE  /\ lists # << >> /\ lists[1] \in [Projects -> Image]
           /\ IF lists' = << >> THEN Newest = lists[1] ELSE Newest' = Newest
<1>1. lists \in Seq([Projects -> Image])
    BY SMTT(30) DEF ProjectsTypeOK
<1>2. /\ Len(lists) \in Nat /\ Len(lists) >= 1 /\ Len(lists') = Len(lists) - 1
      /\ DOMAIN lists = 1 .. Len(lists)
      /\ \A j \in 1 .. Len(lists) - 1 : lists'[j] = lists[j + 1]
      /\ (lists' = << >>) <=> (Len(lists) = 1)
    <2> DEFINE rest == RemoveAt(lists, 1)
    <2>1. /\ Len(lists) \in Nat /\ DOMAIN lists = 1 .. Len(lists)
          /\ Len(lists) >= 1 /\ Len(rest) = Len(lists) - 1
          /\ \A j \in 1 .. Len(lists) - 1 : rest[j] = lists[j + 1]
          /\ (rest = << >>) <=> (Len(lists) = 1)
        BY <1>1, FirstRemoved
    <2> HIDE DEF rest
    <2>2. lists' = rest
        BY DEF rest
    <2> QED BY <2>1, <2>2, Zenon
<1>3. lists # << >>
    BY <1>2, EmptySeq
<1>4. lists[1] \in [Projects -> Image]
    BY <1>1, <1>2, ElementOfSeq
<1>5. CASE lists' = << >>
    BY <1>2, <1>3, <1>4, <1>5 DEF Newest
<1>6. CASE lists' # << >>
    <2>1. /\ Len(lists) - 1 \in 1 .. Len(lists) - 1
          /\ (Len(lists) - 1) + 1 = Len(lists)
        BY <1>2, <1>6
    <2>2. lists'[Len(lists')] = lists[Len(lists)]
        BY <1>2, <2>1
    <2> QED BY <1>3, <1>4, <1>6, <2>2 DEF Newest
<1> QED BY <1>5, <1>6

(* An image that moves without a list being asked for was moving before.   *)
LEMMA BuildsMove ==
    ASSUME ProjectsTypeOK, NEW p \in Projects, Builds(p)
    PROVE  InMotion(stored) /\ ListedIn(stored') = ListedIn(stored)
<1>1. stored \in [Projects -> Image] /\ stored[p] \in Image
    BY DEF ProjectsTypeOK
<1>2. stored[p].is \in {"pending", "building"}
    BY DEF Builds
<1>3. InMotion(stored)
    BY <1>2 DEF InMotion, InFlight
<1>4. stored'[p].is \in {"building", "ready", "failed"}
    <2>1. \/ stored' = [stored EXCEPT ![p].is = "building", ![p].run = @ + 1]
          \/ stored' = [stored EXCEPT ![p].is = "ready",
                                      ![p].built = stored[p].run]
          \/ stored' = [stored EXCEPT ![p].is = "failed"]
        BY DEF Builds
    <2> QED BY <1>1, <2>1 DEF Image
<1>5. \A q \in Projects : q # p => stored'[q] = stored[q]
    BY StoredGrows
<1>6. \A q \in Projects : IsListed(stored'[q]) <=> IsListed(stored[q])
    BY <1>2, <1>4, <1>5 DEF IsListed
<1> QED BY <1>3, <1>6 DEF ListedIn

LEMMA ProjectsBegin == ProjectsInit => ProjectsInv
<1> SUFFICES ASSUME ProjectsInit PROVE ProjectsInv
    OBVIOUS
<1>1. ProjectsBase
    BY BaseBegins
<1>2. lists # << >> /\ Newest = stored
    BY DEF ProjectsInit, Newest
<1>3. DOMAIN logs = {} /\ showingLog = None
    BY DEF ProjectsInit
<1>4. Watched /\ TableIsNewest
    BY <1>2 DEF Watched, TableIsNewest
<1>5. LogsAge /\ ShownAge /\ ShownIsRead /\ Followed
    BY <1>3 DEF LogsAge, ShownAge, ShownIsRead, Followed, ProjectsInit
<1> QED BY <1>1, <1>4, <1>5 DEF ProjectsInv, InStep

(* A step in which nothing is refused and nothing overtakes: the answer    *)
(* that comes is the first one.                                            *)
LEMMA StepInOrder ==
    ASSUME ProjectsBase, ProjectsNext, ~failed', ~overtook'
    PROVE  /\ ~failed /\ ~overtook
           /\ \/ TimerFires
              \/ 1 \in DOMAIN lists /\ ListArrives(1)
              \/ 1 \in DOMAIN logs /\ LogArrives(1)
              \/ \E p \in Projects : TogglesLog(p) \/ Answered(p) \/ Builds(p)
<1>0. /\ lists \in Seq([Projects -> Image]) /\ logs \in Seq(Projects \X Image)
      /\ failed \in BOOLEAN /\ overtook \in BOOLEAN
    BY DEF ProjectsBase, ProjectsTypeOK
<1>1. /\ \A k \in DOMAIN lists : ~(k > 1) => k = 1
      /\ \A k \in DOMAIN logs : ~(k > 1) => k = 1
    <2>1. /\ Len(lists) \in Nat /\ DOMAIN lists = 1 .. Len(lists)
          /\ Len(logs) \in Nat /\ DOMAIN logs = 1 .. Len(logs)
        BY <1>0, LenProperties
    <2> QED BY <2>1
<1>2. ASSUME NEW k \in DOMAIN lists, ListArrives(k)
      PROVE  ~failed /\ ~overtook /\ 1 \in DOMAIN lists /\ ListArrives(1)
    <2>1. ~failed /\ ~overtook /\ ~(k > 1)
        BY <1>2 DEF ListArrives
    <2>2. k = 1
        BY <1>1, <2>1
    <2> QED BY <1>2, <2>1, <2>2
<1>3. ASSUME NEW k \in DOMAIN logs, LogArrives(k)
      PROVE  ~failed /\ ~overtook /\ 1 \in DOMAIN logs /\ LogArrives(1)
    <2>1. ~failed /\ ~overtook /\ ~(k > 1)
        BY <1>3 DEF LogArrives, listOf
    <2>2. k = 1
        BY <1>1, <2>1
    <2> QED BY <1>3, <2>1, <2>2
<1>4. ASSUME NEW k \in 1 .. MaxLists, ListFails(k) \/ LogFails(k) PROVE FALSE
    BY <1>4 DEF ListFails, LogFails
<1>5. CASE TimerFires
    BY <1>5 DEF TimerFires, logVars
<1>6. CASE \E p \in Projects : TogglesLog(p) \/ Answered(p) \/ Builds(p)
    BY <1>6 DEF TogglesLog, Answered, Builds, logVars, listOf
<1> QED BY <1>2, <1>3, <1>4, <1>5, <1>6 DEF ProjectsNext, ListHeard, LogHeard

(* What such a step does to the images, the lists and the logs.            *)
LEMMA ImagesMove ==
    ASSUME ProjectsBase, ProjectsNext, ~failed', ~overtook'
    PROVE  /\ stored \in [Projects -> Image] /\ stored' \in [Projects -> Image]
           /\ \A q \in Projects : AsOf(stored[q], stored'[q])
           /\ \A q \in Projects :
                  stored[q].is = "gone" => stored'[q] = stored[q]
<1>1. ProjectsTypeOK
    BY DEF ProjectsBase
<1>2. ASSUME NEW p \in Projects, Answered(p) \/ Builds(p)
      PROVE  /\ stored' \in [Projects -> Image]
             /\ \A q \in Projects : AsOf(stored[q], stored'[q])
             /\ \A q \in Projects :
                    stored[q].is = "gone" => stored'[q] = stored[q]
    <2>1. Granted(p) \/ Builds(p)
        BY <1>2 DEF Answered
    <2> QED BY <1>1, <2>1, StoredGrows
<1>3. CASE UNCHANGED stored
    BY <1>1, <1>3 DEF ProjectsTypeOK, AsOf
<1>4. UNCHANGED stored \/ \E p \in Projects : Answered(p) \/ Builds(p)
    BY StepInOrder DEF TimerFires, ListArrives, LogArrives, TogglesLog
<1> QED BY <1>1, <1>2, <1>3, <1>4 DEF ProjectsTypeOK

LEMMA ListsMove ==
    ASSUME ProjectsBase, ProjectsNext, ~failed', ~overtook'
    PROVE  \/ /\ UNCHANGED <<lists, projects, ticking>>
              /\ UNCHANGED stored \/ \E p \in Projects : Builds(p)
           \/ lists' # << >> /\ Newest' = stored'
           \/ 1 \in DOMAIN lists /\ ListArrives(1)
<1>1. ProjectsTypeOK
    BY DEF ProjectsBase
<1>2. stored' \in [Projects -> Image]
    BY ImagesMove
<1>3. ASSUME AsksList PROVE lists' # << >> /\ Newest' = stored'
    BY <1>1, <1>2, <1>3, NewestAsked
<1>4. CASE TimerFires
    BY <1>3, <1>4 DEF TimerFires
<1>5. CASE 1 \in DOMAIN lists /\ ListArrives(1)
    BY <1>5
<1>6. CASE LogArrives(1)
    BY <1>6 DEF LogArrives, listOf
<1>7. ASSUME NEW p \in Projects, TogglesLog(p)
      PROVE  UNCHANGED <<stored, lists, projects, ticking>>
    BY <1>7 DEF TogglesLog, listOf
<1>8. ASSUME NEW p \in Projects, Answered(p)
      PROVE  lists' # << >> /\ Newest' = stored'
    BY <1>3, <1>8 DEF Answered
<1>9. ASSUME NEW p \in Projects, Builds(p)
      PROVE  UNCHANGED <<lists, projects, ticking>>
    BY <1>9 DEF Builds, listOf
<1> QED BY <1>4, <1>5, <1>6, <1>7, <1>8, <1>9, StepInOrder

LEMMA LogsMove ==
    ASSUME ProjectsBase, ProjectsNext, ~failed', ~overtook'
    PROVE  \/ /\ UNCHANGED logs
              /\ UNCHANGED <<showingLog, log, logAt>> \/ showingLog' = None
           \/ /\ showingLog' \in Projects /\ AsksLog(showingLog')
              /\ \/ UNCHANGED <<showingLog, log, logAt>>
                 \/ log'.text = None
           \/ 1 \in DOMAIN logs /\ LogArrives(1)
<1>1. ProjectsTypeOK
    BY DEF ProjectsBase
<1>2. CASE TimerFires
    BY <1>2 DEF TimerFires, logVars
<1>3. CASE ListArrives(1)
    <2>1. UNCHANGED <<showingLog, log, logAt>>
        BY <1>3 DEF ListArrives
    <2>2. UNCHANGED logs \/ (showingLog # None /\ AsksLog(showingLog))
        BY <1>3 DEF ListArrives
    <2> QED BY <1>1, <2>1, <2>2 DEF ProjectsTypeOK
<1>4. CASE 1 \in DOMAIN logs /\ LogArrives(1)
    BY <1>4
<1>5. ASSUME NEW p \in Projects, TogglesLog(p)
      PROVE  \/ UNCHANGED logs /\ showingLog' = None
             \/ /\ showingLog' \in Projects /\ AsksLog(showingLog')
                /\ log'.text = None
    BY <1>5 DEF TogglesLog, OpensLog
<1>6. ASSUME NEW p \in Projects, Answered(p) \/ Builds(p)
      PROVE  UNCHANGED <<logs, showingLog, log, logAt>>
    BY <1>6 DEF Answered, Builds, logVars
<1> QED BY <1>2, <1>3, <1>4, <1>5, <1>6, StepInOrder

(* The list that comes, and what is scheduled by it.                       *)
LEMMA FirstListComes ==
    ASSUME ProjectsBase, 1 \in DOMAIN lists, ListArrives(1)
    PROVE  /\ lists # << >> /\ lists[1] \in [Projects -> Image]
           /\ IF lists' = << >> THEN Newest = lists[1] ELSE Newest' = Newest
           /\ InMotion(lists[1]) => ticking'
           /\ projects' = ListedIn(lists[1]) /\ UNCHANGED stored
<1>1. ProjectsTypeOK /\ poll = ticking /\ ticking \in BOOLEAN
    BY DEF ProjectsBase, ProjectsTypeOK
<1>2. lists' = RemoveAt(lists, 1) /\ Schedules(lists[1])
    BY DEF ListArrives
<1>3. InMotion(lists[1]) => ticking'
    BY <1>1, <1>2 DEF Schedules, InMotion
<1>4. projects' = ListedIn(lists[1]) /\ UNCHANGED stored
    BY DEF ListArrives, ListedIn
<1> QED BY <1>1, <1>2, <1>3, <1>4, NewestLeft

LEMMA WatchedStep ==
    ASSUME ProjectsBase, InStep, ProjectsNext, ~failed', ~overtook'
    PROVE  Watched' /\ TableIsNewest'
<1>1. ProjectsTypeOK /\ Watched /\ TableIsNewest
    BY DEF ProjectsBase, InStep
<1>2. CASE UNCHANGED <<lists, projects, ticking, stored>>
    BY <1>1, <1>2 DEF Watched, TableIsNewest, Newest
<1>3. CASE /\ UNCHANGED <<lists, projects, ticking>>
           /\ \E p \in Projects : Builds(p)
    <2>1. InMotion(stored) /\ ListedIn(stored') = ListedIn(stored)
        BY <1>1, <1>3, BuildsMove
    <2> QED BY <1>1, <1>3, <2>1 DEF Watched, TableIsNewest, Newest, ListedIn
<1>4. CASE lists' # << >> /\ Newest' = stored'
    BY <1>4 DEF Watched, TableIsNewest, InMotion, ListedIn
<1>5. CASE 1 \in DOMAIN lists /\ ListArrives(1)
    <2>1. /\ lists # << >> /\ UNCHANGED stored
          /\ IF lists' = << >> THEN Newest = lists[1] ELSE Newest' = Newest
          /\ InMotion(lists[1]) => ticking'
          /\ projects' = ListedIn(lists[1])
        BY <1>5, FirstListComes
    <2>2. Watched'
        BY <1>1, <2>1 DEF Watched, InMotion
    <2>3. TableIsNewest'
        BY <1>1, <2>1 DEF TableIsNewest, ListedIn
    <2> QED BY <2>2, <2>3
<1> QED BY <1>2, <1>3, <1>4, <1>5, ListsMove

(* The logs on their way, and one that is asked for.                       *)
LEMMA AskedLog ==
    ASSUME ProjectsTypeOK, NEW p \in Projects, AsksLog(p)
    PROVE  /\ logs \in Seq(Projects \X Image) /\ Len(logs) \in Nat
           /\ DOMAIN logs = 1 .. Len(logs)
           /\ DOMAIN logs' = 1 .. Len(logs) + 1
           /\ \A k \in DOMAIN logs : logs'[k] = logs[k]
           /\ logs'[Len(logs) + 1] = <<p, stored'[p]>>
<1>1. logs \in Seq(Projects \X Image) /\ logs' = Append(logs, <<p, stored'[p]>>)
    BY DEF ProjectsTypeOK, AsksLog
<1>2. Len(logs) \in Nat /\ DOMAIN logs = 1 .. Len(logs)
    BY <1>1, LenProperties
<1> QED BY <1>1, <1>2, AppendIs

LEMMA LogIs ==
    ASSUME ProjectsTypeOK, NEW k \in DOMAIN logs
    PROVE  /\ logs[k][1] \in Projects /\ logs[k][2] \in Image
           /\ logs[k] = <<logs[k][1], logs[k][2]>>
<1>1. logs \in Seq(Projects \X Image)
    BY DEF ProjectsTypeOK
<1>2. logs[k] \in Projects \X Image
    BY <1>1, ElementOfSeq, LenProperties
<1> QED BY <1>2

LEMMA FirstLogComes ==
    ASSUME ProjectsTypeOK, 1 \in DOMAIN logs, LogArrives(1)
    PROVE  /\ Len(logs) \in Nat /\ DOMAIN logs = 1 .. Len(logs)
           /\ DOMAIN logs' = 1 .. Len(logs) - 1
           /\ \A k \in DOMAIN logs' : k + 1 \in DOMAIN logs
           /\ \A k \in DOMAIN logs' : logs'[k] = logs[k + 1]
           /\ \A k \in DOMAIN logs : k # 1 =>
                  k - 1 \in DOMAIN logs' /\ logs'[k - 1] = logs[k]
           /\ UNCHANGED <<stored, showingLog, unread, lists, projects, ticking>>
           /\ IF showingLog = logs[1][1]
              THEN /\ log'.text = Text(logs[1][2])
                   /\ logAt' = Key(logs[1][2])
              ELSE UNCHANGED <<log, logAt>>
<1>1. /\ logs \in Seq(Projects \X Image) /\ logs' = RemoveAt(logs, 1)
      /\ UNCHANGED <<stored, showingLog, unread, lists, projects, ticking>>
    BY DEF ProjectsTypeOK, LogArrives, listOf
<1>2. /\ Len(logs) \in Nat /\ DOMAIN logs = 1 .. Len(logs)
      /\ DOMAIN logs' = 1 .. Len(logs) - 1
      /\ \A k \in 1 .. Len(logs) - 1 : logs'[k] = logs[k + 1]
    <2> DEFINE rest == RemoveAt(logs, 1)
    <2>1. /\ Len(logs) \in Nat /\ DOMAIN logs = 1 .. Len(logs)
          /\ DOMAIN rest = 1 .. Len(logs) - 1
          /\ \A k \in 1 .. Len(logs) - 1 : rest[k] = logs[k + 1]
        BY <1>1, FirstRemoved
    <2> HIDE DEF rest
    <2>2. logs' = rest
        BY <1>1 DEF rest
    <2> QED BY <2>1, <2>2
<1>3. \A k \in DOMAIN logs : k # 1 =>
          /\ k - 1 \in DOMAIN logs' /\ logs'[k - 1] = logs[k]
    <2> SUFFICES ASSUME NEW k \in DOMAIN logs, k # 1
                 PROVE  k - 1 \in DOMAIN logs' /\ logs'[k - 1] = logs[k]
        OBVIOUS
    <2>1. k - 1 \in 1 .. Len(logs) - 1 /\ (k - 1) + 1 = k
        BY <1>2
    <2> QED BY <1>2, <2>1
<1>4. \A k \in DOMAIN logs' : k + 1 \in DOMAIN logs
    BY <1>2
<1>5. IF showingLog = logs[1][1]
      THEN log'.text = Text(logs[1][2]) /\ logAt' = Key(logs[1][2])
      ELSE UNCHANGED <<log, logAt>>
    BY DEF LogArrives, OpenLog, Shows
<1> QED BY <1>1, <1>2, <1>3, <1>4, <1>5

LEMMA LogsAgeStep ==
    ASSUME ProjectsBase, InStep, ProjectsNext, ~failed', ~overtook'
    PROVE  LogsAge'
<1>0. ProjectsTypeOK /\ LogsAge
    BY DEF ProjectsBase, InStep
<1>1. \A k \in DOMAIN logs : AsOf(logs[k][2], stored'[logs[k][1]])
    <2> SUFFICES ASSUME NEW k \in DOMAIN logs
                 PROVE  AsOf(logs[k][2], stored'[logs[k][1]])
        OBVIOUS
    <2> DEFINE p == logs[k][1]
    <2>1. p \in Projects /\ logs[k][2] \in Image
        BY <1>0, LogIs
    <2>2. stored[p] \in Image /\ stored'[p] \in Image
          /\ AsOf(stored[p], stored'[p])
        BY <2>1, ImagesMove
    <2>3. AsOf(logs[k][2], stored[p])
        BY <1>0 DEF LogsAge
    <2> QED BY <2>1, <2>2, <2>3, AsOfOrders
<1>2. \A j, k \in DOMAIN logs :
          (j < k /\ logs[j][1] = logs[k][1]) => AsOf(logs[j][2], logs[k][2])
    BY <1>0 DEF LogsAge
<1>3. CASE UNCHANGED logs
    BY <1>1, <1>2, <1>3 DEF LogsAge
<1>4. ASSUME NEW p \in Projects, AsksLog(p) PROVE LogsAge'
    <2>1. /\ Len(logs) \in Nat /\ DOMAIN logs = 1 .. Len(logs)
          /\ DOMAIN logs' = 1 .. Len(logs) + 1
          /\ \A k \in DOMAIN logs : logs'[k] = logs[k]
          /\ logs'[Len(logs) + 1] = <<p, stored'[p]>>
        BY <1>0, <1>4, AskedLog
    <2>2. \A k \in DOMAIN logs' : k \in DOMAIN logs \/ k = Len(logs) + 1
        BY <2>1
    <2>3. ASSUME NEW k \in DOMAIN logs'
          PROVE  AsOf(logs'[k][2], stored'[logs'[k][1]])
        BY <1>1, <2>1, <2>2 DEF AsOf
    <2>4. ASSUME NEW j \in DOMAIN logs', NEW k \in DOMAIN logs',
                 j < k, logs'[j][1] = logs'[k][1]
          PROVE  AsOf(logs'[j][2], logs'[k][2])
        <3>1. j \in DOMAIN logs
            BY <2>1, <2>4
        <3>2. CASE k \in DOMAIN logs
            BY <1>2, <2>1, <2>4, <3>1, <3>2
        <3>3. CASE k = Len(logs) + 1
            BY <1>1, <2>1, <2>4, <3>1, <3>3
        <3> QED BY <2>2, <3>2, <3>3
    <2> QED BY <2>3, <2>4 DEF LogsAge
<1>5. CASE 1 \in DOMAIN logs /\ LogArrives(1)
    <2>1. /\ Len(logs) \in Nat /\ DOMAIN logs = 1 .. Len(logs)
          /\ DOMAIN logs' = 1 .. Len(logs) - 1
          /\ \A k \in DOMAIN logs' : k + 1 \in DOMAIN logs
          /\ \A k \in DOMAIN logs' : logs'[k] = logs[k + 1]
        BY <1>0, <1>5, FirstLogComes
    <2>2. ASSUME NEW k \in DOMAIN logs'
          PROVE  AsOf(logs'[k][2], stored'[logs'[k][1]])
        BY <1>1, <2>1
    <2>3. ASSUME NEW j \in DOMAIN logs', NEW k \in DOMAIN logs',
                 j < k, logs'[j][1] = logs'[k][1]
          PROVE  AsOf(logs'[j][2], logs'[k][2])
        <3>1. j + 1 \in DOMAIN logs /\ k + 1 \in DOMAIN logs /\ j + 1 < k + 1
            BY <2>1, <2>3
        <3>2. logs[j + 1][1] = logs[k + 1][1]
            BY <2>1, <2>3
        <3>3. AsOf(logs[j + 1][2], logs[k + 1][2])
            BY <1>2, <3>1, <3>2
        <3> QED BY <2>1, <3>3
    <2> QED BY <2>2, <2>3 DEF LogsAge
<1>6. showingLog' \in Projects /\ AsksLog(showingLog') => LogsAge'
    BY <1>4
<1> QED BY <1>3, <1>5, <1>6, LogsMove

LEMMA ShownAgeStep ==
    ASSUME ProjectsBase, InStep, ProjectsNext, ~failed', ~overtook'
    PROVE  ShownAge'
<1>0. ProjectsTypeOK /\ LogsAge /\ ShownAge
    BY DEF ProjectsBase, InStep
<1> SUFFICES ASSUME showingLog' # None, NEW i \in Image, Displays(i)'
             PROVE  /\ AsOf(i, stored'[showingLog'])
                    /\ \A k \in DOMAIN logs' :
                           logs'[k][1] = showingLog' => AsOf(i, logs'[k][2])
    BY DEF ShownAge
<1> DEFINE q == showingLog
<1>1. ASSUME q' = q, Displays(i)
      PROVE  /\ q \in Projects /\ AsOf(i, stored'[q])
             /\ \A k \in DOMAIN logs : logs[k][1] = q => AsOf(i, logs[k][2])
    <2>1. q \in Projects
        BY <1>0, <1>1 DEF ProjectsTypeOK
    <2>2. /\ stored[q] \in Image /\ stored'[q] \in Image
          /\ AsOf(stored[q], stored'[q])
        BY <2>1, ImagesMove
    <2>3. AsOf(i, stored[q])
        BY <1>0, <1>1 DEF ShownAge
    <2>4. AsOf(i, stored'[q])
        BY <2>2, <2>3, AsOfOrders
    <2> QED BY <1>0, <1>1, <2>1, <2>4 DEF ShownAge
<1>2. log'.text # None
    <2>1. Text(i) \in Statuses \X Nat
        BY DEF Text, Image
    <2> QED BY <2>1, NoneAssumption DEF Displays
<1>3. CASE UNCHANGED <<logs, showingLog, log, logAt>>
    BY <1>1, <1>3 DEF Displays
<1>4. CASE /\ q' \in Projects /\ AsksLog(q')
           /\ UNCHANGED <<showingLog, log, logAt>>
    <2>1. /\ Len(logs) \in Nat /\ DOMAIN logs = 1 .. Len(logs)
          /\ DOMAIN logs' = 1 .. Len(logs) + 1
          /\ \A k \in DOMAIN logs : logs'[k] = logs[k]
          /\ logs'[Len(logs) + 1] = <<q', stored'[q']>>
        BY <1>0, <1>4, AskedLog
    <2>2. \A k \in DOMAIN logs' : k \in DOMAIN logs \/ k = Len(logs) + 1
        BY <2>1
    <2>3. /\ AsOf(i, stored'[q])
          /\ \A k \in DOMAIN logs : logs[k][1] = q => AsOf(i, logs[k][2])
        BY <1>1, <1>4 DEF Displays
    <2>4. ASSUME NEW k \in DOMAIN logs', logs'[k][1] = q'
          PROVE  AsOf(i, logs'[k][2])
        BY <1>4, <2>1, <2>2, <2>3, <2>4
    <2> QED BY <1>4, <2>3, <2>4
<1>5. CASE 1 \in DOMAIN logs /\ LogArrives(1)
    <2>1. /\ Len(logs) \in Nat /\ DOMAIN logs = 1 .. Len(logs)
          /\ \A k \in DOMAIN logs' : k + 1 \in DOMAIN logs
          /\ \A k \in DOMAIN logs' : logs'[k] = logs[k + 1]
          /\ UNCHANGED <<stored, showingLog>>
          /\ IF showingLog = logs[1][1]
             THEN log'.text = Text(logs[1][2]) /\ logAt' = Key(logs[1][2])
             ELSE UNCHANGED <<log, logAt>>
        BY <1>0, <1>5, FirstLogComes
    <2>2. CASE UNCHANGED <<log, logAt>>
        BY <1>1, <2>1, <2>2 DEF Displays
    <2>3. CASE /\ showingLog = logs[1][1]
               /\ log'.text = Text(logs[1][2]) /\ logAt' = Key(logs[1][2])
        <3>1. i = logs[1][2]
            BY <1>0, <1>5, <2>3, LogIs, SameImage DEF Displays
        <3>2. AsOf(i, stored[q])
            BY <1>0, <1>5, <2>3, <3>1 DEF LogsAge
        <3>3. ASSUME NEW k \in DOMAIN logs', logs'[k][1] = q'
              PROVE  AsOf(i, logs'[k][2])
            <4>1. k + 1 \in DOMAIN logs /\ 1 < k + 1
                <5>1. k \in 1 .. Len(logs) - 1
                    BY <1>0, <1>5, FirstLogComes
                <5> QED BY <2>1, <5>1
            <4>2. logs[1][1] = logs[k + 1][1]
                BY <2>1, <2>3, <3>3
            <4> QED BY <1>0, <1>5, <2>1, <3>1, <4>1, <4>2 DEF LogsAge
        <3> QED BY <2>1, <3>2, <3>3
    <2> QED BY <2>1, <2>2, <2>3
<1> QED BY <1>2, <1>3, <1>4, <1>5, LogsMove

LEMMA ShownIsReadStep ==
    ASSUME ProjectsBase, InStep, ProjectsNext, ~failed', ~overtook'
    PROVE  ShownIsRead'
<1>0. ProjectsTypeOK /\ ShownIsRead
    BY DEF ProjectsBase, InStep
<1> SUFFICES ASSUME logAt' # None PROVE \E i \in Image : Displays(i)'
    BY DEF ShownIsRead
<1>1. CASE UNCHANGED <<log, logAt>>
    BY <1>0, <1>1 DEF ShownIsRead, Displays
<1>2. CASE 1 \in DOMAIN logs /\ LogArrives(1)
    <2>1. \/ log'.text = Text(logs[1][2]) /\ logAt' = Key(logs[1][2])
          \/ UNCHANGED <<log, logAt>>
        BY <1>0, <1>2, FirstLogComes
    <2>2. logs[1][2] \in Image
        BY <1>0, <1>2, LogIs
    <2> QED BY <1>1, <2>1, <2>2 DEF Displays
<1>3. ASSUME NEW p \in Projects, TogglesLog(p) PROVE logAt' = None
    BY <1>3 DEF TogglesLog, OpensLog
<1>4. CASE TimerFires \/ (1 \in DOMAIN lists /\ ListArrives(1))
    BY <1>1, <1>4 DEF TimerFires, ListArrives, logVars
<1>5. ASSUME NEW p \in Projects, Answered(p) \/ Builds(p)
      PROVE  UNCHANGED <<log, logAt>>
    BY <1>5 DEF Answered, Builds, logVars
<1> QED BY <1>1, <1>2, <1>3, <1>4, <1>5, StepInOrder

(* The log that is open stays heeded: only the newest image was displayed, *)
(* or is on its way.                                                       *)
LEMMA HeededStep ==
    ASSUME ProjectsBase, InStep, ProjectsNext, ~failed', ~overtook',
           showingLog' # None, UNCHANGED <<showingLog, stored>>, Heeded
    PROVE  Heeded'
<1>0. ProjectsTypeOK /\ LogsAge /\ ShownAge
    BY DEF ProjectsBase, InStep
<1> DEFINE q == showingLog
           cur == stored[showingLog]
<1>1. q \in Projects /\ cur \in Image /\ q' = q /\ cur' = cur
    BY <1>0 DEF ProjectsTypeOK
<1>2. CASE UNCHANGED <<logs, log, logAt>>
    BY <1>1, <1>2 DEF Heeded, Displays
<1>3. CASE AsksLog(q') /\ q' \in Projects
    <2>1. /\ Len(logs) \in Nat /\ DOMAIN logs' = 1 .. Len(logs) + 1
          /\ logs'[Len(logs) + 1] = <<q', stored'[q']>>
        BY <1>0, <1>3, AskedLog
    <2>2. Len(logs) + 1 \in DOMAIN logs'
        BY <2>1
    <2> QED BY <2>1, <2>2 DEF Heeded
<1>4. CASE 1 \in DOMAIN logs /\ LogArrives(1)
    <2>1. /\ \A k \in DOMAIN logs : k # 1 =>
                 k - 1 \in DOMAIN logs' /\ logs'[k - 1] = logs[k]
          /\ IF showingLog = logs[1][1]
             THEN log'.text = Text(logs[1][2]) /\ logAt' = Key(logs[1][2])
             ELSE UNCHANGED <<log, logAt>>
        BY <1>0, <1>4, FirstLogComes
    <2>2. logs[1][1] \in Projects /\ logs[1][2] \in Image
        BY <1>0, <1>4, LogIs
    <2>3. CASE Displays(cur) /\ q # logs[1][1]
        <3>1. Displays(cur)'
            BY <1>1, <2>1, <2>3 DEF Displays
        <3> QED BY <1>1, <3>1 DEF Heeded
    <2>4. CASE Displays(cur) /\ q = logs[1][1]
        <3>1. AsOf(cur, logs[1][2])
            BY <1>0, <1>1, <1>4, <2>4 DEF ShownAge
        <3>2. AsOf(logs[1][2], cur)
            BY <1>0, <1>4, <2>4 DEF LogsAge
        <3>3. logs[1][2] = cur
            BY <1>1, <2>2, <3>1, <3>2, AsOfOrders
        <3>4. Displays(cur)'
            BY <1>1, <2>1, <2>4, <3>3 DEF Displays
        <3> QED BY <1>1, <3>4 DEF Heeded
    <2>5. ASSUME NEW k \in DOMAIN logs, logs[k] = <<q, cur>>, k # 1
          PROVE  Heeded'
        <3>1. k - 1 \in DOMAIN logs' /\ logs'[k - 1] = <<q', cur'>>
            BY <1>1, <2>1, <2>5
        <3> QED BY <3>1 DEF Heeded
    <2>6. CASE logs[1] = <<q, cur>>
        <3>1. Displays(cur)'
            BY <1>1, <2>1, <2>6 DEF Displays
        <3> QED BY <1>1, <3>1 DEF Heeded
    <2> QED BY <2>3, <2>4, <2>5, <2>6 DEF Heeded
<1> QED BY <1>2, <1>3, <1>4, LogsMove

(* The last list on its way comes: a log is asked for, or the timer runs,  *)
(* or what is shown is what there is, or a failed build goes unread.       *)
LEMMA LastListHeeds ==
    ASSUME ProjectsBase, ShownAge, ShownIsRead,
           1 \in DOMAIN lists, ListArrives(1), lists' = << >>,
           showingLog # None, IsListed(stored[showingLog]), Awaited
    PROVE  Heeded' \/ Awaited' \/ MayBeShort(showingLog)'
<1> DEFINE q == showingLog
           cur == stored[showingLog]
<1>0. ProjectsTypeOK /\ q \in Projects
    BY DEF ProjectsBase, ProjectsTypeOK
<1>1. /\ lists # << >> /\ Newest = lists[1]
      /\ InMotion(lists[1]) => ticking'
    BY FirstListComes
<1>2. UNCHANGED <<stored, showingLog, log, logAt>>
    BY DEF ListArrives
<1>3. CASE InMotion(Newest)
    BY <1>1, <1>3 DEF Awaited
<1>4. CASE lists[1][q] = cur
    <2>1. CASE AsksLog(q)
        <3>1. /\ Len(logs) \in Nat /\ DOMAIN logs' = 1 .. Len(logs) + 1
              /\ logs'[Len(logs) + 1] = <<q, stored'[q]>>
            BY <1>0, <2>1, AskedLog
        <3>2. Len(logs) + 1 \in DOMAIN logs'
            BY <3>1
        <3> QED BY <1>2, <3>1, <3>2 DEF Heeded
    <2>2. CASE ~ReadsLog(cur) /\ ~SeemsRead(cur)
        <3>1. Key(cur) = logAt /\ Text(cur) = log.text
            BY <2>2 DEF ReadsLog, SeemsRead
        <3>2. Displays(cur)'
            BY <1>2, <3>1 DEF Displays
        <3> QED BY <1>2, <3>2 DEF Heeded
    <2>3. CASE ~ReadsLog(cur) /\ SeemsRead(cur)
        <3>1. ~InFlight(cur.is) /\ Key(cur) = logAt /\ Text(cur) # log.text
            BY <2>3 DEF ReadsLog, SeemsRead
        <3>2. cur \in Image /\ Key(cur) # None
            BY <1>0, NoneAssumption DEF ProjectsTypeOK, Image, Key
        <3>3. PICK i \in Image : Displays(i)
            BY <3>1, <3>2 DEF ShownIsRead
        <3>4. Key(i) = Key(cur) /\ Text(i) # Text(cur)
            BY <3>1, <3>3 DEF Displays
        <3>5. cur.is = "failed"
            BY <3>1, <3>2, <3>4
            DEF Image, Key, Text, InFlight, IsListed, Statuses
        <3>6. unread'
            BY <1>4, <2>3 DEF ListArrives
        <3> QED BY <1>2, <3>5, <3>6 DEF MayBeShort
    <2>4. AsksLog(q) \/ ~ReadsLog(cur)
        BY <1>4 DEF ListArrives
    <2> QED BY <2>1, <2>2, <2>3, <2>4
<1> QED BY <1>1, <1>3, <1>4 DEF Awaited

LEMMA FollowedStep ==
    ASSUME ProjectsBase, InStep, ProjectsNext, ~failed', ~overtook'
    PROVE  Followed'
<1>0. ProjectsTypeOK /\ Watched /\ Followed /\ ShownAge /\ ShownIsRead
    BY DEF ProjectsBase, InStep
<1> SUFFICES ASSUME showingLog' # None, IsListed(stored'[showingLog'])
             PROVE  Heeded' \/ Awaited' \/ MayBeShort(showingLog)'
    BY DEF Followed
<1>1. CASE lists' # << >> /\ Newest' = stored'
    BY <1>1 DEF Awaited
<1>2. ASSUME NEW p \in Projects, Builds(p) PROVE Awaited'
    <2>1. InMotion(stored)
        BY <1>0, <1>2, BuildsMove
    <2>2. UNCHANGED <<lists, ticking>>
        BY <1>2 DEF Builds, listOf
    <2> QED BY <1>0, <2>1, <2>2 DEF Watched, Awaited, InMotion, Newest
<1>3. CASE 1 \in DOMAIN lists /\ ListArrives(1)
    <2>1. /\ UNCHANGED <<stored, showingLog>>
          /\ \/ unread' = unread
             \/ unread' = (unread \/ SeemsRead(lists[1][showingLog]))
        BY <1>3 DEF ListArrives
    <2>2. Heeded \/ Awaited \/ MayBeShort(showingLog)
        BY <1>0, <2>1 DEF Followed
    <2>3. CASE Heeded
        BY <2>1, <2>3, HeededStep
    <2>4. CASE Awaited /\ lists' = << >>
        BY <1>0, <1>3, <2>1, <2>4, LastListHeeds
    <2>6. CASE MayBeShort(showingLog)
        BY <2>1, <2>6 DEF MayBeShort
    <2>5. CASE Awaited /\ lists' # << >>
        <3>1. lists # << >> /\ Newest' = Newest
            BY <1>3, <2>5, FirstListComes
        <3> QED BY <2>1, <2>5, <3>1 DEF Awaited, InMotion
    <2> QED BY <2>2, <2>3, <2>4, <2>5, <2>6
<1>4. CASE 1 \in DOMAIN logs /\ LogArrives(1)
    <2>1. UNCHANGED <<stored, showingLog, unread, lists, ticking>>
        BY <1>0, <1>4, FirstLogComes
    <2>2. Heeded \/ Awaited \/ MayBeShort(showingLog)
        BY <1>0, <2>1 DEF Followed
    <2>3. CASE Heeded
        BY <2>1, <2>3, HeededStep
    <2>4. CASE Awaited
        BY <2>1, <2>4 DEF Awaited, InMotion, Newest
    <2>5. CASE MayBeShort(showingLog)
        BY <2>1, <2>5 DEF MayBeShort
    <2> QED BY <2>2, <2>3, <2>4, <2>5
<1>5. ASSUME NEW p \in Projects, TogglesLog(p) PROVE Heeded'
    <2>1. showingLog' = p /\ AsksLog(p)
        BY <1>5 DEF TogglesLog, OpensLog
    <2>2. /\ Len(logs) \in Nat /\ DOMAIN logs' = 1 .. Len(logs) + 1
          /\ logs'[Len(logs) + 1] = <<p, stored'[p]>>
        BY <1>0, <2>1, AskedLog
    <2>3. Len(logs) + 1 \in DOMAIN logs'
        BY <2>2
    <2> QED BY <2>1, <2>2, <2>3 DEF Heeded
<1>6. stored' \in [Projects -> Image]
    BY ImagesMove
<1>7. AsksList => lists' # << >> /\ Newest' = stored'
    BY <1>0, <1>6, NewestAsked
<1>8. CASE TimerFires \/ \E p \in Projects : Answered(p)
    BY <1>1, <1>7, <1>8 DEF TimerFires, Answered
<1> QED BY <1>2, <1>3, <1>4, <1>5, <1>8, StepInOrder

LEMMA ProjectsStep == ProjectsInv /\ ProjectsNext => ProjectsInv'
<1> SUFFICES ASSUME ProjectsInv, ProjectsNext PROVE ProjectsInv'
    OBVIOUS
<1>1. ProjectsBase'
    BY BaseStep DEF ProjectsInv
<1>2. ASSUME ~failed', ~overtook' PROVE InStep'
    <2>1. ProjectsBase /\ InStep
        BY <1>2, StepInOrder DEF ProjectsInv
    <2> QED BY <1>2, <2>1, WatchedStep, LogsAgeStep, ShownAgeStep,
            ShownIsReadStep, FollowedStep
            DEF InStep
<1> QED BY <1>1, <1>2 DEF ProjectsInv

LEMMA ProjectsStay == ProjectsInv /\ UNCHANGED projectsVars => ProjectsInv'
<1> SUFFICES ASSUME ProjectsInv, UNCHANGED projectsVars PROVE ProjectsInv'
    OBVIOUS
<1> USE DEF projectsVars, logVars, listOf
<1>1. ProjectsBase'
    BY DEF ProjectsInv, ProjectsBase, ProjectsTypeOK, LogIsOfOpen
<1>2. ASSUME InStep PROVE InStep'
    <2>1. Watched' /\ TableIsNewest'
        BY <1>2 DEF InStep, Watched, TableIsNewest, Newest, InMotion, ListedIn
    <2>2. LogsAge' /\ ShownAge' /\ ShownIsRead'
        BY <1>2 DEF InStep, LogsAge, ShownAge, ShownIsRead, Displays
    <2>3. Followed'
        BY <1>2
        DEF InStep, Followed, Heeded, Awaited, MayBeShort, Displays, Newest,
            InMotion
    <2> QED BY <2>1, <2>2, <2>3 DEF InStep
<1> QED BY <1>1, <1>2 DEF ProjectsInv

LEMMA ProjectsTruth ==
    ProjectsInv => ProjectsTypeOK /\ LogIsOfOpen /\ RestIsTrue
<1> SUFFICES ASSUME ProjectsInv, AtRest, ~failed, ~overtook
             PROVE  /\ \A p \in Projects : ~InFlight(stored[p].is)
                    /\ projects = {p \in Projects : IsListed(stored[p])}
                    /\ showingLog \in projects =>
                           \/ log.text = Text(stored[showingLog])
                           \/ MayBeShort(showingLog)
    BY DEF ProjectsInv, ProjectsBase, RestIsTrue
<1>1. InStep /\ lists = << >> /\ DOMAIN logs = {} /\ ~ticking
    BY DEF ProjectsInv, AtRest
<1>2. \A p \in Projects : ~InFlight(stored[p].is)
    BY <1>1 DEF InStep, Watched, InMotion
<1>3. projects = ListedIn(stored)
    BY <1>1 DEF InStep, TableIsNewest
<1>4. ASSUME showingLog \in projects
      PROVE  \/ log.text = Text(stored[showingLog])
             \/ MayBeShort(showingLog)
    <2>1. showingLog \in Projects /\ IsListed(stored[showingLog])
        BY <1>3, <1>4 DEF ListedIn
    <2>2. Heeded \/ Awaited \/ MayBeShort(showingLog)
        BY <1>1, <1>4, <2>1, ProjectsAssumption DEF InStep, Followed
    <2> QED BY <1>1, <2>2 DEF Heeded, Awaited, Displays
<1> QED BY <1>2, <1>3, <1>4 DEF ListedIn

-----------------------------------------------------------------------------
(* The files panel.                                                        *)

(* A panel that was left, and a page that has none, hold no object URL.    *)
PanelInv ==
    /\ PanelTypeOK /\ PreviewIsSelected /\ LoadingIsLoading
    /\ urls = Held
    /\ (destroyed \/ page # "files") => ~objectUrl

LEMMA PanelBegins == PanelInit => PanelInv
<1> SUFFICES ASSUME PanelInit PROVE PanelInv
    OBVIOUS
<1>1. PanelTypeOK
    BY DEF PanelInit, PanelTypeOK
<1>2. PreviewIsSelected /\ urls = Held /\ ~objectUrl
    BY DEF PanelInit, PreviewIsSelected, Held
<1>3. LoadingIsLoading
    BY DEF PanelInit, LoadingIsLoading
<1> QED BY <1>1, <1>2, <1>3 DEF PanelInv

(* A directory has one request more, or one less.                          *)
LEMMA LoadsType ==
    ASSUME NEW S, NEW f \in [S -> Nat], NEW d \in S
    PROVE  /\ [f EXCEPT ![d] = @ + 1] \in [S -> Nat]
           /\ f[d] > 0 => [f EXCEPT ![d] = @ - 1] \in [S -> Nat]
OBVIOUS

(* What is known of the tree.                                              *)
TreeOK ==
    /\ open \subseteq Dirs
    /\ listed \in [Dirs \cup {None} -> {"nothing", "listed", "failed"}]
    /\ loads \in [Dirs \cup {None} -> Nat] /\ LoadingIsLoading

LEMMA TreeStep ==
    ASSUME PanelInv, UNCHANGED <<previewVars, page, destroyed>>,
           \/ RefreshesTree \/ \E d \in Dirs : Folds(d)
           \/ \E d \in Dirs \cup {None} : Loaded(d)
    PROVE  PanelInv'
<1>1. PreviewIsSelected' /\ urls' = Held' 
      /\ ((destroyed' \/ page' # "files") => ~objectUrl')
    BY DEF PanelInv, PreviewIsSelected, Held, previewVars
<1>2. TreeOK'
    <2> USE DEF PanelInv, PanelTypeOK, TreeOK
    <2>1. CASE RefreshesTree
        <3>1. UNCHANGED <<open, listed>>
            BY <2>1 DEF RefreshesTree
        <3>2. DOMAIN loads = Dirs \cup {None}
            OBVIOUS
        <3>3. \A d \in Dirs \cup {None} :
                  loads[d] \in Nat /\ loads[d] + 1 \in Nat /\ loads[d] + 1 > 0
            OBVIOUS
        <3>4. loads' = [d \in Dirs \cup {None} |->
                   IF d \in open \cup {None} THEN loads[d] + 1 ELSE loads[d]]
            BY <2>1, <3>2 DEF RefreshesTree
        <3>5. loads' \in [Dirs \cup {None} -> Nat]
            BY <3>3, <3>4
        <3>6. \A d \in open \cup {None} : loads'[d] > 0
            BY <3>3, <3>4
        <3> QED BY <3>1, <3>5, <3>6 DEF LoadingIsLoading
    <2>2. ASSUME NEW d \in Dirs, Folds(d)
          PROVE  TreeOK'
        <3>1. CASE open' = open \ {d} /\ UNCHANGED <<loads, listed>>
            BY <3>1 DEF LoadingIsLoading, Mounted
        <3>2. CASE /\ open' = open \cup {d} /\ UNCHANGED listed
                   /\ loads' = [loads EXCEPT ![d] = @ + 1]
            <4>1. loads' \in [Dirs \cup {None} -> Nat]
                BY <3>2, LoadsType
            <4>2. loads'[d] > 0
                BY <3>2
            <4>3. \A e \in (Dirs \cup {None}) \ {d} : loads'[e] = loads[e]
                BY <3>2
            <4>4. LoadingIsLoading'
                BY <3>2, <4>2, <4>3 DEF LoadingIsLoading, Mounted
            <4> QED BY <3>2, <4>1, <4>4
        <3> QED BY <2>2, <3>1, <3>2 DEF Folds
    <2>3. ASSUME NEW d \in Dirs \cup {None}, Loaded(d)
          PROVE  TreeOK'
        <3>1. /\ open' = open /\ loads[d] > 0 
              /\ loads' = [loads EXCEPT ![d] = @ - 1]
            BY <2>3 DEF Loaded
        <3>2. loads' \in [Dirs \cup {None} -> Nat]
            BY <3>1, LoadsType
        <3>3. \A e \in (Dirs \cup {None}) \ {d} : loads'[e] = loads[e]
            BY <3>1
        <3>4. CASE destroyed /\ UNCHANGED listed
            BY <3>1, <3>2, <3>4 DEF LoadingIsLoading, Mounted
        <3>5. CASE \E answer \in {"listed", "failed"} :
                       listed' = [listed EXCEPT ![d] = answer]
            <4>1. /\ listed' \in [Dirs \cup {None} ->
                                    {"nothing", "listed", "failed"}]
                  /\ listed'[d] # "nothing"
                  /\ \A e \in (Dirs \cup {None}) \ {d} : listed'[e] = listed[e]
                BY <3>5
            <4>2. LoadingIsLoading'
                BY <3>1, <3>3, <4>1 DEF LoadingIsLoading, Mounted
            <4> QED BY <3>1, <3>2, <4>1, <4>2
        <3> QED BY <2>3, <3>4, <3>5 DEF Loaded, Failure
    <2> QED BY <2>1, <2>2, <2>3
<1> QED BY <1>1, <1>2 DEF PanelInv, PanelTypeOK, TreeOK, previewVars

(* The answer with the file: its object URL takes the last one's place.    *)
LEMMA ReadStep ==
    ASSUME PanelInv, UNCHANGED <<page, destroyed>>, NEW f \in Previews, Read(f)
    PROVE  PanelInv'
<1> USE DEF PanelInv, PanelTypeOK
<1>1. /\ UNCHANGED <<open, listed, loads, selected>> /\ page = "files"
      /\ reads[f] > 0 /\ reads' = [reads EXCEPT ![f] = @ - 1]
    BY DEF Read, treeVars
<1>2. reads' \in [Previews -> Nat]
    BY <1>1, LoadsType
<1>3. LoadingIsLoading'
    BY <1>1 DEF LoadingIsLoading, Mounted
<1>4. CASE UNCHANGED <<texts, preview, link, objectUrl, urls>>
    BY <1>1, <1>2, <1>3, <1>4 DEF PreviewIsSelected, Held
<1>5. CASE Wanted(f)
    <2>1. selected = f /\ ~destroyed
        BY <1>5 DEF Wanted
    <2>2. /\ link' \in BOOLEAN /\ objectUrl' \in BOOLEAN
          /\ \/ texts' = texts
             \/ texts' = [texts EXCEPT ![f] = @ + 1]
          /\ preview' \in {preview, [of |-> f, as |-> "image"],
                           [of |-> f, as |-> "message"]}
        BY <1>5 DEF Read
    <2>3. texts' \in [Previews -> Nat]
        BY <2>2, LoadsType
    <2>4. /\ preview' \in [of : Previews \cup {None},
                as : {"nothing", "loading", "image", "text", "message"}]
          /\ PreviewIsSelected'
        BY <1>1, <2>1, <2>2 DEF PreviewIsSelected
    <2>5. urls - Held = 0
        BY DEF Held
    <2>6. \/ objectUrl' = TRUE /\ urls' = (urls - Held) + 1
          \/ objectUrl' = FALSE /\ urls' = urls - Held
        BY <1>5 DEF Read
    <2>7. urls' = Held' /\ urls' \in Nat
        BY <2>5, <2>6 DEF Held
    <2> QED BY <1>1, <1>2, <1>3, <2>1, <2>2, <2>3, <2>4, <2>7
<1> QED BY <1>4, <1>5 DEF Read

LEMMA PreviewStep ==
    ASSUME PanelInv, UNCHANGED <<page, destroyed>>, NEW f \in Previews,
           Clicks(f) \/ Read(f) \/ ReadFails(f) \/ Decoded(f)
    PROVE  PanelInv'
<1> USE DEF PanelInv, PanelTypeOK
<1>1. CASE Clicks(f)
    <2>1. reads' \in [Previews -> Nat]
        BY <1>1, LoadsType DEF Clicks
    <2> QED BY <1>1, <2>1
            DEF Clicks, treeVars, PreviewIsSelected, LoadingIsLoading, Mounted,
                Held
<1>2. CASE Read(f)
    BY <1>2, ReadStep
<1>3. CASE ReadFails(f)
    <2>1. reads' \in [Previews -> Nat]
        BY <1>3, LoadsType DEF ReadFails
    <2>2. \/ preview' = preview
          \/ preview' = [of |-> f, as |-> "message"] /\ selected = f
        BY <1>3 DEF ReadFails
    <2> QED BY <1>3, <2>1, <2>2
            DEF ReadFails, treeVars, PreviewIsSelected, LoadingIsLoading,
                Mounted, Held
<1>4. CASE Decoded(f)
    <2>1. texts' \in [Previews -> Nat]
        BY <1>4, LoadsType DEF Decoded
    <2>2. \/ preview' = preview
          \/ preview' = [of |-> f, as |-> "text"] /\ selected = f
        BY <1>4 DEF Decoded, TextWanted
    <2> QED BY <1>4, <2>1, <2>2
            DEF Decoded, treeVars, PreviewIsSelected, LoadingIsLoading,
                Mounted, Held
<1> QED BY <1>1, <1>2, <1>3, <1>4

LEMMA PanelStep ==
    ASSUME PanelInv, PanelNext, UNCHANGED <<page, destroyed>>
    PROVE  PanelInv'
BY TreeStep, PreviewStep DEF PanelNext, RefreshesTree, Folds, Loaded

LEMMA PanelLeft ==
    ASSUME PanelInv, LeavesFiles
    PROVE  PanelInv'
<1> USE DEF PanelInv, PanelTypeOK
<1>1. urls - Held = 0
    BY DEF Held
<1>2. urls' = 0 /\ objectUrl' = FALSE
    BY <1>1 DEF LeavesFiles
<1>3. urls' = Held' /\ urls' \in Nat
    BY <1>2 DEF Held
<1> QED BY <1>2, <1>3
        DEF LeavesFiles, Destroys, Mounted, treeVars, PreviewIsSelected,
            LoadingIsLoading

(* Another page is left, or nothing happens to the panel.                  *)
LEMMA PanelStays ==
    ASSUME PanelInv, UNCHANGED <<panelVars, page>>,
           destroyed' = destroyed \/ page # "files"
    PROVE  PanelInv'
BY DEF PanelInv, PanelTypeOK, panelVars, PreviewIsSelected, LoadingIsLoading,
       Mounted, Held

-----------------------------------------------------------------------------
(* The console: its sockets and the size of the screen.                    *)

SocketStates == {"connecting", "open", "closing", "closed"}

(* The page was a console's and is left.                                   *)
Left == page = "console" /\ destroyed

(* Where the button is, there is no connection; and a socket whose close   *)
(* event is still to come is the one that is connected.  Only a page that  *)
(* was left has others, and none of them is alive.                         *)
SocketsAreOne ==
    /\ ~Left => /\ reconnect => connection = 0
                /\ \A n \in DOMAIN sockets :
                       sockets[n] # "closed" => connection = n
    /\ Left => Live = {}

(* What the page believes of the pane's size.                              *)
SizesAgree ==
    /\ Len(panes) = Len(sockets)
    /\ (~Left /\ ~timer) => sent = screen
    /\ ~lost => \A n \in Live : panes[n] = sent

TermTypeOK ==
    /\ sockets \in Seq(SocketStates) /\ panes \in Seq(Sizes)
    /\ connection \in 0 .. Len(sockets) /\ screen \in Sizes /\ sent \in Sizes
    /\ reconnect \in BOOLEAN /\ timer \in BOOLEAN /\ lost \in BOOLEAN
    /\ resizes \in 0 .. MaxResizes

TermInv == TermTypeOK /\ SocketsAreOne /\ SizesAgree

LEMMA TermBegins == ConsoleInit /\ PageInit => TermInv
<1> SUFFICES ASSUME ConsoleInit, PageInit PROVE TermInv
    OBVIOUS
<1>1. screen \in Sizes /\ sent = screen
    BY ConsoleAssumption DEF ConsoleInit
<1>2. /\ sockets = <<"connecting">> /\ panes = <<screen>> /\ connection = 1
      /\ reconnect = FALSE /\ timer = FALSE /\ lost = FALSE /\ resizes = 0
    BY DEF ConsoleInit
<1>3. /\ sockets \in Seq(SocketStates) /\ Len(sockets) = 1
      /\ DOMAIN sockets = {1} /\ panes \in Seq(Sizes) /\ Len(panes) = 1
      /\ panes[1] = screen
    BY <1>1, <1>2 DEF SocketStates
<1>4. TermTypeOK
    <2>1. connection \in 0 .. Len(sockets) /\ resizes \in 0 .. MaxResizes
        BY <1>2, <1>3, ConsoleAssumption
    <2> QED BY <1>1, <1>2, <1>3, <2>1 DEF TermTypeOK
<1>5. SocketsAreOne
    BY <1>2, <1>3 DEF SocketsAreOne, Left, PageInit
<1>6. SizesAgree
    BY <1>1, <1>2, <1>3 DEF SizesAgree, Live
<1> QED BY <1>4, <1>5, <1>6 DEF TermInv

(* The sockets with the n-th one closed, if it was alive.                  *)
LEMMA ClosedIs ==
    ASSUME TermTypeOK, NEW n
    PROVE  /\ Closed(n) \in Seq(SocketStates)
           /\ Len(Closed(n)) = Len(sockets) /\ DOMAIN Closed(n) = DOMAIN sockets
           /\ \A m \in DOMAIN sockets :
                  Closed(n)[m] = IF m = n /\ m \in Live THEN "closing"
                                 ELSE sockets[m]
<1>1. Len(sockets) \in Nat /\ DOMAIN sockets = 1 .. Len(sockets)
      /\ \A m \in 1 .. Len(sockets) : sockets[m] \in SocketStates
    BY LenProperties, ElementOfSeq DEF TermTypeOK
<1>2. Closed(n) \in [1 .. Len(sockets) -> SocketStates]
    BY <1>1 DEF Closed, SocketStates
<1>3. \A m \in DOMAIN sockets :
          Closed(n)[m] = IF m = n /\ m \in Live THEN "closing" ELSE sockets[m]
    BY DEF Closed
<1>4. /\ Closed(n) \in Seq(SocketStates) /\ Len(Closed(n)) = Len(sockets)
      /\ DOMAIN Closed(n) = 1 .. Len(sockets)
    <2> DEFINE c == Closed(n)
               N == Len(sockets)
    <2>1. N \in Nat /\ c \in [1 .. N -> SocketStates]
        BY <1>1, <1>2
    <2> HIDE DEF c, N
    <2>2. c \in Seq(SocketStates)
        BY <2>1, SeqDef
    <2>3. Len(c) \in Nat /\ 1 .. Len(c) = 1 .. N
        BY <2>1, <2>2, LenProperties
    <2>4. Len(c) = N /\ DOMAIN c = 1 .. N
        BY <2>1, <2>3
    <2> QED BY <2>2, <2>4 DEF c, N
<1> QED BY <1>1, <1>3, <1>4

(* The new socket is the only one: where the button is, all are closed.    *)
LEMMA ConnectsKeeps ==
    ASSUME TermInv, Connects, UNCHANGED <<page, destroyed>>
    PROVE  TermInv'
<1> USE DEF TermInv, TermTypeOK
<1>1. /\ ~Left /\ ~Left' /\ reconnect /\ reconnect' = FALSE
      /\ UNCHANGED <<screen, timer, resizes>> /\ lost' = FALSE
      /\ sent' = screen /\ panes' = Append(panes, screen)
      /\ sockets' = Append(Closed(connection), "connecting")
      /\ connection' = Len(sockets) + 1
    BY DEF Connects, HidesReconnect, Mounted, Left
<1>2. connection = 0 /\ \A n \in DOMAIN sockets : sockets[n] = "closed"
    <2>1. DOMAIN sockets = 1 .. Len(sockets)
        BY LenProperties
    <2>2. connection = 0
        BY <1>1 DEF SocketsAreOne
    <2>3. 0 \notin 1 .. Len(sockets)
        OBVIOUS
    <2> QED BY <1>1, <2>1, <2>2, <2>3 DEF SocketsAreOne
<1> DEFINE c == Closed(connection)
           N == Len(sockets)
<1>3. /\ c \in Seq(SocketStates) /\ Len(c) = N /\ N \in Nat
      /\ \A n \in 1 .. N : c[n] = "closed"
    <2>1. DOMAIN sockets = 1 .. N /\ N \in Nat
        BY LenProperties
    <2>2. \A n \in 1 .. N : n \notin Live
        BY <1>2, <2>1 DEF Live
    <2> QED BY <1>2, <2>1, <2>2, ClosedIs
<1> HIDE DEF c
<1>4. /\ sockets' \in Seq(SocketStates) /\ Len(sockets') = N + 1
      /\ DOMAIN sockets' = 1 .. N + 1 /\ sockets'[N + 1] = "connecting"
      /\ \A n \in 1 .. N : sockets'[n] = "closed"
    <2>1. "connecting" \in SocketStates
        BY DEF SocketStates
    <2>2. sockets' = Append(c, "connecting")
        BY <1>1 DEF c
    <2> QED BY <1>3, <2>1, <2>2, AppendIs
<1>5. /\ panes' \in Seq(Sizes) /\ Len(panes') = N + 1
      /\ panes'[N + 1] = screen
    <2>1. Len(panes) = N
        BY DEF SizesAgree
    <2> QED BY <1>1, <2>1, AppendIs
<1>6. \A n \in DOMAIN sockets' : sockets'[n] # "closed" => n = N + 1
    <2>1. \A n \in 1 .. N + 1 : n \in 1 .. N \/ n = N + 1
        BY <1>3
    <2> QED BY <1>4, <2>1
<1>7. SocketsAreOne'
    BY <1>1, <1>6 DEF SocketsAreOne
<1>8. SizesAgree'
    <2>1. \A n \in Live' : n = N + 1
        BY <1>6 DEF Live
    <2> QED BY <1>1, <1>4, <1>5, <2>1 DEF SizesAgree
<1>9. connection' \in 0 .. Len(sockets')
    BY <1>1, <1>3, <1>4
<1> QED BY <1>1, <1>4, <1>5, <1>7, <1>8, <1>9

LEMMA SocketEvents ==
    ASSUME TermInv, NEW n, Opens(n) \/ CloseArrives(n), page = "console",
           UNCHANGED <<page, destroyed>>
    PROVE  TermInv'
<1> USE DEF TermInv, TermTypeOK
<1>1. PICK s \in {"open", "closed"} :
          /\ n \in DOMAIN sockets /\ sockets' = [sockets EXCEPT ![n] = s]
          /\ UNCHANGED <<panes, screen, sent, timer, lost, resizes>>
          /\ s = "open" => /\ sockets[n] = "connecting"
                           /\ UNCHANGED <<connection, reconnect>>
          /\ s = "closed" =>
                 /\ sockets[n] # "closed"
                 /\ \/ destroyed /\ UNCHANGED <<reconnect, connection>>
                    \/ ~destroyed /\ reconnect' = TRUE /\ connection' = 0
    BY DEF Opens, CloseArrives
<1>2. /\ sockets' \in Seq(SocketStates) /\ Len(sockets') = Len(sockets)
      /\ DOMAIN sockets' = DOMAIN sockets /\ sockets'[n] = s
      /\ \A m \in DOMAIN sockets : m # n => sockets'[m] = sockets[m]
    <2>1. s \in SocketStates /\ n \in 1 .. Len(sockets)
        BY <1>1, LenProperties DEF SocketStates
    <2>2. sockets' \in Seq(SocketStates) /\ Len(sockets') = Len(sockets)
        BY <1>1, <2>1, ExceptSeq
    <2> QED BY <1>1, <2>2
<1>3. Live' \subseteq Live
    BY <1>1, <1>2 DEF Live
<1>4. connection' \in 0 .. Len(sockets') /\ reconnect' \in BOOLEAN
    <2>1. 0 \in 0 .. Len(sockets)
        BY LenProperties
    <2> QED BY <1>1, <1>2, <2>1
<1>5. SocketsAreOne'
    <2>1. CASE destroyed
        BY <1>1, <1>3, <2>1 DEF SocketsAreOne, Left
    <2>2. CASE ~destroyed /\ s = "open"
        BY <1>1, <1>2, <2>2 DEF SocketsAreOne, Left
    <2>3. CASE ~destroyed /\ s = "closed"
        <3>1. reconnect' = TRUE /\ connection' = 0 /\ connection = n
            BY <1>1, <2>3 DEF SocketsAreOne, Left
        <3>2. \A m \in DOMAIN sockets : sockets'[m] = "closed"
            BY <1>2, <2>3, <3>1 DEF SocketsAreOne, Left
        <3> QED BY <1>2, <2>3, <3>1, <3>2 DEF SocketsAreOne, Left
    <2> QED BY <1>1, <2>1, <2>2, <2>3
<1>6. SizesAgree'
    BY <1>1, <1>2, <1>3 DEF SizesAgree, Left
<1> QED BY <1>1, <1>2, <1>4, <1>5, <1>6

(* What the debounce ends with.                                            *)
LEMMA FitsKeeps ==
    ASSUME TermInv, Fits, UNCHANGED <<page, destroyed>>
    PROVE  TermInv'
<1> USE DEF TermInv, TermTypeOK
<1>1. /\ ~Left /\ ~Left' /\ timer' = FALSE
      /\ UNCHANGED <<sockets, connection, reconnect, screen, resizes>>
    BY DEF Fits, Mounted, Left
<1>2. SocketsAreOne' /\ Live' = Live
    BY <1>1 DEF SocketsAreOne, Live
<1>3. CASE Same(screen, sent) /\ UNCHANGED <<sent, panes, lost>>
    <2>1. screen = sent
        BY <1>3, ConsoleAssumption, SMTT(40) DEF Same
    <2>2. SizesAgree'
        BY <1>1, <1>2, <1>3, <2>1 DEF SizesAgree
    <2> QED BY <1>1, <1>2, <1>3, <2>2
<1>4. CASE sent' = screen /\ lost' = TRUE /\ UNCHANGED panes
    BY <1>1, <1>2, <1>4 DEF SizesAgree
<1>5. CASE /\ sent' = screen /\ connection # 0 /\ lost' = FALSE
           /\ panes' = [panes EXCEPT ![connection] = screen]
    <2>1. connection \in 1 .. Len(panes)
        BY <1>5, LenProperties DEF SizesAgree
    <2>2. panes' \in Seq(Sizes) /\ Len(panes') = Len(panes)
          /\ panes'[connection] = screen
        <3>1. DOMAIN panes = 1 .. Len(panes)
            BY LenProperties
        <3> QED BY <1>5, <2>1, <3>1, ExceptSeq
    <2>3. \A n \in Live : n = connection
        BY <1>1 DEF SocketsAreOne, Live
    <2>4. SizesAgree'
        BY <1>1, <1>2, <1>5, <2>2, <2>3 DEF SizesAgree
    <2> QED BY <1>1, <1>2, <1>5, <2>2, <2>4
<1> QED BY <1>3, <1>4, <1>5 DEF Fits

LEMMA ResizesKeeps ==
    ASSUME TermInv, Resizes, UNCHANGED <<page, destroyed>>
    PROVE  TermInv'
<1> USE DEF TermInv, TermTypeOK
<1>1. resizes' \in 0 .. MaxResizes
    BY ConsoleAssumption DEF Resizes
<1>2. SocketsAreOne' /\ SizesAgree'
    BY DEF Resizes, SocketsAreOne, SizesAgree, Live, Left
<1> QED BY <1>1, <1>2 DEF Resizes

(* destroy closes the one socket that may be alive.                        *)
LEMMA TermLeft ==
    ASSUME TermInv, LeavesConsole
    PROVE  TermInv'
<1> USE DEF TermInv, TermTypeOK
<1>1. /\ ~Left /\ Left' /\ sockets' = Closed(connection) /\ timer' = FALSE
      /\ UNCHANGED <<panes, connection, reconnect, screen, sent, lost, resizes>>
    BY DEF LeavesConsole, Destroys, Mounted, Left
<1>2. /\ sockets' \in Seq(SocketStates) /\ Len(sockets') = Len(sockets)
      /\ DOMAIN sockets' = DOMAIN sockets
      /\ \A m \in DOMAIN sockets :
             sockets'[m] = IF m = connection /\ m \in Live THEN "closing"
                           ELSE sockets[m]
    BY <1>1, ClosedIs
<1>3. \A n \in DOMAIN sockets' : sockets'[n] \notin {"connecting", "open"}
    <2> SUFFICES ASSUME NEW n \in DOMAIN sockets
                 PROVE  sockets'[n] \notin {"connecting", "open"}
        BY <1>2
    <2>1. CASE n \in Live
        <3>1. n = connection
            BY <1>1, <2>1 DEF SocketsAreOne, Live
        <3> QED BY <1>2, <2>1, <3>1
    <2>2. CASE n \notin Live
        BY <1>2, <2>2 DEF Live
    <2> QED BY <2>1, <2>2
<1>4. Live' = {}
    BY <1>3 DEF Live
<1> QED BY <1>1, <1>2, <1>4 DEF SocketsAreOne, SizesAgree

LEMMA TermStays ==
    ASSUME TermInv, UNCHANGED <<termVars, page>>,
           destroyed' = destroyed \/ page # "console"
    PROVE  TermInv'
<1>1. Left' = Left
    BY DEF Left
<1> QED BY <1>1 DEF TermInv, TermTypeOK, SocketsAreOne, SizesAgree, Live,
           termVars

-----------------------------------------------------------------------------
(* The files attached to the prompt.                                       *)

AttachTypeOK ==
    /\ uploading \in BOOLEAN /\ typed \in Seq(Nat \X Nat)
    /\ sending \subseteq Nat \X Nat \X Nat /\ drops \in 0 .. MaxDrops

(* One selection is sent at a time, the last one, and file after file.     *)
OneSelection ==
    /\ ~uploading => sending = {}
    /\ \A s, t \in sending : s = t
    /\ \A s \in sending :
           /\ s[1] = drops
           /\ \A j \in DOMAIN typed :
                  \/ typed[j][1] < s[1]
                  \/ (typed[j][1] = s[1] /\ typed[j][2] < s[2])
    /\ \A j \in DOMAIN typed : typed[j][1] <= drops

AttachInv == AttachTypeOK /\ OneSelection /\ PathsInOrder

LEMMA AttachBegins == ConsoleInit => AttachInv
<1> SUFFICES ASSUME ConsoleInit PROVE AttachInv
    OBVIOUS
<1>1. uploading = FALSE /\ sending = {} /\ typed = << >> /\ drops = 0
    BY DEF ConsoleInit
<1>2. typed \in Seq(Nat \X Nat) /\ DOMAIN typed = {}
    BY <1>1
<1>3. drops \in 0 .. MaxDrops
    BY <1>1, ConsoleAssumption
<1> QED BY <1>1, <1>2, <1>3 DEF AttachInv, AttachTypeOK, OneSelection,
           PathsInOrder

LEMMA AttachesKeeps ==
    ASSUME AttachInv, Attaches
    PROVE  AttachInv'
<1> USE DEF AttachInv, AttachTypeOK
<1>1. PICK n \in 1 .. MaxFiles : sending' = sending \cup {<<drops + 1, 1, n>>}
    BY DEF Attaches
<1>2. /\ ~uploading /\ uploading' = TRUE /\ drops' = drops + 1
      /\ drops < MaxDrops /\ typed' = typed
    BY DEF Attaches, MayAttach
<1>3. drops \in Nat /\ drops' \in Nat /\ drops' \in 0 .. MaxDrops /\ n \in Nat
    BY <1>2, ConsoleAssumption
<1>4. sending' = {<<drops', 1, n>>}
    BY <1>1, <1>2 DEF OneSelection
<1>5. sending' \subseteq Nat \X Nat \X Nat
    BY <1>3, <1>4
<1>6. \A j \in DOMAIN typed : typed[j] \in Nat \X Nat /\ typed[j][1] <= drops
    BY LenProperties, ElementOfSeq DEF OneSelection
<1>7. \A j \in DOMAIN typed : typed[j][1] < drops' /\ typed[j][1] <= drops'
    BY <1>2, <1>3, <1>6
<1>8. OneSelection'
    BY <1>2, <1>4, <1>7 DEF OneSelection
<1> QED BY <1>2, <1>3, <1>5, <1>8 DEF PathsInOrder

LEMMA UploadedKeeps ==
    ASSUME AttachInv, NEW s \in sending, Uploaded(s)
    PROVE  AttachInv'
<1> USE DEF AttachInv, AttachTypeOK
<1>1. /\ sending = {s} /\ s[1] \in Nat /\ s[2] \in Nat /\ s[3] \in Nat
      /\ s[1] = drops /\ drops' = drops /\ uploading
    BY DEF OneSelection, Uploaded
<1>2. CASE /\ sending' = sending \ {s} /\ uploading' = FALSE /\ UNCHANGED typed
    <2>1. sending' = {}
        BY <1>1, <1>2
    <2> QED BY <1>1, <1>2, <2>1, ZenonT(30) DEF OneSelection, PathsInOrder
<1>3. CASE /\ typed' = Append(typed, <<s[1], s[2]>>)
           /\ \/ /\ sending' = (sending \ {s}) \cup {<<s[1], s[2] + 1, s[3]>>}
                 /\ UNCHANGED uploading
              \/ sending' = sending \ {s} /\ uploading' = FALSE
    <2> DEFINE N == Len(typed)
    <2>1. <<s[1], s[2]>> \in Nat \X Nat
        BY <1>1
    <2>2. /\ typed' \in Seq(Nat \X Nat) /\ N \in Nat /\ DOMAIN typed = 1 .. N
          /\ DOMAIN typed' = 1 .. N + 1
          /\ \A j \in 1 .. N : typed'[j] = typed[j]
          /\ typed'[N + 1] = <<s[1], s[2]>>
        BY <1>3, <2>1, AppendIs
    <2>3. \A j \in 1 .. N : /\ typed[j][1] \in Nat /\ typed[j][2] \in Nat
                            /\ \/ typed[j][1] < s[1]
                               \/ (typed[j][1] = s[1] /\ typed[j][2] < s[2])
        <3>1. \A j \in 1 .. N : typed[j] \in Nat \X Nat
            BY ElementOfSeq
        <3> QED BY <2>2, <3>1 DEF OneSelection
    <2>4. typed'[N + 1][1] = s[1] /\ typed'[N + 1][2] = s[2]
        BY <2>2
    <2> HIDE DEF N
    <2>5. PathsInOrder'
        <3> SUFFICES ASSUME NEW i \in 1 .. N + 1, NEW j \in 1 .. N + 1, i < j
                     PROVE  \/ typed'[i][1] < typed'[j][1]
                            \/ typed'[i][1] = typed'[j][1]
                               /\ typed'[i][2] < typed'[j][2]
            BY <2>2 DEF PathsInOrder
        <3>1. i \in 1 .. N
            BY <2>2
        <3>2. CASE j \in 1 .. N
            <4>1. \/ typed[i][1] < typed[j][1]
                  \/ typed[i][1] = typed[j][1] /\ typed[i][2] < typed[j][2]
                BY <2>2, <3>1, <3>2 DEF PathsInOrder
            <4>2. typed'[i] = typed[i] /\ typed'[j] = typed[j]
                BY <2>2, <3>1, <3>2
            <4> QED BY <4>1, <4>2
        <3>3. CASE j = N + 1
            BY <2>2, <2>3, <2>4, <3>1, <3>3
        <3> QED BY <2>2, <3>2, <3>3
    <2>6. \A j \in DOMAIN typed' : 
              /\ typed'[j][1] <= drops
              /\ \/ typed'[j][1] < s[1]
                 \/ (typed'[j][1] = s[1] /\ typed'[j][2] < s[2] + 1)
        <3> SUFFICES ASSUME NEW j \in 1 .. N + 1
                     PROVE  /\ typed'[j][1] <= drops
                            /\ \/ typed'[j][1] < s[1]
                               \/ (typed'[j][1] = s[1]
                                   /\ typed'[j][2] < s[2] + 1)
            BY <2>2
        <3>1. CASE j \in 1 .. N
            <4>1. typed'[j] = typed[j]
                BY <2>2, <3>1
            <4>2. /\ typed[j][1] \in Nat /\ typed[j][2] \in Nat
                  /\ \/ typed[j][1] < s[1]
                     \/ (typed[j][1] = s[1] /\ typed[j][2] < s[2])
                BY <2>3, <3>1
            <4> QED BY <1>1, <4>1, <4>2
        <3>2. CASE j = N + 1
            BY <1>1, <2>4, <3>2
        <3> QED BY <2>2, <3>1, <3>2
    <2>7. /\ sending' \subseteq {<<s[1], s[2] + 1, s[3]>>}
          /\ uploading' \in BOOLEAN /\ (~uploading' => sending' = {})
        BY <1>1, <1>3
    <2>8. <<s[1], s[2] + 1, s[3]>> \in Nat \X Nat \X Nat
        BY <1>1
    <2>9. OneSelection'
        <3>1. \A t \in sending' : t[1] = s[1] /\ t[2] = s[2] + 1
            BY <2>7
        <3>2. \A t, u \in sending' : t = u
            BY <2>7
        <3>3. \A t \in sending' :
                  /\ t[1] = drops'
                  /\ \A j \in DOMAIN typed' :
                         \/ typed'[j][1] < t[1]
                         \/ (typed'[j][1] = t[1] /\ typed'[j][2] < t[2])
            BY <1>1, <2>6, <3>1
        <3>4. \A j \in DOMAIN typed' : typed'[j][1] <= drops'
            BY <1>1, <2>6
        <3> QED BY <2>7, <3>2, <3>3, <3>4 DEF OneSelection
    <2>10. sending' \subseteq Nat \X Nat \X Nat
        BY <2>7, <2>8
    <2>11. drops' \in 0 .. MaxDrops
        BY <1>1
    <2> QED BY <2>2, <2>5, <2>7, <2>9, <2>10, <2>11
<1> QED BY <1>2, <1>3 DEF Uploaded

-----------------------------------------------------------------------------
(* The console as a whole.                                                 *)

ConsoleInv == TermInv /\ AttachInv

LEMMA ConsoleBegins == ConsoleInit /\ PageInit => ConsoleInv
BY TermBegins, AttachBegins DEF ConsoleInv

LEMMA AttachStays == AttachInv /\ UNCHANGED attachVars => AttachInv'
BY DEF AttachInv, AttachTypeOK, OneSelection, PathsInOrder, attachVars

LEMMA ConsoleStep ==
    ASSUME ConsoleInv, ConsoleNext, UNCHANGED <<page, destroyed>>
    PROVE  ConsoleInv'
<1> USE DEF ConsoleInv
<1>1. CASE Connects
    BY <1>1, ConnectsKeeps, AttachStays DEF Connects
<1>2. CASE Resizes
    BY <1>2, ResizesKeeps, AttachStays DEF Resizes
<1>3. CASE Fits
    BY <1>3, FitsKeeps, AttachStays DEF Fits
<1>4. CASE Attaches
    BY <1>4, AttachesKeeps, TermStays DEF Attaches
<1>5. ASSUME NEW n \in 1 .. MaxSockets, Opens(n) \/ CloseArrives(n)
      PROVE  ConsoleInv'
    BY <1>5, SocketEvents, AttachStays DEF Opens, CloseArrives, ConsoleNext
<1>6. ASSUME NEW s \in sending, Uploaded(s) PROVE ConsoleInv'
    BY <1>6, UploadedKeeps, TermStays DEF Uploaded
<1> QED BY <1>1, <1>2, <1>3, <1>4, <1>5, <1>6 DEF ConsoleNext

LEMMA ConsoleLeft ==
    ASSUME ConsoleInv, LeavesConsole
    PROVE  ConsoleInv'
BY TermLeft, AttachStays DEF ConsoleInv, LeavesConsole

LEMMA ConsoleStays ==
    ASSUME ConsoleInv, UNCHANGED <<consoleVars, page>>,
           destroyed' = destroyed \/ page # "console"
    PROVE  ConsoleInv'
BY TermStays, AttachStays DEF ConsoleInv, consoleVars

LEMMA ConsoleTruth == ConsoleInv => ConsoleTypeOK /\ ConsoleIsTrue
<1> SUFFICES ASSUME ConsoleInv PROVE ConsoleTypeOK /\ ConsoleIsTrue
    OBVIOUS
<1> USE DEF ConsoleInv, TermInv, AttachInv, TermTypeOK, AttachTypeOK
<1>1. ConsoleTypeOK
    BY DEF ConsoleTypeOK, SocketStates
<1>2. NoOrphanSocket
    BY DEF NoOrphanSocket, SocketsAreOne, Live, Left
<1>3. PaneFits
    BY DEF PaneFits, SizesAgree, SocketsAreOne
<1> QED BY <1>1, <1>2, <1>3 DEF ConsoleIsTrue

-----------------------------------------------------------------------------
(* The list of instances: in which order its answers were read.            *)

(* A list that was read before another: no turn went back, and none that   *)
(* had ended by the second had not by the first.                           *)
Before(a, b) ==
    \A i \in Instances :
        /\ a[i].turn <= b[i].turn
        /\ (a[i].turn = b[i].turn /\ b[i].is = "waiting") => a[i].is = "waiting"

(* As long as no list has overtaken another, the one that is known, those  *)
(* on their way and the server follow one another, and no turn was         *)
(* announced that is later than what is known.                             *)
InOrder ==
    /\ Before(instances, server)
    /\ \A k \in DOMAIN polls :
           Before(instances, polls[k]) /\ Before(polls[k], server)
    /\ \A j, k \in DOMAIN polls : j <= k => Before(polls[j], polls[k])
    /\ \A a \in alerts : a[2] <= instances[a[1]].turn
    /\ ~repeated

LEMMA BeforeOrders ==
    ASSUME NEW a \in [Instances -> Row], NEW b \in [Instances -> Row],
           NEW c \in [Instances -> Row], Before(a, b), Before(b, c)
    PROVE  Before(a, c)
BY DEF Before, Row

LEMMA BeforeItself ==
    ASSUME NEW a \in [Instances -> Row]
    PROVE  Before(a, a)
BY DEF Before, Row

(* A change on the server begins a turn before it ends one.                *)
LEMMA ServerMoves ==
    ASSUME ListTypeOK, NEW i \in Instances, NEW s \in States, NEW t \in Nat,
           server' = [server EXCEPT ![i] = [is |-> s, turn |-> t]],
           server[i].turn <= t,
           s = "waiting" => server[i].is = "waiting" \/ server[i].turn # t
    PROVE  server' \in [Instances -> Row] /\ Before(server, server')
<1>1. server \in [Instances -> Row]
    BY DEF ListTypeOK
<1>2. [is |-> s, turn |-> t] \in Row
    BY DEF Row
<1>3. server' \in [Instances -> Row]
    BY <1>1, <1>2
<1>4. server'[i].is = s /\ server'[i].turn = t
    BY <1>1
<1>5. \A j \in Instances \ {i} : server'[j] = server[j]
    BY <1>1
<1>6. \A j \in Instances : server[j].turn \in Nat
    BY <1>1 DEF Row
<1>7. Before(server, server')
    <2> SUFFICES ASSUME NEW j \in Instances
                 PROVE  /\ server[j].turn <= server'[j].turn
                        /\ (server[j].turn = server'[j].turn
                            /\ server'[j].is = "waiting") =>
                               server[j].is = "waiting"
        BY DEF Before
    <2>1. CASE j = i
        BY <1>4, <1>6, <2>1
    <2>2. CASE j # i
        BY <1>5, <1>6, <2>2
    <2> QED BY <2>1, <2>2
<1> QED BY <1>3, <1>7

LEMMA ServerChangesBefore ==
    ASSUME ListTypeOK, NEW i \in Instances,
           Powered(i) \/ Deleted(i) \/ Created(i) \/ ServerChanges(i)
    PROVE  server' \in [Instances -> Row] /\ Before(server, server')
<1>1. server \in [Instances -> Row] /\ server[i] \in Row
    BY DEF ListTypeOK
<1>2. server[i].turn \in Nat /\ server[i].is \in States
    BY <1>1 DEF Row
<1>3. \A s \in States : [server EXCEPT ![i].is = s]
             = [server EXCEPT ![i] = [is |-> s, turn |-> server[i].turn]]
    <2>1. \A r \in Row, s \in States :
              [r EXCEPT !.is = s] = [is |-> s, turn |-> r.turn]
        BY DEF Row
    <2> QED BY <1>1, <2>1
<1>4. ASSUME NEW s \in States, server' = [server EXCEPT ![i].is = s],
             s = "waiting" => server[i].is = "waiting"
      PROVE  server' \in [Instances -> Row] /\ Before(server, server')
    <2>1. server' = [server EXCEPT ![i] = [is |-> s, turn |-> server[i].turn]]
        BY <1>3, <1>4
    <2>2. server[i].turn <= server[i].turn
        BY <1>2
    <2> QED BY <1>2, <1>4, <2>1, <2>2, ServerMoves
<1>5. CASE Powered(i)
    <2>1. PICK s \in {server[i].is} \cup (IF server[i].is = "exited"
                   THEN {"ready"}
                   ELSE IF Session(server[i].is) THEN {"exited"} ELSE {}) :
              server' = [server EXCEPT ![i].is = s]
        BY <1>5 DEF Powered
    <2>2. s \in States /\ (s = "waiting" => server[i].is = "waiting")
        BY <1>2, <2>1 DEF States
    <2> QED BY <1>4, <2>1, <2>2
<1>6. CASE Deleted(i)
    <2>1. PICK s \in {"gone", server[i].is} :
              server' = [server EXCEPT ![i].is = s]
        BY <1>6 DEF Deleted
    <2>2. s \in States /\ (s = "waiting" => server[i].is = "waiting")
        BY <1>2, <2>1 DEF States
    <2> QED BY <1>4, <2>1, <2>2
<1>7. CASE Created(i)
    <2>1. CASE server' = server
        BY <1>1, <2>1, BeforeItself
    <2>2. CASE server' = [server EXCEPT ![i].is = "ready"]
        <3>1. "ready" \in States
            BY DEF States
        <3> QED BY <1>4, <2>2, <3>1
    <2> QED BY <1>7, <2>1, <2>2 DEF Created
<1>8. CASE ServerChanges(i)
    <2>1. PICK s \in States \ {server[i].is} :
              server' = [server EXCEPT ![i] =
                  [is |-> s, turn |-> IF s = "waiting" THEN @.turn + 1
                                      ELSE @.turn]]
        BY <1>8 DEF ServerChanges
    <2> DEFINE t == IF s = "waiting" THEN server[i].turn + 1
                    ELSE server[i].turn
    <2>2. t \in Nat /\ server[i].turn <= t
        BY <1>2
    <2>3. s = "waiting" => server[i].turn # t
        BY <1>2
    <2>4. server' = [server EXCEPT ![i] = [is |-> s, turn |-> t]]
        BY <2>1
    <2> HIDE DEF t
    <2> QED BY <2>2, <2>3, <2>4, ServerMoves
<1> QED BY <1>5, <1>6, <1>7, <1>8

(* What the server has become is read, or nothing is.                      *)
LEMMA ReadInOrder ==
    ASSUME ListTypeOK, InOrder, server' \in [Instances -> Row],
           Before(server, server'), polls' \in {polls, Append(polls, server')},
           UNCHANGED <<instances, alerts, repeated>>
    PROVE  InOrder'
<1> USE DEF ListTypeOK, InOrder
<1> DEFINE N == Len(polls)
<1>1. /\ N \in Nat /\ DOMAIN polls = 1 .. N
      /\ \A k \in 1 .. N : polls[k] \in [Instances -> Row]
    BY LenProperties, ElementOfSeq
<1>2. Before(instances, server')
    BY BeforeOrders
<1>3. \A k \in 1 .. N : Before(instances, polls[k]) /\ Before(polls[k], server')
    BY <1>1, BeforeOrders
<1>4. CASE polls' = polls
    BY <1>1, <1>2, <1>3, <1>4
<1>5. CASE polls' = Append(polls, server')
    <2>1. /\ DOMAIN polls' = 1 .. N + 1 /\ polls'[N + 1] = server'
          /\ \A k \in 1 .. N : polls'[k] = polls[k]
        BY <1>5, AppendIs
    <2>2. \A k \in 1 .. N + 1 : k \in 1 .. N \/ k = N + 1
        BY <1>1
    <2>3. Before(server', server')
        BY BeforeItself
    <2>4. \A k \in DOMAIN polls' :
              Before(instances', polls'[k]) /\ Before(polls'[k], server')
        BY <1>2, <1>3, <2>1, <2>2, <2>3
    <2>5. ASSUME NEW j \in DOMAIN polls', NEW k \in DOMAIN polls', j <= k
          PROVE  Before(polls'[j], polls'[k])
        <3>1. CASE k = N + 1
            BY <2>1, <2>4, <3>1
        <3>2. CASE k \in 1 .. N
            <4>1. j \in 1 .. N
                BY <1>1, <2>1, <2>5, <3>2
            <4> QED BY <1>1, <2>1, <2>5, <3>2, <4>1
        <3> QED BY <2>1, <2>2, <3>1, <3>2
    <2> QED BY <1>2, <2>4, <2>5
<1> QED BY <1>4, <1>5

(* The rest keep their order when one of them has been answered.           *)
LEMMA RemovedInOrder ==
    ASSUME ListTypeOK, InOrder, NEW k \in DOMAIN polls,
           polls' = RemoveAt(polls, k)
    PROVE  /\ \A j \in DOMAIN polls' :
                  \E m \in DOMAIN polls : polls'[j] = polls[m] /\ j <= m
           /\ \A i, j \in DOMAIN polls' :
                  i <= j => Before(polls'[i], polls'[j])
<1> USE DEF ListTypeOK, InOrder
<1> DEFINE N == Len(polls)
<1>1. N \in Nat /\ DOMAIN polls = 1 .. N /\ k \in 1 .. N
    BY LenProperties
<1>2. /\ DOMAIN polls' = 1 .. N - 1
      /\ \A j \in 1 .. N - 1 :
             polls'[j] = IF j < k THEN polls[j] ELSE polls[j + 1]
    BY RemoveAtIs
<1> HIDE DEF N
<1> DEFINE from(j) == IF j < k THEN j ELSE j + 1
<1>3. \A j \in 1 .. N - 1 :
          from(j) \in 1 .. N /\ polls'[j] = polls[from(j)] /\ j <= from(j)
    BY <1>1, <1>2
<1>4. \A i, j \in 1 .. N - 1 : i <= j => from(i) <= from(j)
    BY <1>1
<1> HIDE DEF from
<1> QED BY <1>1, <1>2, <1>3, <1>4, SMTT(40)

(* The oldest list is the next to come, and what it tells of is news.      *)
LEMMA HeardInOrder ==
    ASSUME ListTypeOK, overtaken \/ InOrder, NEW k \in DOMAIN polls, Hears(k)
    PROVE  overtaken' \/ InOrder'
<1> USE DEF ListTypeOK
<1> SUFFICES ASSUME ~overtaken' PROVE InOrder'
    OBVIOUS
<1>1. InOrder /\ k = 1
    <2>1. ~overtaken /\ ~(k > 1)
        BY DEF Hears
    <2>2. k \in Nat /\ k >= 1
        BY LenProperties
    <2> QED BY <2>1, <2>2
<1> DEFINE news == {<<i, polls[1][i].turn>> : i \in Announced(polls[1])}
<1>2. /\ polls' = RemoveAt(polls, 1) /\ instances' = polls[1]
      /\ server' = server
      /\ alerts' = alerts \cup news
      /\ repeated' = (repeated \/ news \cap alerts # {})
    BY <1>1 DEF Hears
<1>3. 1 \in DOMAIN polls /\ polls[1] \in [Instances -> Row]
    BY <1>1, LenProperties, ElementOfSeq
<1>4. /\ Before(instances, polls[1]) /\ Before(polls[1], server)
      /\ \A m \in DOMAIN polls : Before(polls[1], polls[m])
    <2>1. \A m \in DOMAIN polls : 1 <= m
        BY LenProperties
    <2> QED BY <1>1, <1>3, <2>1 DEF InOrder
<1>5. \A j \in DOMAIN polls' :
          Before(instances', polls'[j]) /\ Before(polls'[j], server')
    BY <1>1, <1>2, <1>3, <1>4, RemovedInOrder DEF InOrder
<1>6. \A i, j \in DOMAIN polls' : i <= j => Before(polls'[i], polls'[j])
    BY <1>1, <1>2, <1>3, RemovedInOrder
<1>7. \A i \in Instances : /\ instances[i].turn \in Nat
                           /\ polls[1][i].turn \in Nat
                           /\ instances[i].turn <= polls[1][i].turn
    BY <1>3, <1>4 DEF Before, Row
<1>8. \A a \in alerts' : a[2] <= instances'[a[1]].turn
    <2>1. ASSUME NEW a \in alerts PROVE a[2] <= polls[1][a[1]].turn
        <3>1. a[1] \in Instances /\ a[2] \in Nat
              /\ a[2] <= instances[a[1]].turn
            BY <1>1 DEF InOrder
        <3> QED BY <1>7, <3>1
    <2>2. ASSUME NEW a \in news PROVE a[2] <= polls[1][a[1]].turn
        <3>1. PICK i \in Announced(polls[1]) : a = <<i, polls[1][i].turn>>
            OBVIOUS
        <3>2. i \in Instances /\ a[1] = i /\ a[2] = polls[1][i].turn
            BY <3>1 DEF Announced
        <3> QED BY <1>7, <3>2
    <2> QED BY <1>2, <2>1, <2>2
<1>9. ~repeated'
    <2>1. ASSUME NEW i \in Announced(polls[1]),
                 <<i, polls[1][i].turn>> \in alerts
          PROVE  FALSE
        <3>1. /\ i \in Instances /\ polls[1][i].is = "waiting"
              /\ instances[i].is # "waiting"
            BY DEF Announced
        <3>2. polls[1][i].turn <= instances[i].turn
            BY <1>1, <2>1 DEF InOrder
        <3>3. instances[i].turn = polls[1][i].turn
            BY <1>7, <3>1, <3>2
        <3> QED BY <1>4, <3>1, <3>3 DEF Before
    <2>2. ~repeated /\ news \cap alerts = {}
        BY <1>1, <2>1 DEF InOrder
    <2> QED BY <1>2, <2>2
<1>10. Before(instances', server')
    BY <1>2, <1>4
<1> HIDE DEF news
<1> QED BY <1>5, <1>6, <1>8, <1>9, <1>10 DEF InOrder

LEMMA ListOrderStep ==
    ASSUME ListTypeOK, overtaken \/ InOrder, ListNext
    PROVE  overtaken' \/ InOrder'
<1> USE DEF history, pollState
<1>1. ASSUME UNCHANGED <<instances, alerts, repeated, overtaken>>,
             polls' \in {polls, Append(polls, server')},
             server' \in [Instances -> Row], Before(server, server')
      PROVE  overtaken' \/ InOrder'
    BY <1>1, ReadInOrder
<1>2. ASSUME UNCHANGED <<server, instances, alerts, repeated, overtaken>>,
             polls' \in {polls, Append(polls, server')}
      PROVE  overtaken' \/ InOrder'
    <2>1. server' \in [Instances -> Row] /\ Before(server, server')
        BY <1>2, BeforeItself DEF ListTypeOK
    <2> QED BY <1>1, <1>2, <2>1
<1>3. CASE Polls
    BY <1>2, <1>3 DEF Polls, Refreshes
<1>4. CASE ListHears
    BY <1>4, HeardInOrder DEF ListHears
<1>5. ASSUME NEW k \in DOMAIN polls, PollFails(k)
      PROVE  overtaken' \/ InOrder'
    <2>1. /\ polls' = RemoveAt(polls, k)
          /\ UNCHANGED <<server, instances, alerts, repeated, overtaken>>
        BY <1>5 DEF PollFails
    <2>2. CASE overtaken
        BY <2>1, <2>2
    <2>3. CASE InOrder
        <3>1. /\ \A j \in DOMAIN polls' :
                     \E m \in DOMAIN polls : polls'[j] = polls[m] /\ j <= m
              /\ \A i, j \in DOMAIN polls' :
                     i <= j => Before(polls'[i], polls'[j])
            BY <2>1, <2>3, RemovedInOrder
        <3> QED BY <2>1, <2>3, <3>1 DEF InOrder
    <2> QED BY <2>2, <2>3
<1>6. CASE ListAnswers
    <2>1. CASE ProjectsLoad
        BY <1>2, <2>1 DEF ProjectsLoad
    <2>2. ASSUME NEW i \in Instances, Switched(i)
          PROVE  overtaken' \/ InOrder'
        BY <1>2, <2>2 DEF Switched, Refreshes
    <2>3. ASSUME NEW i \in Instances, Powered(i) \/ Deleted(i) \/ Created(i)
          PROVE  overtaken' \/ InOrder'
        <3>1. server' \in [Instances -> Row] /\ Before(server, server')
            BY <2>3, ServerChangesBefore
        <3>2. UNCHANGED <<instances, alerts, repeated, overtaken>>
              /\ polls' \in {polls, Append(polls, server')}
            BY <2>3 DEF Powered, Deleted, Created, Refreshes
        <3> QED BY <1>1, <3>1, <3>2
    <2> QED BY <1>6, <2>1, <2>2, <2>3 DEF ListAnswers
<1>7. CASE ListUses
    <2>1. CASE Blurs
        BY <1>2, <2>1 DEF Blurs
    <2>2. ASSUME NEW i \in Instances,
                 \/ Focuses(i) \/ Applies(i) \/ PressesPower(i)
                 \/ ClicksDelete(i) \/ Creates(i)
          PROVE  overtaken' \/ InOrder'
        BY <1>2, <2>2
        DEF Focuses, Applies, PressesPower, ClicksDelete, Creates
    <2>3. ASSUME NEW i \in Instances, ServerChanges(i)
          PROVE  overtaken' \/ InOrder'
        <3>1. server' \in [Instances -> Row] /\ Before(server, server')
            BY <2>3, ServerChangesBefore
        <3> QED BY <1>1, <2>3, <3>1 DEF ServerChanges
    <2> QED BY <1>7, <2>1, <2>2, <2>3 DEF ListUses
<1> QED BY <1>3, <1>4, <1>5, <1>6, <1>7 DEF ListNext

-----------------------------------------------------------------------------
(* The list of instances: what its table is used for.                      *)

(* A row with a switch under way that nothing rebuilt cannot start one.    *)
SwitchHeld ==
    \A i \in Instances : (out[<<"patch", i>>] > 0 /\ i \notin forced) =>
        /\ out[<<"patch", i>>] = 1 /\ i \in switching
        /\ i \in rows.disabled /\ focus # i

(* The question that is open is the one the table shows.                   *)
AskShown == confirming # None => rows.confirm = confirming

LEMMA OutMoves ==
    ASSUME out \in [Kinds \X Instances -> Nat],
           NEW kind \in Kinds, NEW i \in Instances,
           Sends(kind, i) \/ Lands(kind, i)
    PROVE  /\ out' \in [Kinds \X Instances -> Nat]
           /\ Sends(kind, i) => out'[<<kind, i>>] = out[<<kind, i>>] + 1
           /\ Lands(kind, i) => out[<<kind, i>>] > 0
                                /\ out'[<<kind, i>>] = out[<<kind, i>>] - 1
           /\ \A l \in Kinds, j \in Instances :
                  (l # kind \/ j # i) => out'[<<l, j>>] = out[<<l, j>>]
<1>1. <<kind, i>> \in Kinds \X Instances /\ out[<<kind, i>>] \in Nat
    OBVIOUS
<1>2. \A l \in Kinds, j \in Instances :
          <<l, j>> \in Kinds \X Instances
          /\ (l # kind \/ j # i => <<l, j>> # <<kind, i>>)
    OBVIOUS
<1>3. CASE Sends(kind, i)
    <2>1. out' = [out EXCEPT ![<<kind, i>>] = out[<<kind, i>>] + 1]
        BY <1>3 DEF Sends
    <2>2. /\ out[<<kind, i>>] + 1 \in Nat
          /\ out[<<kind, i>>] + 1 # out[<<kind, i>>] - 1
        BY <1>1
    <2>3. ~Lands(kind, i)
        <3>1. out'[<<kind, i>>] = out[<<kind, i>>] + 1
            BY <1>1, <2>1
        <3>2. Lands(kind, i) => out'[<<kind, i>>] = out[<<kind, i>>] - 1
            BY <1>1 DEF Lands
        <3> QED BY <2>2, <3>1, <3>2
    <2> QED BY <1>1, <1>2, <2>1, <2>2, <2>3
<1>4. CASE Lands(kind, i)
    <2>1. out' = [out EXCEPT ![<<kind, i>>] = out[<<kind, i>>] - 1]
          /\ out[<<kind, i>>] > 0
        BY <1>4 DEF Lands
    <2>2. /\ out[<<kind, i>>] - 1 \in Nat
          /\ out[<<kind, i>>] + 1 # out[<<kind, i>>] - 1
        BY <1>1, <2>1
    <2>3. out'[<<kind, i>>] = out[<<kind, i>>] - 1
        BY <1>1, <2>1
    <2>4. ~Sends(kind, i)
        <3>1. Sends(kind, i) => out'[<<kind, i>>] = out[<<kind, i>>] + 1
            BY <1>1 DEF Sends
        <3> QED BY <2>2, <2>3, <3>1
    <2> QED BY <1>1, <1>2, <2>1, <2>2, <2>3, <2>4
<1> QED BY <1>3, <1>4

(* The table is rebuilt under every switch that is under way, or under     *)
(* none; or a switch keeps what holds its row.                             *)
LEMMA TableKept ==
    ASSUME SwitchHeld, ListTypeOK,
           \A i \in Instances : out'[<<"patch", i>>] = out[<<"patch", i>>],
           \/ Forces
           \/ /\ forced' = forced
              /\ \/ switching = {}
                 \/ /\ rows'.disabled = rows.disabled
                    /\ switching' = switching /\ focus' \in {focus, None}
    PROVE  SwitchHeld'
<1>1. \A i \in Instances : i # None
    BY ListAssumption
<1>2. CASE Forces
    BY <1>2 DEF Forces, SwitchHeld
<1>3. CASE forced' = forced /\ switching = {}
    BY <1>3 DEF SwitchHeld
<1>4. CASE /\ forced' = forced /\ rows'.disabled = rows.disabled
           /\ switching' = switching /\ focus' \in {focus, None}
    BY <1>1, <1>4 DEF SwitchHeld
<1> QED BY <1>2, <1>3, <1>4

(* The dropdowns themselves: one is opened only where no switch is under   *)
(* way, and is disabled as long as its own is.                             *)
LEMMA DropdownKept ==
    ASSUME SwitchHeld, ListTypeOK, NEW i \in Instances,
           Focuses(i) \/ Applies(i) \/ Switched(i)
    PROVE  SwitchHeld'
<1> USE DEF ListTypeOK
<1>1. "patch" \in Kinds /\ \A j \in Instances : out[<<"patch", j>>] \in Nat
    BY DEF Kinds
<1>2. i # None
    BY ListAssumption
<1>3. CASE Focuses(i)
    BY <1>3 DEF Focuses, SwitchHeld
<1>4. CASE Applies(i)
    <2>1. /\ focus = i /\ focus' = None /\ switching' = switching \cup {i}
          /\ rows'.disabled = rows.disabled \cup {i} /\ forced' = forced
        BY <1>4 DEF Applies
    <2>2. /\ out'[<<"patch", i>>] = out[<<"patch", i>>] + 1
          /\ \A j \in Instances :
                 j # i => out'[<<"patch", j>>] = out[<<"patch", j>>]
        BY <1>1, <1>4, OutMoves, ZenonT(40) DEF Applies
    <2>3. i \notin forced => out[<<"patch", i>>] = 0
        BY <1>1, <2>1 DEF SwitchHeld
    <2> SUFFICES ASSUME NEW j \in Instances, out'[<<"patch", j>>] > 0,
                        j \notin forced'
                 PROVE  /\ out'[<<"patch", j>>] = 1 /\ j \in switching'
                        /\ j \in rows'.disabled /\ focus' # j
        BY DEF SwitchHeld
    <2>4. CASE j = i
        BY <1>2, <2>1, <2>2, <2>3, <2>4
    <2>5. CASE j # i
        <3>1. out[<<"patch", j>>] > 0 /\ j \notin forced
            BY <2>1, <2>2, <2>5
        <3>2. j # None
            BY ListAssumption
        <3> QED BY <2>1, <2>2, <2>5, <3>1, <3>2 DEF SwitchHeld
    <2> QED BY <2>4, <2>5
<1>5. CASE Switched(i)
    <2>1. /\ switching' = switching \ {i} /\ UNCHANGED <<rows, focus>>
          /\ out[<<"patch", i>>] = 1 => forced' = forced \ {i}
          /\ out[<<"patch", i>>] # 1 => forced' = forced
        BY <1>5 DEF Switched, Landed
    <2>2. /\ out[<<"patch", i>>] > 0
          /\ out'[<<"patch", i>>] = out[<<"patch", i>>] - 1
          /\ \A j \in Instances :
                 j # i => out'[<<"patch", j>>] = out[<<"patch", j>>]
        BY <1>1, <1>5, OutMoves DEF Switched
    <2> SUFFICES ASSUME NEW j \in Instances, out'[<<"patch", j>>] > 0,
                        j \notin forced'
                 PROVE  /\ out'[<<"patch", j>>] = 1 /\ j \in switching'
                        /\ j \in rows'.disabled /\ focus' # j
        BY DEF SwitchHeld
    <2>3. CASE j = i
        <3>1. out[<<"patch", i>>] > 1
            BY <1>1, <2>2, <2>3
        <3>2. i \notin forced
            BY <2>1, <2>3, <3>1
        <3>3. out[<<"patch", i>>] = 1
            BY <2>2, <3>2 DEF SwitchHeld
        <3> QED BY <3>1, <3>3
    <2>4. CASE j # i
        <3>1. out[<<"patch", j>>] > 0 /\ j \notin forced
            BY <2>1, <2>2, <2>4
        <3> QED BY <2>1, <2>2, <2>4, <3>1 DEF SwitchHeld
    <2> QED BY <2>3, <2>4
<1> QED BY <1>3, <1>4, <1>5

LEMMA ListHeldStep ==
    ASSUME ListTypeOK, SwitchHeld, ListNext
    PROVE  SwitchHeld'
<1> USE DEF ListTypeOK
<1>1. ASSUME NEW i \in Instances, NEW kind \in {"power", "delete", "create"},
             Sends(kind, i) \/ Lands(kind, i)
      PROVE  \A j \in Instances : out'[<<"patch", j>>] = out[<<"patch", j>>]
    BY <1>1, OutMoves, ZenonT(30) DEF Kinds
<1>2. CASE Polls
    BY <1>2, TableKept DEF Polls
<1>3. CASE ListHears
    <2>1. PICK k \in DOMAIN polls : Hears(k)
        BY <1>3 DEF ListHears
    <2>2. UNCHANGED <<out, forced, switching>>
        BY <2>1 DEF Hears
    <2>3. switching = {} \/ UNCHANGED <<rows, focus>>
        BY <2>1 DEF Hears, Busy
    <2> QED BY <2>2, <2>3, TableKept
<1>4. ASSUME NEW k \in DOMAIN polls, PollFails(k) PROVE SwitchHeld'
    BY <1>4, TableKept DEF PollFails
<1>5. CASE ListAnswers
    <2>1. CASE ProjectsLoad
        BY <2>1, TableKept DEF ProjectsLoad
    <2>2. ASSUME NEW i \in Instances, Switched(i) PROVE SwitchHeld'
        BY <2>2, DropdownKept
    <2>3. ASSUME NEW i \in Instances, Powered(i) \/ Deleted(i) \/ Created(i)
          PROVE  SwitchHeld'
        <3>1. \E kind \in {"power", "delete", "create"} : Lands(kind, i)
            BY <2>3 DEF Powered, Deleted, Created
        <3>2. \A j \in Instances : out'[<<"patch", j>>] = out[<<"patch", j>>]
            BY <1>1, <3>1
        <3>3. UNCHANGED <<forced, rows, switching, focus>>
            BY <2>3 DEF Powered, Deleted, Created
        <3> QED BY <3>2, <3>3, TableKept
    <2> QED BY <1>5, <2>1, <2>2, <2>3 DEF ListAnswers
<1>6. CASE ListUses
    <2>1. CASE Blurs
        <3>1. UNCHANGED <<out, forced, switching>>
            BY <2>1 DEF Blurs
        <3>2. \/ switching = {}
              \/ rows' = rows /\ focus' = None
            BY <2>1 DEF Blurs
        <3> QED BY <3>1, <3>2, TableKept
    <2>2. ASSUME NEW i \in Instances, Focuses(i) \/ Applies(i)
          PROVE  SwitchHeld'
        BY <2>2, DropdownKept
    <2>3. ASSUME NEW i \in Instances, PressesPower(i) PROVE SwitchHeld'
        <3>1. \A j \in Instances : out'[<<"patch", j>>] = out[<<"patch", j>>]
            BY <1>1, <2>3 DEF PressesPower
        <3>2. UNCHANGED <<forced, switching, focus>>
              /\ rows'.disabled = rows.disabled
            BY <2>3 DEF PressesPower
        <3> QED BY <3>1, <3>2, TableKept
    <2>4. ASSUME NEW i \in Instances, ClicksDelete(i) PROVE SwitchHeld'
        <3>1. CASE AsksDelete(i)
            BY <3>1, TableKept DEF AsksDelete
        <3>2. CASE Sends("delete", i) /\ UNCHANGED <<rows, focus, forced>>
            <4>1. \A j \in Instances :
                      out'[<<"patch", j>>] = out[<<"patch", j>>]
                BY <1>1, <3>2
            <4> QED BY <2>4, <3>2, <4>1, TableKept DEF ClicksDelete
        <3> QED BY <2>4, <3>1, <3>2 DEF ClicksDelete
    <2>5. ASSUME NEW i \in Instances, Creates(i) PROVE SwitchHeld'
        <3>1. \A j \in Instances : out'[<<"patch", j>>] = out[<<"patch", j>>]
            BY <1>1, <2>5 DEF Creates
        <3> QED BY <2>5, <3>1, TableKept DEF Creates
    <2>6. ASSUME NEW i \in Instances, ServerChanges(i) PROVE SwitchHeld'
        BY <2>6, TableKept DEF ServerChanges
    <2> QED BY <1>6, <2>1, <2>2, <2>3, <2>4, <2>5, <2>6 DEF ListUses
<1> QED BY <1>2, <1>3, <1>4, <1>5, <1>6 DEF ListNext

(* The actions that leave the question and the table's word on it alone,   *)
(* those that repaint the table, and the answer that ends it.              *)
LEMMA AskStep ==
    ASSUME ListTypeOK, AskShown, ListNext
    PROVE  AskShown'
<1> USE DEF AskShown
<1>1. CASE confirming' = confirming /\ rows'.confirm = rows.confirm
    BY <1>1
<1>2. CASE \E list, asks : Rebuilds(list, asks) /\ confirming' = asks
    BY <1>2 DEF Rebuilds, Painted
<1>3. CASE confirming' = None
    BY <1>3
<1>4. CASE ListHears
    <2>1. PICK k \in DOMAIN polls : Hears(k)
        BY <1>4 DEF ListHears
    <2> QED BY <1>1, <1>2, <2>1 DEF Hears
<1>5. CASE ProjectsLoad
    BY <1>2, <1>5 DEF ProjectsLoad
<1>6. CASE Blurs
    BY <1>1, <1>2, <1>6 DEF Blurs
<1>7. ASSUME NEW i \in Instances, Applies(i) \/ PressesPower(i)
      PROVE  AskShown'
    <2>1. rows'.confirm = rows.confirm /\ confirming' = confirming
        BY <1>7 DEF Applies, PressesPower, ListTypeOK
    <2> QED BY <1>1, <2>1
<1>8. ASSUME NEW i \in Instances, ClicksDelete(i) PROVE AskShown'
    BY <1>1, <1>2, <1>8 DEF ClicksDelete, AsksDelete
<1>9. ASSUME NEW i \in Instances, Deleted(i) PROVE AskShown'
    BY <1>3, <1>9 DEF Deleted
<1>10. CASE \/ Polls \/ \E k \in DOMAIN polls : PollFails(k)
            \/ \E i \in Instances :
                   \/ Focuses(i) \/ Switched(i) \/ Powered(i) \/ Created(i)
                   \/ Creates(i) \/ ServerChanges(i)
    BY <1>1, <1>10
    DEF Polls, PollFails, Focuses, Switched, Powered, Created, Creates,
        ServerChanges
<1> QED BY <1>4, <1>5, <1>6, <1>7, <1>8, <1>9, <1>10
        DEF ListNext, ListAnswers, ListUses

(* Who deletes was asked: only the button of a row whose question is open  *)
(* sends a DELETE.                                                         *)
LEMMA DeleteStep ==
    ASSUME ListTypeOK, AskShown, ListNext, NEW i \in Instances,
           out'[<<"delete", i>>] > out[<<"delete", i>>]
    PROVE  rows.confirm = i
<1>1. /\ \A j \in Instances : out[<<"delete", j>>] \in Nat
      /\ out \in [Kinds \X Instances -> Nat]
    BY DEF ListTypeOK, Kinds
<1>2. ASSUME out' = out PROVE FALSE
    BY <1>1, <1>2
<1>3. ASSUME NEW j \in Instances, NEW kind \in {"patch", "power", "create"},
             Sends(kind, j) \/ Lands(kind, j)
      PROVE  FALSE
    <2>1. out'[<<"delete", i>>] = out[<<"delete", i>>]
        BY <1>1, <1>3, OutMoves DEF Kinds
    <2> QED BY <1>1, <2>1
<1>4. ASSUME NEW j \in Instances, Lands("delete", j) PROVE FALSE
    <2>1. CASE j = i
        <3>1. out'[<<"delete", i>>] = out[<<"delete", i>>] - 1
            BY <1>1, <1>4, <2>1, OutMoves DEF Kinds
        <3> QED BY <1>1, <3>1
    <2>2. CASE j # i
        <3>1. out'[<<"delete", i>>] = out[<<"delete", i>>]
            BY <1>1, <1>4, <2>2, OutMoves DEF Kinds
        <3> QED BY <1>1, <3>1
    <2> QED BY <2>1, <2>2
<1>5. PICK j \in Instances : ClicksDelete(j)
    <2>1. CASE Polls \/ ListHears \/ \E k \in DOMAIN polls : PollFails(k)
        BY <1>2, <2>1 DEF Polls, ListHears, Hears, PollFails
    <2>2. CASE ListAnswers
        <3>1. CASE ProjectsLoad
            BY <1>2, <3>1 DEF ProjectsLoad
        <3>2. ASSUME NEW k \in Instances,
                     Switched(k) \/ Powered(k) \/ Deleted(k) \/ Created(k)
              PROVE  FALSE
            <4>1. \E kind \in {"patch", "power", "create", "delete"} :
                      Lands(kind, k)
                BY <3>2 DEF Switched, Powered, Deleted, Created
            <4> QED BY <1>3, <1>4, <4>1
        <3> QED BY <2>2, <3>1, <3>2 DEF ListAnswers
    <2>3. CASE ListUses
        <3>1. CASE Blurs
            BY <1>2, <3>1 DEF Blurs
        <3>2. ASSUME NEW k \in Instances, Focuses(k) \/ ServerChanges(k)
              PROVE  FALSE
            BY <1>2, <3>2 DEF Focuses, ServerChanges
        <3>3. ASSUME NEW k \in Instances,
                     Applies(k) \/ PressesPower(k) \/ Creates(k)
              PROVE  FALSE
            <4>1. \E kind \in {"patch", "power", "create"} : Sends(kind, k)
                BY <3>3 DEF Applies, PressesPower, Creates
            <4> QED BY <1>3, <4>1
        <3> QED BY <2>3, <3>1, <3>2, <3>3 DEF ListUses
    <2> QED BY <2>1, <2>2, <2>3 DEF ListNext
<1>6. confirming = j /\ Sends("delete", j)
    BY <1>2, <1>5 DEF ClicksDelete, AsksDelete
<1>7. j = i
    <2>1. j # i => out'[<<"delete", i>>] = out[<<"delete", i>>]
        BY <1>1, <1>6, OutMoves DEF Kinds
    <2> QED BY <1>1, <2>1
<1> QED BY <1>6, <1>7, ListAssumption DEF AskShown

Table == [list : [Instances -> Row], confirm : Instances \cup {None},
          disabled : SUBSET Instances, pressed : SUBSET Instances]

(* The table as it is repainted, and with a row disabled or a button.      *)
LEMMA RowsType ==
    ASSUME rows \in Table
    PROVE  /\ \A list \in [Instances -> Row], asks \in Instances \cup {None} :
                  Rebuilds(list, asks) => focus' = None /\ rows' \in Table
           /\ \A i \in Instances :
                  /\ [rows EXCEPT !.disabled = @ \cup {i}] \in Table
                  /\ [rows EXCEPT !.pressed = @ \cup {i}] \in Table
<1>1. ASSUME NEW list \in [Instances -> Row],
             NEW asks \in Instances \cup {None}
      PROVE  Painted(list, asks) \in Table
    BY DEF Painted, Table
<1>2. ASSUME NEW i \in Instances
      PROVE  [rows EXCEPT !.disabled = @ \cup {i}] \in Table
    BY DEF Table
<1>3. ASSUME NEW i \in Instances
      PROVE  [rows EXCEPT !.pressed = @ \cup {i}] \in Table
    BY DEF Table
<1> QED BY <1>1, <1>2, <1>3 DEF Rebuilds

LEMMA PollsType ==
    ASSUME ListTypeOK, server' \in [Instances -> Row], Refreshes
    PROVE  polls' \in Seq([Instances -> Row])
BY AppendIs DEF ListTypeOK, Refreshes

LEMMA EventsType ==
    ASSUME ListTypeOK, Happens \/ Arrives
    PROVE  events' \in 0 .. MaxEvents
BY ListAssumption DEF ListTypeOK, Happens, Arrives

LEMMA HearsType ==
    ASSUME ListTypeOK, NEW k \in DOMAIN polls, Hears(k)
    PROVE  ListTypeOK'
<1> USE DEF ListTypeOK
<1>1. /\ polls' \in Seq([Instances -> Row]) /\ polls[k] \in [Instances -> Row]
    <2>1. k \in 1 .. Len(polls)
        BY LenProperties
    <2> QED BY <2>1, RemoveAtIs, ElementOfSeq DEF Hears
<1>2. events' \in 0 .. MaxEvents
    BY EventsType DEF Hears
<1>3. alerts' \subseteq Instances \X Nat
    <2>1. \A i \in Instances : polls[k][i].turn \in Nat
        BY <1>1 DEF Row
    <2>2. {<<i, polls[k][i].turn>> : i \in Announced(polls[k])}
              \subseteq Instances \X Nat
        BY <2>1 DEF Announced
    <2> QED BY <2>2 DEF Hears
<1>4. repeated' \in BOOLEAN /\ overtaken' \in BOOLEAN
    BY DEF Hears
<1>5. rows' \in Table /\ focus' \in Instances \cup {None}
    <2>1. rows \in Table
        BY DEF Table
    <2>2. CASE UNCHANGED <<rows, focus>>
        BY <2>1, <2>2
    <2>3. CASE Rebuilds(polls[k], confirming)
        BY <1>1, <2>1, <2>3, RowsType
    <2> QED BY <2>2, <2>3 DEF Hears
<1> QED BY <1>1, <1>2, <1>3, <1>4, <1>5 DEF Hears, Table

LEMMA ListTypeStep ==
    ASSUME ListTypeOK, ListNext
    PROVE  ListTypeOK'
<1> USE DEF ListTypeOK, history, pollState
<1>0. rows \in Table
    BY DEF Table
<1>1. CASE Polls
    <2>1. polls' \in Seq([Instances -> Row])
        BY <1>1, PollsType DEF Polls
    <2>2. events' \in 0 .. MaxEvents
        BY <1>1, EventsType DEF Polls
    <2> QED BY <1>1, <2>1, <2>2 DEF Polls
<1>2. CASE ListHears
    BY <1>2, HearsType DEF ListHears
<1>3. ASSUME NEW k \in DOMAIN polls, PollFails(k) PROVE ListTypeOK'
    <2>1. polls' \in Seq([Instances -> Row])
        BY <1>3, RemoveAtIs DEF PollFails
    <2>2. events' \in 0 .. MaxEvents
        BY <1>3, EventsType DEF PollFails
    <2> QED BY <1>3, <2>1, <2>2 DEF PollFails
<1>4. CASE ProjectsLoad
    <2>1. rows' \in Table /\ focus' = None
        BY <1>0, <1>4, RowsType DEF ProjectsLoad
    <2>2. events' \in 0 .. MaxEvents
        BY <1>4, EventsType DEF ProjectsLoad
    <2>3. forced' \subseteq Instances
        BY <1>4 DEF ProjectsLoad, Forces
    <2> QED BY <1>4, <2>1, <2>2, <2>3 DEF ProjectsLoad, Table
<1>5. CASE Blurs
    <2>1. rows' \in Table /\ focus' = None
        <3>1. CASE Rebuilds(instances, confirming)
            BY <1>0, <3>1, RowsType
        <3>2. CASE focus' = None /\ UNCHANGED rows
            BY <1>0, <3>2
        <3> QED BY <1>5, <3>1, <3>2 DEF Blurs
    <2>2. events' \in 0 .. MaxEvents
        BY <1>5, EventsType DEF Blurs
    <2> QED BY <1>5, <2>1, <2>2 DEF Blurs, Table
<1>6. ASSUME NEW i \in Instances, Focuses(i) \/ Applies(i)
      PROVE  ListTypeOK'
    <2>1. rows' \in Table
        BY <1>0, <1>6, RowsType DEF Focuses, Applies
    <2>2. events' \in 0 .. MaxEvents
        BY <1>6, EventsType DEF Focuses, Applies
    <2>3. out' \in [Kinds \X Instances -> Nat]
        BY <1>6, OutMoves DEF Focuses, Applies, Kinds
    <2>4. switching' \subseteq Instances /\ focus' \in Instances \cup {None}
        BY <1>6 DEF Focuses, Applies
    <2> QED BY <1>6, <2>1, <2>2, <2>3, <2>4 DEF Focuses, Applies, Table
<1>7. ASSUME NEW i \in Instances, Switched(i) PROVE ListTypeOK'
    <2>1. polls' \in Seq([Instances -> Row])
        BY <1>7, PollsType DEF Switched
    <2>2. events' \in 0 .. MaxEvents
        BY <1>7, EventsType DEF Switched
    <2>3. out' \in [Kinds \X Instances -> Nat]
        BY <1>7, OutMoves DEF Switched, Kinds
    <2>4. switching' \subseteq Instances /\ forced' \subseteq Instances
        BY <1>7 DEF Switched, Landed
    <2> QED BY <1>7, <2>1, <2>2, <2>3, <2>4 DEF Switched
<1>8. ASSUME NEW i \in Instances, Powered(i) \/ Deleted(i) \/ Created(i)
      PROVE  ListTypeOK'
    <2>1. server' \in [Instances -> Row]
        BY <1>8, ServerChangesBefore
    <2>2. polls' \in Seq([Instances -> Row])
        <3>1. Refreshes \/ UNCHANGED polls
            BY <1>8 DEF Powered, Deleted, Created
        <3> QED BY <2>1, <3>1, PollsType
    <2>3. events' \in 0 .. MaxEvents
        BY <1>8, EventsType DEF Powered, Deleted, Created
    <2>4. out' \in [Kinds \X Instances -> Nat]
        BY <1>8, OutMoves DEF Powered, Deleted, Created, Kinds
    <2>5. UNCHANGED <<instances, seeded, history, rows, switching, focus,
                      forced, loading>>
          /\ confirming' \in {confirming, None}
        BY <1>8 DEF Powered, Deleted, Created
    <2> QED BY <2>1, <2>2, <2>3, <2>4, <2>5
<1>9. ASSUME NEW i \in Instances, PressesPower(i) \/ Creates(i)
      PROVE  ListTypeOK'
    <2>1. rows' \in Table
        <3>1. \/ rows' = [rows EXCEPT !.pressed = @ \cup {i}]
              \/ UNCHANGED rows
            BY <1>9 DEF PressesPower, Creates
        <3> QED BY <1>0, <3>1, RowsType, ZenonT(40)
    <2>2. events' \in 0 .. MaxEvents
        BY <1>9, EventsType DEF PressesPower, Creates
    <2>3. out' \in [Kinds \X Instances -> Nat]
        BY <1>9, OutMoves DEF PressesPower, Creates, Kinds
    <2> QED BY <1>9, <2>1, <2>2, <2>3 DEF PressesPower, Creates, Table
<1>10. ASSUME NEW i \in Instances, ClicksDelete(i) PROVE ListTypeOK'
    <2>1. events' \in 0 .. MaxEvents
        BY <1>10, EventsType DEF ClicksDelete
    <2>2. UNCHANGED <<server, polls, instances, seeded, alerts, repeated,
                      overtaken, switching, loading>>
        BY <1>10 DEF ClicksDelete
    <2>3. CASE AsksDelete(i)
        <3>1. rows' \in Table /\ focus' = None
            BY <1>0, <2>3, RowsType DEF AsksDelete
        <3>2. forced' \subseteq Instances
            BY <2>3 DEF AsksDelete, Forces
        <3> QED BY <2>1, <2>2, <2>3, <3>1, <3>2 DEF AsksDelete, Table
    <2>4. CASE /\ Sends("delete", i)
               /\ UNCHANGED <<confirming, rows, focus, forced>>
        <3>1. out' \in [Kinds \X Instances -> Nat]
            BY <2>4, OutMoves DEF Kinds
        <3> QED BY <2>1, <2>2, <2>4, <3>1
    <2> QED BY <1>10, <2>3, <2>4 DEF ClicksDelete
<1>11. ASSUME NEW i \in Instances, ServerChanges(i) PROVE ListTypeOK'
    <2>1. server' \in [Instances -> Row]
        BY <1>11, ServerChangesBefore
    <2>2. events' \in 0 .. MaxEvents
        BY <1>11, EventsType DEF ServerChanges
    <2> QED BY <1>11, <2>1, <2>2 DEF ServerChanges
<1> QED BY <1>1, <1>2, <1>3, <1>4, <1>5, <1>6, <1>7, <1>8, <1>9, <1>10, <1>11
        DEF ListNext, ListAnswers, ListUses

-----------------------------------------------------------------------------
(* The list of instances as a whole.                                       *)

ListInv ==
    ListTypeOK /\ (overtaken \/ InOrder) /\ SwitchHeld /\ AskShown

LEMMA ListBegins == ListInit => ListInv
<1> SUFFICES ASSUME ListInit PROVE ListInv
    OBVIOUS
<1>1. /\ server \in [Instances -> Row] /\ instances \in [Instances -> Row]
      /\ polls = <<server>> /\ polls \in Seq([Instances -> Row])
      /\ DOMAIN polls = {1} /\ polls[1] = server
    BY DEF ListInit, Empty, Row, States
<1>2. events \in 0 .. MaxEvents
    BY ListAssumption DEF ListInit
<1>3. rows.confirm = None /\ confirming = None
      /\ rows \in [list : [Instances -> Row], confirm : Instances \cup {None},
                   disabled : SUBSET Instances, pressed : SUBSET Instances]
    BY <1>1 DEF ListInit, Painted
<1>4. out \in [Kinds \X Instances -> Nat]
      /\ \A i \in Instances : out[<<"patch", i>>] = 0
    BY DEF ListInit, Kinds
<1>5. ListTypeOK
    BY <1>1, <1>2, <1>3, <1>4 DEF ListInit, ListTypeOK
<1>6. InOrder
    <2>1. Before(instances, server) /\ Before(server, server)
        BY <1>1, BeforeItself DEF ListInit, Before, Empty
    <2> QED BY <1>1, <2>1 DEF ListInit, InOrder
<1>7. SwitchHeld
    BY <1>4 DEF SwitchHeld
<1> QED BY <1>3, <1>5, <1>6, <1>7 DEF ListInv, AskShown

LEMMA ListStep ==
    ASSUME ListInv, ListNext
    PROVE  ListInv'
BY ListTypeStep, ListOrderStep, ListHeldStep, AskStep DEF ListInv

LEMMA ListStays == ListInv /\ UNCHANGED listVars => ListInv'
BY DEF ListInv, ListTypeOK, InOrder, SwitchHeld, AskShown, listVars

LEMMA ListTruth == ListInv => ListIsTrue
<1> SUFFICES ASSUME ListInv PROVE ListIsTrue
    OBVIOUS
<1>1. AnnouncedOnce
    BY DEF ListInv, InOrder, AnnouncedOnce
<1>2. \A i \in Instances : out[<<"patch", i>>] \in Nat
    BY DEF ListInv, ListTypeOK, Kinds
<1>3. SecondSwitchIsForced
    BY <1>2 DEF ListInv, SwitchHeld, SecondSwitchIsForced
<1> QED BY <1>1, <1>3 DEF ListIsTrue

-----------------------------------------------------------------------------
(* The web client.                                                         *)

WebInv ==
    /\ page \in Pages /\ destroyed \in BOOLEAN
    /\ ListInv /\ ConsoleInv /\ PanelInv /\ ProjectsInv /\ FormInv

LEMMA WebBegins == Init => WebInv
<1>1. PageInit => page \in Pages /\ destroyed \in BOOLEAN
    BY DEF PageInit
<1> QED BY <1>1, ListBegins, ConsoleBegins, PanelBegins, ProjectsBegin,
           FormBegins
        DEF Init, WebInv

(* A page's step is its own: nothing else moves, but that a page that is   *)
(* left takes `destroyed` with it.                                         *)
LEMMA WebStep == WebInv /\ [Next]_vars => WebInv'
<1> SUFFICES ASSUME WebInv, [Next]_vars PROVE WebInv'
    OBVIOUS
<1> USE DEF WebInv
<1>1. CASE OnList(ListNext)
    BY <1>1, ListStep, ConsoleStays, PanelStays, ProjectsStay, FormStays
    DEF OnList, pageVars
<1>2. CASE OnConsole(ConsoleNext /\ UNCHANGED pageVars)
    BY <1>2, ListStays, ConsoleStep, PanelStays, ProjectsStay, FormStays
    DEF OnConsole, pageVars
<1>3. CASE OnConsole(LeavesConsole)
    <2>1. /\ page = "console" /\ page' = page /\ destroyed' = TRUE
          /\ page # "files"
        BY <1>3 DEF OnConsole, LeavesConsole, Destroys, Mounted
    <2> QED BY <1>3, <2>1, ListStays, ConsoleLeft, PanelStays, ProjectsStay,
               FormStays
            DEF OnConsole
<1>4. CASE OnFiles(PanelNext /\ UNCHANGED pageVars)
    BY <1>4, ListStays, ConsoleStays, PanelStep, ProjectsStay, FormStays
    DEF OnFiles, pageVars
<1>5. CASE OnFiles(LeavesFiles)
    <2>1. /\ page = "files" /\ page' = page /\ destroyed' = TRUE
          /\ page # "console"
        BY <1>5 DEF OnFiles, LeavesFiles, Destroys, Mounted
    <2> QED BY <1>5, <2>1, ListStays, ConsoleStays, PanelLeft, ProjectsStay,
               FormStays
            DEF OnFiles
<1>6. CASE OnProjects(ProjectsNext)
    BY <1>6, ListStays, ConsoleStays, PanelStays, ProjectsStep, FormStays
    DEF OnProjects, pageVars
<1>7. CASE OnForm(FormNext)
    BY <1>7, ListStays, ConsoleStays, PanelStays, ProjectsStay, FormStep
    DEF OnForm, pageVars
<1>8. CASE UNCHANGED vars
    BY <1>8, ListStays, ConsoleStays, PanelStays, ProjectsStay, FormStays
    DEF vars
<1> QED BY <1>1, <1>2, <1>3, <1>4, <1>5, <1>6, <1>7, <1>8 DEF Next

LEMMA WebInvariant == Spec => []WebInv
BY WebBegins, WebStep, PTL DEF Spec

(* Types.                                                                  *)
THEOREM SpecWebTypeOK == Spec => []TypeOK
<1>1. WebInv => TypeOK
    BY ConsoleTruth, ProjectsTruth
    DEF WebInv, TypeOK, ListInv, PanelInv, FormInv
<1> QED BY <1>1, WebInvariant, PTL

(* However many lists are on their way and however they are reordered: a   *)
(* turn is announced once, and a second switch means a forced repaint.     *)
THEOREM SpecListIsTrue == Spec => []ListIsTrue
<1>1. WebInv => ListIsTrue
    BY ListTruth DEF WebInv
<1> QED BY <1>1, WebInvariant, PTL

(* Whatever reconnects, closes and resizes follow one another: no socket   *)
(* but the page's own is alive, of the size the screen has unless a resize *)
(* was lost, and the paths come in the order of the files.                 *)
THEOREM SpecConsoleIsTrue == Spec => []ConsoleIsTrue
<1>1. WebInv => ConsoleIsTrue
    BY ConsoleTruth DEF WebInv
<1> QED BY <1>1, WebInvariant, PTL

(* Whatever is clicked before it is answered, the panel shows what is      *)
(* selected and keeps no URL it does not show.                             *)
THEOREM SpecPanelIsTrue == Spec => []PanelIsTrue
<1>1. WebInv => PanelIsTrue
    BY DEF WebInv, PanelInv, PanelIsTrue, UrlsReleased, Held
<1> QED BY <1>1, WebInvariant, PTL

(* A log is shown to the one it is open for; a page whose polls have ended *)
(* has missed the end of no build, lists what there is and shows the open  *)
(* log whole, but for a failed one that was taken for the one before it    *)
(* (projects.ts scheduleWhileBuilding, refresh, loadLog); and a form saves *)
(* what it was filled with but for the answer to a variable.               *)
THEOREM SpecProjectsPageIsTrue == Spec => []ProjectsPageIsTrue
<1>1. WebInv => ProjectsPageIsTrue
    BY ProjectsTruth DEF WebInv, FormInv, ProjectsPageIsTrue
<1> QED BY <1>1, WebInvariant, PTL

(* No save takes a secret along, whatever form it was sent from.           *)
THEOREM SpecSecretsAreKept == Spec => []SecretsAreKept
<1>1. WebInv => SecretsAreKept
    BY DEF WebInv, FormInv
<1> QED BY <1>1, WebInvariant, PTL

(* No DELETE leaves the page but from a button that asked.                 *)
THEOREM SpecDeleteIsConfirmed == Spec => DeleteIsConfirmed
<1>1. WebInv /\ [Next]_vars =>
          [\A i \in Instances :
               out'[<<"delete", i>>] > out[<<"delete", i>>] => rows.confirm = i
          ]_listVars
    <2> SUFFICES ASSUME WebInv, [Next]_vars, listVars' # listVars
                 PROVE  \A i \in Instances :
                            out'[<<"delete", i>>] > out[<<"delete", i>>]
                                => rows.confirm = i
        OBVIOUS
    <2>1. ListNext
        BY DEF Next, OnList, OnConsole, OnFiles, OnProjects, OnForm, vars
    <2> QED BY <2>1, DeleteStep DEF WebInv, ListInv
<1> QED BY <1>1, WebInvariant, PTL DEF Spec, DeleteIsConfirmed

===============================================================================
