------------------------------ MODULE ListView ------------------------------
(***************************************************************************)
(* The list of instances (web/src/views/list.ts, web/src/notify.ts).  The  *)
(* list is polled every three seconds and after every action, answers come *)
(* in any order, and the table they repaint holds dropdowns and buttons    *)
(* somebody may be using.                                                  *)
(*                                                                         *)
(* What an action changes on the server it changes with its answer; a list *)
(* is read when it is asked for, and its answer may take as long as it     *)
(* likes.                                                                  *)
(***************************************************************************)
EXTENDS Naturals, SequencesExt, Page

CONSTANTS
    Instances,
    MaxPolls,       \* bound: lists on their way when the timer fires
    MaxEvents       \* bound: clicks, failures and changes on the server

ASSUME ListAssumption == None \notin Instances /\ MaxEvents \in Nat

VARIABLES
    server,         \* what the server would answer, per instance
    polls,          \* the lists on their way, in the order they were read
    instances,      \* the last list that came
    seeded,         \* the notifier has had a first list
    rows,           \* the table as it was painted
    confirming,     \* the instance whose Delete asks "Really delete?"
    switching,      \* instances with a model switch in flight
    focus,          \* the row whose dropdown has the focus
    out,            \* the actions in flight: <<kind, instance>> -> how many
    loading,        \* the projects have not arrived
    alerts,         \* history: notifications, as <<instance, turn>>
    repeated,       \* history: one was shown twice for the same turn
    overtaken,      \* history: a list arrived before one that was older
    forced,         \* history: rows rebuilt under their switch
    events

listVars == <<server, polls, instances, seeded, rows, confirming, switching,
              focus, out, loading, alerts, repeated, overtaken, forced, events>>

-----------------------------------------------------------------------------
(* The state of an instance: its container, its session and its activity   *)
(* in a word.  A turn ends when the instance starts to wait.               *)
States == {"gone", "missing", "exited", "ready", "waiting"}
Session(s) == s \in {"ready", "waiting"}

(* powerButton: Stop, Start, or nothing where neither would work.          *)
HasPower(s) == s \in {"exited", "ready", "waiting"}

Row == [is : States, turn : Nat]
Kinds == {"patch", "power", "delete", "create"}

Painted(list, asks) ==
    [list |-> list, confirm |-> asks, disabled |-> {}, pressed |-> {}]

Empty == [i \in Instances |-> [is |-> "gone", turn |-> 0]]

ListInit ==
    /\ server = [i \in Instances |-> [is |-> "ready", turn |-> 0]]
    /\ polls = <<server>>
    /\ instances = Empty /\ seeded = FALSE /\ rows = Painted(Empty, None)
    /\ confirming = None /\ switching = {} /\ focus = None
    /\ out = [k \in Kinds \X Instances |-> 0] /\ loading = TRUE
    /\ alerts = {} /\ repeated = FALSE /\ overtaken = FALSE /\ forced = {}
    /\ events = 0

ListTypeOK ==
    /\ server \in [Instances -> Row] /\ polls \in Seq([Instances -> Row])
    /\ instances \in [Instances -> Row] /\ seeded \in BOOLEAN
    /\ rows \in [list : [Instances -> Row], confirm : Instances \cup {None},
                 disabled : SUBSET Instances, pressed : SUBSET Instances]
    /\ confirming \in Instances \cup {None} /\ switching \subseteq Instances
    /\ focus \in Instances \cup {None} /\ loading \in BOOLEAN
    /\ out \in [Kinds \X Instances -> Nat]
    /\ alerts \subseteq Instances \X Nat /\ forced \subseteq Instances
    /\ repeated \in BOOLEAN /\ overtaken \in BOOLEAN /\ events \in 0 .. MaxEvents

Happens == Mounted("list") /\ events < MaxEvents /\ events' = events + 1
Arrives == Mounted("list") /\ UNCHANGED events

(* What a reader sees of a row.                                            *)
Shown(i) == rows.list[i].is

(* Deviation: the switches are forgotten.                                  *)
BusyEditing == focus # None

(* busy(): a dropdown has the focus, or a switch has not landed.           *)
Busy == focus # None \/ switching # {}

(* renderRows rebuilds the table under whatever had the focus.             *)
Rebuilds(list, asks) == rows' = Painted(list, asks) /\ focus' = None
Forces == forced' = {i \in Instances : out[<<"patch", i>>] > 0} \cup forced

(* refresh, up to its await.                                               *)
Refreshes == polls' = Append(polls, server')

Sends(kind, i) == out' = [out EXCEPT ![<<kind, i>>] = @ + 1]
Lands(kind, i) ==
    /\ out[<<kind, i>>] > 0
    /\ out' = [out EXCEPT ![<<kind, i>>] = @ - 1]

history == <<alerts, repeated, overtaken>>
pollState == <<polls, instances, seeded, history>>

-----------------------------------------------------------------------------
(* Polls                                                                   *)

Polls ==
    /\ Arrives /\ Len(polls) < MaxPolls /\ UNCHANGED server /\ Refreshes
    /\ UNCHANGED <<instances, seeded, rows, confirming, switching, focus, out,
                   loading, history, forced>>

(* Deviation: whoever waits is announced with every list.                  *)
AnnouncedWaiting(list) ==
    {i \in Instances : seeded /\ list[i].is = "waiting"}

(* createNotifier: the switch, not the state; the first list seeds.        *)
Announced(list) ==
    {i \in Instances : /\ seeded /\ list[i].is = "waiting"
                       /\ instances[i].is # "waiting"}

(* refresh, after its await.                                               *)
Hears(k) ==
    /\ Arrives /\ k \in DOMAIN polls
    /\ polls' = RemoveAt(polls, k)
    /\ overtaken' = (overtaken \/ k > 1)
    /\ LET news == {<<i, polls[k][i].turn>> : i \in Announced(polls[k])}
       IN  /\ alerts' = alerts \cup news
           /\ repeated' = (repeated \/ news \cap alerts # {})
    /\ instances' = polls[k] /\ seeded' = TRUE
    /\ IF Busy THEN UNCHANGED <<rows, focus>>
       ELSE Rebuilds(polls[k], confirming)
    /\ UNCHANGED <<server, confirming, switching, out, loading, forced>>

(* The last list that came stays on screen.                                *)
PollFails(k) ==
    /\ Happens /\ k \in DOMAIN polls
    /\ polls' = RemoveAt(polls, k)
    /\ UNCHANGED <<server, instances, seeded, rows, confirming, switching,
                   focus, out, loading, history, forced>>

(* loadProjects, which repaints whatever the table is used for.            *)
ProjectsLoad ==
    /\ Arrives /\ loading /\ loading' = FALSE
    /\ Rebuilds(instances, confirming) /\ Forces
    /\ UNCHANGED <<server, pollState, confirming, switching, out>>

-----------------------------------------------------------------------------
(* The dropdowns                                                           *)

(* choiceCell: there is something to choose only where a session is ready. *)
Focuses(i) ==
    /\ Arrives /\ focus # i /\ Session(Shown(i)) /\ i \notin rows.disabled
    /\ focus = None /\ focus' = i
    /\ UNCHANGED <<server, pollState, rows, confirming, switching, out,
                   loading, forced>>

(* blur: by then nothing has the focus.                                    *)
Blurs ==
    /\ Arrives /\ focus # None
    /\ IF switching = {} THEN Rebuilds(instances, confirming)
       ELSE focus' = None /\ UNCHANGED rows
    /\ UNCHANGED <<server, pollState, confirming, switching, out, loading,
                   forced>>

(* applyChoice, up to its await.  A disabled dropdown loses the focus.     *)
Applies(i) ==
    /\ Happens /\ focus = i /\ focus' = None
    /\ rows' = [rows EXCEPT !.disabled = @ \cup {i}]
    /\ switching' = switching \cup {i}
    /\ Sends("patch", i)
    /\ UNCHANGED <<server, pollState, confirming, loading, forced>>

(* Deviation: a switch that was refused stays.                             *)
LandedFine(i, fine) == IF fine THEN switching \ {i} ELSE switching

Landed(i, fine) == switching \ {i}

(* The answer to the switch, whatever it is, and the list after it.        *)
Switched(i) ==
    /\ Arrives /\ Lands("patch", i)
    /\ \E fine \in BOOLEAN : switching' = Landed(i, fine)
    /\ forced' = IF out[<<"patch", i>>] = 1 THEN forced \ {i} ELSE forced
    /\ UNCHANGED server /\ Refreshes
    /\ UNCHANGED <<instances, seeded, history, rows, confirming, focus,
                   loading>>

-----------------------------------------------------------------------------
(* The buttons                                                             *)

PressesPower(i) ==
    /\ Happens /\ HasPower(Shown(i)) /\ i \notin rows.pressed
    /\ rows' = [rows EXCEPT !.pressed = @ \cup {i}]
    /\ Sends("power", i)
    /\ UNCHANGED <<server, pollState, confirming, switching, focus, loading,
                   forced>>

Powered(i) ==
    /\ Arrives /\ Lands("power", i)
    /\ \E s \in {server[i].is} \cup (IF server[i].is = "exited" THEN {"ready"}
               ELSE IF Session(server[i].is) THEN {"exited"} ELSE {}) :
           server' = [server EXCEPT ![i].is = s]
    /\ Refreshes
    /\ UNCHANGED <<instances, seeded, history, rows, confirming, switching,
                   focus, loading, forced>>

(* Deviation: the question waits until the table may be repainted.         *)
AsksDeleteLater(i) ==
    /\ confirming' = i /\ UNCHANGED out
    /\ IF Busy THEN UNCHANGED <<rows, focus, forced>>
       ELSE Rebuilds(instances, i) /\ Forces

(* The first click asks, and repaints at once to show that it does.        *)
AsksDelete(i) ==
    /\ confirming' = i /\ UNCHANGED out
    /\ Rebuilds(instances, i) /\ Forces

ClicksDelete(i) ==
    /\ Happens /\ Shown(i) # "gone"
    /\ IF confirming # i THEN AsksDelete(i)
       ELSE Sends("delete", i) /\ UNCHANGED <<confirming, rows, focus, forced>>
    /\ UNCHANGED <<server, pollState, switching, loading>>

(* Deleted or refused, the question is off; the list repaints it.          *)
Deleted(i) ==
    /\ Arrives /\ Lands("delete", i)
    /\ \E s \in {"gone", server[i].is} :
           server' = [server EXCEPT ![i].is = s]
    /\ confirming' = None
    /\ Refreshes
    /\ UNCHANGED <<instances, seeded, history, rows, switching, focus,
                   loading, forced>>

(* create: with a project that is usable, and one at a time.               *)
Creates(i) ==
    /\ Happens /\ ~loading /\ server[i] = Empty[i]
    /\ \A j \in Instances : out[<<"create", j>>] = 0
    /\ Sends("create", i)
    /\ UNCHANGED <<server, pollState, rows, confirming, switching, focus,
                   loading, forced>>

Created(i) ==
    /\ Arrives /\ Lands("create", i)
    /\ \/ /\ server' = [server EXCEPT ![i].is = "ready"] /\ Refreshes
       \/ UNCHANGED <<server, polls>>
    /\ UNCHANGED <<instances, seeded, history, rows, confirming, switching,
                   focus, loading, forced>>

-----------------------------------------------------------------------------

ServerChanges(i) ==
    /\ Happens /\ server[i].is # "gone"
    /\ \E s \in States \ {server[i].is} :
           server' = [server EXCEPT ![i] =
               [is |-> s, turn |-> IF s = "waiting" THEN @.turn + 1 ELSE @.turn]]
    /\ UNCHANGED <<pollState, rows, confirming, switching, focus, out, loading,
                   forced>>

ListHears == \E k \in DOMAIN polls : Hears(k)

ListAnswers ==
    \/ ProjectsLoad
    \/ \E i \in Instances :
           Switched(i) \/ Powered(i) \/ Deleted(i) \/ Created(i)

ListUses ==
    \/ Blurs
    \/ \E i \in Instances :
           \/ Focuses(i) \/ Applies(i) \/ PressesPower(i) \/ ClicksDelete(i)
           \/ Creates(i) \/ ServerChanges(i)

ListNext == Polls \/ ListHears \/ ListAnswers \/ ListUses
            \/ \E k \in DOMAIN polls : PollFails(k)

-----------------------------------------------------------------------------

(* Who deletes was asked: a DELETE leaves the page only by a click on a    *)
(* button that reads "Really delete?", whatever was repainted or held back *)
(* since the first click (list.ts renderRows).                             *)
DeleteIsConfirmed ==
    [][\A i \in Instances :
           out'[<<"delete", i>>] > out[<<"delete", i>>] => rows.confirm = i
      ]_listVars

(* A turn that ends is announced once, however often it is polled: only a  *)
(* list that overtook an older one makes it news again (notify.ts).        *)
AnnouncedOnce == repeated => overtaken

(* Two switches of one instance are under way only after its row was       *)
(* rebuilt under the first, which no poll and no blur does (list.ts busy). *)
SecondSwitchIsForced ==
    \A i \in Instances : out[<<"patch", i>>] > 1 => i \in forced

(* What a list that is out of order and a repaint that was held back leave *)
(* true of the page all the same.                                          *)
ListIsTrue == AnnouncedOnce /\ SecondSwitchIsForced

(* A page left open, its dropdowns closed, comes to show what the server   *)
(* has, and the notifier to know it, after whatever lists were reordered,  *)
(* refused or held back (list.ts refresh).                                 *)
ListCatchesUp ==
    <>[](Mounted("list") /\ focus = None) =>
        <>[](rows.list = server /\ instances = server)

=============================================================================
