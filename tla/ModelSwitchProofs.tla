------------------------- MODULE ModelSwitchProofs -------------------------
(***************************************************************************)
(* Theorems about ModelSwitch, for any number of PATCHes, faults and       *)
(* restarts: its types, that the row only claims what the container was    *)
(* told or was taken to have been, that a PATCH which succeeded alone      *)
(* leaves the next start and the row in step, and that the session follows *)
(* the row in the meantime.                                                *)
(***************************************************************************)
EXTENDS ModelSwitch, SequenceTheorems, TLAPS

\* The steps that come after the override files are written.
After == Typed \cup {"record"}

\* A handler that writes or has written the override files, or its script.
Touches(p) == patch[p].at \in After \cup {"writing"} \/ Running(p)

\* The row, and every handler that got past the overrides, wants what the
\* container was told or is taken to have been.
ToldFirst ==
    /\ row \in told \cup assumed
    /\ \A p \in Patches :
           patch[p].at \in After => patch[p].want \in told \cup assumed

\* A handler that is alone is the only one in flight.
AloneIsAlone ==
    \A p, q \in Patches :
        InFlight(p) /\ patch[p].alone /\ InFlight(q) => q = p

\* Where everything is settled, a handler in flight is alone.
SettledIsAlone ==
    settled => \A p \in Patches : InFlight(p) => patch[p].alone

\* The script a handler waits for writes what the handler wants, and one that
\* is alone has no script but the one it waits for.
ScriptIsOurs ==
    \A p \in Patches : Running(p) =>
        /\ patch[p].at = "writing" => write[p].want = patch[p].want
        /\ patch[p].alone => patch[p].at = "writing"

\* What the files hold while such a script runs.
Halfway(p) ==
    /\ write[p].at = "modelOpen" => file.model = Null
    /\ write[p].at # "modelOpen" => file.model = patch[p].want.model
    /\ write[p].at = "effortOpen" => file.effort = Null
    /\ settled /\ write[p].at # "effortOpen" =>
           NextStart.effort = row.effort

\* What a handler that is alone has written stays until it is through.
WrittenStays ==
    \A p \in Patches : patch[p].alone =>
        /\ patch[p].at \in After => file = patch[p].want
        /\ Running(p) => Halfway(p)

\* Where nobody writes or has written, the overrides say what the row says.
Agreement ==
    settled /\ (\A p \in Patches : ~Touches(p)) => NextStart = row

IInv ==
    /\ TypeOK
    /\ ToldFirst
    /\ AloneIsAlone
    /\ SettledIsAlone
    /\ ScriptIsOurs
    /\ WrittenStays
    /\ Agreement

-----------------------------------------------------------------------------
(* Lemmas about the operators.                                             *)

\* An exec is followed by another exec or by the write of the row.
LEMMA FollowingType ==
    ASSUME NEW c, c.at \in Typed \cup {"writing"}
    PROVE  /\ Following(c) \in Steps
           /\ Following(c) \in After
BY DEF Typed, Steps, After, Following, AfterOverride, AfterModel

\* Override files that were both written decide the next start alone.
LEMMA WrittenDecides ==
    ASSUME NEW c \in Choices, file = c
    PROVE  NextStart = c
<1>1. /\ c.model # NoFile
      /\ c.effort # NoFile
  BY NoFileIsOutside DEF Choices
<1>2. NextStart = [model |-> c.model, effort |-> c.effort]
  BY <1>1 DEF NextStart, Flag
<1> QED BY <1>2 DEF Choices

LEMMA NextStartType ==
    ASSUME TypeOK
    PROVE  NextStart \in Seen
BY DEF TypeOK, NextStart, Flag, Choices, Seen

\* What printf leaves in a file that was emptied, and in any other.
LEMMA WrittenIntoEmpty ==
    ASSUME NEW new
    PROVE  Written(Null, new) = {new}
BY DEF Written

LEMMA WrittenType ==
    ASSUME TypeOK, NEW c \in Choices
    PROVE  /\ Written(file.model, c.model) \subseteq
                  Models \cup {Null, NoFile, Garbled}
           /\ Written(file.effort, c.effort) \subseteq
                  Efforts \cup {Null, NoFile, Garbled}
BY DEF TypeOK, Choices, Written

\* What a PATCH asks for is a choice.
LEMMA ResolveType ==
    ASSUME NEW ch \in Changes, NEW r \in Choices
    PROVE  [model |-> Resolve(ch.model, r.model),
            effort |-> Resolve(ch.effort, r.effort)] \in Choices
BY DEF Changes, Choices, Resolve

\* A handler that is through, and its script.
LEMMA IdleType ==
    /\ Idle \in [at: Steps, was: Choices, want: Choices, alone: BOOLEAN]
    /\ NoScript \in [at: Stages, want: Choices]
BY DEF Idle, NoScript, Default, Steps, Stages, Choices

\* Using up a bound.
LEMMA SpendType ==
    ASSUME TypeOK,
           NEW what \in {"patches", "faults", "outside"}, NEW max,
           Spend(what, max)
    PROVE  spent' \in [patches: Nat, faults: Nat, outside: Nat]
BY DEF TypeOK, Spend

\* What Enter does to the session.
LEMMA SubmitType ==
    ASSUME TypeOK, Submit
    PROVE  /\ session' \in Seen
           /\ prompt' \in Seq(Pieces)
           /\ spoilt' \in BOOLEAN
<1>1. prompt' \in Seq(Pieces)
  BY DEF Submit
<1>2. spoilt' \in BOOLEAN
  BY DEF Submit, TypeOK
<1>3. session' \in Seen
  <2>1. CASE session' = session
    BY <2>1 DEF TypeOK
  <2>2. CASE Len(prompt) = 1 /\ session' = Obeys(prompt[1])
    <3> DEFINE piece == prompt[1]
    <3>1. piece \in Pieces
      <4>1. prompt \in Seq(Pieces)
        BY DEF TypeOK
      <4> QED BY <4>1, <2>2, ElementOfSeq
    <3>2. CASE piece[1] = "model"
      <4>1. piece[2] \in Models \cup {Null}
        BY <3>1, <3>2 DEF Pieces, Text
      <4>2. session' = [session EXCEPT !.model = piece[2]]
        BY <2>2, <3>2 DEF Obeys
      <4> QED BY <4>1, <4>2 DEF TypeOK, Seen
    <3>3. CASE piece[1] = "effort"
      <4>1. piece[2] \in Efforts \cup {Null}
        BY <3>1, <3>3 DEF Pieces, Text
      <4>2. session' = [session EXCEPT !.effort = piece[2]]
        BY <2>2, <3>3 DEF Obeys
      <4> QED BY <4>1, <4>2 DEF TypeOK, Seen
    <3>4. CASE piece[1] # "model" /\ piece[1] # "effort"
      <4>1. session' = session
        BY <2>2, <3>4 DEF Obeys
      <4> QED BY <4>1 DEF TypeOK
    <3> QED BY <3>2, <3>3, <3>4
  <2> QED BY <2>1, <2>2 DEF Submit
<1> QED BY <1>1, <1>2, <1>3

-----------------------------------------------------------------------------
(* Type correctness.                                                       *)

\* A handler moves on.
LEMMA AdvanceType ==
    ASSUME TypeOK, NEW p \in Patches, Advance(p),
           patch[p].at \in Typed \cup {"writing"}
    PROVE  patch' \in [Patches -> [at: Steps, was: Choices, want: Choices,
                                   alone: BOOLEAN]]
<1>1. Following(patch[p]) \in Steps
  BY FollowingType
<1> QED BY <1>1 DEF Advance, TypeOK

\* A handler gives up or is through.
LEMMA AnswerType ==
    ASSUME TypeOK, NEW p \in Patches, Answer(p)
    PROVE  patch' \in [Patches -> [at: Steps, was: Choices, want: Choices,
                                   alone: BOOLEAN]]
BY IdleType DEF Answer, TypeOK

LEMMA AbandonsType ==
    ASSUME TypeOK, NEW p \in Patches, Abandons(p)
    PROVE  /\ patch' \in [Patches -> [at: Steps, was: Choices, want: Choices,
                                      alone: BOOLEAN]]
           /\ settled' \in BOOLEAN /\ spoilt' \in BOOLEAN
<1>1. settled' \in BOOLEAN
  BY ZenonT(20) DEF Abandons, TypeOK
<1>2. spoilt' \in BOOLEAN
  BY ZenonT(20) DEF Abandons, TypeOK
<1> QED BY <1>1, <1>2, AnswerType DEF Abandons

\* Every step keeps the types.
LEMMA TypeStep == TypeOK /\ [Next]_vars => TypeOK'
<1> SUFFICES ASSUME TypeOK, [Next]_vars PROVE TypeOK'
  OBVIOUS
<1>1. ASSUME NEW p \in Patches, NEW ch \in Changes, PatchArrives(p, ch)
      PROVE  TypeOK'
  <2> DEFINE want == [model |-> Resolve(ch.model, row.model),
                      effort |-> Resolve(ch.effort, row.effort)]
  <2>1. want \in Choices
    BY ResolveType DEF TypeOK
  <2>2. Quiet \in BOOLEAN
    BY DEF Quiet
  <2>3. spent' \in [patches: Nat, faults: Nat, outside: Nat]
    BY <1>1, SpendType DEF PatchArrives
  <2>4. patch' \in [Patches -> [at: Steps, was: Choices, want: Choices,
                                alone: BOOLEAN]]
    BY <1>1, <2>1, <2>2, ZenonT(30) DEF PatchArrives, TypeOK, Steps
  <2> HIDE DEF want
  <2> QED BY <1>1, <2>2, <2>3, <2>4 DEF PatchArrives, TypeOK
<1>2. ASSUME NEW p \in Patches, SeesReady(p) PROVE TypeOK'
  BY <1>2, SMTT(40) DEF SeesReady, TypeOK, history, Steps
<1>3. ASSUME NEW p \in Patches, SeesNotReady(p) PROVE TypeOK'
  BY <1>3, AnswerType DEF SeesNotReady, TypeOK, history
<1>4. ASSUME NEW p \in Patches, Overrides(p) PROVE TypeOK'
  <2>1. patch' \in [Patches -> [at: Steps, was: Choices, want: Choices,
                                alone: BOOLEAN]]
    <3>1. "writing" \in Steps
      BY DEF Steps
    <3>2. patch' = [patch EXCEPT ![p].at = "writing"]
      BY <1>4 DEF Overrides
    <3> QED BY <3>1, <3>2 DEF TypeOK
  <2>2. write' \in [Patches -> [at: Stages, want: Choices]]
    BY <1>4 DEF Overrides, TypeOK, Stages
  <2>3. file' \in [model: Models \cup {Null, NoFile, Garbled},
                   effort: Efforts \cup {Null, NoFile, Garbled}]
    BY <1>4 DEF Overrides, TypeOK
  <2> QED BY <1>4, <2>1, <2>2, <2>3 DEF Overrides, TypeOK, history
<1>5. ASSUME NEW p \in Patches, Script(p) PROVE TypeOK'
  <2>1. write[p].want \in Choices
    BY DEF TypeOK
  <2>2. file' \in [model: Models \cup {Null, NoFile, Garbled},
                   effort: Efforts \cup {Null, NoFile, Garbled}]
    <3>1. CASE WritesModel(p)
      BY <2>1, <3>1, WrittenType DEF WritesModel, TypeOK
    <3>2. CASE OpensEffort(p)
      BY <3>2 DEF OpensEffort, TypeOK
    <3>3. CASE WritesEffort(p)
      BY <2>1, <3>3, WrittenType, SMTT(40) DEF WritesEffort, TypeOK
    <3> QED BY <1>5, <3>1, <3>2, <3>3 DEF Script
  <2>3. write' \in [Patches -> [at: Stages, want: Choices]]
    <3>1. CASE WritesModel(p)
      BY <3>1 DEF WritesModel, TypeOK, Stages
    <3>2. CASE OpensEffort(p)
      BY <3>2 DEF OpensEffort, TypeOK, Stages
    <3>3. CASE WritesEffort(p)
      BY <3>3, IdleType DEF WritesEffort, TypeOK
    <3> QED BY <1>5, <3>1, <3>2, <3>3 DEF Script
  <2>4. CASE WritesModel(p) \/ OpensEffort(p)
    BY <2>2, <2>3, <2>4 DEF WritesModel, OpensEffort, TypeOK, history
  <2>5. CASE WritesEffort(p)
    <3>1. patch' \in [Patches -> [at: Steps, was: Choices, want: Choices,
                                  alone: BOOLEAN]]
      BY <2>5, AdvanceType DEF WritesEffort, TypeOK
    <3> QED BY <2>1, <2>2, <2>3, <2>5, <3>1 DEF WritesEffort, TypeOK
  <2> QED BY <1>5, <2>4, <2>5 DEF Script
<1>6. ASSUME NEW p \in Patches, NEW field \in {"model", "effort"},
             Types(p, field)
      PROVE  TypeOK'
  <2>1. patch' \in [Patches -> [at: Steps, was: Choices, want: Choices,
                                alone: BOOLEAN]]
    BY <1>6, AdvanceType DEF Types, Typed
  <2>2. <<field, patch[p].want[field]>> \in Pieces
    <3>1. field = "model" => patch[p].want[field] \in Models \cup {Null}
      BY DEF TypeOK, Choices
    <3>2. field = "effort" => patch[p].want[field] \in Efforts \cup {Null}
      BY DEF TypeOK, Choices
    <3> QED BY <3>1, <3>2 DEF Pieces
  <2>3. prompt' \in Seq(Pieces)
    BY <1>6, <2>2 DEF Types, TypeOK
  <2> QED BY <1>6, <2>1, <2>3, ZenonT(40) DEF Types, TypeOK, history
<1>7. ASSUME NEW p \in Patches, Enters(p) PROVE TypeOK'
  <2>1. patch' \in [Patches -> [at: Steps, was: Choices, want: Choices,
                                alone: BOOLEAN]]
    BY <1>7, AdvanceType DEF Enters, Typed
  <2> QED BY <1>7, <2>1, SubmitType, ZenonT(30) DEF Enters, TypeOK
<1>8. ASSUME NEW p \in Patches, Records(p) PROVE TypeOK'
  BY <1>8, AnswerType DEF Records, TypeOK
<1>9. ASSUME NEW p \in Patches, ExecRefused(p) PROVE TypeOK'
  BY <1>9, AbandonsType DEF ExecRefused, TypeOK
<1>10. ASSUME NEW p \in Patches, ScriptFails(p) PROVE TypeOK'
  <2>1. spent' \in [patches: Nat, faults: Nat, outside: Nat]
    BY <1>10, SpendType DEF ScriptFails
  <2>2. write' \in [Patches -> [at: Stages, want: Choices]]
    BY <1>10, IdleType DEF ScriptFails, TypeOK
  <2> QED BY <1>10, <2>1, <2>2, AbandonsType DEF ScriptFails, TypeOK
<1>11. ASSUME NEW p \in Patches, CallFails(p) PROVE TypeOK'
  <2>1. spent' \in [patches: Nat, faults: Nat, outside: Nat]
    BY <1>11, SpendType DEF CallFails
  <2> QED BY <1>11, <2>1, AbandonsType DEF CallFails, TypeOK
<1>12. ASSUME NEW p \in Patches, Mistaken(p) PROVE TypeOK'
  <2>1. spent' \in [patches: Nat, faults: Nat, outside: Nat]
    BY <1>12, SpendType DEF Mistaken
  <2>2. patch' \in [Patches -> [at: Steps, was: Choices, want: Choices,
                                alone: BOOLEAN]]
    <3>1. CASE patch[p].at = "writing"
      <4>1. Following(patch[p]) \in Steps
        BY <3>1, FollowingType
      <4> QED BY <1>12, <3>1, <4>1, SMTT(30) DEF Mistaken, TypeOK
    <3>2. CASE patch[p].at # "writing"
      BY <1>12, <3>2, AdvanceType DEF Mistaken
    <3> QED BY <3>1, <3>2
  <2>3. assumed' \subseteq Choices
    BY <1>12 DEF Mistaken, TypeOK
  <2> QED BY <1>12, <2>1, <2>2, <2>3 DEF Mistaken, TypeOK
<1>13. CASE Container
  <2>1. CASE ContainerStops
    <3>1. spent' \in [patches: Nat, faults: Nat, outside: Nat]
      BY <2>1, SpendType DEF ContainerStops
    <3>2. write' \in [Patches -> [at: Stages, want: Choices]]
      BY <2>1, IdleType DEF ContainerStops
    <3> QED BY <2>1, <3>1, <3>2
            DEF ContainerStops, TypeOK, history, Default, Seen, Boxes
  <2>2. CASE ContainerStarts \/ SessionUp
    BY <2>2 DEF ContainerStarts, SessionUp, TypeOK, history, Boxes
  <2>3. CASE ReadsModel \/ ReadsEffort
    <3>1. session' \in Seen
      BY <2>3, NextStartType DEF ReadsModel, ReadsEffort, TypeOK, Seen
    <3>2. spoilt' \in BOOLEAN
      BY <2>3 DEF ReadsModel, ReadsEffort, TypeOK, Torn
    <3> QED BY <2>3, <3>1, <3>2 DEF ReadsModel, ReadsEffort, TypeOK, Boxes
  <2>4. CASE HumanTypes
    <3>1. spent' \in [patches: Nat, faults: Nat, outside: Nat]
      BY <2>4, SpendType DEF HumanTypes
    <3>2. prompt' \in Seq(Pieces)
      BY <2>4 DEF HumanTypes, TypeOK, Pieces
    <3> QED BY <2>4, <3>1, <3>2 DEF HumanTypes, TypeOK, history
  <2>5. CASE HumanSubmits
    BY <2>5, SubmitType DEF HumanSubmits, TypeOK
  <2> QED BY <1>13, <2>1, <2>2, <2>3, <2>4, <2>5 DEF Container
<1>14. CASE Restart
  <2>1. spent' \in [patches: Nat, faults: Nat, outside: Nat]
    BY <1>14, SpendType DEF Restart
  <2> QED BY <1>14, <2>1, IdleType DEF Restart, TypeOK
<1>15. CASE UNCHANGED vars
  BY <1>15 DEF vars, state, history, TypeOK
<1> QED
  BY <1>1, <1>2, <1>3, <1>4, <1>5, <1>6, <1>7, <1>8, <1>9, <1>10, <1>11,
     <1>12, <1>13, <1>14, <1>15
  DEF Next, Handles

-----------------------------------------------------------------------------
(* The invariant.                                                          *)

\* The parts that speak of handlers, when the handlers stay as they are.
LEMMA HandlersStay ==
    ASSUME IInv, TypeOK',
           UNCHANGED <<row, env, file, patch, write, told, assumed, settled>>
    PROVE  IInv'
BY ZenonT(30) DEF IInv, ToldFirst, AloneIsAlone, SettledIsAlone, ScriptIsOurs,
   WrittenStays, Halfway, Agreement, Touches, Running, InFlight, NextStart

\* A handler moves on within one side of the overrides.
LEMMA HandlerMoves ==
    ASSUME IInv, TypeOK',
           UNCHANGED <<row, env, file, write, told, assumed, settled>>,
           NEW p \in Patches, NEW at \in Steps \ {"idle", "writing"},
           patch[p].at \notin {"idle", "writing"},
           patch[p].at \in After <=> at \in After,
           patch' = [patch EXCEPT ![p].at = at]
    PROVE  IInv'
<1>1. \A q \in Patches :
         /\ patch'[q].alone = patch[q].alone
         /\ patch'[q].want = patch[q].want
         /\ patch'[q].at = "idle" <=> patch[q].at = "idle"
         /\ patch'[q].at = "writing" <=> patch[q].at = "writing"
         /\ patch'[q].at \in After <=> patch[q].at \in After
  BY DEF IInv, TypeOK
<1>2. \A q \in Patches : /\ Running(q)' <=> Running(q)
                         /\ InFlight(q)' <=> InFlight(q)
                         /\ Touches(q)' <=> Touches(q)
  BY <1>1 DEF Running, InFlight, Touches
<1>3. NextStart' = NextStart
  BY DEF NextStart
<1>4. ToldFirst'
  BY <1>1 DEF IInv, ToldFirst
<1>5. AloneIsAlone'
  BY <1>1, <1>2 DEF IInv, AloneIsAlone
<1>6. SettledIsAlone'
  BY <1>1, <1>2 DEF IInv, SettledIsAlone
<1>7. ScriptIsOurs'
  BY <1>1, <1>2 DEF IInv, ScriptIsOurs
<1>8. WrittenStays'
  BY <1>1, <1>2, <1>3 DEF IInv, WrittenStays, Halfway
<1>9. Agreement'
  BY <1>2, <1>3 DEF IInv, Agreement
<1> QED BY <1>4, <1>5, <1>6, <1>7, <1>8, <1>9 DEF IInv

\* A handler gives up; if it had written, nothing is settled any more.
LEMMA HandlerGivesUp ==
    ASSUME IInv, TypeOK', UNCHANGED <<row, env, file, write, told, assumed>>,
           NEW p \in Patches, patch[p].at # "idle", Answer(p),
           settled' => settled /\ patch[p].at \notin After \cup {"writing"}
    PROVE  IInv'
<1>1. /\ patch'[p].at = "idle" /\ ~patch'[p].alone
      /\ \A q \in Patches : q # p => patch'[q] = patch[q]
  BY DEF Answer, Idle, IInv, TypeOK
<1>2. \A q \in Patches : /\ Running(q)' <=> Running(q)
                         /\ InFlight(q)' => InFlight(q)
                         /\ q # p => (Touches(q)' <=> Touches(q))
  BY <1>1 DEF Running, InFlight, Touches
<1>3. settled' => ~Running(p) /\ ~Touches(p)
  BY DEF IInv, SettledIsAlone, ScriptIsOurs, InFlight, Touches
<1>4. NextStart' = NextStart
  BY DEF NextStart
<1>5. ToldFirst'
  BY <1>1 DEF IInv, ToldFirst, After, Typed
<1>6. AloneIsAlone'
  BY <1>1, <1>2 DEF IInv, AloneIsAlone
<1>7. SettledIsAlone'
  BY <1>1, <1>2, <1>3 DEF IInv, SettledIsAlone, InFlight
<1>8. ScriptIsOurs'
  BY <1>1, <1>2 DEF IInv, ScriptIsOurs
<1>9. WrittenStays'
  BY <1>1, <1>2, <1>4 DEF IInv, WrittenStays, Halfway
<1>10. Agreement'
  BY <1>1, <1>2, <1>3, <1>4 DEF IInv, Agreement
<1> QED BY <1>5, <1>6, <1>7, <1>8, <1>9, <1>10 DEF IInv

\* The script of a handler begins: the first file is empty.
LEMMA OverridesKeeps ==
    ASSUME IInv, TypeOK', NEW p \in Patches, Overrides(p)
    PROVE  IInv'
<1>1. /\ patch[p].at = "override" /\ patch'[p].at = "writing"
      /\ patch'[p].alone = patch[p].alone /\ patch'[p].want = patch[p].want
      /\ write'[p].at = "modelOpen" /\ write'[p].want = patch[p].want
      /\ \A q \in Patches : q # p => /\ patch'[q] = patch[q]
                                     /\ write'[q] = write[q]
  BY DEF Overrides, IInv, TypeOK
<1>2. /\ file'.model = Null /\ file'.effort = file.effort
      /\ UNCHANGED <<row, env, told, assumed, settled>>
  BY DEF Overrides, IInv, TypeOK, history
<1>3. \A q \in Patches : /\ InFlight(q)' <=> InFlight(q)
                         /\ patch'[q].alone = patch[q].alone
                         /\ q # p => (Running(q)' <=> Running(q))
  BY <1>1 DEF InFlight, Running
<1>4. NextStart'.effort = NextStart.effort
  BY <1>2 DEF NextStart
<1>5. ToldFirst'
  BY <1>1, <1>2 DEF IInv, ToldFirst, After, Typed
<1>6. AloneIsAlone'
  BY <1>3 DEF IInv, AloneIsAlone
<1>7. SettledIsAlone'
  BY <1>2, <1>3 DEF IInv, SettledIsAlone
<1>8. ScriptIsOurs'
  BY <1>1, <1>3 DEF IInv, ScriptIsOurs
<1>9. WrittenStays'
  <2> SUFFICES ASSUME NEW q \in Patches, patch'[q].alone,
                      patch'[q].at \in After \/ Running(q)'
               PROVE  /\ patch'[q].at \in After => file' = patch'[q].want
                      /\ Running(q)' => Halfway(q)'
    BY DEF WrittenStays
  <2>1. InFlight(q)' /\ InFlight(p)'
    BY <1>1 DEF InFlight, Running, After, Typed
  <2>2. q = p
    BY <1>6, <2>1 DEF AloneIsAlone
  <2>3. settled => NextStart.effort = row.effort
    <3>1. SUFFICES ASSUME settled PROVE NextStart = row
      OBVIOUS
    <3>2. \A r \in Patches : InFlight(r) => r = p
      BY <1>3, <2>1, <2>2, <1>6 DEF AloneIsAlone
    <3>3. \A r \in Patches : ~Touches(r)
      BY <1>1, <1>3, <2>2, <3>2 DEF IInv, ScriptIsOurs, Touches, InFlight,
         After, Typed
    <3> QED BY <3>1, <3>3 DEF IInv, Agreement
  <2> QED BY <1>1, <1>2, <1>4, <2>2, <2>3 DEF Halfway, After, Typed
<1>10. Agreement'
  BY <1>1 DEF Agreement, Touches
<1> QED BY <1>5, <1>6, <1>7, <1>8, <1>9, <1>10 DEF IInv

\* What a script that goes on leaves of the others.
LEMMA ScriptOthers ==
    ASSUME IInv, NEW p \in Patches, Running(p), NEW q \in Patches,
           patch[q].alone, InFlight(q)
    PROVE  /\ q = p
           /\ Running(q) => patch[q].at = "writing"
           /\ patch[q].at \notin After
BY DEF IInv, AloneIsAlone, ScriptIsOurs, InFlight, After, Typed

\* A script goes on to its second file.
LEMMA ScriptKeeps ==
    ASSUME IInv, TypeOK', NEW p \in Patches, WritesModel(p) \/ OpensEffort(p)
    PROVE  IInv'
<1>1. /\ Running(p) /\ Running(p)'
      /\ write'[p].want = write[p].want
      /\ \A q \in Patches : q # p => write'[q] = write[q]
      /\ UNCHANGED <<row, env, patch, told, assumed, settled>>
  BY DEF WritesModel, OpensEffort, Running, IInv, TypeOK, history
<1>2. \A q \in Patches : /\ Running(q)' <=> Running(q)
                         /\ InFlight(q)' <=> InFlight(q)
  BY <1>1 DEF Running, InFlight
<1>3. ToldFirst'
  BY <1>1 DEF IInv, ToldFirst
<1>4. AloneIsAlone'
  BY <1>1, <1>2 DEF IInv, AloneIsAlone
<1>5. SettledIsAlone'
  BY <1>1, <1>2 DEF IInv, SettledIsAlone
<1>6. ScriptIsOurs'
  BY <1>1, <1>2 DEF IInv, ScriptIsOurs
<1>7. WrittenStays'
  <2> SUFFICES ASSUME NEW q \in Patches, patch[q].alone, InFlight(q)
               PROVE  /\ patch[q].at \notin After
                      /\ Running(q)' => Halfway(q)'
    BY <1>1, <1>2 DEF WrittenStays, InFlight, After, Typed
  <2>1. q = p /\ patch[p].at = "writing" /\ patch[q].at \notin After
    BY <1>1, ScriptOthers
  <2>2. write[p].want = patch[p].want /\ Halfway(p)
    BY <1>1, <2>1 DEF IInv, ScriptIsOurs, WrittenStays
  <2>3. CASE WritesModel(p)
    <3>1. /\ file.model = Null /\ write'[p].at = "modelSet"
          /\ write[p].at = "modelOpen"
      BY <2>2, <2>3 DEF Halfway, WritesModel, IInv, TypeOK
    <3>2. file' = [file EXCEPT !.model = patch[p].want.model]
      BY <2>2, <2>3, <3>1, WrittenIntoEmpty DEF WritesModel
    <3>3. /\ file'.model = patch[p].want.model
          /\ NextStart'.effort = NextStart.effort
      BY <1>1, <3>2 DEF IInv, TypeOK, NextStart
    <3> QED BY <1>1, <2>1, <2>2, <3>1, <3>3 DEF Halfway
  <2>4. CASE OpensEffort(p)
    <3>1. /\ write'[p].at = "effortOpen" /\ write[p].at = "modelSet"
          /\ file'.model = file.model /\ file'.effort = Null
      BY <2>4 DEF OpensEffort, IInv, TypeOK
    <3> QED BY <1>1, <2>1, <2>2, <3>1 DEF Halfway
  <2> QED BY <2>3, <2>4
<1>8. Agreement'
  BY <1>1 DEF Agreement, Touches
<1> QED BY <1>3, <1>4, <1>5, <1>6, <1>7, <1>8 DEF IInv

\* A script ends, and the handler that waits for it goes on.
LEMMA WritesEffortKeeps ==
    ASSUME IInv, TypeOK', NEW p \in Patches, WritesEffort(p)
    PROVE  IInv'
<1>1. /\ Running(p) /\ ~Running(p)' /\ write[p].at = "effortOpen"
      /\ \A q \in Patches : q # p => write'[q] = write[q]
      /\ UNCHANGED <<row, env, assumed, settled>>
      /\ told' = told \cup {write[p].want}
  BY DEF WritesEffort, Running, NoScript, IInv, TypeOK
<1>2. /\ \A q \in Patches : /\ q # p => patch'[q] = patch[q]
                            /\ patch'[q].want = patch[q].want
                            /\ patch'[q].alone = patch[q].alone
      /\ patch[p].at = "writing" => patch'[p].at \in After
      /\ patch[p].at # "writing" => patch'[p] = patch[p]
  <2>1. CASE patch[p].at = "writing"
    <3>1. Following(patch[p]) \in After
      BY <2>1, FollowingType
    <3> QED BY <2>1, <3>1 DEF WritesEffort, Advance, IInv, TypeOK
  <2>2. CASE patch[p].at # "writing"
    BY <2>2 DEF WritesEffort
  <2> QED BY <2>1, <2>2
<1>3. \A q \in Patches : /\ Running(q)' => Running(q) /\ q # p
                         /\ InFlight(q)' => InFlight(q)
  BY <1>1, <1>2 DEF Running, InFlight
<1>4. patch[p].at = "writing" => write[p].want = patch[p].want
  BY <1>1 DEF IInv, ScriptIsOurs
<1>5. ToldFirst'
  BY <1>1, <1>2, <1>4 DEF IInv, ToldFirst
<1>6. AloneIsAlone'
  BY <1>2, <1>3 DEF IInv, AloneIsAlone
<1>7. SettledIsAlone'
  BY <1>1, <1>2, <1>3 DEF IInv, SettledIsAlone
<1>8. ScriptIsOurs'
  BY <1>1, <1>2, <1>3 DEF IInv, ScriptIsOurs
<1>9. WrittenStays'
  <2> SUFFICES ASSUME NEW q \in Patches, patch[q].alone, InFlight(q)
               PROVE  /\ patch'[q].at \in After => file' = patch'[q].want
                      /\ ~Running(q)'
    BY <1>2, <1>3 DEF WrittenStays, InFlight, After, Typed
  <2>1. q = p /\ patch[p].at = "writing"
    BY <1>1, ScriptOthers
  <2>2. /\ write[p].want = patch[p].want
        /\ file.model = patch[p].want.model /\ file.effort = Null
    BY <1>1, <1>4, <2>1 DEF IInv, WrittenStays, Halfway
  <2>3. file' = [file EXCEPT !.effort = patch[p].want.effort]
    BY <2>2, WrittenIntoEmpty DEF WritesEffort
  <2>4. file' = patch[p].want
    <3>1. /\ file' = [model |-> file.model, effort |-> patch[p].want.effort]
          /\ patch[p].want \in Choices
      BY <2>3 DEF IInv, TypeOK
    <3> QED BY <2>2, <3>1 DEF Choices
  <2> QED BY <1>1, <1>2, <2>1, <2>4
<1>10. Agreement'
  <2>1. CASE patch[p].at = "writing"
    BY <1>2, <2>1 DEF Agreement, Touches
  <2>2. CASE patch[p].at # "writing"
    <3>1. ~settled
      BY <1>1, <2>2 DEF IInv, SettledIsAlone, ScriptIsOurs, InFlight
    <3> QED BY <1>1, <3>1 DEF Agreement
  <2> QED BY <2>1, <2>2
<1> QED BY <1>5, <1>6, <1>7, <1>8, <1>9, <1>10 DEF IInv

\* A script fails, with a handler that waits for it or without.
LEMMA ScriptFailsKeeps ==
    ASSUME IInv, TypeOK', NEW p \in Patches, ScriptFails(p)
    PROVE  IInv'
<1>1. /\ Running(p) /\ ~Running(p)'
      /\ \A q \in Patches : q # p => write'[q] = write[q]
      /\ UNCHANGED <<row, env, file, told, assumed>>
  BY DEF ScriptFails, Running, NoScript, IInv, TypeOK
<1>2. /\ \A q \in Patches : q # p => patch'[q] = patch[q]
      /\ patch'[p] = patch[p] \/ patch'[p] = Idle
      /\ ~settled'
  <2>1. CASE patch[p].at = "writing"
    BY <2>1 DEF ScriptFails, Abandons, Answer, IInv, TypeOK
  <2>2. CASE patch[p].at # "writing"
    <3>1. ~settled
      BY <1>1, <2>2 DEF IInv, SettledIsAlone, ScriptIsOurs, InFlight
    <3> QED BY <2>2, <3>1 DEF ScriptFails
  <2> QED BY <2>1, <2>2
<1>3. \A q \in Patches : /\ Running(q)' => Running(q) /\ q # p
                         /\ InFlight(q)' => InFlight(q)
                         /\ patch'[q].alone => patch'[q] = patch[q]
                         /\ patch'[q].at \in After => patch'[q] = patch[q]
  BY <1>1, <1>2 DEF Running, InFlight, Idle, After, Typed
<1>4. ToldFirst'
  BY <1>1, <1>3 DEF IInv, ToldFirst
<1>5. AloneIsAlone'
  BY <1>3 DEF IInv, AloneIsAlone
<1>6. ScriptIsOurs'
  BY <1>1, <1>2, <1>3 DEF IInv, ScriptIsOurs
<1>7. WrittenStays'
  BY <1>1, <1>2, <1>3 DEF IInv, WrittenStays, Halfway
<1> QED BY <1>2, <1>4, <1>5, <1>6, <1>7 DEF IInv, SettledIsAlone, Agreement

\* An exec is taken for a success.
LEMMA MistakenKeeps ==
    ASSUME IInv, TypeOK', NEW p \in Patches, Mistaken(p)
    PROVE  IInv'
<1>1. CASE patch[p].at # "writing"
  <2>1. /\ patch[p].at \in Typed
        /\ Following(patch[p]) \in After
    BY <1>1, FollowingType DEF Mistaken
  <2>2. /\ UNCHANGED <<row, env, file, write, told, assumed, settled>>
        /\ patch' = [patch EXCEPT ![p].at = Following(patch[p])]
    BY <1>1 DEF Mistaken, Advance
  <2>3. /\ Following(patch[p]) \in Steps \ {"idle", "writing"}
        /\ patch[p].at \notin {"idle", "writing"} /\ patch[p].at \in After
    BY <2>1 DEF After, Typed, Steps
  <2> QED BY <2>1, <2>2, <2>3, HandlerMoves
<1>2. CASE patch[p].at = "writing"
  <2>1. Following(patch[p]) \in After
    BY <1>2, FollowingType
  <2>2. /\ patch'[p].at \in After /\ ~patch'[p].alone
        /\ patch'[p].want = patch[p].want
        /\ \A q \in Patches : q # p => patch'[q] = patch[q]
        /\ UNCHANGED <<row, env, file, write, told>>
        /\ assumed' = assumed \cup {patch[p].want} /\ ~settled'
    BY <1>2, <2>1 DEF Mistaken, IInv, TypeOK
  <2>3. \A q \in Patches : /\ Running(q)' <=> Running(q)
                           /\ InFlight(q)' => InFlight(q)
    BY <1>2, <2>2 DEF Running, InFlight
  <2>4. ToldFirst'
    BY <2>2 DEF IInv, ToldFirst
  <2>5. AloneIsAlone'
    BY <2>2, <2>3 DEF IInv, AloneIsAlone
  <2>6. ScriptIsOurs'
    BY <2>2, <2>3 DEF IInv, ScriptIsOurs, After, Typed
  <2>7. WrittenStays'
    BY <2>2, <2>3 DEF IInv, WrittenStays, Halfway
  <2> QED BY <2>2, <2>4, <2>5, <2>6, <2>7 DEF IInv, SettledIsAlone, Agreement
<1> QED BY <1>1, <1>2

\* Every step keeps the invariant.
LEMMA IInvStep == IInv /\ [Next]_vars => IInv'
<1> SUFFICES ASSUME IInv, [Next]_vars PROVE IInv'
  OBVIOUS
<1>0. TypeOK'
  BY TypeStep DEF IInv
<1>1. ASSUME NEW p \in Patches, NEW ch \in Changes, PatchArrives(p, ch)
      PROVE  IInv'
  <2>1. /\ patch'[p].at = "asked"
        /\ patch'[p].alone = Quiet
        /\ \A q \in Patches : q # p =>
             /\ patch'[q].at = patch[q].at
             /\ patch'[q].want = patch[q].want
             /\ patch'[q].alone = FALSE
        /\ UNCHANGED <<row, env, file, write, told, assumed>>
        /\ settled' = (settled /\ Quiet) /\ ~InFlight(p)
    BY <1>1 DEF PatchArrives, IInv, TypeOK
  <2>2. \A q \in Patches : /\ Running(q)' <=> Running(q)
                           /\ q # p => (InFlight(q)' <=> InFlight(q))
                           /\ Touches(q)' <=> Touches(q)
    BY <2>1 DEF Running, InFlight, Touches, After, Typed
  <2>3. Quiet => \A q \in Patches : ~InFlight(q) /\ ~Running(q)
    BY DEF Quiet, InFlight
  <2>4. ToldFirst'
    BY <2>1 DEF IInv, ToldFirst, After, Typed
  <2>5. AloneIsAlone'
    BY <2>1, <2>2, <2>3 DEF AloneIsAlone
  <2>6. SettledIsAlone'
    BY <2>1, <2>2, <2>3 DEF SettledIsAlone
  <2>7. ScriptIsOurs'
    BY <2>1, <2>2, <2>3 DEF IInv, ScriptIsOurs, InFlight
  <2>8. WrittenStays'
    BY <2>1, <2>2, <2>3 DEF WrittenStays, InFlight, After, Typed
  <2>9. Agreement'
    <3>1. NextStart' = NextStart
      BY <2>1 DEF NextStart
    <3> QED BY <2>1, <2>2, <3>1 DEF IInv, Agreement
  <2> QED BY <1>0, <2>4, <2>5, <2>6, <2>7, <2>8, <2>9 DEF IInv
<1>2. ASSUME NEW p \in Patches, SeesReady(p) PROVE IInv'
  <2>1. /\ patch[p].at = "asked"
        /\ patch' = [patch EXCEPT ![p].at = "override"]
        /\ UNCHANGED <<row, env, file, write, told, assumed, settled>>
    BY <1>2 DEF SeesReady, history
  <2>2. /\ "override" \in Steps \ {"idle", "writing"}
        /\ "override" \notin After /\ "asked" \notin After
    BY DEF Steps, After, Typed
  <2> QED BY <1>0, <2>1, <2>2, HandlerMoves
<1>3. ASSUME NEW p \in Patches, SeesNotReady(p) PROVE IInv'
  <2>1. "asked" \notin After \cup {"writing"}
    BY DEF After, Typed
  <2> QED BY <1>0, <1>3, <2>1, HandlerGivesUp DEF SeesNotReady, history
<1>4. ASSUME NEW p \in Patches, Script(p) PROVE IInv'
  BY <1>0, <1>4, ScriptKeeps, WritesEffortKeeps DEF Script
<1>5. ASSUME NEW p \in Patches, NEW field \in {"model", "effort"},
             Types(p, field) \/ Enters(p)
      PROVE  IInv'
  <2>1. /\ patch[p].at \in Typed
        /\ patch' = [patch EXCEPT ![p].at = Following(patch[p])]
        /\ UNCHANGED <<row, env, file, write, told, assumed, settled>>
    BY <1>5 DEF Types, Enters, Advance, Typed, history
  <2>2. Following(patch[p]) \in After
    BY <2>1, FollowingType
  <2>3. /\ Following(patch[p]) \in Steps \ {"idle", "writing"}
        /\ patch[p].at \notin {"idle", "writing"} /\ patch[p].at \in After
    BY <2>1, <2>2 DEF After, Typed, Steps
  <2> QED BY <1>0, <2>1, <2>2, <2>3, HandlerMoves
<1>6. ASSUME NEW p \in Patches, Records(p) PROVE IInv'
  <2>1. /\ patch[p].at \in After /\ patch[p].at # "writing"
        /\ patch'[p].at = "idle" /\ ~patch'[p].alone
        /\ \A q \in Patches : q # p => patch'[q] = patch[q]
        /\ UNCHANGED <<env, file, write, told, assumed>>
        /\ row' = patch[p].want /\ settled' = (settled \/ patch[p].alone)
    BY <1>6 DEF Records, Answer, Idle, IInv, TypeOK, After, Typed
  <2>2. InFlight(p)
    BY <2>1 DEF InFlight, After, Typed
  <2>3. \A q \in Patches : /\ Running(q)' <=> Running(q)
                           /\ InFlight(q)' => InFlight(q)
    BY <2>1, <2>2 DEF Running, InFlight
  <2>4. ToldFirst'
    BY <2>1 DEF IInv, ToldFirst, After, Typed
  <2>5. AloneIsAlone'
    BY <2>1, <2>3 DEF IInv, AloneIsAlone
  <2>6. settled' => patch[p].alone
    BY <2>1, <2>2 DEF IInv, SettledIsAlone
  <2>7. settled' => \A q \in Patches : ~InFlight(q)'
    BY <2>1, <2>2, <2>3, <2>6 DEF IInv, AloneIsAlone, ScriptIsOurs, InFlight
  <2>8. ScriptIsOurs'
    BY <2>1, <2>3 DEF IInv, ScriptIsOurs
  <2>9. WrittenStays'
    BY <2>1, <2>3, <2>7 DEF IInv, WrittenStays, Halfway, InFlight
  <2>10. Agreement'
    <3> SUFFICES ASSUME settled' PROVE NextStart' = row'
      BY DEF Agreement
    <3>1. /\ file = patch[p].want
          /\ patch[p].want \in Choices
      BY <2>1, <2>6 DEF IInv, WrittenStays, TypeOK
    <3>2. NextStart = patch[p].want
      BY <3>1, WrittenDecides
    <3> QED BY <2>1, <3>2 DEF NextStart
  <2> QED BY <1>0, <2>4, <2>5, <2>7, <2>8, <2>9, <2>10
          DEF IInv, SettledIsAlone
<1>7. ASSUME NEW p \in Patches, ExecRefused(p) \/ CallFails(p) PROVE IInv'
  <2>1. /\ patch[p].at # "idle" /\ Answer(p)
        /\ UNCHANGED <<row, env, file, write, told, assumed>>
        /\ settled' = (settled /\ patch[p].at \in {"asked", "override"})
    BY <1>7 DEF ExecRefused, Refused, CallFails, Abandons, Typed
  <2>2. settled' => settled /\ patch[p].at \notin After \cup {"writing"}
    BY <2>1 DEF After, Typed
  <2> QED BY <1>0, <2>1, <2>2, HandlerGivesUp
<1>8. CASE ContainerStops
  <2>1. /\ UNCHANGED <<row, env, file, patch, told, assumed, settled>>
        /\ \A p \in Patches : ~Running(p)'
    BY <1>8 DEF ContainerStops, Running, NoScript, history
  <2>2. \A p \in Patches : InFlight(p)' => InFlight(p)
    BY <2>1 DEF InFlight
  <2>3. Agreement'
    <3> SUFFICES ASSUME settled, \A p \in Patches : ~Touches(p)'
                 PROVE  NextStart' = row'
      BY <2>1 DEF Agreement
    <3>1. \A p \in Patches : ~Touches(p)
      BY <2>1 DEF Touches, IInv, SettledIsAlone, ScriptIsOurs, InFlight
    <3> QED BY <2>1, <3>1 DEF IInv, Agreement, NextStart
  <2>4. ToldFirst' /\ AloneIsAlone' /\ SettledIsAlone'
    BY <2>1, <2>2 DEF IInv, ToldFirst, AloneIsAlone, SettledIsAlone
  <2>5. ScriptIsOurs' /\ WrittenStays'
    BY <2>1 DEF IInv, ScriptIsOurs, WrittenStays
  <2> QED BY <1>0, <2>3, <2>4, <2>5 DEF IInv
<1>9. CASE Container
  BY <1>0, <1>8, <1>9, HandlersStay
  DEF Container, ContainerStarts, ReadsModel, ReadsEffort, SessionUp,
      HumanTypes, HumanSubmits, history
<1>10. CASE Restart
  <2>1. /\ \A p \in Patches : /\ patch'[p].at = "idle" /\ ~patch'[p].alone
                              /\ Running(p)' <=> Running(p)
        /\ UNCHANGED <<row, env, file, told, assumed>>
        /\ settled' => settled /\ \A p \in Patches :
                           patch[p].at \in {"idle", "asked", "override"}
    BY <1>10 DEF Restart, Idle, Running
  <2>2. settled' => \A p \in Patches : ~Running(p) /\ ~Touches(p)
    BY <2>1 DEF IInv, SettledIsAlone, ScriptIsOurs, Touches, InFlight, After,
       Typed
  <2>3. Agreement'
    BY <2>1, <2>2 DEF IInv, Agreement, NextStart
  <2>4. SettledIsAlone'
    BY <2>1, <2>2 DEF SettledIsAlone, InFlight
  <2>5. ToldFirst'
    BY <2>1 DEF IInv, ToldFirst, After, Typed
  <2> QED BY <1>0, <2>1, <2>3, <2>4, <2>5
          DEF IInv, AloneIsAlone, ScriptIsOurs, WrittenStays
<1>11. CASE UNCHANGED vars
  BY <1>0, <1>11, HandlersStay DEF vars, state, history
<1> QED
  BY <1>0, <1>1, <1>2, <1>3, <1>4, <1>5, <1>6, <1>7, <1>9, <1>10, <1>11,
     OverridesKeeps, ScriptFailsKeeps, MistakenKeeps
  DEF Next, Handles

\* An instance as its create left it.
LEMMA IInvInit == Init => IInv
<1> SUFFICES ASSUME Init PROVE IInv
  OBVIOUS
<1>1. TypeOK
  <2>1. /\ patch \in [Patches -> [at: Steps, was: Choices, want: Choices,
                                  alone: BOOLEAN]]
        /\ write \in [Patches -> [at: Stages, want: Choices]]
    BY IdleType DEF Init
  <2>2. prompt \in Seq(Pieces)
    BY DEF Init
  <2>3. spent \in [patches: Nat, faults: Nat, outside: Nat]
    BY DEF Init
  <2>4. session \in Seen
    BY DEF Init, Choices, Seen
  <2> QED BY <2>1, <2>2, <2>3, <2>4 DEF Init, TypeOK, Boxes
<1>2. \A p \in Patches : patch[p].at = "idle" /\ ~Running(p)
  BY DEF Init, Idle, NoScript, Running
<1>3. Agreement
  BY DEF Init, Agreement, NextStart, Flag, Choices
<1> QED BY <1>1, <1>2, <1>3
        DEF Init, IInv, ToldFirst, AloneIsAlone, SettledIsAlone, ScriptIsOurs,
            WrittenStays, InFlight, After, Typed

-----------------------------------------------------------------------------
(* Theorems.                                                               *)

\* The invariant holds of every behaviour.
THEOREM Invariance == Spec => []IInv
BY IInvInit, IInvStep, PTL DEF Spec

\* setModelEffort and what surrounds it keep the types.
THEOREM TypeCorrect == Spec => []TypeOK
<1>1. IInv => TypeOK
  BY DEF IInv
<1> QED BY <1>1, Invariance, PTL

\* The row never claims what the container was never told, but for what
\* exitCodeOf took for told, with any number of PATCHes at a time.
THEOREM RowIsTold == Spec => []RowWasTold
<1>1. IInv => RowWasTold
  BY DEF IInv, ToldFirst, RowWasTold
<1> QED BY <1>1, Invariance, PTL

\* After a PATCH that succeeded alone the next start and the row agree.
THEOREM LonePatchAgrees == Spec => []NextStartAgrees
<1>1. IInv => NextStartAgrees
  BY DEF IInv, Agreement, NextStartAgrees, Quiet, InFlight, Touches, After,
     Typed
<1> QED BY <1>1, Invariance, PTL

-----------------------------------------------------------------------------
(* What the session runs with.                                             *)

\* Wherever a PATCH was left half done, a command may have been missed.
SpoiltIfUnsettled == settled \/ spoilt

\* A handler that is alone changes what the row still says.
WasRow ==
    \A p \in Patches : InFlight(p) /\ patch[p].alone => patch[p].was = row

NoPromptYet == box # "ready" => prompt = <<>>

Held == {prompt[i] : i \in DOMAIN prompt}

\* What the entrypoint has read of the start line, one file at a time.
Known == [model |-> box \in {"reading", "launching", "ready"},
          effort |-> box \in {"launching", "ready"}]

\* With no handler at the overrides or past them, the session is as the row
\* says and the human alone has typed.
BeforeFits ==
    /\ Known.effort => session.effort = row.effort
    /\ Known.model /\ row.model # Null => session.model = row.model
    /\ Held \subseteq {Text}

\* With a script at them, what will not be typed is as it should be.
WritingFits(c) ==
    /\ Known.effort /\ c.want.effort = c.was.effort =>
           session.effort = c.want.effort
    /\ Known.model /\ c.want.model = c.was.model /\ c.want.model # Null =>
           session.model = c.want.model
    /\ Held \subseteq {Text}

\* A command that is typed is in the prompt, or the human has submitted it.
Sending(c, field) ==
    /\ Held \subseteq {Text, <<field, c.want[field]>>}
    /\ Known[field] /\ Held \subseteq {Text} =>
           session[field] = c.want[field]

\* With a handler past them, what it need not type is as it wants it already.
AfterFits(c) ==
    /\ Known.effort /\ c.at \in {"model", "modelEnter"}
           /\ c.want.effort = c.was.effort =>
               session.effort = c.want.effort
    /\ Known.model /\ c.at \in {"effort", "effortEnter", "record"}
           /\ c.want.model # Null =>
               session.model = c.want.model
    /\ Known.effort /\ c.at = "record" => session.effort = c.want.effort
    /\ c.at \in {"model", "effort", "record"} => Held \subseteq {Text}
    /\ c.at = "modelEnter" => Sending(c, "model")
    /\ c.at = "effortEnter" => Sending(c, "effort")

HandlerFits(p) ==
    /\ patch[p].at = "writing" /\ Running(p) => WritingFits(patch[p])
    /\ patch[p].at \in After => AfterFits(patch[p])

SessionFits ==
    ~spoilt =>
        /\ (\A p \in Patches : ~Touches(p)) => BeforeFits
        /\ \A p \in Patches : HandlerFits(p)

SInv == SpoiltIfUnsettled /\ WasRow /\ NoPromptYet /\ SessionFits

\* Typing adds to what the prompt holds; an Enter empties it, and misses no
\* command only if it held nothing else.
LEMMA HeldAfterTyping ==
    ASSUME TypeOK, NEW x, prompt' = Append(prompt, x)
    PROVE  Held' = Held \cup {x}
<1>1. prompt \in Seq(Pieces)
  BY DEF TypeOK
<1>2. /\ DOMAIN prompt = 1 .. Len(prompt) /\ Len(prompt) \in Nat
      /\ DOMAIN prompt' = 1 .. Len(prompt) + 1
      /\ \A i \in 1 .. Len(prompt) : prompt'[i] = prompt[i]
      /\ prompt'[Len(prompt) + 1] = x
  BY <1>1
<1> QED BY <1>2 DEF Held

LEMMA HeldAfterSubmit ==
    ASSUME TypeOK, Submit, ~spoilt'
    PROVE  /\ Held' = {} /\ ~spoilt
           /\ \/ Held \subseteq {Text} /\ session' = session
              \/ \E piece \in Pieces :
                     Held = {piece} /\ session' = Obeys(piece)
<1>1. prompt \in Seq(Pieces) /\ DOMAIN prompt = 1 .. Len(prompt)
  BY DEF TypeOK
<1>2. Held' = {} /\ ~spoilt
  <2>1. prompt' = <<>> /\ DOMAIN prompt' = {}
    BY DEF Submit
  <2>2. ~spoilt
    BY Zenon DEF Submit
  <2> QED BY <2>1, <2>2 DEF Held
<1>3. CASE Len(prompt) = 1 /\ session' = Obeys(prompt[1])
  <2>1. DOMAIN prompt = {1} /\ prompt[1] \in Pieces
    BY <1>1, <1>3, ElementOfSeq
  <2>2. Held = {prompt[1]}
    BY <2>1 DEF Held
  <2> QED BY <1>2, <1>3, <2>1, <2>2
<1>4. CASE session' = session
           /\ spoilt' = (spoilt \/ \E i \in 1 .. Len(prompt) :
                                       prompt[i] # Text)
  BY <1>1, <1>2, <1>4 DEF Held
<1> QED BY <1>3, <1>4 DEF Submit

\* What a piece that is obeyed changes.
LEMMA ObeysFields ==
    ASSUME TypeOK
    PROVE  /\ Obeys(Text) = session
           /\ \A v : /\ Obeys(<<"model", v>>).model = v
                     /\ Obeys(<<"model", v>>).effort = session.effort
                     /\ Obeys(<<"effort", v>>).effort = v
                     /\ Obeys(<<"effort", v>>).model = session.model
BY DEF TypeOK, Seen, Obeys, Text

\* Where nothing is spoilt, no two handlers are in flight, and no script
\* without its handler.
LEMMA OneInFlight ==
    ASSUME IInv, SInv, ~spoilt, NEW p \in Patches, InFlight(p)
    PROVE  /\ settled
           /\ patch[p].alone /\ patch[p].was = row
           /\ Running(p) => patch[p].at = "writing"
           /\ \A q \in Patches : q # p => ~InFlight(q) /\ ~Touches(q)
<1>1. settled /\ patch[p].alone /\ patch[p].was = row
  BY DEF IInv, SInv, SpoiltIfUnsettled, SettledIsAlone, WasRow
<1>2. \A q \in Patches : q # p => ~InFlight(q)
  BY <1>1 DEF IInv, AloneIsAlone
<1>3. Running(p) => patch[p].at = "writing"
  BY <1>1 DEF IInv, ScriptIsOurs
<1> QED BY <1>1, <1>2, <1>3 DEF Touches, InFlight, After, Typed

\* How a handler fits depends on nothing else.
LEMMA FitsAlike ==
    ASSUME UNCHANGED <<row, session, prompt>>,
           Known'.model => Known.model, Known'.effort => Known.effort
    PROVE  /\ BeforeFits => BeforeFits'
           /\ \A p \in Patches :
                patch'[p] = patch[p] /\ (Running(p)' => Running(p))
                    /\ HandlerFits(p) => HandlerFits(p)'
<1>1. Held' = Held
  BY DEF Held
<1>2. BeforeFits => BeforeFits'
  BY <1>1 DEF BeforeFits
<1>3. ASSUME NEW p \in Patches, patch'[p] = patch[p],
             Running(p)' => Running(p), HandlerFits(p)
      PROVE  HandlerFits(p)'
  <2>1. WritingFits(patch[p]) => WritingFits(patch[p])'
    BY <1>1, <1>3 DEF WritingFits
  <2>2. \A f \in {"model", "effort"} :
            Sending(patch[p], f) => Sending(patch[p], f)'
    BY <1>1, <1>3 DEF Sending
  <2>3. AfterFits(patch[p]) => AfterFits(patch[p])'
    BY <1>1, <1>3, <2>2 DEF AfterFits
  <2> QED BY <1>3, <2>1, <2>3 DEF HandlerFits
<1> QED BY <1>2, <1>3

\* Steps that touch neither the session nor a handler at the overrides or past
\* them.
LEMMA SessionStays ==
    ASSUME SInv, UNCHANGED <<row, session, prompt>>, spoilt' \/ ~spoilt,
           Known'.model => Known.model, Known'.effort => Known.effort,
           ~spoilt' => \A p \in Patches :
               \/ ~Touches(p) /\ ~Touches(p)'
               \/ patch'[p] = patch[p] /\ (Running(p)' <=> Running(p))
    PROVE  SessionFits'
<1> SUFFICES ASSUME ~spoilt'
             PROVE  /\ (\A p \in Patches : ~Touches(p)') => BeforeFits'
                    /\ \A p \in Patches : HandlerFits(p)'
  BY DEF SessionFits
<1>1. /\ (\A p \in Patches : ~Touches(p)) => BeforeFits
      /\ \A p \in Patches : HandlerFits(p)
  BY DEF SInv, SessionFits
<1>2. (\A p \in Patches : ~Touches(p)') => BeforeFits'
  BY <1>1, FitsAlike DEF Touches
<1>3. ASSUME NEW p \in Patches PROVE HandlerFits(p)'
  <2>1. CASE ~Touches(p)'
    BY <2>1 DEF Touches, HandlerFits
  <2>2. CASE Touches(p)'
    BY <1>1, <2>2, FitsAlike
  <2> QED BY <2>1, <2>2
<1> QED BY <1>2, <1>3

\* Of the handlers, only one that is in flight has to fit.
LEMMA OneFits ==
    ASSUME NEW p \in Patches, Touches(p)', HandlerFits(p)',
           \A q \in Patches : q # p => ~Touches(q)'
    PROVE  /\ (\A q \in Patches : ~Touches(q)') => BeforeFits'
           /\ \A q \in Patches : HandlerFits(q)'
BY DEF Touches, HandlerFits

\* A script begins: what differs from the row is to be typed.
LEMMA OverridesFits ==
    ASSUME IInv, SInv, NEW p \in Patches, Overrides(p)
    PROVE  SessionFits'
<1> SUFFICES ASSUME ~spoilt
             PROVE  /\ (\A q \in Patches : ~Touches(q)') => BeforeFits'
                    /\ \A q \in Patches : HandlerFits(q)'
  BY DEF SessionFits, Overrides, history
<1>1. /\ patch[p].at = "override" /\ InFlight(p)
  BY DEF Overrides, InFlight
<1>2. /\ patch[p].was = row /\ ~Running(p)
      /\ \A q \in Patches : q # p => ~Touches(q)
  BY <1>1, OneInFlight
<1>3. BeforeFits
  BY <1>1, <1>2 DEF SInv, SessionFits, Touches, After, Typed
<1>4. /\ patch'[p].at = "writing" /\ Running(p)'
      /\ patch'[p].was = patch[p].was /\ patch'[p].want = patch[p].want
      /\ \A q \in Patches : q # p => patch'[q] = patch[q]
                                     /\ write'[q] = write[q]
      /\ UNCHANGED <<row, box, session, prompt>>
  BY DEF Overrides, Running, IInv, TypeOK
<1>5. Held' = Held /\ Known' = Known
  BY <1>4 DEF Held, Known
<1>6. WritingFits(patch[p])'
  BY <1>2, <1>3, <1>4, <1>5 DEF BeforeFits, WritingFits
<1>7. HandlerFits(p)' /\ Touches(p)'
  BY <1>4, <1>6 DEF HandlerFits, Touches, After, Typed
<1>8. \A q \in Patches : q # p => ~Touches(q)'
  BY <1>2, <1>4 DEF Touches, Running
<1> QED BY <1>7, <1>8, OneFits

\* A script goes on.
LEMMA ScriptFits ==
    ASSUME IInv, SInv, NEW p \in Patches, WritesModel(p) \/ OpensEffort(p)
    PROVE  SessionFits'
<1>1. UNCHANGED <<row, box, session, prompt, patch, spoilt>>
  BY DEF WritesModel, OpensEffort, history
<1>2. \A q \in Patches : Running(q)' <=> Running(q)
  <2>1. /\ write[p].at # "none" /\ write'[p].at # "none"
        /\ \A q \in Patches : q # p => write'[q] = write[q]
    <3>1. CASE WritesModel(p)
      BY <3>1 DEF WritesModel, IInv, TypeOK
    <3>2. CASE OpensEffort(p)
      BY <3>2 DEF OpensEffort, IInv, TypeOK
    <3> QED BY <3>1, <3>2
  <2> QED BY <2>1 DEF Running
<1>3. Known' = Known
  BY <1>1 DEF Known
<1> QED BY <1>1, <1>2, <1>3, SessionStays

\* A script ends: the handler types what differs from the row, and nothing
\* else.
LEMMA WritesEffortFits ==
    ASSUME IInv, SInv, NEW p \in Patches, WritesEffort(p)
    PROVE  SessionFits'
<1> SUFFICES ASSUME ~spoilt
             PROVE  /\ (\A q \in Patches : ~Touches(q)') => BeforeFits'
                    /\ \A q \in Patches : HandlerFits(q)'
  BY DEF SessionFits, WritesEffort
<1> DEFINE c == patch[p]
<1>1. Running(p) /\ InFlight(p)
  BY DEF WritesEffort, Running, InFlight
<1>2. /\ c.at = "writing" /\ c.was = row
      /\ \A q \in Patches : q # p => ~Touches(q)
  BY <1>1, OneInFlight
<1>3. WritingFits(c)
  BY <1>1, <1>2 DEF SInv, SessionFits, HandlerFits
<1>4. /\ patch'[p].at = Following(c) /\ patch'[p].was = c.was
      /\ patch'[p].want = c.want /\ ~Running(p)'
      /\ \A q \in Patches : q # p => patch'[q] = patch[q]
                                     /\ write'[q] = write[q]
      /\ UNCHANGED <<row, box, session, prompt>>
  BY <1>2 DEF WritesEffort, Advance, NoScript, Running, IInv, TypeOK
<1>5. Following(c) \in After
  BY <1>2, FollowingType
<1>6. Held' = Held /\ Known' = Known
  BY <1>4 DEF Held, Known
<1>7. AfterFits(patch[p])'
  <2>1. Following(c) = AfterOverride(c)
    BY <1>2 DEF Following
  <2>2. CASE Following(c) = "model"
    BY <1>2, <1>3, <1>4, <1>6, <2>2 DEF WritingFits, AfterFits
  <2>3. CASE Following(c) = AfterModel(c)
            /\ (c.want.model = c.was.model \/ c.want.model = Null)
    BY <1>2, <1>3, <1>4, <1>6, <2>3 DEF AfterModel, WritingFits, AfterFits
  <2> QED BY <2>1, <2>2, <2>3 DEF AfterOverride
<1>8. HandlerFits(p)' /\ Touches(p)'
  BY <1>4, <1>5, <1>7 DEF HandlerFits, Touches
<1>9. \A q \in Patches : q # p => ~Touches(q)'
  BY <1>2, <1>4 DEF Touches, Running
<1> QED BY <1>8, <1>9, OneFits

\* A command is typed behind what the human may have typed.
LEMMA TypesFits ==
    ASSUME IInv, SInv, NEW p \in Patches, NEW field \in {"model", "effort"},
           Types(p, field)
    PROVE  SessionFits'
<1> SUFFICES ASSUME ~spoilt
             PROVE  /\ (\A q \in Patches : ~Touches(q)') => BeforeFits'
                    /\ \A q \in Patches : HandlerFits(q)'
  BY DEF SessionFits, Types, history
<1> DEFINE c == patch[p]
           d == patch'[p]
<1>1. c.at = field /\ c.at \in After /\ InFlight(p) /\ AfterFits(c)
  BY DEF Types, SInv, SessionFits, HandlerFits, After, Typed, InFlight
<1>2. \A q \in Patches : q # p => ~Touches(q)
  BY <1>1, OneInFlight
<1>3. /\ d.at = IF field = "model" THEN "modelEnter" ELSE "effortEnter"
      /\ d.was = c.was /\ d.want = c.want
      /\ \A q \in Patches : q # p => patch'[q] = patch[q]
      /\ UNCHANGED <<row, box, write, session>>
  BY <1>1 DEF Types, Advance, Following, IInv, TypeOK
<1>4. /\ Held' = Held \cup {<<field, c.want[field]>>}
      /\ Held \subseteq {Text} /\ Known' = Known
  BY <1>1, <1>3, HeldAfterTyping DEF Types, IInv, AfterFits, Known
<1>5. <<field, c.want[field]>> # Text
  BY DEF Text
<1>6. AfterFits(patch[p])'
  <2>1. CASE field = "model"
    BY <1>1, <1>3, <1>4, <1>5, <2>1 DEF AfterFits, Sending
  <2>2. CASE field = "effort"
    BY <1>1, <1>3, <1>4, <1>5, <2>2 DEF AfterFits, Sending
  <2> QED BY <2>1, <2>2
<1>7. HandlerFits(p)' /\ Touches(p)'
  BY <1>3, <1>6 DEF HandlerFits, Touches, After, Typed
<1>8. \A q \in Patches : q # p => ~Touches(q)'
  BY <1>2, <1>3 DEF Touches, Running
<1> QED BY <1>7, <1>8, OneFits

\* Somebody enters what the prompt holds: the handler whose command it is, or
\* the human before it.
LEMMA EntersFits ==
    ASSUME IInv, SInv, NEW p \in Patches, Enters(p)
    PROVE  SessionFits'
<1> SUFFICES ASSUME ~spoilt'
             PROVE  /\ (\A q \in Patches : ~Touches(q)') => BeforeFits'
                    /\ \A q \in Patches : HandlerFits(q)'
  BY DEF SessionFits
<1> DEFINE c == patch[p]
           d == patch'[p]
<1>1. TypeOK /\ Submit /\ c.at \in {"modelEnter", "effortEnter"}
  BY DEF IInv, Enters
<1>2. /\ Held' = {} /\ ~spoilt
      /\ \/ Held \subseteq {Text} /\ session' = session
         \/ \E piece \in Pieces : Held = {piece} /\ session' = Obeys(piece)
  BY <1>1, HeldAfterSubmit
<1>3. AfterFits(c) /\ InFlight(p)
  BY <1>1, <1>2 DEF SInv, SessionFits, HandlerFits, After, Typed, InFlight
<1>4. \A q \in Patches : q # p => ~Touches(q)
  BY <1>2, <1>3, OneInFlight
<1>5. /\ d.at = Following(c) /\ d.was = c.was /\ d.want = c.want
      /\ \A q \in Patches : q # p => patch'[q] = patch[q]
      /\ UNCHANGED <<row, box, write>>
  BY <1>1 DEF Enters, Advance, IInv, TypeOK
<1>6. Following(c) \in After
  BY <1>1, FollowingType DEF Typed
<1>known. /\ Known' = Known /\ Known.model /\ Known.effort
          /\ Known["model"] /\ Known["effort"]
  BY <1>5 DEF Known, Enters
<1>7. \/ session'.model = c.want.model /\ session'.effort = session.effort
      \/ c.at # "modelEnter"
  <2> SUFFICES ASSUME c.at = "modelEnter"
               PROVE  /\ session'.model = c.want.model
                      /\ session'.effort = session.effort
    OBVIOUS
  <2>1. /\ Held \subseteq {Text, <<"model", c.want.model>>}
        /\ Held \subseteq {Text} => session.model = c.want.model
    BY <1>3, <1>known DEF AfterFits, Sending
  <2>2. CASE Held \subseteq {Text} /\ session' = session
    BY <2>1, <2>2
  <2>3. ASSUME NEW piece \in Pieces, Held = {piece},
               session' = Obeys(piece)
        PROVE  /\ session'.model = c.want.model
               /\ session'.effort = session.effort
    <3>1. piece = Text \/ piece = <<"model", c.want.model>>
      BY <2>1, <2>3
    <3> QED BY <1>1, <2>1, <2>3, <3>1, ObeysFields, ZenonT(40)
  <2> QED BY <1>2, <2>2, <2>3
<1>8. \/ session'.effort = c.want.effort /\ session'.model = session.model
      \/ c.at # "effortEnter"
  <2> SUFFICES ASSUME c.at = "effortEnter"
               PROVE  /\ session'.effort = c.want.effort
                      /\ session'.model = session.model
    OBVIOUS
  <2>1. /\ Held \subseteq {Text, <<"effort", c.want.effort>>}
        /\ Held \subseteq {Text} => session.effort = c.want.effort
    BY <1>3, <1>known DEF AfterFits, Sending
  <2>2. CASE Held \subseteq {Text} /\ session' = session
    BY <2>1, <2>2
  <2>3. ASSUME NEW piece \in Pieces, Held = {piece},
               session' = Obeys(piece)
        PROVE  /\ session'.effort = c.want.effort
               /\ session'.model = session.model
    <3>1. piece = Text \/ piece = <<"effort", c.want.effort>>
      BY <2>1, <2>3
    <3> QED BY <1>1, <2>1, <2>3, <3>1, ObeysFields, ZenonT(30)
  <2> QED BY <1>2, <2>2, <2>3
<1>9. AfterFits(patch[p])'
  <2>1. CASE c.at = "modelEnter"
    <3>1. d.at = IF c.want.effort # c.was.effort THEN "effort" ELSE "record"
      BY <1>5, <2>1 DEF Following, AfterModel
    <3> QED BY <1>2, <1>3, <1>5, <1>7, <1>known, <2>1, <3>1 DEF AfterFits
  <2>2. CASE c.at = "effortEnter"
    <3>1. d.at = "record"
      BY <1>5, <2>2 DEF Following
    <3> QED BY <1>2, <1>3, <1>5, <1>8, <1>known, <2>2, <3>1 DEF AfterFits
  <2> QED BY <1>1, <2>1, <2>2
<1>10. HandlerFits(p)' /\ Touches(p)'
  <2>1. d.at # "writing"
    BY <1>5, <1>6 DEF After, Typed
  <2> QED BY <1>5, <1>6, <1>9, <2>1 DEF HandlerFits, Touches
<1>11. \A q \in Patches : q # p => ~Touches(q)'
  BY <1>4, <1>5 DEF Touches, Running
<1> QED BY <1>10, <1>11, OneFits

\* The human enters it: nothing, or a command that a handler has typed.
LEMMA HumanSubmitsFits ==
    ASSUME IInv, SInv, HumanSubmits
    PROVE  SessionFits'
<1>0. UNCHANGED <<row, box, patch, write>> /\ Known' = Known
  BY DEF HumanSubmits, Known
<1> SUFFICES ASSUME ~spoilt'
             PROVE  /\ (\A q \in Patches : ~Touches(q)) => BeforeFits'
                    /\ \A q \in Patches : HandlerFits(q)'
  BY <1>0 DEF SessionFits, Touches, Running
<1>1. /\ TypeOK /\ Submit
      /\ Known.model /\ Known.effort /\ Known["model"] /\ Known["effort"]
  BY DEF IInv, HumanSubmits, Known
<1>2. /\ Held' = {} /\ ~spoilt
      /\ \/ Held \subseteq {Text} /\ session' = session
         \/ \E piece \in Pieces : Held = {piece} /\ session' = Obeys(piece)
  BY <1>1, HeldAfterSubmit
<1>3. Held \subseteq {Text} => session' = session
  BY <1>1, <1>2, ObeysFields
<1>4. ASSUME \A q \in Patches : ~Touches(q)
      PROVE  BeforeFits'
  <2>1. BeforeFits
    BY <1>2, <1>4 DEF SInv, SessionFits
  <2> QED BY <1>0, <1>2, <1>3, <2>1 DEF BeforeFits
<1>5. ASSUME NEW p \in Patches, patch[p].at \in After
      PROVE  AfterFits(patch[p])'
  <2> DEFINE c == patch[p]
  <2>1. AfterFits(c)
    BY <1>2, <1>5 DEF SInv, SessionFits, HandlerFits
  <2>2. c' = c
    BY <1>0
  <2>3. ASSUME NEW field \in {"model", "effort"}, Sending(c, field)
        PROVE  /\ session'[field] = c.want[field]
               /\ field = "model" => session'.effort = session.effort
               /\ field = "effort" => session'.model = session.model
    <3>1. /\ Held \subseteq {Text, <<field, c.want[field]>>}
          /\ Held \subseteq {Text} => session[field] = c.want[field]
      BY <1>1, <2>3 DEF Sending
    <3>2. CASE Held \subseteq {Text} /\ session' = session
      BY <3>1, <3>2
    <3>3. ASSUME NEW piece \in Pieces, Held = {piece},
                 session' = Obeys(piece)
          PROVE  /\ session'[field] = c.want[field]
                 /\ field = "model" => session'.effort = session.effort
                 /\ field = "effort" => session'.model = session.model
      <4>1. piece = Text \/ piece = <<field, c.want[field]>>
        BY <3>1, <3>3
      <4>2. CASE piece = Text
        BY <1>1, <3>1, <3>3, <4>2, ObeysFields
      <4>3. CASE piece = <<field, c.want[field]>>
        BY <1>1, <3>3, <4>3, ObeysFields, ZenonT(30)
      <4> QED BY <4>1, <4>2, <4>3
    <3> QED BY <1>2, <3>2, <3>3
  <2>4. CASE c.at \in {"model", "effort", "record"}
    BY <1>0, <1>2, <1>3, <2>1, <2>4 DEF AfterFits
  <2>5. CASE c.at = "modelEnter"
    BY <1>0, <1>1, <1>2, <2>1, <2>3, <2>5 DEF AfterFits, Sending
  <2>6. CASE c.at = "effortEnter"
    BY <1>0, <1>1, <1>2, <2>1, <2>3, <2>6 DEF AfterFits, Sending
  <2> QED BY <1>5, <2>4, <2>5, <2>6 DEF After, Typed
<1>6. ASSUME NEW p \in Patches, patch[p].at = "writing", Running(p)
      PROVE  WritingFits(patch[p])'
  <2>1. WritingFits(patch[p])
    BY <1>2, <1>6 DEF SInv, SessionFits, HandlerFits
  <2> QED BY <1>0, <1>2, <1>3, <2>1 DEF WritingFits
<1>7. \A q \in Patches : HandlerFits(q)'
  BY <1>0, <1>5, <1>6 DEF HandlerFits, Running
<1> QED BY <1>4, <1>7

\* The human types behind whatever the prompt holds.
LEMMA HumanTypesFits ==
    ASSUME IInv, SInv, HumanTypes
    PROVE  SessionFits'
<1>1. Held' = Held \cup {Text}
  BY HeldAfterTyping DEF IInv, HumanTypes
<1>2. UNCHANGED <<row, box, session, patch, write, spoilt>> /\ Known' = Known
  BY DEF HumanTypes, history, Known
<1> SUFFICES ASSUME ~spoilt
             PROVE  /\ (\A q \in Patches : ~Touches(q)) => BeforeFits'
                    /\ \A q \in Patches : HandlerFits(q)'
  BY <1>2 DEF SessionFits, Touches, Running
<1>3. (\A q \in Patches : ~Touches(q)) => BeforeFits'
  BY <1>1, <1>2 DEF SInv, SessionFits, BeforeFits
<1>4. ASSUME NEW p \in Patches PROVE HandlerFits(p)'
  <2>1. HandlerFits(p)
    BY <1>4 DEF SInv, SessionFits
  <2>2. WritingFits(patch[p]) => WritingFits(patch[p])'
    BY <1>1, <1>2 DEF WritingFits
  <2>3. AfterFits(patch[p]) => AfterFits(patch[p])'
    BY <1>1, <1>2 DEF AfterFits, Sending
  <2> QED BY <1>2, <2>1, <2>2, <2>3 DEF HandlerFits, Running
<1> QED BY <1>3, <1>4

\* The row takes over what the session runs with by then.
LEMMA RecordsFits ==
    ASSUME IInv, SInv, NEW p \in Patches, Records(p)
    PROVE  SessionFits'
<1>1. /\ UNCHANGED <<box, session, prompt, write, spoilt>>
      /\ row' = patch[p].want
  BY DEF Records
<1>2. Held' = Held /\ Known' = Known
  BY <1>1 DEF Held, Known
<1> SUFFICES ASSUME ~spoilt
             PROVE  /\ BeforeFits'
                    /\ \A q \in Patches : ~Touches(q)'
  BY <1>1 DEF SessionFits, HandlerFits, Touches
<1>3. /\ patch[p].at = "record" /\ InFlight(p)
  BY DEF Records, InFlight
<1>4. /\ \A q \in Patches : q # p => ~Touches(q)
      /\ ~Running(p)
  BY <1>3, OneInFlight
<1>5. AfterFits(patch[p])
  BY <1>3 DEF SInv, SessionFits, HandlerFits, After
<1>6. BeforeFits'
  BY <1>1, <1>2, <1>3, <1>5 DEF AfterFits, BeforeFits
<1>7. /\ patch'[p].at = "idle"
      /\ \A q \in Patches : q # p => patch'[q] = patch[q]
  BY DEF Records, Answer, Idle, IInv, TypeOK
<1> QED BY <1>1, <1>4, <1>6, <1>7 DEF Touches, Running, After, Typed

\* Where everything is settled, what a container that starts reads is what the
\* row says, or what a handler that is alone is writing or has written.
LEMMA StartFinds ==
    ASSUME IInv, SInv, settled
    PROVE  /\ (\A p \in Patches : ~Touches(p)) => NextStart = row
           /\ \A p \in Patches :
                patch[p].at \in After => NextStart = patch[p].want
           /\ \A p \in Patches : patch[p].at = "writing" /\ Running(p) =>
                /\ write[p].at # "modelOpen" =>
                       NextStart.model = patch[p].want.model
                /\ write[p].at # "effortOpen" =>
                       NextStart.effort = patch[p].was.effort
<1>1. (\A p \in Patches : ~Touches(p)) => NextStart = row
  BY DEF IInv, Agreement
<1>2. ASSUME NEW p \in Patches, patch[p].at \in After
      PROVE  NextStart = patch[p].want
  <2>1. file = patch[p].want
    BY <1>2 DEF IInv, SettledIsAlone, WrittenStays, InFlight, After, Typed
  <2> QED BY <2>1, WrittenDecides DEF IInv, TypeOK
<1>3. ASSUME NEW p \in Patches, patch[p].at = "writing", Running(p)
      PROVE  /\ write[p].at # "modelOpen" =>
                    NextStart.model = patch[p].want.model
             /\ write[p].at # "effortOpen" =>
                    NextStart.effort = patch[p].was.effort
  <2>1. patch[p].alone /\ patch[p].was = row /\ Halfway(p)
    BY <1>3 DEF IInv, SInv, SettledIsAlone, WrittenStays, WasRow, InFlight
  <2>2. patch[p].want.model # NoFile
    BY NoFileIsOutside DEF IInv, TypeOK, Choices
  <2>3. write[p].at # "modelOpen" =>
            NextStart.model = patch[p].want.model
    BY <2>1, <2>2 DEF Halfway, NextStart, Flag
  <2> QED BY <2>1, <2>3 DEF Halfway
<1> QED BY <1>1, <1>2, <1>3

\* A file that is read while it is empty: only where its command follows.
LEMMA NotTorn ==
    ASSUME IInv, NEW p \in Patches, patch[p].at = "writing", Running(p)
    PROVE  /\ ~Torn("model", "modelOpen") /\ write[p].at = "modelOpen" =>
                  patch[p].want.model # patch[p].was.model
           /\ ~Torn("effort", "effortOpen") /\ write[p].at = "effortOpen" =>
                  patch[p].want.effort # patch[p].was.effort
<1>1. write[p].want = patch[p].want
  BY DEF IInv, ScriptIsOurs
<1> QED BY <1>1 DEF Torn

\* The container starts afresh, with an empty prompt: the first file is read.
LEMMA ReadsModelFits ==
    ASSUME IInv, SInv, ReadsModel
    PROVE  SessionFits'
<1>1. /\ UNCHANGED <<row, patch, write, prompt>>
      /\ prompt = <<>> /\ session'.model = NextStart.model
      /\ Known'.model /\ ~Known'.effort
      /\ Known'["model"] /\ ~Known'["effort"]
  BY DEF ReadsModel, SInv, NoPromptYet, Known, IInv, TypeOK, Seen
<1>2. Held' = {}
  BY <1>1 DEF Held
<1> SUFFICES ASSUME ~spoilt'
             PROVE  /\ (\A q \in Patches : ~Touches(q)) => BeforeFits'
                    /\ \A q \in Patches : HandlerFits(q)'
  BY <1>1 DEF SessionFits, Touches, Running
<1>3. settled /\ ~Torn("model", "modelOpen")
  BY Zenon DEF ReadsModel, SInv, SpoiltIfUnsettled
<1>4. (\A q \in Patches : ~Touches(q)) => BeforeFits'
  BY <1>1, <1>2, <1>3, StartFinds DEF BeforeFits
<1>5. ASSUME NEW p \in Patches, patch[p].at \in After
      PROVE  AfterFits(patch[p])'
  <2>1. session'.model = patch[p].want.model
    BY <1>1, <1>3, <1>5, StartFinds
  <2>2. Sending(patch[p], "model")' /\ Sending(patch[p], "effort")'
    BY <1>1, <1>2, <2>1 DEF Sending
  <2> QED BY <1>1, <1>2, <2>1, <2>2 DEF AfterFits
<1>6. ASSUME NEW p \in Patches, patch[p].at = "writing", Running(p)
      PROVE  WritingFits(patch[p])'
  <2>1. write[p].at # "modelOpen" => session'.model = patch[p].want.model
    BY <1>1, <1>3, <1>6, StartFinds
  <2>2. write[p].at = "modelOpen" => patch[p].want.model # patch[p].was.model
    BY <1>3, <1>6, NotTorn
  <2> QED BY <1>1, <1>2, <2>1, <2>2 DEF WritingFits
<1>7. \A q \in Patches : HandlerFits(q)'
  BY <1>1, <1>5, <1>6 DEF HandlerFits, Running
<1> QED BY <1>4, <1>7

\* The second file is read: what holds of the model stays.
LEMMA ReadsEffortFits ==
    ASSUME IInv, SInv, ReadsEffort
    PROVE  SessionFits'
<1>1. /\ UNCHANGED <<row, patch, write, prompt>>
      /\ prompt = <<>> /\ session'.effort = NextStart.effort
      /\ session'.model = session.model /\ Known.model
      /\ Known["model"]
  BY DEF ReadsEffort, SInv, NoPromptYet, Known, IInv, TypeOK, Seen
<1>2. Held' = {} /\ Held = {}
  BY <1>1 DEF Held
<1> SUFFICES ASSUME ~spoilt'
             PROVE  /\ (\A q \in Patches : ~Touches(q)) => BeforeFits'
                    /\ \A q \in Patches : HandlerFits(q)'
  BY <1>1 DEF SessionFits, Touches, Running
<1>3. settled /\ ~spoilt /\ ~Torn("effort", "effortOpen")
  BY Zenon DEF ReadsEffort, SInv, SpoiltIfUnsettled
<1>4. (\A q \in Patches : ~Touches(q)) => BeforeFits'
  BY <1>1, <1>2, <1>3, StartFinds DEF SInv, SessionFits, BeforeFits
<1>5. ASSUME NEW p \in Patches, patch[p].at \in After
      PROVE  AfterFits(patch[p])'
  <2>1. session'.effort = patch[p].want.effort
    BY <1>1, <1>3, <1>5, StartFinds
  <2>2. AfterFits(patch[p])
    BY <1>3, <1>5 DEF SInv, SessionFits, HandlerFits
  <2>3. Sending(patch[p], "effort")'
    BY <1>1, <1>2, <2>1 DEF Sending
  <2>4. Sending(patch[p], "model") => Sending(patch[p], "model")'
    BY <1>1, <1>2 DEF Sending
  <2> QED BY <1>1, <1>2, <2>1, <2>2, <2>3, <2>4 DEF AfterFits
<1>6. ASSUME NEW p \in Patches, patch[p].at = "writing", Running(p)
      PROVE  WritingFits(patch[p])'
  <2>1. write[p].at # "effortOpen" => session'.effort = patch[p].was.effort
    BY <1>1, <1>3, <1>6, StartFinds
  <2>2. write[p].at = "effortOpen" =>
            patch[p].want.effort # patch[p].was.effort
    BY <1>3, <1>6, NotTorn
  <2>3. WritingFits(patch[p])
    BY <1>3, <1>6 DEF SInv, SessionFits, HandlerFits
  <2> QED BY <1>1, <1>2, <2>1, <2>2, <2>3 DEF WritingFits
<1>7. \A q \in Patches : HandlerFits(q)'
  BY <1>1, <1>5, <1>6 DEF HandlerFits, Running
<1> QED BY <1>4, <1>7

\* A container that stops takes the session with it.
LEMMA StopsFits ==
    ASSUME IInv, SInv, ContainerStops
    PROVE  SessionFits'
<1>1. /\ ~Known'.model /\ ~Known'.effort
      /\ ~Known'["model"] /\ ~Known'["effort"]
  BY DEF ContainerStops, Known
<1>held. Held' = {}
  BY DEF ContainerStops, Held
<1>2. BeforeFits'
  BY <1>1, <1>held DEF BeforeFits
<1>3. \A q \in Patches : HandlerFits(q)'
  BY <1>1, <1>held DEF HandlerFits, WritingFits, AfterFits, Sending
<1> QED BY <1>2, <1>3 DEF SessionFits

-----------------------------------------------------------------------------
\* What a handler wants to change is still the row, in every step.
LEMMA WasRowStep ==
    ASSUME IInv, SInv, Next
    PROVE  WasRow'
<1>0. ASSUME row' = row,
             \A q \in Patches :
                 \/ ~patch'[q].alone
                 \/ /\ patch'[q].was = patch[q].was
                    /\ patch[q].alone
                    /\ InFlight(q)' => InFlight(q)
      PROVE  WasRow'
  BY <1>0 DEF SInv, WasRow
<1>1. ASSUME NEW p \in Patches, NEW ch \in Changes, PatchArrives(p, ch)
      PROVE  WasRow'
  <2>1. /\ patch'[p].was = row /\ row' = row
        /\ \A q \in Patches : q # p => ~patch'[q].alone
    BY <1>1 DEF PatchArrives, IInv, TypeOK
  <2> QED BY <2>1 DEF WasRow
<1>2. ASSUME NEW p \in Patches, Records(p) PROVE WasRow'
  <2>1. /\ patch'[p] = Idle /\ UNCHANGED write
        /\ \A q \in Patches : q # p => patch'[q] = patch[q]
        /\ InFlight(p)
    BY <1>2 DEF Records, Answer, IInv, TypeOK, InFlight
  <2> QED BY <2>1 DEF IInv, AloneIsAlone, WasRow, InFlight, Running, Idle
<1>3. ASSUME NEW p \in Patches, Answer(p), row' = row,
             \A q \in Patches : Running(q)' => Running(q)
      PROVE  WasRow'
  <2>1. /\ ~patch'[p].alone
        /\ \A q \in Patches : q # p => patch'[q] = patch[q]
    BY <1>3 DEF Answer, Idle, IInv, TypeOK
  <2> QED BY <1>0, <1>3, <2>1 DEF InFlight
<1>4. ASSUME NEW p \in Patches, patch[p].at # "idle", row' = row, NEW at,
             patch' = [patch EXCEPT ![p].at = at],
             \A q \in Patches : q # p => (Running(q)' => Running(q))
      PROVE  WasRow'
  <2>1. \A q \in Patches :
            /\ patch'[q].was = patch[q].was
            /\ patch'[q].alone = patch[q].alone
            /\ q # p => patch'[q] = patch[q]
    BY <1>4 DEF IInv, TypeOK
  <2> QED BY <1>0, <1>4, <2>1 DEF InFlight
<1>5. ASSUME row' = row, UNCHANGED patch,
             \A q \in Patches : Running(q)' => Running(q)
      PROVE  WasRow'
  BY <1>0, <1>5 DEF InFlight
<1>6. ASSUME NEW p \in Patches, SeesNotReady(p) \/ ExecRefused(p)
                                \/ CallFails(p)
      PROVE  WasRow'
  BY <1>3, <1>6
  DEF SeesNotReady, ExecRefused, CallFails, Abandons, Running
<1>7. ASSUME NEW p \in Patches, SeesReady(p) PROVE WasRow'
  <2>1. /\ patch[p].at # "idle" /\ row' = row /\ UNCHANGED write
        /\ patch' = [patch EXCEPT ![p].at = "override"]
    BY <1>7 DEF SeesReady
  <2> QED BY <1>4, <2>1 DEF Running
<1>8. ASSUME NEW p \in Patches, NEW field \in {"model", "effort"},
             Types(p, field) \/ Enters(p)
      PROVE  WasRow'
  <2>1. /\ patch[p].at # "idle" /\ row' = row /\ UNCHANGED write
        /\ patch' = [patch EXCEPT ![p].at = Following(patch[p])]
    BY <1>8 DEF Types, Enters, Advance
  <2> QED BY <1>4, <2>1 DEF Running
<1>9. ASSUME NEW p \in Patches, Overrides(p) PROVE WasRow'
  <2>1. /\ patch[p].at # "idle" /\ row' = row
        /\ patch' = [patch EXCEPT ![p].at = "writing"]
        /\ \A q \in Patches : q # p => write'[q] = write[q]
    BY <1>9 DEF Overrides, IInv, TypeOK
  <2> QED BY <1>4, <2>1 DEF Running
<1>10. ASSUME NEW p \in Patches, Script(p) PROVE WasRow'
  <2>1. /\ row' = row /\ Running(p)
        /\ \A q \in Patches : q # p => write'[q] = write[q]
    BY <1>10 DEF Script, WritesModel, OpensEffort, WritesEffort, Running,
       IInv, TypeOK
  <2>2. \A q \in Patches : Running(q)' => Running(q)
    BY <2>1 DEF Running
  <2>3. CASE UNCHANGED patch
    BY <1>5, <2>1, <2>2, <2>3
  <2>4. CASE patch[p].at = "writing" /\ Advance(p)
    BY <1>4, <2>1, <2>2, <2>4 DEF Advance
  <2> QED BY <1>10, <2>3, <2>4
          DEF Script, WritesModel, OpensEffort, WritesEffort
<1>11. ASSUME NEW p \in Patches, ScriptFails(p) PROVE WasRow'
  <2>1. /\ row' = row /\ ~Running(p)'
        /\ \A q \in Patches : q # p => write'[q] = write[q]
    BY <1>11 DEF ScriptFails, Running, NoScript, IInv, TypeOK
  <2>2. \A q \in Patches : Running(q)' => Running(q)
    BY <2>1 DEF Running
  <2> QED BY <1>3, <1>5, <1>11, <2>1, <2>2 DEF ScriptFails, Abandons
<1>12. ASSUME NEW p \in Patches, Mistaken(p) PROVE WasRow'
  <2>1. row' = row /\ UNCHANGED write /\ patch[p].at # "idle"
    BY <1>12 DEF Mistaken, Typed
  <2>2. CASE patch[p].at = "writing"
    <3>1. /\ ~patch'[p].alone
          /\ \A q \in Patches : q # p => patch'[q] = patch[q]
      BY <1>12, <2>2 DEF Mistaken, IInv, TypeOK
    <3> QED BY <1>0, <2>1, <3>1 DEF InFlight, Running
  <2>3. CASE patch[p].at # "writing"
    BY <1>4, <1>12, <2>1, <2>3 DEF Mistaken, Advance, Running
  <2> QED BY <2>2, <2>3
<1>13. CASE Container
  <2>1. /\ row' = row /\ UNCHANGED patch
        /\ \A q \in Patches : Running(q)' => Running(q)
    BY <1>13 DEF Container, ContainerStops, ContainerStarts, ReadsModel,
       ReadsEffort, SessionUp, HumanTypes, HumanSubmits, Running, NoScript
  <2> QED BY <1>5, <2>1
<1>14. CASE Restart
  BY <1>14 DEF Restart, WasRow, Idle
<1>15. ASSUME NEW p \in Patches, Handles(p) PROVE WasRow'
  BY <1>2, <1>6, <1>7, <1>8, <1>9, <1>15 DEF Handles
<1> QED BY <1>1, <1>6, <1>10, <1>11, <1>12, <1>13, <1>14, <1>15 DEF Next

\* Nothing is half done unnoticed, and a pane that goes takes its prompt with
\* it.
LEMMA SpoiltIfUnsettledStep ==
    ASSUME IInv, SInv, Next
    PROVE  SpoiltIfUnsettled'
<1> USE DEF SInv, SpoiltIfUnsettled
<1>1. ASSUME NEW p \in Patches, NEW ch \in Changes, PatchArrives(p, ch)
      PROVE  SpoiltIfUnsettled'
  BY Zenon, <1>1 DEF PatchArrives
<1>2. ASSUME NEW p \in Patches, Abandons(p) PROVE SpoiltIfUnsettled'
  BY Zenon, <1>2 DEF Abandons
<1>3. ASSUME NEW p \in Patches, Handles(p) PROVE SpoiltIfUnsettled'
  BY ZenonT(30), <1>2, <1>3 DEF Handles, SeesReady, SeesNotReady, Overrides,
     Types, Enters, Submit, Records, ExecRefused, history
<1>4. ASSUME NEW p \in Patches,
             Script(p) \/ ScriptFails(p) \/ CallFails(p) \/ Mistaken(p)
      PROVE  SpoiltIfUnsettled'
  BY ZenonT(30), <1>2, <1>4 DEF Script, WritesModel, OpensEffort,
     WritesEffort, ScriptFails, CallFails, Mistaken, history
<1>5. CASE Container
  <2>1. CASE ReadsModel \/ ReadsEffort
    <3>1. UNCHANGED settled /\ (settled \/ spoilt')
      <4>1. CASE ReadsModel
        <5>1. settled \/ (spoilt /\ ~settled)
          BY Zenon
        <5>2. settled \/ spoilt'
          BY Zenon, <4>1, <5>1 DEF ReadsModel
        <5> QED BY <4>1, <5>2 DEF ReadsModel
      <4>2. CASE ReadsEffort
        <5>1. settled \/ spoilt'
          BY Zenon, <4>2 DEF ReadsEffort
        <5> QED BY <4>2, <5>1 DEF ReadsEffort
      <4> QED BY <2>1, <4>1, <4>2
    <3> QED BY Zenon, <3>1
  <2>2. CASE ContainerStops \/ ContainerStarts \/ SessionUp \/ HumanTypes
    BY <2>2 DEF ContainerStops, ContainerStarts, SessionUp, HumanTypes,
       history
  <2>3. CASE HumanSubmits
    <3>1. settled' = settled
      BY <2>3 DEF HumanSubmits
    <3>2. spoilt' \/ ~spoilt
      BY <2>3 DEF HumanSubmits, Submit
    <3> QED BY Zenon, <3>1, <3>2
  <2> QED BY <1>5, <2>1, <2>2, <2>3 DEF Container
<1>6. CASE Restart
  <2>1. \/ \A p \in Patches : patch[p].at \in {"idle", "asked", "override"}
        \/ \E p \in Patches :
               patch[p].at \notin {"idle", "asked", "override"}
    OBVIOUS
  <2> QED BY Zenon, <1>6, <2>1 DEF Restart
<1> QED BY Zenon, <1>1, <1>3, <1>4, <1>5, <1>6 DEF Next

LEMMA NoPromptYetStep ==
    ASSUME IInv, SInv, Next
    PROVE  NoPromptYet'
<1> USE DEF SInv, NoPromptYet
<1>1. ASSUME NEW p \in Patches, Handles(p) PROVE NoPromptYet'
  BY <1>1 DEF Handles, SeesReady, SeesNotReady, Overrides, Types, Enters,
     Records, ExecRefused
<1>2. CASE Container
  BY <1>2 DEF Container, ContainerStops, ContainerStarts, ReadsModel,
     ReadsEffort, SessionUp, HumanTypes, HumanSubmits, Boxes
<1>3. ASSUME NEW p \in Patches,
             Script(p) \/ ScriptFails(p) \/ CallFails(p) \/ Mistaken(p)
      PROVE  NoPromptYet'
  BY <1>3 DEF Script, WritesModel, OpensEffort, WritesEffort, ScriptFails,
     CallFails, Mistaken
<1> QED BY <1>1, <1>2, <1>3 DEF Next, PatchArrives, Restart

\* What the session runs with, in every step.
LEMMA SessionFitsStep ==
    ASSUME IInv, SInv, Next
    PROVE  SessionFits'
<1>0. ASSUME UNCHANGED <<row, session, prompt, box>>, spoilt' \/ ~spoilt,
             ~spoilt' => \A q \in Patches :
                 \/ ~Touches(q) /\ ~Touches(q)'
                 \/ patch'[q] = patch[q] /\ (Running(q)' <=> Running(q))
      PROVE  SessionFits'
  <2>1. Known' = Known
    BY <1>0 DEF Known
  <2> QED BY <1>0, <2>1, SessionStays
<1>1. ASSUME NEW p \in Patches, NEW ch \in Changes, PatchArrives(p, ch)
      PROVE  SessionFits'
  <2>1. /\ UNCHANGED <<row, session, prompt, box, write>>
        /\ spoilt' \/ ~spoilt
        /\ ~spoilt' => Quiet
    BY <1>1 DEF PatchArrives
  <2>2. ASSUME Quiet, NEW q \in Patches
        PROVE  ~Touches(q) /\ ~Touches(q)'
    <3>1. patch[q].at = "idle" /\ ~Running(q) /\ ~Running(q)'
      BY <2>1, <2>2 DEF Quiet, InFlight, Running
    <3>2. patch'[q].at \in {"idle", "asked"}
      BY <1>1, <3>1 DEF PatchArrives, IInv, TypeOK
    <3> QED BY <3>1, <3>2 DEF Touches, After, Typed
  <2> QED BY <1>0, <2>1, <2>2
<1>2. ASSUME NEW p \in Patches, patch[p].at \in {"asked", "override"},
             \/ Answer(p)
             \/ patch' = [patch EXCEPT ![p].at = "override"],
             UNCHANGED <<row, session, prompt, box, write, spoilt>>
      PROVE  SessionFits'
  <2>1. ASSUME ~spoilt PROVE ~Running(p)
    BY <1>2, <2>1, OneInFlight DEF InFlight
  <2>2. /\ patch'[p].at \in {"idle", "override"}
        /\ \A q \in Patches : q # p => patch'[q] = patch[q]
    BY <1>2 DEF Answer, Idle, IInv, TypeOK
  <2>3. ~spoilt' => \A q \in Patches :
            \/ ~Touches(q) /\ ~Touches(q)'
            \/ patch'[q] = patch[q] /\ (Running(q)' <=> Running(q))
    BY <1>2, <2>1, <2>2 DEF Touches, Running, After, Typed
  <2>4. spoilt' \/ ~spoilt
    BY Zenon, <1>2
  <2> QED BY <1>0, <1>2, <2>3, <2>4
<1>3. ASSUME NEW p \in Patches, SeesReady(p) \/ SeesNotReady(p)
      PROVE  SessionFits'
  BY <1>2, <1>3 DEF SeesReady, SeesNotReady, history
<1>4. ASSUME NEW p \in Patches, ExecRefused(p) \/ CallFails(p)
      PROVE  SessionFits'
  <2>1. /\ Answer(p) /\ UNCHANGED <<row, session, prompt, box, write>>
        /\ spoilt' = (spoilt \/ patch[p].at \notin {"asked", "override"})
    BY <1>4 DEF ExecRefused, CallFails, Abandons
  <2>2. CASE patch[p].at \in {"asked", "override"} /\ spoilt' = spoilt
    BY <1>2, <2>1, <2>2
  <2>3. CASE spoilt'
    BY <2>3 DEF SessionFits
  <2>4. CASE patch[p].at \in {"asked", "override"} /\ spoilt' # spoilt
    <3>1. spoilt' \in BOOLEAN /\ spoilt \in BOOLEAN
      BY <2>1 DEF IInv, TypeOK
    <3>2. spoilt' = spoilt
      BY Zenon, <2>1, <2>4, <3>1
    <3> QED BY <2>4, <3>2
  <2>5. patch[p].at \in {"asked", "override"} \/ spoilt'
    BY Zenon, <2>1
  <2> QED BY <2>2, <2>3, <2>4, <2>5
<1>5. ASSUME NEW p \in Patches, ScriptFails(p) PROVE SessionFits'
  <2>1. CASE patch[p].at = "writing"
    <3>1. spoilt'
      BY <1>5, <2>1 DEF ScriptFails, Abandons
    <3> QED BY <3>1 DEF SessionFits
  <2>2. CASE patch[p].at # "writing"
    <3>1. spoilt
      BY <1>5, <2>2, OneInFlight DEF ScriptFails, InFlight
    <3>2. spoilt'
      BY <1>5, <2>2, <3>1 DEF ScriptFails
    <3> QED BY <3>2 DEF SessionFits
  <2> QED BY <2>1, <2>2
<1>6. CASE Restart
  <2>1. /\ UNCHANGED <<row, session, prompt, box, write>>
        /\ \A q \in Patches : patch'[q].at = "idle"
        /\ spoilt' \/ ~spoilt
    BY Zenon, <1>6 DEF Restart, Idle
  <2>2. ASSUME ~spoilt', NEW q \in Patches
        PROVE  ~Touches(q) /\ ~Touches(q)'
    <3>1. /\ patch[q].at \in {"idle", "asked", "override"} /\ ~spoilt
      BY Zenon, <1>6, <2>2 DEF Restart
    <3>2. ~Running(q)
      BY <3>1, OneInFlight DEF InFlight
    <3> QED BY <2>1, <3>1, <3>2 DEF Touches, Running, After, Typed
  <2> QED BY <1>0, <2>1, <2>2
<1>7. CASE SessionUp \/ ContainerStarts
  <2>1. /\ UNCHANGED <<row, session, prompt, patch, write, spoilt>>
        /\ Known'.model => Known.model
        /\ Known'.effort => Known.effort
    BY <1>7 DEF SessionUp, ContainerStarts, history, Known
  <2>2. \A q \in Patches : Running(q)' <=> Running(q)
    BY <2>1 DEF Running
  <2> QED BY <2>1, <2>2, SessionStays
<1>8. CASE Container
  BY <1>7, <1>8, ReadsModelFits, ReadsEffortFits, StopsFits,
     HumanTypesFits, HumanSubmitsFits
  DEF Container
<1>9. ASSUME NEW p \in Patches, Mistaken(p) PROVE SessionFits'
  BY <1>9 DEF Mistaken, SessionFits
<1>10. ASSUME NEW p \in Patches, Handles(p) PROVE SessionFits'
  BY <1>3, <1>4, <1>10, OverridesFits, TypesFits, EntersFits, RecordsFits
  DEF Handles
<1>11. ASSUME NEW p \in Patches, Script(p) PROVE SessionFits'
  BY <1>11, ScriptFits, WritesEffortFits DEF Script
<1> QED BY <1>1, <1>4, <1>5, <1>6, <1>8, <1>9, <1>10, <1>11 DEF Next

LEMMA SInvInit == Init => SInv
<1> SUFFICES ASSUME Init PROVE SInv
  OBVIOUS
<1>1. /\ \A p \in Patches : patch[p].at = "idle" /\ ~Running(p)
      /\ Held = {} /\ session = row /\ settled
  BY DEF Init, Idle, Held, NoScript, Running
<1> QED BY <1>1
        DEF SInv, SpoiltIfUnsettled, WasRow, NoPromptYet, SessionFits,
            HandlerFits, BeforeFits, InFlight, After, Typed, Init

LEMMA SInvStep == IInv /\ SInv /\ [Next]_vars => SInv'
<1>1. ASSUME IInv, SInv, Next PROVE SInv'
  BY <1>1, SpoiltIfUnsettledStep, WasRowStep, NoPromptYetStep,
     SessionFitsStep
  DEF SInv
<1>2. ASSUME SInv, UNCHANGED vars PROVE SInv'
  <2>1. /\ UNCHANGED <<row, session, prompt, box, patch, write, spoilt>>
        /\ UNCHANGED settled /\ Known' = Known
    BY <1>2 DEF vars, state, history, Known
  <2>2. \A q \in Patches : Running(q)' <=> Running(q)
    BY <2>1 DEF Running
  <2>3. SessionFits'
    BY <1>2, <2>1, <2>2, SessionStays
  <2>4. SpoiltIfUnsettled' /\ WasRow' /\ NoPromptYet'
    BY <1>2, <2>1, <2>2 DEF SInv, SpoiltIfUnsettled, WasRow, NoPromptYet,
       InFlight
  <2> QED BY <2>3, <2>4 DEF SInv
<1> QED BY <1>1, <1>2

\* A session that missed no command since it was started runs with what the
\* row says, whenever no PATCH is under way: also one that was started in the
\* middle of a PATCH, unless it read a file while a script held it empty that
\* nothing is typed for, and whatever the human typed in between.
THEOREM SessionFollows == Spec => []SessionAgrees
<1>1. ASSUME IInv, SInv PROVE SessionAgrees
  <2>1. Quiet => \A p \in Patches : ~Touches(p)
    BY DEF Quiet, InFlight, Touches, After, Typed
  <2>2. box = "ready" => Known.model /\ Known.effort
    BY DEF Known
  <2> QED BY <1>1, <2>1, <2>2 DEF SInv, SessionFits, BeforeFits, SessionAgrees
<1> QED BY <1>1, SInvInit, SInvStep, Invariance, PTL DEF Spec

=============================================================================
