---------------------------- MODULE ModelSwitch ----------------------------
(***************************************************************************)
(* PATCH /instances/:id of one instance: the switch of its model and its   *)
(* effort level (setModelEffort in instances/service.ts), which has to     *)
(* reach the override files for the next container start, the session that *)
(* runs now, and the row, in this order and with an await before each.     *)
(*                                                                         *)
(* PATCHes run side by side; meanwhile the container stops and starts, a   *)
(* human types into the same prompt, calls to Docker fail or are taken for *)
(* a success they were not, and the server restarts.  The script that      *)
(* writes the override files runs in the container and goes on when the    *)
(* handler that asked for it has given up.  Which names are allowed is     *)
(* left to the schema: `Models` and `Efforts` are the allowed ones.  The   *)
(* instance has its container.                                             *)
(***************************************************************************)
EXTENDS Naturals, Sequences

CONSTANTS Models,     \* INSTANCE_MODELS
          Efforts,    \* INSTANCE_EFFORTS
          Null,       \* Claude Code's own default; an empty override file
          Keep,       \* a field the PATCH does not name
          NoFile,     \* an override file that was never written
          Garbled,    \* what two scripts leave that write over each other
          Patches,    \* PATCH handlers that can run at a time
          MaxPatches, \* PATCHes that change something
          MaxFaults,  \* calls or scripts that fail or are misjudged, restarts
          MaxOutside  \* times the container stops or the human types

ASSUME NullIsOutside == Null \notin Models \cup Efforts
ASSUME KeepIsOutside == Keep \notin Models \cup Efforts \cup {Null}
ASSUME NoFileIsOutside == NoFile \notin Models \cup Efforts \cup {Null}
ASSUME GarbledIsOutside ==
    Garbled \notin Models \cup Efforts \cup {Null, NoFile}
ASSUME BoundsAreNaturals ==
    {MaxPatches, MaxFaults, MaxOutside} \subseteq Nat

VARIABLES row,     \* instances.model and .effort
          env,     \* CLAUDE_MODEL and CLAUDE_EFFORT, fixed at the create
          file,    \* ~/.claudops/model and ~/.claudops/effort
          box,     \* the container, see Boxes
          session, \* what the Claude in the pane runs with
          prompt,  \* what stands in its prompt, not yet submitted
          patch,   \* each handler
          write,   \* the script each of them runs in the container
          told,    \* history: the choices the container was ever told
          assumed, \* history: those a handler took for told without knowing
          settled, \* history: no PATCH has failed half way or met another
                   \* since the last one that succeeded alone
          spoilt,  \* history: the session may have missed a command
          spent    \* the bounds used up

state == <<row, env, file, box, session, prompt, patch, write>>
history == <<told, assumed, settled, spoilt>>
vars == <<state, history, spent>>

-----------------------------------------------------------------------------
Choices == [model: Models \cup {Null}, effort: Efforts \cup {Null}]
Changes == [model: Models \cup {Null, Keep}, effort: Efforts \cup {Null, Keep}]
Default == [model |-> Null, effort |-> Null]

\* What a Claude may be started with.
Seen == [model: Models \cup {Null, Garbled},
         effort: Efforts \cup {Null, Garbled}]

\* `starting`: the entrypoint has read neither override; `reading`: that of the
\* model; `launching`: both, and there is no tmux session yet.
Boxes == {"stopped", "starting", "reading", "launching", "ready"}

\* What a handler does next: one exec each, but for `writing`, where it waits
\* for the script of its first one, and for `asked` and `record`.
Typed == {"model", "modelEnter", "effort", "effortEnter"}
Steps == {"idle", "asked", "override", "writing", "record"} \cup Typed

\* How far the script of overrideCommand is: a redirection empties the file
\* when it opens it, before printf writes.
Stages == {"none", "modelOpen", "modelSet", "effortOpen"}

\* Something half-written by the human, or a command.
Text == <<"text", Null>>
Pieces == {Text} \cup ({"model"} \X (Models \cup {Null}))
                 \cup ({"effort"} \X (Efforts \cup {Null}))

Idle == [at |-> "idle", was |-> Default, want |-> Default, alone |-> FALSE]
NoScript == [at |-> "none", want |-> Default]

TypeOK ==
    /\ row \in Choices /\ env \in Choices /\ session \in Seen
    /\ file \in [model: Models \cup {Null, NoFile, Garbled},
                 effort: Efforts \cup {Null, NoFile, Garbled}]
    /\ box \in Boxes
    /\ prompt \in Seq(Pieces)
    /\ patch \in [Patches -> [at: Steps, was: Choices, want: Choices,
                              alone: BOOLEAN]]
    /\ write \in [Patches -> [at: Stages, want: Choices]]
    /\ told \subseteq Choices /\ assumed \subseteq Choices
    /\ settled \in BOOLEAN /\ spoilt \in BOOLEAN
    /\ spent \in [patches: Nat, faults: Nat, outside: Nat]

\* An instance as its create left it: the row and the environment agree.
Init ==
    /\ row \in Choices
    /\ env = row
    /\ file = [model |-> NoFile, effort |-> NoFile]
    /\ box = "ready"
    /\ session = row
    /\ prompt = <<>>
    /\ patch = [p \in Patches |-> Idle]
    /\ write = [p \in Patches |-> NoScript]
    /\ told = {row} /\ assumed = {}
    /\ settled = TRUE
    /\ spoilt = FALSE
    /\ spent = [patches |-> 0, faults |-> 0, outside |-> 0]

-----------------------------------------------------------------------------
\* A script that outlives its handler is a PATCH under way.
Running(p) == write[p].at # "none"
InFlight(p) == patch[p].at # "idle" \/ Running(p)
Quiet == \A p \in Patches : ~InFlight(p)

\* Deviation: a field that is not named is taken for a value.
KeepIsAValue(next, stored) == next

\* resolveChoice: undefined keeps what is stored, null is a reset.
Resolve(next, stored) == IF next = Keep THEN stored ELSE next

\* Deviation: an empty file falls back to the environment.
EmptyFallsBack(over, given) ==
    IF over \in {NoFile, Null} THEN given ELSE over

\* claude_flag: an override file wins, an empty one means "no flag".
Flag(over, given) == IF over = NoFile THEN given ELSE over

NextStart == [model |-> Flag(file.model, env.model),
              effort |-> Flag(file.effort, env.effort)]

\* Deviation: a reset of the effort types nothing, as that of a model.
EffortFollowsUnlessReset(c) ==
    IF c.want.effort # c.was.effort /\ c.want.effort # Null
    THEN "effort" ELSE "record"

\* The handler's next step once the model is dealt with, and before that.
AfterModel(c) ==
    IF c.want.effort # c.was.effort THEN "effort" ELSE "record"
AfterOverride(c) ==
    IF c.want.model # c.was.model /\ c.want.model # Null
    THEN "model" ELSE AfterModel(c)
Following(c) ==
    CASE c.at = "writing" -> AfterOverride(c)
      [] c.at = "model" -> "modelEnter"
      [] c.at = "modelEnter" -> AfterModel(c)
      [] c.at = "effort" -> "effortEnter"
      [] c.at = "effortEnter" -> "record"

Advance(p) == patch' = [patch EXCEPT ![p].at = Following(patch[p])]
Answer(p) == patch' = [patch EXCEPT ![p] = Idle]
Spend(what, max) ==
    /\ spent[what] < max
    /\ spent' = [spent EXCEPT ![what] = @ + 1]

\* Enter in the pane.  Claude takes a line that is one command for a command
\* and obeys, or asks back in a dialog when its prompt cache is warm, which
\* nobody need ever answer; every other line is a message to it.
Obeys(piece) ==
    CASE piece[1] = "model" -> [session EXCEPT !.model = piece[2]]
      [] piece[1] = "effort" -> [session EXCEPT !.effort = piece[2]]
      [] OTHER -> session

Submit ==
    /\ prompt' = <<>>
    /\ \/ /\ Len(prompt) = 1
          /\ session' = Obeys(prompt[1])
          /\ spoilt' = spoilt
       \/ /\ session' = session
          /\ spoilt' = (spoilt \/ \E i \in 1 .. Len(prompt) : prompt[i] # Text)

-----------------------------------------------------------------------------
\* setModelEffort up to its first await.  A PATCH that changes nothing is
\* answered without a step.
PatchArrives(p, ch) ==
    LET want == [model |-> Resolve(ch.model, row.model),
                 effort |-> Resolve(ch.effort, row.effort)]
    IN /\ ~InFlight(p)
       /\ want # row
       /\ Spend("patches", MaxPatches)
       /\ patch' = [q \in Patches |->
                      IF q = p THEN [at |-> "asked", was |-> row,
                                     want |-> want, alone |-> Quiet]
                      ELSE [patch[q] EXCEPT !.alone = FALSE]]
       /\ settled' = (settled /\ Quiet)
       /\ spoilt' = (spoilt \/ ~Quiet)
       /\ UNCHANGED <<row, env, file, box, session, prompt, write, told,
                      assumed>>

\* Docker lists the container; a session that is not ready refuses the PATCH.
SeesReady(p) ==
    /\ patch[p].at = "asked"
    /\ box = "ready"
    /\ patch' = [patch EXCEPT ![p].at = "override"]
    /\ UNCHANGED <<row, env, file, box, session, prompt, write, history, spent>>

SeesNotReady(p) ==
    /\ patch[p].at = "asked"
    /\ box # "ready"
    /\ Answer(p)
    /\ UNCHANGED <<row, env, file, box, session, prompt, write, history, spent>>

\* The script of overrideCommand starts in the container and opens the first
\* file.
Overrides(p) ==
    /\ patch[p].at = "override"
    /\ box # "stopped"
    /\ patch' = [patch EXCEPT ![p].at = "writing"]
    /\ write' = [write EXCEPT
                   ![p] = [at |-> "modelOpen", want |-> patch[p].want]]
    /\ file' = [file EXCEPT !.model = Null]
    /\ UNCHANGED <<row, env, box, session, prompt, history, spent>>

\* What `printf %s` leaves in a file that is open: an empty value writes
\* nothing, and another script may have written since it was emptied.
Written(old, new) ==
    IF new = Null THEN {old}
    ELSE IF old \in {Null, new} THEN {new} ELSE {new, Garbled}

WritesModel(p) ==
    /\ write[p].at = "modelOpen"
    /\ write' = [write EXCEPT ![p].at = "modelSet"]
    /\ \E v \in Written(file.model, write[p].want.model) :
           file' = [file EXCEPT !.model = v]
    /\ UNCHANGED <<row, env, box, session, prompt, patch, history, spent>>

OpensEffort(p) ==
    /\ write[p].at = "modelSet"
    /\ write' = [write EXCEPT ![p].at = "effortOpen"]
    /\ file' = [file EXCEPT !.effort = Null]
    /\ UNCHANGED <<row, env, box, session, prompt, patch, history, spent>>

\* The script ends with 0, and a handler that still waits for it goes on.
WritesEffort(p) ==
    /\ write[p].at = "effortOpen"
    /\ write' = [write EXCEPT ![p] = NoScript]
    /\ \E v \in Written(file.effort, write[p].want.effort) :
           file' = [file EXCEPT !.effort = v]
    /\ told' = told \cup {write[p].want}
    /\ IF patch[p].at = "writing" THEN Advance(p) ELSE UNCHANGED patch
    /\ UNCHANGED <<row, env, box, session, prompt, assumed, settled, spoilt,
                   spent>>

\* sendLine, first exec: the command lands behind whatever is in the prompt.
Types(p, field) ==
    /\ patch[p].at = field
    /\ box = "ready"
    /\ prompt' = Append(prompt, <<field, patch[p].want[field]>>)
    /\ Advance(p)
    /\ UNCHANGED <<row, env, file, box, session, write, history, spent>>

\* sendLine, after its pause, second exec: Enter.
Enters(p) ==
    /\ patch[p].at \in {"modelEnter", "effortEnter"}
    /\ box = "ready"
    /\ Submit
    /\ Advance(p)
    /\ UNCHANGED <<row, env, file, box, write, told, assumed, settled, spent>>

\* The last answer is in: the row follows, in the same turn.
Records(p) ==
    /\ patch[p].at = "record"
    /\ row' = patch[p].want
    /\ Answer(p)
    /\ settled' = (settled \/ patch[p].alone)
    /\ UNCHANGED <<env, file, box, session, prompt, write, told, assumed,
                   spoilt, spent>>

\* What an abandoned PATCH leaves half done, if it came to that.
Abandons(p) ==
    /\ Answer(p)
    /\ settled' = (settled /\ patch[p].at \in {"asked", "override"})
    /\ spoilt' = (spoilt \/ patch[p].at \notin {"asked", "override"})

\* A stopped container runs no exec and has killed the script that ran, and
\* without a tmux session send-keys exits with 1: `run` throws, nothing that
\* follows happens.
Refused(p) ==
    \/ patch[p].at = "override" /\ box = "stopped"
    \/ patch[p].at = "writing" /\ ~Running(p)
    \/ patch[p].at \in Typed /\ box # "ready"

\* Deviation: the exit code is not looked at, the handler goes on.
IgnoresExitCode(p) ==
    /\ Refused(p) /\ patch[p].at # "override"
    /\ Advance(p)
    /\ UNCHANGED <<row, env, file, box, session, prompt, write, history, spent>>

ExecRefused(p) ==
    /\ Refused(p)
    /\ Abandons(p)
    /\ UNCHANGED <<row, env, file, box, session, prompt, write, told, assumed,
                   spent>>

\* A `printf` fails, or the shell that runs it: the file stays as it is, and
\* what follows is not run.
ScriptFails(p) ==
    /\ Running(p)
    /\ Spend("faults", MaxFaults)
    /\ write' = [write EXCEPT ![p] = NoScript]
    /\ IF patch[p].at = "writing" THEN Abandons(p)
       ELSE UNCHANGED <<patch, settled, spoilt>>
    /\ UNCHANGED <<row, env, file, box, session, prompt, told, assumed>>

\* A call fails, the listing included; a script that is running goes on.  An
\* answer that is lost after its command ran is the failure of the step that
\* follows.
CallFails(p) ==
    /\ patch[p].at # "idle"
    /\ Spend("faults", MaxFaults)
    /\ Abandons(p)
    /\ UNCHANGED <<row, env, file, box, session, prompt, write, told, assumed>>

\* exitCodeOf takes an exec for a success that is still running when it is
\* inspected for the second time.  The script may go on, fail, or have been
\* killed already; keys that never reach the pane are a command missed.
Mistaken(p) ==
    /\ patch[p].at \in {"writing"} \cup Typed
    /\ box # "stopped" \/ patch[p].at = "writing"
    /\ Spend("faults", MaxFaults)
    /\ IF patch[p].at = "writing"
       THEN /\ patch' = [patch EXCEPT ![p].at = Following(patch[p]),
                                      ![p].alone = FALSE]
            /\ assumed' = assumed \cup {patch[p].want}
            /\ settled' = FALSE
       ELSE /\ Advance(p)
            /\ UNCHANGED <<assumed, settled>>
    /\ spoilt' = TRUE
    /\ UNCHANGED <<row, env, file, box, session, prompt, write, told>>

-----------------------------------------------------------------------------
\* POST stop, an OOM kill or the end of the session: the pane and every
\* script go with it.
ContainerStops ==
    /\ box # "stopped"
    /\ Spend("outside", MaxOutside)
    /\ box' = "stopped"
    /\ session' = Default
    /\ prompt' = <<>>
    /\ write' = [p \in Patches |-> NoScript]
    /\ UNCHANGED <<row, env, file, patch, history>>

\* POST start: the same container, with the environment it was created with.
ContainerStarts ==
    /\ box = "stopped"
    /\ box' = "starting"
    /\ UNCHANGED <<row, env, file, session, prompt, patch, write, history,
                   spent>>

\* A script holds the file open and empty whose field its handler will not
\* type, because it is not changed: who reads it now misses the value.
Torn(field, stage) ==
    \E p \in Patches : /\ write[p].at = stage
                       /\ write[p].want[field] = patch[p].was[field]

\* main in the entrypoint puts the start line together, one file at a time ...
ReadsModel ==
    /\ box = "starting"
    /\ box' = "reading"
    /\ session' = [session EXCEPT !.model = NextStart.model]
    /\ spoilt' = ((spoilt /\ ~settled) \/ Torn("model", "modelOpen"))
    /\ UNCHANGED <<row, env, file, prompt, patch, write, told, assumed, settled,
                   spent>>

ReadsEffort ==
    /\ box = "reading"
    /\ box' = "launching"
    /\ session' = [session EXCEPT !.effort = NextStart.effort]
    /\ spoilt' = (spoilt \/ Torn("effort", "effortOpen"))
    /\ UNCHANGED <<row, env, file, prompt, patch, write, told, assumed, settled,
                   spent>>

\* ... and later runs it in a new tmux session.
SessionUp ==
    /\ box = "launching"
    /\ box' = "ready"
    /\ UNCHANGED <<row, env, file, session, prompt, patch, write, history,
                   spent>>

\* The human at the console.
HumanTypes ==
    /\ box = "ready"
    /\ Spend("outside", MaxOutside)
    /\ prompt' = Append(prompt, Text)
    /\ UNCHANGED <<row, env, file, box, session, patch, write, history>>

HumanSubmits ==
    /\ box = "ready"
    /\ prompt # <<>>
    /\ Submit
    /\ UNCHANGED <<row, env, file, box, patch, write, told, assumed, settled,
                   spent>>

\* The server dies and starts again: the handlers are gone, their
\* scripts are not.
Restart ==
    /\ Spend("faults", MaxFaults)
    /\ patch' = [p \in Patches |-> Idle]
    /\ settled' = (settled /\ \A p \in Patches :
                       patch[p].at \in {"idle", "asked", "override"})
    /\ spoilt' = (spoilt \/ \E p \in Patches :
                       patch[p].at \notin {"idle", "asked", "override"})
    /\ UNCHANGED <<row, env, file, box, session, prompt, write, told, assumed>>

-----------------------------------------------------------------------------
Handles(p) ==
    \/ SeesReady(p) \/ SeesNotReady(p)
    \/ Overrides(p)
    \/ \E field \in {"model", "effort"} : Types(p, field)
    \/ Enters(p)
    \/ Records(p)
    \/ ExecRefused(p)

Script(p) == WritesModel(p) \/ OpensEffort(p) \/ WritesEffort(p)

Container ==
    \/ ContainerStops \/ ContainerStarts
    \/ ReadsModel \/ ReadsEffort \/ SessionUp
    \/ HumanTypes \/ HumanSubmits

Next ==
    \/ \E p \in Patches :
         \/ \E ch \in Changes : PatchArrives(p, ch)
         \/ Handles(p) \/ Script(p)
         \/ ScriptFails(p) \/ CallFails(p) \/ Mistaken(p)
    \/ Container
    \/ Restart

Spec == Init /\ [][Next]_vars

-----------------------------------------------------------------------------
(* Properties.                                                             *)

\* Whatever the row claims, the container was told: the environment it was
\* created with, or both override files (setModelEffort: "the database comes
\* last").  A PATCH that fails half way, meets another one or a stop changes
\* nothing about that.  The one exception are choices whose script was taken
\* for a success while it was still running (exitCodeOf): `assumed`.
RowWasTold == row \in told \cup assumed

\* After a PATCH that succeeded and met no other one, nor the script of one that
\* was given up, the next container start brings up what the row says, whatever
\* failed before it and however often the container stops: the overrides win
\* over the environment, empty ones included.  A PATCH whose script was taken
\* for a success while it was running has not succeeded.
NextStartAgrees == (settled /\ Quiet) => NextStart = row

\* If in addition nothing got in the way of the commands since the session was
\* started, it runs with what the row says too, also when it was started in
\* the middle of a PATCH.  A reset of the model is the documented exception; a
\* start that reads a file while it is empty, of a field that PATCH does not
\* change, is one nobody documents.
SessionAgrees ==
    (settled /\ ~spoilt /\ Quiet /\ box = "ready") =>
        /\ session.effort = row.effort
        /\ row.model # Null => session.model = row.model

=============================================================================
