----------------------------- MODULE ProjectForm -----------------------------
(***************************************************************************)
(* The form of the projects page (web/src/views/projects.ts): one form     *)
(* that creates a project or edits the one it was filled with, beside the  *)
(* rows whose buttons fill it.  Every request is awaited while the page    *)
(* goes on being used.                                                     *)
(***************************************************************************)
EXTENDS Naturals, Page, ProjectStore

CONSTANT MaxRequests    \* bound: requests sent

ASSUME FormAssumption == None \notin Listed /\ MaxRequests \in Nat

VARIABLES
    editing,        \* the project the form is editing, None while it creates
    form,           \* the project whose fields the form was filled with
    asked,          \* the project whose Delete asks "Really delete?"
    waiting,        \* the requests in flight
    resumed,        \* history: a variable's answer came to another form
    requests

shownVars == <<editing, form, asked>>
formVars == <<storeVars, shownVars, waiting, resumed, requests>>

(* The secrets are those a save carries, or the one that is dropped.       *)
Request ==
    [kind : {"save", "token", "variable", "delete"}, of : Listed \cup {None},
     secrets : SUBSET Secrets]

FormTypeOK ==
    /\ StoreTypeOK
    /\ {editing, form, asked} \subseteq Listed \cup {None}
    /\ waiting \subseteq Request
    /\ resumed \in BOOLEAN /\ requests \in 0 .. MaxRequests

FormInit ==
    /\ StoreInit
    /\ editing = None /\ form = None /\ asked = None
    /\ waiting = {} /\ resumed = FALSE /\ requests = 0

-----------------------------------------------------------------------------

(* Save is disabled while one is in flight, the other buttons are not; the *)
(* same request a second time adds nothing here.                           *)
Requests(kind, p, carried) ==
    /\ requests < MaxRequests /\ requests' = requests + 1
    /\ kind = "save" => \A r \in waiting : r.kind # "save"
    /\ waiting' = waiting \cup {[kind |-> kind, of |-> p, secrets |-> carried]}
    /\ UNCHANGED <<life, secrets, had, resumed>>

(* startEditing: a row's button, on its row as it was last listed.         *)
StartsEditing(p) ==
    /\ life[p] # "unborn" /\ editing' = p /\ form' = p
    /\ UNCHANGED <<storeVars, asked, waiting, resumed, requests>>

(* Deviation: the form is emptied and still edits.                         *)
OnlyResets == form' = None /\ UNCHANGED editing

StopEditing == editing' = None /\ form' = None

Cancel ==
    /\ editing # None /\ StopEditing
    /\ UNCHANGED <<storeVars, asked, waiting, resumed, requests>>

(* withoutBlanks, and the fields save leaves out: what was typed.          *)
Carried(typed) == typed

(* save                                                                    *)
Submits(typed) ==
    /\ Requests("save", editing, Carried(typed))
    /\ UNCHANGED <<shownVars, dropped>>

(* dropToken and dropVariable, of a secret that was listed.                *)
DropsSecret(s) ==
    /\ editing # None /\ s \in had[editing]
    /\ Requests(IF s = "token" THEN "token" ELSE "variable", editing, {s})
    /\ dropped' = [dropped EXCEPT ![editing] = @ \cup {s}]
    /\ UNCHANGED shownVars

Deletes(p) ==
    /\ life[p] # "unborn"
    /\ IF asked # p
       THEN asked' = p /\ UNCHANGED <<life, secrets, had, resumed, waiting, requests>>
       ELSE Requests("delete", p, {}) /\ UNCHANGED asked
    /\ UNCHANGED <<editing, form, dropped>>

-----------------------------------------------------------------------------

(* What the server does with a request it grants.                          *)
Handles(r) ==
    CASE r.kind = "delete" -> Removes(r.of)
      [] r.kind = "save" /\ r.of = None ->
             \E p \in Unborn : Inserts(p, r.secrets)
      [] r.kind = "save" /\ r.of # None -> Updates(r.of, r.secrets, {})
      [] OTHER -> Updates(r.of, {}, r.secrets)

(* What the answer does to the form: a save and a token empty it, whatever *)
(* it is by now, a variable takes it up with the project it was asked for, *)
(* and a deleted project is not edited any longer.                         *)
Succeeds(r) ==
    CASE r.kind = "variable" ->
             /\ editing' = r.of /\ resumed' = (resumed \/ form # r.of)
             /\ UNCHANGED form
      [] r.kind = "delete" /\ editing # r.of ->
             UNCHANGED <<editing, form, resumed>>
      [] OTHER -> StopEditing /\ UNCHANGED resumed

(* The answer: granted, refused, or lost on its way back.  The question is *)
(* off in any case.                                                        *)
Answers(r) ==
    /\ waiting' = waiting \ {r}
    /\ asked' = IF r.kind = "delete" THEN None ELSE asked
    /\ \/ Handles(r) /\ Succeeds(r)
       \/ Handles(r) /\ UNCHANGED <<editing, form, resumed>>
       \/ UNCHANGED <<life, secrets, had, editing, form, resumed>>
    /\ UNCHANGED <<dropped, requests>>

FormNext ==
    /\ Mounted("form")
    /\ \/ Cancel
       \/ \E typed \in SUBSET Secrets : Submits(typed)
       \/ \E s \in Secrets : DropsSecret(s)
       \/ \E p \in Listed : StartsEditing(p) \/ Deletes(p)
       \/ \E r \in waiting : Answers(r)

-----------------------------------------------------------------------------

(* "The project the form is editing": where a save would go is where the   *)
(* fields came from (projects.ts editing, startEditing, save).             *)
SavesWhatWasFilled == editing = form

OnlyVariablesMislead == editing # form => resumed

=============================================================================
