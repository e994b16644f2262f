----------------------------- MODULE ProjectStore -----------------------------
(***************************************************************************)
(* The projects as the server keeps them                                   *)
(* (server/src/projects/service.ts, server/src/db/projects.ts), as far as  *)
(* their secrets go: the token of the repository and the variables, which  *)
(* are stored sealed and never sent back.  What a page cannot show it      *)
(* cannot send again, so a change names what it sets and what it drops and *)
(* leaves the rest.  Every change is one transaction.                      *)
(***************************************************************************)

CONSTANTS
    Listed,         \* the projects there may be
    Stored,         \* those that are there from the beginning
    Variables       \* names of environment variables

ASSUME StoreAssumption == Stored \subseteq Listed

VARIABLES
    life,           \* every project that is there, was, or may come to be
    secrets,        \* the secrets it has stored
    had,            \* history: those it ever had
    dropped         \* history: and those somebody asked to drop

storeVars == <<life, secrets, had, dropped>>

Secrets == {"token"} \cup Variables

Rowed == {p \in Listed : life[p] = "there"}
Unborn == {p \in Listed : life[p] = "unborn"}

StoreTypeOK ==
    /\ life \in [Listed -> {"unborn", "there", "gone"}]
    /\ secrets \in [Listed -> SUBSET Secrets]
    /\ had \in [Listed -> SUBSET Secrets]
    /\ dropped \in [Listed -> SUBSET Secrets]

StoreInit ==
    /\ life = [p \in Listed |-> IF p \in Stored THEN "there" ELSE "unborn"]
    /\ secrets = [p \in Listed |-> IF p \in Stored THEN Secrets ELSE {}]
    /\ had = secrets
    /\ dropped = [p \in Listed |-> {}]

-----------------------------------------------------------------------------

(* Deviation: what a change sets is all there is, as a PUT would have it.  *)
Replaced(stored, sets, drops) == sets

(* writeEnv, and the token beside it: what is not mentioned is kept.       *)
Merged(stored, sets, drops) == (stored \ drops) \cup sets

(* create and insert, under an id that was never used.                     *)
Inserts(p, sets) ==
    /\ life' = [life EXCEPT ![p] = "there"]
    /\ secrets' = [secrets EXCEPT ![p] = sets]
    /\ had' = [had EXCEPT ![p] = sets]

(* update                                                                  *)
Updates(p, sets, drops) ==
    /\ p \in Rowed
    /\ secrets' = [secrets EXCEPT ![p] = Merged(@, sets, drops)]
    /\ had' = [had EXCEPT ![p] = @ \cup sets]
    /\ UNCHANGED life

(* delete, of a project no instance points at: the variables by hand, and  *)
(* then the row.                                                           *)
Removes(p) ==
    /\ p \in Rowed
    /\ life' = [life EXCEPT ![p] = "gone"]
    /\ secrets' = [secrets EXCEPT ![p] = {}]
    /\ UNCHANGED had

-----------------------------------------------------------------------------

(* A stored secret is lost only with its project or by the button that     *)
(* asks for it: no save, whatever its form was filled with and whomever it *)
(* went to, takes one along (service.ts update, projects.ts writeEnv).     *)
SecretsAreKept ==
    \A p \in Rowed : had[p] \ dropped[p] \subseteq secrets[p]

=============================================================================
