----------------------------- MODULE InstanceLife -----------------------------
(***************************************************************************)
(* What claudops promises about one instance, without saying how: the row  *)
(* is there before the container, it is told its container at most once,   *)
(* it forgets that container only when Docker has lost it, and an instance *)
(* that was deleted is never seen again.  A container may outlive its row: *)
(* that is what the code does (see Instances!NoUnknownContainer), and what *)
(* the reconcile at the next start is for.                                 *)
(***************************************************************************)
CONSTANT Ids

VARIABLES
    life,   \* what the instance's row says
    box     \* what Docker has under the instance's label

vars == <<life, box>>

Lives == {"unborn", "pending", "linked", "lost", "deleted"}
Boxes == {"none", "kept", "gone"}

TypeOK == life \in [Ids -> Lives] /\ box \in [Ids -> Boxes]

Init ==
    /\ life = [i \in Ids |-> "unborn"]
    /\ box = [i \in Ids |-> "none"]

Accept(i) ==
    /\ life[i] = "unborn"
    /\ life' = [life EXCEPT ![i] = "pending"]
    /\ UNCHANGED box

(* Never for an instance that has no row yet, and only once.               *)
Appear(i) ==
    /\ life[i] # "unborn" /\ box[i] = "none"
    /\ box' = [box EXCEPT ![i] = "kept"]
    /\ UNCHANGED life

Link(i) ==
    /\ life[i] = "pending" /\ box[i] # "none"
    /\ life' = [life EXCEPT ![i] = "linked"]
    /\ UNCHANGED box

Vanish(i) ==
    /\ box[i] = "kept"
    /\ box' = [box EXCEPT ![i] = "gone"]
    /\ UNCHANGED life

(* Several instances may learn in the same pass that theirs is gone.       *)
Lose(S) ==
    /\ \A i \in S : life[i] = "linked" /\ box[i] = "gone"
    /\ life' = [i \in Ids |-> IF i \in S THEN "lost" ELSE life[i]]
    /\ UNCHANGED box

Drop(i) ==
    /\ life[i] \in {"pending", "linked", "lost"}
    /\ life' = [life EXCEPT ![i] = "deleted"]
    /\ UNCHANGED box

Next ==
    \/ \E i \in Ids : Accept(i) \/ Appear(i) \/ Link(i) \/ Vanish(i) \/ Drop(i)
    \/ \E S \in SUBSET Ids : Lose(S)

Spec == Init /\ [][Next]_vars

=============================================================================
