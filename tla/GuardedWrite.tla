---------------------------- MODULE GuardedWrite ----------------------------
(***************************************************************************)
(* What Control promises of one external mutation (domain/effect.go, the   *)
(* permit state machine): permission is given at most once and only after  *)
(* the obligation was kept in the independent inventory, the mutation is   *)
(* performed at most once and only under it, and the outcome that is       *)
(* recorded is what happened, for good.                                    *)
(***************************************************************************)
EXTENDS Naturals

CONSTANT Writes

VARIABLES
    kept,       \* writes whose obligation the inventory holds
    status,     \* write -> asked | permitted | succeeded | failed | not_sent | denied
    world       \* write -> how often it was performed and with which result

vars == <<kept, status, world>>

Init ==
    /\ kept = {}
    /\ status = [w \in Writes |-> "asked"]
    /\ world = [w \in Writes |-> [sent |-> 0, result |-> "none"]]

Keep(w) == kept' = kept \cup {w} /\ UNCHANGED <<status, world>>

Become(w, s) == status' = [status EXCEPT ![w] = s] /\ UNCHANGED <<kept, world>>

Permit(w) == status[w] = "asked" /\ w \in kept /\ Become(w, "permitted")

Deny(w) == status[w] = "asked" /\ Become(w, "denied")

Perform(w) ==
    /\ status[w] = "permitted" /\ world[w].sent = 0
    /\ \E r \in {"applied", "refused"} : world' = [world EXCEPT ![w] = [sent |-> 1, result |-> r]]
    /\ UNCHANGED <<kept, status>>

Resolve(w) ==
    /\ status[w] = "permitted" /\ world[w].sent = 1
    /\ Become(w, IF world[w].result = "applied" THEN "succeeded" ELSE "failed")

Withdraw(w) == status[w] \in {"asked", "permitted"} /\ world[w].sent = 0 /\ Become(w, "not_sent")

Next == \E w \in Writes : Keep(w) \/ Permit(w) \/ Deny(w) \/ Perform(w) \/ Resolve(w) \/ Withdraw(w)

Spec == Init /\ [][Next]_vars
=============================================================================
