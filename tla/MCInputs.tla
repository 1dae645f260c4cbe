------------------------------ MODULE MCInputs ------------------------------
(***************************************************************************)
(* What comes in from outside: small instances of Artifacts and of         *)
(* Preparation.  The two share no state; a behavior is one of either.      *)
(*                                                                         *)
(* Artifacts: a source archive of the attempt, finalized by its instance   *)
(* and by a second command at another version, and an unbound prompt whose *)
(* bytes are an archive that was not declared as one.  Preparation: one    *)
(* question round with two answers and two relay replicas, two briefs and  *)
(* two generations that compete for one permit.                            *)
(***************************************************************************)
EXTENDS Artifacts, Preparation

VARIABLE part

MCBinding == [t \in Transfers |-> IF t = "source" THEN "attempt" ELSE "none"]
MCBytes == [t \in Transfers |-> IF t = "source" THEN "contained" ELSE "escape"]
MCTransferOf == [f \in Finalizers |-> IF f = "f3" THEN "prompt" ELSE "source"]
MCVersionOf == [f \in Finalizers |-> IF f = "f2" THEN 2 ELSE 1]
MCCommandOf == [f \in Finalizers |-> f]
MCInstanceOf == [f \in Finalizers |-> IF f = "f1" THEN "i1" ELSE "none"]
MCBodies == [t \in Transfers |-> IF t = "source" THEN {"exact", "larger"} ELSE {"exact", "other"}]
MCMaxUploads == [t \in Transfers |-> IF t = "source" THEN 2 ELSE 1]

MCInit == part \in {"artifacts", "preparation"} /\ Init /\ PreparationInit

MCNext ==
    \/ part = "artifacts" /\ Next /\ UNCHANGED <<part, preparationVars>>
    \/ part = "preparation" /\ PreparationNext /\ UNCHANGED <<part, vars>>

MCSpec == MCInit /\ [][MCNext]_<<part, vars, preparationVars>>

\* Every variable of both has its type; the finalize slots never leave their
\* bound (Finalize) and the rounds, answers and permits stay in their states.
InputsTypeOK == TypeOK /\ PreparationTypeOK
=============================================================================
