------------------------------ MODULE MCEvents ------------------------------
(***************************************************************************)
(* One operation with two transactions, the second one final and of two    *)
(* events, that get their ids in either order; one client that comes back  *)
(* once.                                                                   *)
(***************************************************************************)
EXTENDS Events

MCOpOf == [t \in Txs |-> "o1"]
MCEventsOf == [t \in Txs |-> IF t = "t2" THEN 2 ELSE 1]
MCStreamOp == [s \in Streams |-> "o1"]
=============================================================================
