---------------------------- MODULE MCLifecycle ----------------------------
(***************************************************************************)
(* Small instances of Lifecycle, one per kind of profile: LocalCheck       *)
(* (single-step), Preparation (multi-step, with question rounds) and       *)
(* Generation (queued, with hold and resume).                              *)
(***************************************************************************)
EXTENDS Lifecycle, TLC

CONSTANTS a1, a2, x1, x2, k1, k2, k3, p1, p2

BothOfFirst == (x1 :> a1 @@ x2 :> a1)
OneOfFirst == (x1 :> a1)
FirstAndNone == (x1 :> a1 @@ x2 :> NoAttempt)
NoObligations == [x \in {} |-> a1]

TwoCancels == (k1 :> "cancel" @@ k2 :> "cancel")
OneCancel == (k1 :> "cancel")
CancelHoldResume == (k1 :> "cancel" @@ k2 :> "hold" @@ k3 :> "resume")
CancelHold == (k1 :> "cancel" @@ k2 :> "hold")
TwoHolds == (k1 :> "hold" @@ k2 :> "hold")
NoCommands == [k \in {} |-> "cancel"]
=============================================================================
