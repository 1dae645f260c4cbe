----------------------------- MODULE MCDispatch -----------------------------
(***************************************************************************)
(* Small instances of Dispatch: one or two operations and two calls.       *)
(***************************************************************************)
EXTENDS Dispatch, TLC

CONSTANTS o1, o2, a1, a2, c1, c2, r1, r2, r3, g1, k1, k2, s1, s2

OneAttempt == (a1 :> o1)
TwoAttempts == (a1 :> o1 @@ a2 :> o1)
TwoOperations == (a1 :> o1 @@ a2 :> o2)
BothOfAttempt == (c1 :> a1 @@ c2 :> a1)
OnePerAttempt == (c1 :> a1 @@ c2 :> a2)
NoReplacement == (c1 :> NoCall @@ c2 :> NoCall)
SecondReplacesFirst == (c1 :> NoCall @@ c2 :> c1)
ModelCalls == (c1 :> NoGrant @@ c2 :> NoGrant)
SecondIsTool == (c1 :> NoGrant @@ c2 :> g1)
TwoForFirst == (r1 :> c1 @@ r2 :> c1 @@ r3 :> c2)
OneEach == (r1 :> c1 @@ r2 :> c2)
UnitExposure == (c1 :> 1 @@ c2 :> 1)
TwoOneExposure == (c1 :> 2 @@ c2 :> 1)
PriceOf(perInput, perCached, within) == [input |-> perInput, cached |-> perCached, inclusive |-> within]
UnitPrice == (c1 :> PriceOf(1, 1, FALSE) @@ c2 :> PriceOf(1, 1, FALSE))
SecondFree == (c1 :> PriceOf(1, 1, FALSE) @@ c2 :> PriceOf(0, 0, FALSE))
NoCapOps == [k \in {} |-> {}]
NoCapKinds == [k \in {} |-> TRUE]
TenantCap == (k1 :> Ops)
TenantCapKind == (k1 :> TRUE)
BothCaps == (k1 :> Ops @@ k2 :> {o1})
BothCapKinds == (k1 :> TRUE @@ k2 :> FALSE)

FirstOfAttempt == (c1 :> a1)
FirstReplacesNone == (c1 :> NoCall)
FirstIsModel == (c1 :> NoGrant)
FirstExposure == (c1 :> 1)
FirstPrice == (c1 :> PriceOf(1, 1, FALSE))
OneForFirst == (r1 :> c1)
UnevenPrice == (c1 :> PriceOf(1, 2, FALSE) @@ c2 :> PriceOf(4, 1, TRUE))

UsageOf(units, within) == [input |-> units, cached |-> within]
NoneOrOne == {UsageOf(0, 0), UsageOf(1, 0)}
WithCached == {UsageOf(0, 0), UsageOf(1, 0), UsageOf(0, 1), UsageOf(1, 1)}
UpToThree == {UsageOf(n, 0) : n \in 0..3}
=============================================================================
