------------------------------- MODULE Budget -------------------------------
(***************************************************************************)
(* The money arithmetic of one operation: allocations, actual-cost caps    *)
(* and the price of a metered call, as pure operators on records           *)
(* (internal/domain/budget.go, internal/domain/finance.go and the mirror   *)
(* of both in internal/application/budget.go).                             *)
(*                                                                         *)
(* Amounts are natural numbers in one currency.  The code refuses any sum  *)
(* outside int64, so no stored amount wraps; amounts here stay far below   *)
(* that bound.                                                             *)
(***************************************************************************)
EXTENDS Integers

(***************************************************************************)
(* An operation's share of one pool.  Amount 0 stands for "no allocation": *)
(* BudgetPool.Allocate refuses an amount that is not positive.  `returned' *)
(* is the entry of the return ledger, the amount given back to the pool.   *)
(***************************************************************************)
NotReturned == -1

Allocation == [amount : Nat, reserved : Nat, consumed : Nat, returned : Nat \cup {NotReturned}]

NoAllocation == [amount |-> 0, reserved |-> 0, consumed |-> 0, returned |-> NotReturned]

\* A pool gives what its cap leaves.
CanDraw(b, amount) == b.allocated + amount <= b.cap

NewAllocation(amount) == [NoAllocation EXCEPT !.amount = amount]

Spend(a) == a.reserved + a.consumed

\* Mutant: only consumed cost counts, exposure in flight does not.
CanReserveConsumed(a, x) == a.consumed + x <= a.amount

CanReserve(a, x) == Spend(a) + x <= a.amount

Reserve(a, x) == [a EXCEPT !.reserved = @ + x]

\* A release of more than is reserved is refused and fails the transaction.
CanRelease(a, x) == x <= a.reserved

Release(a, x) == [a EXCEPT !.reserved = @ - x]

\* Actual cost is never capped: an overspend is retained, not hidden.
Charge(a, d) == [a EXCEPT !.consumed = @ + d]

\* What a terminal operation gives back to the pool.
ReturnUnspent(a) == IF a.consumed <= a.amount THEN a.amount - a.consumed ELSE 0

\* The part of the pool the allocation still takes.
Drawn(a) == IF a.returned = NotReturned THEN a.amount ELSE a.amount - a.returned

(***************************************************************************)
(* A cost cap of a tenant, a project or an operation.  Tenant and project  *)
(* caps are counted: they mirror every reservation and charge.  Release of *)
(* a counted cap clamps at zero instead of refusing.                       *)
(***************************************************************************)
CostCap == [set : BOOLEAN, limit : Nat, reserved : Nat, consumed : Nat]

NoCap == [set |-> FALSE, limit |-> 0, reserved |-> 0, consumed |-> 0]

NewCap(limit) == [set |-> TRUE, limit |-> limit, reserved |-> 0, consumed |-> 0]

CapReserve(k, x) == [k EXCEPT !.reserved = @ + x]

CapRelease(k, x) == [k EXCEPT !.reserved = IF x <= @ THEN @ - x ELSE 0]

CapCharge(k, d) == [k EXCEPT !.consumed = @ + d]

HeadroomFor(k, spend, x) == spend + x <= k.limit

(***************************************************************************)
(* The price of cumulative usage: for every category its money per `scale' *)
(* units, rounded up, and summed.  A category and the part of it that is   *)
(* metered apart (input and cached input) stand for the two such pairs of  *)
(* the code (output and reasoning is the other).  Under an inclusive price *)
(* the part is counted within the category, and taken out of it before     *)
(* pricing; usage in which the part exceeds the whole has no price.        *)
(***************************************************************************)
Usage == [input : Nat, cached : Nat]

Prices == [input : Nat, cached : Nat, inclusive : BOOLEAN]

CanPrice(u, price) == price.inclusive => u.cached <= u.input

PriceOfUnits(units, perUnit, scale) == (units * perUnit + scale - 1) \div scale

Cost(u, price, scale) ==
    PriceOfUnits(IF price.inclusive THEN u.input - u.cached ELSE u.input, price.input, scale)
        + PriceOfUnits(u.cached, price.cached, scale)

\* A free price charges no category.
IsFree(price) == price.input = 0 /\ price.cached = 0
=============================================================================
