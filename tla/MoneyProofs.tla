---------------------------- MODULE MoneyProofs ----------------------------
(***************************************************************************)
(* Metering, the finance state and the money behind the calls, for every   *)
(* value of the constants of Dispatch: what a call is charged, what an     *)
(* allocation, a cost cap and a pool hold, and what an admission fits.     *)
(***************************************************************************)
EXTENDS DispatchProofs

-----------------------------------------------------------------------------
(* Metering.                                                               *)

\* The largest usage reported grows with the reports, and none is no usage.
LEMMA MaxUsageGrows ==
    ASSUME NEW obs \in SUBSET Reports, NEW more \in SUBSET Reports, obs \subseteq more
    PROVE  /\ MaxUsageOf(obs).input <= MaxUsageOf(more).input
           /\ MaxUsageOf(obs).cached <= MaxUsageOf(more).cached
<1> DEFINE I(m) == {0} \cup {n.usage.input : n \in WithCounters(m)}
           K(m) == {0} \cup {n.usage.cached : n \in WithCounters(m)}
<1>1. MaxUsage \in Nat /\ 0..MaxUsage \subseteq Int
    BY DispatchAssumption
<1>2. ASSUME NEW m \in SUBSET Reports
      PROVE  /\ I(m) \in SUBSET (0..MaxUsage) /\ I(m) # {}
             /\ K(m) \in SUBSET (0..MaxUsage) /\ K(m) # {}
    <2>1. \A n \in WithCounters(m) : n.usage.input \in 0..MaxUsage /\ n.usage.cached \in 0..MaxUsage
        BY CountersBounded
    <2> QED BY <1>1, <2>1
<1>3. I(obs) \subseteq I(more) /\ K(obs) \subseteq K(more)
    BY DEF WithCounters
<1>4. \A m : MaxUsageOf(m).input = Max(I(m)) /\ MaxUsageOf(m).cached = Max(K(m))
    BY DEF MaxUsageOf
<1>5. /\ I(obs) \in SUBSET (0..MaxUsage) /\ I(obs) # {} /\ I(more) \in SUBSET (0..MaxUsage) /\ I(more) # {}
      /\ K(obs) \in SUBSET (0..MaxUsage) /\ K(obs) # {} /\ K(more) \in SUBSET (0..MaxUsage) /\ K(more) # {}
    BY <1>2
<1> HIDE DEF I, K
<1>6. Max(I(obs)) \in I(more) /\ Max(K(obs)) \in K(more)
    BY <1>1, <1>3, <1>5, GreatestElement
<1>7. Max(I(obs)) <= Max(I(more)) /\ Max(K(obs)) <= Max(K(more))
    <2>1. \A y \in I(more) : Max(I(more)) >= y
        BY <1>1, <1>5, GreatestElement
    <2>2. \A y \in K(more) : Max(K(more)) >= y
        BY <1>1, <1>5, GreatestElement
    <2>3. /\ Max(I(obs)) \in Int /\ Max(I(more)) \in Int /\ Max(K(obs)) \in Int /\ Max(K(more)) \in Int
        <3>1. Max(I(more)) \in I(more) /\ Max(K(more)) \in K(more)
            BY <1>1, <1>5, GreatestElement
        <3> QED BY <1>1, <1>5, <1>6, <3>1
    <2> QED BY <1>6, <2>1, <2>2, <2>3
<1> QED BY <1>4, <1>7

\* The price of more units is not less, no units cost nothing, and neither
\* do any units at no price.
LEMMA PriceOfUnitsFacts ==
    ASSUME NEW u \in Nat, NEW v \in Nat, u <= v, NEW price \in Nat, NEW step \in Nat \ {0}
    PROVE  /\ PriceOfUnits(u, price, step) <= PriceOfUnits(v, price, step)
           /\ PriceOfUnits(0, price, step) = 0
<1>2. u * price <= v * price /\ u * price \in Nat /\ v * price \in Nat
    OBVIOUS
<1>3. ASSUME NEW a \in Nat, NEW b \in Nat, a <= b PROVE a \div step <= b \div step
    <2>1. PICK p \in Int, q \in Int : p = a \div step /\ q = b \div step
        OBVIOUS
    <2>2. step * p <= a /\ b < step * (q + 1)
        BY <2>1
    <2>3. step * p < step * (q + 1)
        BY <1>3, <2>2
    <2>4. p < q + 1
        BY <2>3
    <2> QED BY <2>1, <2>4
<1>4. u * price + step - 1 \in Nat /\ v * price + step - 1 \in Nat /\ u * price + step - 1 <= v * price + step - 1
    BY <1>2
<1>5. (u * price + step - 1) \div step <= (v * price + step - 1) \div step
    BY <1>3, <1>4
<1>6. (0 * price + step - 1) \div step = 0
    <2>1. 0 * price + step - 1 = step - 1 /\ step - 1 \in Nat
        OBVIOUS
    <2>2. (step - 1) \div step = 0
        OBVIOUS
    <2> QED BY <2>1, <2>2
<1> QED BY <1>5, <1>6 DEF PriceOfUnits

LEMMA NoPriceOfUnits ==
    ASSUME NEW u \in Int, NEW step \in Nat \ {0}
    PROVE  PriceOfUnits(u, 0, step) = 0
<1>1. u * 0 + step - 1 = step - 1 /\ step - 1 \in Nat
    OBVIOUS
<1>2. (step - 1) \div step = 0
    OBVIOUS
<1> QED BY <1>1, <1>2 DEF PriceOfUnits

\* Unless one category includes another, more usage does not cost less.
LEMMA CostIsMonotone ==
    ASSUME NEW c \in Calls, ~Price[c].inclusive,
           NEW u \in Usage, NEW v \in Usage, u.input <= v.input, u.cached <= v.cached
    PROVE  Cost(u, Price[c], Scale) <= Cost(v, Price[c], Scale)
<1>1. Price[c] \in Prices /\ Scale \in Nat \ {0}
    BY DispatchAssumption
<1>2. /\ Price[c].input \in Nat /\ Price[c].cached \in Nat
      /\ u.input \in Nat /\ u.cached \in Nat /\ v.input \in Nat /\ v.cached \in Nat
    BY <1>1 DEF Prices, Usage
<1> DEFINE a == PriceOfUnits(u.input, Price[c].input, Scale)
           b == PriceOfUnits(v.input, Price[c].input, Scale)
           k == PriceOfUnits(u.cached, Price[c].cached, Scale)
           l == PriceOfUnits(v.cached, Price[c].cached, Scale)
<1>3. a \in Int /\ b \in Int /\ k \in Int /\ l \in Int
    <2>1. u.input \in Int /\ u.cached \in Int /\ v.input \in Int /\ v.cached \in Int
        BY <1>2
    <2> QED BY <1>1, <1>2, <2>1, PriceOfUnitsType
<1>4. a <= b /\ k <= l
    BY <1>1, <1>2, PriceOfUnitsFacts
<1>5. Cost(u, Price[c], Scale) = a + k /\ Cost(v, Price[c], Scale) = b + l
    BY DEF Cost
<1> HIDE DEF a, b, k, l
<1> QED BY <1>3, <1>4, <1>5

\* What some reports of a call establish is a cost.
LEMMA CostOfType ==
    ASSUME NEW c \in Calls, NEW obs \in SUBSET Reports
    PROVE  CostOf(c, obs) \in Int
BY MaxUsageType, CostType DEF CostOf

\* A call is charged what some of its reports establish, and at least what
\* all of them do.
ChargedIsEstablished ==
    \A c \in Calls :
        /\ CostOf(c, disp[c].obs) <= disp[c].charged
        /\ \E reports \in SUBSET disp[c].obs : disp[c].charged = CostOf(c, reports)

\* A report charges the difference to the price of the new maximum, if any.
LEMMA ReportCharges ==
    ASSUME TypeOK, ChargedIsEstablished, NEW c \in Calls, NEW src \in Sources \cup {Query}, NEW seq \in 1..MaxSeq,
           NEW outcome, NEW usage \in {NoUsage} \cup Usages, Observe(c, src, seq, outcome, usage)
    PROVE  ChargedIsEstablished'
<1> DEFINE obs == disp[c].obs \cup {[src |-> src, seq |-> seq, usage |-> usage]}
           cost == CostOf(c, obs)
           delta == IF cost > disp[c].charged THEN cost - disp[c].charged ELSE 0
<1>1. disp \in [Calls -> DispatchRow] /\ disp[c].charged \in Nat /\ disp[c].obs \in SUBSET Reports
    BY DEF TypeOK, DispatchRow
<1>2. obs \in SUBSET Reports /\ disp[c].obs \subseteq obs
    BY <1>1 DEF Reports
<1>3. \E state : disp' = [disp EXCEPT ![c] = [state |-> state, inventory |-> @.inventory,
                                              charged |-> @.charged + delta, obs |-> obs]]
    BY DEF Observe, CostOf
<1> HIDE DEF obs
<1>4. cost \in Int
    BY <1>2, CostOfType
<1>5. /\ cost <= disp[c].charged + delta
      /\ disp[c].charged + delta \in {cost, disp[c].charged}
    <2> HIDE DEF cost
    <2> QED BY <1>1, <1>4
<1> HIDE DEF delta
<1>6. /\ disp'[c].charged = disp[c].charged + delta /\ disp'[c].obs = obs
      /\ \A d \in Calls : d # c => disp'[d] = disp[d]
    <2> HIDE DEF cost
    <2> QED BY <1>1, <1>3
<1>7. PICK reports \in SUBSET disp[c].obs : disp[c].charged = CostOf(c, reports)
    BY DEF ChargedIsEstablished
<1>8. \E some \in SUBSET obs : disp'[c].charged = CostOf(c, some)
    <2>1. CASE disp'[c].charged = cost
        <3>1. obs \in SUBSET obs
            OBVIOUS
        <3> QED BY <2>1, <3>1
    <2>2. CASE disp'[c].charged = disp[c].charged
        <3>1. reports \in SUBSET obs
            BY <1>2, <1>7
        <3> QED BY <1>7, <2>2, <3>1
    <2> QED BY <1>5, <1>6, <2>1, <2>2
<1>9. ASSUME NEW d \in Calls
      PROVE  /\ CostOf(d, disp'[d].obs) <= disp'[d].charged
             /\ \E some \in SUBSET disp'[d].obs : disp'[d].charged = CostOf(d, some)
    <2>1. CASE d = c
        BY <1>5, <1>6, <1>8, <2>1
    <2>2. CASE d # c
        BY <1>6, <2>2 DEF ChargedIsEstablished
    <2> QED BY <2>1, <2>2
<1> QED BY <1>9 DEF ChargedIsEstablished, CostOf

\* Every step is a report or changes no charge and no report of any call.
Unmetered == \A c \in Calls : disp'[c].charged = disp[c].charged /\ disp'[c].obs = disp[c].obs

Metered ==
    \E c \in Calls, src \in Sources \cup {Query}, seq \in 1..MaxSeq, outcome \in {"definite", "unknown"},
       usage \in {NoUsage} \cup Usages : Observe(c, src, seq, outcome, usage)

LEMMA ReportsMeter ==
    ASSUME TypeOK, [Next]_vars
    PROVE  Unmetered \/ Metered
<1>2. ASSUME UNCHANGED disp PROVE Unmetered
    BY <1>2 DEF Unmetered
<1>3. ASSUME NEW c \in Calls, NEW s, disp' = [disp EXCEPT ![c].state = s] PROVE Unmetered
    BY <1>3, StateUpdate DEF Unmetered
<1>4. ASSUME NEW r \in Requests, Admit(r) \/ Send(r) PROVE Unmetered
    <2>1. CallOf[r] \in Calls /\ disp \in [Calls -> DispatchRow]
        BY Bindings DEF TypeOK
    <2>2. CASE Prepare(r)
        BY <1>2, <1>3, <2>1, <2>2 DEF Prepare
    <2>3. CASE MarkInventoryUncertain(r)
        <3>1. CASE disp' = [disp EXCEPT ![CallOf[r]].inventory = "uncertain"]
            BY <2>1, <3>1 DEF DispatchRow, Unmetered
        <3> QED BY <1>2, <2>3, <3>1 DEF MarkInventoryUncertain
    <2>4. CASE Consume(r)
        <3>1. CASE disp' = [disp EXCEPT ![CallOf[r]] = [state |-> "authorized", inventory |-> "confirmed",
                                                        charged |-> @.charged, obs |-> @.obs]]
            BY <2>1, <3>1 DEF Unmetered
        <3> QED BY <1>2, <1>3, <2>1, <2>4, <3>1 DEF Consume
    <2>5. CASE Put(r) \/ Answer(r) \/ Abandon(r) \/ Send(r)
        BY <1>2, <2>5 DEF Put, Answer, Abandon, Send
    <2> QED BY <1>4, <2>2, <2>3, <2>4, <2>5 DEF Admit
<1>5. ASSUME NEW c \in Calls, Report(c) \/ ReconcileUnresolved(c) PROVE Metered
    <2>1. 1 \in 1..MaxSeq
        BY DispatchAssumption
    <2>2. \E src \in Sources \cup {Query}, seq \in 1..MaxSeq, outcome \in {"definite", "unknown"},
             usage \in {NoUsage} \cup Usages : Observe(c, src, seq, outcome, usage)
        BY <1>5, <2>1 DEF Report, ReconcileUnresolved
    <2> QED BY <2>2 DEF Metered
<1>6. ASSUME NEW c \in Calls, ConfirmNotSent(c) PROVE Unmetered
    BY <1>3, <1>6 DEF ConfirmNotSent
<1>7. ASSUME NEW a \in Attempts, CloseAttempt(a) PROVE Unmetered
    <2>1. ASSUME NEW c \in Calls PROVE disp'[c].charged = disp[c].charged /\ disp'[c].obs = disp[c].obs
        <3>1. disp'[c] = disp[c] \/ disp'[c] = [disp[c] EXCEPT !.state = "denied"]
            BY <1>7 DEF CloseAttempt
        <3>2. disp[c] \in DispatchRow
            BY DEF TypeOK
        <3> QED BY <3>1, <3>2 DEF DispatchRow
    <2> QED BY <2>1 DEF Unmetered
<1>8. ASSUME NEW c \in Calls, Attest(c) \/ Lapse(c) PROVE Unmetered
    BY <1>2, <1>8 DEF Attest, Lapse
<1>9. ASSUME NEW g \in Grants, Register(g) \/ BeginRevocation(g) \/ Revocation(g) PROVE Unmetered
    BY <1>2, <1>9 DEF Register, BeginRevocation, Revocation
<1>10. ASSUME NEW o \in Ops, Allocate(o) \/ SettleFinance(o) \/ Fence(o) \/ Unfence(o) \/ EndOperation(o)
       PROVE  Unmetered
    BY <1>2, <1>10 DEF Allocate, SettleFinance, Fence, Unfence, EndOperation
<1>11. ASSUME NEW a \in Attempts, AcceptResult(a) PROVE Unmetered
    BY <1>2, <1>11 DEF AcceptResult
<1>12. CASE \/ UNCHANGED vars \/ (\E p \in 1..Periods : AdjustPool(p)) \/ (\E k \in Caps : SetCostCap(k))
            \/ NextPeriod \/ BeginRecovery \/ ReopenAdmission
    <2>1. UNCHANGED disp
        BY <1>12 DEF vars, AdjustPool, SetCostCap, NextPeriod, BeginRecovery, ReopenAdmission
    <2> QED BY <1>2, <2>1
<1> QED BY <1>4, <1>5, <1>6, <1>7, <1>8, <1>9, <1>10, <1>11, <1>12 DEF Next

\* Only a report changes what a call was charged and what was reported.
LEMMA MeterStep ==
    ASSUME TypeOK, ChargedIsEstablished, [Next]_vars
    PROVE  ChargedIsEstablished'
<1>1. CASE Unmetered
    BY <1>1 DEF Unmetered, ChargedIsEstablished
<1>2. CASE Metered
    BY <1>2, ReportCharges DEF Metered
<1> QED BY <1>1, <1>2, ReportsMeter

\* No call is charged before any report.
LEMMA MeteringStarts == Init => ChargedIsEstablished
<1> SUFFICES ASSUME Init, NEW c \in Calls
             PROVE  /\ CostOf(c, disp[c].obs) <= disp[c].charged
                    /\ \E reports \in SUBSET disp[c].obs : disp[c].charged = CostOf(c, reports)
    BY DEF ChargedIsEstablished
<1>1. disp[c].charged = 0 /\ disp[c].obs = {}
    BY DEF Init
<1>2. Max({0}) = 0
    <2>1. {0} \in SUBSET (0..MaxUsage) /\ {0} # {} /\ MaxUsage \in Nat
        BY DispatchAssumption
    <2>2. Max({0}) \in {0}
        BY <2>1, GreatestElement
    <2> QED BY <2>2
<1>3. MaxUsageOf({}) = [input |-> 0, cached |-> 0]
    <2>1. /\ {0} \cup {m.usage.input : m \in WithCounters({})} = {0}
          /\ {0} \cup {m.usage.cached : m \in WithCounters({})} = {0}
        BY DEF WithCounters
    <2> QED BY <1>2, <2>1 DEF MaxUsageOf
<1>4. CostOf(c, {}) = 0
    <2>1. Price[c].input \in Nat /\ Price[c].cached \in Nat /\ Scale \in Nat \ {0}
        BY DispatchAssumption DEF Prices
    <2>2. PriceOfUnits(0, Price[c].input, Scale) = 0 /\ PriceOfUnits(0, Price[c].cached, Scale) = 0
        BY <2>1, PriceOfUnitsFacts
    <2>3. Cost([input |-> 0, cached |-> 0], Price[c], Scale) = 0 + 0
        <3>1. (IF Price[c].inclusive THEN 0 - 0 ELSE 0) = 0
            OBVIOUS
        <3> QED BY <2>2, <3>1 DEF Cost
    <2> QED BY <1>3, <2>3 DEF CostOf
<1> QED BY <1>1, <1>4

\* A call is charged what some of its reports together establish and at
\* least what all of them do, however often and in whatever order they
\* arrive; unless one category of its price includes another, exactly the
\* price of the largest usage reported (Observe, MaxUsage, Price.Cost).
THEOREM ChargedOnce == Spec => []MeteringExact
<1>1. Init => ChargedIsEstablished
    BY MeteringStarts
<1>2. TypeOK /\ ChargedIsEstablished /\ [Next]_vars => ChargedIsEstablished'
    BY MeterStep
<1>3. TypeOK /\ ChargedIsEstablished => MeteringExact
    <2> SUFFICES ASSUME TypeOK, ChargedIsEstablished, NEW c \in Calls, ~Price[c].inclusive
                 PROVE  disp[c].charged = CostOf(c, disp[c].obs)
        BY DEF MeteringExact, ChargedIsEstablished
    <2>2. disp[c].obs \in SUBSET Reports /\ disp[c].charged \in Nat
        BY DEF TypeOK, DispatchRow
    <2>3. PICK reports \in SUBSET disp[c].obs : disp[c].charged = CostOf(c, reports)
        BY DEF ChargedIsEstablished
    <2>4. reports \in SUBSET Reports /\ reports \subseteq disp[c].obs
        BY <2>2, <2>3
    <2>5. /\ MaxUsageOf(reports) \in Usage /\ MaxUsageOf(disp[c].obs) \in Usage
          /\ MaxUsageOf(reports).input <= MaxUsageOf(disp[c].obs).input
          /\ MaxUsageOf(reports).cached <= MaxUsageOf(disp[c].obs).cached
        BY <2>2, <2>4, MaxUsageType, MaxUsageGrows
    <2>6. CostOf(c, reports) <= CostOf(c, disp[c].obs)
        BY <2>5, CostIsMonotone DEF CostOf
    <2>7. CostOf(c, disp[c].obs) <= disp[c].charged /\ CostOf(c, disp[c].obs) \in Int
        BY <2>2, CostOfType DEF ChargedIsEstablished
    <2> QED BY <2>2, <2>3, <2>6, <2>7
<1> QED BY <1>1, <1>2, <1>3, TypeCorrect, PTL DEF Spec

-----------------------------------------------------------------------------
(* The finance state.                                                      *)

\* A call that was admitted draws on an allocation of its operation.
AdmittedIsFunded ==
    \A c \in Calls : disp[c].state \notin {"none", "denied"} => Allocations(OpOfCall(c)) # {}

\* The operations on money keep the amount of an allocation.
LEMMA AmountKept ==
    ASSUME NEW a \in Allocation, NEW x \in Int, NEW d \in Int
    PROVE  /\ Reserve(a, x).amount = a.amount /\ Release(a, x).amount = a.amount
           /\ Release(Charge(a, d), x).amount = a.amount
BY DEF Allocation, Reserve, Release, Charge

\* An operation keeps every allocation it was given.
AllocationsKept == \A o \in Ops : Allocations(o) \subseteq Allocations(o)'

\* A reservation, a release and a charge keep the allocations.
LEMMA BudgetKeeps ==
    ASSUME TypeOK, NEW o \in Ops, NEW x \in Int, NEW d \in Int,
           ReserveBudget(o, x) \/ ReleaseBudget(o, x) \/ ChargeBudget(o, d, x)
    PROVE  AllocationsKept
<1>1. \A q \in Ops : \A p \in 1..Periods : alloc[q][p] \in Allocation
    BY DEF TypeOK
<1>2. /\ \A q \in Ops : q # o => alloc'[q] = alloc[q]
      /\ \A p \in 1..Periods : alloc'[o][p] \in {alloc[o][p], Reserve(alloc[o][p], x), Release(alloc[o][p], x),
                                                 Release(Charge(alloc[o][p], d), x)}
    <2>1. alloc \in [Ops -> [1..Periods -> Allocation]]
        BY DEF TypeOK
    <2>2. CASE ReserveBudget(o, x)
        BY <2>1, <2>2 DEF ReserveBudget
    <2>3. CASE ReleaseBudget(o, x)
        BY <2>1, <2>3 DEF ReleaseBudget
    <2>4. CASE ChargeBudget(o, d, x)
        BY <2>1, <2>4 DEF ChargeBudget
    <2> QED BY <2>2, <2>3, <2>4
<1>3. ASSUME NEW q \in Ops, NEW p \in 1..Periods PROVE alloc'[q][p].amount = alloc[q][p].amount
    <2>1. CASE q # o
        BY <1>2, <2>1
    <2>2. CASE q = o
        <3>1. alloc[o][p] \in Allocation
            BY <1>1
        <3>2. alloc'[o][p] \in {alloc[o][p], Reserve(alloc[o][p], x), Release(alloc[o][p], x),
                               Release(Charge(alloc[o][p], d), x)}
            BY <1>2
        <3>3. alloc'[o][p].amount = alloc[o][p].amount
            <4> DEFINE b == alloc[o][p]
            <4>1. /\ Reserve(b, x).amount = b.amount /\ Release(b, x).amount = b.amount
                  /\ Release(Charge(b, d), x).amount = b.amount
                BY <3>1, AmountKept
            <4> QED BY <3>2, <4>1
        <3> QED BY <2>2, <3>3
    <2> QED BY <2>1, <2>2
<1> QED BY <1>3 DEF AllocationsKept, Allocations

\* No step takes an allocation back.
LEMMA AllocationsStep ==
    ASSUME TypeOK, [Next]_vars
    PROVE  AllocationsKept
<1>1. CASE UNCHANGED alloc
    BY <1>1 DEF AllocationsKept, Allocations
<1>2. \A c \in Calls : OpOfCall(c) \in Ops /\ Exposure[c] \in Int /\ 0 \in Int
    BY Bindings, DispatchAssumption DEF OpOfCall
<1>3. ASSUME NEW r \in Requests, Admit(r) \/ Send(r) PROVE AllocationsKept
    <2>1. CallOf[r] \in Calls
        BY Bindings
    <2>2. CASE Prepare(r)
        <3>1. UNCHANGED alloc \/ ReserveBudget(OpOfCall(CallOf[r]), Exposure[CallOf[r]])
            BY <2>2 DEF Prepare, moneyVars
        <3> QED BY <1>1, <1>2, <2>1, <3>1, BudgetKeeps
    <2>3. CASE Consume(r)
        <3>1. UNCHANGED alloc \/ ReleaseBudget(OpOfCall(CallOf[r]), Exposure[CallOf[r]])
            BY <2>3 DEF Consume, moneyVars
        <3> QED BY <1>1, <1>2, <2>1, <3>1, BudgetKeeps
    <2>4. CASE Put(r) \/ MarkInventoryUncertain(r) \/ Answer(r) \/ Abandon(r) \/ Send(r)
        BY <1>1, <2>4 DEF Put, MarkInventoryUncertain, Answer, Abandon, Send, moneyVars
    <2> QED BY <1>3, <2>2, <2>3, <2>4 DEF Admit
<1>4. ASSUME NEW c \in Calls, Report(c) \/ ReconcileUnresolved(c) PROVE AllocationsKept
    <2>1. 1 \in 1..MaxSeq
        BY DispatchAssumption
    <2>2. PICK src \in Sources \cup {Query}, seq \in 1..MaxSeq, outcome \in {"definite", "unknown"},
               usage \in {NoUsage} \cup Usages : Observe(c, src, seq, outcome, usage)
        BY <1>4, <2>1 DEF Report, ReconcileUnresolved
    <2> DEFINE obs == disp[c].obs \cup {[src |-> src, seq |-> seq, usage |-> usage]}
               cost == Cost(MaxUsageOf(obs), Price[c], Scale)
               delta == IF cost > disp[c].charged THEN cost - disp[c].charged ELSE 0
               x == IF disp[c].state # "observed" /\ outcome = "definite" THEN Exposure[c] ELSE 0
    <2>3. ChargeBudget(OpOfCall(c), delta, x)
        BY <2>2 DEF Observe
    <2>4. disp[c].charged \in Nat /\ obs \in SUBSET Reports
        BY DEF TypeOK, DispatchRow, Reports
    <2>5. cost \in Int
        <3> HIDE DEF obs
        <3> QED BY <2>4, MaxUsageType, CostType
    <2>6. delta \in Int /\ x \in Int
        <3> HIDE DEF cost
        <3> QED BY <1>2, <2>4, <2>5
    <2> HIDE DEF delta, x
    <2> QED BY <1>2, <2>3, <2>6, BudgetKeeps
<1>5. ASSUME NEW c \in Calls, ConfirmNotSent(c) PROVE AllocationsKept
    BY <1>2, <1>5, BudgetKeeps DEF ConfirmNotSent
<1>6. ASSUME NEW a \in Attempts, CloseAttempt(a) PROVE AllocationsKept
    <2>1. OpOf[a] \in Ops /\ ExposureSum(PreparedDispatches(a)) \in Int
        BY DispatchAssumption, ExposureSums DEF PreparedDispatches
    <2>2. ReleaseBudget(OpOf[a], ExposureSum(PreparedDispatches(a)))
        BY <1>6 DEF CloseAttempt
    <2> QED BY <1>2, <2>1, <2>2, BudgetKeeps
<1>7. ASSUME NEW o \in Ops, Allocate(o) PROVE AllocationsKept
    <2>1. alloc \in [Ops -> [1..Periods -> Allocation]] /\ period \in 1..Periods
        BY DEF TypeOK
    <2>2. alloc' = [alloc EXCEPT ![o][period] = NewAllocation(Amount)]
        BY <1>7 DEF Allocate
    <2>3. NewAllocation(Amount).amount > 0
        BY DispatchAssumption DEF NewAllocation, NoAllocation
    <2>4. \A q \in Ops : \A p \in 1..Periods :
            alloc'[q][p] = IF q = o /\ p = period THEN NewAllocation(Amount) ELSE alloc[q][p]
        BY <2>1, <2>2
    <2> QED BY <2>3, <2>4 DEF AllocationsKept, Allocations
<1>8. ASSUME NEW o \in Ops, SettleFinance(o) PROVE AllocationsKept
    <2>1. alloc \in [Ops -> [1..Periods -> Allocation]]
        BY DEF TypeOK
    <2>2. /\ \A q \in Ops : q # o => alloc'[q] = alloc[q]
          /\ \A p \in 1..Periods : \/ alloc'[o][p] = alloc[o][p]
                                   \/ \E n : alloc'[o][p] = [alloc[o][p] EXCEPT !.returned = n]
        BY <1>8, <2>1 DEF SettleFinance
    <2>3. ASSUME NEW q \in Ops, NEW p \in 1..Periods PROVE alloc'[q][p].amount = alloc[q][p].amount
        <3>1. \/ alloc'[q][p] = alloc[q][p]
              \/ \E n : alloc'[q][p] = [alloc[q][p] EXCEPT !.returned = n]
            BY <2>2
        <3>2. alloc[q][p] \in Allocation
            BY <2>1
        <3> QED BY <3>1, <3>2 DEF Allocation
    <2> QED BY <2>3 DEF AllocationsKept, Allocations
<1>9. ASSUME NEW o \in Ops, Fence(o) \/ Unfence(o) \/ EndOperation(o) PROVE AllocationsKept
    BY <1>1, <1>9 DEF Fence, Unfence, EndOperation, moneyVars
<1>10. ASSUME NEW c \in Calls, Attest(c) \/ Lapse(c) PROVE AllocationsKept
    BY <1>1, <1>10 DEF Attest, Lapse, moneyVars
<1>11. ASSUME NEW g \in Grants, Register(g) \/ BeginRevocation(g) \/ Revocation(g) PROVE AllocationsKept
    BY <1>1, <1>11 DEF Register, BeginRevocation, Revocation, moneyVars
<1>12. ASSUME NEW a \in Attempts, AcceptResult(a) PROVE AllocationsKept
    BY <1>1, <1>12 DEF AcceptResult, moneyVars
<1>13. CASE \/ UNCHANGED vars \/ (\E p \in 1..Periods : AdjustPool(p)) \/ (\E k \in Caps : SetCostCap(k))
            \/ NextPeriod \/ BeginRecovery \/ ReopenAdmission
    BY <1>1, <1>13 DEF vars, moneyVars, AdjustPool, SetCostCap, NextPeriod, BeginRecovery, ReopenAdmission
<1> QED BY <1>3, <1>4, <1>5, <1>6, <1>7, <1>8, <1>9, <1>10, <1>11, <1>12, <1>13 DEF Next

\* Admission asks for an allocation, and none is taken back.
LEMMA FundedStep ==
    ASSUME TypeOK, AdmittedIsFunded, [Next]_vars
    PROVE  AdmittedIsFunded'
<1> SUFFICES ASSUME NEW c \in Calls, disp'[c].state \notin {"none", "denied"}
             PROVE  Allocations(OpOfCall(c))' # {}
    BY DEF AdmittedIsFunded, OpOfCall
<1>1. OpOfCall(c) \in Ops /\ AllocationsKept
    BY Bindings, AllocationsStep DEF OpOfCall
<1>2. disp[c].state \notin {"none", "denied"} \/ Allocations(OpOfCall(c)) # {}
    <2>1. CASE Next
        BY <2>1, StateStep DEF StateMoves, Admits, CheckAdmission
    <2>2. CASE UNCHANGED vars
        BY <2>2 DEF vars
    <2> QED BY <2>1, <2>2
<1>3. Allocations(OpOfCall(c)) # {}
    BY <1>2 DEF AdmittedIsFunded
<1>4. \A o \in Ops : Allocations(o) # {} => Allocations(o)' # {}
    BY <1>1 DEF AllocationsKept
<1> QED BY <1>1, <1>3, <1>4 DEF OpOfCall

\* settleFinance states what the outcome of one call leaves unknown.
LEMMA OutcomeStated ==
    ASSUME TypeOK, ExposureTruthful, NEW c \in Calls, NEW s, NEW settled \in BOOLEAN,
           settled => s # "unknown", settled \/ s = "unknown" \/ disp[c].state # "unknown",
           disp'[c].state = s, \A d \in Calls : d # c => disp'[d].state = disp[d].state,
           finance' = [finance EXCEPT ![OpOfCall(c)] = FinanceAfter(OpOfCall(c), c, s, settled)]
    PROVE  ExposureTruthful'
<1> SUFFICES ASSUME NEW o \in Ops
             PROVE  finance'[o] = "exposure_unknown" <=> \E d \in CallsOf(o) : disp'[d].state = "unknown"
    BY DEF ExposureTruthful, CallsOf, OpOfCall
<1>1. finance \in [Ops -> FinanceStates] /\ OpOfCall(c) \in Ops
    BY Bindings DEF TypeOK, OpOfCall
<1>2. finance[o] = "exposure_unknown" <=> \E d \in CallsOf(o) : disp[d].state = "unknown"
    BY DEF ExposureTruthful
<1>3. \A d \in CallsOf(o) : d \in Calls /\ OpOfCall(d) = o
    BY DEF CallsOf
<1>4. CASE o # OpOfCall(c)
    BY <1>1, <1>2, <1>3, <1>4
<1>5. CASE o = OpOfCall(c)
    <2>1. finance'[o] = FinanceAfter(o, c, s, settled) /\ c \in CallsOf(o)
        BY <1>1, <1>5 DEF CallsOf
    <2>2. CASE s = "unknown"
        <3>1. finance'[o] = "exposure_unknown"
            BY <2>1, <2>2 DEF FinanceAfter
        <3> QED BY <2>1, <2>2, <3>1
    <2>3. CASE s # "unknown" /\ settled /\ finance[o] = "exposure_unknown" /\ ~HasUnknownDispatch(o, c)
        <3>1. finance'[o] = "funded"
            BY <2>1, <2>3 DEF FinanceAfter
        <3>2. \A d \in CallsOf(o) : disp'[d].state # "unknown"
            BY <1>3, <2>3 DEF HasUnknownDispatch
        <3> QED BY <3>1, <3>2
    <2>4. CASE s # "unknown" /\ ~(settled /\ finance[o] = "exposure_unknown" /\ ~HasUnknownDispatch(o, c))
        <3>1. finance'[o] = finance[o]
            BY <2>1, <2>4 DEF FinanceAfter
        <3>2. (\E d \in CallsOf(o) : disp[d].state = "unknown") <=> (\E d \in CallsOf(o) : disp'[d].state = "unknown")
            BY <1>2, <1>3, <2>1, <2>4 DEF HasUnknownDispatch
        <3> QED BY <1>2, <3>1, <3>2
    <2> QED BY <2>2, <2>3, <2>4
<1> QED BY <1>4, <1>5

\* No operation draws on the pools of two periods.  Allocate does not refuse
\* it: DispatchRollover shows what follows.
FundedOnce == \A o \in Ops : \A p, q \in Allocations(o) : p = q

\* Then an operation is funded before its first call.
LEMMA FirstFunding ==
    ASSUME TypeOK, NEW o \in Ops, Allocate(o), FundedOnce'
    PROVE  /\ Allocations(o) = {}
           /\ \A q \in Ops : \A p \in 1..Periods :
                alloc'[q][p] = IF q = o /\ p = period THEN NewAllocation(Amount) ELSE alloc[q][p]
<1>1. alloc \in [Ops -> [1..Periods -> Allocation]] /\ period \in 1..Periods
    BY DEF TypeOK
<1>2. alloc' = [alloc EXCEPT ![o][period] = NewAllocation(Amount)] /\ alloc[o][period].amount = 0
    BY DEF Allocate
<1>3. \A q \in Ops : \A p \in 1..Periods :
        alloc'[q][p] = IF q = o /\ p = period THEN NewAllocation(Amount) ELSE alloc[q][p]
    BY <1>1, <1>2
<1>4. NewAllocation(Amount).amount > 0
    BY DispatchAssumption DEF NewAllocation, NoAllocation
<1>5. ASSUME NEW p \in Allocations(o) PROVE FALSE
    <2>1. p \in 1..Periods /\ p # period
        BY <1>2 DEF Allocations
    <2>2. alloc'[o][p] = alloc[o][p] /\ alloc'[o][period].amount > 0
        BY <1>1, <1>3, <1>4, <2>1
    <2>3. {p, period} \subseteq Allocations(o)'
        BY <1>1, <2>1, <2>2 DEF Allocations
    <2> QED BY <2>1, <2>3 DEF FundedOnce
<1> QED BY <1>3, <1>5

\* No funding overwrites the statement that a call is unknown.
LEMMA TruthfulStep ==
    ASSUME TypeOK, AdmittedIsFunded, ExposureTruthful, FundedOnce', [Next]_vars
    PROVE  ExposureTruthful'
<1> DEFINE Same == UNCHANGED finance /\ \A c \in Calls : disp'[c].state = "unknown" <=> disp[c].state = "unknown"
<1>1. ASSUME Same PROVE ExposureTruthful'
    <2>1. ASSUME NEW o \in Ops
          PROVE  finance'[o] = "exposure_unknown" <=> \E d \in CallsOf(o) : disp'[d].state = "unknown"
        BY <1>1 DEF ExposureTruthful, CallsOf
    <2> QED BY <2>1 DEF ExposureTruthful, CallsOf, OpOfCall
<1>2. ASSUME UNCHANGED <<finance, disp>> PROVE Same
    BY <1>2
<1>3. ASSUME NEW c \in Calls, NEW s, disp' = [disp EXCEPT ![c].state = s], s # "unknown",
             disp[c].state # "unknown", UNCHANGED finance
      PROVE  Same
    BY <1>3, StateUpdate
<1>4. ASSUME NEW r \in Requests, Admit(r) \/ Send(r) PROVE Same
    <2>1. CallOf[r] \in Calls /\ disp \in [Calls -> DispatchRow]
        BY Bindings DEF TypeOK
    <2>2. CASE Prepare(r)
        BY <1>2, <1>3, <2>1, <2>2 DEF Prepare, financeVars
    <2>3. CASE MarkInventoryUncertain(r)
        <3>1. CASE disp' = [disp EXCEPT ![CallOf[r]].inventory = "uncertain"] /\ UNCHANGED finance
            BY <2>1, <3>1 DEF DispatchRow
        <3> QED BY <1>2, <2>3, <3>1 DEF MarkInventoryUncertain, financeVars
    <2>4. CASE Consume(r)
        <3>1. CASE /\ disp' = [disp EXCEPT ![CallOf[r]] = [state |-> "authorized", inventory |-> "confirmed",
                                                           charged |-> @.charged, obs |-> @.obs]]
                   /\ disp[CallOf[r]].state = "prepared" /\ UNCHANGED finance
            BY <2>1, <3>1
        <3> QED BY <1>2, <1>3, <2>1, <2>4, <3>1 DEF Consume, financeVars
    <2>5. CASE Put(r) \/ Answer(r) \/ Abandon(r) \/ Send(r)
        BY <1>2, <2>5 DEF Put, Answer, Abandon, Send, financeVars
    <2> QED BY <1>4, <2>2, <2>3, <2>4, <2>5 DEF Admit
<1>5. ASSUME NEW c \in Calls, NEW src, NEW seq, NEW outcome, NEW usage, Observe(c, src, seq, outcome, usage)
      PROVE  ExposureTruthful'
    <2> DEFINE settled == disp[c].state # "observed" /\ outcome = "definite"
               state == CASE disp[c].state = "observed" -> "observed"
                          [] outcome = "definite" -> "observed"
                          [] OTHER -> "unknown"
    <2>1. finance' = [finance EXCEPT ![OpOfCall(c)] = FinanceAfter(OpOfCall(c), c, state, settled)]
        BY <1>5 DEF Observe
    <2>2. \E n, m : disp' = [disp EXCEPT ![c] = [state |-> state, inventory |-> @.inventory, charged |-> n, obs |-> m]]
        BY <1>5 DEF Observe
    <2>3. disp'[c].state = state /\ \A d \in Calls : d # c => disp'[d].state = disp[d].state
        <3> HIDE DEF state
        <3> QED BY <2>2 DEF TypeOK
    <2>4. /\ settled \in BOOLEAN /\ (settled => state # "unknown")
          /\ settled \/ state = "unknown" \/ disp[c].state # "unknown"
        OBVIOUS
    <2>5. ASSUME NEW s, NEW f \in BOOLEAN, f => s # "unknown", f \/ s = "unknown" \/ disp[c].state # "unknown",
                 disp'[c].state = s, finance' = [finance EXCEPT ![OpOfCall(c)] = FinanceAfter(OpOfCall(c), c, s, f)]
          PROVE  ExposureTruthful'
        BY <2>3, <2>5, OutcomeStated
    <2> HIDE DEF settled, state
    <2> QED BY <2>1, <2>3, <2>4, <2>5, Zenon
<1>6. ASSUME NEW c \in Calls, Report(c) \/ ReconcileUnresolved(c) PROVE ExposureTruthful'
    BY <1>5, <1>6 DEF Report, ReconcileUnresolved
<1>7. ASSUME NEW c \in Calls, ConfirmNotSent(c) PROVE ExposureTruthful'
    <2>1. /\ disp' = [disp EXCEPT ![c].state = "confirmed_not_sent"]
          /\ finance' = [finance EXCEPT ![OpOfCall(c)] = FinanceAfter(OpOfCall(c), c, "confirmed_not_sent", TRUE)]
        BY <1>7 DEF ConfirmNotSent
    <2>2. disp'[c].state = "confirmed_not_sent" /\ \A d \in Calls : d # c => disp'[d].state = disp[d].state
        BY <2>1, StateUpdate
    <2> QED BY <2>1, <2>2, OutcomeStated
<1>8. ASSUME NEW a \in Attempts, CloseAttempt(a) PROVE Same
    <2>1. ASSUME NEW c \in Calls PROVE disp'[c].state = "unknown" <=> disp[c].state = "unknown"
        <3>1. \/ disp'[c] = disp[c]
              \/ disp[c].state = "prepared" /\ disp'[c] = [disp[c] EXCEPT !.state = "denied"]
            BY <1>8 DEF CloseAttempt, PreparedDispatches
        <3>2. disp[c] \in DispatchRow
            BY DEF TypeOK
        <3> QED BY <3>1, <3>2 DEF DispatchRow
    <2> QED BY <1>8, <2>1 DEF CloseAttempt, financeVars
<1>9. ASSUME NEW o \in Ops, Allocate(o) \/ SettleFinance(o) PROVE ExposureTruthful'
    <2>1. finance \in [Ops -> FinanceStates] /\ UNCHANGED disp
        BY <1>9 DEF TypeOK, Allocate, SettleFinance
    <2>2. finance' = [finance EXCEPT ![o] = "funded"] \/ finance' = [finance EXCEPT ![o] = "settled"]
        BY <1>9 DEF Allocate, SettleFinance
    <2>3. \A d \in CallsOf(o) : disp[d].state # "unknown"
        <3>1. CASE Allocate(o)
            <4>1. Allocations(o) = {}
                BY <3>1, FirstFunding
            <4> QED BY <4>1 DEF AdmittedIsFunded, CallsOf
        <3>2. CASE SettleFinance(o)
            BY <3>2 DEF SettleFinance, Holding
        <3> QED BY <1>9, <3>1, <3>2
    <2>4. ASSUME NEW q \in Ops
          PROVE  finance'[q] = "exposure_unknown" <=> \E d \in CallsOf(q) : disp'[d].state = "unknown"
        <3>1. CASE q = o
            BY <2>1, <2>2, <2>3, <3>1
        <3>2. CASE q # o
            BY <2>1, <2>2, <3>2 DEF ExposureTruthful
        <3> QED BY <3>1, <3>2
    <2> QED BY <2>4 DEF ExposureTruthful, CallsOf, OpOfCall
<1>10. ASSUME NEW o \in Ops, Fence(o) \/ Unfence(o) \/ EndOperation(o) PROVE Same
    BY <1>2, <1>10 DEF Fence, Unfence, EndOperation, financeVars
<1>11. ASSUME NEW c \in Calls, Attest(c) \/ Lapse(c) PROVE Same
    BY <1>2, <1>11 DEF Attest, Lapse, financeVars
<1>12. ASSUME NEW g \in Grants, Register(g) \/ BeginRevocation(g) \/ Revocation(g) PROVE Same
    BY <1>2, <1>12 DEF Register, BeginRevocation, Revocation, financeVars
<1>13. ASSUME NEW a \in Attempts, AcceptResult(a) PROVE Same
    BY <1>2, <1>13 DEF AcceptResult, financeVars
<1>14. CASE \/ UNCHANGED vars \/ (\E p \in 1..Periods : AdjustPool(p)) \/ (\E k \in Caps : SetCostCap(k))
            \/ NextPeriod \/ BeginRecovery \/ ReopenAdmission
    <2>1. UNCHANGED <<finance, disp>>
        BY <1>14 DEF vars, financeVars, AdjustPool, SetCostCap, NextPeriod, BeginRecovery, ReopenAdmission
    <2> QED BY <1>1, <1>2, <2>1
<1> HIDE DEF Same
<1> QED BY <1>1, <1>4, <1>6, <1>7, <1>8, <1>9, <1>10, <1>11, <1>12, <1>13, <1>14 DEF Next

\* While no operation is funded twice, finance says exposure_unknown exactly
\* while a call of the operation has an unknown outcome (settleFinance).
THEOREM UnknownIsStated == Spec /\ []FundedOnce => []ExposureTruthful
<1>1. Init => AdmittedIsFunded /\ ExposureTruthful
    BY DEF Init, AdmittedIsFunded, ExposureTruthful, CallsOf
<1>2. TypeOK /\ AdmittedIsFunded /\ ExposureTruthful /\ FundedOnce' /\ [Next]_vars
        => (AdmittedIsFunded /\ ExposureTruthful)'
    BY FundedStep, TruthfulStep
<1> QED BY <1>1, <1>2, TypeCorrect, PTL DEF Spec

-----------------------------------------------------------------------------
(* What a step does to the exposure held and the cost charged.             *)

\* The calls among C that hold their exposure.
HeldIn(C) == {c \in C : disp[c].state \in Holding}

\* The calls of operation o hold t more and x less than before.
MovesHeld(o, t, x) ==
    \A C \in SUBSET Calls :
        /\ CallsOf(o) \subseteq C => x <= HeldExposure(C) + t /\ HeldExposure(C)' = HeldExposure(C) + t - x
        /\ CallsOf(o) \cap C = {} => HeldExposure(C)' = HeldExposure(C)

\* The calls of operation o are charged d more than before.
MovesCharged(o, d) ==
    \A C \in SUBSET Calls :
        /\ CallsOf(o) \subseteq C => Charged(C)' = Charged(C) + d
        /\ CallsOf(o) \cap C = {} => Charged(C)' = Charged(C)

\* The sums are natural numbers.
LEMMA SumTypes ==
    ASSUME TypeOK, NEW C \in SUBSET Calls
    PROVE  HeldExposure(C) \in Nat /\ Charged(C) \in Nat
<1>1. HeldIn(C) \in SUBSET Calls
    BY DEF HeldIn
<1>2. ExposureSum(HeldIn(C)) \in Nat
    BY <1>1, ExposureSums
<1>3. IsFiniteSet(C)
    BY ExposureSums
<1>4. \A c \in C : [d \in Calls |-> disp[d].charged][c] \in Nat
    BY DEF TypeOK, DispatchRow
<1>5. Charged(C) \in Nat
    BY <1>3, <1>4, SumFacts DEF Charged
<1> QED BY <1>2, <1>5 DEF HeldExposure, HeldIn

\* A step that changes which calls hold their exposure nowhere.
LEMMA HeldKept ==
    ASSUME NEW C \in SUBSET Calls, \A c \in C : disp'[c].state \in Holding <=> disp[c].state \in Holding
    PROVE  HeldExposure(C)' = HeldExposure(C)
<1>1. {c \in C : disp'[c].state \in Holding} = {c \in C : disp[c].state \in Holding}
    OBVIOUS
<1>2. HeldExposure(C)' = ExposureSum({c \in C : disp'[c].state \in Holding})
    BY DEF HeldExposure, ExposureSum, Holding
<1> QED BY <1>1, <1>2 DEF HeldExposure

\* A call takes up its exposure.
LEMMA HeldTaken ==
    ASSUME TypeOK, NEW c \in Calls, disp[c].state \notin Holding, disp'[c].state \in Holding,
           \A d \in Calls : d # c => (disp'[d].state \in Holding <=> disp[d].state \in Holding)
    PROVE  MovesHeld(OpOfCall(c), Exposure[c], 0)
<1> SUFFICES ASSUME NEW C \in SUBSET Calls
             PROVE  /\ c \in C => HeldExposure(C)' = HeldExposure(C) + Exposure[c]
                    /\ c \notin C => HeldExposure(C)' = HeldExposure(C)
    <2>1. c \in CallsOf(OpOfCall(c)) /\ Exposure[c] \in Nat
        BY DispatchAssumption DEF CallsOf
    <2>2. \A C \in SUBSET Calls : HeldExposure(C) \in Nat
        BY SumTypes
    <2> QED BY <2>1, <2>2 DEF MovesHeld
<1>1. CASE c \in C
    <2> DEFINE H == {d \in C : disp'[d].state \in Holding}
    <2>1. H \in SUBSET Calls /\ c \in H /\ H \ {c} = {d \in C : disp[d].state \in Holding}
        BY <1>1
    <2>2. HeldExposure(C)' = ExposureSum(H)
        BY DEF HeldExposure, ExposureSum, Holding
    <2> HIDE DEF H
    <2>3. ExposureSum(H) = Exposure[c] + ExposureSum(H \ {c})
        BY <2>1, ExposureSums
    <2>4. HeldExposure(C) = ExposureSum(H \ {c}) /\ HeldExposure(C) \in Nat /\ Exposure[c] \in Nat
        BY <2>1, SumTypes, DispatchAssumption DEF HeldExposure
    <2> QED BY <1>1, <2>2, <2>3, <2>4
<1>2. CASE c \notin C
    BY <1>2, HeldKept
<1> QED BY <1>1, <1>2

\* Calls of one operation give up their exposure.
LEMMA HeldGiven ==
    ASSUME TypeOK, NEW o \in Ops, NEW P \in SUBSET CallsOf(o),
           \A c \in P : disp[c].state \in Holding /\ disp'[c].state \notin Holding,
           \A d \in Calls \ P : disp'[d].state \in Holding <=> disp[d].state \in Holding
    PROVE  MovesHeld(o, 0, ExposureSum(P))
<1>1. P \in SUBSET Calls
    BY DEF CallsOf
<1>2. ASSUME NEW C \in SUBSET Calls, CallsOf(o) \subseteq C
      PROVE  ExposureSum(P) <= HeldExposure(C) + 0 /\ HeldExposure(C)' = HeldExposure(C) + 0 - ExposureSum(P)
    <2> DEFINE H == {d \in C : disp[d].state \in Holding}
    <2>1. H \in SUBSET Calls /\ P \in SUBSET H /\ H \ P = {d \in C : disp'[d].state \in Holding}
        BY <1>2
    <2>2. HeldExposure(C)' = ExposureSum(H \ P) /\ HeldExposure(C) = ExposureSum(H)
        <3> HIDE DEF H
        <3>1. HeldExposure(C)' = ExposureSum({d \in C : disp'[d].state \in Holding})
            BY DEF HeldExposure, ExposureSum, Holding
        <3> QED BY <2>1, <3>1 DEF HeldExposure, H
    <2> HIDE DEF H
    <2>3. H \ P \in SUBSET Calls
        BY <2>1
    <2>4. ExposureSum(H) = ExposureSum(P) + ExposureSum(H \ P)
        BY <2>1, ExposureSums
    <2>5. ExposureSum(P) \in Nat /\ ExposureSum(H \ P) \in Nat
        BY <1>1, <2>3, ExposureSums
    <2> QED BY <2>2, <2>4, <2>5
<1>3. ASSUME NEW C \in SUBSET Calls, CallsOf(o) \cap C = {} PROVE HeldExposure(C)' = HeldExposure(C)
    BY <1>3, HeldKept
<1> QED BY <1>2, <1>3 DEF MovesHeld

\* A step that charges none of the calls.
LEMMA ChargedKept ==
    ASSUME TypeOK, NEW C \in SUBSET Calls, \A c \in C : disp'[c].charged = disp[c].charged
    PROVE  Charged(C)' = Charged(C)
<1> DEFINE e == [c \in Calls |-> disp[c].charged]
           f == [c \in Calls |-> disp'[c].charged]
<1>1. IsFiniteSet(C)
    BY ExposureSums
<1>2. \A c \in C : e[c] \in Nat /\ f[c] = e[c]
    BY DEF TypeOK, DispatchRow
<1>3. Charged(C) = SumFunctionOnSet(e, C) /\ Charged(C)' = SumFunctionOnSet(f, C)
    BY DEF Charged, SumFunctionOnSet, FoldFunctionOnSet, MapThenFoldSet
<1> HIDE DEF e, f
<1> QED BY <1>1, <1>2, <1>3, SumAgrees

\* A step that charges one call.
LEMMA ChargedMore ==
    ASSUME TypeOK, NEW c \in Calls, NEW n \in Nat, disp'[c].charged = disp[c].charged + n,
           \A d \in Calls : d # c => disp'[d].charged = disp[d].charged
    PROVE  MovesCharged(OpOfCall(c), n)
<1> DEFINE e == [d \in Calls |-> disp[d].charged]
           f == [d \in Calls |-> disp'[d].charged]
<1>1. \A C \in SUBSET Calls : Charged(C) = SumFunctionOnSet(e, C) /\ Charged(C)' = SumFunctionOnSet(f, C)
    BY DEF Charged, SumFunctionOnSet, FoldFunctionOnSet, MapThenFoldSet
<1>2. /\ \A d \in Calls : e[d] \in Nat /\ f[d] \in Nat /\ (d # c => f[d] = e[d])
      /\ f[c] = e[c] + n
    BY DEF TypeOK, DispatchRow
<1>3. c \in CallsOf(OpOfCall(c))
    BY DEF CallsOf
<1> HIDE DEF e, f
<1>4. ASSUME NEW C \in SUBSET Calls, c \in C PROVE Charged(C)' = Charged(C) + n
    <2>1. IsFiniteSet(C)
        BY ExposureSums
    <2>2. SumFunctionOnSet(f, C) = SumFunctionOnSet(e, C) - e[c] + f[c]
        <3>1. (\A d \in C : e[d] \in Nat /\ f[d] \in Nat) /\ (\A d \in C \ {c} : f[d] = e[d])
            BY <1>2
        <3> QED BY <1>4, <2>1, <3>1, SumChange
    <2>3. Charged(C) \in Nat /\ e[c] \in Nat
        BY <1>2, SumTypes
    <2> QED BY <1>1, <1>2, <2>2, <2>3
<1>5. ASSUME NEW C \in SUBSET Calls, c \notin C PROVE Charged(C)' = Charged(C)
    <2>1. \A d \in C : disp'[d].charged = disp[d].charged
        BY <1>5
    <2> QED BY <2>1, ChargedKept
<1> QED BY <1>3, <1>4, <1>5 DEF MovesCharged

-----------------------------------------------------------------------------
(* What a step does to the allocations and the cost caps.                  *)

\* An allocation reserves t more and x less and consumes d more than before;
\* a counted cap follows, but its release is clamped at zero.
AllocationMoved(a, b, t, x, d) ==
    /\ b.amount = a.amount /\ b.returned = a.returned
    /\ b.reserved = a.reserved + t - x
    /\ b.consumed = a.consumed + d

CapMoved(a, b, t, x, d) ==
    /\ b.set = a.set /\ b.limit = a.limit
    /\ b.reserved = IF x <= a.reserved + t THEN a.reserved + t - x ELSE 0
    /\ b.consumed = a.consumed + d

\* The budget of operation o moves, and no other.
MovesBudget(o, t, x, d) ==
    /\ \A q \in Ops : \A p \in 1..Periods :
        IF q = o /\ p \in Allocations(o) THEN AllocationMoved(alloc[q][p], alloc'[q][p], t, x, d)
                                         ELSE alloc'[q][p] = alloc[q][p]
    /\ \A k \in Caps :
        IF k \in CountedCaps(o) THEN CapMoved(cap[k], cap'[k], t, x, d) ELSE cap'[k] = cap[k]

\* The operations on one allocation and on one cap.
LEMMA MoneyArithmetic ==
    ASSUME NEW x \in Nat, NEW d \in Nat
    PROVE  /\ \A a \in Allocation : /\ AllocationMoved(a, Reserve(a, x), x, 0, 0)
                                    /\ AllocationMoved(a, Release(a, x), 0, x, 0)
                                    /\ AllocationMoved(a, Release(Charge(a, d), x), 0, x, d)
           /\ \A k \in CostCap : /\ CapMoved(k, CapReserve(k, x), x, 0, 0)
                                 /\ CapMoved(k, CapRelease(k, x), 0, x, 0)
                                 /\ CapMoved(k, CapRelease(CapCharge(k, d), x), 0, x, d)
<1>1. ASSUME NEW a \in Allocation
      PROVE  /\ AllocationMoved(a, Reserve(a, x), x, 0, 0)
             /\ AllocationMoved(a, Release(a, x), 0, x, 0)
             /\ AllocationMoved(a, Release(Charge(a, d), x), 0, x, d)
    BY DEF Allocation, AllocationMoved, Reserve, Release, Charge
<1>2. ASSUME NEW k \in CostCap
      PROVE  CapMoved(k, CapReserve(k, x), x, 0, 0) /\ CapMoved(k, CapRelease(k, x), 0, x, 0)
    BY DEF CostCap, CapMoved, CapReserve, CapRelease
<1>3. ASSUME NEW k \in CostCap PROVE CapMoved(k, CapRelease(CapCharge(k, d), x), 0, x, d)
    BY DEF CostCap, CapMoved, CapCharge, CapRelease
<1> QED BY <1>1, <1>2, <1>3

\* Reservations, releases and charges move the budget of one operation.
LEMMA BudgetEffect ==
    ASSUME TypeOK, NEW o \in Ops, NEW x \in Nat, NEW d \in Nat
    PROVE  /\ ReserveBudget(o, x) => MovesBudget(o, x, 0, 0)
           /\ ReleaseBudget(o, x) => MovesBudget(o, 0, x, 0)
           /\ ChargeBudget(o, d, x) => MovesBudget(o, 0, x, d)
<1>1. /\ alloc \in [Ops -> [1..Periods -> Allocation]]
      /\ \A q \in Ops : \A p \in 1..Periods : alloc[q][p] \in Allocation
      /\ \A k \in Caps : cap[k] \in CostCap
    BY DEF TypeOK
<1>2. ASSUME ReserveBudget(o, x) PROVE MovesBudget(o, x, 0, 0)
    <2>1. \A q \in Ops : \A p \in 1..Periods :
            alloc'[q][p] = IF q = o /\ p \in Allocations(o) THEN Reserve(alloc[q][p], x) ELSE alloc[q][p]
        BY <1>1, <1>2 DEF ReserveBudget
    <2>2. \A k \in Caps : cap'[k] = IF k \in CountedCaps(o) THEN CapReserve(cap[k], x) ELSE cap[k]
        BY <1>2 DEF ReserveBudget
    <2> QED BY <1>1, <2>1, <2>2, MoneyArithmetic DEF MovesBudget
<1>3. ASSUME ReleaseBudget(o, x) PROVE MovesBudget(o, 0, x, 0)
    <2>1. \A q \in Ops : \A p \in 1..Periods :
            alloc'[q][p] = IF q = o /\ p \in Allocations(o) THEN Release(alloc[q][p], x) ELSE alloc[q][p]
        BY <1>1, <1>3 DEF ReleaseBudget
    <2>2. \A k \in Caps : cap'[k] = IF k \in CountedCaps(o) THEN CapRelease(cap[k], x) ELSE cap[k]
        BY <1>3 DEF ReleaseBudget
    <2> QED BY <1>1, <2>1, <2>2, MoneyArithmetic DEF MovesBudget
<1>4. ASSUME ChargeBudget(o, d, x) PROVE MovesBudget(o, 0, x, d)
    <2>1. \A q \in Ops : \A p \in 1..Periods :
            alloc'[q][p] = IF q = o /\ p \in Allocations(o) THEN Release(Charge(alloc[q][p], d), x) ELSE alloc[q][p]
        BY <1>1, <1>4 DEF ChargeBudget
    <2>2. \A k \in Caps : cap'[k] = IF k \in CountedCaps(o) THEN CapRelease(CapCharge(cap[k], d), x) ELSE cap[k]
        BY <1>4 DEF ChargeBudget
    <2> QED BY <1>1, <2>1, <2>2, MoneyArithmetic DEF MovesBudget
<1> QED BY <1>2, <1>3, <1>4

-----------------------------------------------------------------------------
(* The steps that move money.                                              *)

\* Reserved exposure, held exposure and charges move together.
MovesMoney(o, t, x, d) == MovesBudget(o, t, x, d) /\ MovesHeld(o, t, x) /\ MovesCharged(o, d)

\* No budget moves, no call takes up or gives up exposure, none is charged.
MoneyStands ==
    /\ UNCHANGED moneyVars
    /\ \A C \in SUBSET Calls : HeldExposure(C)' = HeldExposure(C) /\ Charged(C)' = Charged(C)

\* No pool gives or takes.
PoolStands == \A p \in 1..Periods : pool'[p].allocated = pool[p].allocated

\* A step that moves no row across Holding and charges nothing.
LEMMA RowsStand ==
    ASSUME TypeOK, UNCHANGED <<moneyVars, pool>>,
           \A c \in Calls : /\ disp'[c].state \in Holding <=> disp[c].state \in Holding
                            /\ disp'[c].charged = disp[c].charged
    PROVE  MoneyStands /\ PoolStands
BY HeldKept, ChargedKept DEF MoneyStands, PoolStands

\* Setting the state of one row takes up, gives up or keeps its exposure.
LEMMA RowMoves ==
    ASSUME TypeOK, NEW c \in Calls, NEW s, disp' = [disp EXCEPT ![c].state = s]
    PROVE  /\ MovesCharged(OpOfCall(c), 0)
           /\ disp[c].state \notin Holding /\ s \in Holding => MovesHeld(OpOfCall(c), Exposure[c], 0)
           /\ disp[c].state \in Holding /\ s \notin Holding => MovesHeld(OpOfCall(c), 0, Exposure[c])
           /\ (disp[c].state \in Holding <=> s \in Holding) /\ UNCHANGED <<moneyVars, pool>>
                => MoneyStands /\ PoolStands
<1>1. /\ disp'[c].state = s
      /\ \A d \in Calls : /\ d # c => disp'[d].state = disp[d].state
                          /\ disp'[d].charged = disp[d].charged /\ disp[d].charged \in Nat
    <2>1. disp \in [Calls -> DispatchRow]
        BY DEF TypeOK
    <2> QED BY <2>1 DEF DispatchRow
<1>2. MovesCharged(OpOfCall(c), 0)
    <2>1. disp'[c].charged = disp[c].charged + 0
        BY <1>1
    <2> QED BY <1>1, <2>1, ChargedMore
<1>3. ASSUME disp[c].state \notin Holding, s \in Holding PROVE MovesHeld(OpOfCall(c), Exposure[c], 0)
    BY <1>1, <1>3, HeldTaken
<1>4. ASSUME disp[c].state \in Holding, s \notin Holding PROVE MovesHeld(OpOfCall(c), 0, Exposure[c])
    <2>1. OpOfCall(c) \in Ops /\ {c} \in SUBSET CallsOf(OpOfCall(c)) /\ {c} \in SUBSET Calls
        BY Bindings DEF OpOfCall, CallsOf
    <2>2. MovesHeld(OpOfCall(c), 0, ExposureSum({c}))
        BY <1>1, <1>4, <2>1, HeldGiven
    <2>3. ExposureSum({c}) = Exposure[c]
        <3>1. {c} \ {c} = {} /\ Exposure[c] \in Nat
            BY DispatchAssumption
        <3> QED BY <2>1, <3>1, ExposureSums, SMTT(30)
    <2> QED BY <2>2, <2>3
<1>5. (disp[c].state \in Holding <=> s \in Holding) /\ UNCHANGED <<moneyVars, pool>> => MoneyStands /\ PoolStands
    BY <1>1, RowsStand
<1> QED BY <1>2, <1>3, <1>4, <1>5

\* A report charges the difference and, if it settles the call, gives up
\* its exposure.
LEMMA ReportMoves ==
    ASSUME TypeOK, Metered
    PROVE  (\E o \in Ops, x \in Nat, d \in Nat : MovesMoney(o, 0, x, d)) /\ PoolStands
<1>1. PICK c \in Calls, src \in Sources \cup {Query}, seq \in 1..MaxSeq, outcome \in {"definite", "unknown"},
           usage \in {NoUsage} \cup Usages : Observe(c, src, seq, outcome, usage)
    BY DEF Metered
<1> DEFINE obs == disp[c].obs \cup {[src |-> src, seq |-> seq, usage |-> usage]}
           cost == Cost(MaxUsageOf(obs), Price[c], Scale)
           delta == IF cost > disp[c].charged THEN cost - disp[c].charged ELSE 0
           x == IF disp[c].state # "observed" /\ outcome = "definite" THEN Exposure[c] ELSE 0
           state == CASE disp[c].state = "observed" -> "observed"
                      [] outcome = "definite" -> "observed"
                      [] OTHER -> "unknown"
<1>2. OpOfCall(c) \in Ops /\ Exposure[c] \in Nat
    BY Bindings, DispatchAssumption DEF OpOfCall
<1>3. disp \in [Calls -> DispatchRow] /\ disp[c].charged \in Nat /\ obs \in SUBSET Reports
    BY DEF TypeOK, DispatchRow, Reports
<1>4. /\ disp[c].state \in {"authorized", "unknown", "observed"}
      /\ ChargeBudget(OpOfCall(c), delta, x)
      /\ \E inventory, m : disp' = [disp EXCEPT ![c] = [state |-> state, inventory |-> inventory,
                                                        charged |-> @.charged + delta, obs |-> m]]
      /\ UNCHANGED pool
    <2>1. /\ disp[c].state \in {"authorized", "unknown", "observed"}
          /\ ChargeBudget(OpOfCall(c), delta, x)
          /\ UNCHANGED pool
        BY <1>1 DEF Observe
    <2>2. disp' = [disp EXCEPT ![c] = [state |-> state, inventory |-> @.inventory,
                                       charged |-> @.charged + delta, obs |-> obs]]
        BY <1>1 DEF Observe
    <2> HIDE DEF state, delta, obs, x
    <2> QED BY <1>3, <2>1, <2>2
<1>5. delta \in Nat /\ x \in Nat
    <2>1. cost \in Int
        <3> HIDE DEF obs
        <3> QED BY <1>3, MaxUsageType, CostType
    <2> HIDE DEF cost
    <2> QED BY <1>2, <1>3, <2>1
<1>6. /\ disp'[c].state = state /\ disp'[c].charged = disp[c].charged + delta
      /\ \A d \in Calls : d # c => disp'[d] = disp[d]
    <2> HIDE DEF state, delta, x
    <2> QED BY <1>3, <1>4
<1>7. MovesCharged(OpOfCall(c), delta)
    <2> HIDE DEF delta
    <2> QED BY <1>5, <1>6, ChargedMore
<1>8. MovesHeld(OpOfCall(c), 0, x)
    <2>1. CASE disp[c].state # "observed" /\ outcome = "definite"
        <3>1. x = Exposure[c] /\ state = "observed" /\ disp[c].state \in Holding /\ state \notin Holding
            BY <1>4, <2>1 DEF Holding
        <3>2. {c} \in SUBSET CallsOf(OpOfCall(c)) /\ {c} \in SUBSET Calls /\ {c} \ {c} = {}
            BY DEF CallsOf
        <3> HIDE DEF state, x
        <3>3. MovesHeld(OpOfCall(c), 0, ExposureSum({c}))
            BY <1>2, <1>6, <3>1, <3>2, HeldGiven
        <3>4. ExposureSum({c}) = Exposure[c]
            BY <1>2, <3>2, ExposureSums
        <3> QED BY <3>1, <3>3, <3>4
    <2>2. CASE ~(disp[c].state # "observed" /\ outcome = "definite")
        <3>1. x = 0 /\ (state \in Holding <=> disp[c].state \in Holding)
            BY <1>4, <2>2 DEF Holding
        <3> HIDE DEF state, x
        <3>2. \A C \in SUBSET Calls : HeldExposure(C)' = HeldExposure(C) /\ HeldExposure(C) \in Nat
            BY <1>6, <3>1, HeldKept, SumTypes
        <3> QED BY <3>1, <3>2 DEF MovesHeld
    <2> QED BY <2>1, <2>2
<1>9. MovesBudget(OpOfCall(c), 0, x, delta)
    <2> HIDE DEF x, delta
    <2> QED BY <1>2, <1>4, <1>5, BudgetEffect
<1>10. PoolStands
    BY <1>4 DEF PoolStands
<1> HIDE DEF x, delta
<1> QED BY <1>2, <1>5, <1>7, <1>8, <1>9, <1>10 DEF MovesMoney

\* The close of an attempt gives up what its prepared calls hold.
LEMMA CloseMoves ==
    ASSUME TypeOK, NEW a \in Attempts, CloseAttempt(a)
    PROVE  (\E o \in Ops, x \in Nat : MovesMoney(o, 0, x, 0)) /\ PoolStands
<1> DEFINE P == PreparedDispatches(a)
<1>1. P = {c \in Calls : AttemptOf[c] = a /\ disp[c].state = "prepared"} /\ OpOf[a] \in Ops
    BY DispatchAssumption DEF PreparedDispatches
<1>2. /\ disp' = [c \in Calls |-> IF c \in P THEN [disp[c] EXCEPT !.state = "denied"] ELSE disp[c]]
      /\ ReleaseBudget(OpOf[a], ExposureSum(P)) /\ UNCHANGED pool
    BY DEF CloseAttempt
<1> HIDE DEF P
<1>3. P \in SUBSET CallsOf(OpOf[a]) /\ P \in SUBSET Calls
    BY <1>1 DEF CallsOf, OpOfCall
<1>4. \A c \in Calls : disp[c] \in DispatchRow
    BY DEF TypeOK
<1>5. \A c \in Calls : /\ disp'[c].charged = disp[c].charged /\ disp[c].charged \in Nat
                       /\ disp'[c].state = IF c \in P THEN "denied" ELSE disp[c].state
    BY <1>2, <1>4 DEF DispatchRow
<1>6. MovesHeld(OpOf[a], 0, ExposureSum(P))
    BY <1>1, <1>3, <1>5, HeldGiven DEF Holding
<1>7. MovesCharged(OpOf[a], 0)
    <2>1. \A C \in SUBSET Calls : Charged(C)' = Charged(C) /\ Charged(C) \in Nat
        BY <1>5, ChargedKept, SumTypes
    <2> QED BY <2>1 DEF MovesCharged
<1>8. ExposureSum(P) \in Nat
    BY <1>3, ExposureSums
<1>9. MovesBudget(OpOf[a], 0, ExposureSum(P), 0)
    BY <1>1, <1>2, <1>8, BudgetEffect
<1> QED BY <1>1, <1>2, <1>6, <1>7, <1>8, <1>9 DEF MovesMoney, PoolStands

\* Every step moves the money of one operation together with its calls,
\* leaves the money where it is, or is one of the three that give it out.
LEMMA MoneyStep ==
    ASSUME TypeOK, [Next]_vars
    PROVE  \/ (\E o \in Ops, t \in Nat, x \in Nat, d \in Nat : MovesMoney(o, t, x, d)) /\ PoolStands
           \/ MoneyStands /\ PoolStands
           \/ \E o \in Ops : Allocate(o) \/ SettleFinance(o)
           \/ \E k \in Caps : SetCostCap(k)
<1> DEFINE Moves == \E o \in Ops, t \in Nat, x \in Nat, d \in Nat : MovesMoney(o, t, x, d)
           Stands == MoneyStands /\ PoolStands
<1>1. ASSUME UNCHANGED <<disp, moneyVars, pool>> PROVE Stands
    BY <1>1, RowsStand
<1>2. \A c \in Calls : OpOfCall(c) \in Ops /\ Exposure[c] \in Nat /\ disp[c] \in DispatchRow
    BY Bindings, DispatchAssumption DEF OpOfCall, TypeOK
<1>3. ASSUME NEW c \in Calls, disp' = [disp EXCEPT ![c].state = "denied"], disp[c].state = "none",
             UNCHANGED <<moneyVars, pool>>
      PROVE  Stands
    <2>1. disp[c].state \in Holding <=> "denied" \in Holding
        BY <1>3 DEF Holding
    <2> QED BY <1>3, <2>1, RowMoves
<1>4. ASSUME NEW c \in Calls, disp' = [disp EXCEPT ![c].state = "prepared"], disp[c].state = "none",
             ReserveBudget(OpOfCall(c), Exposure[c])
      PROVE  Moves
    <2>1. MovesHeld(OpOfCall(c), Exposure[c], 0) /\ MovesCharged(OpOfCall(c), 0)
        BY <1>4, RowMoves DEF Holding
    <2>2. MovesBudget(OpOfCall(c), Exposure[c], 0, 0)
        BY <1>2, <1>4, BudgetEffect
    <2> QED BY <1>2, <2>1, <2>2 DEF MovesMoney
<1>5. ASSUME NEW c \in Calls, NEW s \in {"denied", "confirmed_not_sent"}, disp' = [disp EXCEPT ![c].state = s],
             disp[c].state \in Holding, ReleaseBudget(OpOfCall(c), Exposure[c])
      PROVE  Moves
    <2>1. MovesHeld(OpOfCall(c), 0, Exposure[c]) /\ MovesCharged(OpOfCall(c), 0)
        BY <1>5, RowMoves DEF Holding
    <2>2. MovesBudget(OpOfCall(c), 0, Exposure[c], 0)
        BY <1>2, <1>5, BudgetEffect
    <2> QED BY <1>2, <2>1, <2>2 DEF MovesMoney
<1> HIDE DEF Moves, Stands
<1>6. ASSUME NEW r \in Requests, Admit(r) \/ Send(r) PROVE (Moves /\ PoolStands) \/ Stands
    <2>1. CallOf[r] \in Calls /\ disp \in [Calls -> DispatchRow]
        BY Bindings DEF TypeOK
    <2>2. CASE Prepare(r)
        <3>1. PoolStands /\ UNCHANGED pool
            BY <2>2 DEF Prepare, PoolStands
        <3>2. CASE UNCHANGED <<disp, moneyVars>>
            BY <1>1, <3>1, <3>2
        <3>3. CASE /\ disp[CallOf[r]].state = "none"
                   /\ disp' = [disp EXCEPT ![CallOf[r]].state = "denied"]
                   /\ UNCHANGED moneyVars
            BY <1>3, <2>1, <3>1, <3>3
        <3>4. CASE /\ disp[CallOf[r]].state = "none"
                   /\ disp' = [disp EXCEPT ![CallOf[r]].state = "prepared"]
                   /\ ReserveBudget(OpOfCall(CallOf[r]), Exposure[CallOf[r]])
            BY <1>4, <2>1, <3>1, <3>4
        <3> QED BY <2>2, <3>2, <3>3, <3>4 DEF Prepare
    <2>3. CASE MarkInventoryUncertain(r)
        <3>1. UNCHANGED <<moneyVars, pool>>
            BY <2>3 DEF MarkInventoryUncertain
        <3>2. CASE disp' = [disp EXCEPT ![CallOf[r]].inventory = "uncertain"]
            <4>1. \A c \in Calls : disp'[c].state = disp[c].state /\ disp'[c].charged = disp[c].charged
                BY <2>1, <3>2 DEF DispatchRow
            <4> QED BY <3>1, <4>1, RowsStand DEF Stands
        <3> QED BY <1>1, <2>3, <3>1, <3>2 DEF MarkInventoryUncertain
    <2>4. CASE Consume(r)
        <3>1. PoolStands /\ UNCHANGED pool
            BY <2>4 DEF Consume, PoolStands
        <3>2. CASE UNCHANGED <<disp, moneyVars>>
            BY <1>1, <3>1, <3>2
        <3>3. CASE /\ disp[CallOf[r]].state = "prepared"
                   /\ disp' = [disp EXCEPT ![CallOf[r]].state = "denied"]
                   /\ ReleaseBudget(OpOfCall(CallOf[r]), Exposure[CallOf[r]])
            BY <1>5, <2>1, <3>1, <3>3 DEF Holding
        <3>4. CASE /\ disp[CallOf[r]].state = "prepared"
                   /\ disp' = [disp EXCEPT ![CallOf[r]] = [state |-> "authorized", inventory |-> "confirmed",
                                                           charged |-> @.charged, obs |-> @.obs]]
                   /\ UNCHANGED moneyVars
            <4>1. \A c \in Calls : /\ disp'[c].charged = disp[c].charged
                                   /\ disp'[c].state = IF c = CallOf[r] THEN "authorized" ELSE disp[c].state
                BY <2>1, <3>4
            <4>2. \A c \in Calls : disp'[c].state \in Holding <=> disp[c].state \in Holding
                BY <3>4, <4>1 DEF Holding
            <4> QED BY <3>1, <3>4, <4>1, <4>2, RowsStand DEF Stands
        <3> QED BY <2>4, <3>2, <3>3, <3>4 DEF Consume
    <2>5. CASE Put(r) \/ Answer(r) \/ Abandon(r) \/ Send(r)
        BY <1>1, <2>5 DEF Put, Answer, Abandon, Send
    <2> QED BY <1>6, <2>2, <2>3, <2>4, <2>5 DEF Admit
<1>7. ASSUME Metered PROVE Moves /\ PoolStands
    BY <1>7, ReportMoves DEF Moves
<1>8. ASSUME NEW c \in Calls, Report(c) \/ ReconcileUnresolved(c) PROVE Metered
    <2>1. 1 \in 1..MaxSeq
        BY DispatchAssumption
    <2>2. \E src \in Sources \cup {Query}, seq \in 1..MaxSeq, outcome \in {"definite", "unknown"},
             usage \in {NoUsage} \cup Usages : Observe(c, src, seq, outcome, usage)
        BY <1>8, <2>1 DEF Report, ReconcileUnresolved
    <2> QED BY <2>2 DEF Metered
<1>9. ASSUME NEW c \in Calls, ConfirmNotSent(c) PROVE Moves /\ PoolStands
    BY <1>5, <1>9 DEF ConfirmNotSent, PoolStands
<1>10. ASSUME NEW a \in Attempts, CloseAttempt(a) PROVE Moves /\ PoolStands
    BY <1>10, CloseMoves DEF Moves
<1>11. ASSUME NEW c \in Calls, Attest(c) \/ Lapse(c) PROVE Stands
    BY <1>1, <1>11 DEF Attest, Lapse
<1>12. ASSUME NEW g \in Grants, Register(g) \/ BeginRevocation(g) \/ Revocation(g) PROVE Stands
    BY <1>1, <1>12 DEF Register, BeginRevocation, Revocation
<1>13. ASSUME NEW o \in Ops, Fence(o) \/ Unfence(o) \/ EndOperation(o) PROVE Stands
    BY <1>1, <1>13 DEF Fence, Unfence, EndOperation
<1>14. ASSUME NEW a \in Attempts, AcceptResult(a) PROVE Stands
    BY <1>1, <1>14 DEF AcceptResult
<1>15. ASSUME NEW p \in 1..Periods, AdjustPool(p) PROVE Stands
    <2>1. PICK n \in Limits : pool' = [pool EXCEPT ![p].cap = n]
        BY <1>15 DEF AdjustPool
    <2>2. PoolStands
        BY <2>1 DEF PoolStands, TypeOK
    <2>3. UNCHANGED <<disp, moneyVars>>
        BY <1>15 DEF AdjustPool
    <2>4. MoneyStands
        BY <2>3, HeldKept, ChargedKept DEF MoneyStands
    <2> QED BY <2>2, <2>4 DEF Stands
<1>16. CASE UNCHANGED vars \/ NextPeriod \/ BeginRecovery \/ ReopenAdmission
    BY <1>1, <1>16 DEF vars, NextPeriod, BeginRecovery, ReopenAdmission, Stands
<1>17. CASE Next
    <2>1. CASE \E r \in Requests : Admit(r) \/ Send(r)
        BY <1>6, <2>1 DEF Moves, Stands
    <2>2. CASE \E c \in Calls : Attest(c) \/ Report(c) \/ ReconcileUnresolved(c) \/ ConfirmNotSent(c) \/ Lapse(c)
        BY <1>7, <1>8, <1>9, <1>11, <2>2 DEF Moves, Stands
    <2>3. CASE (\E g \in Grants : Register(g) \/ BeginRevocation(g) \/ Revocation(g)) \/ (\E p \in 1..Periods : AdjustPool(p))
        BY <1>12, <1>15, <2>3 DEF Stands
    <2>4. CASE \E o \in Ops : Allocate(o) \/ SettleFinance(o) \/ Fence(o) \/ Unfence(o) \/ EndOperation(o)
        BY <1>13, <2>4 DEF Stands
    <2>5. CASE \E a \in Attempts : AcceptResult(a) \/ CloseAttempt(a)
        BY <1>10, <1>14, <2>5 DEF Moves, Stands
    <2>6. CASE (\E k \in Caps : SetCostCap(k)) \/ NextPeriod \/ BeginRecovery \/ ReopenAdmission
        BY <1>16, <2>6 DEF Stands
    <2> QED BY <1>17, <2>1, <2>2, <2>3, <2>4, <2>5, <2>6 DEF Next
<1> QED BY <1>16, <1>17 DEF Stands

-----------------------------------------------------------------------------
(* Allocations.                                                            *)

\* A call without a consumed permission was charged nothing.
UnissuedIsFree == \A c \in Calls : disp[c].state \in {"none", "prepared", "denied"} => disp[c].charged = 0

LEMMA UnissuedStep ==
    ASSUME TypeOK, UnissuedIsFree, [Next]_vars
    PROVE  UnissuedIsFree'
<1> SUFFICES ASSUME NEW c \in Calls, disp'[c].state \in {"none", "prepared", "denied"}
             PROVE  disp'[c].charged = 0
    BY DEF UnissuedIsFree
<1>1. disp[c].state \in {"none", "prepared", "denied"}
    <2>1. CASE Next
        BY <2>1, StateStep DEF StateMoves
    <2>2. CASE UNCHANGED vars
        BY <2>2 DEF vars
    <2> QED BY <2>1, <2>2
<1>2. CASE Unmetered
    BY <1>1, <1>2 DEF Unmetered, UnissuedIsFree
<1>3. CASE Metered
    <2>1. PICK d \in Calls : /\ disp[d].state \in {"authorized", "unknown", "observed"}
                             /\ \E row : disp' = [disp EXCEPT ![d] = row]
        <3>1. PICK d \in Calls, src \in Sources \cup {Query}, seq \in 1..MaxSeq, outcome \in {"definite", "unknown"},
                   usage \in {NoUsage} \cup Usages : Observe(d, src, seq, outcome, usage)
            BY <1>3 DEF Metered
        <3>2. disp[d].state \in {"authorized", "unknown", "observed"}
            BY <3>1 DEF Observe
        <3>3. \E row : disp' = [disp EXCEPT ![d] = row]
            BY <3>1, Zenon DEF Observe
        <3> QED BY <3>2, <3>3
    <2>2. disp'[c] = disp[c]
        BY <1>1, <2>1 DEF TypeOK
    <2> QED BY <1>1, <2>2 DEF UnissuedIsFree
<1> QED BY <1>2, <1>3, ReportsMeter

\* Calls that hold nothing and were charged nothing.
LEMMA NothingCommitted ==
    ASSUME TypeOK, NEW C \in SUBSET Calls,
           \A c \in C : disp[c].charged = 0 /\ (disp[c].state \in Holding => Exposure[c] = 0)
    PROVE  HeldExposure(C) = 0 /\ Charged(C) = 0
<1>1. HeldIn(C) \in SUBSET Calls /\ \A c \in HeldIn(C) : Exposure[c] = 0
    BY DEF HeldIn
<1>2. IsFiniteSet(C) /\ IsFiniteSet(HeldIn(C))
    BY <1>1, ExposureSums
<1>3. HeldExposure(C) = 0
    BY <1>1, <1>2, SumOfNothing DEF HeldExposure, ExposureSum, HeldIn
<1>4. \A c \in C : [d \in Calls |-> disp[d].charged][c] = 0
    OBVIOUS
<1>5. Charged(C) = 0
    BY <1>2, <1>4, SumOfNothing DEF Charged
<1> QED BY <1>3, <1>5

\* What the settlement of an operation does to its allocations.
LEMMA SettlementReturns ==
    ASSUME TypeOK, NEW o \in Ops, SettleFinance(o), NEW q \in Ops, NEW p \in 1..Periods
    PROVE  /\ alloc'[q][p].amount = alloc[q][p].amount
           /\ alloc'[q][p].reserved = alloc[q][p].reserved
           /\ alloc'[q][p].consumed = alloc[q][p].consumed
           /\ IF q = o /\ p \in Allocations(o) /\ alloc[q][p].returned = NotReturned
              THEN /\ alloc'[q][p].returned = ReturnUnspent(alloc[q][p])
                   /\ pool'[p].allocated = pool[p].allocated - ReturnUnspent(alloc[q][p])
              ELSE /\ alloc'[q][p] = alloc[q][p]
                   /\ q = o => pool'[p].allocated = pool[p].allocated
<1> DEFINE due == {r \in Allocations(o) : alloc[o][r].returned = NotReturned}
<1>1. /\ alloc \in [Ops -> [1..Periods -> Allocation]] /\ alloc[q][p] \in Allocation
      /\ pool[p] \in [cap : Nat, allocated : Nat]
    BY DEF TypeOK
<1>2. /\ pool' = [r \in 1..Periods |-> IF r \in due
                    THEN [pool[r] EXCEPT !.allocated = @ - ReturnUnspent(alloc[o][r])] ELSE pool[r]]
      /\ alloc' = [alloc EXCEPT ![o] = [r \in 1..Periods |-> IF r \in due
                    THEN [@[r] EXCEPT !.returned = ReturnUnspent(alloc[o][r])] ELSE @[r]]]
    BY DEF SettleFinance
<1>3. p \in due <=> p \in Allocations(o) /\ alloc[o][p].returned = NotReturned
    OBVIOUS
<1> HIDE DEF due
<1>4. CASE q = o /\ p \in due
    <2>1. alloc'[q][p] = [alloc[q][p] EXCEPT !.returned = ReturnUnspent(alloc[q][p])]
        BY <1>1, <1>2, <1>4
    <2>2. pool'[p].allocated = pool[p].allocated - ReturnUnspent(alloc[q][p])
        BY <1>1, <1>2, <1>4
    <2> QED BY <1>1, <1>3, <1>4, <2>1, <2>2 DEF Allocation
<1>5. CASE ~(q = o /\ p \in due)
    <2>1. alloc'[q][p] = alloc[q][p]
        BY <1>1, <1>2, <1>5
    <2>2. q = o => pool'[p].allocated = pool[p].allocated
        BY <1>1, <1>2, <1>5
    <2> QED BY <1>3, <1>5, <2>1, <2>2
<1> QED BY <1>4, <1>5

\* One allocation and the calls of its operation.
LEMMA ExactStep ==
    ASSUME TypeOK, AdmittedIsFunded, UnissuedIsFree, AllocationExact, FundedOnce', [Next]_vars
    PROVE  AllocationExact'
<1> SUFFICES ASSUME NEW q \in Ops, NEW p \in 1..Periods, alloc'[q][p].amount > 0
             PROVE  /\ alloc'[q][p].reserved = HeldExposure(CallsOf(q))'
                    /\ alloc'[q][p].consumed = Charged(CallsOf(q))'
    BY DEF AllocationExact, Allocations
<1> DEFINE C == CallsOf(q)
<1>1. C \in SUBSET Calls /\ HeldExposure(C) \in Nat /\ Charged(C) \in Nat /\ alloc[q][p] \in Allocation
    <2>1. C \in SUBSET Calls /\ alloc[q][p] \in Allocation
        BY DEF CallsOf, TypeOK
    <2> QED BY <2>1, SumTypes
<1>2. alloc[q][p].amount > 0 => alloc[q][p].reserved = HeldExposure(C) /\ alloc[q][p].consumed = Charged(C)
    BY DEF AllocationExact, Allocations
<1>3. ASSUME NEW o \in Ops, NEW t \in Nat, NEW x \in Nat, NEW d \in Nat, MovesMoney(o, t, x, d)
      PROVE  /\ alloc'[q][p].reserved = HeldExposure(C)'
             /\ alloc'[q][p].consumed = Charged(C)'
    <2>1. CASE q = o /\ p \in Allocations(o)
        <3>1. AllocationMoved(alloc[q][p], alloc'[q][p], t, x, d)
            BY <1>3, <2>1 DEF MovesMoney, MovesBudget
        <3>2. HeldExposure(C)' = HeldExposure(C) + t - x /\ Charged(C)' = Charged(C) + d
            BY <1>1, <1>3, <2>1 DEF MovesMoney, MovesHeld, MovesCharged
        <3>3. alloc[q][p].reserved = HeldExposure(C) /\ alloc[q][p].consumed = Charged(C)
            BY <1>2, <2>1 DEF Allocations
        <3> QED BY <1>1, <3>1, <3>2, <3>3 DEF AllocationMoved
    <2>2. CASE q # o
        <3>1. alloc'[q][p] = alloc[q][p]
            BY <1>3, <2>2 DEF MovesMoney, MovesBudget
        <3>2. CallsOf(o) \cap C = {}
            BY <2>2 DEF CallsOf
        <3>3. HeldExposure(C)' = HeldExposure(C) /\ Charged(C)' = Charged(C)
            BY <1>1, <1>3, <3>2 DEF MovesMoney, MovesHeld, MovesCharged
        <3> QED BY <1>2, <3>1, <3>3
    <2>3. CASE q = o /\ p \notin Allocations(o)
        <3>1. alloc'[q][p] = alloc[q][p]
            BY <1>3, <2>3 DEF MovesMoney, MovesBudget
        <3> QED BY <2>3, <3>1 DEF Allocations
    <2> QED BY <2>1, <2>2, <2>3
<1>4. ASSUME alloc'[q][p].amount = alloc[q][p].amount, alloc'[q][p].reserved = alloc[q][p].reserved,
             alloc'[q][p].consumed = alloc[q][p].consumed,
             HeldExposure(C)' = HeldExposure(C), Charged(C)' = Charged(C)
      PROVE  alloc'[q][p].reserved = HeldExposure(C)' /\ alloc'[q][p].consumed = Charged(C)'
    BY <1>2, <1>4
<1>5. UNCHANGED disp => HeldExposure(C)' = HeldExposure(C) /\ Charged(C)' = Charged(C)
    BY <1>1, HeldKept, ChargedKept
<1>6. CASE MoneyStands
    BY <1>1, <1>4, <1>6 DEF MoneyStands, moneyVars
<1>7. ASSUME NEW o \in Ops, Allocate(o)
      PROVE  alloc'[q][p].reserved = HeldExposure(C)' /\ alloc'[q][p].consumed = Charged(C)'
    <2>1. /\ Allocations(o) = {} /\ UNCHANGED disp
          /\ alloc'[q][p] = IF q = o /\ p = period THEN NewAllocation(Amount) ELSE alloc[q][p]
        BY <1>7, FirstFunding DEF Allocate
    <2>2. CASE q = o /\ p = period
        <3>1. ASSUME NEW c \in C PROVE disp[c].charged = 0 /\ disp[c].state \notin Holding
            <4>1. c \in Calls /\ OpOfCall(c) = o
                BY <2>2 DEF CallsOf
            <4>2. disp[c].state \in {"none", "denied"}
                BY <2>1, <4>1 DEF AdmittedIsFunded
            <4> QED BY <4>1, <4>2 DEF UnissuedIsFree, Holding
        <3>2. HeldExposure(C) = 0 /\ Charged(C) = 0
            BY <1>1, <3>1, NothingCommitted
        <3> QED BY <1>5, <2>1, <2>2, <3>2 DEF NewAllocation, NoAllocation
    <2>3. CASE ~(q = o /\ p = period)
        BY <1>4, <1>5, <2>1, <2>3
    <2> QED BY <2>2, <2>3
<1>8. ASSUME NEW o \in Ops, SettleFinance(o)
      PROVE  alloc'[q][p].reserved = HeldExposure(C)' /\ alloc'[q][p].consumed = Charged(C)'
    <2>1. UNCHANGED disp
        BY <1>8 DEF SettleFinance
    <2> QED BY <1>4, <1>5, <1>8, <2>1, SettlementReturns
<1>9. ASSUME NEW k \in Caps, SetCostCap(k)
      PROVE  alloc'[q][p].reserved = HeldExposure(C)' /\ alloc'[q][p].consumed = Charged(C)'
    BY <1>4, <1>5, <1>9 DEF SetCostCap
<1> QED BY <1>3, <1>6, <1>7, <1>8, <1>9, MoneyStep

\* Every allocation reserves exactly what the calls of its operation hold
\* and has consumed exactly what they were charged, while no operation is
\* funded in two periods (DispatchRollover shows the case that is left out):
\* no interleaving of requests, reports, confirmations and closes releases
\* an exposure twice, leaks it or charges a report twice (budget.reserve,
\* release and charge).
THEOREM AllocationsAreExact == Spec /\ []FundedOnce => []AllocationExact
<1>1. Init => AdmittedIsFunded /\ UnissuedIsFree /\ AllocationExact
    BY DEF Init, AdmittedIsFunded, UnissuedIsFree, AllocationExact, Allocations, NoAllocation
<1>2. TypeOK /\ AdmittedIsFunded /\ UnissuedIsFree /\ AllocationExact /\ FundedOnce' /\ [Next]_vars
        => (AdmittedIsFunded /\ UnissuedIsFree /\ AllocationExact)'
    BY FundedStep, UnissuedStep, ExactStep
<1> QED BY <1>1, <1>2, TypeCorrect, PTL DEF Spec

\* Then every exposure a call holds can be released from the allocation: a
\* definite report, a confirmation and a close never fail for want of a
\* reservation (domain.Allocation.Release).
THEOREM HeldCanBeReleased == Spec /\ []FundedOnce => []HeldIsReleasable
<1>1. ASSUME TypeOK, AllocationExact PROVE HeldIsReleasable
    <2> SUFFICES ASSUME NEW c \in Calls, disp[c].state \in Holding, NEW p \in Allocations(OpOfCall(c))
                 PROVE  CanRelease(alloc[OpOfCall(c)][p], Exposure[c])
        BY DEF HeldIsReleasable
    <2> DEFINE H == HeldIn(CallsOf(OpOfCall(c)))
    <2>1. H \in SUBSET Calls /\ c \in H /\ H \ {c} \in SUBSET Calls /\ OpOfCall(c) \in Ops /\ Exposure[c] \in Nat
        BY Bindings DEF HeldIn, CallsOf
    <2>2. alloc[OpOfCall(c)][p].reserved = ExposureSum(H)
        BY <1>1, <2>1 DEF AllocationExact, HeldExposure, HeldIn
    <2> HIDE DEF H
    <2>3. ExposureSum(H) = Exposure[c] + ExposureSum(H \ {c}) /\ ExposureSum(H \ {c}) \in Nat
        BY <2>1, ExposureSums
    <2> QED BY <2>1, <2>2, <2>3 DEF CanRelease
<1> QED BY <1>1, AllocationsAreExact, TypeCorrect, PTL

-----------------------------------------------------------------------------
(* Pools.                                                                  *)

\* The return ledger: an allocation gives back once and at most its amount,
\* and every allocation has the amount that was asked for.
LedgerHolds ==
    \A o \in Ops : \A p \in 1..Periods :
        /\ alloc[o][p].amount \in {0, Amount}
        /\ alloc[o][p].returned # NotReturned => alloc[o][p].amount > 0 /\ alloc[o][p].returned <= alloc[o][p].amount

\* The rows of a typed state.
LEMMA AllocationRows ==
    /\ TypeOK => \A o \in Ops : \A p \in 1..Periods : alloc[o][p] \in Allocation
    /\ TypeOK' => \A o \in Ops : \A p \in 1..Periods : alloc'[o][p] \in Allocation
<1>1. TypeOK => alloc \in [Ops -> [1..Periods -> Allocation]]
    BY DEF TypeOK
<1>2. TypeOK' => alloc' \in [Ops -> [1..Periods -> Allocation]]
    BY DEF TypeOK
<1> QED BY <1>1, <1>2

\* What is left of an allocation in its pool.
LEMMA DrawnType ==
    ASSUME NEW a \in Allocation, a.returned # NotReturned => a.returned <= a.amount
    PROVE  Drawn(a) \in Nat
BY DEF Allocation, Drawn, NotReturned

\* Returning the unspent part leaves the consumed part drawn.
LEMMA ReturnDraws ==
    ASSUME NEW a \in Allocation, NEW b \in Allocation, a.returned = NotReturned, b.amount = a.amount,
           b.returned = ReturnUnspent(a)
    PROVE  Drawn(b) = Drawn(a) - ReturnUnspent(a) /\ ReturnUnspent(a) \in Nat /\ ReturnUnspent(a) <= a.amount
<1>1. PICK n \in Nat, m \in Nat : n = a.amount /\ m = a.consumed
    BY DEF Allocation
<1>2. ReturnUnspent(a) = IF m <= n THEN n - m ELSE 0
    BY <1>1 DEF ReturnUnspent
<1>3. ReturnUnspent(a) \in Nat /\ ReturnUnspent(a) <= n
    BY <1>1, <1>2
<1>4. b.returned # NotReturned /\ Drawn(b) = n - ReturnUnspent(a) /\ Drawn(a) = n
    BY <1>1, <1>3 DEF Drawn, NotReturned
<1> QED BY <1>1, <1>3, <1>4

\* What a funding does.
LEMMA FundingDraws ==
    ASSUME TypeOK, NEW o \in Ops, Allocate(o)
    PROVE  /\ alloc[o][period].amount = 0 /\ period \in 1..Periods
           /\ \A q \in Ops : \A p \in 1..Periods :
                alloc'[q][p] = IF q = o /\ p = period THEN NewAllocation(Amount) ELSE alloc[q][p]
           /\ \A p \in 1..Periods :
                pool'[p].allocated = IF p = period THEN pool[p].allocated + Amount ELSE pool[p].allocated
           /\ NewAllocation(Amount).amount = Amount /\ NewAllocation(Amount).returned = NotReturned
           /\ Amount \in Nat \ {0}
<1>1. alloc \in [Ops -> [1..Periods -> Allocation]] /\ period \in 1..Periods
      /\ pool \in [1..Periods -> [cap : Nat, allocated : Nat]]
    BY DEF TypeOK
<1>2. /\ alloc' = [alloc EXCEPT ![o][period] = NewAllocation(Amount)] /\ alloc[o][period].amount = 0
      /\ pool' = [pool EXCEPT ![period].allocated = @ + Amount]
    BY DEF Allocate
<1>3. \A q \in Ops : \A p \in 1..Periods :
        alloc'[q][p] = IF q = o /\ p = period THEN NewAllocation(Amount) ELSE alloc[q][p]
    BY <1>1, <1>2
<1>4. \A p \in 1..Periods :
        pool'[p].allocated = IF p = period THEN pool[p].allocated + Amount ELSE pool[p].allocated
    BY <1>1, <1>2
<1> QED BY <1>1, <1>2, <1>3, <1>4, DispatchAssumption DEF NewAllocation, NoAllocation

\* A step that moves money leaves the amount of an allocation and its
\* return alone.
LEMMA DrawnKept ==
    ASSUME \/ \E o \in Ops, t \in Nat, x \in Nat, d \in Nat : MovesMoney(o, t, x, d)
           \/ MoneyStands
           \/ \E k \in Caps : SetCostCap(k)
    PROVE  \A q \in Ops : \A p \in 1..Periods : /\ alloc'[q][p].amount = alloc[q][p].amount
                                                /\ alloc'[q][p].returned = alloc[q][p].returned
<1>1. ASSUME NEW o \in Ops, NEW t \in Nat, NEW x \in Nat, NEW d \in Nat, MovesMoney(o, t, x, d),
             NEW q \in Ops, NEW p \in 1..Periods
      PROVE  alloc'[q][p].amount = alloc[q][p].amount /\ alloc'[q][p].returned = alloc[q][p].returned
    BY <1>1 DEF MovesMoney, MovesBudget, AllocationMoved
<1> QED BY <1>1 DEF MoneyStands, moneyVars, SetCostCap

\* The ledger after a step.
LEMMA LedgerStep ==
    ASSUME TypeOK, LedgerHolds, [Next]_vars
    PROVE  LedgerHolds'
<1>1. CASE \A q \in Ops : \A p \in 1..Periods : /\ alloc'[q][p].amount = alloc[q][p].amount
                                                /\ alloc'[q][p].returned = alloc[q][p].returned
    BY <1>1 DEF LedgerHolds
<1>2. ASSUME NEW o \in Ops, Allocate(o) PROVE LedgerHolds'
    <2>1. \A q \in Ops : \A p \in 1..Periods :
            alloc'[q][p] = IF q = o /\ p = period THEN NewAllocation(Amount) ELSE alloc[q][p]
        BY <1>2, FundingDraws
    <2>2. NewAllocation(Amount).amount = Amount /\ NewAllocation(Amount).returned = NotReturned
        BY <1>2, FundingDraws
    <2> QED BY <2>1, <2>2 DEF LedgerHolds
<1>3. ASSUME NEW o \in Ops, SettleFinance(o) PROVE LedgerHolds'
    <2> SUFFICES ASSUME NEW q \in Ops, NEW p \in 1..Periods
                 PROVE  /\ alloc'[q][p].amount \in {0, Amount}
                        /\ alloc'[q][p].returned # NotReturned
                            => alloc'[q][p].amount > 0 /\ alloc'[q][p].returned <= alloc'[q][p].amount
        BY DEF LedgerHolds
    <2>1. alloc[q][p] \in Allocation /\ alloc'[q][p] \in Allocation
        BY TypeStep, AllocationRows
    <2>2. CASE q = o /\ p \in Allocations(o) /\ alloc[q][p].returned = NotReturned
        <3>1. alloc'[q][p].returned = ReturnUnspent(alloc[q][p]) /\ alloc'[q][p].amount = alloc[q][p].amount
            BY <1>3, <2>2, SettlementReturns
        <3>2. ReturnUnspent(alloc[q][p]) <= alloc[q][p].amount
            BY <2>1, <2>2, <3>1, ReturnDraws
        <3> QED BY <2>2, <3>1, <3>2 DEF LedgerHolds, Allocations
    <2>3. CASE ~(q = o /\ p \in Allocations(o) /\ alloc[q][p].returned = NotReturned)
        <3>1. alloc'[q][p] = alloc[q][p]
            BY <1>3, <2>3, SettlementReturns
        <3> QED BY <3>1 DEF LedgerHolds
    <2> QED BY <2>2, <2>3
<1> QED BY <1>1, <1>2, <1>3, MoneyStep, DrawnKept

\* What the operations draw from the pool of period p.
DrawnFrom(p) == [o \in Ops |-> Drawn(alloc[o][p])]

\* A step that changes what one operation draws from the pool.
LEMMA PoolMoves ==
    ASSUME TypeOK, LedgerHolds, LedgerHolds', TypeOK', NEW p \in 1..Periods, NEW o \in Ops,
           \A q \in Ops : q # o => Drawn(alloc'[q][p]) = Drawn(alloc[q][p]),
           pool[p].allocated = SumFunction(DrawnFrom(p)),
           pool'[p].allocated = pool[p].allocated - Drawn(alloc[o][p]) + Drawn(alloc'[o][p])
    PROVE  pool'[p].allocated = SumFunction([q \in Ops |-> Drawn(alloc'[q][p])])
<1> DEFINE e == [q \in Ops |-> Drawn(alloc[q][p])]
           f == [q \in Ops |-> Drawn(alloc'[q][p])]
<1>1. \A q \in Ops : Drawn(alloc[q][p]) \in Nat /\ Drawn(alloc'[q][p]) \in Nat
    <2>1. ASSUME NEW q \in Ops PROVE Drawn(alloc[q][p]) \in Nat
        <3>1. alloc[q][p] \in Allocation
            BY AllocationRows
        <3> QED BY <3>1, DrawnType DEF LedgerHolds
    <2>2. ASSUME NEW q \in Ops PROVE Drawn(alloc'[q][p]) \in Nat
        <3>1. alloc'[q][p] \in Allocation
            BY AllocationRows
        <3>2. alloc'[q][p].returned # NotReturned => alloc'[q][p].returned <= alloc'[q][p].amount
            BY DEF LedgerHolds
        <3> QED BY <3>1, <3>2, DrawnType
    <2> QED BY <2>1, <2>2
<1>2. /\ \A q \in Ops : e[q] \in Nat /\ f[q] \in Nat
      /\ \A q \in Ops \ {o} : f[q] = e[q]
      /\ e[o] = Drawn(alloc[o][p]) /\ f[o] = Drawn(alloc'[o][p])
    BY <1>1
<1>3. IsFiniteSet(Ops) /\ DOMAIN e = Ops /\ DOMAIN f = Ops
    BY DispatchAssumption
<1>4. pool[p].allocated = SumFunctionOnSet(e, Ops)
    BY DEF DrawnFrom, SumFunction
<1>5. SumFunction(f) = SumFunctionOnSet(f, Ops)
    BY <1>3 DEF SumFunction
<1> HIDE DEF e, f
<1>6. SumFunctionOnSet(f, Ops) = SumFunctionOnSet(e, Ops) - e[o] + f[o]
    BY <1>2, <1>3, SumChange
<1>7. pool'[p].allocated = SumFunction(f)
    BY <1>2, <1>4, <1>5, <1>6
<1> QED BY <1>7 DEF f

\* The pools after a step.
LEMMA PoolStep ==
    ASSUME TypeOK, LedgerHolds, PoolExact, [Next]_vars
    PROVE  PoolExact'
<1>1. TypeOK' /\ LedgerHolds'
    BY TypeStep, LedgerStep
<1> SUFFICES ASSUME NEW p \in 1..Periods
             PROVE  pool'[p].allocated = SumFunction([q \in Ops |-> Drawn(alloc'[q][p])])
    BY DEF PoolExact
<1>2. pool[p].allocated = SumFunction(DrawnFrom(p)) /\ pool[p].allocated \in Nat
    BY DEF PoolExact, DrawnFrom, TypeOK
<1>3. ASSUME PoolStands, \A q \in Ops : \A r \in 1..Periods : /\ alloc'[q][r].amount = alloc[q][r].amount
                                                             /\ alloc'[q][r].returned = alloc[q][r].returned
      PROVE  pool'[p].allocated = SumFunction([q \in Ops |-> Drawn(alloc'[q][p])])
    <2>1. [q \in Ops |-> Drawn(alloc'[q][p])] = DrawnFrom(p)
        BY <1>3 DEF DrawnFrom, Drawn
    <2> QED BY <1>2, <1>3, <2>1 DEF PoolStands
<1>4. ASSUME NEW o \in Ops, Allocate(o)
      PROVE  pool'[p].allocated = SumFunction([q \in Ops |-> Drawn(alloc'[q][p])])
    <2>1. \A q \in Ops : q # o => Drawn(alloc'[q][p]) = Drawn(alloc[q][p])
        BY <1>4, FundingDraws
    <2>2. pool'[p].allocated = pool[p].allocated - Drawn(alloc[o][p]) + Drawn(alloc'[o][p])
        <3>1. alloc[o][p] \in Allocation /\ (p = period => alloc[o][p].amount = 0)
            BY <1>4, FundingDraws, AllocationRows
        <3>2. Drawn(alloc[o][p]) \in Nat
            BY <3>1, DrawnType DEF LedgerHolds
        <3>3. CASE p = period
            <4>1. Drawn(alloc[o][p]) = 0
                BY <3>1, <3>3 DEF LedgerHolds, Drawn
            <4>2. Drawn(alloc'[o][p]) = Amount /\ pool'[p].allocated = pool[p].allocated + Amount /\ Amount \in Nat
                BY <1>4, <3>3, FundingDraws DEF Drawn
            <4> QED BY <1>2, <4>1, <4>2
        <3>4. CASE p # period
            <4>1. alloc'[o][p] = alloc[o][p] /\ pool'[p].allocated = pool[p].allocated
                BY <1>4, <3>4, FundingDraws
            <4> QED BY <1>2, <3>2, <4>1
        <3> QED BY <3>3, <3>4
    <2> QED BY <1>1, <1>2, <2>1, <2>2, PoolMoves
<1>5. ASSUME NEW o \in Ops, SettleFinance(o)
      PROVE  pool'[p].allocated = SumFunction([q \in Ops |-> Drawn(alloc'[q][p])])
    <2>1. \A q \in Ops : q # o => Drawn(alloc'[q][p]) = Drawn(alloc[q][p])
        <3>1. \A q \in Ops : q # o => alloc'[q][p] = alloc[q][p]
            BY <1>5, SettlementReturns
        <3> QED BY <3>1
    <2>2. pool'[p].allocated = pool[p].allocated - Drawn(alloc[o][p]) + Drawn(alloc'[o][p])
        <3>1. alloc[o][p] \in Allocation /\ alloc'[o][p] \in Allocation
            BY <1>1, AllocationRows
        <3>2. Drawn(alloc[o][p]) \in Nat
            BY <3>1, DrawnType DEF LedgerHolds
        <3>3. CASE p \in Allocations(o) /\ alloc[o][p].returned = NotReturned
            <4>1. /\ alloc'[o][p].amount = alloc[o][p].amount /\ alloc'[o][p].returned = ReturnUnspent(alloc[o][p])
                  /\ pool'[p].allocated = pool[p].allocated - ReturnUnspent(alloc[o][p])
                BY <1>5, <3>3, SettlementReturns
            <4>2. Drawn(alloc'[o][p]) = Drawn(alloc[o][p]) - ReturnUnspent(alloc[o][p])
                  /\ ReturnUnspent(alloc[o][p]) \in Nat
                BY <3>1, <3>3, <4>1, ReturnDraws
            <4> QED BY <1>2, <3>2, <4>1, <4>2
        <3>4. CASE ~(p \in Allocations(o) /\ alloc[o][p].returned = NotReturned)
            <4>1. alloc'[o][p] = alloc[o][p] /\ pool'[p].allocated = pool[p].allocated
                BY <1>5, <3>4, SettlementReturns
            <4> QED BY <1>2, <3>2, <4>1
        <3> QED BY <3>3, <3>4
    <2> QED BY <1>1, <1>2, <2>1, <2>2, PoolMoves
<1>6. ASSUME NEW k \in Caps, SetCostCap(k) PROVE PoolStands
    BY <1>6 DEF SetCostCap, PoolStands
<1> QED BY <1>3, <1>4, <1>5, <1>6, MoneyStep, DrawnKept

\* A pool has given out exactly what its allocations took and did not give
\* back, in whatever order operations are funded, over however many periods,
\* reported on, end and settle (Allocate, SettleFinance).
THEOREM PoolsAreExact == Spec => []PoolExact
<1>1. Init => LedgerHolds
    BY DEF Init, LedgerHolds, NoAllocation
<1>2. ASSUME Init PROVE PoolExact
    <2> SUFFICES ASSUME NEW p \in 1..Periods PROVE pool[p].allocated = SumFunction([o \in Ops |-> Drawn(alloc[o][p])])
        BY DEF PoolExact
    <2> DEFINE e == [o \in Ops |-> Drawn(alloc[o][p])]
    <2>1. pool[p].allocated = 0 /\ \A o \in Ops : alloc[o][p] = NoAllocation
        BY <1>2 DEF Init
    <2>2. \A o \in Ops : e[o] = 0
        BY <2>1 DEF Drawn, NoAllocation
    <2>3. IsFiniteSet(Ops) /\ DOMAIN e = Ops
        BY DispatchAssumption
    <2> HIDE DEF e
    <2>4. SumFunction(e) = 0
        BY <2>2, <2>3, SumOfNothing DEF SumFunction
    <2> QED BY <2>1, <2>4 DEF e
<1>3. TypeOK /\ LedgerHolds /\ PoolExact /\ [Next]_vars => (LedgerHolds /\ PoolExact)'
    BY LedgerStep, PoolStep
<1> QED BY <1>1, <1>2, <1>3, TypeCorrect, PTL DEF Spec

-----------------------------------------------------------------------------
(* Cost caps.                                                              *)

\* A call with no price declares no exposure.  Control does not refuse one
\* that does: DispatchLateCap shows what a cap set after it misses.
FreeDeclaresNothing == \A c \in Calls : Free(c) => Exposure[c] = 0

\* Where caps are required, a call admitted under a cap that is not set has
\* no price.
UncappedIsFree ==
    \A k \in Caps : ~cap[k].set =>
        \A c \in CapCalls(k) : disp[c].state \notin {"none", "denied"} => Free(c)

\* The calls of a cap are the calls of its operations.
LEMMA CapCallsAre ==
    ASSUME NEW k \in Caps
    PROVE  /\ CapCalls(k) \in SUBSET Calls
           /\ \A c \in CapCalls(k) : k \in CapsOf(OpOfCall(c))
           /\ \A o \in Ops : k \in CapsOf(o) => CallsOf(o) \subseteq CapCalls(k)
           /\ \A o \in Ops : k \notin CapsOf(o) => CallsOf(o) \cap CapCalls(k) = {}
BY DEF CapCalls, CallsOf, CapsOf

\* A cap that is set stays set.
LEMMA CapsStaySet ==
    ASSUME TypeOK, [Next]_vars, NEW k \in Caps, cap[k].set
    PROVE  cap'[k].set
<1>1. cap \in [Caps -> CostCap] /\ cap[k] \in CostCap
    BY DEF TypeOK
<1>2. ASSUME NEW o \in Ops, NEW t \in Nat, NEW x \in Nat, NEW d \in Nat, MovesMoney(o, t, x, d) PROVE cap'[k].set
    BY <1>2 DEF MovesMoney, MovesBudget, CapMoved
<1>3. ASSUME UNCHANGED cap PROVE cap'[k].set
    BY <1>3
<1>4. ASSUME NEW j \in Caps, SetCostCap(j) PROVE cap'[k].set
    <2>1. CASE j = k
        <3>1. PICK n \in Limits : cap' = [cap EXCEPT ![k] = IF @.set THEN [@ EXCEPT !.limit = n] ELSE NewCap(n)]
            BY <1>4, <2>1 DEF SetCostCap
        <3>2. cap'[k] = [cap[k] EXCEPT !.limit = n]
            BY <1>1, <3>1
        <3> QED BY <1>1, <3>2 DEF CostCap
    <2>2. CASE j # k
        BY <1>1, <1>4, <2>2 DEF SetCostCap
    <2> QED BY <2>1, <2>2
<1>5. ASSUME NEW o \in Ops, Allocate(o) \/ SettleFinance(o) PROVE UNCHANGED cap
    BY <1>5 DEF Allocate, SettleFinance
<1> QED BY <1>2, <1>3, <1>4, <1>5, MoneyStep DEF MoneyStands, moneyVars

\* Admission refuses a call with a price under a cap that is not set.
LEMMA UncappedStep ==
    ASSUME CapsRequired, TypeOK, UncappedIsFree, [Next]_vars
    PROVE  UncappedIsFree'
<1> SUFFICES ASSUME NEW k \in Caps, ~cap'[k].set, NEW c \in CapCalls(k), disp'[c].state \notin {"none", "denied"}
             PROVE  Free(c)
    BY DEF UncappedIsFree, CapCalls, CallsOf, OpOfCall, Free
<1>1. c \in Calls /\ k \in CapsOf(OpOfCall(c)) /\ ~cap[k].set
    BY CapCallsAre, CapsStaySet
<1>2. CASE disp[c].state \notin {"none", "denied"}
    BY <1>1, <1>2 DEF UncappedIsFree
<1>3. CASE disp[c].state \in {"none", "denied"}
    <2>1. CASE Next
        <3>1. \E authority \in BOOLEAN : CheckAdmission(c, authority, TRUE)
            BY <1>1, <1>3, <2>1, StateStep DEF StateMoves, Admits
        <3>2. ~Free(c) => CheckCaps(OpOfCall(c), Exposure[c])
            BY <3>1 DEF CheckAdmission
        <3> QED BY <1>1, <3>2 DEF CheckCaps
    <2>2. CASE UNCHANGED vars
        BY <1>3, <2>2 DEF vars
    <2> QED BY <2>1, <2>2
<1> QED BY <1>2, <1>3

\* A call with no price is charged nothing.
LEMMA FreeCostsNothing ==
    ASSUME TypeOK, ChargedIsEstablished, NEW c \in Calls, Free(c)
    PROVE  disp[c].charged = 0
<1>1. disp[c].obs \in SUBSET Reports
    BY DEF TypeOK, DispatchRow
<1>2. PICK reports \in SUBSET disp[c].obs : disp[c].charged = CostOf(c, reports)
    BY DEF ChargedIsEstablished
<1>3. PICK u \in Usage : u = MaxUsageOf(reports)
    BY <1>1, <1>2, MaxUsageType
<1>4. Price[c].input = 0 /\ Price[c].cached = 0 /\ u.input \in Nat /\ u.cached \in Nat /\ Scale \in Nat \ {0}
    BY DispatchAssumption DEF Free, IsFree, Usage
<1>5. /\ PriceOfUnits(IF Price[c].inclusive THEN u.input - u.cached ELSE u.input, 0, Scale) = 0
      /\ PriceOfUnits(u.cached, 0, Scale) = 0
    <2>1. (IF Price[c].inclusive THEN u.input - u.cached ELSE u.input) \in Int /\ u.cached \in Int
        BY <1>4
    <2> QED BY <1>4, <2>1, NoPriceOfUnits
<1>6. Cost(u, Price[c], Scale) = 0 + 0
    BY <1>4, <1>5 DEF Cost
<1> QED BY <1>2, <1>3, <1>6 DEF CostOf

\* A cap and the calls it counts.
LEMMA CapStep ==
    ASSUME FreeDeclaresNothing, TypeOK, ChargedIsEstablished, UnissuedIsFree, UncappedIsFree, CapExact, [Next]_vars
    PROVE  CapExact'
<1> SUFFICES ASSUME NEW k \in Caps, CapCounted[k], cap'[k].set
             PROVE  cap'[k].reserved = HeldExposure(CapCalls(k))' /\ cap'[k].consumed = Charged(CapCalls(k))'
    BY DEF CapExact
<1> DEFINE C == CapCalls(k)
<1>1. C \in SUBSET Calls /\ HeldExposure(C) \in Nat /\ Charged(C) \in Nat /\ cap \in [Caps -> CostCap]
    BY CapCallsAre, SumTypes DEF TypeOK
<1>2. cap[k].set => cap[k].reserved = HeldExposure(C) /\ cap[k].consumed = Charged(C)
    BY DEF CapExact
<1>3. ASSUME NEW o \in Ops, NEW t \in Nat, NEW x \in Nat, NEW d \in Nat, MovesMoney(o, t, x, d)
      PROVE  cap'[k].reserved = HeldExposure(C)' /\ cap'[k].consumed = Charged(C)'
    <2>1. CASE k \in CountedCaps(o)
        <3>1. CapMoved(cap[k], cap'[k], t, x, d)
            BY <1>3, <2>1 DEF MovesMoney, MovesBudget
        <3>2. CallsOf(o) \subseteq C
            BY <2>1, CapCallsAre DEF CountedCaps
        <3>3. /\ x <= HeldExposure(C) + t /\ HeldExposure(C)' = HeldExposure(C) + t - x
              /\ Charged(C)' = Charged(C) + d
            BY <1>1, <1>3, <3>2 DEF MovesMoney, MovesHeld, MovesCharged
        <3>4. cap[k].reserved = HeldExposure(C) /\ cap[k].consumed = Charged(C)
            BY <1>2, <2>1 DEF CountedCaps
        <3> QED BY <1>1, <3>1, <3>3, <3>4 DEF CapMoved
    <2>2. CASE k \notin CountedCaps(o)
        <3>1. cap'[k] = cap[k]
            BY <1>3, <2>2 DEF MovesMoney, MovesBudget
        <3>2. k \notin CapsOf(o)
            BY <2>2, <3>1 DEF CountedCaps
        <3>3. HeldExposure(C)' = HeldExposure(C) /\ Charged(C)' = Charged(C)
            BY <1>1, <1>3, <3>2, CapCallsAre DEF MovesMoney, MovesHeld, MovesCharged
        <3> QED BY <1>2, <3>1, <3>3
    <2> QED BY <2>1, <2>2
<1>4. UNCHANGED disp => HeldExposure(C)' = HeldExposure(C) /\ Charged(C)' = Charged(C)
    BY <1>1, HeldKept, ChargedKept
<1>5. ASSUME cap'[k].set = cap[k].set, cap'[k].reserved = cap[k].reserved, cap'[k].consumed = cap[k].consumed,
             HeldExposure(C)' = HeldExposure(C), Charged(C)' = Charged(C)
      PROVE  cap'[k].reserved = HeldExposure(C)' /\ cap'[k].consumed = Charged(C)'
    BY <1>2, <1>5
<1>6. CASE MoneyStands
    BY <1>1, <1>5, <1>6 DEF MoneyStands, moneyVars
<1>7. ASSUME NEW o \in Ops, Allocate(o) \/ SettleFinance(o)
      PROVE  cap'[k].reserved = HeldExposure(C)' /\ cap'[k].consumed = Charged(C)'
    <2>1. UNCHANGED <<cap, disp>>
        BY <1>7 DEF Allocate, SettleFinance
    <2> QED BY <1>4, <1>5, <2>1
<1>8. ASSUME NEW j \in Caps, SetCostCap(j)
      PROVE  cap'[k].reserved = HeldExposure(C)' /\ cap'[k].consumed = Charged(C)'
    <2>1. UNCHANGED disp
        BY <1>8 DEF SetCostCap
    <2>2. PICK n \in Limits : cap' = [cap EXCEPT ![j] = IF @.set THEN [@ EXCEPT !.limit = n] ELSE NewCap(n)]
        BY <1>8 DEF SetCostCap
    <2>3. CASE j # k
        <3>1. cap'[k] = cap[k]
            BY <1>1, <2>2, <2>3
        <3> QED BY <1>4, <1>5, <2>1, <3>1
    <2>4. CASE j = k /\ cap[k].set
        <3>1. cap[k] \in CostCap /\ cap'[k] = [cap[k] EXCEPT !.limit = n]
            BY <1>1, <2>2, <2>4
        <3>2. cap'[k].set = cap[k].set /\ cap'[k].reserved = cap[k].reserved /\ cap'[k].consumed = cap[k].consumed
            BY <3>1 DEF CostCap
        <3> QED BY <1>4, <1>5, <2>1, <3>2
    <2>5. CASE j = k /\ ~cap[k].set
        <3>1. cap'[k] = NewCap(n)
            BY <1>1, <2>2, <2>5
        <3>2. ASSUME NEW c \in C PROVE disp[c].charged = 0 /\ (disp[c].state \in Holding => Exposure[c] = 0)
            <4>1. c \in Calls
                BY <1>1
            <4>2. CASE disp[c].state \in {"none", "denied"}
                BY <4>1, <4>2 DEF UnissuedIsFree, Holding
            <4>3. CASE disp[c].state \notin {"none", "denied"}
                <5>1. Free(c)
                    BY <2>5, <4>3 DEF UncappedIsFree
                <5> QED BY <4>1, <5>1, FreeCostsNothing DEF FreeDeclaresNothing
            <4> QED BY <4>2, <4>3
        <3>3. HeldExposure(C) = 0 /\ Charged(C) = 0
            BY <1>1, <3>2, NothingCommitted
        <3> QED BY <1>4, <2>1, <3>1, <3>3 DEF NewCap
    <2> QED BY <2>3, <2>4, <2>5
<1> QED BY <1>3, <1>6, <1>7, <1>8, MoneyStep

\* A tenant or project cap that is set counts exactly what the calls of its
\* operations hold and were charged, whenever it was set and however its
\* limit changed, where caps are required and free calls declare no exposure
\* (application/budget.go): no release is clamped at zero.
THEOREM CapsAreExact ==
    ASSUME CapsRequired, FreeDeclaresNothing
    PROVE  Spec => []CapExact
<1>1. Init => ChargedIsEstablished /\ UnissuedIsFree /\ UncappedIsFree /\ CapExact
    <2> SUFFICES ASSUME Init PROVE ChargedIsEstablished /\ UnissuedIsFree /\ UncappedIsFree /\ CapExact
        OBVIOUS
    <2>1. UnissuedIsFree /\ CapExact
        BY DEF Init, UnissuedIsFree, CapExact, NoCap
    <2>2. UncappedIsFree
        <3>1. \A k \in Caps : CapCalls(k) \in SUBSET Calls
            BY CapCallsAre
        <3> QED BY <3>1 DEF Init, UncappedIsFree
    <2>3. ChargedIsEstablished
        BY MeteringStarts
    <2> QED BY <2>1, <2>2, <2>3
<1>2. TypeOK /\ ChargedIsEstablished /\ UnissuedIsFree /\ UncappedIsFree /\ CapExact /\ [Next]_vars
        => (ChargedIsEstablished /\ UnissuedIsFree /\ UncappedIsFree /\ CapExact)'
    BY MeterStep, UnissuedStep, UncappedStep, CapStep
<1> QED BY <1>1, <1>2, TypeCorrect, PTL DEF Spec

-----------------------------------------------------------------------------
(* What an admission fits.                                                 *)

\* The spend an operation cap is compared with covers every allocation.
LEMMA SpendCovered ==
    ASSUME TypeOK, FundedOnce, NEW o \in Ops, NEW p \in Allocations(o)
    PROVE  /\ Spend(alloc[o][p]) \in Nat
           /\ Max({0} \cup {Spend(alloc[o][q]) : q \in Allocations(o)}) \in Nat
           /\ Spend(alloc[o][p]) <= Max({0} \cup {Spend(alloc[o][q]) : q \in Allocations(o)})
<1> DEFINE n == Spend(alloc[o][p])
           S == {0} \cup {Spend(alloc[o][q]) : q \in Allocations(o)}
<1>1. n \in Nat
    <2>1. alloc[o][p] \in Allocation
        BY AllocationRows DEF Allocations
    <2> QED BY <2>1 DEF Allocation, Spend
<1>2. Allocations(o) = {p}
    BY DEF FundedOnce
<1>3. S = {0, n}
    BY <1>2
<1> HIDE DEF n, S
<1>4. S \in SUBSET (0..n) /\ S # {} /\ n \in S
    BY <1>1, <1>3
<1>5. Max(S) \in S /\ \A y \in S : Max(S) >= y
    BY <1>1, <1>4, GreatestElement
<1>6. Max(S) \in Nat /\ n <= Max(S)
    BY <1>1, <1>3, <1>4, <1>5
<1> QED BY <1>1, <1>6 DEF n, S

\* What the calls of C commit once call c among them is prepared.
LEMMA PreparedCommits ==
    ASSUME TypeOK, NEW c \in Calls, disp[c].state = "none", disp' = [disp EXCEPT ![c].state = "prepared"],
           NEW C \in SUBSET Calls, CallsOf(OpOfCall(c)) \subseteq C
    PROVE  /\ Committed(C)' = HeldExposure(C) + Charged(C) + Exposure[c]
           /\ HeldExposure(C) \in Nat /\ Charged(C) \in Nat /\ Exposure[c] \in Nat
<1>1. MovesHeld(OpOfCall(c), Exposure[c], 0) /\ MovesCharged(OpOfCall(c), 0)
    <2>1. disp[c].state \notin Holding /\ "prepared" \in Holding
        BY DEF Holding
    <2> QED BY <2>1, RowMoves
<1>2. HeldExposure(C) \in Nat /\ Charged(C) \in Nat /\ Exposure[c] \in Nat
    BY SumTypes, DispatchAssumption
<1>3. HeldExposure(C)' = HeldExposure(C) + Exposure[c] - 0 /\ Charged(C)' = Charged(C) + 0
    BY <1>1 DEF MovesHeld, MovesCharged
<1>4. Committed(C)' = HeldExposure(C)' + Charged(C)'
    BY DEF Committed
<1> QED BY <1>2, <1>3, <1>4

\* The checks of one transaction are about the money it then reserves.
LEMMA FitsStep ==
    ASSUME TypeOK, LedgerHolds, AllocationExact, CapExact, FundedOnce, Next,
           NEW c \in Calls, disp[c].state = "none", disp'[c].state = "prepared"
    PROVE  /\ Committed(CallsOf(OpOfCall(c)))' <= Amount
           /\ ~Free(c) => \A k \in CapsOf(OpOfCall(c)) : cap[k].set =>
                Committed(IF CapCounted[k] THEN CapCalls(k) ELSE CallsOf(OpOfCall(c)))' <= cap[k].limit
<1> DEFINE o == OpOfCall(c)
           C == CallsOf(o)
<1>1. o \in Ops /\ C \in SUBSET Calls
    BY Bindings DEF CallsOf
<1>2. /\ disp' = [disp EXCEPT ![c].state = "prepared"]
      /\ \E authority \in BOOLEAN : CheckAdmission(c, authority, TRUE)
    BY StateStep DEF StateMoves, Admits
<1>3. /\ Allocations(o) # {} /\ \A p \in Allocations(o) : CanReserve(alloc[o][p], Exposure[c])
      /\ ~Free(c) => CheckCaps(o, Exposure[c])
    BY <1>2 DEF CheckAdmission
<1>4. PICK p \in Allocations(o) : TRUE
    BY <1>3
<1>5. /\ Spend(alloc[o][p]) = HeldExposure(C) + Charged(C)
      /\ Spend(alloc[o][p]) + Exposure[c] <= Amount
    <2>1. alloc[o][p].reserved = HeldExposure(C) /\ alloc[o][p].consumed = Charged(C)
        BY <1>1, <1>4 DEF AllocationExact
    <2>2. alloc[o][p].amount = Amount
        BY <1>1, <1>4 DEF LedgerHolds, Allocations
    <2> QED BY <1>3, <1>4, <2>1, <2>2 DEF Spend, CanReserve
<1>6. Committed(C)' = HeldExposure(C) + Charged(C) + Exposure[c]
    BY <1>1, <1>2, PreparedCommits
<1>7. Committed(C)' <= Amount
    BY <1>5, <1>6
<1>8. ASSUME ~Free(c), NEW k \in CapsOf(o), cap[k].set
      PROVE  Committed(IF CapCounted[k] THEN CapCalls(k) ELSE C)' <= cap[k].limit
    <2>1. k \in Caps /\ CapSpend(k, o) + Exposure[c] <= cap[k].limit /\ cap[k].limit \in Nat /\ Exposure[c] \in Nat
        BY <1>3, <1>8, DispatchAssumption DEF CheckCaps, HeadroomFor, CapsOf, TypeOK, CostCap
    <2>2. CASE CapCounted[k]
        <3>1. CapCalls(k) \in SUBSET Calls /\ C \subseteq CapCalls(k)
            BY <1>1, <1>8, <2>1, CapCallsAre
        <3>2. Committed(CapCalls(k))' = HeldExposure(CapCalls(k)) + Charged(CapCalls(k)) + Exposure[c]
            BY <1>2, <3>1, PreparedCommits
        <3>3. CapSpend(k, o) = HeldExposure(CapCalls(k)) + Charged(CapCalls(k))
            BY <1>8, <2>1, <2>2 DEF CapExact, CapSpend
        <3> QED BY <2>1, <2>2, <3>2, <3>3
    <2>3. CASE ~CapCounted[k]
        <3>1. /\ CapSpend(k, o) = Max({0} \cup {Spend(alloc[o][q]) : q \in Allocations(o)})
              /\ CapSpend(k, o) \in Nat /\ Spend(alloc[o][p]) \in Nat /\ Spend(alloc[o][p]) <= CapSpend(k, o)
            BY <1>1, <1>4, <2>3, SpendCovered DEF CapSpend
        <3> QED BY <1>5, <1>6, <2>1, <2>3, <3>1
    <2> QED BY <2>2, <2>3
<1> QED BY <1>7, <1>8

\* At its admission a call fits the allocation of its operation and, if it
\* has a price, every cap set over it, counting every concurrent call: no two
\* admissions share headroom (Dispatch.Admit with domain CostCap), while no
\* operation is funded in two periods, caps are required and free calls
\* declare no exposure.
THEOREM AdmissionsFit ==
    ASSUME CapsRequired, FreeDeclaresNothing
    PROVE  Spec /\ []FundedOnce => AdmissionFits
<1>1. Init => LedgerHolds
    BY DEF Init, LedgerHolds, NoAllocation
<1>2. TypeOK /\ LedgerHolds /\ [Next]_vars => LedgerHolds'
    BY LedgerStep
<1> DEFINE Fits == \A c \in Calls : disp[c].state = "none" /\ disp'[c].state = "prepared" =>
            LET o == OpOfCall(c)
            IN  /\ Committed(CallsOf(o))' <= Amount
                /\ ~Free(c) => \A k \in CapsOf(o) : cap[k].set =>
                        Committed(IF CapCounted[k] THEN CapCalls(k) ELSE CallsOf(o))' <= cap[k].limit
<1>3. TypeOK /\ LedgerHolds /\ AllocationExact /\ CapExact /\ FundedOnce /\ [Next]_vars => [Fits]_vars
    BY FitsStep
<1>4. AdmissionFits <=> [][Fits]_vars
    BY DEF AdmissionFits
<1> HIDE DEF Fits
<1> QED BY <1>1, <1>2, <1>3, <1>4, TypeCorrect, AllocationsAreExact, CapsAreExact, PTL DEF Spec

-----------------------------------------------------------------------------
(* Settlement.                                                             *)

\* The money of a terminal operation is there to be settled: it holds no
\* reservation, and what an allocation gives back is still drawn from its
\* pool (the conditions SettleFinance and BudgetPool.Return fail on).
SettlementCovered ==
    \A o \in Ops : fence[o] = "ended" =>
        /\ \A p \in 1..Periods : alloc[o][p].reserved = 0
        /\ \A p \in Allocations(o) : alloc[o][p].returned = NotReturned
                => ReturnUnspent(alloc[o][p]) <= pool[p].allocated

\* What was never funded reserves nothing.
UndrawnIsEmpty ==
    \A o \in Ops : \A p \in 1..Periods : p \notin Allocations(o) => alloc[o][p].reserved = 0

LEMMA UndrawnStep ==
    ASSUME TypeOK, UndrawnIsEmpty, [Next]_vars
    PROVE  UndrawnIsEmpty'
<1> SUFFICES ASSUME NEW q \in Ops, NEW p \in 1..Periods, p \notin Allocations(q)'
             PROVE  alloc'[q][p].reserved = 0
    BY DEF UndrawnIsEmpty
<1>1. p \notin Allocations(q)
    BY AllocationsStep DEF AllocationsKept
<1>2. ASSUME alloc'[q][p].reserved = alloc[q][p].reserved PROVE alloc'[q][p].reserved = 0
    BY <1>1, <1>2 DEF UndrawnIsEmpty
<1>3. ASSUME NEW o \in Ops, NEW t \in Nat, NEW x \in Nat, NEW d \in Nat, MovesMoney(o, t, x, d)
      PROVE  alloc'[q][p].reserved = alloc[q][p].reserved
    BY <1>1, <1>3 DEF MovesMoney, MovesBudget
<1>4. ASSUME NEW o \in Ops, Allocate(o) PROVE alloc'[q][p].reserved = 0
    <2>1. alloc'[q][p] = IF q = o /\ p = period THEN NewAllocation(Amount) ELSE alloc[q][p]
        BY <1>4, FundingDraws
    <2> QED BY <1>2, <2>1 DEF NewAllocation, NoAllocation
<1>5. ASSUME NEW o \in Ops, SettleFinance(o) PROVE alloc'[q][p].reserved = alloc[q][p].reserved
    BY <1>5, SettlementReturns
<1>6. ASSUME MoneyStands \/ \E k \in Caps : SetCostCap(k) PROVE alloc'[q][p].reserved = alloc[q][p].reserved
    BY <1>6 DEF MoneyStands, moneyVars, SetCostCap
<1> QED BY <1>2, <1>3, <1>4, <1>5, <1>6, MoneyStep

\* The settlement of a terminal operation is never refused for its money:
\* every exposure was released before the end, and every pool still counts
\* the allocation, while no operation is funded in two periods (SettleFinance).
THEOREM SettlementIsCovered == Spec /\ []FundedOnce => []SettlementCovered
<1>1. Init => LedgerHolds /\ UndrawnIsEmpty
    BY DEF Init, LedgerHolds, UndrawnIsEmpty, NoAllocation
<1>2. TypeOK /\ LedgerHolds /\ UndrawnIsEmpty /\ [Next]_vars => (LedgerHolds /\ UndrawnIsEmpty)'
    BY LedgerStep, UndrawnStep
<1>3. ASSUME TypeOK, LedgerHolds, UndrawnIsEmpty, AllocationExact, PoolExact, TerminalHoldsNothing
      PROVE  SettlementCovered
    <2> SUFFICES ASSUME NEW o \in Ops, fence[o] = "ended", NEW p \in 1..Periods
                 PROVE  /\ alloc[o][p].reserved = 0
                        /\ p \in Allocations(o) /\ alloc[o][p].returned = NotReturned
                            => ReturnUnspent(alloc[o][p]) <= pool[p].allocated
        BY DEF SettlementCovered, Allocations
    <2>1. alloc[o][p].reserved = 0
        <3>1. CallsOf(o) \in SUBSET Calls /\ HeldIn(CallsOf(o)) = {}
            BY <1>3 DEF TerminalHoldsNothing, HeldIn, CallsOf
        <3>2. HeldExposure(CallsOf(o)) = 0
            BY <3>1, ExposureSums DEF HeldExposure, HeldIn
        <3> QED BY <1>3, <3>2 DEF AllocationExact, UndrawnIsEmpty
    <2>2. ASSUME alloc[o][p].returned = NotReturned PROVE ReturnUnspent(alloc[o][p]) <= pool[p].allocated
        <3> DEFINE e == [q \in Ops |-> Drawn(alloc[q][p])]
        <3>1. \A q \in Ops : Drawn(alloc[q][p]) \in Nat
            <4>1. ASSUME NEW q \in Ops PROVE Drawn(alloc[q][p]) \in Nat
                <5>1. alloc[q][p] \in Allocation
                    BY <1>3, AllocationRows
                <5> QED BY <1>3, <5>1, DrawnType DEF LedgerHolds
            <4> QED BY <4>1
        <3>2. IsFiniteSet(Ops) /\ IsFiniteSet(Ops \ {o}) /\ DOMAIN e = Ops /\ \A q \in Ops : e[q] \in Nat
            BY <3>1, DispatchAssumption, FS_RemoveElement
        <3>3. pool[p].allocated = SumFunctionOnSet(e, Ops)
            BY <1>3, <3>2 DEF PoolExact, SumFunction
        <3>4. e[o] = alloc[o][p].amount
            BY <2>2 DEF Drawn
        <3> HIDE DEF e
        <3>5. SumFunctionOnSet(e, Ops) = e[o] + SumFunctionOnSet(e, Ops \ {o}) /\ SumFunctionOnSet(e, Ops \ {o}) \in Nat
            BY <3>2, SumFacts
        <3>6. alloc[o][p] \in Allocation
            BY <1>3, AllocationRows
        <3>7. PICK n \in Nat, m \in Nat : n = alloc[o][p].amount /\ m = alloc[o][p].consumed
            BY <3>6 DEF Allocation
        <3>8. ReturnUnspent(alloc[o][p]) = IF m <= n THEN n - m ELSE 0
            BY <3>7 DEF ReturnUnspent
        <3> QED BY <3>3, <3>4, <3>5, <3>7, <3>8
    <2> QED BY <2>1, <2>2
<1> QED BY <1>1, <1>2, <1>3, TypeCorrect, AllocationsAreExact, PoolsAreExact, TerminalIsQuiet, PTL DEF Spec

=============================================================================
