--------------------------- MODULE DispatchProofs ---------------------------
(***************************************************************************)
(* Types of Dispatch and safety of the admission protocol for every value  *)
(* of its constants: the single-use permission, the inventory rule,        *)
(* replacement, the not-sent evidence, the close of an attempt and the     *)
(* grant barrier.                                                          *)
(***************************************************************************)
EXTENDS Dispatch, FiniteSetTheorems, WellFoundedInduction, TLAPS

-----------------------------------------------------------------------------
(* Least and greatest elements.                                            *)

\* A nonempty set of natural numbers has a least element.
LEMMA LeastElement ==
    ASSUME NEW T \in SUBSET Nat, T # {}
    PROVE  \E x \in T : \A y \in T : ~(y < x)
<1> DEFINE R == OpToRel(<, Nat)
<1>1. IsWellFoundedOn(R, Nat)
    BY NatLessThanWellFounded DEF R
<1>2. PICK x \in T : \A y \in T : ~(<<y, x>> \in R)
    <2> HIDE DEF R
    <2> QED BY <1>1, WFMin
<1>3. \A y \in T : ~(y < x)
    BY <1>2 DEF OpToRel
<1> QED BY <1>3

\* Max returns the greatest element of a nonempty bounded set.
LEMMA GreatestElement ==
    ASSUME NEW N \in Nat, NEW S \in SUBSET (0..N), S # {}
    PROVE  Max(S) \in S /\ \A y \in S : Max(S) >= y
<1> DEFINE T == {N - n : n \in S}
<1>1. \A n \in S : n \in Nat /\ n <= N /\ N - n \in Nat
    OBVIOUS
<1>2. T \in SUBSET Nat /\ T # {}
    BY <1>1
<1>3. PICK x \in T : \A y \in T : ~(y < x)
    <2> HIDE DEF T
    <2> QED BY <1>2, LeastElement
<1>4. PICK m \in S : x = N - m
    OBVIOUS
<1>5. ASSUME NEW y \in S PROVE m >= y
    <2>1. N - y \in T
        OBVIOUS
    <2>2. ~(N - y < x)
        BY <2>1, <1>3
    <2> QED BY <2>2, <1>4, <1>1
<1> QED BY <1>5 DEF Max

-----------------------------------------------------------------------------
(* Sums over finite sets.                                                  *)

\* The element a fold takes next, and the equation of its partial sums.
Taken(s) == CHOOSE x \in s : TRUE

PartialSums(e, S, sum) ==
    sum = [s \in SUBSET S |-> IF s = {} THEN 0 ELSE e[Taken(s)] + sum[s \ {Taken(s)}]]

\* A sum of naturals counts units: e[x] of them for every x.
Units(e, S) == UNION {{x} \X (1..e[x]) : x \in S}

\* Finitely many elements have finitely many units, and each adds its own.
LEMMA UnitsAdd ==
    ASSUME NEW S, IsFiniteSet(S), NEW e, \A x \in S : e[x] \in Nat
    PROVE  /\ IsFiniteSet(Units(e, S))
           /\ \A x \in S : Cardinality(Units(e, S)) = e[x] + Cardinality(Units(e, S \ {x}))
<1> DEFINE Column(x) == {x} \X (1..e[x])
<1>1. ASSUME NEW x \in S PROVE IsFiniteSet(Column(x)) /\ Cardinality(Column(x)) = e[x]
    <2>1. PICK n \in Nat : n = e[x]
        OBVIOUS
    <2>2. IsFiniteSet(1..n) /\ Cardinality(1..n) = n
        BY FS_Interval
    <2>3. IsFiniteSet({x}) /\ Cardinality({x}) = 1
        BY FS_Singleton
    <2>4. IsFiniteSet({x} \X (1..n)) /\ Cardinality({x} \X (1..n)) = 1 * n
        BY <2>2, <2>3, FS_Product
    <2> QED BY <2>1, <2>4
<1>2. ASSUME NEW T \in SUBSET S PROVE IsFiniteSet(Units(e, T))
    <2> DEFINE columns == {Column(x) : x \in T}
               f == [x \in T |-> Column(x)]
    <2>1. f \in Surjection(T, columns)
        BY DEF Surjection
    <2>2. IsFiniteSet(T)
        BY FS_Subset
    <2>3. IsFiniteSet(columns)
        <3> HIDE DEF f, columns
        <3> QED BY <2>1, <2>2, FS_Surjection
    <2>4. \A C \in columns : IsFiniteSet(C)
        BY <1>1
    <2>5. IsFiniteSet(UNION columns)
        <3> HIDE DEF columns
        <3> QED BY <2>3, <2>4, FS_UNION
    <2> QED BY <2>5 DEF Units
<1>3. ASSUME NEW x \in S PROVE Cardinality(Units(e, S)) = e[x] + Cardinality(Units(e, S \ {x}))
    <2>1. Units(e, S) = Units(e, S \ {x}) \cup Column(x) /\ Units(e, S \ {x}) \cap Column(x) = {}
        BY <1>3 DEF Units
    <2>2. IsFiniteSet(Units(e, S \ {x})) /\ IsFiniteSet(Column(x)) /\ Cardinality(Column(x)) = e[x]
        BY <1>1, <1>2
    <2>3. Cardinality(Units(e, S \ {x})) \in Nat /\ Cardinality({}) = 0
        BY <2>2, FS_CardinalityType, FS_EmptySet
    <2> HIDE DEF Column
    <2>4. Cardinality(Units(e, S)) = Cardinality(Units(e, S \ {x})) + Cardinality(Column(x)) - Cardinality({})
        BY <2>1, <2>2, FS_Union
    <2> QED BY <1>3, <2>2, <2>3, <2>4
<1> QED BY <1>2, <1>3

\* The fold computes that count: the counts satisfy the equation of the
\* partial sums, and a smallest set on which a solution differs cannot be.
LEMMA SumIsCount ==
    ASSUME NEW S, IsFiniteSet(S), NEW e, \A x \in S : e[x] \in Nat
    PROVE  SumFunctionOnSet(e, S) = Cardinality(Units(e, S))
<1> DEFINE count == [s \in SUBSET S |-> Cardinality(Units(e, s))]
           sum == CHOOSE f : PartialSums(e, S, f)
<1>1. SumFunctionOnSet(e, S) = sum[S]
    BY DEF SumFunctionOnSet, FoldFunctionOnSet, MapThenFoldSet, PartialSums, Taken
<1>2. Cardinality(Units(e, {})) = 0
    BY FS_EmptySet DEF Units
<1>3. ASSUME NEW s \in SUBSET S, s # {}
      PROVE  /\ Taken(s) \in s /\ s \ {Taken(s)} \in SUBSET S
             /\ Cardinality(Units(e, s)) = e[Taken(s)] + Cardinality(Units(e, s \ {Taken(s)}))
    <2>1. Taken(s) \in s
        BY <1>3 DEF Taken
    <2>2. IsFiniteSet(s) /\ \A x \in s : e[x] \in Nat
        BY FS_Subset
    <2> QED BY <2>1, <2>2, UnitsAdd
<1>4. PartialSums(e, S, count)
    <2>1. ASSUME NEW s \in SUBSET S
          PROVE  Cardinality(Units(e, s)) = IF s = {} THEN 0 ELSE e[Taken(s)] + count[s \ {Taken(s)}]
        BY <1>2, <1>3
    <2> QED BY <2>1 DEF PartialSums
<1>5. PartialSums(e, S, sum)
    <2> HIDE DEF count
    <2> QED BY <1>4, Zenon
<1> HIDE DEF sum
<1>6. \A s \in SUBSET S : sum[s] = IF s = {} THEN 0 ELSE e[Taken(s)] + sum[s \ {Taken(s)}]
    BY <1>5 DEF PartialSums
<1> DEFINE Wrong == {s \in SUBSET S : sum[s] # Cardinality(Units(e, s))}
           sizes == {Cardinality(s) : s \in Wrong}
<1>7. Wrong = {}
    <2> SUFFICES ASSUME Wrong # {} PROVE FALSE
        OBVIOUS
    <2>1. \A s \in SUBSET S : IsFiniteSet(s) /\ Cardinality(s) \in Nat
        BY FS_Subset, FS_CardinalityType
    <2>2. sizes \in SUBSET Nat /\ sizes # {}
        BY <2>1
    <2>3. PICK n \in sizes : \A m \in sizes : ~(m < n)
        <3> HIDE DEF sizes
        <3> QED BY <2>2, LeastElement
    <2>4. PICK s \in Wrong : n = Cardinality(s)
        OBVIOUS
    <2>5. s \in SUBSET S /\ s # {}
        BY <1>2, <1>6
    <2>6. Cardinality(s \ {Taken(s)}) = Cardinality(s) - 1
        BY <1>3, <2>1, <2>5, FS_RemoveElement
    <2>7. s \ {Taken(s)} \notin Wrong
        <3>1. Cardinality(s \ {Taken(s)}) < n
            BY <2>1, <2>4, <2>5, <2>6
        <3> QED BY <2>3, <3>1
    <2>8. sum[s \ {Taken(s)}] = Cardinality(Units(e, s \ {Taken(s)}))
        BY <1>3, <2>5, <2>7
    <2>9. sum[s] = Cardinality(Units(e, s))
        BY <1>3, <1>6, <2>5, <2>8
    <2> QED BY <2>9
<1> QED BY <1>1, <1>7

\* What a sum is: a natural, nothing for the empty set, and additive.
LEMMA SumFacts ==
    ASSUME NEW S, IsFiniteSet(S), NEW e, \A x \in S : e[x] \in Nat
    PROVE  /\ SumFunctionOnSet(e, S) \in Nat
           /\ SumFunctionOnSet(e, {}) = 0
           /\ \A x \in S : SumFunctionOnSet(e, S) = e[x] + SumFunctionOnSet(e, S \ {x})
           /\ \A T \in SUBSET S : SumFunctionOnSet(e, S) = SumFunctionOnSet(e, T) + SumFunctionOnSet(e, S \ T)
<1>1. ASSUME NEW T \in SUBSET S
      PROVE  /\ SumFunctionOnSet(e, T) = Cardinality(Units(e, T))
             /\ IsFiniteSet(Units(e, T)) /\ Cardinality(Units(e, T)) \in Nat
    <2>1. IsFiniteSet(T) /\ \A x \in T : e[x] \in Nat
        BY FS_Subset
    <2>2. IsFiniteSet(Units(e, T))
        BY <2>1, UnitsAdd
    <2> QED BY <2>1, <2>2, SumIsCount, FS_CardinalityType
<1>2. SumFunctionOnSet(e, {}) = 0
    <2>1. Units(e, {}) = {} /\ {} \in SUBSET S
        BY DEF Units
    <2> QED BY <1>1, <2>1, FS_EmptySet
<1>3. ASSUME NEW x \in S PROVE SumFunctionOnSet(e, S) = e[x] + SumFunctionOnSet(e, S \ {x})
    <2>1. S \in SUBSET S /\ S \ {x} \in SUBSET S
        OBVIOUS
    <2> QED BY <1>1, <2>1, UnitsAdd
<1>4. ASSUME NEW T \in SUBSET S
      PROVE  SumFunctionOnSet(e, S) = SumFunctionOnSet(e, T) + SumFunctionOnSet(e, S \ T)
    <2>1. Units(e, S) = Units(e, T) \cup Units(e, S \ T) /\ Units(e, T) \cap Units(e, S \ T) = {}
        BY DEF Units
    <2>2. S \in SUBSET S /\ S \ T \in SUBSET S
        OBVIOUS
    <2>3. IsFiniteSet(Units(e, T)) /\ IsFiniteSet(Units(e, S \ T))
        BY <1>1, <2>2
    <2>4. Cardinality(Units(e, S)) = Cardinality(Units(e, T)) + Cardinality(Units(e, S \ T)) - Cardinality({})
        BY <2>1, <2>3, FS_Union
    <2>5. Cardinality({}) = 0
        BY FS_EmptySet
    <2>6. /\ SumFunctionOnSet(e, S) = Cardinality(Units(e, S))
          /\ SumFunctionOnSet(e, T) = Cardinality(Units(e, T)) /\ Cardinality(Units(e, T)) \in Nat
          /\ SumFunctionOnSet(e, S \ T) = Cardinality(Units(e, S \ T)) /\ Cardinality(Units(e, S \ T)) \in Nat
        BY <1>1, <2>2
    <2> QED BY <2>4, <2>5, <2>6
<1>5. SumFunctionOnSet(e, S) \in Nat
    <2>1. S \in SUBSET S
        OBVIOUS
    <2> QED BY <1>1, <2>1
<1> QED BY <1>2, <1>3, <1>4, <1>5

\* A sum depends on the values of its elements only.
LEMMA SumAgrees ==
    ASSUME NEW S, IsFiniteSet(S), NEW e, NEW f, \A x \in S : e[x] \in Nat /\ f[x] = e[x]
    PROVE  SumFunctionOnSet(f, S) = SumFunctionOnSet(e, S)
<1>1. Units(f, S) = Units(e, S)
    BY DEF Units
<1> QED BY <1>1, SumIsCount

\* A change of one value changes the sum by the difference.
LEMMA SumChange ==
    ASSUME NEW S, IsFiniteSet(S), NEW e, NEW f, NEW y \in S, \A x \in S : e[x] \in Nat /\ f[x] \in Nat,
           \A x \in S \ {y} : f[x] = e[x]
    PROVE  SumFunctionOnSet(f, S) = SumFunctionOnSet(e, S) - e[y] + f[y]
<1>1. IsFiniteSet(S \ {y})
    BY FS_RemoveElement
<1>2. /\ SumFunctionOnSet(e, S) = e[y] + SumFunctionOnSet(e, S \ {y})
      /\ SumFunctionOnSet(f, S) = f[y] + SumFunctionOnSet(f, S \ {y})
    BY SumFacts
<1>3. SumFunctionOnSet(f, S \ {y}) = SumFunctionOnSet(e, S \ {y}) /\ SumFunctionOnSet(e, S \ {y}) \in Nat
    BY <1>1, SumAgrees, SumFacts
<1> QED BY <1>2, <1>3

\* Nothing adds up to nothing.
LEMMA SumOfNothing ==
    ASSUME NEW S, IsFiniteSet(S), NEW e, \A x \in S : e[x] = 0
    PROVE  SumFunctionOnSet(e, S) = 0
<1>1. Units(e, S) = {}
    BY DEF Units
<1> QED BY <1>1, SumIsCount, FS_EmptySet

\* The exposures of calls add up.
LEMMA ExposureSums ==
    ASSUME NEW C \in SUBSET Calls
    PROVE  /\ IsFiniteSet(C)
           /\ ExposureSum(C) \in Nat /\ ExposureSum({}) = 0
           /\ \A c \in C : ExposureSum(C) = Exposure[c] + ExposureSum(C \ {c})
           /\ \A D \in SUBSET C : ExposureSum(C) = ExposureSum(D) + ExposureSum(C \ D)
<1>1. IsFiniteSet(C) /\ \A c \in C : Exposure[c] \in Nat
    BY DispatchAssumption, FS_Subset
<1> QED BY <1>1, SumFacts DEF ExposureSum

-----------------------------------------------------------------------------
(* The operators on money and usage are well typed.                        *)

\* Reported counters are natural numbers up to MaxUsage.
LEMMA CountersBounded ==
    ASSUME NEW obs \in SUBSET Reports, NEW m \in WithCounters(obs)
    PROVE  m.usage.input \in 0..MaxUsage /\ m.usage.cached \in 0..MaxUsage
<1>1. m.usage \in Usages
    BY DEF WithCounters, Reports
<1> QED BY <1>1, DispatchAssumption

\* The largest usage reported for a call is a usage.
LEMMA MaxUsageType ==
    ASSUME NEW obs \in SUBSET Reports
    PROVE  MaxUsageOf(obs) \in Usage
<1> DEFINE I == {0} \cup {m.usage.input : m \in WithCounters(obs)}
           K == {0} \cup {m.usage.cached : m \in WithCounters(obs)}
<1>1. MaxUsage \in Nat /\ 0..MaxUsage \subseteq Nat
    BY DispatchAssumption
<1>2. \A m \in WithCounters(obs) : m.usage.input \in 0..MaxUsage /\ m.usage.cached \in 0..MaxUsage
    BY CountersBounded
<1>3. I \in SUBSET (0..MaxUsage) /\ I # {} /\ K \in SUBSET (0..MaxUsage) /\ K # {}
    BY <1>1, <1>2
<1>4. Max(I) \in Nat /\ Max(K) \in Nat
    <2> HIDE DEF I, K
    <2>1. Max(I) \in I /\ Max(K) \in K
        BY <1>1, <1>3, GreatestElement
    <2> QED BY <1>1, <1>3, <2>1
<1>5. MaxUsageOf(obs) = [input |-> Max(I), cached |-> Max(K)]
    BY DEF MaxUsageOf
<1> HIDE DEF I, K
<1> QED BY <1>4, <1>5 DEF Usage

\* A price rounds up to an integer amount.
LEMMA PriceOfUnitsType ==
    ASSUME NEW units \in Int, NEW perUnit \in Nat, NEW scale \in Nat \ {0}
    PROVE  PriceOfUnits(units, perUnit, scale) \in Int
<1>1. units * perUnit \in Int
    OBVIOUS
<1>2. units * perUnit + scale - 1 \in Int
    BY <1>1
<1> QED BY <1>2 DEF PriceOfUnits

\* A call's usage costs an integer amount.
LEMMA CostType ==
    ASSUME NEW u \in Usage, NEW c \in Calls
    PROVE  Cost(u, Price[c], Scale) \in Int
<1>1. Price[c] \in Prices /\ Scale \in Nat \ {0}
    BY DispatchAssumption
<1>2. Price[c].input \in Nat /\ Price[c].cached \in Nat /\ u.input \in Nat /\ u.cached \in Nat
    BY <1>1 DEF Prices, Usage
<1>3. (IF Price[c].inclusive THEN u.input - u.cached ELSE u.input) \in Int /\ u.cached \in Int
    BY <1>2
<1>4. /\ PriceOfUnits(IF Price[c].inclusive THEN u.input - u.cached ELSE u.input, Price[c].input, Scale) \in Int
      /\ PriceOfUnits(u.cached, Price[c].cached, Scale) \in Int
    BY <1>1, <1>2, <1>3, PriceOfUnitsType
<1> QED BY <1>4 DEF Cost

\* The operations on an allocation keep it well typed.
LEMMA AllocationTypes ==
    ASSUME NEW a \in Allocation, NEW x \in Nat, NEW d \in Nat
    PROVE  /\ Reserve(a, x) \in Allocation
           /\ CanRelease(a, x) => Release(a, x) \in Allocation
           /\ CanRelease(a, x) => Release(Charge(a, d), x) \in Allocation
           /\ ReturnUnspent(a) \in Nat
<1>1. Reserve(a, x) \in Allocation
    BY DEF Allocation, Reserve
<1>2. \A b \in Allocation : CanRelease(b, x) => Release(b, x) \in Allocation
    BY DEF Allocation, CanRelease, Release
<1>3. Charge(a, d) \in Allocation
    BY DEF Allocation, Charge
<1>4. CanRelease(a, x) => Release(Charge(a, d), x) \in Allocation
    <2>1. Charge(a, d).reserved = a.reserved
        BY DEF Allocation, Charge
    <2> QED BY <1>2, <1>3, <2>1 DEF CanRelease
<1>5. ReturnUnspent(a) \in Nat
    BY DEF Allocation, ReturnUnspent
<1> QED BY <1>1, <1>2, <1>4, <1>5

\* The operations on a cost cap keep it well typed.
LEMMA CapTypes ==
    ASSUME NEW k \in CostCap, NEW x \in Nat, NEW d \in Nat
    PROVE  /\ CapReserve(k, x) \in CostCap
           /\ CapRelease(k, x) \in CostCap
           /\ CapRelease(CapCharge(k, d), x) \in CostCap
<1>1. CapReserve(k, x) \in CostCap
    BY DEF CostCap, CapReserve
<1>2. \A j \in CostCap : CapRelease(j, x) \in CostCap
    BY DEF CostCap, CapRelease
<1>3. CapCharge(k, d) \in CostCap
    BY DEF CostCap, CapCharge
<1> QED BY <1>1, <1>2, <1>3

\* The budget of an operation stays well typed.
LEMMA BudgetTypes ==
    ASSUME TypeOK, NEW o \in Ops, NEW x \in Nat, NEW d \in Nat,
           ReserveBudget(o, x) \/ ReleaseBudget(o, x) \/ ChargeBudget(o, d, x)
    PROVE  /\ alloc' \in [Ops -> [1..Periods -> Allocation]]
           /\ cap' \in [Caps -> CostCap]
<1>1. /\ \A p \in 1..Periods : alloc[o][p] \in Allocation
      /\ \A k \in Caps : cap[k] \in CostCap
      /\ alloc \in [Ops -> [1..Periods -> Allocation]]
      /\ Allocations(o) \subseteq 1..Periods
    BY DEF TypeOK, Allocations
<1>2. CASE ReserveBudget(o, x)
    <2>1. \A p \in 1..Periods : Reserve(alloc[o][p], x) \in Allocation
        BY <1>1, AllocationTypes
    <2>2. \A k \in Caps : CapReserve(cap[k], x) \in CostCap
        BY <1>1, CapTypes
    <2> QED BY <1>1, <1>2, <2>1, <2>2 DEF ReserveBudget
<1>3. CASE ReleaseBudget(o, x)
    <2>1. \A p \in Allocations(o) : Release(alloc[o][p], x) \in Allocation
        BY <1>1, <1>3, AllocationTypes DEF ReleaseBudget
    <2>2. \A k \in Caps : CapRelease(cap[k], x) \in CostCap
        BY <1>1, CapTypes
    <2> QED BY <1>1, <1>3, <2>1, <2>2 DEF ReleaseBudget
<1>4. CASE ChargeBudget(o, d, x)
    <2>1. \A p \in Allocations(o) : Release(Charge(alloc[o][p], d), x) \in Allocation
        BY <1>1, <1>4, AllocationTypes DEF ChargeBudget
    <2>2. \A k \in Caps : CapRelease(CapCharge(cap[k], d), x) \in CostCap
        BY <1>1, CapTypes
    <2> QED BY <1>1, <1>4, <2>1, <2>2 DEF ChargeBudget
<1> QED BY <1>2, <1>3, <1>4

\* A row keeps its type when its state or its inventory changes.
LEMMA RowTypes ==
    ASSUME NEW row \in DispatchRow
    PROVE  /\ \A s \in DispatchStates : [row EXCEPT !.state = s] \in DispatchRow
           /\ \A i \in InventoryStates : [row EXCEPT !.inventory = i] \in DispatchRow
<1>1. \A s \in DispatchStates : [row EXCEPT !.state = s] \in DispatchRow
    BY DEF DispatchRow
<1>2. \A i \in InventoryStates : [row EXCEPT !.inventory = i] \in DispatchRow
    BY DEF DispatchRow
<1> QED BY <1>1, <1>2

-----------------------------------------------------------------------------
(* Type correctness.                                                       *)

\* Every call, attempt and request is bound to what the constants say.
LEMMA Bindings ==
    /\ \A c \in Calls : OpOfCall(c) \in Ops /\ Exposure[c] \in Nat
    /\ \A r \in Requests : CallOf[r] \in Calls
    /\ \A a \in Attempts : OpOf[a] \in Ops
BY DispatchAssumption DEF OpOfCall

\* One outcome report keeps the state well typed.
LEMMA ObserveType ==
    ASSUME TypeOK, NEW c \in Calls, NEW src \in Sources \cup {Query}, NEW seq \in 1..MaxSeq,
           NEW outcome \in {"definite", "unknown"}, NEW usage \in {NoUsage} \cup Usages,
           Observe(c, src, seq, outcome, usage)
    PROVE  TypeOK'
<1> DEFINE o == OpOfCall(c)
           settled == disp[c].state # "observed" /\ outcome = "definite"
           state == CASE disp[c].state = "observed" -> "observed"
                      [] outcome = "definite" -> "observed"
                      [] OTHER -> "unknown"
           obs == disp[c].obs \cup {[src |-> src, seq |-> seq, usage |-> usage]}
           cost == Cost(MaxUsageOf(obs), Price[c], Scale)
           delta == IF cost > disp[c].charged THEN cost - disp[c].charged ELSE 0
           x == IF settled THEN Exposure[c] ELSE 0
<1>1. disp[c].charged \in Nat /\ disp[c].obs \subseteq Reports
    BY DEF TypeOK, DispatchRow
<1>2. obs \in SUBSET Reports
    BY <1>1 DEF Reports
<1>3. cost \in Int
    <2> HIDE DEF obs
    <2> QED BY <1>2, MaxUsageType, CostType
<1>4. delta \in Nat
    <2> HIDE DEF cost
    <2> QED BY <1>1, <1>3
<1>5. x \in Nat /\ o \in Ops
    BY Bindings
<1>6. state \in DispatchStates
    BY DEF DispatchStates
<1>7. /\ ChargeBudget(o, delta, x)
      /\ disp' = [disp EXCEPT ![c] = [state |-> state, inventory |-> @.inventory,
                                      charged |-> @.charged + delta, obs |-> obs]]
      /\ finance' = [finance EXCEPT ![o] = FinanceAfter(o, c, state, settled)]
      /\ RecordTransitions(o, UnknownTransition(o, c, state))
      /\ UNCHANGED <<object, pc, senderVars, envVars, grant, pool, period, admitted>>
    BY DEF Observe
<1> HIDE DEF o, settled, state, obs, cost, delta, x
<1>8. /\ alloc' \in [Ops -> [1..Periods -> Allocation]]
      /\ cap' \in [Caps -> CostCap]
    BY <1>4, <1>5, <1>7, BudgetTypes
<1>9. disp' \in [Calls -> DispatchRow]
    <2>1. disp \in [Calls -> DispatchRow] /\ disp[c] \in DispatchRow
        BY DEF TypeOK
    <2>2. [state |-> state, inventory |-> disp[c].inventory,
           charged |-> disp[c].charged + delta, obs |-> obs] \in DispatchRow
        BY <1>1, <1>2, <1>4, <1>6, <2>1 DEF DispatchRow
    <2> QED BY <1>7, <2>1, <2>2
<1>10. FinanceAfter(o, c, state, settled) \in FinanceStates
    BY <1>5 DEF TypeOK, FinanceAfter, FinanceStates
<1>11. finance' \in [Ops -> FinanceStates]
    BY <1>7, <1>10 DEF TypeOK
<1>12. events' \in [Ops -> SUBSET Transitions]
    BY <1>5, <1>7 DEF TypeOK, RecordTransitions, UnknownTransition, Transitions
<1> QED BY <1>7, <1>8, <1>9, <1>11, <1>12 DEF TypeOK, senderVars, envVars

\* Every step keeps the state well typed: one step per action.
LEMMA TypeStep ==
    ASSUME TypeOK, [Next]_vars
    PROVE  TypeOK'
<1> USE Bindings
<1>1. CASE UNCHANGED vars
    BY <1>1 DEF TypeOK, vars, senderVars, financeVars, envVars, moneyVars
<1>2. ASSUME NEW r \in Requests, Prepare(r) PROVE TypeOK'
    <2>1. CallOf[r] \in Calls /\ OpOfCall(CallOf[r]) \in Ops /\ Exposure[CallOf[r]] \in Nat
        OBVIOUS
    <2>2. /\ alloc' \in [Ops -> [1..Periods -> Allocation]]
          /\ cap' \in [Caps -> CostCap]
        <3>1. CASE ReserveBudget(OpOfCall(CallOf[r]), Exposure[CallOf[r]])
            BY <2>1, <3>1, BudgetTypes
        <3>2. CASE UNCHANGED moneyVars
            BY <3>2 DEF TypeOK, moneyVars
        <3> QED BY <1>2, <3>1, <3>2 DEF Prepare
    <2>3. disp' \in [Calls -> DispatchRow]
        <3>1. disp \in [Calls -> DispatchRow] /\ disp[CallOf[r]] \in DispatchRow
            BY <2>1 DEF TypeOK
        <3>2. \A s \in {"denied", "prepared"} : [disp[CallOf[r]] EXCEPT !.state = s] \in DispatchRow
            BY <3>1, RowTypes DEF DispatchStates
        <3> QED BY <1>2, <2>1, <3>1, <3>2 DEF Prepare
    <2>4. pc' \in [Requests -> PCs]
        <3>1. pc \in [Requests -> PCs]
            BY DEF TypeOK
        <3>2. Goto(r, "put") \/ Goto(r, "done")
            BY <1>2 DEF Prepare
        <3> QED BY <3>1, <3>2 DEF Goto, PCs
    <2>5. admitted' \in [Calls -> Nat]
        <3> DEFINE place == Cardinality({d \in Calls : admitted[d] > 0}) + 1
        <3>1. place \in Nat
            <4>1. IsFiniteSet({d \in Calls : admitted[d] > 0})
                BY DispatchAssumption, FS_Subset
            <4> QED BY <4>1, FS_CardinalityType
        <3>2. CASE admitted' = [admitted EXCEPT ![CallOf[r]] = place]
            <4> HIDE DEF place
            <4> QED BY <3>1, <3>2 DEF TypeOK
        <3>3. CASE admitted' = admitted
            BY <3>3 DEF TypeOK
        <3> QED BY <1>2, <3>2, <3>3 DEF Prepare
    <2> QED BY <1>2, <2>2, <2>3, <2>4, <2>5 DEF TypeOK, Prepare, senderVars, financeVars, envVars
<1>3. ASSUME NEW r \in Requests, Put(r) PROVE TypeOK'
    BY <1>3 DEF TypeOK, Put, Goto, PCs, senderVars, financeVars, envVars, moneyVars
<1>4. ASSUME NEW r \in Requests, MarkInventoryUncertain(r) PROVE TypeOK'
    <2>1. disp' \in [Calls -> DispatchRow]
        <3>1. disp \in [Calls -> DispatchRow] /\ CallOf[r] \in Calls /\ disp[CallOf[r]] \in DispatchRow
            BY DEF TypeOK
        <3>2. [disp[CallOf[r]] EXCEPT !.inventory = "uncertain"] \in DispatchRow
            BY <3>1, RowTypes DEF InventoryStates
        <3> QED BY <1>4, <3>1, <3>2 DEF MarkInventoryUncertain
    <2> QED BY <1>4, <2>1 DEF TypeOK, MarkInventoryUncertain, Goto, PCs, senderVars, financeVars, envVars, moneyVars
<1>5. ASSUME NEW r \in Requests, Consume(r) PROVE TypeOK'
    <2>1. CallOf[r] \in Calls /\ OpOfCall(CallOf[r]) \in Ops /\ Exposure[CallOf[r]] \in Nat
        OBVIOUS
    <2>2. /\ alloc' \in [Ops -> [1..Periods -> Allocation]]
          /\ cap' \in [Caps -> CostCap]
        <3>1. CASE ReleaseBudget(OpOfCall(CallOf[r]), Exposure[CallOf[r]])
            BY <2>1, <3>1, BudgetTypes
        <3>2. CASE UNCHANGED moneyVars
            BY <3>2 DEF TypeOK, moneyVars
        <3> QED BY <1>5, <3>1, <3>2 DEF Consume
    <2>3. disp' \in [Calls -> DispatchRow]
        <3>1. disp \in [Calls -> DispatchRow] /\ disp[CallOf[r]] \in DispatchRow
            BY <2>1 DEF TypeOK
        <3>2. [disp[CallOf[r]] EXCEPT !.state = "denied"] \in DispatchRow
            BY <3>1, RowTypes DEF DispatchStates
        <3>3. [state |-> "authorized", inventory |-> "confirmed",
               charged |-> disp[CallOf[r]].charged, obs |-> disp[CallOf[r]].obs] \in DispatchRow
            BY <3>1 DEF DispatchRow, DispatchStates, InventoryStates
        <3> QED BY <1>5, <2>1, <3>1, <3>2, <3>3 DEF Consume
    <2>4. pc' \in [Requests -> PCs]
        <3>1. Goto(r, "done") \/ Goto(r, "allowed")
            BY <1>5 DEF Consume
        <3> QED BY <3>1 DEF TypeOK, Goto, PCs
    <2> QED BY <1>5, <2>2, <2>3, <2>4 DEF TypeOK, Consume, senderVars, financeVars, envVars
<1>6. ASSUME NEW r \in Requests, Answer(r) PROVE TypeOK'
    BY <1>6 DEF TypeOK, Answer, Goto, PCs, senderVars, financeVars, envVars, moneyVars
<1>7. ASSUME NEW r \in Requests, Abandon(r) PROVE TypeOK'
    BY <1>7 DEF TypeOK, Abandon, Goto, PCs, senderVars, financeVars, envVars, moneyVars
<1>8. ASSUME NEW r \in Requests, Send(r) PROVE TypeOK'
    BY <1>8 DEF TypeOK, Send, senderVars, financeVars, envVars, moneyVars
<1>9. ASSUME NEW c \in Calls, Attest(c) PROVE TypeOK'
    BY <1>9 DEF TypeOK, Attest, senderVars, financeVars, envVars, moneyVars
<1>10. ASSUME NEW c \in Calls, Report(c) PROVE TypeOK'
    BY <1>10, ObserveType DEF Report
<1>11. ASSUME NEW c \in Calls, ReconcileUnresolved(c) PROVE TypeOK'
    <2>1. 1 \in 1..MaxSeq
        BY DispatchAssumption
    <2> QED BY <1>11, <2>1, ObserveType DEF ReconcileUnresolved
<1>12. ASSUME NEW c \in Calls, ConfirmNotSent(c) PROVE TypeOK'
    <2>1. OpOfCall(c) \in Ops /\ Exposure[c] \in Nat
        OBVIOUS
    <2>2. /\ alloc' \in [Ops -> [1..Periods -> Allocation]]
          /\ cap' \in [Caps -> CostCap]
        BY <1>12, <2>1, BudgetTypes DEF ConfirmNotSent
    <2>3. disp' \in [Calls -> DispatchRow]
        <3>1. disp \in [Calls -> DispatchRow] /\ disp[c] \in DispatchRow
            BY DEF TypeOK
        <3>2. [disp[c] EXCEPT !.state = "confirmed_not_sent"] \in DispatchRow
            BY <3>1, RowTypes DEF DispatchStates
        <3> QED BY <1>12, <3>1, <3>2 DEF ConfirmNotSent
    <2>4. finance' \in [Ops -> FinanceStates]
        BY <1>12, <2>1 DEF TypeOK, ConfirmNotSent, FinanceAfter, FinanceStates
    <2> QED BY <1>12, <2>2, <2>3, <2>4 DEF TypeOK, ConfirmNotSent, senderVars, financeVars, envVars
<1>13. ASSUME NEW c \in Calls, Lapse(c) PROVE TypeOK'
    BY <1>13 DEF TypeOK, Lapse, senderVars, financeVars, moneyVars
<1>14. ASSUME NEW g \in Grants, Register(g) \/ BeginRevocation(g) \/ Revocation(g) PROVE TypeOK'
    BY <1>14 DEF TypeOK, Register, BeginRevocation, Revocation, senderVars, financeVars, envVars, moneyVars
<1>15. ASSUME NEW o \in Ops, Allocate(o) PROVE TypeOK'
    <2>1. Amount \in Nat /\ NewAllocation(Amount) \in Allocation
        BY DispatchAssumption DEF NewAllocation, NoAllocation, Allocation
    <2>2. alloc' \in [Ops -> [1..Periods -> Allocation]]
        BY <1>15, <2>1 DEF TypeOK, Allocate
    <2>3. pool' \in [1..Periods -> [cap : Nat, allocated : Nat]]
        <3>1. period \in 1..Periods /\ pool \in [1..Periods -> [cap : Nat, allocated : Nat]]
            BY DEF TypeOK
        <3>2. [pool[period] EXCEPT !.allocated = @ + Amount] \in [cap : Nat, allocated : Nat]
            BY <2>1, <3>1
        <3> QED BY <1>15, <3>1, <3>2 DEF Allocate
    <2> QED BY <1>15, <2>2, <2>3 DEF TypeOK, Allocate, FinanceStates, senderVars, financeVars, envVars
<1>16. ASSUME NEW o \in Ops, SettleFinance(o) PROVE TypeOK'
    <2> DEFINE back(p) == ReturnUnspent(alloc[o][p])
               due == {p \in Allocations(o) : alloc[o][p].returned = NotReturned}
    <2>1. \A p \in 1..Periods : alloc[o][p] \in Allocation /\ back(p) \in Nat
        BY AllocationTypes DEF TypeOK
    <2>2. /\ due \subseteq 1..Periods
          /\ \A p \in due : back(p) <= pool[p].allocated
          /\ pool' = [p \in 1..Periods |-> IF p \in due
                        THEN [pool[p] EXCEPT !.allocated = @ - back(p)] ELSE pool[p]]
          /\ alloc' = [alloc EXCEPT ![o] = [p \in 1..Periods |-> IF p \in due
                        THEN [@[p] EXCEPT !.returned = back(p)] ELSE @[p]]]
        BY <1>16 DEF SettleFinance, Allocations
    <2> HIDE DEF back, due
    <2>3. \A p \in 1..Periods : [alloc[o][p] EXCEPT !.returned = back(p)] \in Allocation
        BY <2>1 DEF Allocation
    <2>4. alloc' \in [Ops -> [1..Periods -> Allocation]]
        BY <2>1, <2>2, <2>3 DEF TypeOK
    <2>5. pool' \in [1..Periods -> [cap : Nat, allocated : Nat]]
        <3>1. \A p \in 1..Periods : pool[p] \in [cap : Nat, allocated : Nat]
            BY DEF TypeOK
        <3>2. \A p \in due : [pool[p] EXCEPT !.allocated = @ - back(p)] \in [cap : Nat, allocated : Nat]
            BY <2>1, <2>2, <3>1
        <3> QED BY <2>2, <3>1, <3>2
    <2>6. events' \in [Ops -> SUBSET Transitions]
        BY <1>16 DEF TypeOK, SettleFinance, RecordTransitions, Transitions
    <2> QED BY <1>16, <2>4, <2>5, <2>6 DEF TypeOK, SettleFinance, FinanceStates, senderVars, envVars
<1>17. ASSUME NEW o \in Ops, Fence(o) \/ Unfence(o) \/ EndOperation(o) PROVE TypeOK'
    BY <1>17 DEF TypeOK, Fence, Unfence, EndOperation, senderVars, financeVars, moneyVars
<1>18. ASSUME NEW a \in Attempts, AcceptResult(a) PROVE TypeOK'
    BY <1>18 DEF TypeOK, AcceptResult, senderVars, financeVars, moneyVars
<1>19. ASSUME NEW a \in Attempts, CloseAttempt(a) PROVE TypeOK'
    <2> DEFINE prepared == {c \in Calls : AttemptOf[c] = a /\ disp[c].state = "prepared"}
    <2>1. ExposureSum(prepared) \in Nat
        BY ExposureSums
    <2>2. /\ ReleaseBudget(OpOf[a], ExposureSum(prepared))
          /\ disp' = [c \in Calls |-> IF c \in prepared THEN [disp[c] EXCEPT !.state = "denied"] ELSE disp[c]]
        BY <1>19 DEF CloseAttempt, PreparedDispatches
    <2> HIDE DEF prepared
    <2>3. /\ alloc' \in [Ops -> [1..Periods -> Allocation]]
          /\ cap' \in [Caps -> CostCap]
        BY <2>1, <2>2, BudgetTypes
    <2>4. disp' \in [Calls -> DispatchRow]
        <3>1. \A c \in Calls : disp[c] \in DispatchRow
            BY DEF TypeOK
        <3>2. \A c \in Calls : [disp[c] EXCEPT !.state = "denied"] \in DispatchRow
            BY <3>1, RowTypes DEF DispatchStates
        <3> QED BY <2>2, <3>1, <3>2
    <2>5. fence' \in [Ops -> {"open", "held", "ended"}]
        BY <1>19 DEF TypeOK, CloseAttempt
    <2> QED BY <1>19, <2>3, <2>4, <2>5 DEF TypeOK, CloseAttempt, senderVars, financeVars
<1>20. ASSUME NEW p \in 1..Periods, AdjustPool(p) PROVE TypeOK'
    <2>1. Limits \subseteq Nat
        BY DispatchAssumption
    <2>2. pool' \in [1..Periods -> [cap : Nat, allocated : Nat]]
        <3>1. pool \in [1..Periods -> [cap : Nat, allocated : Nat]]
            BY DEF TypeOK
        <3>2. PICK n \in Limits : pool' = [pool EXCEPT ![p].cap = n]
            BY <1>20 DEF AdjustPool
        <3> QED BY <2>1, <3>1, <3>2
    <2> QED BY <1>20, <2>2 DEF TypeOK, AdjustPool, senderVars, financeVars, envVars, moneyVars
<1>21. ASSUME NEW k \in Caps, SetCostCap(k) PROVE TypeOK'
    <2>1. Limits \subseteq Nat
        BY DispatchAssumption
    <2>2. cap' \in [Caps -> CostCap]
        <3>1. \A n \in Limits : /\ [cap[k] EXCEPT !.limit = n] \in CostCap
                                /\ NewCap(n) \in CostCap
            BY <2>1, ZenonT(40) DEF TypeOK, CostCap, NewCap
        <3> QED BY <1>21, <3>1 DEF TypeOK, SetCostCap
    <2> QED BY <1>21, <2>2 DEF TypeOK, SetCostCap, senderVars, financeVars, envVars
<1>22. CASE NextPeriod
    BY <1>22, DispatchAssumption DEF TypeOK, NextPeriod, senderVars, financeVars, envVars, moneyVars
<1>23. CASE BeginRecovery \/ ReopenAdmission
    BY <1>23 DEF TypeOK, BeginRecovery, ReopenAdmission, senderVars, financeVars, moneyVars
<1> QED
    BY <1>1, <1>2, <1>3, <1>4, <1>5, <1>6, <1>7, <1>8, <1>9, <1>10, <1>11, <1>12, <1>13, <1>14,
       <1>15, <1>16, <1>17, <1>18, <1>19, <1>20, <1>21, <1>22, <1>23 DEF Next, Admit

\* Every variable of the admission protocol keeps its type, for any number
\* of operations, calls, requests, grants, caps and periods.
THEOREM TypeCorrect == Spec => []TypeOK
<1>1. Init => TypeOK
    <2> SUFFICES ASSUME Init PROVE TypeOK
        OBVIOUS
    <2>1. disp \in [Calls -> DispatchRow]
        BY DEF Init, DispatchRow, DispatchStates, InventoryStates
    <2>2. alloc \in [Ops -> [1..Periods -> Allocation]]
        BY DEF Init, NoAllocation, Allocation, NotReturned
    <2>3. pool \in [1..Periods -> [cap : Nat, allocated : Nat]]
        <3>1. Limits \subseteq Nat
            BY DispatchAssumption
        <3>2. pool \in [1..Periods -> [cap : Limits, allocated : {0}]]
            BY DEF Init
        <3>3. ASSUME NEW n \in Limits PROVE [cap |-> n, allocated |-> 0] \in [cap : Nat, allocated : Nat]
            BY <3>1
        <3>4. ASSUME NEW p \in 1..Periods PROVE pool[p] \in [cap : Nat, allocated : Nat]
            <4>1. PICK n \in Limits : pool[p] = [cap |-> n, allocated |-> 0]
                BY <3>2
            <4> QED BY <3>3, <4>1
        <3> QED BY <3>2, <3>4
    <2>4. cap \in [Caps -> CostCap]
        BY DEF Init, NoCap, CostCap
    <2>5. period \in 1..Periods
        BY DispatchAssumption DEF Init
    <2>6. object \subseteq Calls /\ sealed \subseteq Calls /\ lapsed \subseteq Calls /\ told \subseteq Requests
        BY DEF Init
    <2>7. pc \in [Requests -> PCs] /\ sent \in [Calls -> Nat] /\ admitted \in [Calls -> Nat] /\ finance \in [Ops -> FinanceStates]
        BY DEF Init, PCs, FinanceStates
    <2>8. /\ events \in [Ops -> SUBSET Transitions]
          /\ fence \in [Ops -> {"open", "held", "ended"}]
          /\ attempt \in [Attempts -> {"running", "result_accepted", "closed"}]
          /\ grant \in [Grants -> {"absent", "none", "fenced", "converging", "converged"}]
          /\ closedScope \in BOOLEAN
        BY DEF Init
    <2> QED BY <2>1, <2>2, <2>3, <2>4, <2>5, <2>6, <2>7, <2>8 DEF TypeOK
<1>2. TypeOK /\ [Next]_vars => TypeOK'
    BY TypeStep
<1> QED BY <1>1, <1>2, PTL DEF Spec

-----------------------------------------------------------------------------
(* The admission protocol is safe.                                         *)

\* A request told of its permission has ended.
ToldIsDone == \A r \in told : pc[r] = "done"

\* A request consumes a permission only after its obligation is durable.
PutIsDurable == \A r \in Requests : pc[r] = "consume" => CallOf[r] \in object

\* A confirmed call is sealed by its sender, and a sealed call was not sent.
SealedIsNotSent ==
    \A c \in Calls : /\ c \in sealed => sent[c] = 0
                     /\ disp[c].state = "confirmed_not_sent" => c \in sealed

\* A call admitted in the place of another replaces a confirmed one.
ReplacedIsConfirmed ==
    \A c \in Calls : Replaces[c] # NoCall /\ disp[c].state \in Holding \cup Issued =>
        disp[Replaces[c]].state = "confirmed_not_sent"

\* A tool call that may have been sent has a registered, unconverged grant.
SenderIsRegistered ==
    \A c \in Calls : GrantOf[c] # NoGrant /\ disp[c].state \in {"authorized", "unknown"} =>
        grant[GrantOf[c]] \notin {"absent", "converged"}

(***************************************************************************)
(* The inductive invariant.  The permission is single because only a       *)
(* prepared call gets one and issued calls never become prepared again;    *)
(* the other parts say what a request knows between its two transactions   *)
(* (PutIsDurable, ToldIsDone), what an attestation is worth later          *)
(* (SealedIsNotSent), and what was true when the call was prepared and     *)
(* stays true (ReplacedIsConfirmed, SenderIsRegistered).                   *)
(***************************************************************************)
AdmissionInv ==
    /\ SinglePermission
    /\ InventoryBeforePermission
    /\ NotSentCostsNothing
    /\ ClosedAttemptHasNoPrepared
    /\ TerminalHoldsNothing
    /\ ToldIsDone
    /\ PutIsDurable
    /\ SealedIsNotSent
    /\ ReplacedIsConfirmed
    /\ SenderIsRegistered

-----------------------------------------------------------------------------
(* What the updates of a dispatch row change.                              *)

\* Setting the state of one row changes nothing else.
LEMMA StateUpdate ==
    ASSUME TypeOK, NEW c \in Calls, NEW s, disp' = [disp EXCEPT ![c].state = s]
    PROVE  /\ disp'[c].state = s
           /\ \A d \in Calls : d # c => disp'[d] = disp[d]
           /\ \A d \in Calls : disp'[d].charged = disp[d].charged /\ disp'[d].obs = disp[d].obs
<1>1. disp \in [Calls -> DispatchRow] /\ disp[c] \in DispatchRow
    BY DEF TypeOK
<1>2. disp'[c] = [disp[c] EXCEPT !.state = s] /\ \A d \in Calls : d # c => disp'[d] = disp[d]
    BY <1>1
<1>3. disp'[c].state = s /\ disp'[c].charged = disp[c].charged /\ disp'[c].obs = disp[c].obs
    BY <1>1, <1>2 DEF DispatchRow
<1> QED BY <1>2, <1>3

\* The steps that leave what admission decides on alone keep the invariant.
LEMMA QuietStep ==
    ASSUME TypeOK, AdmissionInv,
           UNCHANGED <<disp, object, pc, told, sent, sealed, fence, attempt, grant>>
    PROVE  AdmissionInv'
BY DEF AdmissionInv, SinglePermission, Allowed, InventoryBeforePermission, NotSentCostsNothing, UsageReported,
       ClosedAttemptHasNoPrepared, TerminalHoldsNothing, ToldIsDone, PutIsDurable, SealedIsNotSent,
       ReplacedIsConfirmed, SenderIsRegistered

\* A step that issues no permission, sends nothing and takes no permission
\* back keeps the permissions single.
LEMMA PermissionKept ==
    ASSUME TypeOK, SinglePermission, Allowed' \subseteq Allowed, UNCHANGED sent,
           \A d \in Calls : disp[d].state \in Issued => disp'[d].state \in Issued
    PROVE  SinglePermission'
<1>1. Allowed \subseteq Requests /\ \A q \in Requests : CallOf[q] \in Calls
    BY Bindings DEF Allowed, TypeOK
<1>2. (\A r1, r2 \in Allowed : CallOf[r1] = CallOf[r2] => r1 = r2)'
    BY DEF SinglePermission
<1>3. (\A q \in Allowed : sent[CallOf[q]] = 0 /\ disp[CallOf[q]].state \in Issued)'
    BY <1>1 DEF SinglePermission
<1>4. (\A c \in Calls : sent[c] <= 1 /\ (sent[c] = 1 => disp[c].state \in Issued))'
    BY DEF SinglePermission
<1> QED BY <1>2, <1>3, <1>4 DEF SinglePermission

-----------------------------------------------------------------------------
(* One lemma per action that admission depends on.                         *)

\* The first transaction of Admit.
LEMMA PrepareKeeps ==
    ASSUME TypeOK, AdmissionInv, NEW r \in Requests, Prepare(r)
    PROVE  AdmissionInv'
<1> DEFINE c == CallOf[r]
<1>1. c \in Calls /\ pc[r] = "idle" /\ pc \in [Requests -> PCs]
    BY Bindings DEF Prepare, TypeOK
<1>2. UNCHANGED <<object, told, sent, sealed, fence, attempt, grant>>
    BY DEF Prepare, senderVars, financeVars, envVars
<1>3. \E l \in {"put", "done"} : pc' = [pc EXCEPT ![r] = l]
    BY DEF Prepare, Goto
<1>4. /\ \A q \in Requests : q # r => pc'[q] = pc[q]
      /\ pc'[r] \in {"put", "done"}
    BY <1>1, <1>3
<1>5. /\ \A d \in Calls : d # c => disp'[d] = disp[d]
      /\ \A d \in Calls : disp'[d].charged = disp[d].charged /\ disp'[d].obs = disp[d].obs
      /\ \/ disp'[c].state = disp[c].state
         \/ disp[c].state = "none" /\ disp'[c].state = "denied"
         \/ /\ disp[c].state = "none" /\ disp'[c].state = "prepared"
            /\ fence[OpOfCall(c)] = "open" /\ attempt[AttemptOf[c]] = "running"
            /\ Replaces[c] # NoCall => disp[Replaces[c]].state = "confirmed_not_sent"
    <2>1. CASE UNCHANGED disp
        BY <2>1
    <2>2. CASE disp[c].state = "none" /\ disp' = [disp EXCEPT ![c].state = "denied"]
        BY <1>1, <2>2, StateUpdate
    <2>3. CASE /\ disp[c].state = "none" /\ disp' = [disp EXCEPT ![c].state = "prepared"]
               /\ \E authority \in BOOLEAN : CheckAdmission(c, authority, TRUE)
        <3>1. /\ fence[OpOfCall(c)] = "open" /\ attempt[AttemptOf[c]] = "running"
              /\ Replaces[c] # NoCall => disp[Replaces[c]].state = "confirmed_not_sent"
            BY <2>3 DEF CheckAdmission
        <3> QED BY <1>1, <2>3, <3>1, StateUpdate
    <2> QED BY <2>1, <2>2, <2>3 DEF Prepare
<1> HIDE DEF c
<1>6. SinglePermission'
    <2>1. Allowed' \subseteq Allowed
        BY <1>2, <1>4 DEF Allowed
    <2>2. \A d \in Calls : disp[d].state \in Issued => disp'[d].state \in Issued
        BY <1>5 DEF Issued
    <2> QED BY <1>2, <2>1, <2>2, PermissionKept DEF AdmissionInv
<1>7. InventoryBeforePermission'
    BY <1>1, <1>2, <1>5 DEF AdmissionInv, InventoryBeforePermission
<1>8. NotSentCostsNothing'
    BY <1>1, <1>2, <1>5 DEF AdmissionInv, NotSentCostsNothing, UsageReported
<1>9. ClosedAttemptHasNoPrepared'
    BY <1>1, <1>2, <1>5 DEF AdmissionInv, ClosedAttemptHasNoPrepared
<1>10. TerminalHoldsNothing'
    BY <1>1, <1>2, <1>5 DEF AdmissionInv, TerminalHoldsNothing, Holding, CallsOf
<1>11. ToldIsDone' /\ PutIsDurable'
    BY <1>1, <1>2, <1>4 DEF AdmissionInv, ToldIsDone, PutIsDurable, TypeOK
<1>12. SealedIsNotSent' /\ SenderIsRegistered'
    BY <1>1, <1>2, <1>5 DEF AdmissionInv, SealedIsNotSent, SenderIsRegistered
<1>13. ReplacedIsConfirmed'
    BY <1>1, <1>5, DispatchAssumption DEF AdmissionInv, ReplacedIsConfirmed, Holding, Issued
<1> QED BY <1>6, <1>7, <1>8, <1>9, <1>10, <1>11, <1>12, <1>13 DEF AdmissionInv

\* The inventory write: what is durable only grows.
LEMMA PutKeeps ==
    ASSUME TypeOK, AdmissionInv, NEW r \in Requests, Put(r)
    PROVE  AdmissionInv'
<1>1. UNCHANGED <<disp, told, sent, sealed, fence, attempt, grant>> /\ object \subseteq object'
    BY DEF Put, senderVars, financeVars, envVars
<1>2. /\ \A q \in Requests : q # r => pc'[q] = pc[q]
      /\ pc'[r] \in {"consume", "uncertain"} /\ pc[r] = "put"
      /\ pc'[r] = "consume" => CallOf[r] \in object'
    BY DEF Put, Goto, TypeOK
<1>3. SinglePermission'
    <2>1. Allowed' \subseteq Allowed
        BY <1>1, <1>2 DEF Allowed
    <2> QED BY <1>1, <2>1, PermissionKept DEF AdmissionInv
<1>4. InventoryBeforePermission'
    BY <1>1 DEF AdmissionInv, InventoryBeforePermission
<1>5. ToldIsDone' /\ PutIsDurable'
    BY <1>1, <1>2 DEF AdmissionInv, ToldIsDone, PutIsDurable, TypeOK
<1>6. NotSentCostsNothing' /\ ClosedAttemptHasNoPrepared' /\ TerminalHoldsNothing'
    BY <1>1 DEF AdmissionInv, NotSentCostsNothing, UsageReported, ClosedAttemptHasNoPrepared, TerminalHoldsNothing
<1>7. SealedIsNotSent' /\ ReplacedIsConfirmed' /\ SenderIsRegistered'
    BY <1>1 DEF AdmissionInv, SealedIsNotSent, ReplacedIsConfirmed, SenderIsRegistered
<1> QED BY <1>3, <1>4, <1>5, <1>6, <1>7 DEF AdmissionInv

\* A step that changes no state, usage or charge of a call and ends or
\* answers a request keeps the invariant.
LEMMA RequestEnds ==
    ASSUME TypeOK, AdmissionInv, NEW r \in Requests,
           pc' = [pc EXCEPT ![r] = "done"],
           told' = told \/ (pc[r] = "allowed" /\ told' = told \cup {r}),
           UNCHANGED <<object, sent, sealed, fence, attempt, grant>>,
           \A d \in Calls : /\ disp'[d].state = disp[d].state
                            /\ disp'[d].charged = disp[d].charged
                            /\ disp'[d].obs = disp[d].obs
    PROVE  AdmissionInv'
<1>1. pc'[r] = "done" /\ \A q \in Requests : q # r => pc'[q] = pc[q]
    BY DEF TypeOK
<1>2. SinglePermission'
    <2>1. Allowed' \subseteq Allowed
        BY <1>1 DEF Allowed
    <2> QED BY <2>1, PermissionKept DEF AdmissionInv
<1>3. InventoryBeforePermission'
    BY DEF AdmissionInv, InventoryBeforePermission
<1>4. ToldIsDone' /\ PutIsDurable'
    BY <1>1 DEF AdmissionInv, ToldIsDone, PutIsDurable, TypeOK
<1>5. NotSentCostsNothing' /\ ClosedAttemptHasNoPrepared' /\ TerminalHoldsNothing'
    BY DEF AdmissionInv, NotSentCostsNothing, UsageReported, ClosedAttemptHasNoPrepared, TerminalHoldsNothing, CallsOf
<1>6. SealedIsNotSent' /\ ReplacedIsConfirmed' /\ SenderIsRegistered'
    BY DispatchAssumption, SMTT(30) DEF AdmissionInv, SealedIsNotSent, ReplacedIsConfirmed, SenderIsRegistered
<1> QED BY <1>2, <1>3, <1>4, <1>5, <1>6 DEF AdmissionInv

\* The failed write is recorded, the answer delivered, the request given up.
LEMMA EndKeeps ==
    ASSUME TypeOK, AdmissionInv, NEW r \in Requests,
           MarkInventoryUncertain(r) \/ Answer(r) \/ Abandon(r)
    PROVE  AdmissionInv'
<1>1. /\ pc' = [pc EXCEPT ![r] = "done"]
      /\ told' = told \/ (pc[r] = "allowed" /\ told' = told \cup {r})
      /\ UNCHANGED <<object, sent, sealed, fence, attempt, grant>>
    BY DEF MarkInventoryUncertain, Answer, Abandon, Goto, senderVars, financeVars, envVars
<1>2. \A d \in Calls : /\ disp'[d].state = disp[d].state
                       /\ disp'[d].charged = disp[d].charged
                       /\ disp'[d].obs = disp[d].obs
    <2>1. CASE UNCHANGED disp
        BY <2>1
    <2>2. CASE disp' = [disp EXCEPT ![CallOf[r]].inventory = "uncertain"]
        <3>1. disp \in [Calls -> DispatchRow] /\ CallOf[r] \in Calls
            BY Bindings DEF TypeOK
        <3> QED BY <2>2, <3>1 DEF DispatchRow
    <2> QED BY <2>1, <2>2 DEF MarkInventoryUncertain, Answer, Abandon
<1> QED BY <1>1, <1>2, RequestEnds

\* The second transaction of Admit.
LEMMA ConsumeKeeps ==
    ASSUME TypeOK, AdmissionInv, NEW r \in Requests, Consume(r)
    PROVE  AdmissionInv'
<1> DEFINE c == CallOf[r]
<1>1. c \in Calls /\ pc[r] = "consume" /\ pc \in [Requests -> PCs]
    BY Bindings DEF Consume, TypeOK
<1>2. UNCHANGED <<object, told, sent, sealed, fence, attempt, grant>>
    BY DEF Consume, senderVars, financeVars, envVars
<1>3. CASE UNCHANGED disp /\ Goto(r, "done")
    BY <1>2, <1>3, RequestEnds DEF Goto
<1>4. CASE disp[c].state = "prepared" /\ disp' = [disp EXCEPT ![c].state = "denied"] /\ Goto(r, "done")
    <2>1. /\ disp'[c].state = "denied"
          /\ \A d \in Calls : d # c => disp'[d] = disp[d]
          /\ \A d \in Calls : disp'[d].charged = disp[d].charged /\ disp'[d].obs = disp[d].obs
        BY <1>1, <1>4, StateUpdate
    <2>2. pc'[r] = "done" /\ \A q \in Requests : q # r => pc'[q] = pc[q]
        BY <1>1, <1>4 DEF Goto
    <2> HIDE DEF c
    <2>3. SinglePermission'
        <3>1. Allowed' \subseteq Allowed
            BY <1>2, <2>2 DEF Allowed
        <3>2. \A d \in Calls : disp[d].state \in Issued => disp'[d].state \in Issued
            BY <1>4, <2>1 DEF Issued
        <3> QED BY <1>2, <3>1, <3>2, PermissionKept DEF AdmissionInv
    <2>4. InventoryBeforePermission'
        BY <1>1, <1>2, <2>1 DEF AdmissionInv, InventoryBeforePermission
    <2>5. NotSentCostsNothing' /\ ClosedAttemptHasNoPrepared'
        BY <1>1, <1>2, <2>1 DEF AdmissionInv, NotSentCostsNothing, UsageReported, ClosedAttemptHasNoPrepared
    <2>6. TerminalHoldsNothing'
        BY <1>1, <1>2, <2>1 DEF AdmissionInv, TerminalHoldsNothing, Holding, CallsOf
    <2>7. ToldIsDone' /\ PutIsDurable'
        BY <1>1, <1>2, <2>2 DEF AdmissionInv, ToldIsDone, PutIsDurable, TypeOK
    <2>8. SealedIsNotSent' /\ SenderIsRegistered'
        BY <1>1, <1>2, <2>1 DEF AdmissionInv, SealedIsNotSent, SenderIsRegistered
    <2>9. ReplacedIsConfirmed'
        BY <1>1, <1>4, <2>1, DispatchAssumption DEF AdmissionInv, ReplacedIsConfirmed, Holding, Issued
    <2> QED BY <2>3, <2>4, <2>5, <2>6, <2>7, <2>8, <2>9 DEF AdmissionInv
<1>5. CASE /\ disp[c].state = "prepared" /\ Goto(r, "allowed")
           /\ \E authority \in BOOLEAN : CheckAdmission(c, authority, FALSE)
           /\ disp' = [disp EXCEPT ![c] = [state |-> "authorized", inventory |-> "confirmed",
                                           charged |-> @.charged, obs |-> @.obs]]
    <2>1. /\ disp'[c].state = "authorized"
          /\ \A d \in Calls : d # c => disp'[d] = disp[d]
          /\ \A d \in Calls : disp'[d].charged = disp[d].charged /\ disp'[d].obs = disp[d].obs
        BY <1>1, <1>5 DEF TypeOK
    <2>2. pc'[r] = "allowed" /\ \A q \in Requests : q # r => pc'[q] = pc[q]
        BY <1>1, <1>5 DEF Goto
    <2>3. GrantOf[c] # NoGrant => grant[GrantOf[c]] = "none"
        BY <1>5 DEF CheckAdmission, Permits
    <2> HIDE DEF c
    <2>4. SinglePermission'
        <3>1. Allowed' \subseteq Allowed \cup {r} /\ Allowed' \subseteq Requests
            BY <1>2, <2>2 DEF Allowed, TypeOK
        <3>2. \A q \in Allowed : q \in Requests /\ CallOf[q] \in Calls /\ CallOf[q] # c
                                 /\ sent[CallOf[q]] = 0 /\ disp[CallOf[q]].state \in Issued
            BY <1>5, Bindings DEF AdmissionInv, SinglePermission, Issued, Allowed, TypeOK
        <3>3. c = CallOf[r]
            BY DEF c
        <3>4. sent[c] = 0
            <4>1. disp[c].state \notin Issued
                BY <1>5 DEF Issued
            <4>2. sent[c] \in Nat
                BY <1>1 DEF TypeOK
            <4>3. sent[c] <= 1 /\ sent[c] # 1
                BY <1>1, <4>1 DEF AdmissionInv, SinglePermission
            <4> QED BY <4>2, <4>3
        <3>5. (\A r1, r2 \in Allowed : CallOf[r1] = CallOf[r2] => r1 = r2)'
            BY <3>1, <3>2, <3>3 DEF AdmissionInv, SinglePermission
        <3>6. (\A q \in Allowed : sent[CallOf[q]] = 0 /\ disp[CallOf[q]].state \in Issued)'
            BY <1>2, <2>1, <3>1, <3>2, <3>3, <3>4 DEF Issued
        <3>7. (\A d \in Calls : sent[d] <= 1 /\ (sent[d] = 1 => disp[d].state \in Issued))'
            BY <1>2, <2>1 DEF AdmissionInv, SinglePermission, Issued
        <3> QED BY <3>5, <3>6, <3>7 DEF SinglePermission
    <2>5. InventoryBeforePermission'
        <3>1. c \in object
            BY <1>1 DEF c, AdmissionInv, PutIsDurable
        <3> QED BY <1>2, <2>1, <3>1 DEF AdmissionInv, InventoryBeforePermission
    <2>6. NotSentCostsNothing' /\ ClosedAttemptHasNoPrepared'
        BY <1>1, <1>2, <2>1 DEF AdmissionInv, NotSentCostsNothing, UsageReported, ClosedAttemptHasNoPrepared
    <2>7. TerminalHoldsNothing'
        BY <1>1, <1>2, <1>5, <2>1 DEF AdmissionInv, TerminalHoldsNothing, Holding, CallsOf
    <2>8. ToldIsDone' /\ PutIsDurable'
        BY <1>1, <1>2, <2>2 DEF AdmissionInv, ToldIsDone, PutIsDurable, TypeOK
    <2>9. SealedIsNotSent' /\ SenderIsRegistered'
        BY <1>1, <1>2, <2>1, <2>3 DEF AdmissionInv, SealedIsNotSent, SenderIsRegistered
    <2>10. ReplacedIsConfirmed'
        BY <1>1, <1>5, <2>1, DispatchAssumption DEF AdmissionInv, ReplacedIsConfirmed, Holding, Issued
    <2> QED BY <2>4, <2>5, <2>6, <2>7, <2>8, <2>9, <2>10 DEF AdmissionInv
<1> QED BY <1>3, <1>4, <1>5 DEF Consume

\* The sender uses the permission it was told of.
LEMMA SendKeeps ==
    ASSUME TypeOK, AdmissionInv, NEW r \in Requests, Send(r)
    PROVE  AdmissionInv'
<1> DEFINE c == CallOf[r]
<1>1. c \in Calls /\ r \in told /\ pc[r] = "done" /\ c \notin sealed
    BY Bindings DEF Send, AdmissionInv, ToldIsDone
<1>2. UNCHANGED <<disp, object, pc, sealed, fence, attempt, grant>> /\ told' = told \ {r}
    BY DEF Send, envVars
<1>3. r \in Allowed /\ sent[c] = 0 /\ disp[c].state \in Issued
    BY <1>1 DEF Allowed, AdmissionInv, SinglePermission
<1>4. sent'[c] = 1 /\ \A d \in Calls : d # c => sent'[d] = sent[d]
    BY <1>1, <1>3 DEF Send, TypeOK
<1>5. disp[c].state # "confirmed_not_sent"
    BY <1>1 DEF AdmissionInv, SealedIsNotSent
<1>6. c = CallOf[r]
    OBVIOUS
<1> HIDE DEF c
<1>7. SinglePermission'
    <2>1. Allowed' \subseteq Allowed \ {r}
        BY <1>1, <1>2 DEF Allowed
    <2>2. \A q \in Allowed \ {r} : /\ q \in Requests /\ CallOf[q] \in Calls /\ CallOf[q] # c
                                   /\ sent[CallOf[q]] = 0 /\ disp[CallOf[q]].state \in Issued
        BY <1>3, <1>6, Bindings DEF AdmissionInv, SinglePermission, Allowed, TypeOK
    <2>3. (\A r1, r2 \in Allowed : CallOf[r1] = CallOf[r2] => r1 = r2)'
        BY <2>1 DEF AdmissionInv, SinglePermission
    <2>4. (\A q \in Allowed : sent[CallOf[q]] = 0 /\ disp[CallOf[q]].state \in Issued)'
        BY <1>2, <1>4, <2>1, <2>2
    <2>5. (\A d \in Calls : sent[d] <= 1 /\ (sent[d] = 1 => disp[d].state \in Issued))'
        BY <1>2, <1>3, <1>4 DEF AdmissionInv, SinglePermission
    <2> QED BY <2>3, <2>4, <2>5 DEF SinglePermission
<1>8. InventoryBeforePermission'
    BY <1>1, <1>2, <1>3, <1>4, <1>5 DEF AdmissionInv, InventoryBeforePermission, Issued
<1>9. NotSentCostsNothing'
    BY <1>2, <1>4, <1>5 DEF AdmissionInv, NotSentCostsNothing, UsageReported
<1>10. ClosedAttemptHasNoPrepared' /\ TerminalHoldsNothing'
    BY <1>2 DEF AdmissionInv, ClosedAttemptHasNoPrepared, TerminalHoldsNothing
<1>11. ToldIsDone' /\ PutIsDurable'
    BY <1>2 DEF AdmissionInv, ToldIsDone, PutIsDurable
<1>12. SealedIsNotSent'
    BY <1>1, <1>2, <1>4 DEF AdmissionInv, SealedIsNotSent
<1>13. ReplacedIsConfirmed' /\ SenderIsRegistered'
    BY <1>2 DEF AdmissionInv, ReplacedIsConfirmed, SenderIsRegistered
<1> QED BY <1>7, <1>8, <1>9, <1>10, <1>11, <1>12, <1>13 DEF AdmissionInv

\* The sender attests that a call it never sent will never be sent.
LEMMA AttestKeeps ==
    ASSUME TypeOK, AdmissionInv, NEW c \in Calls, Attest(c)
    PROVE  AdmissionInv'
<1>1. UNCHANGED <<disp, object, pc, told, sent, fence, attempt, grant>> /\ sealed' = sealed \cup {c} /\ sent[c] = 0
    BY DEF Attest, envVars
<1>2. SealedIsNotSent'
    BY <1>1 DEF AdmissionInv, SealedIsNotSent
<1>3. SinglePermission' /\ InventoryBeforePermission' /\ NotSentCostsNothing'
    BY <1>1 DEF AdmissionInv, SinglePermission, Allowed, InventoryBeforePermission, NotSentCostsNothing, UsageReported
<1>4. ClosedAttemptHasNoPrepared' /\ TerminalHoldsNothing' /\ ToldIsDone' /\ PutIsDurable'
    BY <1>1 DEF AdmissionInv, ClosedAttemptHasNoPrepared, TerminalHoldsNothing, ToldIsDone, PutIsDurable
<1>5. ReplacedIsConfirmed' /\ SenderIsRegistered'
    BY <1>1 DEF AdmissionInv, ReplacedIsConfirmed, SenderIsRegistered
<1> QED BY <1>2, <1>3, <1>4, <1>5 DEF AdmissionInv

\* A step that moves one issued or prepared call on, without issuing a
\* permission, and leaves the other calls and every request alone.
LEMMA CallMoves ==
    ASSUME TypeOK, AdmissionInv, NEW c \in Calls,
           UNCHANGED <<object, pc, told, sent, sealed, fence, attempt, grant>>,
           \A d \in Calls : d # c => disp'[d] = disp[d],
           \/ /\ disp[c].state \in {"authorized", "unknown", "observed"}
              /\ disp'[c].state \in {"unknown", "observed"}
              /\ disp[c].state = "observed" => disp'[c].state = "observed"
           \/ /\ disp[c].state \in Holding /\ disp'[c].state = "confirmed_not_sent" /\ c \in sealed
              /\ disp'[c].charged = 0 /\ disp'[c].obs = disp[c].obs /\ ~UsageReported(c)
    PROVE  AdmissionInv'
<1>1. SinglePermission'
    <2>1. Allowed' \subseteq Allowed
        BY DEF Allowed
    <2>2. \A d \in Calls : disp[d].state \in Issued => disp'[d].state \in Issued
        BY DEF Issued
    <2> QED BY <2>1, <2>2, PermissionKept DEF AdmissionInv
<1>2. InventoryBeforePermission'
    BY DEF AdmissionInv, InventoryBeforePermission
<1>3. NotSentCostsNothing'
    <2>1. c \in sealed => sent[c] = 0
        BY DEF AdmissionInv, SealedIsNotSent
    <2> QED BY <2>1 DEF AdmissionInv, NotSentCostsNothing, UsageReported
<1>4. ClosedAttemptHasNoPrepared'
    BY DEF AdmissionInv, ClosedAttemptHasNoPrepared
<1>5. TerminalHoldsNothing'
    BY DEF AdmissionInv, TerminalHoldsNothing, Holding, CallsOf
<1>6. ToldIsDone' /\ PutIsDurable'
    BY DEF AdmissionInv, ToldIsDone, PutIsDurable
<1>7. SealedIsNotSent'
    BY DEF AdmissionInv, SealedIsNotSent
<1>8. ReplacedIsConfirmed'
    BY DispatchAssumption DEF AdmissionInv, ReplacedIsConfirmed, Holding, Issued
<1>9. SenderIsRegistered'
    BY DEF AdmissionInv, SenderIsRegistered
<1> QED BY <1>1, <1>2, <1>3, <1>4, <1>5, <1>6, <1>7, <1>8, <1>9 DEF AdmissionInv

\* An outcome report.
LEMMA ObserveKeeps ==
    ASSUME TypeOK, AdmissionInv, NEW c \in Calls, NEW src, NEW seq, NEW outcome, NEW usage,
           Observe(c, src, seq, outcome, usage)
    PROVE  AdmissionInv'
<1>1. UNCHANGED <<object, pc, told, sent, sealed, fence, attempt, grant>>
    BY DEF Observe, senderVars, financeVars, envVars
<1>2. disp[c].state \in {"authorized", "unknown", "observed"}
    BY DEF Observe
<1>3. \E n, m : disp' = [disp EXCEPT ![c] =
            [state |-> CASE disp[c].state = "observed" -> "observed"
                         [] outcome = "definite" -> "observed"
                         [] OTHER -> "unknown",
             inventory |-> @.inventory, charged |-> n, obs |-> m]]
    BY DEF Observe
<1>4. /\ \A d \in Calls : d # c => disp'[d] = disp[d]
      /\ disp'[c].state = CASE disp[c].state = "observed" -> "observed"
                            [] outcome = "definite" -> "observed"
                            [] OTHER -> "unknown"
    BY <1>3 DEF TypeOK
<1>5. disp'[c].state \in {"unknown", "observed"} /\ (disp[c].state = "observed" => disp'[c].state = "observed")
    BY <1>4
<1> QED BY <1>1, <1>2, <1>4, <1>5, CallMoves

\* Evidence that a call was not sent.
LEMMA ConfirmNotSentKeeps ==
    ASSUME TypeOK, AdmissionInv, NEW c \in Calls, ConfirmNotSent(c)
    PROVE  AdmissionInv'
<1>1. UNCHANGED <<object, pc, told, sent, sealed, fence, attempt, grant>>
    BY DEF ConfirmNotSent, senderVars, financeVars, envVars
<1>2. /\ c \in sealed /\ disp[c].state \in Holding /\ disp[c].charged = 0 /\ ~UsageReported(c)
      /\ disp' = [disp EXCEPT ![c].state = "confirmed_not_sent"]
    BY DEF ConfirmNotSent
<1>3. /\ disp'[c].state = "confirmed_not_sent"
      /\ \A d \in Calls : d # c => disp'[d] = disp[d]
      /\ disp'[c].charged = 0 /\ disp'[c].obs = disp[c].obs
    BY <1>2, StateUpdate
<1> QED BY <1>1, <1>2, <1>3, CallMoves

\* Registration and revocation of a grant.
LEMMA GrantKeeps ==
    ASSUME TypeOK, AdmissionInv, NEW g \in Grants, Register(g) \/ BeginRevocation(g) \/ Revocation(g)
    PROVE  AdmissionInv'
<1>1. UNCHANGED <<disp, object, pc, told, sent, sealed, fence, attempt>>
    BY DEF Register, BeginRevocation, Revocation, senderVars, financeVars, envVars
<1>2. /\ \A h \in Grants : h # g => grant'[h] = grant[h]
      /\ \/ grant[g] = "absent"
         \/ grant'[g] \in {"fenced", "converging"}
         \/ Senders(g) = {}
    BY DEF TypeOK, Register, BeginRevocation, Revocation
<1>3. SenderIsRegistered'
    <2> SUFFICES ASSUME NEW c \in Calls, GrantOf[c] # NoGrant, disp[c].state \in {"authorized", "unknown"}
                 PROVE  grant'[GrantOf[c]] \notin {"absent", "converged"}
        BY <1>1 DEF SenderIsRegistered
    <2>1. GrantOf[c] \in Grants /\ grant[GrantOf[c]] \notin {"absent", "converged"}
        BY DispatchAssumption DEF AdmissionInv, SenderIsRegistered
    <2>2. CASE GrantOf[c] # g
        BY <1>2, <2>1, <2>2
    <2>3. CASE GrantOf[c] = g
        <3>1. c \in Senders(g)
            BY <2>3 DEF Senders
        <3> QED BY <1>2, <2>1, <2>3, <3>1
    <2> QED BY <2>2, <2>3
<1>4. SinglePermission' /\ InventoryBeforePermission' /\ NotSentCostsNothing'
    BY <1>1 DEF AdmissionInv, SinglePermission, Allowed, InventoryBeforePermission, NotSentCostsNothing, UsageReported
<1>5. ClosedAttemptHasNoPrepared' /\ TerminalHoldsNothing' /\ ToldIsDone' /\ PutIsDurable'
    BY <1>1 DEF AdmissionInv, ClosedAttemptHasNoPrepared, TerminalHoldsNothing, ToldIsDone, PutIsDurable
<1>6. SealedIsNotSent' /\ ReplacedIsConfirmed'
    BY <1>1 DEF AdmissionInv, SealedIsNotSent, ReplacedIsConfirmed
<1> QED BY <1>3, <1>4, <1>5, <1>6 DEF AdmissionInv

\* The lifecycle of an operation and of its attempts, as admission sees it.
LEMMA LifecycleKeeps ==
    ASSUME TypeOK, AdmissionInv,
           UNCHANGED <<disp, object, pc, told, sent, sealed, grant>>,
           \A o \in Ops : fence'[o] = "ended" => fence[o] = "ended" \/ ~Unresolved(o),
           \A a \in Attempts : attempt'[a] = "closed" => attempt[a] = "closed"
    PROVE  AdmissionInv'
<1>1. TerminalHoldsNothing'
    BY DEF AdmissionInv, TerminalHoldsNothing, Unresolved, CallsOf
<1>2. ClosedAttemptHasNoPrepared'
    BY DispatchAssumption DEF AdmissionInv, ClosedAttemptHasNoPrepared
<1>3. SinglePermission' /\ InventoryBeforePermission' /\ NotSentCostsNothing'
    BY DEF AdmissionInv, SinglePermission, Allowed, InventoryBeforePermission, NotSentCostsNothing, UsageReported
<1>4. ToldIsDone' /\ PutIsDurable' /\ SealedIsNotSent' /\ ReplacedIsConfirmed' /\ SenderIsRegistered'
    BY DEF AdmissionInv, ToldIsDone, PutIsDurable, SealedIsNotSent, ReplacedIsConfirmed, SenderIsRegistered
<1> QED BY <1>1, <1>2, <1>3, <1>4 DEF AdmissionInv

\* The close of an attempt denies what it prepared.
LEMMA CloseKeeps ==
    ASSUME TypeOK, AdmissionInv, NEW a \in Attempts, CloseAttempt(a)
    PROVE  AdmissionInv'
<1> DEFINE o == OpOf[a]
           prepared == {c \in Calls : AttemptOf[c] = a /\ disp[c].state = "prepared"}
<1>1. UNCHANGED <<object, pc, told, sent, sealed, grant>> /\ o \in Ops
    BY Bindings DEF CloseAttempt, senderVars, financeVars
<1>2. /\ \A q \in Ops : q # o => fence'[q] = fence[q]
      /\ fence'[o] = "ended" => ~Unresolved(o)
      /\ attempt' = [attempt EXCEPT ![a] = "closed"]
      /\ disp' = [c \in Calls |-> IF c \in prepared THEN [disp[c] EXCEPT !.state = "denied"] ELSE disp[c]]
    BY <1>1 DEF CloseAttempt, PreparedDispatches, TypeOK
<1>3. /\ \A d \in Calls \ prepared : disp'[d] = disp[d]
      /\ \A d \in prepared : disp'[d].state = "denied" /\ disp[d].state = "prepared"
    BY <1>2 DEF TypeOK, DispatchRow
<1>4. \A b \in Attempts : attempt'[b] = IF b = a THEN "closed" ELSE attempt[b]
    BY <1>2 DEF TypeOK
<1>5. SinglePermission'
    <2>1. Allowed' \subseteq Allowed
        BY <1>1 DEF Allowed
    <2>2. \A d \in Calls : disp[d].state \in Issued => disp'[d].state \in Issued
        BY <1>3 DEF Issued
    <2> QED BY <1>1, <2>1, <2>2, PermissionKept DEF AdmissionInv
<1>6. ClosedAttemptHasNoPrepared'
    BY <1>3, <1>4, DispatchAssumption DEF AdmissionInv, ClosedAttemptHasNoPrepared
<1> HIDE DEF o, prepared
<1>7. InventoryBeforePermission'
    BY <1>1, <1>3 DEF AdmissionInv, InventoryBeforePermission
<1>8. NotSentCostsNothing'
    BY <1>1, <1>3 DEF AdmissionInv, NotSentCostsNothing, UsageReported
<1>9. TerminalHoldsNothing'
    <2> SUFFICES ASSUME NEW q \in Ops, fence'[q] = "ended", NEW c \in CallsOf(q)
                 PROVE  disp'[c].state \notin Holding
        BY DEF TerminalHoldsNothing, CallsOf
    <2>1. c \in Calls /\ disp[c].state \notin Holding
        BY <1>2 DEF AdmissionInv, TerminalHoldsNothing, Unresolved, CallsOf
    <2> QED BY <1>3, <2>1 DEF Holding
<1>10. ToldIsDone' /\ PutIsDurable'
    BY <1>1 DEF AdmissionInv, ToldIsDone, PutIsDurable
<1>11. SealedIsNotSent' /\ SenderIsRegistered'
    BY <1>1, <1>3 DEF AdmissionInv, SealedIsNotSent, SenderIsRegistered
<1>12. ReplacedIsConfirmed'
    BY <1>3, DispatchAssumption DEF AdmissionInv, ReplacedIsConfirmed, Holding, Issued
<1> QED BY <1>5, <1>6, <1>7, <1>8, <1>9, <1>10, <1>11, <1>12 DEF AdmissionInv

-----------------------------------------------------------------------------
(* The theorems.                                                           *)

\* Every step keeps the inductive invariant: one step per action.
LEMMA AdmissionStep ==
    ASSUME TypeOK, AdmissionInv, [Next]_vars
    PROVE  AdmissionInv'
<1>1. CASE UNCHANGED vars
    BY <1>1, QuietStep DEF vars, senderVars, financeVars, envVars
<1>2. ASSUME NEW r \in Requests, Admit(r) PROVE AdmissionInv'
    BY <1>2, PrepareKeeps, PutKeeps, EndKeeps, ConsumeKeeps DEF Admit
<1>3. ASSUME NEW r \in Requests, Send(r) PROVE AdmissionInv'
    BY <1>3, SendKeeps
<1>4. ASSUME NEW c \in Calls, Attest(c) PROVE AdmissionInv'
    BY <1>4, AttestKeeps
<1>5. ASSUME NEW c \in Calls, Report(c) \/ ReconcileUnresolved(c) PROVE AdmissionInv'
    BY <1>5, ObserveKeeps DEF Report, ReconcileUnresolved
<1>6. ASSUME NEW c \in Calls, ConfirmNotSent(c) PROVE AdmissionInv'
    BY <1>6, ConfirmNotSentKeeps
<1>7. ASSUME NEW c \in Calls, Lapse(c) PROVE AdmissionInv'
    BY <1>7, QuietStep DEF Lapse, senderVars, financeVars
<1>8. ASSUME NEW g \in Grants, Register(g) \/ BeginRevocation(g) \/ Revocation(g) PROVE AdmissionInv'
    BY <1>8, GrantKeeps
<1>9. ASSUME NEW o \in Ops, Allocate(o) \/ SettleFinance(o) PROVE AdmissionInv'
    BY <1>9, QuietStep DEF Allocate, SettleFinance, senderVars, financeVars, envVars
<1>10. ASSUME NEW o \in Ops, Fence(o) \/ Unfence(o) \/ EndOperation(o) PROVE AdmissionInv'
    <2>1. UNCHANGED <<disp, object, pc, told, sent, sealed, attempt, grant>>
        BY <1>10 DEF Fence, Unfence, EndOperation, senderVars, financeVars
    <2>2. \A q \in Ops : fence'[q] = "ended" => fence[q] = "ended" \/ ~Unresolved(q)
        BY <1>10 DEF Fence, Unfence, EndOperation, TypeOK
    <2> QED BY <2>1, <2>2, LifecycleKeeps
<1>11. ASSUME NEW a \in Attempts, AcceptResult(a) PROVE AdmissionInv'
    <2>1. UNCHANGED <<disp, object, pc, told, sent, sealed, fence, grant>>
        BY <1>11 DEF AcceptResult, senderVars, financeVars
    <2>2. \A b \in Attempts : attempt'[b] = "closed" => attempt[b] = "closed"
        BY <1>11 DEF AcceptResult, TypeOK
    <2> QED BY <2>1, <2>2, LifecycleKeeps
<1>12. ASSUME NEW a \in Attempts, CloseAttempt(a) PROVE AdmissionInv'
    BY <1>12, CloseKeeps
<1>13. ASSUME NEW p \in 1..Periods, AdjustPool(p) PROVE AdmissionInv'
    BY <1>13, QuietStep DEF AdjustPool, senderVars, financeVars, envVars
<1>14. ASSUME NEW k \in Caps, SetCostCap(k) PROVE AdmissionInv'
    BY <1>14, QuietStep DEF SetCostCap, senderVars, financeVars, envVars
<1>15. CASE NextPeriod
    BY <1>15, QuietStep DEF NextPeriod, senderVars, financeVars, envVars
<1>16. CASE BeginRecovery \/ ReopenAdmission
    <2>1. UNCHANGED <<disp, object, pc, told, sent, sealed, attempt, grant>>
        BY <1>16 DEF BeginRecovery, ReopenAdmission, senderVars, financeVars
    <2>2. \A q \in Ops : fence'[q] = "ended" => fence[q] = "ended"
        BY <1>16 DEF BeginRecovery, ReopenAdmission, TypeOK
    <2> QED BY <2>1, <2>2, LifecycleKeeps
<1> QED BY <1>1, <1>2, <1>3, <1>4, <1>5, <1>6, <1>7, <1>8, <1>9, <1>10, <1>11, <1>12, <1>13, <1>14,
       <1>15, <1>16 DEF Next

\* The inductive invariant holds in every reachable state.
LEMMA AdmissionInvariant == Spec => [](TypeOK /\ AdmissionInv)
<1>1. Init => AdmissionInv
    <2> SUFFICES ASSUME Init PROVE AdmissionInv
        OBVIOUS
    <2>1. /\ \A c \in Calls : disp[c].state = "none" /\ sent[c] = 0
          /\ Allowed = {} /\ told = {} /\ sealed = {}
          /\ \A r \in Requests : pc[r] = "idle"
        BY DEF Init, Allowed
    <2>2. SinglePermission /\ InventoryBeforePermission /\ NotSentCostsNothing
        BY <2>1 DEF SinglePermission, InventoryBeforePermission, NotSentCostsNothing
    <2>3. ClosedAttemptHasNoPrepared /\ TerminalHoldsNothing /\ ToldIsDone /\ PutIsDurable
        BY <2>1 DEF ClosedAttemptHasNoPrepared, TerminalHoldsNothing, ToldIsDone, PutIsDurable, CallsOf, Holding
    <2>4. SealedIsNotSent /\ ReplacedIsConfirmed /\ SenderIsRegistered
        BY <2>1 DEF SealedIsNotSent, ReplacedIsConfirmed, SenderIsRegistered, Holding, Issued
    <2> QED BY <2>2, <2>3, <2>4 DEF AdmissionInv
<1>2. TypeOK /\ AdmissionInv /\ [Next]_vars => AdmissionInv'
    BY AdmissionStep
<1> QED BY <1>1, <1>2, TypeCorrect, PTL DEF Spec

\* A permission is single-use: over all requests, replicas, retries and lost
\* answers at most one request is told, at most one send follows.
THEOREM PermissionIsSingle == Spec => []SinglePermission
<1>1. TypeOK /\ AdmissionInv => SinglePermission
    BY DEF AdmissionInv
<1> QED BY <1>1, AdmissionInvariant, PTL

\* Whatever was or may have been sent is in the inventory.
THEOREM InventoryFirst == Spec => []InventoryBeforePermission
<1>1. TypeOK /\ AdmissionInv => InventoryBeforePermission
    BY DEF AdmissionInv
<1> QED BY <1>1, AdmissionInvariant, PTL

\* A call and its replacement are never both sent.
THEOREM ReplacementIsSafe == Spec => []NoDoubleSend
<1>1. TypeOK /\ AdmissionInv => NoDoubleSend
    <2> SUFFICES ASSUME TypeOK, AdmissionInv, NEW c \in Calls, Replaces[c] # NoCall, sent[c] > 0
                 PROVE  sent[Replaces[c]] = 0
        BY DEF NoDoubleSend
    <2>1. disp[c].state \in Issued
        <3>1. sent[c] \in Nat /\ sent[c] <= 1
            BY DEF TypeOK, AdmissionInv, SinglePermission
        <3>2. sent[c] = 1
            BY <3>1
        <3> QED BY <3>2 DEF AdmissionInv, SinglePermission
    <2>2. Replaces[c] \in Calls /\ disp[Replaces[c]].state = "confirmed_not_sent"
        BY <2>1, DispatchAssumption DEF AdmissionInv, ReplacedIsConfirmed
    <2> QED BY <2>2 DEF AdmissionInv, SealedIsNotSent
<1> QED BY <1>1, AdmissionInvariant, PTL

\* A call confirmed not sent was not sent and cost nothing.
THEOREM ConfirmedCostsNothing == Spec => []NotSentCostsNothing
<1>1. TypeOK /\ AdmissionInv => NotSentCostsNothing
    BY DEF AdmissionInv
<1> QED BY <1>1, AdmissionInvariant, PTL

\* A closed attempt has no call waiting for a permission.
THEOREM CloseIsComplete == Spec => []ClosedAttemptHasNoPrepared
<1>1. TypeOK /\ AdmissionInv => ClosedAttemptHasNoPrepared
    BY DEF AdmissionInv
<1> QED BY <1>1, AdmissionInvariant, PTL

\* A terminal operation holds no exposure.
THEOREM TerminalIsQuiet == Spec => []TerminalHoldsNothing
<1>1. TypeOK /\ AdmissionInv => TerminalHoldsNothing
    BY DEF AdmissionInv
<1> QED BY <1>1, AdmissionInvariant, PTL

\* A converged revocation is final.
THEOREM BarrierIsFinal == Spec => []ConvergedIsQuiet
<1>1. TypeOK /\ AdmissionInv => ConvergedIsQuiet
    BY DEF AdmissionInv, SenderIsRegistered, ConvergedIsQuiet
<1> QED BY <1>1, AdmissionInvariant, PTL

\* A step that admits a call passes the checks and changes no other row.
Admits(c) ==
    /\ disp' = [disp EXCEPT ![c].state = "prepared"]
    /\ \E authority \in BOOLEAN : CheckAdmission(c, authority, TRUE)

\* What any step may do to the state of a call.
StateMoves(c) ==
    \/ disp'[c].state = disp[c].state
    \/ disp[c].state = "none" /\ disp'[c].state = "denied"
    \/ disp[c].state = "none" /\ disp'[c].state = "prepared" /\ Admits(c)
    \/ disp[c].state = "prepared" /\ disp'[c].state \in {"denied", "confirmed_not_sent"}
    \/ /\ disp[c].state = "prepared" /\ disp'[c].state = "authorized"
       /\ GrantOf[c] # NoGrant => grant[GrantOf[c]] = "none"
    \/ /\ disp[c].state \in {"authorized", "unknown"}
       /\ disp'[c].state \in {"unknown", "observed", "confirmed_not_sent"}

\* Every step moves every call along StateMoves: one step per action.
LEMMA StateStep ==
    ASSUME TypeOK, Next, NEW c \in Calls
    PROVE  StateMoves(c)
<1>1. CASE UNCHANGED disp
    BY <1>1 DEF StateMoves
<1>2. ASSUME NEW r \in Requests, Prepare(r) PROVE StateMoves(c)
    <2>1. CallOf[r] \in Calls
        BY Bindings
    <2>2. CASE /\ disp[CallOf[r]].state = "none"
               /\ disp' = [disp EXCEPT ![CallOf[r]].state = "denied"]
        BY <2>1, <2>2, StateUpdate DEF StateMoves
    <2>3. CASE /\ disp[CallOf[r]].state = "none"
               /\ \E authority \in BOOLEAN : CheckAdmission(CallOf[r], authority, TRUE)
               /\ disp' = [disp EXCEPT ![CallOf[r]].state = "prepared"]
        <3>1. Admits(CallOf[r])
            BY <2>3 DEF Admits
        <3> QED BY <2>1, <2>3, <3>1, StateUpdate DEF StateMoves
    <2> QED BY <1>1, <1>2, <2>2, <2>3 DEF Prepare
<1>3. ASSUME NEW r \in Requests, MarkInventoryUncertain(r) PROVE StateMoves(c)
    <2>1. CASE disp' = [disp EXCEPT ![CallOf[r]].inventory = "uncertain"]
        <3>1. disp \in [Calls -> DispatchRow]
            BY DEF TypeOK
        <3>2. disp'[c].state = disp[c].state
            BY <2>1, <3>1 DEF DispatchRow
        <3> QED BY <3>2 DEF StateMoves
    <2> QED BY <1>1, <1>3, <2>1 DEF MarkInventoryUncertain
<1>4. ASSUME NEW r \in Requests, Consume(r) PROVE StateMoves(c)
    <2>1. CallOf[r] \in Calls /\ disp \in [Calls -> DispatchRow]
        BY Bindings DEF TypeOK
    <2>2. CASE disp[CallOf[r]].state = "prepared" /\ disp' = [disp EXCEPT ![CallOf[r]].state = "denied"]
        BY <2>1, <2>2, StateUpdate DEF StateMoves
    <2>3. CASE /\ disp[CallOf[r]].state = "prepared"
               /\ \E authority \in BOOLEAN : CheckAdmission(CallOf[r], authority, FALSE)
               /\ disp' = [disp EXCEPT ![CallOf[r]] = [state |-> "authorized", inventory |-> "confirmed",
                                                       charged |-> @.charged, obs |-> @.obs]]
        <3>1. GrantOf[CallOf[r]] # NoGrant => grant[GrantOf[CallOf[r]]] = "none"
            BY <2>3 DEF CheckAdmission, Permits
        <3>2. disp'[c].state = IF c = CallOf[r] THEN "authorized" ELSE disp[c].state
            BY <2>1, <2>3
        <3> QED BY <2>3, <3>1, <3>2 DEF StateMoves
    <2> QED BY <1>1, <1>4, <2>2, <2>3 DEF Consume
<1>5. ASSUME NEW d \in Calls, NEW src, NEW seq, NEW outcome, NEW usage, Observe(d, src, seq, outcome, usage)
      PROVE  StateMoves(c)
    <2>1. disp[d].state \in {"authorized", "unknown", "observed"}
        BY <1>5 DEF Observe
    <2>2. \E n, m : disp' = [disp EXCEPT ![d] =
            [state |-> CASE disp[d].state = "observed" -> "observed"
                         [] outcome = "definite" -> "observed"
                         [] OTHER -> "unknown",
             inventory |-> @.inventory, charged |-> n, obs |-> m]]
        BY <1>5 DEF Observe
    <2>3. disp'[c].state = IF c # d THEN disp[c].state
                           ELSE CASE disp[d].state = "observed" -> "observed"
                                  [] outcome = "definite" -> "observed"
                                  [] OTHER -> "unknown"
        BY <2>2 DEF TypeOK
    <2> QED BY <2>1, <2>3 DEF StateMoves
<1>6. ASSUME NEW d \in Calls, ConfirmNotSent(d) PROVE StateMoves(c)
    <2>1. disp[d].state \in Holding /\ disp' = [disp EXCEPT ![d].state = "confirmed_not_sent"]
        BY <1>6 DEF ConfirmNotSent
    <2> QED BY <2>1, StateUpdate DEF StateMoves, Holding
<1>7. ASSUME NEW a \in Attempts, CloseAttempt(a) PROVE StateMoves(c)
    <2>1. \/ disp'[c] = disp[c]
          \/ disp[c].state = "prepared" /\ disp'[c] = [disp[c] EXCEPT !.state = "denied"]
        BY <1>7 DEF CloseAttempt, PreparedDispatches
    <2> QED BY <2>1 DEF StateMoves, TypeOK, DispatchRow
<1>8. ASSUME NEW r \in Requests, Put(r) \/ Answer(r) \/ Abandon(r) \/ Send(r) PROVE StateMoves(c)
    BY <1>1, <1>8 DEF Put, Answer, Abandon, Send
<1>9. ASSUME NEW d \in Calls, Report(d) \/ ReconcileUnresolved(d) PROVE StateMoves(c)
    BY <1>5, <1>9 DEF Report, ReconcileUnresolved
<1>10. ASSUME NEW d \in Calls, Attest(d) \/ Lapse(d) PROVE StateMoves(c)
    BY <1>1, <1>10 DEF Attest, Lapse
<1>11. ASSUME NEW g \in Grants, Register(g) \/ BeginRevocation(g) \/ Revocation(g) PROVE StateMoves(c)
    BY <1>1, <1>11 DEF Register, BeginRevocation, Revocation
<1>12. ASSUME NEW o \in Ops, Allocate(o) \/ SettleFinance(o) \/ Fence(o) \/ Unfence(o) \/ EndOperation(o)
       PROVE  StateMoves(c)
    BY <1>1, <1>12 DEF Allocate, SettleFinance, Fence, Unfence, EndOperation
<1>13. ASSUME NEW a \in Attempts, AcceptResult(a) PROVE StateMoves(c)
    BY <1>1, <1>13 DEF AcceptResult
<1>14. CASE (\E p \in 1..Periods : AdjustPool(p)) \/ (\E k \in Caps : SetCostCap(k)) \/ NextPeriod
       \/ BeginRecovery \/ ReopenAdmission
    BY <1>1, <1>14 DEF AdjustPool, SetCostCap, NextPeriod, BeginRecovery, ReopenAdmission
<1> QED
    BY <1>2, <1>3, <1>4, <1>6, <1>7, <1>8, <1>9, <1>10, <1>11, <1>12, <1>13, <1>14 DEF Next, Admit

\* A settled, denied or confirmed call keeps its state and a permission is
\* never taken back, whatever reports, retries and closes follow.
THEOREM OutcomesAreFinal == Spec => OutcomeFinal
<1> DEFINE Final == \A c \in Calls :
        /\ disp[c].state \in {"denied", "observed", "confirmed_not_sent"} => disp'[c].state = disp[c].state
        /\ disp[c].state \in {"authorized", "unknown"} => disp'[c].state \in Issued
<1>1. TypeOK /\ [Next]_vars => [Final]_vars
    <2> SUFFICES ASSUME TypeOK, Next PROVE Final
        OBVIOUS
    <2> QED BY StateStep DEF StateMoves, Issued
<1> QED BY <1>1, TypeCorrect, PTL DEF Spec, OutcomeFinal

\* No permission is consumed after a revocation fence commits.
THEOREM FenceStopsPermissions == Spec => NoPermissionAfterFence
<1> DEFINE Unfenced == \A c \in Calls :
        disp[c].state # "authorized" /\ disp'[c].state = "authorized" /\ GrantOf[c] # NoGrant
            => grant[GrantOf[c]] = "none"
<1>1. TypeOK /\ [Next]_vars => [Unfenced]_vars
    <2> SUFFICES ASSUME TypeOK, Next PROVE Unfenced
        OBVIOUS
    <2> QED BY StateStep DEF StateMoves
<1> QED BY <1>1, TypeCorrect, PTL DEF Spec, NoPermissionAfterFence
=============================================================================
