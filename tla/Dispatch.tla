------------------------------ MODULE Dispatch ------------------------------
(***************************************************************************)
(* The single-use admission of model and tool calls, their metering and    *)
(* the money behind them (internal/application/dispatch.go, grants.go and  *)
(* finance.go over internal/domain/dispatch.go and budget.go).             *)
(*                                                                         *)
(* A request for one call runs on any replica, in steps between which      *)
(* other requests, closes, revocations, reports and operator commands are  *)
(* interleaved and at each of which the process may die:                   *)
(*                                                                         *)
(*   Prepare   one transaction: reserve the exposure, record PREPARED      *)
(*   Put       write the obligation to the inventory, outside every lock   *)
(*   Consume   one transaction: revalidate, consume the permission         *)
(*   Answer    deliver dispatch_allowed=true to the sender                 *)
(*                                                                         *)
(* Every transaction is one action: the code holds the row locks of        *)
(* everything it reads and writes until commit.  The identifiers a request *)
(* binds (operation, attempt, grant, exposure, replaced call) are          *)
(* constants of the call: Dispatch.Binds refuses a request that reenters a *)
(* call with any other binding, so a call has exactly one.                 *)
(***************************************************************************)
EXTENDS Budget, FiniteSets, FiniteSetsExt

CONSTANTS
    Ops,            \* operations of one tenant
    Attempts,       \* attempts
    Calls,          \* call identities (owner and call id)
    Requests,       \* admission requests, each one run of Admit
    Grants,         \* MCP grant revisions of tool calls
    Caps,           \* scopes a cost cap may be set for
    Sources,        \* who reports usage
    Query,          \* the source of original-identity queries
    NoCall, NoGrant,
    OpOf,           \* attempt -> operation
    AttemptOf,      \* call -> attempt
    CallOf,         \* request -> call
    GrantOf,        \* call -> grant, NoGrant for a model call
    Replaces,       \* call -> the call it supersedes, NoCall for none
    Exposure,       \* call -> declared maximum exposure
    Price, Scale,   \* call -> price of Scale units of its usage
    CapOps,         \* cost cap -> operations it binds
    CapCounted,     \* cost cap -> tenant or project (TRUE) or operation cap
    CapsRequired,   \* FALSE in a development deployment
    Periods,        \* number of budget periods
    Amount,         \* the amount an allocation asks for
    Limits,         \* values an operator gives to pools and caps
    MayLapse,       \* calls whose deadline, lease, instance, ... may lapse
    RecoveryRuns,   \* TRUE if recovery runs may close the tenant's scope
    ReconcileLimit, \* calls one pass of the reconciler asks about
    Usages,         \* usage a reporter may state
    MaxSeq, MaxUsage

ASSUME DispatchAssumption ==
    /\ IsFiniteSet(Ops) /\ IsFiniteSet(Calls)
    /\ OpOf \in [Attempts -> Ops]
    /\ AttemptOf \in [Calls -> Attempts]
    /\ CallOf \in [Requests -> Calls]
    /\ GrantOf \in [Calls -> Grants \cup {NoGrant}]
    /\ Replaces \in [Calls -> Calls \cup {NoCall}]
    /\ Exposure \in [Calls -> Nat]
    /\ Price \in [Calls -> Prices]
    /\ Scale \in Nat \ {0}
    /\ CapOps \in [Caps -> SUBSET Ops]
    /\ CapCounted \in [Caps -> BOOLEAN]
    /\ CapsRequired \in BOOLEAN
    /\ Periods \in Nat \ {0}
    /\ Amount \in Nat \ {0}
    /\ Limits \subseteq Nat
    /\ MayLapse \subseteq Calls
    /\ RecoveryRuns \in BOOLEAN
    /\ ReconcileLimit \in Nat \ {0}
    /\ MaxSeq \in Nat \ {0} /\ MaxUsage \in Nat
    /\ Usages \subseteq [input : 0..MaxUsage, cached : 0..MaxUsage]
    /\ NoCall \notin Calls /\ NoGrant \notin Grants
    /\ Query \notin Sources

\* What calls may cost together.
ExposureSum(C) == SumFunctionOnSet(Exposure, C)

VARIABLES
    disp,       \* dispatch rows: call -> record
    object,     \* calls whose obligation is durable in the inventory
    pc,         \* where each request is
    told,       \* requests that received dispatch_allowed=true
    sent,       \* call -> physical sends to the provider
    sealed,     \* calls whose sender attests it never sent and never will
    fence,      \* operation -> open | held | ended
    finance,    \* operation -> finance state
    events,     \* operation -> recorded transitions that may be asked for again
    attempt,    \* attempt -> running | result_accepted | closed
    lapsed,     \* calls whose epoch, instance, deadline, lease or price lapsed
    closedScope,\* the tenant's admission is closed by a recovery run
    grant,      \* grant revision -> revocation state, absent before any
    alloc,      \* operation -> period -> allocation
    pool,       \* period -> [cap, allocated]
    cap,        \* cost cap scope -> cost cap
    period,     \* the current budget period
    admitted    \* call -> its place in the order of admission, 0 before

envVars == <<fence, attempt, lapsed, closedScope>>
senderVars == <<told, sent, sealed>>
moneyVars == <<alloc, cap>>
financeVars == <<finance, events>>
vars == <<disp, object, pc, senderVars, envVars, financeVars, grant, moneyVars, pool, period, admitted>>

-----------------------------------------------------------------------------
DispatchStates == {"none", "prepared", "authorized", "denied", "observed",
                   "unknown", "confirmed_not_sent"}
InventoryStates == {"pending", "confirmed", "uncertain"}
FinanceStates == {"not_funded", "funded", "settled", "exposure_unknown"}
Transitions == Calls \cup {"finance:settled"}
PCs == {"idle", "put", "uncertain", "consume", "allowed", "done"}

Issued == {"authorized", "observed", "unknown", "confirmed_not_sent"}
Holding == {"prepared", "authorized", "unknown"}     \* holds its exposure

NoUsage == [input |-> -1, cached |-> -1]    \* a report that carries no counters
Reports == [src : Sources \cup {Query}, seq : 1..MaxSeq, usage : {NoUsage} \cup Usages]

DispatchRow == [state : DispatchStates, inventory : InventoryStates, charged : Nat, obs : SUBSET Reports]

\* Every variable has its type.
TypeOK ==
    /\ disp \in [Calls -> DispatchRow]
    /\ object \subseteq Calls
    /\ pc \in [Requests -> PCs]
    /\ told \subseteq Requests
    /\ sent \in [Calls -> Nat]
    /\ sealed \subseteq Calls
    /\ fence \in [Ops -> {"open", "held", "ended"}]
    /\ finance \in [Ops -> FinanceStates]
    /\ events \in [Ops -> SUBSET Transitions]
    /\ attempt \in [Attempts -> {"running", "result_accepted", "closed"}]
    /\ lapsed \subseteq Calls
    /\ closedScope \in BOOLEAN
    /\ grant \in [Grants -> {"absent", "none", "fenced", "converging", "converged"}]
    /\ alloc \in [Ops -> [1..Periods -> Allocation]]
    /\ pool \in [1..Periods -> [cap : Nat, allocated : Nat]]
    /\ cap \in [Caps -> CostCap]
    /\ period \in 1..Periods
    /\ admitted \in [Calls -> Nat]

Init ==
    /\ disp = [c \in Calls |-> [state |-> "none", inventory |-> "pending", charged |-> 0, obs |-> {}]]
    /\ object = {}
    /\ pc = [r \in Requests |-> "idle"]
    /\ told = {} /\ sealed = {}
    /\ sent = [c \in Calls |-> 0]
    /\ fence = [o \in Ops |-> "open"]
    /\ finance = [o \in Ops |-> "not_funded"]
    /\ events = [o \in Ops |-> {}]
    /\ attempt = [a \in Attempts |-> "running"]
    /\ lapsed = {} /\ closedScope = FALSE
    /\ grant = [g \in Grants |-> "absent"]
    /\ alloc = [o \in Ops |-> [p \in 1..Periods |-> NoAllocation]]
    /\ pool \in [1..Periods -> [cap : Limits, allocated : {0}]]
    /\ cap = [k \in Caps |-> NoCap]
    /\ period = 1
    /\ admitted = [c \in Calls |-> 0]

-----------------------------------------------------------------------------
(* The budget of an operation: its allocations and the caps that bind it.  *)

OpOfCall(c) == OpOf[AttemptOf[c]]
CallsOf(o) == {c \in Calls : OpOfCall(c) = o}
Allocations(o) == {p \in 1..Periods : alloc[o][p].amount > 0}
CapsOf(o) == {k \in Caps : o \in CapOps[k]}
CountedCaps(o) == {k \in CapsOf(o) : CapCounted[k] /\ cap[k].set}

\* lockBudget followed by one of reserve, release and charge, and save.
ReserveBudget(o, x) ==
    /\ \A p \in Allocations(o) : CanReserve(alloc[o][p], x)
    /\ alloc' = [alloc EXCEPT ![o] = [p \in 1..Periods |->
                    IF p \in Allocations(o) THEN Reserve(@[p], x) ELSE @[p]]]
    /\ cap' = [k \in Caps |-> IF k \in CountedCaps(o) THEN CapReserve(cap[k], x) ELSE cap[k]]

\* Mutant: a release is not mirrored in the cost caps.
ReleaseAllocationOnly(o, x) ==
    /\ \A p \in Allocations(o) : CanRelease(alloc[o][p], x)
    /\ alloc' = [alloc EXCEPT ![o] = [p \in 1..Periods |->
                    IF p \in Allocations(o) THEN Release(@[p], x) ELSE @[p]]]
    /\ cap' = cap

ReleaseBudget(o, x) ==
    /\ \A p \in Allocations(o) : CanRelease(alloc[o][p], x)
    /\ alloc' = [alloc EXCEPT ![o] = [p \in 1..Periods |->
                    IF p \in Allocations(o) THEN Release(@[p], x) ELSE @[p]]]
    /\ cap' = [k \in Caps |-> IF k \in CountedCaps(o) THEN CapRelease(cap[k], x) ELSE cap[k]]

ChargeBudget(o, d, x) ==   \* charge d, then release x
    /\ \A p \in Allocations(o) : CanRelease(alloc[o][p], x)
    /\ alloc' = [alloc EXCEPT ![o] = [p \in 1..Periods |->
                    IF p \in Allocations(o) THEN Release(Charge(@[p], d), x) ELSE @[p]]]
    /\ cap' = [k \in Caps |-> IF k \in CountedCaps(o)
                              THEN CapRelease(CapCharge(cap[k], d), x) ELSE cap[k]]

CapSpend(k, o) ==
    IF CapCounted[k] THEN cap[k].reserved + cap[k].consumed
                     ELSE Max({0} \cup {Spend(alloc[o][p]) : p \in Allocations(o)})

CheckCaps(o, x) ==
    \A k \in CapsOf(o) : IF cap[k].set THEN HeadroomFor(cap[k], CapSpend(k, o), x)
                                       ELSE ~CapsRequired

Free(c) == IsFree(Price[c])

Overspent(o) ==
    \E c \in CallsOf(o) : /\ disp[c].state \in {"authorized", "observed", "unknown"}
                          /\ disp[c].charged > Exposure[c]

-----------------------------------------------------------------------------
(* Admission.                                                              *)

\* Mutant: only a converged revocation refuses a tool call.
PermitsUntilConverged(c, authority) ==
    IF GrantOf[c] = NoGrant THEN authority ELSE grant[GrantOf[c]] \notin {"absent", "converged"}

\* Permission of the route: a current authority decision for a model call,
\* a registered and unrevoked grant for a tool call.
Permits(c, authority) ==
    IF GrantOf[c] = NoGrant THEN authority ELSE grant[GrantOf[c]] = "none"

\* Mutant: the replacement rule is missing.
CheckWithoutReplacement(c, authority, fresh) ==
    LET o == OpOfCall(c)
    IN  /\ ~closedScope
        /\ fence[o] = "open"
        /\ attempt[AttemptOf[c]] = "running"
        /\ c \notin lapsed
        /\ Permits(c, authority)
        /\ ~Overspent(o)
        /\ Allocations(o) # {}
        /\ fresh => \A p \in Allocations(o) : CanReserve(alloc[o][p], Exposure[c])
        /\ ~Free(c) => CheckCaps(o, IF fresh THEN Exposure[c] ELSE 0)

\* Mutant: the operation's fence and the attempt's state are not checked.
CheckWithoutFence(c, authority, fresh) ==
    LET o == OpOfCall(c)
    IN  /\ ~closedScope
        /\ Permits(c, authority)
        /\ Allocations(o) # {}
        /\ fresh => \A p \in Allocations(o) : CanReserve(alloc[o][p], Exposure[c])

\* Step 2 (fresh) also checks the headroom the exposure needs; at step 4 the
\* exposure is reserved already.
CheckAdmission(c, authority, fresh) ==
    LET o == OpOfCall(c)
    IN  /\ Exposure[c] = 0 => GrantOf[c] # NoGrant /\ Free(c)
        /\ ~closedScope
        /\ fence[o] = "open"
        /\ attempt[AttemptOf[c]] = "running"
        /\ c \notin lapsed
        /\ Permits(c, authority)
        /\ Replaces[c] # NoCall => disp[Replaces[c]].state = "confirmed_not_sent"
        /\ ~Overspent(o)
        /\ Allocations(o) # {}
        /\ fresh => \A p \in Allocations(o) : CanReserve(alloc[o][p], Exposure[c])
        /\ ~Free(c) => CheckCaps(o, IF fresh THEN Exposure[c] ELSE 0)

Goto(r, label) == pc' = [pc EXCEPT ![r] = label]

\* Admit, first transaction.  The authority decision was read before it,
\* outside any lock: its value at the decision is any.
Prepare(r) ==
    LET c == CallOf[r] IN
    /\ pc[r] = "idle"
    /\ \E authority \in BOOLEAN :
        \/ /\ disp[c].state # "none"                 \* reentry of a recorded call
           /\ Goto(r, IF disp[c].state = "prepared" THEN "put" ELSE "done")
           /\ UNCHANGED <<disp, moneyVars, admitted>>
        \/ /\ disp[c].state = "none"
           /\ ~CheckAdmission(c, authority, TRUE)
           /\ Goto(r, "done")
           /\ disp' = IF closedScope THEN disp       \* the closure is the record
                      ELSE [disp EXCEPT ![c].state = "denied"]
           /\ UNCHANGED <<moneyVars, admitted>>
        \/ /\ disp[c].state = "none"
           /\ CheckAdmission(c, authority, TRUE)
           /\ ReserveBudget(OpOfCall(c), Exposure[c])
           /\ disp' = [disp EXCEPT ![c].state = "prepared"]
           /\ admitted' = [admitted EXCEPT ![c] = Cardinality({d \in Calls : admitted[d] > 0}) + 1]
           /\ Goto(r, "put")
    /\ UNCHANGED <<object, senderVars, envVars, financeVars, grant, pool, period>>

\* Mutant: a failed inventory write is not an error.
PutIgnoringFailure(r) ==
    /\ pc[r] = "put"
    /\ object' \in {object, object \cup {CallOf[r]}}
    /\ Goto(r, "consume")
    /\ UNCHANGED <<disp, senderVars, envVars, financeVars, grant, moneyVars, pool, period, admitted>>

\* The inventory write: acknowledged, failed, or durable with a lost
\* acknowledgement.  The same key and body is idempotent.
Put(r) ==
    /\ pc[r] = "put"
    /\ \/ object' = object \cup {CallOf[r]} /\ Goto(r, "consume")
       \/ object' = object \cup {CallOf[r]} /\ Goto(r, "uncertain")
       \/ object' = object /\ Goto(r, "uncertain")
    /\ UNCHANGED <<disp, senderVars, envVars, financeVars, grant, moneyVars, pool, period, admitted>>

\* Mutant: the failed write is recorded in the wrong column.
MarkStateUncertain(r) ==
    /\ pc[r] = "uncertain"
    /\ disp' = [disp EXCEPT ![CallOf[r]].state = "uncertain"]
    /\ Goto(r, "done")
    /\ UNCHANGED <<object, senderVars, envVars, financeVars, grant, moneyVars, pool, period, admitted>>

MarkInventoryUncertain(r) ==
    /\ pc[r] = "uncertain"
    /\ disp' = IF disp[CallOf[r]].state = "prepared" /\ disp[CallOf[r]].inventory = "pending"
               THEN [disp EXCEPT ![CallOf[r]].inventory = "uncertain"] ELSE disp
    /\ Goto(r, "done")
    /\ UNCHANGED <<object, senderVars, envVars, financeVars, grant, moneyVars, pool, period, admitted>>

\* Mutant: the second transaction trusts the state read by the first.
ConsumeStale(r) ==
    LET c == CallOf[r] IN
    /\ pc[r] = "consume"
    /\ \E authority \in BOOLEAN : CheckAdmission(c, authority, FALSE)
    /\ disp' = [disp EXCEPT ![c] = [state |-> "authorized", inventory |-> "confirmed",
                                           charged |-> @.charged, obs |-> @.obs]]
    /\ Goto(r, "allowed")
    /\ UNCHANGED <<object, senderVars, envVars, financeVars, grant, moneyVars, pool, period, admitted>>

\* Mutant: the denial of the second transaction keeps the reservation.
ConsumeWithoutRelease(r) ==
    LET c == CallOf[r] IN
    /\ pc[r] = "consume"
    /\ \E authority \in BOOLEAN :
        disp' = IF disp[c].state # "prepared" THEN disp
                ELSE [disp EXCEPT ![c].state = IF CheckAdmission(c, authority, FALSE)
                                               THEN "authorized" ELSE "denied"]
    /\ Goto(r, IF disp[c].state = "prepared" /\ disp'[c].state = "authorized" THEN "allowed" ELSE "done")
    /\ UNCHANGED <<object, senderVars, envVars, financeVars, grant, moneyVars, pool, period, admitted>>

\* Admit, second transaction: only a PREPARED call is decided, and only the
\* request that moves it to AUTHORIZED is told so.
Consume(r) ==
    LET c == CallOf[r] IN
    /\ pc[r] = "consume"
    /\ \E authority \in BOOLEAN :
        \/ /\ disp[c].state # "prepared"
           /\ Goto(r, "done")
           /\ UNCHANGED <<disp, moneyVars>>
        \/ /\ disp[c].state = "prepared"
           /\ ~CheckAdmission(c, authority, FALSE)
           /\ ReleaseBudget(OpOfCall(c), Exposure[c])
           /\ disp' = [disp EXCEPT ![c].state = "denied"]
           /\ Goto(r, "done")
        \/ /\ disp[c].state = "prepared"
           /\ CheckAdmission(c, authority, FALSE)
           /\ disp' = [disp EXCEPT ![c] = [state |-> "authorized", inventory |-> "confirmed",
                                           charged |-> @.charged, obs |-> @.obs]]
           /\ Goto(r, "allowed")
           /\ UNCHANGED moneyVars
    /\ UNCHANGED <<object, senderVars, envVars, financeVars, grant, pool, period, admitted>>

\* The answer reaches the sender.
Answer(r) ==
    /\ pc[r] = "allowed"
    /\ told' = told \cup {r}
    /\ Goto(r, "done")
    /\ UNCHANGED <<disp, object, sent, sealed, envVars, financeVars, grant, moneyVars, pool, period, admitted>>

\* The process dies, a transaction fails or the answer is lost: the request
\* ends where it is and whatever it committed stays.
Abandon(r) ==
    /\ pc[r] \notin {"idle", "done"}
    /\ Goto(r, "done")
    /\ UNCHANGED <<disp, object, senderVars, envVars, financeVars, grant, moneyVars, pool, period, admitted>>

-----------------------------------------------------------------------------
(* The sender, outside Control: it sends once per permission it was told   *)
(* of, and its signed not-sent attestation seals the call.                 *)

Send(r) ==
    /\ r \in told
    /\ CallOf[r] \notin sealed
    /\ told' = told \ {r}
    /\ sent' = [sent EXCEPT ![CallOf[r]] = @ + 1]
    /\ UNCHANGED <<disp, object, pc, sealed, envVars, financeVars, grant, moneyVars, pool, period, admitted>>

Attest(c) ==
    /\ disp[c].state # "none"
    /\ sent[c] = 0
    /\ c \notin sealed
    /\ sealed' = sealed \cup {c}
    /\ UNCHANGED <<disp, object, pc, told, sent, envVars, financeVars, grant, moneyVars, pool, period, admitted>>

-----------------------------------------------------------------------------
(* Outcomes and metering.                                                  *)

\* The reports that carry counters.
WithCounters(obs) == {m \in obs : m.usage # NoUsage}

\* The running maximum of every category, over all reporters.
MaxUsageOf(obs) ==
    [input  |-> Max({0} \cup {m.usage.input : m \in WithCounters(obs)}),
     cached |-> Max({0} \cup {m.usage.cached : m \in WithCounters(obs)})]

UsageReported(c) == WithCounters(disp[c].obs) # {}

\* A transition is recorded under an id that is unique within its operation:
\* a transaction that asks for a recorded one again is rolled back.
RecordTransitions(o, ids) ==
    /\ ids \cap events[o] = {}
    /\ events' = [events EXCEPT ![o] = @ \cup ids]

\* Mutant: one settled call makes the operation's exposure known.
FinanceAfterAny(o, c, s, settled) ==
    CASE s = "unknown" -> "exposure_unknown"
      [] settled /\ finance[o] = "exposure_unknown" -> "funded"
      [] OTHER -> finance[o]

\* Another call of the operation has an unknown outcome.
HasUnknownDispatch(o, c) == \E d \in CallsOf(o) \ {c} : disp[d].state = "unknown"

\* finance of operation o once call c is in state s (settleFinance).
FinanceAfter(o, c, s, settled) ==
    CASE s = "unknown" -> "exposure_unknown"
      [] settled /\ finance[o] = "exposure_unknown" /\ ~HasUnknownDispatch(o, c) -> "funded"
      [] OTHER -> finance[o]

\* The report that makes the exposure unknown records it under the call's id.
UnknownTransition(o, c, s) == IF s = "unknown" /\ finance[o] # "exposure_unknown" THEN {c} ELSE {}

\* Mutant: a later report overwrites the outcome of an observed call.
ObserveLast(c, src, seq, outcome, usage) ==
    LET o == OpOfCall(c)
        state == IF outcome = "definite" THEN "observed" ELSE "unknown"
        settled == state = "observed" /\ disp[c].state # "observed"
        obs == disp[c].obs \cup {[src |-> src, seq |-> seq, usage |-> usage]}
    IN  /\ disp[c].state \in {"authorized", "unknown", "observed"}
        /\ \A m \in disp[c].obs : m.src # src \/ m.seq # seq
        /\ ReleaseBudget(o, IF settled THEN Exposure[c] ELSE 0)
        /\ disp' = [disp EXCEPT ![c].state = state, ![c].obs = obs]
        /\ finance' = [finance EXCEPT ![o] = FinanceAfter(o, c, state, settled)]
        /\ RecordTransitions(o, UnknownTransition(o, c, state))
        /\ UNCHANGED <<object, pc, senderVars, envVars, grant, pool, period, admitted>>

\* Mutant: cumulative counters are charged as if they were increments.
ObserveIncrements(c, src, seq, outcome, usage) ==
    LET o == OpOfCall(c)
        settled == disp[c].state # "observed" /\ outcome = "definite"
        state == IF disp[c].state = "observed" \/ settled THEN "observed" ELSE "unknown"
        delta == IF usage = NoUsage THEN 0 ELSE Cost(usage, Price[c], Scale)
    IN  /\ disp[c].state \in {"authorized", "unknown", "observed"}
        /\ \A m \in disp[c].obs : m.src # src \/ m.seq # seq
        /\ settled => usage # NoUsage
        /\ usage # NoUsage => CanPrice(usage, Price[c])
        /\ ChargeBudget(o, delta, IF settled THEN Exposure[c] ELSE 0)
        /\ disp' = [disp EXCEPT ![c] = [state |-> state, inventory |-> @.inventory, charged |-> @.charged + delta,
                                        obs |-> @.obs \cup {[src |-> src, seq |-> seq, usage |-> usage]}]]
        /\ finance' = [finance EXCEPT ![o] = FinanceAfter(o, c, state, settled)]
        /\ RecordTransitions(o, UnknownTransition(o, c, state))
        /\ UNCHANGED <<object, pc, senderVars, envVars, grant, pool, period, admitted>>

\* One outcome report.  A repeated (source, sequence) changes nothing; a
\* definite outcome without usage is refused, and so is a report after which
\* the usage known has no price; an observed call keeps its first outcome
\* and is only metered further.
Observe(c, src, seq, outcome, usage) ==
    LET o == OpOfCall(c)
        settled == disp[c].state # "observed" /\ outcome = "definite"
        state == CASE disp[c].state = "observed" -> "observed"
                   [] outcome = "definite" -> "observed"
                   [] OTHER -> "unknown"
        obs == disp[c].obs \cup {[src |-> src, seq |-> seq, usage |-> usage]}
        cost == Cost(MaxUsageOf(obs), Price[c], Scale)
        delta == IF cost > disp[c].charged THEN cost - disp[c].charged ELSE 0
    IN  /\ disp[c].state \in {"authorized", "unknown", "observed"}
        /\ \A m \in disp[c].obs : m.src # src \/ m.seq # seq
        /\ disp[c].state # "observed" /\ outcome = "definite" => usage # NoUsage
        /\ CanPrice(MaxUsageOf(obs), Price[c])
        /\ ChargeBudget(o, delta, IF settled THEN Exposure[c] ELSE 0)
        /\ disp' = [disp EXCEPT ![c] = [state |-> state, inventory |-> @.inventory,
                                        charged |-> @.charged + delta, obs |-> obs]]
        /\ finance' = [finance EXCEPT ![o] = FinanceAfter(o, c, state, settled)]
        /\ RecordTransitions(o, UnknownTransition(o, c, state))
        /\ UNCHANGED <<object, pc, senderVars, envVars, grant, pool, period, admitted>>

\* Control does not know whether the reporter really sent the call: any
\* report of an issued permission is accepted.
Report(c) ==
    \E src \in Sources, seq \in 1..MaxSeq, outcome \in {"definite", "unknown"},
       usage \in {NoUsage} \cup Usages : Observe(c, src, seq, outcome, usage)

\* Calls whose permission was consumed without a definite outcome.
UnresolvedDispatches == {c \in Calls : disp[c].state \in {"authorized", "unknown"}}

\* Unresolved calls that were admitted before a call.
OlderUnresolved(c) == {d \in UnresolvedDispatches : admitted[d] < admitted[c]}

\* A pass of the reconciler lists the oldest unresolved calls, at most
\* ReconcileLimit of them: the call is behind as many others.
Crowded(c) == Cardinality(OlderUnresolved(c)) >= ReconcileLimit

\* Mutant: a call reported unknown is not asked about again.
ReconcileAuthorized(c) ==
    /\ disp[c].state = "authorized"
    /\ ~Crowded(c)
    /\ GrantOf[c] = NoGrant
    /\ sent[c] > 0
    /\ \E usage \in Usages : Observe(c, Query, 1, "definite", usage)

\* The reconciler asks the original identity of an unresolved call it has
\* listed.  The query of a tool call is always an error and the Model Proxy
\* has no record of a call it did not send: both stay where they are.  The
\* outcome "unknown" of a query is recorded as any reporter's (Report).
ReconcileUnresolved(c) ==
    /\ c \in UnresolvedDispatches
    /\ ~Crowded(c)
    /\ GrantOf[c] = NoGrant
    /\ sent[c] > 0
    /\ \E usage \in Usages : Observe(c, Query, 1, "definite", usage)

\* Mutant: reported usage does not stand against the evidence.
ConfirmNotSentDespiteUsage(c) ==
    LET o == OpOfCall(c) IN
    /\ c \in sealed
    /\ disp[c].state \in Holding
    /\ ReleaseBudget(o, Exposure[c])
    /\ disp' = [disp EXCEPT ![c].state = "confirmed_not_sent"]
    /\ finance' = [finance EXCEPT ![o] = FinanceAfter(o, c, "confirmed_not_sent", TRUE)]
    /\ UNCHANGED <<events, object, pc, senderVars, envVars, grant, pool, period, admitted>>

\* The attestation was verified outside the transaction.
ConfirmNotSent(c) ==
    LET o == OpOfCall(c) IN
    /\ c \in sealed
    /\ disp[c].state \in Holding
    /\ disp[c].charged = 0 /\ ~UsageReported(c)
    /\ ReleaseBudget(o, Exposure[c])
    /\ disp' = [disp EXCEPT ![c].state = "confirmed_not_sent"]
    /\ finance' = [finance EXCEPT ![o] = FinanceAfter(o, c, "confirmed_not_sent", TRUE)]
    /\ UNCHANGED <<events, object, pc, senderVars, envVars, grant, pool, period, admitted>>

-----------------------------------------------------------------------------
(* The grant barrier.                                                      *)

\* Mutant: a call of unknown outcome is not counted as a sender.
KnownSenders(g) == {c \in Calls : GrantOf[c] = g /\ disp[c].state = "authorized"}

Senders(g) == {c \in Calls : GrantOf[c] = g /\ disp[c].state \in {"authorized", "unknown"}}

Register(g) ==
    /\ grant[g] = "absent"
    /\ grant' = [grant EXCEPT ![g] = "none"]
    /\ UNCHANGED <<disp, object, pc, senderVars, envVars, financeVars, moneyVars, pool, period, admitted>>

\* An unregistered revision gets a converged tombstone.
BeginRevocation(g) ==
    /\ grant[g] \in {"absent", "none"}
    /\ grant' = [grant EXCEPT ![g] = IF @ = "absent" THEN "converged" ELSE "fenced"]
    /\ UNCHANGED <<disp, object, pc, senderVars, envVars, financeVars, moneyVars, pool, period, admitted>>

Revocation(g) ==
    /\ grant[g] \in {"fenced", "converging"}
    /\ grant' = [grant EXCEPT ![g] = IF Senders(g) = {} THEN "converged" ELSE "converging"]
    /\ UNCHANGED <<disp, object, pc, senderVars, envVars, financeVars, moneyVars, pool, period, admitted>>

-----------------------------------------------------------------------------
(* Money: allocation, settlement, operator commands.                       *)

\* One pool stands for the platform, tenant and actor pools of a period:
\* an operation draws the same amount from each, and all or none.
Allocate(o) ==
    /\ fence[o] = "open"
    /\ alloc[o][period].amount = 0
    /\ CanDraw(pool[period], Amount)
    /\ pool' = [pool EXCEPT ![period].allocated = @ + Amount]
    /\ alloc' = [alloc EXCEPT ![o][period] = NewAllocation(Amount)]
    /\ finance' = [finance EXCEPT ![o] = "funded"]
    /\ UNCHANGED <<events, disp, object, pc, senderVars, envVars, grant, cap, period, admitted>>

\* Mutant: the whole allocation goes back, spent or not.
SettleFinanceWhole(o) ==
    LET due == {p \in Allocations(o) : alloc[o][p].returned = NotReturned}
    IN  /\ fence[o] = "ended" /\ finance[o] \in {"funded", "not_funded"}
        /\ \A c \in CallsOf(o) : disp[c].state \notin Holding
        /\ pool' = [p \in 1..Periods |-> IF p \in due THEN [pool[p] EXCEPT !.allocated = @ - alloc[o][p].amount] ELSE pool[p]]
        /\ alloc' = [alloc EXCEPT ![o] = [p \in 1..Periods |-> IF p \in due
                        THEN [@[p] EXCEPT !.returned = ReturnUnspent(alloc[o][p])] ELSE @[p]]]
        /\ finance' = [finance EXCEPT ![o] = "settled"]
        /\ RecordTransitions(o, {"finance:settled"})
        /\ UNCHANGED <<disp, object, pc, senderVars, envVars, grant, cap, period, admitted>>

\* Mutant: an operation that was never funded is not settled.
SettleFunded(o) ==
    /\ fence[o] = "ended"
    /\ finance[o] = "funded"
    /\ finance' = [finance EXCEPT ![o] = "settled"]
    /\ RecordTransitions(o, {"finance:settled"})
    /\ UNCHANGED <<disp, object, pc, senderVars, envVars, grant, moneyVars, pool, period, admitted>>

\* Terminal operations whose money is not settled and not uncertain.
FinanceUnsettled == {o \in Ops : fence[o] = "ended" /\ finance[o] \in {"funded", "not_funded"}}

\* What a terminal operation did not spend goes back to the pools, each
\* allocation once (the return ledger), under the locks of all of them.
SettleFinance(o) ==
    LET due == {p \in Allocations(o) : alloc[o][p].returned = NotReturned}
    IN  /\ o \in FinanceUnsettled
        /\ \A c \in CallsOf(o) : disp[c].state \notin Holding
        /\ \A p \in 1..Periods : alloc[o][p].reserved = 0
        /\ \A p \in due : ReturnUnspent(alloc[o][p]) <= pool[p].allocated
        /\ pool' = [p \in 1..Periods |-> IF p \in due
                        THEN [pool[p] EXCEPT !.allocated = @ - ReturnUnspent(alloc[o][p])] ELSE pool[p]]
        /\ alloc' = [alloc EXCEPT ![o] = [p \in 1..Periods |-> IF p \in due
                        THEN [@[p] EXCEPT !.returned = ReturnUnspent(alloc[o][p])] ELSE @[p]]]
        /\ finance' = [finance EXCEPT ![o] = "settled"]
        /\ RecordTransitions(o, {"finance:settled"})
        /\ UNCHANGED <<disp, object, pc, senderVars, envVars, grant, cap, period, admitted>>

AdjustPool(p) ==
    /\ \E n \in Limits : n # pool[p].cap /\ pool' = [pool EXCEPT ![p].cap = n]
    /\ UNCHANGED <<disp, object, pc, senderVars, envVars, financeVars, grant, moneyVars, period, admitted>>

SetCostCap(k) ==
    /\ \E n \in Limits : cap' = [cap EXCEPT ![k] =
            IF @.set THEN [@ EXCEPT !.limit = n] ELSE NewCap(n)]
    /\ UNCHANGED <<disp, object, pc, senderVars, envVars, financeVars, grant, alloc, pool, period, admitted>>

NextPeriod ==
    /\ period < Periods
    /\ period' = period + 1
    /\ UNCHANGED <<disp, object, pc, senderVars, envVars, financeVars, grant, moneyVars, pool, admitted>>

-----------------------------------------------------------------------------
(* The rest of Control as admission sees it.                               *)

\* A hold, a cancel intent or a lost lease fences the operation; a rejected
\* or resumed hold lifts the fence.
Fence(o) ==
    /\ fence[o] = "open"
    /\ fence' = [fence EXCEPT ![o] = "held"]
    /\ UNCHANGED <<disp, object, pc, senderVars, attempt, lapsed, closedScope, financeVars, grant, moneyVars, pool, period, admitted>>

Unfence(o) ==
    /\ fence[o] = "held"
    /\ fence' = [fence EXCEPT ![o] = "open"]
    /\ UNCHANGED <<disp, object, pc, senderVars, attempt, lapsed, closedScope, financeVars, grant, moneyVars, pool, period, admitted>>

Unresolved(o) == finance[o] = "exposure_unknown" \/ \E c \in CallsOf(o) : disp[c].state \in Holding

\* A settlement command, a stored settlement intent or a cancel ends the
\* operation once no attempt is open and no obligation unresolved.
EndOperation(o) ==
    /\ fence[o] # "ended"
    /\ \A a \in Attempts : OpOf[a] = o => attempt[a] = "closed"
    /\ ~Unresolved(o)
    /\ fence' = [fence EXCEPT ![o] = "ended"]
    /\ UNCHANGED <<disp, object, pc, senderVars, attempt, lapsed, closedScope, financeVars, grant, moneyVars, pool, period, admitted>>

AcceptResult(a) ==
    /\ attempt[a] = "running"
    /\ attempt' = [attempt EXCEPT ![a] = "result_accepted"]
    /\ UNCHANGED <<disp, object, pc, senderVars, fence, lapsed, closedScope, financeVars, grant, moneyVars, pool, period, admitted>>

PreparedDispatches(a) == {c \in Calls : AttemptOf[c] = a /\ disp[c].state = "prepared"}

\* The close of an attempt denies its calls that are still PREPARED and
\* releases what they reserved.  With an obligation of the operation
\* unresolved (decided before that denial) the operation is reconciling;
\* otherwise its profile, the outcome, the cleanup and its other attempts
\* decide whether it ends, runs on or stays fenced.  A closed attempt is
\* closed again when later evidence settles a reconciling operation.
CloseAttempt(a) ==
    LET o == OpOf[a]
        prepared == PreparedDispatches(a)
    IN  /\ attempt[a] # "closed" \/ fence[o] = "held"
        /\ \E f \in IF Unresolved(o) THEN {"held"} ELSE {"open", "held", "ended"} :
                fence' = [fence EXCEPT ![o] = f]
        /\ attempt' = [attempt EXCEPT ![a] = "closed"]
        /\ disp' = [c \in Calls |-> IF c \in prepared THEN [disp[c] EXCEPT !.state = "denied"] ELSE disp[c]]
        /\ ReleaseBudget(o, ExposureSum(prepared))
        /\ UNCHANGED <<object, pc, senderVars, lapsed, closedScope, financeVars, grant, pool, period, admitted>>

Lapse(c) ==
    /\ c \in MayLapse \ lapsed
    /\ lapsed' = lapsed \cup {c}
    /\ UNCHANGED <<disp, object, pc, senderVars, fence, attempt, closedScope, financeVars, grant, moneyVars, pool, period, admitted>>

\* A recovery run closes the tenant's scope and, in the same transaction,
\* fences every operation that has not ended under a new epoch: their
\* attempts and calls carry the old one.
BeginRecovery ==
    /\ RecoveryRuns /\ ~closedScope
    /\ closedScope' = TRUE
    /\ fence' = [o \in Ops |-> IF fence[o] = "ended" THEN "ended" ELSE "held"]
    /\ lapsed' = lapsed \cup {c \in Calls : fence[OpOfCall(c)] # "ended"}
    /\ UNCHANGED <<disp, object, pc, senderVars, attempt, financeVars, grant, moneyVars, pool, period, admitted>>

\* Evaluate reopens the scope; which findings it waits for is not seen here.
ReopenAdmission ==
    /\ closedScope
    /\ closedScope' = FALSE
    /\ UNCHANGED <<disp, object, pc, senderVars, fence, attempt, lapsed, financeVars, grant, moneyVars, pool, period, admitted>>

-----------------------------------------------------------------------------
Admit(r) == Prepare(r) \/ Put(r) \/ MarkInventoryUncertain(r) \/ Consume(r) \/ Answer(r) \/ Abandon(r)

Next ==
    \/ \E r \in Requests : Admit(r) \/ Send(r)
    \/ \E c \in Calls : Attest(c) \/ Report(c) \/ ReconcileUnresolved(c) \/ ConfirmNotSent(c) \/ Lapse(c)
    \/ \E g \in Grants : Register(g) \/ BeginRevocation(g) \/ Revocation(g)
    \/ \E o \in Ops : Allocate(o) \/ SettleFinance(o) \/ Fence(o) \/ Unfence(o) \/ EndOperation(o)
    \/ \E a \in Attempts : AcceptResult(a) \/ CloseAttempt(a)
    \/ \E p \in 1..Periods : AdjustPool(p)
    \/ \E k \in Caps : SetCostCap(k)
    \/ NextPeriod
    \/ BeginRecovery \/ ReopenAdmission

Spec == Init /\ [][Next]_vars

(***************************************************************************)
(* The reconciler asks about the calls it lists and the settlement sweep   *)
(* tries the terminal operations for as long as the process runs (both are *)
(* loops of the relay): a call that stays unresolved and among the oldest  *)
(* ReconcileLimit is asked about again, an operation that stays unsettled  *)
(* is tried again.  A call behind ReconcileLimit others is not: nothing    *)
(* is assumed of it.                                                       *)
(***************************************************************************)
Fairness ==
    /\ \A c \in Calls : WF_vars(ReconcileUnresolved(c))
    /\ \A o \in Ops : WF_vars(SettleFinance(o))

FairSpec == Spec /\ Fairness

-----------------------------------------------------------------------------
(* Properties.                                                             *)

\* Requests holding a permission that the sender has not used yet.
Allowed == told \cup {r \in Requests : pc[r] = "allowed"}

(***************************************************************************)
(* A call's permission is issued at most once, over all requests, replicas,*)
(* retries and lost answers, and never before the call is recorded as      *)
(* authorized: at most one request is ever told so, at most one send       *)
(* follows (Dispatch.Admit, Dispatch.Consume).                             *)
(***************************************************************************)
SinglePermission ==
    /\ \A r1, r2 \in Allowed : CallOf[r1] = CallOf[r2] => r1 = r2
    /\ \A r \in Allowed : sent[CallOf[r]] = 0 /\ disp[CallOf[r]].state \in Issued
    /\ \A c \in Calls : sent[c] <= 1 /\ (sent[c] = 1 => disp[c].state \in Issued)

(***************************************************************************)
(* Inventory before permission: whatever was sent, and whatever Control    *)
(* counts as possibly sent, has its obligation in the inventory, which is  *)
(* what a recovery restores it from (Dispatch.Admit steps 3 and 4).        *)
(***************************************************************************)
InventoryBeforePermission ==
    \A c \in Calls : sent[c] > 0 \/ disp[c].state \in {"authorized", "unknown", "observed"} => c \in object

(***************************************************************************)
(* A call and a call that replaces it are never both sent: a replacement   *)
(* is admitted only once the original is confirmed not sent                *)
(* (CheckAdmission's replacement rule with ConfirmNotSent).                *)
(***************************************************************************)
NoDoubleSend ==
    \A c \in Calls : Replaces[c] # NoCall /\ sent[c] > 0 => sent[Replaces[c]] = 0

(***************************************************************************)
(* A call confirmed not sent was not sent and cost nothing, whatever       *)
(* reports race the confirmation (Dispatch.ConfirmNotSentLocked, Observe). *)
(***************************************************************************)
NotSentCostsNothing ==
    \A c \in Calls : disp[c].state = "confirmed_not_sent" =>
        sent[c] = 0 /\ disp[c].charged = 0 /\ ~UsageReported(c)

\* Sums over calls.
HeldExposure(C) == ExposureSum({c \in C : disp[c].state \in Holding})
Charged(C) == SumFunctionOnSet([c \in Calls |-> disp[c].charged], C)
Committed(C) == HeldExposure(C) + Charged(C)

(***************************************************************************)
(* Every allocation of an operation reserves exactly the exposure of its   *)
(* calls that may still be sent or may have been, and has consumed exactly *)
(* what they were charged: no path releases twice, leaks a reservation or  *)
(* charges one report twice (budget.reserve, release and charge).          *)
(***************************************************************************)
AllocationExact ==
    \A o \in Ops : \A p \in Allocations(o) :
        /\ alloc[o][p].reserved = HeldExposure(CallsOf(o))
        /\ alloc[o][p].consumed = Charged(CallsOf(o))

(***************************************************************************)
(* Money is conserved between the pools and the operations: a pool has     *)
(* given out exactly what its allocations took and did not give back, in   *)
(* whatever order operations are funded over two periods, reported on, end *)
(* and settle (Allocate, SettleFinance and the return ledger).             *)
(***************************************************************************)
PoolExact ==
    \A p \in 1..Periods : pool[p].allocated = SumFunction([o \in Ops |-> Drawn(alloc[o][p])])

\* The calls a cost cap counts.
CapCalls(k) == UNION {CallsOf(o) : o \in CapOps[k]}

(***************************************************************************)
(* The tenant and project cost caps count exactly what the allocations of  *)
(* their operations hold (application/budget.go).                          *)
(***************************************************************************)
CapExact ==
    \A k \in Caps : CapCounted[k] /\ cap[k].set =>
        cap[k].reserved = HeldExposure(CapCalls(k)) /\ cap[k].consumed = Charged(CapCalls(k))

\* The price of the usage some reports of a call establish together.
CostOf(c, obs) == Cost(MaxUsageOf(obs), Price[c], Scale)

(***************************************************************************)
(* A call is charged what some of its reports together establish and at    *)
(* least what all of them do, however often and in whatever order they     *)
(* arrive: no report is charged on top of another.  Unless its price       *)
(* includes one category in another, the charge is the price of the        *)
(* largest usage reported, whatever the order (Dispatch.Observe, MaxUsage  *)
(* and Price.Cost).                                                        *)
(***************************************************************************)
MeteringExact ==
    \A c \in Calls :
        LET obs == disp[c].obs
        IN  /\ CostOf(c, obs) <= disp[c].charged
            /\ \E reports \in SUBSET obs : disp[c].charged = CostOf(c, reports)
            /\ ~Price[c].inclusive => disp[c].charged = CostOf(c, obs)

(***************************************************************************)
(* "A duplicate or out-of-order report charges nothing" (Dispatch.Observe):*)
(* the charge is the price of all reports together.  Under an inclusive    *)
(* price it is not: a report of more cached input lowers the price of what *)
(* was reported, and what was charged for it before stays charged.         *)
(***************************************************************************)
ChargeIsOrderFree == \A c \in Calls : disp[c].charged = CostOf(c, disp[c].obs)

(***************************************************************************)
(* At its admission a call fits: what the calls of the operation cost or   *)
(* may still cost, its own exposure included, is within the amount that    *)
(* was allocated, and for a paid call within every cap that is set over    *)
(* it.  Two calls admitted concurrently never share headroom (domain       *)
(* CostCap: "at admission the scope's reserved exposure plus its consumed  *)
(* cost plus the new exposure never exceeds Cap").                         *)
(***************************************************************************)
AdmissionFits ==
    [][\A c \in Calls : disp[c].state = "none" /\ disp'[c].state = "prepared" =>
        LET o == OpOfCall(c)
        IN  /\ Committed(CallsOf(o))' <= Amount
            /\ ~Free(c) => \A k \in CapsOf(o) : cap[k].set =>
                    Committed(IF CapCounted[k] THEN CapCalls(k) ELSE CallsOf(o))' <= cap[k].limit]_vars

(***************************************************************************)
(* As long as no call of an operation cost more than its exposure, what    *)
(* its calls cost or may still cost stays within the amount it was         *)
(* allocated.  It does not: a call that was observed, and whose exposure   *)
(* was released and given to another call, is charged for later reports.   *)
(***************************************************************************)
WithinAllocation ==
    \A o \in Ops : (\A c \in CallsOf(o) : disp[c].charged <= Exposure[c]) /\ Allocations(o) # {} =>
        HeldExposure(CallsOf(o)) + Charged({c \in CallsOf(o) : disp[c].state \notin Holding}) <= Amount

(***************************************************************************)
(* The operation's finance says exposure_unknown exactly while one of its  *)
(* calls has an unknown outcome (settleFinance after Observe and           *)
(* ConfirmNotSent).                                                        *)
(***************************************************************************)
ExposureTruthful ==
    \A o \in Ops : finance[o] = "exposure_unknown" <=> \E c \in CallsOf(o) : disp[c].state = "unknown"

(***************************************************************************)
(* A closed attempt has no call waiting for a permission: a call prepared  *)
(* before the close is denied by it, and none is prepared after it         *)
(* (CloseAttempt with CheckAdmission).                                     *)
(***************************************************************************)
ClosedAttemptHasNoPrepared ==
    \A c \in Calls : disp[c].state = "prepared" => attempt[AttemptOf[c]] # "closed"

(***************************************************************************)
(* A terminal operation holds no exposure: nothing is admitted after the   *)
(* end and nothing unresolved survives it (FencedForNewDispatch,           *)
(* unresolvedEffects).                                                     *)
(***************************************************************************)
TerminalHoldsNothing ==
    \A o \in Ops : fence[o] = "ended" => \A c \in CallsOf(o) : disp[c].state \notin Holding

(***************************************************************************)
(* A converged revocation is final: no call of the revision holds or will  *)
(* hold a permission without a known outcome (GrantPolicies.Revocation).   *)
(***************************************************************************)
ConvergedIsQuiet ==
    \A c \in Calls : GrantOf[c] # NoGrant /\ disp[c].state \in {"authorized", "unknown"}
        => grant[GrantOf[c]] # "converged"

(***************************************************************************)
(* No permission is consumed after a revocation fence commits, not even by *)
(* a request that passed its first checks before it (BeginRevocation).     *)
(***************************************************************************)
NoPermissionAfterFence ==
    [][\A c \in Calls : disp[c].state # "authorized" /\ disp'[c].state = "authorized" /\ GrantOf[c] # NoGrant
            => grant[GrantOf[c]] = "none"]_vars

(***************************************************************************)
(* A settled, denied or confirmed call stays what it is, whatever reports, *)
(* retries and closes follow; a permission is never taken back.            *)
(***************************************************************************)
OutcomeFinal ==
    [][\A c \in Calls :
        /\ disp[c].state \in {"denied", "observed", "confirmed_not_sent"} => disp'[c].state = disp[c].state
        /\ disp[c].state \in {"authorized", "unknown"} => disp'[c].state \in Issued]_vars

(***************************************************************************)
(* Every exposure a call holds can be released from every allocation of    *)
(* its operation, so a definite report always settles the call: the        *)
(* allocation is what "every dispatch of the operation reserves from and   *)
(* settles against" (domain.Allocation).                                   *)
(***************************************************************************)
HeldIsReleasable ==
    \A c \in Calls : disp[c].state \in Holding =>
        \A p \in Allocations(OpOfCall(c)) : CanRelease(alloc[OpOfCall(c)][p], Exposure[c])

(***************************************************************************)
(* Money settled is settled: once an operation's unspent allocation went   *)
(* back to the pool, what it consumed does not change (SettleFinance       *)
(* "once nothing can change it any more").                                 *)
(***************************************************************************)
SettledMoneyFinal ==
    [][\A o \in Ops : finance[o] = "settled" =>
        \A p \in 1..Periods : alloc'[o][p].consumed = alloc[o][p].consumed]_vars

(***************************************************************************)
(* A model call that was sent is eventually observed, whatever its sender  *)
(* failed to report, unless again and again as many older calls as a pass  *)
(* lists are unresolved (ReconcileUnresolved, ListUnresolvedDispatches).   *)
(***************************************************************************)
SentIsObserved ==
    \A c \in Calls : GrantOf[c] = NoGrant /\ <>[]~Crowded(c) =>
        (sent[c] > 0 ~> disp[c].state = "observed")

(***************************************************************************)
(* A model call that was sent is eventually observed: what stays unknown   *)
(* "is asked again later" (ReconcileUnresolved).  Behind ReconcileLimit    *)
(* older calls that never resolve it is not asked about at all.            *)
(***************************************************************************)
SentIsAlwaysObserved ==
    \A c \in Calls : GrantOf[c] = NoGrant => (sent[c] > 0 ~> disp[c].state = "observed")

(***************************************************************************)
(* The money of a terminal operation is eventually settled                 *)
(* (ReconcileFinance).                                                     *)
(***************************************************************************)
TerminalIsSettled == \A o \in Ops : fence[o] = "ended" ~> finance[o] = "settled"
=============================================================================
