# TLA+ verification of anvilkit-agent-control

Control is the service that decides, for an agent platform, which work may start, which paid model and
tool calls may be sent, and how an operation ends. It writes one PostgreSQL database, talks to a workflow
engine (Temporal) and to an independent object inventory, and runs in several replicas. Each use case is
a gRPC handler made of one or more transactions with I/O between them; periodic loops reconcile what was
left open. This directory holds TLA+ models of its protocols, the TLC runs that check them, and proofs that
TLAPS checks.

## Inventory of the system

| Component | State it keeps | Operations | What makes it correct |
| --- | --- | --- | --- |
| Dispatch admission (`application/dispatch.go`, `domain/dispatch.go`) | `dispatches`, `usage_observations`, `cost_entries`, the inventory objects | Admit, Observe, ConfirmNotSent, ReconcileUnresolved, Allocate | a permission is used once, only after its obligation is durable; a replacement never doubles a send; metering charges no report on top of another |
| Budgets and caps (`application/budget.go`, `domain/budget.go`, `domain/finance.go`) | `budget_pools`, `allocations`, `cost_caps` | reserve, release, charge | counters equal what the calls hold and cost on every path |
| Finance (`application/finance.go`) | pools, caps, `allocation_returns` | SettleFinance, AdjustPool, SetCostCap | money is conserved; terminal operations settle and stay settled |
| Grant policies (`application/grants.go`) | `grant_policies` | Register, BeginRevocation, Revocation | a fence stops permissions; convergence is final |
| Operations (`application/operations.go`, `domain/operation.go`) | `operations`, `operation_commands`, intake obligation | Create, SubmitCommand, reads | nothing starts before its intake is durable; a cancel dominates and its receipt is true |
| Execution (`application/execution.go`, `domain/attempt.go`) | `attempts`, `launches`, `instances`, `stages` | OpenAttempt, PrepareLaunch, RegisterInstance, AcceptResult, CloseAttempt | an operation ends once, with everything resolved, with the outcome the evidence gives |
| Settlement (`application/execution_settlement.go`) | `operation_settlements`, permits | SettleOperation, SettleFromIntent, settleTerminal | the stated outcome is applied, now or later |
| Generations (`application/generation.go`, `domain/generation.go`) | permits, queue, lease, funding, held state | RequestExecutionPermit, RecordFunding, RecordLease, RecordCommandRelay | capacity is held as long as anything may act |
| Relay (`application/relay.go`, `adapters/temporal`) | relay state of operations and commands | start, cancel, command and answer lanes, the reconciler loops | every intent reaches the engine or is settled; a lost response is repaired |
| Effects (`application/effects.go`, `domain/effect.go`) | `effects`, observations, lineage identities | Prepare, Observe, QueryOriginal, ConfirmNotSent | a protected mutation is performed once, under a kept obligation, and its recorded outcome is what happened |
| Releases (`application/releases.go`, `domain/release.go`) | `releases` | Record | nothing is published that was not reviewed, nothing activated that was not published; the projection claims no more than happened |
| Previews (`application/previews.go`) | `previews` | Record, resolveSource | a release starts from the revision its source registered |
| Preparation (`application/preparation.go`, `domain/preparation.go`) | question sets, answers, briefs | RecordQuestionSet, SubmitAnswer, RecordAnswerRelay, RecordBrief | a round has one answer whose receipt is true; a generation runs on the final brief |
| Artifacts (`application/artifacts.go`, `domain/artifact.go`, `domain/archive.go`) | transfers, relationships, the finalize slots | Begin, Resolve, Finalize, BindOutputs, Read | what is served was verified, in the scope it was begun in |
| Recovery (`application/recovery*.go`) | runs, closures, progress, findings, dispositions | Begin, Enumerate, Reconcile, RecordOutcome, Dispose, Evaluate | after a loss of state every obligation of the inventory is accounted for before admission reopens |
| Events (`adapters/outbox`, `adapters/postgres/notify.go`, `transport/grpc/operation.go`) | events, outbox, the forwarder's position, streams | InsertEvent, forward, prune, wake, StreamOperationEvents | no event is skipped on its way to the broker, or lost, repeated or reordered for a client |
| Adapters, transport, configuration, bootstrap, migrations, chart | none of their own | conversion and I/O | not modelled |

Components interact through shared rows under row locks (the stated ranks are pools and caps, operation,
attempt, dispatch, ledger), through the inventory (written between two transactions), and through the
workflow engine (called from a list that was read earlier). What is hard:

* several replicas run the same handler for the same call, command or start;
* a process dies between a commit, an inventory write, an engine call and the next commit;
* answers of the inventory, the engine and the senders are lost, repeated, late or reordered;
* fences (cancel, hold, revocation, attempt close, recovery closure) race work already half admitted;
* unknown outcomes keep money and operations open until somebody finds out what happened;
* the database is rolled back while the outside world, and the inventory, are not;
* bytes are verified, and pages listed, outside the locks under which the result is recorded.

`PROJECT.json` lists each hazard at its line, with the properties that watch it.

## Modules

| Module | Models |
| --- | --- |
| `Budget` | the arithmetic of allocations, caps and prices as operators: `Reserve`, `Release`, `Charge`, `CapReserve`, `Cost`, ... |
| `Dispatch` | admission, metering, budgets, caps, pools, finance, grants, and how fences, closes and a recovery closure act on them |
| `MCDispatch` | instances of `Dispatch` |
| `DispatchProofs` | sums over finite sets, type correctness of `Dispatch`, the safety theorems of admission |
| `MoneyProofs` | the theorems about metering, the finance state, allocations, pools, caps and what an admission fits |
| `Lifecycle` | one operation: intake, relay lanes, workflow run, bootstrap, attempts, launches, results, obligations, closes, settlement, control commands |
| `Artifacts` | scoped transfers: begin, upload, the three steps of a finalize with its slots, binding and reading |
| `Preparation` | question rounds, answers and their relay lane, briefs, and generations that compete for a permit |
| `GuardedWrite` | the abstract promise about one external mutation |
| `Publication` | the guarded mutations of a generation and of its release, and the release projection; implements `GuardedWrite` |
| `Recovery` | rollback of the database, closure, enumeration, restore, queries, dispositions, reopening |
| `Events` | event transactions, outbox, forwarder, retention, wakes, streams |
| `MCLifecycle`, `MCInputs`, `MCPublication`, `MCRecovery`, `MCEvents` | instances; `MCInputs` holds `Artifacts` and `Preparation`, whose specification is therefore named `PreparationSpec` |
| `LifecycleProofs`, `ArtifactsProofs`, `PreparationProofs`, `PublicationProofs`, `RecoveryProofs`, `EventsProofs` | the theorems about each of these modules, with their inductive invariants |

`Lifecycle` sees a paid call or an effect as an obligation of which only its resolution matters; `Dispatch`
and `Publication` are the two in detail. `Recovery` starts from obligations admitted as those two admit them. The
modules share no variables: what one does to another (a fence, an end, an epoch, a closure) is an action in each.

A transaction is one action: the code takes the locks of the rows it decides on and holds them to the
commit. A handler of two transactions is several actions with its progress in `pc` (`Dispatch`) or in the
rows it wrote (`Lifecycle`); everything else may happen between them, the handler's process dying included.

### Dispatch

A request `r` for call `CallOf[r]` runs `Prepare` (transaction 1 of `Admit`: checks, reservation, PREPARED),
`Put` (the inventory write; it may succeed, succeed with a lost acknowledgement, or fail),
`MarkInventoryUncertain`, `Consume` (transaction 2: revalidation, authorized or denied with the reservation
released) and `Answer`. `Abandon` is a crash or a lost answer at any of these points. The sender outside
Control is `Send` and `Attest` (a sender that will provably not send). `Observe` applies a report of a source
under a sequence number with its usage; `ReconcileUnresolved` is the query under the original identity;
it lists the oldest `ReconcileLimit` unresolved calls in the order of `admitted` (`Crowded` is a call behind them) and learns
nothing of a tool call or of a call that was not sent. `ConfirmNotSent` needs the attestation. `Allocate`, `SettleFinance`, `AdjustPool`, `SetCostCap` and
`NextPeriod` move money; `Register`, `BeginRevocation`, `Revocation` are the grant barrier. `Fence`,
`Unfence`, `EndOperation`, `AcceptResult`, `CloseAttempt`, `Lapse`, `BeginRecovery` and `ReopenAdmission` are
what the rest of Control does to a call. `Lapse` stands for every condition of `CheckAdmission` that can stop
holding between the two transactions (epoch, instance, deadline, lease, authority, price).

Data abstractions: money and usage are small naturals in one currency. Usage has a category and the part of it that is
metered apart, which stand for the two such pairs of the code (input and cached input, output and reasoning); each is priced
per `Scale` units, rounded up, and under an inclusive price the part is taken out of its category first, or the usage has no
price and the report is refused (`CanPrice`). A call's bindings are constants because `Dispatch.Binds` refuses any other; one pool per period
stands for the three pool levels, which `Allocate` treats alike.

### Lifecycle

`op` is the row of the operation (lifecycle, control, cleanup, relay). `lane[r]` is where the starts lane of
replica `r` is between reading its list, calling the engine and marking the row; `workflow` is the run,
`asked` whether it was asked to cancel, `answer[k]` what its handler answered to a command. An obligation is
a paid call or an effect seen as: may a sender still act? Its details are those of `Dispatch`.
`CloseAttempt` is the handler with `SettleClose`, the correction by other uncertain attempts
(`KeepReconciling`), the denial of prepared calls and `settleTerminal`. An effect may name no attempt (`NoAttempt`); its
issue then depends on the fences and, for a queued profile, on the lease alone. `RecordQuestionSet` and `SubmitAnswer` are a
question round as the operation sees it: waiting, and running again, also from reconciling. `MultiStep`, `Queued`,
`SupportsControl` and `MaxRounds` select the kind of profile: LocalCheck (single step), Preparation (multi step with question
rounds), Generation (multi step, queued, with hold and resume), PreviewBuild and Release (multi step). The Workflow is not part of the repository; it may make any call
its handlers accept while it runs. Revisions, deadlines, epochs and digests that refuse a call are calls that
do not happen.

### Artifacts and Preparation

A call `f` of `Finalize` is `Peek` (the transfer is read), `Verify` or `FinalizeSlot` and `Read` (the named object
version, outside every lock; the bytes of an archive under a slot), and `Settle` (the commit, under the locks, with
the scope, deadline and epoch as they are then). `Upload` stores another version under the key as long as a
capability lives. `GiveUp` is a caller that leaves the wait for a slot. The declared digest fixes whether the bytes
are an archive and whether it is contained, so both are constants; the archive walk itself is not modelled.

`Preparation` has the answer lane of the relay per replica (`ListAnswer`, `MarkSent`, `UpdateAnswer`,
`RecordOutcome`): the run answers an Update once under its identity, also after it closed, which is what
`Relay.update` relies on. `ReadBrief` and `CreateGeneration` are the two unlocked reads of `verifyBriefBinding`;
`EndPreparation` is what `Lifecycle` allows the preparation's operation to do.

### Publication and GuardedWrite

An outcome reported for a review is taken to name the subject of its effect, which is what a release compares it with.
A request `q` for effect `EffectOf[q]` runs `Prepare`, `Put`, `MarkInventoryUncertain` and `Permit`; the physical owner
outside Control is `Perform`, its reports `Observe` and `QueryOriginal`. `RecordRelease` lets the Workflow state
any next projection and accepts what `ApplyRelease` accepts. All refusals of a scope are one flag `open`.
`GuardedWrite` knows only whether the obligation is kept, the status and what happened; under the mapping of `Status` (prepared is
asked, unknown is permitted) every step of `Publication` is one of its steps or a stutter.

### Recovery

Obligations are admitted (`Prepare`, `Put`, `Permit`, `Send`, `Report`), and the owner of a launch closes its attempt at
any time, with known or unknown cleanup (`OwnerCloses`); `Backup` and `Rollback` lose what
was committed in between. `ReadClosure` and `Begin` are the read and the commit of `Begin`. A worker is one call of a
step: `ReadProgress`, `List`, `RecordPage` of an enumeration, `ReadFinding`, `Restore`, `Query`, `Settle` of a
reconciliation, `ReadLaunch` and then `ObserveLaunch` or `StopLaunch` of `RecordOutcome`; `WorkerFails` ends it anywhere. The
close that `StopLaunch` makes decides on the attempt as it was read: an attempt another closed meanwhile is a conflict, which is
passed over. `Dispose` is an operator's decision with its evidence, for a run (`named`) or for none. Decisions are made
after the loss; an earlier one would be lost with the database or be part of the backup. Evidence is true: a query or an attestation says what happened.

### Events

A transaction gets its id with its first lock and its outbox offsets when it writes; it commits whenever. `Query`,
`PublishHead` and `Acknowledge` are the forwarder (a watermill subscriber whose order is transaction id, then
offset, below the horizon of running transactions), `Prune` the retention. A batch is the set of rows that was read; the
least of them is published first. `Wake` reaches the subscribers of an operation, `LoseWake` is
a connection that is down. That an operation that ended gets no further event is an assumption about the callers of
`InsertEvent`, which does not check it. A stream is `OpenStream`, `ReadOperation`, `ListPage`, `SendHead`, `EndOfPage` and the wait.

## Runs

Each passing run takes at most three minutes on two workers. State counts are distinct states.

| Run | States | Instance | Shows |
| --- | --- | --- | --- |
| `dispatch_admission` | 1.19M | one attempt, two requests for a model call and one for the free tool call that replaces it, a grant, recovery closure, lapses | `SinglePermission`, `InventoryBeforePermission`, `NoDoubleSend`, `NotSentCostsNothing`, `ConvergedIsQuiet`, `NoPermissionAfterFence`, `OutcomeFinal`, `TypeOK`; no deadlock |
| `dispatch_accounting` | 769k | two calls of exposure 2 and 1 compete for an allocation of 2, one priced apart and one with inclusive units that can overspend, a tenant and an operation cap of 2 or 3 | `AllocationExact`, `AdmissionFits`, `TerminalHoldsNothing`, `CapExact`, `MeteringExact` |
| `dispatch_liveness` | 120k | two calls in flight together, a fair reconciler that lists one call a pass, fair settlement sweep | `ExposureTruthful`, `SentIsObserved`, `TerminalIsSettled` |
| `dispatch_money` | 566k | one call, two attempts, two periods, pool cap changes, two reports per source, usage to 3, two units per price step | `PoolExact` |
| `lifecycle_single` | 552k | one attempt, a call and an effect, two replicas, two cancels, every outcome and cleanup | `ReceiptIsTrue`, `InventoryFirst`, `CancelDominates`, `OutcomeIsStated`, `TerminalIsFinal` |
| `lifecycle_steps` | 4.21M | a preparation: two attempts, a call, a write that names no attempt, a question round, a cancel, settlement intent | `TerminalIsResolved` |
| `lifecycle_live` | 131k | a generation: permit, an attempt with an effect, a hold and a cancel, failing engine calls, a run that may close | `PermitCoversWork`, `AcceptedIsStarted`, `RelayedIsSettled` |
| `inputs` | 966k | `Artifacts`: two transfers, three finalize calls, one slot, two epochs; `Preparation`: one round, two answers, two replicas, two briefs, two generations for one permit | `ServedIsVerified`, `SlotsAreHeld`, `CommitsInScope`, `ExecutesOnFinalBrief`, `AnswerReceiptIsTrue` |
| `publication` | 875k | two candidates with different identities, a release with two subjects, two requests for the faulty npm publication | `UpstreamInOrder`, `ReleaseIsBacked`, `ImplementsGuardedWrite` |
| `recovery` | 2.43M | a write and a launch whose object does not decode, pages of one, two workers, a launch owner that still closes | `NothingForgotten`, `EstablishedIsTrue` |
| `events` | 159k | two transactions of one and two events, pages of one, batches of two, one forwarder failure, one reconnect | `PassedIsPublished`, `StreamIsExact`, `NoLostWake`, `EventsArrive` |

The bounds: two requests are the smallest race for a permission, two calls the smallest sharing of a budget
or of a finance state, two attempts of an operation's end, two periods of a rollover, two replicas of a lane, two
generations of a permit, two subjects of a mistaken publication, two workers of a page, two transactions of an inverted
commit; a sender and the reconciler that report with and without cached units over a price step of 2 give reordered, repeated,
decreasing, contradictory and rounded reports; two sequence numbers and usage to 3 repeat one source. One call a pass (`ReconcileLimit`) is
the smallest crowd two calls can meet, one question round the smallest that an answer can end. Three finalize calls are two versions of one transfer and a rival for the slot. `MaxSeq`, `MaxUsage`,
`MaxRounds`, `MaxEpoch`, `MaxUploads`, `MaxAdmitted`, `MaxFailures` and `MaxOpens` bound what is unbounded; every other constant is a finite
set. Runs say `CHECK_DEADLOCK FALSE` where operations and requests really finish. Besides the listed properties, the type invariant of each module holds on the instance of its runs.
Two further configurations pass: `DispatchCaps` (888k, two operations under one tenant cap, `CapExact`) and `RecoveryPages` (1.02M, one worker,
two writes, one of them corrupt, and a launch: a class of several pages, with the properties of `recovery`).

Every property has a mutant in `PROJECT.json`: a plausible slip in one definition (a dropped guard, a stale
read, a missing release) with which TLC finds the property violated.

### Disagreements between the code and its own statements

The run `recovery_prepared` expects a violation. `RecoveryPrepared.cfg` allows a backup that holds a call as
prepared. If the call is permitted and sent after the backup, enumeration finds a prepared record and counts it
as present, so the run reopens with a sent call that nobody asks about, although "only a record whose effect is settled (or
was never permitted) is present" (`application/recovery_enumeration.go`).

Further configurations are kept beside the runs. Each is violated and delimits what the passing runs claim;
`PROJECT.json` quotes the statements.

| Configuration | Violates | What happens |
| --- | --- | --- |
| `RecoveryNoRun` | `DecisionIsFinal` | a decision that names no run is recorded, settles no finding and cannot be made again |
| `RecoveryConflict` | `StoppedIsClean` | the owner closes a launch with unknown cleanup while its stop is recorded; the conflict is passed over and the finding resolves |
| `RecoveryTwoRuns` | `OneRunPerScope` | two `Begin` calls read the closure before either commits |
| `RecoveryStaleFinding` | `ReopenedIsSettled` | a slow query writes unresolved over a finding that another call resolved, also after the run reopened |
| `InputsGiveUp` | `KeepsServing` | a caller that leaves the wait for a finalize slot makes the deferred release call a nil function |
| `PublicationLateReport` | `LateReportChangesNothing` | a late report of the workflow changes the revision a release resolves |
| `DispatchStarved` | `SentIsAlwaysObserved` | a permission that was consumed and never sent stays the oldest unresolved call; a newer call that was sent is never listed |
| `DispatchInclusive` | `ChargeIsOrderFree` | more cached input lowers the price of an inclusive input; what was charged before stays, so the order of two reports decides the charge |
| `DispatchRollover` | `HeldIsReleasable` | `Allocate` in a new period adds an allocation that reserved nothing; the release of a call in flight is refused by it |
| `DispatchRollover -continue` | `ExposureTruthful` | the same `Allocate` sets the finance state to funded while a call is unknown |
| `DispatchResettle` | `TerminalIsSettled` | the transition id of a settlement is constant and unique, so a second settlement is refused for ever |
| `DispatchLateCap` | `CapExact` | a cap created while a call holds exposure starts from zero, although caps "count exactly what the allocations of their operations hold" (`application/budget.go`) |
| `DispatchLateCharge` | `WithinAllocation` | an observed call gave its exposure back, another call took it up, and a later cumulative report charges the first: held and charged together exceed the amount although no call cost more than its exposure |
| `DispatchLateReport` | `SettledMoneyFinal` | a later cumulative report of an observed call charges after the settlement that is made "once nothing can change it any more" (`application/finance.go`) |
| `LifecycleHold` | `EndIsQuiescent` | a hold receipt turns reconciling into suspended, after which a cancel is applied at once |
| `LifecycleAnswer` | `EndIsQuiescent` | an answer turns reconciling into running, after which a cancel is applied at once |
| `LifecycleNoPermit` | `PermitCoversWrites` | a write that names no attempt is permitted to a queued operation that holds a lease and no execution permit (`domain/effect.go` checks an attempt only when one is named) |
| `LifecycleIntent` | `IntentIsApplied` | late evidence makes the operation running, which the sweep of stored intents does not list |
| `LifecycleStart` | `NeverStartCanceled` | the starts lane acts on its earlier read and starts a canceled operation ("never start a canceled operation", `application/operations.go`) |
| `LifecycleTwoOpen` | `TerminalIsFinal` | closing the second open attempt of an ended operation moves it ("a terminal lifecycle is never left", `domain/operation.go`) |
| `LifecycleReceipt` | `ReceiptIsTrue` | a second close with an unknown outcome keeps the cancel applied ("a cancel fence stays pending rather than applied", `domain/attempt.go`) |
| `LifecycleTwoHolds` | `HoldIsSettled` | a second hold is recorded as pending without a relay and never answered |

Smaller observations, modelled as the code has them: nothing ever marks a question round expired, so an unanswered round
blocks later ones; targets of a release recorded as failed or unknown are not compared with the ledger;
`RecordOutcome` accepts an observation and its stop in one call; a decision is looked up for unresolved findings only, so an
obligation that is still missing in a later run is restored and left open; a decision may name another run than the closing one; events of one operation may reach the broker in another order than their sequence; a stream with more than a page to
send waits for its poll.

`LifecycleTwoOpen` and `LifecycleReceipt` need two attempts open at once. `OpenAttempt` does not refuse the
second one; whether it happens is up to the Workflow. The passing runs therefore claim `TerminalIsFinal` and
`ReceiptIsTrue` for an operation with one attempt, without hold and without question rounds. `TerminalIsResolved` is claimed for every
profile: that an unknown outcome is left behind only by a cancel, under hold or question rounds, is part of what it says. `PermitCoversWork` is about
attempts and what belongs to them, `MeteringExact` gives an exact price only where units are priced apart, `SentIsObserved` is
about model calls that are not crowded out for good. The runs claim `CapExact`
for a cap that precedes every paid call (which `CapsRequired` enforces), `AllocationExact` and
`AdmissionFits` for one period, and `NothingForgotten` after a backup in which no obligation is
between its two transactions.

### Fairness

`Dispatch.Fairness`: weak fairness of the reconciler for each call and of the settlement sweep for each
operation. `Relay.Run` starts both loops for the life of the process and each lists its oldest open rows. The reconciler is
enabled for a call only while it is among the oldest `ReconcileLimit` unresolved ones (100 in the code), so nothing is assumed of
a call behind them; `SentIsObserved` is claimed under `<>[]~Crowded(c)`, and `DispatchStarved` shows the starvation without it. An operation that is settled leaves the
list of the sweep. `SentIsObserved` also assumes that the query under a call's original identity
finally gets a definite answer for a call that was sent; a sender that never answers keeps a call unknown for
ever, in the code too. `Lifecycle.Fairness`: weak fairness of the intake reconciler, of reading the list, of the
command relay and of the settlement sweep; strong fairness of an engine call and of its mark, which may fail
any number of times but not always. `Events.Fairness`: weak fairness of a transaction that wrote (its handler commits or fails), of
the forwarder and of the handler of a stream, whose poll timer fires without any wake. The forwarder fails a bounded number
of times. Nothing is assumed of the Workflow, of callers, senders or operators; the other specifications have no fairness.

## Proofs

Every theorem holds for all values of the constants that satisfy the named assumptions of its module: any sets of
operations, calls, requests, transfers, obligations, transactions or streams and any bounds. TLC evaluates the
assumptions on every run and checks the same property on a small instance.

| Module | Theorem | States |
| --- | --- | --- |
| `DispatchProofs` | `TypeCorrect` | `Spec => []TypeOK` |
| | `PermissionIsSingle` | `Spec => []SinglePermission` |
| | `InventoryFirst` | `Spec => []InventoryBeforePermission` |
| | `ReplacementIsSafe` | `Spec => []NoDoubleSend` |
| | `ConfirmedCostsNothing` | `Spec => []NotSentCostsNothing` |
| | `CloseIsComplete` | `Spec => []ClosedAttemptHasNoPrepared` (no prepared call of a closed attempt) |
| | `TerminalIsQuiet` | `Spec => []TerminalHoldsNothing` |
| | `BarrierIsFinal` | `Spec => []ConvergedIsQuiet` |
| | `OutcomesAreFinal` | `Spec => OutcomeFinal` |
| | `FenceStopsPermissions` | `Spec => NoPermissionAfterFence` |
| `MoneyProofs` | `ChargedOnce` | `Spec => []MeteringExact` |
| | `UnknownIsStated` | `Spec /\ []FundedOnce => []ExposureTruthful` |
| | `AllocationsAreExact` | `Spec /\ []FundedOnce => []AllocationExact` |
| | `HeldCanBeReleased` | `Spec /\ []FundedOnce => []HeldIsReleasable` |
| | `PoolsAreExact` | `Spec => []PoolExact`, over any number of periods |
| | `CapsAreExact` | caps required, free calls without exposure: `Spec => []CapExact` |
| | `AdmissionsFit` | the same: `Spec /\ []FundedOnce => AdmissionFits` |
| | `SettlementIsCovered` | `Spec /\ []FundedOnce => []SettlementCovered` (a terminal operation reserves nothing, its pools still count what it gives back) |
| `LifecycleProofs` | `InventoryIsFirst` | `Spec => []InventoryFirst` |
| | `CancelAlwaysDominates` | `Spec => []CancelDominates` |
| | `OutcomeAlwaysStated` | `Spec => []OutcomeIsStated` |
| | `PermitAlwaysCovers` | `Spec => []PermitCoversWork` |
| | `EndsResolved` | `Spec => []TerminalIsResolved`, for every profile |
| | `EndsQuiescent` | without hold and question rounds: `Spec => []EndIsQuiescent` |
| | `ReceiptsAlwaysTrue` | without hold and question rounds, one attempt: `Spec => []ReceiptIsTrue` |
| | `EndIsNeverLeft` | without hold and question rounds, one attempt: `Spec => TerminalIsFinal` |
| `ArtifactsProofs` | `ServedWasVerified` | `Spec => []ServedIsVerified` |
| | `NoSlotIsLost` | `Spec => []SlotsAreHeld` |
| | `CommitsStayInScope` | `Spec => CommitsInScope` |
| `PreparationProofs` | `ReceiptsAreTrue` | `PreparationSpec => []AnswerReceiptIsTrue` |
| | `ExecutesOnFinal` | `PreparationSpec => []ExecutesOnFinalBrief` |
| `PublicationProofs` | `UpstreamOrder` | `Spec => []UpstreamInOrder` |
| | `ReleaseBacked` | `Spec => []ReleaseIsBacked` |
| | `EffectsAreGuarded` | `Spec => ImplementsGuardedWrite`, the refinement of `GuardedWrite` |
| `RecoveryProofs` | `RecoveryEstablishesTruth` | `Spec => []EstablishedIsTrue` |
| | `ReopeningForgetsNothing` | no half-admitted call in the backup: `Spec => []NothingForgotten` |
| `EventsProofs` | `NoEventIsSkipped` | `Spec => []PassedIsPublished` |
| | `ClientsReceiveExactly` | `Spec => []StreamIsExact` |
| | `WakesAreNeverLost` | `Spec => []NoLostWake` |

Each module also proves its inductive invariant (`...Invariant`) and, from it, `[]TypeOK` (`...Types`).

### Assumptions and hypotheses

The assumptions of the modules are the types of their constants. Beyond types, `DispatchAssumption`, `ArtifactsAssumption`,
`PreparationAssumption` and `EventsAssumption` say that the operations and calls, the finalize calls, the generations and the
transactions are finitely many, because money is summed, slots and permits are counted and ids are given out by counting.
Some theorems have hypotheses of their own, and they are needed:

* `UnknownIsStated`, `AllocationsAreExact`, `HeldCanBeReleased`, `AdmissionsFit`, `SettlementIsCovered`: `[]FundedOnce`, no
  operation draws on the pools of two periods. It holds of every behaviour with one period and of those in which `Allocate` is
  not called again after a rollover. `DispatchRollover` is the counterexample: the `Allocate` of the
  next period declares an operation funded while a call is unknown, and adds an allocation that reserved nothing.
* `CapsAreExact`, `AdmissionsFit`: `CapsRequired`, the setting of every deployment but development, and
  `FreeDeclaresNothing`, a call without a price declares no exposure. `DispatchLateCap` is the counterexample without
  the second: the cap is set over a free call that already holds exposure; where caps are not required any call may be.
* `EndsQuiescent`, `ReceiptsAlwaysTrue`, `EndIsNeverLeft`: `PlainProfile`, no hold and no question rounds, which are the profiles
  LocalCheck, PreviewBuild and Release; the last two also `SingleAttempt`. `LifecycleHold`, `LifecycleAnswer`, `LifecycleReceipt` and
  `LifecycleTwoOpen` are the counterexamples without them.
* `ReopeningForgetsNothing`: `BackupsPrepared = FALSE`. `RecoveryPrepared` shows what happens otherwise. It holds for any number
  of runs, also two at once; `RecoveryEstablishesTruth` does not need the hypothesis.

### The inductive invariants

None of the properties is inductive alone.

*Admission.* `AdmissionInv` relates a request's progress to the rows: a request that was told has ended
(`ToldIsDone`); a request past its inventory write left a durable object (`PutIsDurable`); a confirmed call was attested by
its sender and an attested call was not sent (`SealedIsNotSent`); an admitted replacement has a confirmed original
(`ReplacedIsConfirmed`); a tool call that may have been sent has a registered, unconverged grant (`SenderIsRegistered`).
`NoDoubleSend` then follows: a replacement is sent only after its original was confirmed, and a confirmed call has no send
and can never get one.

*Metering and finance.* A call is charged the price of the largest usage among some of its reports and at least that of all of them
(`ChargedIsEstablished`): a report charges the difference to the price of all reports, or nothing where an inclusive price fell.
The largest element of a bounded set exists; where units are priced apart the rounded price is monotone in them, so the two coincide. An admitted call has an allocation of its operation (`AdmittedIsFunded`), and no step takes
an allocation back; with `FundedOnce` that leaves no funding after the first call, and `settleFinance` is the only step that
moves between funded and exposure_unknown.

*Money.* A sum of naturals over a finite set is the number of its units (`SumIsCount`): the fold is a function defined on the
subsets, and the least subset on which two such functions differ cannot exist. So sums split, agree and change by
the difference of one value (`SumFacts`, `SumAgrees`, `SumChange`) without induction over data. `MoneyStep` then says of every
step that it moves the money of one operation together with its calls (`MovesMoney`: reserved exposure with held exposure,
consumed with charged cost, caps with both), leaves all of it where it is, or is one of `Allocate`, `SettleFinance` and
`SetCostCap`. What makes the sums inductive are the facts about those three: an operation is funded before its first call
(`AdmittedIsFunded` with `FundedOnce`), and a call without a consumed permission was charged nothing (`UnissuedIsFree`), so a new
allocation starts from zero rightly; an allocation gives back once and at most its amount (`LedgerHolds`); a call
admitted under a cap that is not set has no price (`UncappedIsFree`), so a new cap starts from zero rightly and no later
release is clamped. `AdmissionsFit` adds that the transaction that checks the headroom reserves it.

The attempt to prove `WithinAllocation`, once the claim of a passing run, failed for a good reason: the release of an observed
call's exposure does not wait for its last report. `DispatchLateCharge` is the counterexample TLC then found, and `AdmissionFits` says
what the code does guarantee, at the time of each admission.

*Lifecycle.* `IntakeComesFirst` and `LaunchComesFirst` follow an obligation from the handler to the inventory to the
engine; `AttemptIsKept` says that only a closed attempt has an outcome or a cleanup. For every profile, an unknown cleanup of an
attempt is one of the operation or something is still open (`CleanupIsKnown`), which keeps it from ending, and an unknown outcome
is left by a cancel only (`EndIsResolved`). For profiles without hold and question rounds,
`UnknownIsReconciling` says that an operation with an attempt of unknown outcome is reconciling, which is what a hold or an answer
breaks; with one attempt, `EndIsQuiet` adds that nothing of an ended operation is still open.

*Artifacts.* The facts a call takes to its commit are those of the version it names (`CallKnows`), and stay so because an
upload adds a version and changes none; the commit carries them to the transfer (`FinalizedIsVerified`) and a binding or a read to
what is served (`ServedIsFinalized`). The slots are counted by adding and removing one holder.

*Preparation.* What a lane carries is the answer the round keeps (`LaneCarriesAnswer`), and a recorded receipt is one the run
gave (`ReceiptIsKnown`). A generation is accepted only with a succeeded preparation and permitted
only on a current brief (`GenerationIsBound`); a preparation that succeeded records no other brief.

*Publication.* One request at a time holds the grant of an effect (`GrantIsSingle`), a request asks for its permit only with
its obligation kept (`PermitIsKept`), what was performed was permitted (`PerformedIsIssued`), a recorded outcome is what happened (`OutcomeIsTrue`),
and the ledger holds what a release effect or a projection rests on (`AuthorityHolds`, `LedgerBacksRelease`). With it every step of the
protocol is a step of `GuardedWrite` or a stutter.

*Recovery.* The invariant for all constants says that nothing happens before its permit (`PermitComesFirst`), that runs come after
the loss (`LossComesFirst`), that what a backup holds stays true (`BackupIsTrue`), and `EstablishedIsTrue`. Reopening needs the history of
each run: a run that has begun fenced the operation, so nothing new is permitted (`ScopeIsFenced`); every obligation at or below the
cursor of a listed page has a finding (`PagesAreListed`, `StepIsWhole`); a finding, and what a worker that read one is about to
write, is true (`FindingIsTrue`, `StepIsTrue`), where a stopped launch that its owner closed meanwhile is closed and seen, its cleanup
perhaps unknown (`Known`, `IsClosed`); a decision for the run stands (`DecisionStands`); so a run that reopened left nothing
(`ReopenedIsClean`). That pages
leave no gap uses the least-number principle, proved from the library's well-foundedness theorem.

*Events.* For a stream: what the client has is a run of numbers from one and the page of its handler is the next run
(`PageIsNext`); an operation read as final has the length that was covered (`FinalIsCovered`); a handler that has listed
everything is woken for what is recorded after (`WakeIsKept`, the strengthening of `NoLostWake` to the time before the wait).
For the forwarder: every transaction in progress has a larger id than the position, the batch and everything published
(`PositionIsBelow`); the batch is the next visible rows without a gap (`BatchIsNext`); an event that is not published is in a
row ahead of the position (`NothingSkipped`). A commit makes rows visible only ahead of the forwarder, which is why the
order of commits does not matter.

The induction steps have one lemma per action or group of actions; frame lemmas dispose of the actions that leave the variables of a
conjunct alone.

### Only model-checked

Liveness: `SentIsObserved`, `TerminalIsSettled`, `AcceptedIsStarted`, `RelayedIsSettled`, `EventsArrive`. Fairness and ENABLED are
out of the prover's reach. Every invariant and every action property of the passing runs is stated by a theorem.

## Not modelled

* The order of the queue of a resource pool and the expiry of its requests: the capacity is (`ExecutesOnFinalBrief`), fairness between
  waiting generations is not claimed by the code.
* Lock order. A transaction is one action, so a deadlock, which PostgreSQL resolves by aborting one transaction, is a
  call that does not happen.
* The money of calls restored by recovery (`Budget.Restore`), the intake class of recovery, runs over several scopes, and a
  `Create` that commits across the closure.
* Retired price revisions, spend reports, pool creation, attempt progress, instance observation, preview records, read-only projections and
  listings.
* Request conversion, authentication, configuration, wiring, migrations, telemetry, the object
  store and database clients, canonical encoding, the archive walk and signature checking. They hold no protocol state; what they answer to
  the core (a lost acknowledgement, a refused authority, verified evidence) is a nondeterministic choice of the models.
