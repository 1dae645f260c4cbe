----------------------------- MODULE Lifecycle -----------------------------
(***************************************************************************)
(* One operation from its intake to its settlement: the intake obligation, *)
(* the relay of its start and its cancel to the workflow engine, its       *)
(* attempts, launches and results, its question rounds, the control        *)
(* commands and the way an ended attempt, a settlement command or a stored *)
(* intent ends it (application/operations.go, execution.go,                *)
(* execution_settlement.go, generation.go, preparation.go and relay.go     *)
(* over domain/operation.go, attempt.go, generation.go, preparation.go).   *)
(*                                                                         *)
(* Every transaction holds the operation's row lock until commit and is    *)
(* one action.  What happens between two transactions of one call (an      *)
(* inventory write, a call of the workflow engine) is an action of its     *)
(* own.  A refused call writes nothing: a deadline, an epoch, a revision   *)
(* or a closed scope that refuses one is a call that does not happen.      *)
(* Calls and effects are seen only as obligations: may a sender still act? *)
(***************************************************************************)
EXTENDS Naturals, FiniteSets

CONSTANTS
    Attempts,
    Obligations,    \* dispatches and effects
    Paid,           \* the dispatches among them
    AttemptOf,      \* obligation -> attempt; a write may name none
    NoAttempt,
    Commands,       \* tracked control commands
    Kind,           \* command -> cancel | hold | resume | change_definition
    Replicas,       \* processes running the starts lane of the relay
    MultiStep,      \* the profile settles through SettleOperation
    Queued,         \* the profile waits for a permit, funding and a lease
    SupportsControl,\* the profile supports hold, resume, change_definition
    MaxRounds,      \* question rounds of the profile, 0 but for a preparation
    VerdictReports, OutcomeReports, CleanupReports  \* what results and closes report

ASSUME LifecycleAssumption ==
    /\ Paid \subseteq Obligations
    /\ NoAttempt \notin Attempts
    /\ AttemptOf \in [Obligations -> Attempts \cup {NoAttempt}]
    /\ \A x \in Paid : AttemptOf[x] \in Attempts
    /\ Kind \in [Commands -> {"cancel", "hold", "resume", "change_definition"}]
    /\ MultiStep \in BOOLEAN /\ Queued \in BOOLEAN /\ SupportsControl \in BOOLEAN
    /\ Queued => MultiStep
    /\ MaxRounds \in Nat
    /\ VerdictReports \subseteq {"certified", "invalid"}
    /\ OutcomeReports \subseteq {"completed", "failed", "canceled", "unknown"}
    /\ CleanupReports \subseteq {"not_required", "pending", "complete", "unknown"}

VARIABLES
    op,         \* the operation: lifecycle, control, cleanup, relay
    intake,     \* pending | confirmed
    lease,      \* none | held | lost | released
    funded,     \* none | allocated | recorded
    permit,     \* execution permit: none | active | released
    intent,     \* stored settlement intent, none before any
    question,   \* rounds asked, and whether the last one is open
    att,        \* attempt -> state, outcome, cleanup, verdict of its stage
    launch,     \* attempt -> none | pending | confirmed
    running,    \* attempts with a current instance
    oblig,      \* obligation -> none | prepared | issued | unknown | resolved
    cmd,        \* command -> outcome and relay
    object,     \* obligations durable in the inventory: "intake", attempts
    lane,       \* replica -> where its starts lane is
    workflow,   \* the workflow run: none | running | closed
    asked,      \* the run was asked to cancel
    answer      \* command -> what the run's handler answered

bootVars == <<intake, lease, funded, permit>>
workVars == <<att, launch, running>>
engineVars == <<lane, workflow, asked, answer>>
vars == <<op, bootVars, intent, question, workVars, oblig, cmd, object, engineVars>>

-----------------------------------------------------------------------------
Terminals == {"succeeded", "failed", "canceled"}
Lifecycles == {"accepted", "running", "waiting", "reconciling", "suspended"} \cup Terminals
Controls == {"none", "hold_pending", "hold_applied", "cancel_pending", "cancel_applied"}
Cleanups == {"not_required", "pending", "complete", "unknown"}
RelayStates == {"pending", "started", "cancel_pending", "settled"}
Operation == [lifecycle : Lifecycles, control : Controls, cleanup : Cleanups, relay : RelayStates]

AttemptStates == {"none", "open", "launch_prepared", "running", "result_accepted", "closed"}
AttemptOutcomes == {"completed", "failed", "canceled", "unknown"}
Verdicts == {"certified", "invalid"}
Attempt == [state : AttemptStates, outcome : AttemptOutcomes \cup {"none"},
            cleanup : Cleanups \cup {"none"}, verdict : Verdicts \cup {"none"},
            settled : BOOLEAN]      \* its obligations-settled transition is recorded

CommandOutcomes == {"none", "pending", "applied", "blocked", "rejected"}
Command == [outcome : CommandOutcomes, relay : {"none", "pending", "sent", "settled"}]

\* Every variable has its type.
TypeOK ==
    /\ op \in Operation
    /\ intake \in {"pending", "confirmed"}
    /\ lease \in {"none", "held", "lost", "released"}
    /\ funded \in {"none", "allocated", "recorded"}
    /\ permit \in {"none", "active", "released"}
    /\ intent \in Terminals \cup {"none"}
    /\ question \in [asked : 0..MaxRounds, open : BOOLEAN]
    /\ att \in [Attempts -> Attempt]
    /\ launch \in [Attempts -> {"none", "pending", "confirmed"}]
    /\ running \subseteq Attempts
    /\ oblig \in [Obligations -> {"none", "prepared", "issued", "unknown", "resolved"}]
    /\ cmd \in [Commands -> Command]
    /\ object \subseteq Attempts \cup {"intake"}
    /\ lane \in [Replicas -> {"idle", "start", "started", "cancel", "canceled"}]
    /\ workflow \in {"none", "running", "closed"}
    /\ asked \in BOOLEAN
    /\ answer \in [Commands -> {"none", "applied", "blocked", "rejected"}]

\* Create has committed the operation; its intake obligation is pending.
Init ==
    /\ op = [lifecycle |-> "accepted", control |-> "none", cleanup |-> "not_required", relay |-> "pending"]
    /\ intake = "pending" /\ lease = "none" /\ funded = "none" /\ permit = "none" /\ intent = "none"
    /\ question = [asked |-> 0, open |-> FALSE]
    /\ att = [a \in Attempts |-> [state |-> "none", outcome |-> "none", cleanup |-> "none", verdict |-> "none", settled |-> FALSE]]
    /\ launch = [a \in Attempts |-> "none"]
    /\ running = {} /\ object = {}
    /\ oblig = [x \in Obligations |-> "none"]
    /\ cmd = [k \in Commands |-> [outcome |-> "none", relay |-> "none"]]
    /\ lane = [r \in Replicas |-> "idle"]
    /\ workflow = "none" /\ asked = FALSE
    /\ answer = [k \in Commands |-> "none"]

-----------------------------------------------------------------------------
(* What the rules read.                                                    *)

Terminal(o) == o.lifecycle \in Terminals

FencedForNewDispatch ==
    op.control # "none" \/ Terminal(op) \/ op.lifecycle = "reconciling" \/ lease = "lost"

HasOpenAttempt == \E a \in Attempts : att[a].state \notin {"none", "closed"}

Unknown(a) == att[a].outcome = "unknown" \/ att[a].cleanup = "unknown"

HasUnknownAttempt == \E a \in Attempts : Unknown(a)

\* A sender may still act: a dispatch is prepared, or a permission without
\* a definite outcome is out.
UnresolvedEffects == \E x \in Obligations : oblig[x] \in {"prepared", "issued", "unknown"}

\* finance = exposure_unknown (Dispatch!ExposureTruthful).
ExposureUnknown == \E x \in Paid : oblig[x] = "unknown"

ObligationsOpen == UnresolvedEffects \/ HasUnknownAttempt \/ ExposureUnknown \/ op.cleanup = "unknown"

\* The last part of every transaction that may end the operation, on the
\* state it leaves: a terminal operation gives its permit back and an
\* applied cancel settles the pending cancel commands, neither of them
\* while an attempt or an obligation of a terminal operation is open.
TerminalWaits == Terminal(op) /\ (HasOpenAttempt \/ ObligationsOpen)

\* Mutant: the permit is given back with the lifecycle alone.
ReleasedPermit == IF Terminal(op)' /\ permit = "active" THEN "released" ELSE permit

SettledPermit == IF Terminal(op)' /\ ~TerminalWaits' /\ permit = "active" THEN "released" ELSE permit

SettledCommands ==
    [k \in Commands |->
        IF op'.control = "cancel_applied" /\ ~TerminalWaits' /\ Kind[k] = "cancel" /\ cmd[k].outcome = "pending"
        THEN [cmd[k] EXCEPT !.outcome = "applied"] ELSE cmd[k]]

SettleTerminal == permit' = SettledPermit /\ cmd' = SettledCommands

-----------------------------------------------------------------------------
(* Intake and the starts lane of the relay.                                *)

IntakePending == intake = "pending"

\* The obligation is durable; the acknowledgement may be lost.
PutIntake ==
    /\ IntakePending
    /\ object' = object \cup {"intake"}
    /\ UNCHANGED <<op, bootVars, intent, question, workVars, oblig, cmd, engineVars>>

ConfirmIntake ==
    /\ IntakePending /\ "intake" \in object
    /\ intake' = "confirmed"
    /\ UNCHANGED <<op, lease, funded, permit, intent, question, workVars, oblig, cmd, object, engineVars>>

\* Mutant: the start intent of an unconfirmed intake is listed.
ReadUnconfirmed(r) ==
    /\ lane[r] = "idle"
    /\ \/ op.relay = "pending" /\ lane' = [lane EXCEPT ![r] = "start"]
       \/ op.relay = "cancel_pending" /\ lane' = [lane EXCEPT ![r] = "cancel"]
    /\ UNCHANGED <<op, bootVars, intent, question, workVars, oblig, cmd, object, workflow, asked, answer>>

\* Mutant: the start is marked before the engine is called.
ReadAndMark(r) ==
    /\ lane[r] = "idle" /\ op.relay = "pending" /\ intake = "confirmed"
    /\ lane' = [lane EXCEPT ![r] = "start"]
    /\ op' = [op EXCEPT !.relay = "started"]
    /\ UNCHANGED <<bootVars, intent, question, workVars, oblig, cmd, object, workflow, asked, answer>>

\* What the starts lane lists: a start once its intake is confirmed, a
\* cancel always.
RelayPending ==
    (IF op.relay = "pending" /\ intake = "confirmed" THEN {"start"} ELSE {})
    \cup (IF op.relay = "cancel_pending" THEN {"cancel"} ELSE {})

\* A replica reads the pending start and cancel intents.
ReadPending(r) ==
    /\ lane[r] = "idle"
    /\ \E what \in RelayPending : lane' = [lane EXCEPT ![r] = what]
    /\ UNCHANGED <<op, bootVars, intent, question, workVars, oblig, cmd, object, workflow, asked, answer>>

\* Start reuses a running workflow of the same identity; the engine refuses
\* a second run of a closed one and the start is deferred.
StartWorkflow(r) ==
    /\ lane[r] = "start"
    /\ workflow' = IF workflow = "none" THEN "running" ELSE workflow
    /\ lane' = [lane EXCEPT ![r] = IF workflow = "closed" THEN "idle" ELSE "started"]
    /\ UNCHANGED <<op, bootVars, intent, question, workVars, oblig, cmd, object, asked, answer>>

MarkStarted(r) ==
    /\ lane[r] = "started"
    /\ op' = IF op.relay = "pending" THEN [op EXCEPT !.relay = "started"] ELSE op
    /\ lane' = [lane EXCEPT ![r] = "idle"]
    /\ UNCHANGED <<bootVars, intent, question, workVars, oblig, cmd, object, workflow, asked, answer>>

CancelWorkflow(r) ==
    /\ lane[r] = "cancel"
    /\ asked' = (asked \/ workflow = "running")
    /\ lane' = [lane EXCEPT ![r] = "canceled"]
    /\ UNCHANGED <<op, bootVars, intent, question, workVars, oblig, cmd, object, workflow, answer>>

MarkCancelSent(r) ==
    /\ lane[r] = "canceled"
    /\ op' = IF op.relay = "cancel_pending" THEN [op EXCEPT !.relay = "settled"] ELSE op
    /\ lane' = [lane EXCEPT ![r] = "idle"]
    /\ UNCHANGED <<bootVars, intent, question, workVars, oblig, cmd, object, workflow, asked, answer>>

\* The call fails, its answer is lost or the process restarts.
LaneFails(r) ==
    /\ lane[r] # "idle"
    /\ lane' = [lane EXCEPT ![r] = "idle"]
    /\ UNCHANGED <<op, bootVars, intent, question, workVars, oblig, cmd, object, workflow, asked, answer>>

\* The run completes, is terminated or reaches its history limit.
CloseWorkflow ==
    /\ workflow = "running"
    /\ workflow' = "closed"
    /\ UNCHANGED <<op, bootVars, intent, question, workVars, oblig, cmd, object, lane, asked, answer>>

-----------------------------------------------------------------------------
(* Bootstrap of a queued profile: permit, funding, lease.                  *)

RequestExecutionPermit ==
    /\ Queued /\ workflow = "running"
    /\ ~FencedForNewDispatch /\ intake = "confirmed"
    /\ permit # "active"
    /\ permit' = "active"
    /\ op' = [op EXCEPT !.lifecycle = "running"]
    /\ UNCHANGED <<intake, lease, funded, intent, question, workVars, oblig, cmd, object, engineVars>>

\* The pools are drawn on in one transaction, the funding occurrence is
\* recorded in the next.
RecordFunding ==
    /\ Queued
    /\ \/ funded = "none" /\ workflow = "running" /\ ~FencedForNewDispatch /\ funded' = "allocated"
       \/ funded = "allocated" /\ funded' = "recorded"
    /\ UNCHANGED <<op, intake, lease, permit, intent, question, workVars, oblig, cmd, object, engineVars>>

\* A confirmed lease report; a lost lease stays lost.
RecordLease ==
    /\ Queued /\ lease # "lost"
    /\ lease' \in {"held", "lost", "released"} \ {lease}
    /\ UNCHANGED <<op, intake, funded, permit, intent, question, workVars, oblig, cmd, object, engineVars>>

-----------------------------------------------------------------------------
(* Attempts.                                                               *)

BootstrapGate ==
    /\ MultiStep => ~ExposureUnknown /\ ~UnresolvedEffects
    /\ Queued => permit = "active" /\ funded = "recorded" /\ lease = "held"

NewAttempt(a) == att[a].state = "none" /\ ~FencedForNewDispatch /\ intake = "confirmed"

OpenAttempt(a) ==
    /\ workflow = "running"
    /\ BootstrapGate /\ NewAttempt(a)
    /\ att' = [att EXCEPT ![a].state = "open"]
    /\ op' = [op EXCEPT !.lifecycle = "running"]
    /\ UNCHANGED <<bootVars, intent, question, launch, running, oblig, cmd, object, engineVars>>

NewLaunch(a) == att[a].state \in {"open", "launch_prepared"} /\ ~FencedForNewDispatch

PrepareLaunch(a) ==
    /\ workflow = "running"
    /\ launch[a] = "none" /\ NewLaunch(a)
    /\ launch' = [launch EXCEPT ![a] = "pending"]
    /\ att' = [att EXCEPT ![a].state = "launch_prepared"]
    /\ op' = [op EXCEPT !.cleanup = "pending"]
    /\ UNCHANGED <<bootVars, intent, question, running, oblig, cmd, object, engineVars>>

PutLaunch(a) ==
    /\ launch[a] = "pending"
    /\ object' = object \cup {a}
    /\ UNCHANGED <<op, bootVars, intent, question, workVars, oblig, cmd, engineVars>>

\* The rules of the launch run again before it is confirmed.
ConfirmLaunch(a) ==
    /\ launch[a] = "pending" /\ a \in object /\ NewLaunch(a)
    /\ launch' = [launch EXCEPT ![a] = "confirmed"]
    /\ UNCHANGED <<op, bootVars, intent, question, att, running, oblig, cmd, object, engineVars>>

HasCurrentInstance(a) == a \in running

\* The first instance of the launch becomes current; a later one is only
\* recorded.  Evidence for a closed attempt never reopens it.
RegisterInstance(a) ==
    /\ launch[a] = "confirmed" /\ ~HasCurrentInstance(a)
    /\ running' = running \cup {a}
    /\ att' = IF att[a].state = "closed" THEN att ELSE [att EXCEPT ![a].state = "running"]
    /\ UNCHANGED <<op, bootVars, intent, question, launch, oblig, cmd, object, engineVars>>

\* A control intent alone still lets the verdict of a running instance in.
AcceptStage(a) ==
    /\ HasCurrentInstance(a)
    /\ att[a].state \in {"running", "launch_prepared"}
    /\ FencedForNewDispatch => op.control # "none"

AcceptResult(a) ==
    /\ AcceptStage(a)
    /\ \E v \in VerdictReports : att' = [att EXCEPT ![a] =
            [@ EXCEPT !.state = "result_accepted", !.verdict = v]]
    /\ UNCHANGED <<op, bootVars, intent, question, launch, running, oblig, cmd, object, engineVars>>

-----------------------------------------------------------------------------
(* Question rounds of a preparation.                                       *)

\* The wait of a round may end; nothing but its answer closes it.
OpenQuestionSet == question.open

NewQuestionSet ==
    /\ ~FencedForNewDispatch /\ intake = "confirmed"
    /\ question.asked < MaxRounds /\ ~OpenQuestionSet

RecordQuestionSet ==
    /\ workflow = "running" /\ NewQuestionSet
    /\ question' = [asked |-> question.asked + 1, open |-> TRUE]
    /\ op' = [op EXCEPT !.lifecycle = "waiting"]
    /\ UNCHANGED <<bootVars, intent, workVars, oblig, cmd, object, engineVars>>

NewAnswer == OpenQuestionSet /\ ~Terminal(op) /\ op.control = "none"

\* The operation runs again, also one that reconciled meanwhile.
SubmitAnswer ==
    /\ NewAnswer
    /\ question' = [question EXCEPT !.open = FALSE]
    /\ op' = [op EXCEPT !.lifecycle = "running"]
    /\ UNCHANGED <<bootVars, intent, workVars, oblig, cmd, object, engineVars>>

-----------------------------------------------------------------------------
(* Obligations, as Dispatch and the effect ledger leave them.              *)

NamesAttempt(x) == AttemptOf[x] \in Attempts

\* A dispatch belongs to a running attempt.  A write may name an attempt
\* without an accepted result, or none.  Both need the confirmed lease of
\* a queued profile.
MayIssue(x) ==
    /\ ~FencedForNewDispatch
    /\ Queued => lease = "held"
    /\ NamesAttempt(x) =>
        att[AttemptOf[x]].state \in IF x \in Paid THEN {"running"} ELSE {"open", "launch_prepared", "running"}

PrepareDispatch(x) ==
    /\ x \in Paid /\ oblig[x] = "none" /\ MayIssue(x)
    /\ oblig' = [oblig EXCEPT ![x] = "prepared"]
    /\ UNCHANGED <<op, bootVars, intent, question, workVars, cmd, object, engineVars>>

\* The permission is consumed; a PREPARED effect counts as nothing yet.
Issue(x) ==
    /\ oblig[x] = IF x \in Paid THEN "prepared" ELSE "none"
    /\ MayIssue(x)
    /\ oblig' = [oblig EXCEPT ![x] = "issued"]
    /\ UNCHANGED <<op, bootVars, intent, question, workVars, cmd, object, engineVars>>

ReportUnknown(x) ==
    /\ oblig[x] = "issued"
    /\ oblig' = [oblig EXCEPT ![x] = "unknown"]
    /\ UNCHANGED <<op, bootVars, intent, question, workVars, cmd, object, engineVars>>

\* A definite outcome, a denial or evidence that nothing was sent.
Resolve(x) ==
    /\ oblig[x] \in {"prepared", "issued", "unknown"}
    /\ oblig' = [oblig EXCEPT ![x] = "resolved"]
    /\ UNCHANGED <<op, bootVars, intent, question, workVars, cmd, object, engineVars>>

-----------------------------------------------------------------------------
(* Closing an attempt.                                                     *)

\* Mutant: only the reported outcome says canceled, not the intent.
ReportedCanceled(o, outcome) == outcome = "canceled"

CancelRequested(o, outcome) == o.control \in {"cancel_pending", "cancel_applied"} \/ outcome = "canceled"

\* Mutant: a completed attempt succeeds whatever its verdict and cleanup.
SettleCloseUnverified(o, v, outcome, clean) ==
    LET Becomes(l, c) == [lifecycle |-> l, control |-> c, cleanup |-> clean, relay |-> o.relay]
    IN  IF outcome = "unknown" \/ clean = "unknown" THEN Becomes("reconciling", o.control)
        ELSE IF CancelRequested(o, outcome) THEN Becomes("canceled", "cancel_applied")
        ELSE Becomes(IF outcome = "completed" THEN "succeeded" ELSE "failed", o.control)

\* The operation after its attempt, with the stage's verdict v, closed.
SettleClose(o, v, outcome, clean) ==
    LET cancel == CancelRequested(o, outcome)
        Becomes(l, c) == [lifecycle |-> l, control |-> c, cleanup |-> clean, relay |-> o.relay]
    IN  IF outcome = "unknown" \/ clean = "unknown"
        THEN Becomes("reconciling", IF cancel /\ o.control # "cancel_applied" THEN "cancel_pending" ELSE o.control)
        ELSE IF cancel THEN Becomes("canceled", "cancel_applied")
        ELSE IF MultiStep THEN Becomes("running", o.control)
        ELSE Becomes(IF outcome = "completed" /\ v = "certified" /\ clean = "complete"
                     THEN "succeeded" ELSE "failed", o.control)

\* Mutant: another attempt's uncertainty is forgotten.
KeepReconcilingOwn(o, unresolved, others) ==
    [lifecycle |-> IF unresolved THEN "reconciling" ELSE o.lifecycle,
     control   |-> IF unresolved /\ o.control = "cancel_applied" THEN "cancel_pending" ELSE o.control,
     cleanup   |-> o.cleanup,
     relay     |-> IF ~unresolved /\ o.lifecycle \in Terminals THEN "settled" ELSE o.relay]

\* An obligation of the operation, or another attempt's uncertainty, keeps
\* it reconciling and a cancel pending.
KeepReconciling(o, unresolved, others) ==
    [lifecycle |-> IF unresolved \/ others THEN "reconciling" ELSE o.lifecycle,
     control   |-> IF (unresolved \/ others) /\ o.control = "cancel_applied" THEN "cancel_pending" ELSE o.control,
     cleanup   |-> IF others THEN "unknown" ELSE o.cleanup,
     relay     |-> IF ~unresolved /\ ~others /\ o.lifecycle \in Terminals THEN "settled" ELSE o.relay]

\* Later cleanup evidence for a closed attempt whose cleanup was unknown.
CanSettleCleanup(a, clean) == att[a].cleanup = "unknown" /\ clean # "unknown"

\* A close, or later evidence for a closed attempt that settles it: a
\* cleanup that was unknown, or the same outcome of a reconciling operation
\* whose obligations resolved, which is a transition of the attempt that is
\* recorded once: a later one is rolled back.  The PREPARED dispatches of the attempt are
\* denied after the obligations are looked at.
CloseAttempt(a) ==
    LET unresolved == UnresolvedEffects \/ ExposureUnknown
        others == \E b \in Attempts \ {a} : Unknown(b)
    IN  /\ workflow = "running"
        /\ \E outcome \in OutcomeReports, clean \in CleanupReports, again \in BOOLEAN :
            /\ \/ att[a].state \notin {"none", "closed"} /\ ~again
               \/ /\ att[a].state = "closed" /\ att[a].outcome = outcome
                  /\ \/ CanSettleCleanup(a, clean) /\ ~again
                     \/ op.lifecycle = "reconciling" /\ ~unresolved /\ ~others /\ att[a].cleanup # "unknown"
                        /\ clean # "unknown" /\ outcome # "unknown" /\ again /\ ~att[a].settled
            /\ att' = [att EXCEPT ![a] = [state |-> "closed", outcome |-> outcome, cleanup |-> clean,
                                          verdict |-> @.verdict, settled |-> @.settled \/ again]]
            /\ oblig' = [x \in Obligations |-> IF AttemptOf[x] = a /\ oblig[x] = "prepared" THEN "resolved" ELSE oblig[x]]
            /\ op' = KeepReconciling(SettleClose(op, att[a].verdict, outcome, clean), unresolved, others)
        /\ SettleTerminal
        /\ UNCHANGED <<intake, lease, funded, intent, question, launch, running, object, engineVars>>

\* Any other repeated close, and a repeated settlement of a terminal
\* operation, only settle what a terminal operation settles.
RepeatTerminal ==
    /\ workflow = "running"
    /\ (MultiStep /\ Terminal(op)) \/ \E a \in Attempts : att[a].state = "closed"
    /\ UNCHANGED <<op, att, oblig>>
    /\ SettleTerminal
    /\ UNCHANGED <<intake, lease, funded, intent, question, launch, running, object, engineVars>>

-----------------------------------------------------------------------------
(* Settling a multi-step operation.                                        *)

\* A cancel intent dominates the stated outcome.
SettledAs(o, outcome) ==
    IF CancelRequested(o, outcome)
    THEN [lifecycle |-> "canceled", control |-> "cancel_applied", cleanup |-> o.cleanup, relay |-> "settled"]
    ELSE [lifecycle |-> outcome, control |-> o.control, cleanup |-> o.cleanup, relay |-> "settled"]

SettleOperation ==
    /\ MultiStep /\ workflow = "running"
    /\ ~Terminal(op) /\ ~HasOpenAttempt
    /\ \E outcome \in Terminals :
        /\ intent \in {"none", outcome}
        /\ ObligationsOpen => intent = "none"
        /\ intent' = outcome
        /\ op' = IF ObligationsOpen
                 THEN [lifecycle |-> "reconciling", control |-> op.control, relay |-> op.relay,
                       cleanup |-> IF HasUnknownAttempt THEN "unknown" ELSE op.cleanup]
                 ELSE SettledAs(op, outcome)
    /\ UNCHANGED <<att, oblig>>
    /\ SettleTerminal
    /\ UNCHANGED <<intake, lease, funded, question, launch, running, object, engineVars>>

\* A settlement intent is stored and the operation still reconciles.
ReconcilingSettlement == op.lifecycle = "reconciling" /\ intent # "none"

\* The settlement sweep re-applies the stored intent, whether or not the
\* run is still there.
SettleFromIntent ==
    /\ MultiStep /\ ReconcilingSettlement
    /\ ~HasOpenAttempt /\ ~ObligationsOpen
    /\ op' = SettledAs(op, intent)
    /\ UNCHANGED <<att, oblig>>
    /\ SettleTerminal
    /\ UNCHANGED <<intake, lease, funded, intent, question, launch, running, object, engineVars>>

-----------------------------------------------------------------------------
(* Control commands.                                                       *)

\* Mutant: no open attempt is taken for quiescence.
NoOpenSender == ~HasOpenAttempt

SendersQuiescent ==
    /\ ~HasOpenAttempt /\ ~UnresolvedEffects
    /\ op.lifecycle # "reconciling" /\ op.cleanup # "unknown" /\ ~ExposureUnknown

\* DecideCancel: the receipt, and whether the operation moves with it.
CancelOutcome ==
    IF Terminal(op) THEN "rejected"
    ELSE CASE op.control = "cancel_applied" -> "applied"
           [] op.control = "cancel_pending" -> "pending"
           [] OTHER -> IF SendersQuiescent THEN "applied" ELSE "pending"

\* Mutant: a terminal operation is fenced too.
InstallsFenceAnyway == op.control \notin {"cancel_pending", "cancel_applied"}

InstallsFence == ~Terminal(op) /\ op.control \notin {"cancel_pending", "cancel_applied"}

\* A start that is still pending is settled, a started run is canceled.
ApplyCancelFence ==
    [lifecycle |-> IF SendersQuiescent THEN "canceled" ELSE op.lifecycle,
     control   |-> IF SendersQuiescent THEN "cancel_applied" ELSE "cancel_pending",
     cleanup   |-> IF SendersQuiescent /\ op.cleanup = "pending" THEN "complete" ELSE op.cleanup,
     relay     |-> CASE op.relay = "pending" -> "settled"
                     [] op.relay = "started" -> "cancel_pending"
                     [] OTHER -> op.relay]

\* The command row is inserted after what a terminal operation settles.
SubmitCancel(k) ==
    /\ Kind[k] = "cancel" /\ cmd[k].outcome = "none"
    /\ UNCHANGED <<intake, lease, funded, intent, question, workVars, oblig, object, engineVars>>
    /\ op' = IF InstallsFence THEN ApplyCancelFence ELSE op
    /\ permit' = IF InstallsFence THEN SettledPermit ELSE permit
    /\ cmd' = [(IF InstallsFence THEN SettledCommands ELSE cmd) EXCEPT ![k].outcome = CancelOutcome]

\* DecideControl: what a hold, resume or change_definition may be answered.
ControlOutcomes(kind) ==
    IF ~SupportsControl \/ Terminal(op) \/ op.control \in {"cancel_pending", "cancel_applied"} THEN {"rejected"}
    ELSE IF op.lifecycle = "reconciling" THEN {"blocked"}
    ELSE CASE kind = "hold" -> IF op.control = "hold_applied" THEN {"applied"} ELSE {"pending"}
           [] kind = "resume" -> CASE op.control = "none" -> {"rejected"}
                                   [] op.control = "hold_pending" -> {"blocked"}
                                   [] OTHER -> IF lease = "lost" THEN {"rejected"} ELSE {"pending", "rejected"}
           [] OTHER -> {"rejected", "applied"} \cup
                            IF op.control = "hold_pending" THEN {"blocked"} ELSE {"pending"}

\* A pending command is relayed, except a hold that finds one pending.
SubmitControl(k) ==
    /\ Kind[k] # "cancel" /\ cmd[k].outcome = "none"
    /\ \E outcome \in ControlOutcomes(Kind[k]) :
        LET relayed == outcome = "pending" /\ ~(Kind[k] = "hold" /\ op.control = "hold_pending")
        IN  /\ cmd' = [cmd EXCEPT ![k] = [outcome |-> outcome, relay |-> IF relayed THEN "pending" ELSE "none"]]
            /\ op' = IF relayed /\ Kind[k] = "hold" THEN [op EXCEPT !.control = "hold_pending"] ELSE op
    /\ UNCHANGED <<bootVars, intent, question, workVars, oblig, object, engineVars>>

\* What the commands lane lists: intents to send, and sent ones without a
\* recorded answer.
CommandRelayPending == {k \in Commands : cmd[k].relay \in {"pending", "sent"}}

MarkCommandRelay(k) ==
    /\ k \in CommandRelayPending /\ cmd[k].relay = "pending"
    /\ cmd' = [cmd EXCEPT ![k].relay = "sent"]
    /\ UNCHANGED <<op, bootVars, intent, question, workVars, oblig, object, engineVars>>

\* The run's handler answers the tracked update once; a receipt lost on the
\* way is read again under the same identity.
AnswerCommand(k) ==
    /\ cmd[k].relay = "sent" /\ workflow = "running" /\ answer[k] = "none"
    /\ \E outcome \in {"applied", "blocked", "rejected"} : answer' = [answer EXCEPT ![k] = outcome]
    /\ UNCHANGED <<op, bootVars, intent, question, workVars, oblig, cmd, object, lane, workflow, asked>>

ApplyControl(o, kind, outcome) ==
    IF Terminal(o) \/ o.control \in {"cancel_pending", "cancel_applied"} THEN o
    ELSE CASE kind = "hold" /\ outcome = "applied" ->
                [lifecycle |-> "suspended", control |-> "hold_applied", cleanup |-> o.cleanup, relay |-> o.relay]
           [] kind = "hold" /\ outcome # "applied" /\ o.control = "hold_pending" -> [o EXCEPT !.control = "none"]
           [] kind = "resume" /\ outcome = "applied" /\ o.control = "hold_applied" ->
                [lifecycle |-> "running", control |-> "none", cleanup |-> o.cleanup, relay |-> o.relay]
           [] OTHER -> o

\* Mutant: a run that cannot take the update gives no answer.
RecordAnswered(k) ==
    LET superseded == Terminal(op) \/ op.control \in {"cancel_pending", "cancel_applied"}
        outcome == IF superseded THEN "rejected" ELSE answer[k]
    IN  /\ cmd[k].relay = "sent" /\ cmd[k].outcome = "pending" /\ answer[k] # "none"
        /\ cmd' = [cmd EXCEPT ![k] = [outcome |-> outcome, relay |-> "settled"]]
        /\ op' = ApplyControl(op, Kind[k], outcome)
        /\ UNCHANGED <<bootVars, intent, question, workVars, oblig, object, engineVars>>

\* The answer, or RUN_CLOSED from a run that cannot take the update, is
\* recorded once; a cancel or the end of the operation supersedes it.
RecordCommandRelay(k) ==
    LET superseded == Terminal(op) \/ op.control \in {"cancel_pending", "cancel_applied"}
        given == IF answer[k] # "none" THEN answer[k] ELSE "rejected"
        outcome == IF superseded THEN "rejected" ELSE given
    IN  /\ k \in CommandRelayPending /\ cmd[k].relay = "sent" /\ cmd[k].outcome = "pending"
        /\ answer[k] # "none" \/ workflow # "running"
        /\ cmd' = [cmd EXCEPT ![k] = [outcome |-> outcome, relay |-> "settled"]]
        /\ op' = ApplyControl(op, Kind[k], outcome)
        /\ UNCHANGED <<bootVars, intent, question, workVars, oblig, object, engineVars>>

-----------------------------------------------------------------------------
Relay(r) == ReadPending(r) \/ StartWorkflow(r) \/ MarkStarted(r) \/ CancelWorkflow(r) \/ MarkCancelSent(r)

Next ==
    \/ PutIntake \/ ConfirmIntake
    \/ \E r \in Replicas : Relay(r) \/ LaneFails(r)
    \/ CloseWorkflow
    \/ RequestExecutionPermit \/ RecordFunding \/ RecordLease
    \/ \E a \in Attempts : \/ OpenAttempt(a) \/ PrepareLaunch(a) \/ PutLaunch(a) \/ ConfirmLaunch(a)
                           \/ RegisterInstance(a) \/ AcceptResult(a) \/ CloseAttempt(a)
    \/ RepeatTerminal
    \/ \E x \in Obligations : PrepareDispatch(x) \/ Issue(x) \/ ReportUnknown(x) \/ Resolve(x)
    \/ RecordQuestionSet \/ SubmitAnswer
    \/ SettleOperation \/ SettleFromIntent
    \/ \E k \in Commands : \/ SubmitCancel(k) \/ SubmitControl(k)
                           \/ MarkCommandRelay(k) \/ AnswerCommand(k) \/ RecordCommandRelay(k)

Spec == Init /\ [][Next]_vars

(***************************************************************************)
(* The relay's lanes poll for as long as a process runs: an intake that    *)
(* stays pending is confirmed, an intent that stays listed is read again   *)
(* and a call that is tried again and again succeeds some day, the run's   *)
(* handler answers an update it accepted, and the settlement sweep tries   *)
(* every reconciling operation with an intent again.  Nothing is assumed   *)
(* of the run otherwise: it may stop at any step.                          *)
(***************************************************************************)
Fairness ==
    /\ WF_vars(PutIntake) /\ WF_vars(ConfirmIntake)
    /\ \A r \in Replicas : /\ WF_vars(ReadPending(r))
                            /\ SF_vars(StartWorkflow(r)) /\ SF_vars(MarkStarted(r))
                            /\ SF_vars(CancelWorkflow(r)) /\ SF_vars(MarkCancelSent(r))
    /\ \A k \in Commands : /\ WF_vars(MarkCommandRelay(k)) /\ WF_vars(AnswerCommand(k))
                            /\ WF_vars(RecordCommandRelay(k))
    /\ WF_vars(SettleFromIntent)

FairSpec == Spec /\ Fairness

-----------------------------------------------------------------------------
(* Properties.                                                             *)

(***************************************************************************)
(* An operation ends only when nothing can still act for it: no obligation *)
(* is unresolved and no attempt's cleanup is unknown, whatever the order   *)
(* of closes, late evidence, answers, settlements and commands.  An        *)
(* attempt of unknown outcome is left behind by a cancel only, and only    *)
(* where a hold receipt or an answer takes a reconciling operation out of  *)
(* that state (SettleClose with CloseAttempt, SettleOperation,             *)
(* SendersQuiescent, ApplyControl, SubmitAnswer).                          *)
(***************************************************************************)
TerminalIsResolved ==
    Terminal(op) =>
        /\ ~UnresolvedEffects
        /\ \A a \in Attempts :
            /\ att[a].cleanup # "unknown"
            /\ att[a].outcome = "unknown" => op.lifecycle = "canceled" /\ (SupportsControl \/ MaxRounds > 0)

(***************************************************************************)
(* No ended operation has an attempt of unknown outcome or cleanup (what   *)
(* SendersQuiescent is for).                                               *)
(***************************************************************************)
EndIsQuiescent == Terminal(op) => ~UnresolvedEffects /\ ~HasUnknownAttempt

\* An obligation of an attempt is unresolved.
AttemptsUnresolved ==
    \E x \in Obligations : NamesAttempt(x) /\ oblig[x] \in {"prepared", "issued", "unknown"}

(***************************************************************************)
(* Capacity is freed by evidence, never while something runs: as long as a *)
(* queued operation has an open attempt, an attempt of unknown outcome or  *)
(* cleanup, or an unresolved obligation of an attempt, it holds its permit *)
(* (BootstrapGate with settleTerminal), a canceled one included.           *)
(***************************************************************************)
PermitCoversWork ==
    Queued /\ (HasOpenAttempt \/ HasUnknownAttempt \/ AttemptsUnresolved) => permit = "active"

(***************************************************************************)
(* The permit covers every write of the operation, also one that names no  *)
(* attempt (CheckEffect).                                                  *)
(***************************************************************************)
PermitCoversWrites == Queued /\ UnresolvedEffects => permit = "active"

(***************************************************************************)
(* A cancel dominates: once its fence is installed the operation neither   *)
(* succeeds nor fails, whatever closes, settles or answers race it, and it *)
(* is canceled only with the cancel applied (SettleClose, SettleOperation, *)
(* ApplyControl).                                                          *)
(***************************************************************************)
CancelDominates ==
    /\ op.control \in {"cancel_pending", "cancel_applied"} => op.lifecycle \notin {"succeeded", "failed"}
    /\ op.lifecycle = "canceled" => op.control = "cancel_applied"

(***************************************************************************)
(* The receipt of a cancel says applied only when the senders are known    *)
(* quiescent, and no longer says pending once the operation is canceled    *)
(* and quiet (SubmitCommand with settleTerminal).                          *)
(***************************************************************************)
ReceiptIsTrue ==
    \A k \in Commands : Kind[k] = "cancel" =>
        /\ cmd[k].outcome = "applied" => op.lifecycle = "canceled" /\ ~HasOpenAttempt /\ ~ObligationsOpen
        /\ cmd[k].outcome = "pending" => op.control = "cancel_pending" \/ TerminalWaits

(***************************************************************************)
(* What runs outside Control has its obligation in the inventory: a run    *)
(* its intake, an instance its launch (confirmIntake and ListRelayPending, *)
(* confirmLaunch and RegisterInstance).                                    *)
(***************************************************************************)
InventoryFirst == (workflow # "none" => "intake" \in object) /\ running \subseteq object

(***************************************************************************)
(* A multi-step operation that succeeded or failed ended as its workflow   *)
(* stated (SettleOperation, SettleFromIntent); a single-step one succeeded *)
(* on a certified result with a complete cleanup (SettleClose).            *)
(***************************************************************************)
OutcomeIsStated ==
    /\ MultiStep /\ op.lifecycle \in {"succeeded", "failed"} => op.lifecycle = intent
    /\ ~MultiStep /\ op.lifecycle = "succeeded" => \E a \in Attempts :
            att[a].outcome = "completed" /\ att[a].verdict = "certified" /\ att[a].cleanup = "complete"

(***************************************************************************)
(* A terminal lifecycle is never left (Event.Completes).                   *)
(***************************************************************************)
TerminalIsFinal == [][Terminal(op) => op'.lifecycle = op.lifecycle]_vars

(***************************************************************************)
(* A canceled operation is never started: SubmitCommand settles a pending  *)
(* start (RelayPending).                                                   *)
(***************************************************************************)
NeverStartCanceled ==
    [][workflow = "none" /\ workflow' = "running" => op.control \notin {"cancel_pending", "cancel_applied"}]_vars

(***************************************************************************)
(* An accepted operation is started or its start is settled, whatever      *)
(* acknowledgement is lost (ReconcileIntake and the starts lane).          *)
(***************************************************************************)
AcceptedIsStarted == <>(workflow # "none" \/ op.relay = "settled")

(***************************************************************************)
(* A relayed control command gets its receipt, whether or not its run is   *)
(* still there and whatever supersedes it (relayCommand).                  *)
(***************************************************************************)
RelayedIsSettled ==
    \A k \in Commands : cmd[k].relay = "pending" ~> cmd[k].outcome \notin {"none", "pending"}

(***************************************************************************)
(* Every tracked hold gets its receipt (SubmitCommand).                    *)
(***************************************************************************)
HoldIsSettled ==
    \A k \in Commands : Kind[k] = "hold" /\ cmd[k].outcome = "pending" ~> cmd[k].outcome # "pending"

(***************************************************************************)
(* An operation with a stored settlement intent ends once its obligations  *)
(* resolved, whether or not a workflow still polls (SettleFromIntent).     *)
(***************************************************************************)
IntentIsApplied ==
    intent # "none" /\ ~HasOpenAttempt /\ ~ObligationsOpen ~> Terminal(op) \/ HasOpenAttempt \/ ObligationsOpen
=============================================================================
