-------------------------- MODULE LifecycleProofs --------------------------
(***************************************************************************)
(* What Lifecycle promises for any number of attempts, obligations,        *)
(* commands and replicas, with its proofs: types, the inventory that comes *)
(* first, the cancel that dominates, the outcome that was stated, the      *)
(* permit that covers the work and the operation that ends resolved; for a *)
(* profile without hold and question rounds, the end that leaves nothing   *)
(* unknown; and for a single attempt of one, the end that is final and the *)
(* receipt that is true.                                                   *)
(***************************************************************************)
EXTENDS Lifecycle, TLAPS

-----------------------------------------------------------------------------
(* The rows the rules return.                                              *)

(***************************************************************************)
(* An operation settled by a close is an operation (SettleClose).          *)
(***************************************************************************)
LEMMA SettleCloseType ==
    ASSUME NEW o \in Operation, NEW v, NEW outcome, NEW clean \in Cleanups
    PROVE  SettleClose(o, v, outcome, clean) \in Operation
BY DEF SettleClose, Operation, Lifecycles, Controls, Terminals

(***************************************************************************)
(* An operation kept reconciling is an operation (CloseAttempt).           *)
(***************************************************************************)
LEMMA KeepReconcilingType ==
    ASSUME NEW o \in Operation, NEW unresolved \in BOOLEAN, NEW others \in BOOLEAN
    PROVE  KeepReconciling(o, unresolved, others) \in Operation
BY DEF KeepReconciling, Operation, Lifecycles, Controls, Cleanups, RelayStates

(***************************************************************************)
(* An operation settled by a stated outcome is an operation                *)
(* (SettleOperation).                                                      *)
(***************************************************************************)
LEMMA SettledAsType ==
    ASSUME NEW o \in Operation, NEW outcome \in Terminals
    PROVE  SettledAs(o, outcome) \in Operation
BY DEF SettledAs, Operation, Lifecycles, Controls, Terminals, RelayStates

(***************************************************************************)
(* A fenced operation is an operation (ApplyCancelFence).                  *)
(***************************************************************************)
LEMMA FenceType ==
    ASSUME op \in Operation
    PROVE  ApplyCancelFence \in Operation
<1>1. /\ op.lifecycle \in Lifecycles /\ op.control \in Controls
      /\ op.cleanup \in Cleanups /\ op.relay \in RelayStates
  BY DEF Operation
<1>2. ApplyCancelFence.relay \in RelayStates
  BY <1>1 DEF ApplyCancelFence, RelayStates
<1> QED
  BY <1>1, <1>2 DEF ApplyCancelFence, Operation, Lifecycles, Controls, Cleanups, Terminals

(***************************************************************************)
(* An operation a control command was applied to is an operation           *)
(* (ApplyControl).                                                         *)
(***************************************************************************)
LEMMA ApplyControlType ==
    ASSUME NEW o \in Operation, NEW kind, NEW outcome
    PROVE  ApplyControl(o, kind, outcome) \in Operation
<1>1. /\ o.lifecycle \in Lifecycles /\ o.control \in Controls
      /\ o.cleanup \in Cleanups /\ o.relay \in RelayStates
  BY DEF Operation
<1>2. [o EXCEPT !.control = "none"] \in Operation
  BY <1>1 DEF Operation, Controls
<1> QED
  BY <1>1, <1>2 DEF ApplyControl, Operation, Lifecycles, Controls

(***************************************************************************)
(* What a terminal operation settles keeps the types, and never touches    *)
(* the relay of a command (settleTerminal).                                *)
(***************************************************************************)
LEMMA SettleTerminalType ==
    ASSUME TypeOK
    PROVE  /\ SettledPermit \in {"none", "active", "released"}
           /\ SettledCommands \in [Commands -> Command]
           /\ \A k \in Commands : SettledCommands[k].relay = cmd[k].relay
<1>1. ASSUME NEW k \in Commands
      PROVE  /\ [cmd[k] EXCEPT !.outcome = "applied"] \in Command
             /\ [cmd[k] EXCEPT !.outcome = "applied"].relay = cmd[k].relay
             /\ cmd[k] \in Command
  BY DEF TypeOK, Command, CommandOutcomes
<1>2. SettledPermit \in {"none", "active", "released"}
  BY DEF SettledPermit, TypeOK
<1>3. \A k \in Commands : SettledCommands[k] \in Command /\ SettledCommands[k].relay = cmd[k].relay
  BY <1>1 DEF SettledCommands
<1>4. SettledCommands = [k \in Commands |-> SettledCommands[k]]
  BY DEF SettledCommands
<1> QED
  BY <1>2, <1>3, <1>4
-----------------------------------------------------------------------------
(* Types.                                                                  *)

(***************************************************************************)
(* The first state has its types.                                          *)
(***************************************************************************)
LEMMA TypeInit == Init => TypeOK
<1> SUFFICES ASSUME Init PROVE TypeOK
  OBVIOUS
<1>1. op \in Operation
  BY DEF Init, Operation, Lifecycles, Controls, Cleanups, RelayStates
<1>2. att \in [Attempts -> Attempt]
  <2>1. FALSE \in BOOLEAN /\ "none" \in AttemptStates
    BY DEF AttemptStates
  <2>2. [state |-> "none", outcome |-> "none", cleanup |-> "none", verdict |-> "none", settled |-> FALSE] \in Attempt
    BY <2>1 DEF Attempt
  <2> QED
    BY <2>2 DEF Init
<1>3. cmd \in [Commands -> Command]
  BY DEF Init, Command, CommandOutcomes
<1>4. asked \in BOOLEAN
  BY DEF Init
<1>5. question \in [asked : 0..MaxRounds, open : BOOLEAN]
  <2>1. 0 \in 0..MaxRounds /\ FALSE \in BOOLEAN
    BY LifecycleAssumption
  <2> QED
    BY <2>1 DEF Init
<1> QED
  BY <1>1, <1>2, <1>3, <1>4, <1>5 DEF Init, TypeOK

(***************************************************************************)
(* The relay of the start and of the cancel, and the bootstrap, keep the   *)
(* types.                                                                  *)
(***************************************************************************)
LEMMA TypeRelay ==
    ASSUME TypeOK,
           \/ PutIntake \/ ConfirmIntake \/ CloseWorkflow
           \/ \E r \in Replicas : Relay(r) \/ LaneFails(r)
           \/ RequestExecutionPermit \/ RecordFunding \/ RecordLease
    PROVE  TypeOK'
<1> USE DEF TypeOK
<1>0. /\ [op EXCEPT !.relay = "started"] \in Operation
      /\ [op EXCEPT !.relay = "settled"] \in Operation
      /\ [op EXCEPT !.lifecycle = "running"] \in Operation
  BY DEF Operation, RelayStates, Lifecycles
<1>1. CASE PutIntake
  BY <1>1 DEF PutIntake, bootVars, workVars, engineVars
<1>2. CASE ConfirmIntake
  BY <1>2 DEF ConfirmIntake, workVars, engineVars
<1>3. CASE CloseWorkflow
  BY <1>3 DEF CloseWorkflow, bootVars, workVars
<1>4. ASSUME NEW r \in Replicas, ReadPending(r) PROVE TypeOK'
  BY <1>4 DEF ReadPending, RelayPending, bootVars, workVars
<1>5. ASSUME NEW r \in Replicas, StartWorkflow(r) PROVE TypeOK'
  BY <1>5 DEF StartWorkflow, bootVars, workVars
<1>6. ASSUME NEW r \in Replicas, MarkStarted(r) PROVE TypeOK'
  BY <1>0, <1>6 DEF MarkStarted, bootVars, workVars
<1>7. ASSUME NEW r \in Replicas, CancelWorkflow(r) PROVE TypeOK'
  <2>1. asked' \in BOOLEAN
    BY <1>7 DEF CancelWorkflow
  <2> QED
    BY <1>7, <2>1 DEF CancelWorkflow, bootVars, workVars
<1>8. ASSUME NEW r \in Replicas, MarkCancelSent(r) PROVE TypeOK'
  BY <1>0, <1>8 DEF MarkCancelSent, bootVars, workVars
<1>9. ASSUME NEW r \in Replicas, LaneFails(r) PROVE TypeOK'
  BY <1>9 DEF LaneFails, bootVars, workVars
<1>10. CASE RequestExecutionPermit
  BY <1>0, <1>10 DEF RequestExecutionPermit, workVars, engineVars
<1>11. CASE RecordFunding
  BY <1>11 DEF RecordFunding, workVars, engineVars
<1>12. CASE RecordLease
  BY <1>12 DEF RecordLease, workVars, engineVars
<1> QED
  BY <1>1, <1>2, <1>3, <1>4, <1>5, <1>6, <1>7, <1>8, <1>9, <1>10, <1>11, <1>12 DEF Relay

(***************************************************************************)
(* An attempt, its launch, its instance and its result keep the types.     *)
(***************************************************************************)
LEMMA TypeAttempt ==
    ASSUME TypeOK, NEW a \in Attempts,
           \/ OpenAttempt(a) \/ PrepareLaunch(a) \/ PutLaunch(a) \/ ConfirmLaunch(a)
           \/ RegisterInstance(a) \/ AcceptResult(a)
    PROVE  TypeOK'
<1> USE DEF TypeOK
<1>0. /\ [op EXCEPT !.lifecycle = "running"] \in Operation
      /\ [op EXCEPT !.cleanup = "pending"] \in Operation
  BY DEF Operation, Lifecycles, Cleanups
<1>1. ASSUME NEW s \in AttemptStates
      PROVE  [att EXCEPT ![a].state = s] \in [Attempts -> Attempt]
  <2>1. [att[a] EXCEPT !.state = s] \in Attempt
    BY SMTT(30) DEF Attempt
  <2> QED
    BY <2>1
<1>2. ASSUME NEW v \in Verdicts
      PROVE  [att[a] EXCEPT !.state = "result_accepted", !.verdict = v] \in Attempt
  <2>1. \A row \in Attempt : [row EXCEPT !.state = "result_accepted"] \in Attempt
    BY DEF Attempt, AttemptStates
  <2>2. \A row \in Attempt : [row EXCEPT !.verdict = v] \in Attempt
    BY DEF Attempt
  <2>3. att[a] \in Attempt
    OBVIOUS
  <2> QED
    BY <2>1, <2>2, <2>3
<1>3. CASE OpenAttempt(a)
  BY <1>0, <1>1, <1>3 DEF OpenAttempt, AttemptStates, bootVars, engineVars
<1>4. CASE PrepareLaunch(a)
  BY <1>0, <1>1, <1>4 DEF PrepareLaunch, AttemptStates, bootVars, engineVars
<1>5. CASE PutLaunch(a)
  BY <1>5 DEF PutLaunch, bootVars, workVars, engineVars
<1>6. CASE ConfirmLaunch(a)
  BY <1>6 DEF ConfirmLaunch, bootVars, engineVars
<1>7. CASE RegisterInstance(a)
  BY <1>1, <1>7 DEF RegisterInstance, AttemptStates, bootVars, engineVars
<1>8. CASE AcceptResult(a)
  <2>1. PICK v \in VerdictReports : att' = [att EXCEPT ![a] =
            [@ EXCEPT !.state = "result_accepted", !.verdict = v]]
    BY <1>8 DEF AcceptResult
  <2>2. v \in Verdicts
    BY LifecycleAssumption DEF Verdicts
  <2>3. att' \in [Attempts -> Attempt]
    BY <1>2, <2>1, <2>2
  <2> QED
    BY <1>8, <2>3, ZenonT(40) DEF AcceptResult, bootVars, engineVars
<1> QED
  BY <1>3, <1>4, <1>5, <1>6, <1>7, <1>8

(***************************************************************************)
(* A question round and its answer keep the types.                         *)
(***************************************************************************)
LEMMA TypeQuestion ==
    ASSUME TypeOK, RecordQuestionSet \/ SubmitAnswer
    PROVE  TypeOK'
<1>1. [op EXCEPT !.lifecycle = "waiting"] \in Operation /\ [op EXCEPT !.lifecycle = "running"] \in Operation
  BY DEF TypeOK, Operation, Lifecycles
<1>2. question' \in [asked : 0..MaxRounds, open : BOOLEAN]
  <2>1. CASE RecordQuestionSet
    <3>1. question.asked + 1 \in 0..MaxRounds /\ TRUE \in BOOLEAN
      BY <2>1, LifecycleAssumption DEF RecordQuestionSet, NewQuestionSet, TypeOK
    <3> QED
      BY <2>1, <3>1 DEF RecordQuestionSet
  <2>2. CASE SubmitAnswer
    BY <2>2 DEF SubmitAnswer, TypeOK
  <2> QED
    BY <2>1, <2>2
<1>3. op' \in Operation
  BY <1>1 DEF RecordQuestionSet, SubmitAnswer
<1> QED
  BY <1>2, <1>3 DEF RecordQuestionSet, SubmitAnswer, TypeOK, bootVars, workVars, engineVars

(***************************************************************************)
(* An obligation's steps and the commands keep the types.                  *)
(***************************************************************************)
LEMMA TypeObligation ==
    ASSUME TypeOK, NEW x \in Obligations,
           PrepareDispatch(x) \/ Issue(x) \/ ReportUnknown(x) \/ Resolve(x)
    PROVE  TypeOK'
BY DEF TypeOK, PrepareDispatch, Issue, ReportUnknown, Resolve, bootVars, workVars, engineVars

(***************************************************************************)
(* A closed attempt keeps the types (CloseAttempt).                        *)
(***************************************************************************)
LEMMA TypeClose ==
    ASSUME TypeOK, NEW a \in Attempts, CloseAttempt(a)
    PROVE  TypeOK'
<1> DEFINE unresolved == UnresolvedEffects \/ ExposureUnknown
           others == \E b \in Attempts \ {a} : Unknown(b)
<1>1. PICK outcome \in OutcomeReports, clean \in CleanupReports, again \in BOOLEAN :
        /\ att' = [att EXCEPT ![a] = [state |-> "closed", outcome |-> outcome, cleanup |-> clean,
                                      verdict |-> @.verdict, settled |-> @.settled \/ again]]
        /\ op' = KeepReconciling(SettleClose(op, att[a].verdict, outcome, clean), unresolved, others)
  BY DEF CloseAttempt
<1>2. outcome \in AttemptOutcomes /\ clean \in Cleanups
  BY LifecycleAssumption DEF AttemptOutcomes, Cleanups
<1>3. unresolved \in BOOLEAN /\ others \in BOOLEAN
  OBVIOUS
<1>4. op' \in Operation
  <2> HIDE DEF unresolved, others
  <2>1. SettleClose(op, att[a].verdict, outcome, clean) \in Operation
    BY <1>2, SettleCloseType DEF TypeOK
  <2> QED
    BY <1>1, <1>3, <2>1, KeepReconcilingType
<1>5. (att[a].settled \/ again) \in BOOLEAN /\ att[a].verdict \in Verdicts \cup {"none"}
  BY DEF TypeOK, Attempt
<1>6. [state |-> "closed", outcome |-> outcome, cleanup |-> clean,
       verdict |-> att[a].verdict, settled |-> att[a].settled \/ again] \in Attempt
  BY <1>2, <1>5 DEF Attempt, AttemptStates
<1>7. att' \in [Attempts -> Attempt]
  BY <1>1, <1>6 DEF TypeOK
<1>8. oblig' \in [Obligations -> {"none", "prepared", "issued", "unknown", "resolved"}]
  BY DEF CloseAttempt, TypeOK
<1>9. permit' \in {"none", "active", "released"} /\ cmd' \in [Commands -> Command]
  BY SettleTerminalType DEF CloseAttempt, SettleTerminal
<1> QED
  BY <1>4, <1>7, <1>8, <1>9 DEF CloseAttempt, TypeOK, engineVars

(***************************************************************************)
(* A settlement keeps the types.                                           *)
(***************************************************************************)
LEMMA TypeSettle ==
    ASSUME TypeOK, RepeatTerminal \/ SettleOperation \/ SettleFromIntent
    PROVE  TypeOK'
<1>0. permit' \in {"none", "active", "released"} /\ cmd' \in [Commands -> Command]
  BY SettleTerminalType DEF RepeatTerminal, SettleOperation, SettleFromIntent, SettleTerminal
<1>1. CASE RepeatTerminal
  BY <1>0, <1>1 DEF RepeatTerminal, TypeOK, engineVars
<1>2. CASE SettleOperation
  <2>1. PICK outcome \in Terminals :
          /\ intent' = outcome
          /\ op' = IF ObligationsOpen
                   THEN [lifecycle |-> "reconciling", control |-> op.control, relay |-> op.relay,
                         cleanup |-> IF HasUnknownAttempt THEN "unknown" ELSE op.cleanup]
                   ELSE SettledAs(op, outcome)
    BY <1>2 DEF SettleOperation
  <2>2. SettledAs(op, outcome) \in Operation
    BY SettledAsType DEF TypeOK
  <2>3. op' \in Operation
    BY <2>1, <2>2 DEF TypeOK, Operation, Lifecycles, Cleanups
  <2> QED
    BY <1>0, <1>2, <2>1, <2>3 DEF SettleOperation, TypeOK, engineVars
<1>3. CASE SettleFromIntent
  <2>1. intent \in Terminals
    BY <1>3 DEF SettleFromIntent, ReconcilingSettlement, TypeOK
  <2>2. op' \in Operation
    BY <1>3, <2>1, SettledAsType DEF SettleFromIntent, TypeOK
  <2> QED
    BY <1>0, <1>3, <2>2 DEF SettleFromIntent, TypeOK, engineVars
<1> QED
  BY <1>1, <1>2, <1>3

(***************************************************************************)
(* A submitted, relayed, answered or recorded command keeps the types.     *)
(***************************************************************************)
LEMMA TypeCommand ==
    ASSUME TypeOK, NEW k \in Commands,
           \/ SubmitCancel(k) \/ SubmitControl(k)
           \/ MarkCommandRelay(k) \/ AnswerCommand(k) \/ RecordCommandRelay(k)
    PROVE  TypeOK'
<1>1. CASE SubmitCancel(k)
  <2>1. CancelOutcome \in CommandOutcomes
    BY DEF CancelOutcome, CommandOutcomes
  <2>2. ASSUME NEW c \in [Commands -> Command]
        PROVE  [c EXCEPT ![k].outcome = CancelOutcome] \in [Commands -> Command]
    <3>1. [c[k] EXCEPT !.outcome = CancelOutcome] \in Command
      BY <2>1 DEF Command
    <3> QED
      BY <3>1
  <2>3. (IF InstallsFence THEN SettledCommands ELSE cmd) \in [Commands -> Command]
    BY SettleTerminalType DEF TypeOK
  <2>4. cmd' \in [Commands -> Command]
    BY <1>1, <2>2, <2>3 DEF SubmitCancel
  <2>5. op' \in Operation /\ permit' \in {"none", "active", "released"}
    BY <1>1, FenceType, SettleTerminalType DEF SubmitCancel, TypeOK
  <2> QED
    BY <1>1, <2>4, <2>5 DEF SubmitCancel, TypeOK, workVars, engineVars
<1>2. CASE SubmitControl(k)
  <2>1. PICK outcome \in ControlOutcomes(Kind[k]) :
          \E relayed \in BOOLEAN :
            /\ cmd' = [cmd EXCEPT ![k] = [outcome |-> outcome, relay |-> IF relayed THEN "pending" ELSE "none"]]
            /\ op' = IF relayed /\ Kind[k] = "hold" THEN [op EXCEPT !.control = "hold_pending"] ELSE op
    BY <1>2 DEF SubmitControl
  <2>2. outcome \in CommandOutcomes
    BY DEF ControlOutcomes, CommandOutcomes
  <2>3. [op EXCEPT !.control = "hold_pending"] \in Operation /\ op \in Operation
    BY DEF TypeOK, Operation, Controls
  <2>4. op' \in Operation
    BY <2>1, <2>3
  <2>5. cmd' \in [Commands -> Command]
    BY <2>1, <2>2 DEF TypeOK, Command
  <2> QED
    BY <1>2, <2>4, <2>5 DEF SubmitControl, TypeOK, bootVars, workVars, engineVars
<1>3. CASE MarkCommandRelay(k)
  <2>1. [cmd[k] EXCEPT !.relay = "sent"] \in Command
    BY DEF TypeOK, Command
  <2> QED
    BY <1>3, <2>1 DEF MarkCommandRelay, TypeOK, bootVars, workVars, engineVars
<1>4. CASE AnswerCommand(k)
  BY <1>4 DEF AnswerCommand, TypeOK, bootVars, workVars
<1>5. CASE RecordCommandRelay(k)
  <2>1. PICK outcome \in {"applied", "blocked", "rejected"} :
          /\ cmd' = [cmd EXCEPT ![k] = [outcome |-> outcome, relay |-> "settled"]]
          /\ op' = ApplyControl(op, Kind[k], outcome)
    BY <1>5 DEF RecordCommandRelay, TypeOK
  <2>2. op' \in Operation
    BY <2>1, ApplyControlType DEF TypeOK
  <2>3. cmd' \in [Commands -> Command]
    BY <2>1 DEF TypeOK, Command, CommandOutcomes
  <2> QED
    BY <1>5, <2>2, <2>3 DEF RecordCommandRelay, TypeOK, bootVars, workVars, engineVars
<1> QED
  BY <1>1, <1>2, <1>3, <1>4, <1>5

(***************************************************************************)
(* Every step keeps the types.                                             *)
(***************************************************************************)
LEMMA TypeStep == TypeOK /\ [Next]_vars => TypeOK'
<1> SUFFICES ASSUME TypeOK, [Next]_vars PROVE TypeOK'
  OBVIOUS
<1>1. CASE UNCHANGED vars
  BY <1>1 DEF TypeOK, vars, bootVars, workVars, engineVars
<1>2. CASE Next
  BY <1>2, TypeRelay, TypeAttempt, TypeQuestion, TypeObligation, TypeClose, TypeSettle, TypeCommand DEF Next
<1> QED
  BY <1>1, <1>2
-----------------------------------------------------------------------------
(* The inventory comes first.                                              *)

\* A confirmed intake is in the inventory, and only a confirmed intake is
\* started: the lane listed it, the engine runs it.
IntakeComesFirst ==
    /\ intake = "confirmed" => "intake" \in object
    /\ \A r \in Replicas : lane[r] \in {"start", "started"} => intake = "confirmed"
    /\ workflow # "none" => intake = "confirmed"

\* A confirmed launch is in the inventory, and only one has an instance.
LaunchComesFirst ==
    /\ \A a \in Attempts : launch[a] = "confirmed" => a \in object
    /\ \A a \in running : launch[a] = "confirmed"

(***************************************************************************)
(* The first state is clean.                                               *)
(***************************************************************************)
LEMMA InventoryInit == Init => IntakeComesFirst /\ LaunchComesFirst
BY DEF Init, IntakeComesFirst, LaunchComesFirst

(***************************************************************************)
(* Nothing but the intake, the starts lane and the run touches what the    *)
(* intake's order is about (ReconcileIntake, ListRelayPending).            *)
(***************************************************************************)
LEMMA IntakeStep ==
    ASSUME TypeOK, IntakeComesFirst, [Next]_vars
    PROVE  IntakeComesFirst'
<1> USE DEF IntakeComesFirst
<1>1. CASE UNCHANGED <<intake, lane, workflow>> /\ object \subseteq object'
  BY <1>1
<1>2. CASE ConfirmIntake
  BY <1>2 DEF ConfirmIntake, engineVars
<1>3. ASSUME NEW r \in Replicas, Relay(r) \/ LaneFails(r) PROVE IntakeComesFirst'
  <2>1. UNCHANGED <<intake, object>>
    BY <1>3 DEF Relay, ReadPending, StartWorkflow, MarkStarted, CancelWorkflow, MarkCancelSent, LaneFails, bootVars
  <2>2. CASE ReadPending(r)
    BY <2>1, <2>2 DEF ReadPending, RelayPending, TypeOK
  <2>3. CASE StartWorkflow(r)
    BY <2>1, <2>3 DEF StartWorkflow, TypeOK
  <2>4. CASE MarkStarted(r) \/ CancelWorkflow(r) \/ MarkCancelSent(r) \/ LaneFails(r)
    BY <2>1, <2>4 DEF MarkStarted, CancelWorkflow, MarkCancelSent, LaneFails, TypeOK
  <2> QED
    BY <1>3, <2>2, <2>3, <2>4 DEF Relay
<1>4. CASE CloseWorkflow
  BY <1>4 DEF CloseWorkflow, bootVars
<1>5. CASE PutIntake \/ RequestExecutionPermit \/ RecordFunding \/ RecordLease
  BY <1>1, <1>5 DEF PutIntake, RequestExecutionPermit, RecordFunding, RecordLease, bootVars, engineVars
<1>6. ASSUME NEW a \in Attempts,
             \/ OpenAttempt(a) \/ PrepareLaunch(a) \/ PutLaunch(a) \/ ConfirmLaunch(a)
             \/ RegisterInstance(a) \/ AcceptResult(a)
      PROVE  IntakeComesFirst'
  BY <1>1, <1>6 DEF OpenAttempt, PrepareLaunch, PutLaunch, ConfirmLaunch, RegisterInstance, AcceptResult,
                    bootVars, engineVars
<1>7. ASSUME NEW a \in Attempts, CloseAttempt(a) PROVE IntakeComesFirst'
  BY <1>1, <1>7 DEF CloseAttempt, engineVars
<1>8. CASE RepeatTerminal \/ SettleOperation \/ SettleFromIntent
  BY <1>1, <1>8 DEF RepeatTerminal, SettleOperation, SettleFromIntent, engineVars
<1>9. ASSUME NEW x \in Obligations, PrepareDispatch(x) \/ Issue(x) \/ ReportUnknown(x) \/ Resolve(x)
      PROVE  IntakeComesFirst'
  BY <1>1, <1>9 DEF PrepareDispatch, Issue, ReportUnknown, Resolve, bootVars, engineVars
<1>10. ASSUME NEW k \in Commands,
              \/ SubmitCancel(k) \/ SubmitControl(k)
              \/ MarkCommandRelay(k) \/ AnswerCommand(k) \/ RecordCommandRelay(k)
       PROVE  IntakeComesFirst'
  BY <1>1, <1>10 DEF SubmitCancel, SubmitControl, MarkCommandRelay, AnswerCommand, RecordCommandRelay,
                     bootVars, engineVars
<1>11. CASE UNCHANGED vars
  BY <1>11 DEF vars, bootVars, engineVars
<1>12. CASE RecordQuestionSet \/ SubmitAnswer
  BY <1>1, <1>12 DEF RecordQuestionSet, SubmitAnswer, bootVars, engineVars
<1> QED
  BY <1>2, <1>3, <1>4, <1>5, <1>6, <1>7, <1>8, <1>9, <1>10, <1>11, <1>12 DEF Next

(***************************************************************************)
(* Nothing but the launch and its instances touches what the launch's      *)
(* order is about (PrepareLaunch, confirmLaunch, RegisterInstance).        *)
(***************************************************************************)
LEMMA LaunchStep ==
    ASSUME TypeOK, LaunchComesFirst, [Next]_vars
    PROVE  LaunchComesFirst'
<1> USE DEF LaunchComesFirst
<1>1. CASE UNCHANGED <<launch, running>> /\ object \subseteq object'
  BY <1>1
<1>2. ASSUME NEW a \in Attempts, PrepareLaunch(a) \/ ConfirmLaunch(a) PROVE LaunchComesFirst'
  BY <1>2 DEF PrepareLaunch, ConfirmLaunch, TypeOK
<1>3. ASSUME NEW a \in Attempts, RegisterInstance(a) PROVE LaunchComesFirst'
  BY <1>3 DEF RegisterInstance
<1>4. ASSUME NEW a \in Attempts, OpenAttempt(a) \/ PutLaunch(a) \/ AcceptResult(a) \/ CloseAttempt(a)
      PROVE  LaunchComesFirst'
  BY <1>1, <1>4 DEF OpenAttempt, PutLaunch, AcceptResult, CloseAttempt, workVars
<1>5. CASE \/ PutIntake \/ ConfirmIntake \/ CloseWorkflow
           \/ RequestExecutionPermit \/ RecordFunding \/ RecordLease
  BY <1>1, <1>5 DEF PutIntake, ConfirmIntake, CloseWorkflow, RequestExecutionPermit, RecordFunding,
                    RecordLease, workVars
<1>6. ASSUME NEW r \in Replicas, Relay(r) \/ LaneFails(r) PROVE LaunchComesFirst'
  BY <1>1, <1>6 DEF Relay, ReadPending, StartWorkflow, MarkStarted, CancelWorkflow, MarkCancelSent,
                    LaneFails, workVars
<1>7. CASE RepeatTerminal \/ SettleOperation \/ SettleFromIntent
  BY <1>1, <1>7 DEF RepeatTerminal, SettleOperation, SettleFromIntent
<1>8. ASSUME NEW x \in Obligations, PrepareDispatch(x) \/ Issue(x) \/ ReportUnknown(x) \/ Resolve(x)
      PROVE  LaunchComesFirst'
  BY <1>1, <1>8 DEF PrepareDispatch, Issue, ReportUnknown, Resolve, workVars
<1>9. ASSUME NEW k \in Commands,
             \/ SubmitCancel(k) \/ SubmitControl(k)
             \/ MarkCommandRelay(k) \/ AnswerCommand(k) \/ RecordCommandRelay(k)
      PROVE  LaunchComesFirst'
  BY <1>1, <1>9 DEF SubmitCancel, SubmitControl, MarkCommandRelay, AnswerCommand, RecordCommandRelay, workVars
<1>10. CASE UNCHANGED vars
  BY <1>10 DEF vars, workVars
<1>11. CASE RecordQuestionSet \/ SubmitAnswer
  BY <1>1, <1>11 DEF RecordQuestionSet, SubmitAnswer, workVars
<1> QED
  BY <1>2, <1>3, <1>4, <1>5, <1>6, <1>7, <1>8, <1>9, <1>10, <1>11 DEF Next
-----------------------------------------------------------------------------
(* What a step makes of the operation.                                     *)

\* Nothing an invariant below looks at has moved.
Aside ==
    /\ op'.lifecycle = op.lifecycle /\ op'.control = op.control /\ op'.cleanup = op.cleanup
    /\ UNCHANGED <<intent, question, permit, att, oblig, cmd>>

(***************************************************************************)
(* The intake, the relay, the funding, the lease, the inventory and the    *)
(* engine leave the operation's lifecycle, its work and its commands.      *)
(***************************************************************************)
LEMMA AsideSteps ==
    ASSUME TypeOK,
           \/ UNCHANGED vars
           \/ PutIntake \/ ConfirmIntake \/ CloseWorkflow \/ RecordFunding \/ RecordLease
           \/ \E r \in Replicas : Relay(r) \/ LaneFails(r)
           \/ \E a \in Attempts : PutLaunch(a) \/ ConfirmLaunch(a)
           \/ \E k \in Commands : AnswerCommand(k)
    PROVE  Aside
<1> USE DEF Aside
<1>1. CASE \/ UNCHANGED vars \/ PutIntake \/ ConfirmIntake \/ CloseWorkflow \/ RecordFunding \/ RecordLease
  BY <1>1 DEF vars, PutIntake, ConfirmIntake, CloseWorkflow, RecordFunding, RecordLease, bootVars, workVars
<1>2. ASSUME NEW r \in Replicas, Relay(r) \/ LaneFails(r) PROVE Aside
  <2>1. UNCHANGED <<intent, question, permit, att, oblig, cmd>>
    BY <1>2 DEF Relay, ReadPending, StartWorkflow, MarkStarted, CancelWorkflow, MarkCancelSent, LaneFails,
                bootVars, workVars
  <2>2. \E s \in RelayStates : op' = op \/ op' = [op EXCEPT !.relay = s]
    BY <1>2 DEF Relay, ReadPending, StartWorkflow, MarkStarted, CancelWorkflow, MarkCancelSent, LaneFails, RelayStates
  <2> QED
    BY <2>1, <2>2 DEF TypeOK, Operation
<1>3. ASSUME NEW a \in Attempts, PutLaunch(a) \/ ConfirmLaunch(a) PROVE Aside
  BY <1>3 DEF PutLaunch, ConfirmLaunch, bootVars, workVars
<1>4. ASSUME NEW k \in Commands, AnswerCommand(k) PROVE Aside
  BY <1>4 DEF AnswerCommand, bootVars, workVars
<1> QED
  BY <1>1, <1>2, <1>3, <1>4

(***************************************************************************)
(* A question round makes an operation without a control intent wait, its  *)
(* answer makes it run (RecordQuestionSet, SubmitAnswer).                  *)
(***************************************************************************)
LEMMA QuestionSteps ==
    ASSUME TypeOK, RecordQuestionSet \/ SubmitAnswer
    PROVE  /\ ~Terminal(op) /\ op.control = "none"
           /\ op'.lifecycle \in {"waiting", "running"} /\ op'.control = op.control /\ op'.cleanup = op.cleanup
           /\ UNCHANGED <<intent, permit, att, oblig, cmd>>
BY DEF RecordQuestionSet, NewQuestionSet, SubmitAnswer, NewAnswer, FencedForNewDispatch, TypeOK, Operation,
       bootVars, workVars

(***************************************************************************)
(* How the close of an attempt leaves the operation: it ends only with     *)
(* everything resolved, canceled only with the cancel applied, succeeded   *)
(* or failed only without one (SettleClose with CloseAttempt).             *)
(***************************************************************************)
LEMMA ClosedOperation ==
    ASSUME NEW o \in Operation, NEW v, NEW outcome, NEW clean,
           NEW unresolved \in BOOLEAN, NEW others \in BOOLEAN,
           NEW n, n = KeepReconciling(SettleClose(o, v, outcome, clean), unresolved, others)
    PROVE  /\ n.lifecycle \in {"succeeded", "failed"} =>
                    /\ ~MultiStep /\ n.control = o.control
                    /\ o.control \notin {"cancel_pending", "cancel_applied"}
           /\ n.lifecycle = "succeeded" => outcome = "completed" /\ v = "certified" /\ clean = "complete"
           /\ n.lifecycle = "canceled" => n.control = "cancel_applied"
           /\ n.lifecycle \in Terminals =>
                    ~unresolved /\ ~others /\ outcome # "unknown" /\ clean # "unknown" /\ n.cleanup = clean
           /\ others \/ outcome = "unknown" \/ clean = "unknown" => n.lifecycle = "reconciling"
           /\ n.control = "cancel_applied" => n.lifecycle = "canceled" \/ o.control = "cancel_applied"
           /\ o.control = "cancel_pending" => n.control \in {"cancel_pending", "cancel_applied"}
<1>1. PICK s : s = SettleClose(o, v, outcome, clean)
  OBVIOUS
<1>2. /\ s.lifecycle \in {"reconciling", "canceled", "running", "succeeded", "failed"}
      /\ s.cleanup = clean
      /\ s.lifecycle \in {"succeeded", "failed"} =>
            /\ ~MultiStep /\ s.control = o.control
            /\ o.control \notin {"cancel_pending", "cancel_applied"}
      /\ s.lifecycle = "succeeded" => outcome = "completed" /\ v = "certified" /\ clean = "complete"
      /\ s.lifecycle = "canceled" => s.control = "cancel_applied"
      /\ s.lifecycle \in Terminals => outcome # "unknown" /\ clean # "unknown"
      /\ outcome = "unknown" \/ clean = "unknown" => s.lifecycle = "reconciling"
      /\ s.control = "cancel_applied" => s.lifecycle = "canceled" \/ o.control = "cancel_applied"
      /\ o.control = "cancel_pending" => s.control \in {"cancel_pending", "cancel_applied"}
  BY <1>1 DEF SettleClose, CancelRequested, Terminals
<1>3. n = KeepReconciling(s, unresolved, others)
  BY <1>1
<1> QED
  BY <1>2, <1>3 DEF KeepReconciling, Terminals

\* What the close of attempt a, or later evidence for it, leaves.
ClosedAs(a, outcome, clean) ==
    /\ att[a].state # "none"
    /\ att[a].state = "closed" =>
            \/ att[a].cleanup = "unknown"
            \/ op.lifecycle = "reconciling" /\ ~UnresolvedEffects /\ outcome # "unknown" /\ clean # "unknown"
    /\ att'[a].state = "closed" /\ att'[a].outcome = outcome /\ att'[a].cleanup = clean
    /\ att'[a].verdict = att[a].verdict
    /\ \A b \in Attempts \ {a} : att'[b] = att[b]
    /\ \A x \in Obligations : oblig'[x] \in {oblig[x], "resolved"}
    /\ op'.lifecycle \in {"succeeded", "failed"} =>
            /\ ~MultiStep /\ op'.control = op.control
            /\ op.control \notin {"cancel_pending", "cancel_applied"}
    /\ op'.lifecycle = "succeeded" => outcome = "completed" /\ att[a].verdict = "certified" /\ clean = "complete"
    /\ op'.lifecycle = "canceled" => op'.control = "cancel_applied"
    /\ op'.lifecycle \in Terminals =>
            /\ ~UnresolvedEffects /\ \A b \in Attempts \ {a} : ~Unknown(b)
            /\ outcome # "unknown" /\ clean # "unknown" /\ op'.cleanup = clean
    /\ (\E b \in Attempts \ {a} : Unknown(b)) \/ outcome = "unknown" \/ clean = "unknown" =>
            op'.lifecycle = "reconciling"
    /\ op'.control = "cancel_applied" => op'.lifecycle = "canceled" \/ op.control = "cancel_applied"
    /\ op.control = "cancel_pending" => op'.control \in {"cancel_pending", "cancel_applied"}

(***************************************************************************)
(* A close leaves the attempt ended and the operation as its rules say     *)
(* (CloseAttempt).                                                         *)
(***************************************************************************)
LEMMA CloseIsAs ==
    ASSUME TypeOK, NEW a \in Attempts, CloseAttempt(a)
    PROVE  \E outcome \in AttemptOutcomes, clean \in Cleanups : ClosedAs(a, outcome, clean)
<1> DEFINE unresolved == UnresolvedEffects \/ ExposureUnknown
           others == \E b \in Attempts \ {a} : Unknown(b)
<1>1. PICK outcome \in OutcomeReports, clean \in CleanupReports, again \in BOOLEAN :
        /\ \/ att[a].state \notin {"none", "closed"} /\ ~again
           \/ /\ att[a].state = "closed" /\ att[a].outcome = outcome
              /\ \/ CanSettleCleanup(a, clean) /\ ~again
                 \/ op.lifecycle = "reconciling" /\ ~unresolved /\ ~others /\ att[a].cleanup # "unknown"
                    /\ clean # "unknown" /\ outcome # "unknown" /\ again /\ ~att[a].settled
        /\ att' = [att EXCEPT ![a] = [state |-> "closed", outcome |-> outcome, cleanup |-> clean,
                                      verdict |-> @.verdict, settled |-> @.settled \/ again]]
        /\ oblig' = [x \in Obligations |-> IF AttemptOf[x] = a /\ oblig[x] = "prepared" THEN "resolved" ELSE oblig[x]]
        /\ op' = KeepReconciling(SettleClose(op, att[a].verdict, outcome, clean), unresolved, others)
  BY DEF CloseAttempt
<1>2. outcome \in AttemptOutcomes /\ clean \in Cleanups
  BY LifecycleAssumption DEF AttemptOutcomes, Cleanups
<1>3. /\ att[a].state # "none"
      /\ att[a].state = "closed" =>
            \/ att[a].cleanup = "unknown"
            \/ op.lifecycle = "reconciling" /\ ~UnresolvedEffects /\ outcome # "unknown" /\ clean # "unknown"
  BY <1>1 DEF CanSettleCleanup
<1>4. /\ att'[a].state = "closed" /\ att'[a].outcome = outcome /\ att'[a].cleanup = clean
      /\ att'[a].verdict = att[a].verdict
      /\ \A b \in Attempts \ {a} : att'[b] = att[b]
  BY <1>1 DEF TypeOK
<1>5. \A x \in Obligations : oblig'[x] \in {oblig[x], "resolved"}
  BY <1>1
<1>6. unresolved \in BOOLEAN /\ others \in BOOLEAN /\ (~unresolved => ~UnresolvedEffects)
  OBVIOUS
<1>7. op'.lifecycle \in Terminals => \A b \in Attempts \ {a} : ~Unknown(b)
  <2>1. op'.lifecycle \in Terminals => ~others
    <3> HIDE DEF unresolved, others
    <3> QED
      BY <1>1, <1>6, ClosedOperation DEF TypeOK
  <2> QED
    BY <2>1
<1>8. (\E b \in Attempts \ {a} : Unknown(b)) => op'.lifecycle = "reconciling"
  <2>1. op'.lifecycle # "reconciling" => ~others
    <3> HIDE DEF unresolved, others
    <3> QED
      BY <1>1, <1>6, ClosedOperation DEF TypeOK
  <2> QED
    BY <2>1
<1>9. ClosedAs(a, outcome, clean)
  <2> HIDE DEF unresolved, others
  <2>1. /\ op'.lifecycle \in {"succeeded", "failed"} =>
                /\ ~MultiStep /\ op'.control = op.control
                /\ op.control \notin {"cancel_pending", "cancel_applied"}
        /\ op'.lifecycle = "succeeded" => outcome = "completed" /\ att[a].verdict = "certified" /\ clean = "complete"
        /\ op'.lifecycle = "canceled" => op'.control = "cancel_applied"
        /\ op'.lifecycle \in Terminals =>
                ~UnresolvedEffects /\ outcome # "unknown" /\ clean # "unknown" /\ op'.cleanup = clean
        /\ outcome = "unknown" \/ clean = "unknown" => op'.lifecycle = "reconciling"
        /\ op'.control = "cancel_applied" => op'.lifecycle = "canceled" \/ op.control = "cancel_applied"
        /\ op.control = "cancel_pending" => op'.control \in {"cancel_pending", "cancel_applied"}
    BY <1>1, <1>6, ClosedOperation DEF TypeOK
  <2> QED
    BY <1>3, <1>4, <1>5, <1>7, <1>8, <2>1 DEF ClosedAs
<1> QED
  BY <1>2, <1>9

(***************************************************************************)
(* A cancel dominates whatever races it.                                   *)
(***************************************************************************)
LEMMA CancelStep ==
    ASSUME TypeOK, CancelDominates, [Next]_vars
    PROVE  CancelDominates'
<1> USE DEF CancelDominates
<1>1. CASE op'.lifecycle = op.lifecycle /\ op'.control = op.control
  BY <1>1
<1>2. CASE Aside
  BY <1>2 DEF Aside
<1>3. ASSUME ~FencedForNewDispatch, op' = [op EXCEPT !.lifecycle = "running"] PROVE CancelDominates'
  BY <1>3 DEF FencedForNewDispatch, TypeOK, Operation
<1>4. CASE RequestExecutionPermit
  BY <1>3, <1>4 DEF RequestExecutionPermit
<1>5. ASSUME NEW a \in Attempts, OpenAttempt(a) PROVE CancelDominates'
  BY <1>3, <1>5 DEF OpenAttempt, NewAttempt
<1>6. ASSUME NEW a \in Attempts, PrepareLaunch(a) PROVE CancelDominates'
  BY <1>1, <1>6 DEF PrepareLaunch, TypeOK, Operation
<1>7. ASSUME NEW a \in Attempts, RegisterInstance(a) \/ AcceptResult(a) PROVE CancelDominates'
  BY <1>1, <1>7 DEF RegisterInstance, AcceptResult
<1>8. ASSUME NEW a \in Attempts, CloseAttempt(a) PROVE CancelDominates'
  <2>1. PICK outcome \in AttemptOutcomes, clean \in Cleanups : ClosedAs(a, outcome, clean)
    BY <1>8, CloseIsAs
  <2> QED
    BY <2>1 DEF ClosedAs
<1>9. CASE RepeatTerminal
  BY <1>1, <1>9 DEF RepeatTerminal
<1>10. CASE SettleOperation
  BY <1>10 DEF SettleOperation, SettledAs, CancelRequested, Terminal, Terminals
<1>11. CASE SettleFromIntent
  BY <1>11 DEF SettleFromIntent, SettledAs, CancelRequested, TypeOK
<1>12. ASSUME NEW x \in Obligations, PrepareDispatch(x) \/ Issue(x) \/ ReportUnknown(x) \/ Resolve(x)
       PROVE  CancelDominates'
  BY <1>1, <1>12 DEF PrepareDispatch, Issue, ReportUnknown, Resolve
<1>13. ASSUME NEW k \in Commands, SubmitCancel(k) PROVE CancelDominates'
  <2>1. CASE InstallsFence
    <3>1. op'.lifecycle = (IF SendersQuiescent THEN "canceled" ELSE op.lifecycle)
          /\ op'.control = (IF SendersQuiescent THEN "cancel_applied" ELSE "cancel_pending")
      BY <1>13, <2>1 DEF SubmitCancel, ApplyCancelFence
    <3> QED
      BY <2>1, <3>1 DEF InstallsFence, Terminal, Terminals
  <2> QED
    BY <1>1, <1>13, <2>1 DEF SubmitCancel
<1>14. ASSUME NEW k \in Commands, SubmitControl(k) PROVE CancelDominates'
  <2>1. op' = op \/ (op' = [op EXCEPT !.control = "hold_pending"] /\ ~Terminal(op))
    BY <1>14 DEF SubmitControl, ControlOutcomes
  <2> QED
    BY <1>1, <2>1 DEF Terminal, Terminals, TypeOK, Operation
<1>15. ASSUME NEW k \in Commands, MarkCommandRelay(k) PROVE CancelDominates'
  BY <1>1, <1>15 DEF MarkCommandRelay
<1>16. ASSUME NEW k \in Commands, RecordCommandRelay(k) PROVE CancelDominates'
  <2>1. PICK outcome : op' = ApplyControl(op, Kind[k], outcome)
    BY <1>16 DEF RecordCommandRelay
  <2>2. \/ op' = op
        \/ op'.lifecycle \notin Terminals /\ op'.control \in {"none", "hold_applied"}
    BY <2>1 DEF ApplyControl, Terminal, Terminals, TypeOK, Operation
  <2> QED
    BY <1>1, <2>2 DEF Terminals
<1>17. CASE RecordQuestionSet \/ SubmitAnswer
  BY <1>17, QuestionSteps
<1> QED
  BY <1>2, <1>4, <1>5, <1>6, <1>7, <1>8, <1>9, <1>10, <1>11, <1>12, <1>13, <1>14, <1>15, <1>16, <1>17, AsideSteps DEF Next
-----------------------------------------------------------------------------
(* What an attempt keeps.                                                  *)

\* Only a closed attempt has an outcome or a cleanup, and only an attempt
\* that was opened has a launch.
AttemptIsKept ==
    \A a \in Attempts :
        /\ att[a].outcome # "none" \/ att[a].cleanup # "none" => att[a].state = "closed"
        /\ launch[a] # "none" => att[a].state # "none"

\* Attempt a is given state s; its outcome, its cleanup and every other
\* attempt stay.
Advances(a, s) ==
    /\ att'[a].state = s /\ att'[a].outcome = att[a].outcome /\ att'[a].cleanup = att[a].cleanup
    /\ \A b \in Attempts \ {a} : att'[b] = att[b]

(***************************************************************************)
(* An attempt that is not closed advances: opened, launched, running, with *)
(* its result.                                                             *)
(***************************************************************************)
LEMMA AdvanceSteps ==
    ASSUME TypeOK, AttemptIsKept, NEW a \in Attempts,
           OpenAttempt(a) \/ PrepareLaunch(a) \/ RegisterInstance(a) \/ AcceptResult(a)
    PROVE  \/ RegisterInstance(a) /\ att[a].state = "closed" /\ att' = att
           \/ /\ att[a].state # "closed" /\ (att[a].state = "none" => OpenAttempt(a))
              /\ \E s \in AttemptStates \ {"none", "closed"} : Advances(a, s)
<1>1. ASSUME NEW s \in AttemptStates \ {"none", "closed"}, att' = [att EXCEPT ![a].state = s]
      PROVE  Advances(a, s)
  BY <1>1 DEF TypeOK, Attempt, Advances
<1>2. CASE OpenAttempt(a)
  BY <1>1, <1>2 DEF OpenAttempt, NewAttempt, AttemptStates
<1>3. CASE PrepareLaunch(a)
  BY <1>1, <1>3 DEF PrepareLaunch, NewLaunch, AttemptStates
<1>4. CASE RegisterInstance(a)
  <2>1. att[a].state # "none"
    BY <1>4 DEF RegisterInstance, AttemptIsKept
  <2> QED
    BY <1>1, <1>4, <2>1 DEF RegisterInstance, AttemptStates
<1>5. CASE AcceptResult(a)
  <2>1. PICK v \in VerdictReports : att' = [att EXCEPT ![a] =
            [@ EXCEPT !.state = "result_accepted", !.verdict = v]]
    BY <1>5 DEF AcceptResult
  <2> DEFINE Accepted(row) == [row EXCEPT !.state = "result_accepted", !.verdict = v]
  <2>2. \A row \in Attempt : /\ Accepted(row).state = "result_accepted"
                             /\ Accepted(row).outcome = row.outcome
                             /\ Accepted(row).cleanup = row.cleanup
    BY DEF Attempt
  <2>3. att[a] \in Attempt
    BY DEF TypeOK
  <2>4. att'[a] = Accepted(att[a]) /\ \A b \in Attempts \ {a} : att'[b] = att[b]
    BY <2>1 DEF TypeOK
  <2>5. Advances(a, "result_accepted")
    <3> HIDE DEF Accepted
    <3> QED
      BY <2>2, <2>3, <2>4 DEF Advances
  <2> QED
    BY <1>5, <2>5 DEF AcceptResult, AcceptStage, AttemptStates
<1> QED
  BY <1>2, <1>3, <1>4, <1>5

(***************************************************************************)
(* Every step keeps what an attempt keeps.                                 *)
(***************************************************************************)
LEMMA AttemptStep ==
    ASSUME TypeOK, AttemptIsKept, [Next]_vars
    PROVE  AttemptIsKept'
<1> USE DEF AttemptIsKept
<1>1. CASE UNCHANGED <<att, launch>>
  BY <1>1
<1>2. ASSUME NEW a \in Attempts,
             OpenAttempt(a) \/ PrepareLaunch(a) \/ RegisterInstance(a) \/ AcceptResult(a)
      PROVE  AttemptIsKept'
  <2>1. \A b \in Attempts \ {a} : launch'[b] = launch[b]
    <3>1. CASE PrepareLaunch(a)
      BY <3>1 DEF PrepareLaunch, TypeOK
    <3> QED
      BY <1>2, <3>1 DEF OpenAttempt, RegisterInstance, AcceptResult
  <2>2. CASE RegisterInstance(a) /\ att' = att
    BY <1>1, <2>2 DEF RegisterInstance
  <2>3. CASE att[a].state # "closed" /\ \E s \in AttemptStates \ {"none", "closed"} : Advances(a, s)
    BY <2>1, <2>3 DEF Advances
  <2> QED
    BY <1>2, <2>2, <2>3, AdvanceSteps
<1>3. ASSUME NEW a \in Attempts, CloseAttempt(a) PROVE AttemptIsKept'
  <2>1. PICK outcome \in AttemptOutcomes, clean \in Cleanups : ClosedAs(a, outcome, clean)
    BY <1>3, CloseIsAs
  <2>2. launch' = launch
    BY <1>3 DEF CloseAttempt
  <2> QED
    BY <2>1, <2>2 DEF ClosedAs
<1>4. ASSUME NEW a \in Attempts, PutLaunch(a) PROVE AttemptIsKept'
  BY <1>1, <1>4 DEF PutLaunch, workVars
<1>5. ASSUME NEW a \in Attempts, ConfirmLaunch(a) PROVE AttemptIsKept'
  BY <1>5 DEF ConfirmLaunch, NewLaunch, TypeOK
<1>6. CASE \/ PutIntake \/ ConfirmIntake \/ CloseWorkflow
           \/ RequestExecutionPermit \/ RecordFunding \/ RecordLease
  BY <1>1, <1>6 DEF PutIntake, ConfirmIntake, CloseWorkflow, RequestExecutionPermit, RecordFunding,
                    RecordLease, workVars
<1>7. ASSUME NEW r \in Replicas, Relay(r) \/ LaneFails(r) PROVE AttemptIsKept'
  BY <1>1, <1>7 DEF Relay, ReadPending, StartWorkflow, MarkStarted, CancelWorkflow, MarkCancelSent,
                    LaneFails, workVars
<1>8. CASE RepeatTerminal \/ SettleOperation \/ SettleFromIntent
  BY <1>1, <1>8 DEF RepeatTerminal, SettleOperation, SettleFromIntent
<1>9. ASSUME NEW x \in Obligations, PrepareDispatch(x) \/ Issue(x) \/ ReportUnknown(x) \/ Resolve(x)
      PROVE  AttemptIsKept'
  BY <1>1, <1>9 DEF PrepareDispatch, Issue, ReportUnknown, Resolve, workVars
<1>10. ASSUME NEW k \in Commands,
              \/ SubmitCancel(k) \/ SubmitControl(k)
              \/ MarkCommandRelay(k) \/ AnswerCommand(k) \/ RecordCommandRelay(k)
       PROVE  AttemptIsKept'
  BY <1>1, <1>10 DEF SubmitCancel, SubmitControl, MarkCommandRelay, AnswerCommand, RecordCommandRelay, workVars
<1>11. CASE UNCHANGED vars
  BY <1>1, <1>11 DEF vars, workVars
<1>12. CASE RecordQuestionSet \/ SubmitAnswer
  BY <1>1, <1>12 DEF RecordQuestionSet, SubmitAnswer, workVars
<1> QED
  BY <1>2, <1>3, <1>4, <1>5, <1>6, <1>7, <1>8, <1>9, <1>10, <1>11, <1>12 DEF Next

-----------------------------------------------------------------------------
(* The outcome was stated.                                                 *)

(***************************************************************************)
(* Every step leaves the operation with a stated outcome.                  *)
(***************************************************************************)
LEMMA OutcomeStep ==
    ASSUME TypeOK, AttemptIsKept, OutcomeIsStated, [Next]_vars
    PROVE  OutcomeIsStated'
<1> DEFINE Certified(a) == att[a].outcome = "completed" /\ att[a].verdict = "certified" /\ att[a].cleanup = "complete"
<1> USE DEF OutcomeIsStated
<1>1. CASE op'.lifecycle = op.lifecycle /\ UNCHANGED <<intent, att>>
  BY <1>1
<1>2. CASE op'.lifecycle \notin {"succeeded", "failed"}
  BY <1>2
<1>3. CASE Aside
  BY <1>1, <1>3 DEF Aside
<1>4. CASE RequestExecutionPermit
  BY <1>2, <1>4 DEF RequestExecutionPermit, TypeOK, Operation
<1>5. ASSUME NEW a \in Attempts,
             OpenAttempt(a) \/ PrepareLaunch(a) \/ RegisterInstance(a) \/ AcceptResult(a)
      PROVE  OutcomeIsStated'
  <2>1. intent' = intent
    BY <1>5 DEF OpenAttempt, PrepareLaunch, RegisterInstance, AcceptResult
  <2>2. op'.lifecycle = op.lifecycle \/ op'.lifecycle = "running"
    BY <1>5 DEF OpenAttempt, PrepareLaunch, RegisterInstance, AcceptResult, TypeOK, Operation
  <2>3. ASSUME NEW b \in Attempts, Certified(b) PROVE Certified(b)'
    <3>1. att[b].state = "closed"
      BY <2>3 DEF AttemptIsKept
    <3>2. att'[b] = att[b]
      BY <1>5, <3>1, AdvanceSteps DEF Advances
    <3> QED
      BY <2>3, <3>2
  <2> QED
    BY <2>1, <2>2, <2>3
<1>6. ASSUME NEW a \in Attempts, CloseAttempt(a) PROVE OutcomeIsStated'
  <2>1. PICK outcome \in AttemptOutcomes, clean \in Cleanups : ClosedAs(a, outcome, clean)
    BY <1>6, CloseIsAs
  <2>2. op'.lifecycle \in {"succeeded", "failed"} => ~MultiStep
    BY <2>1 DEF ClosedAs
  <2>3. op'.lifecycle = "succeeded" => Certified(a)'
    BY <2>1 DEF ClosedAs
  <2> QED
    BY <2>2, <2>3
<1>7. CASE RepeatTerminal
  BY <1>1, <1>7 DEF RepeatTerminal
<1>8. CASE SettleOperation
  BY <1>8 DEF SettleOperation, SettledAs
<1>9. CASE SettleFromIntent
  BY <1>9 DEF SettleFromIntent, SettledAs
<1>10. ASSUME NEW x \in Obligations, PrepareDispatch(x) \/ Issue(x) \/ ReportUnknown(x) \/ Resolve(x)
       PROVE  OutcomeIsStated'
  BY <1>1, <1>10 DEF PrepareDispatch, Issue, ReportUnknown, Resolve, workVars
<1>11. ASSUME NEW k \in Commands, SubmitCancel(k) PROVE OutcomeIsStated'
  <2>1. op'.lifecycle \in {op.lifecycle, "canceled"}
    BY <1>11 DEF SubmitCancel, ApplyCancelFence
  <2>2. UNCHANGED <<intent, att>>
    BY <1>11 DEF SubmitCancel, workVars
  <2> QED
    BY <1>1, <1>2, <2>1, <2>2
<1>12. ASSUME NEW k \in Commands, SubmitControl(k) \/ MarkCommandRelay(k) PROVE OutcomeIsStated'
  <2>1. op'.lifecycle = op.lifecycle
    BY <1>12 DEF SubmitControl, MarkCommandRelay, TypeOK, Operation
  <2> QED
    BY <1>1, <1>12, <2>1 DEF SubmitControl, MarkCommandRelay, workVars
<1>13. ASSUME NEW k \in Commands, RecordCommandRelay(k) PROVE OutcomeIsStated'
  <2>1. PICK outcome : op' = ApplyControl(op, Kind[k], outcome)
    BY <1>13 DEF RecordCommandRelay
  <2>2. op'.lifecycle \in {op.lifecycle, "suspended", "running"}
    BY <2>1 DEF ApplyControl, TypeOK, Operation
  <2>3. UNCHANGED <<intent, att>>
    BY <1>13 DEF RecordCommandRelay, workVars
  <2> QED
    BY <1>1, <1>2, <2>2, <2>3
<1>14. CASE RecordQuestionSet \/ SubmitAnswer
  BY <1>2, <1>14, QuestionSteps
<1> QED
  BY <1>3, <1>4, <1>5, <1>6, <1>7, <1>8, <1>9, <1>10, <1>11, <1>12, <1>13, <1>14, AsideSteps DEF Next
-----------------------------------------------------------------------------
(* The permit covers the work.                                             *)

\* Something may still run in an attempt of the operation.
Working == HasOpenAttempt \/ AttemptsUnresolved \/ HasUnknownAttempt

(***************************************************************************)
(* An attempt that advances was open, or is opened under the permit of a   *)
(* queued profile (BootstrapGate).                                         *)
(***************************************************************************)
LEMMA AdvanceWork ==
    ASSUME TypeOK, AttemptIsKept, NEW a \in Attempts,
           OpenAttempt(a) \/ PrepareLaunch(a) \/ RegisterInstance(a) \/ AcceptResult(a)
    PROVE  /\ HasUnknownAttempt' => HasUnknownAttempt
           /\ HasOpenAttempt' => HasOpenAttempt \/ (OpenAttempt(a) /\ (Queued => permit = "active"))
           /\ UNCHANGED oblig
<1>1. UNCHANGED oblig
  BY DEF OpenAttempt, PrepareLaunch, RegisterInstance, AcceptResult
<1>2. CASE att' = att
  BY <1>1, <1>2 DEF HasUnknownAttempt, HasOpenAttempt, Unknown
<1>3. ASSUME att[a].state # "closed", att[a].state = "none" => OpenAttempt(a),
             NEW s \in AttemptStates \ {"none", "closed"}, Advances(a, s)
      PROVE  /\ HasUnknownAttempt' => HasUnknownAttempt
             /\ HasOpenAttempt' => HasOpenAttempt \/ (OpenAttempt(a) /\ (Queued => permit = "active"))
  <2>1. \A b \in Attempts : Unknown(b)' => Unknown(b)
    BY <1>3 DEF Unknown, Advances
  <2>2. OpenAttempt(a) => (Queued => permit = "active")
    BY DEF OpenAttempt, BootstrapGate
  <2>3. att[a].state # "none" => HasOpenAttempt
    BY <1>3 DEF HasOpenAttempt
  <2> QED
    BY <1>3, <2>1, <2>2, <2>3 DEF HasUnknownAttempt
<1> QED
  BY <1>1, <1>2, <1>3, AdvanceSteps

(***************************************************************************)
(* A close opens nothing, and leaves a permission or an uncertainty only   *)
(* where the attempt was open or one was there.                            *)
(***************************************************************************)
LEMMA CloseWork ==
    ASSUME NEW a \in Attempts, NEW outcome \in AttemptOutcomes, NEW clean \in Cleanups,
           ClosedAs(a, outcome, clean)
    PROVE  /\ HasOpenAttempt' => HasOpenAttempt
           /\ UnresolvedEffects' => UnresolvedEffects
           /\ Working' => Working
<1>1. HasOpenAttempt' => HasOpenAttempt
  BY DEF ClosedAs, HasOpenAttempt
<1>2. UnresolvedEffects' => UnresolvedEffects
  BY DEF ClosedAs, UnresolvedEffects
<1>3. HasUnknownAttempt' => Working
  <2>1. ASSUME NEW b \in Attempts \ {a}, Unknown(b)' PROVE HasUnknownAttempt
    BY <2>1 DEF ClosedAs, Unknown, HasUnknownAttempt
  <2>2. ASSUME Unknown(a)' PROVE HasOpenAttempt \/ HasUnknownAttempt
    <3>1. outcome = "unknown" \/ clean = "unknown"
      BY <2>2 DEF ClosedAs, Unknown
    <3>2. att[a].state # "none" /\ (att[a].state = "closed" => att[a].cleanup = "unknown")
      BY <3>1 DEF ClosedAs
    <3> QED
      BY <3>2 DEF HasOpenAttempt, HasUnknownAttempt, Unknown
  <2> QED
    BY <2>1, <2>2 DEF HasUnknownAttempt, Working
<1>4. AttemptsUnresolved' => AttemptsUnresolved
  BY DEF ClosedAs, AttemptsUnresolved, NamesAttempt
<1> QED
  BY <1>1, <1>2, <1>3, <1>4 DEF Working

(***************************************************************************)
(* Every step leaves the work of a queued operation under its permit.      *)
(***************************************************************************)
LEMMA PermitStep ==
    ASSUME TypeOK, AttemptIsKept, PermitCoversWork, [Next]_vars
    PROVE  PermitCoversWork'
<1> USE DEF PermitCoversWork
<1>1. ASSUME Queued, Working' => Working, permit' = permit PROVE PermitCoversWork'
  BY <1>1 DEF Working
<1>2. ASSUME Queued, Working' => Working, permit' = SettledPermit PROVE PermitCoversWork'
  <2>1. Working' => permit = "active"
    BY <1>2 DEF Working
  <2>2. Working' /\ Terminal(op)' => TerminalWaits'
    BY DEF Working, TerminalWaits, ObligationsOpen, AttemptsUnresolved, UnresolvedEffects
  <2> QED
    BY <1>2, <2>1, <2>2 DEF SettledPermit, Working
<1>3. CASE ~Queued
  BY <1>3
<1>4. CASE Aside
  BY <1>1, <1>3, <1>4 DEF Aside, Working, HasOpenAttempt, AttemptsUnresolved, NamesAttempt, HasUnknownAttempt, Unknown
<1>5. CASE RequestExecutionPermit
  BY <1>5 DEF RequestExecutionPermit
<1>6. ASSUME NEW a \in Attempts,
             OpenAttempt(a) \/ PrepareLaunch(a) \/ RegisterInstance(a) \/ AcceptResult(a)
      PROVE  PermitCoversWork'
  <2>1. permit' = permit
    BY <1>6 DEF OpenAttempt, PrepareLaunch, RegisterInstance, AcceptResult, bootVars
  <2>2. AttemptsUnresolved' => AttemptsUnresolved
    BY <1>6, AdvanceWork DEF AttemptsUnresolved, NamesAttempt
  <2> QED
    BY <1>6, <2>1, <2>2, AdvanceWork
<1>7. ASSUME NEW a \in Attempts, CloseAttempt(a) PROVE PermitCoversWork'
  <2>1. Working' => Working
    BY <1>7, CloseIsAs, CloseWork
  <2> QED
    BY <1>2, <1>3, <1>7, <2>1 DEF CloseAttempt, SettleTerminal
<1>8. CASE RepeatTerminal \/ SettleOperation \/ SettleFromIntent
  <2>1. UNCHANGED <<att, oblig>> /\ SettleTerminal
    BY <1>8 DEF RepeatTerminal, SettleOperation, SettleFromIntent
  <2>2. Working' => Working
    BY <2>1 DEF Working, HasOpenAttempt, AttemptsUnresolved, NamesAttempt, HasUnknownAttempt, Unknown
  <2> QED
    BY <1>2, <1>3, <2>1, <2>2 DEF SettleTerminal
<1>9. ASSUME NEW x \in Obligations, PrepareDispatch(x) \/ Issue(x) \/ ReportUnknown(x) \/ Resolve(x)
      PROVE  PermitCoversWork'
  <2>1. UNCHANGED <<att, permit>>
    BY <1>9 DEF PrepareDispatch, Issue, ReportUnknown, Resolve, workVars, bootVars
  <2>2. Working' => Working
    <3>1. CASE NamesAttempt(x)
      <4>1. HasOpenAttempt \/ oblig[x] \in {"prepared", "issued", "unknown"}
        <5>1. CASE MayIssue(x)
          BY <3>1, <5>1 DEF MayIssue, NamesAttempt, HasOpenAttempt
        <5> QED
          BY <1>9, <5>1 DEF PrepareDispatch, Issue, ReportUnknown, Resolve
      <4> QED
        BY <3>1, <4>1 DEF Working, AttemptsUnresolved
    <3>2. CASE ~NamesAttempt(x)
      <4>1. \A y \in Obligations : NamesAttempt(y) => oblig'[y] = oblig[y]
        BY <1>9, <3>2 DEF PrepareDispatch, Issue, ReportUnknown, Resolve, TypeOK
      <4>2. AttemptsUnresolved' => AttemptsUnresolved
        BY <4>1 DEF AttemptsUnresolved, NamesAttempt
      <4> QED
        BY <2>1, <4>2 DEF Working, HasOpenAttempt, HasUnknownAttempt, Unknown
    <3> QED
      BY <3>1, <3>2
  <2> QED
    BY <1>1, <1>3, <2>1, <2>2
<1>10. ASSUME NEW k \in Commands, SubmitCancel(k) PROVE PermitCoversWork'
  <2>1. UNCHANGED <<att, oblig>> /\ permit' \in {permit, SettledPermit}
    BY <1>10 DEF SubmitCancel, workVars
  <2>2. Working' => Working
    BY <2>1 DEF Working, HasOpenAttempt, AttemptsUnresolved, NamesAttempt, HasUnknownAttempt, Unknown
  <2> QED
    BY <1>1, <1>2, <1>3, <2>1, <2>2
<1>11. ASSUME NEW k \in Commands, SubmitControl(k) \/ MarkCommandRelay(k) \/ RecordCommandRelay(k)
       PROVE  PermitCoversWork'
  <2>1. UNCHANGED <<att, oblig, permit>>
    BY <1>11 DEF SubmitControl, MarkCommandRelay, RecordCommandRelay, workVars, bootVars
  <2>2. Working' => Working
    BY <2>1 DEF Working, HasOpenAttempt, AttemptsUnresolved, NamesAttempt, HasUnknownAttempt, Unknown
  <2> QED
    BY <1>1, <1>3, <2>1, <2>2
<1>12. CASE RecordQuestionSet \/ SubmitAnswer
  <2>1. UNCHANGED <<att, oblig, permit>>
    BY <1>12, QuestionSteps
  <2>2. Working' => Working
    BY <2>1 DEF Working, HasOpenAttempt, AttemptsUnresolved, NamesAttempt, HasUnknownAttempt, Unknown
  <2> QED
    BY <1>1, <1>3, <2>1, <2>2
<1> QED
  BY <1>4, <1>5, <1>6, <1>7, <1>8, <1>9, <1>10, <1>11, <1>12, AsideSteps DEF Next
-----------------------------------------------------------------------------
(* An operation ends resolved.                                             *)

\* An unknown cleanup is one of the operation, or an attempt is still open.
CleanupIsKnown ==
    (\E a \in Attempts : att[a].cleanup = "unknown") => op.cleanup = "unknown" \/ HasOpenAttempt

\* What TerminalIsResolved says of every profile: an unknown outcome is left
\* behind by a cancel only.
EndIsResolved ==
    Terminal(op) =>
        /\ ~UnresolvedEffects
        /\ \A a \in Attempts :
            att[a].cleanup # "unknown" /\ (att[a].outcome = "unknown" => op.lifecycle = "canceled")

(***************************************************************************)
(* A step that moves neither the attempts' ends nor the obligations of an  *)
(* operation, and ends it with nothing unknown if at all, leaves its end   *)
(* resolved.                                                               *)
(***************************************************************************)
LEMMA EndKept ==
    ASSUME CleanupIsKnown, EndIsResolved,
           \A a \in Attempts : att'[a].outcome = att[a].outcome /\ att'[a].cleanup = att[a].cleanup,
           HasOpenAttempt => HasOpenAttempt',
           UnresolvedEffects' => UnresolvedEffects,
           op'.cleanup = op.cleanup \/ HasOpenAttempt' \/ op'.cleanup = "unknown"
                                    \/ op.cleanup # "unknown",
           \/ op'.lifecycle = op.lifecycle
           \/ ~Terminal(op)'
           \/ ~HasUnknownAttempt /\ ~UnresolvedEffects
    PROVE  CleanupIsKnown' /\ EndIsResolved'
<1>1. CleanupIsKnown'
  BY DEF CleanupIsKnown
<1>2. CASE Terminal(op)'
  <2>1. ~UnresolvedEffects /\ \A a \in Attempts :
            att[a].cleanup # "unknown" /\ (att[a].outcome = "unknown" => op'.lifecycle = "canceled")
    <3>1. CASE op'.lifecycle = op.lifecycle
      <4>1. Terminal(op)
        BY <1>2, <3>1 DEF Terminal
      <4> QED
        BY <3>1, <4>1 DEF EndIsResolved
    <3>2. CASE ~HasUnknownAttempt /\ ~UnresolvedEffects
      BY <3>2 DEF HasUnknownAttempt, Unknown
    <3> QED
      BY <1>2, <3>1, <3>2
  <2>2. ~UnresolvedEffects'
    BY <2>1
  <2>3. \A a \in Attempts :
            att'[a].cleanup # "unknown" /\ (att'[a].outcome = "unknown" => op'.lifecycle = "canceled")
    BY <2>1
  <2>4. EndIsResolved'
    BY <2>2, <2>3, Zenon DEF EndIsResolved
  <2> QED
    BY <1>1, <2>4
<1>3. CASE ~Terminal(op)'
  <2>1. EndIsResolved'
    BY <1>3, Zenon DEF EndIsResolved
  <2> QED
    BY <1>1, <2>1
<1> QED
  BY <1>2, <1>3

(***************************************************************************)
(* A close takes over the cleanup of its attempt, or keeps the operation's *)
(* cleanup unknown for another (CloseAttempt).                             *)
(***************************************************************************)
LEMMA CloseCleanup ==
    ASSUME TypeOK, NEW a \in Attempts, CloseAttempt(a)
    PROVE  CleanupIsKnown'
<1> DEFINE unresolved == UnresolvedEffects \/ ExposureUnknown
           others == \E b \in Attempts \ {a} : Unknown(b)
<1>1. PICK outcome \in OutcomeReports, clean \in CleanupReports, again \in BOOLEAN :
        /\ att' = [att EXCEPT ![a] = [state |-> "closed", outcome |-> outcome, cleanup |-> clean,
                                      verdict |-> @.verdict, settled |-> @.settled \/ again]]
        /\ op' = KeepReconciling(SettleClose(op, att[a].verdict, outcome, clean), unresolved, others)
  BY DEF CloseAttempt
<1>2. op'.cleanup = IF others THEN "unknown" ELSE clean
  <2> HIDE DEF unresolved, others
  <2>1. SettleClose(op, att[a].verdict, outcome, clean).cleanup = clean
    BY DEF SettleClose
  <2> QED
    BY <1>1, <2>1 DEF KeepReconciling
<1>3. att'[a].cleanup = clean /\ \A b \in Attempts \ {a} : att'[b] = att[b]
  BY <1>1 DEF TypeOK
<1>4. ASSUME NEW b \in Attempts, att'[b].cleanup = "unknown" PROVE op'.cleanup = "unknown"
  <2>1. CASE b = a
    BY <1>2, <1>3, <1>4, <2>1
  <2>2. CASE b # a
    <3>1. Unknown(b)
      BY <1>3, <1>4, <2>2 DEF Unknown
    <3> QED
      BY <1>2, <2>2, <3>1
  <2> QED
    BY <2>1, <2>2
<1> QED
  BY <1>4 DEF CleanupIsKnown

(***************************************************************************)
(* Every step of every profile leaves an ended operation resolved.         *)
(***************************************************************************)
LEMMA EndStep ==
    ASSUME TypeOK, AttemptIsKept, CleanupIsKnown, EndIsResolved, [Next]_vars
    PROVE  CleanupIsKnown' /\ EndIsResolved'
<1> DEFINE Goal == CleanupIsKnown /\ EndIsResolved
<1>1. ASSUME UNCHANGED <<att, oblig>>
      PROVE  /\ \A a \in Attempts : att'[a].outcome = att[a].outcome /\ att'[a].cleanup = att[a].cleanup
             /\ HasOpenAttempt' <=> HasOpenAttempt
             /\ UnresolvedEffects' <=> UnresolvedEffects
  BY <1>1 DEF HasOpenAttempt, UnresolvedEffects
<1>2. ASSUME UNCHANGED <<att, oblig>>, op'.cleanup = op.cleanup,
             \/ op'.lifecycle = op.lifecycle
             \/ ~Terminal(op)'
             \/ ~HasUnknownAttempt /\ ~UnresolvedEffects
      PROVE  Goal'
  BY <1>1, <1>2, EndKept
<1>3. CASE Aside
  BY <1>2, <1>3 DEF Aside
<1>4. CASE RequestExecutionPermit
  <2>1. op'.lifecycle = "running" /\ op'.cleanup = op.cleanup
    BY <1>4 DEF RequestExecutionPermit, TypeOK, Operation
  <2> QED
    BY <1>2, <1>4, <2>1 DEF RequestExecutionPermit, workVars, Terminal, Terminals
<1>5. CASE RecordQuestionSet \/ SubmitAnswer
  BY <1>2, <1>5, QuestionSteps DEF Terminal, Terminals
<1>6. ASSUME NEW a \in Attempts,
             OpenAttempt(a) \/ PrepareLaunch(a) \/ RegisterInstance(a) \/ AcceptResult(a)
      PROVE  Goal'
  <2>1. op'.lifecycle = op.lifecycle \/ ~Terminal(op)'
    BY <1>6 DEF OpenAttempt, PrepareLaunch, RegisterInstance, AcceptResult, TypeOK, Operation, Terminal, Terminals
  <2>2. UNCHANGED oblig
    BY <1>6, AdvanceWork
  <2>3. CASE att' = att
    <3>1. ~PrepareLaunch(a) \/ att[a].state \notin {"none", "closed"}
      BY DEF PrepareLaunch, NewLaunch
    <3>2. op'.cleanup = op.cleanup \/ HasOpenAttempt
      BY <1>6, <3>1 DEF OpenAttempt, PrepareLaunch, RegisterInstance, AcceptResult, TypeOK, Operation, HasOpenAttempt
    <3> QED
      BY <1>1, <2>1, <2>2, <2>3, <3>2, EndKept
  <2>4. ASSUME NEW s \in AttemptStates \ {"none", "closed"}, Advances(a, s), att[a].state # "closed" PROVE Goal'
    <3>1. /\ \A b \in Attempts : att'[b].outcome = att[b].outcome /\ att'[b].cleanup = att[b].cleanup
          /\ HasOpenAttempt'
      BY <2>4 DEF Advances, HasOpenAttempt
    <3>2. UnresolvedEffects' => UnresolvedEffects
      BY <2>2 DEF UnresolvedEffects
    <3> QED
      BY <2>1, <3>1, <3>2, EndKept
  <2> QED
    BY <1>6, <2>3, <2>4, AdvanceSteps
<1>7. ASSUME NEW a \in Attempts, CloseAttempt(a) PROVE Goal'
  <2>1. PICK outcome \in AttemptOutcomes, clean \in Cleanups : ClosedAs(a, outcome, clean)
    BY <1>7, CloseIsAs
  <2>2. ASSUME Terminal(op)' PROVE ~UnresolvedEffects' /\ \A b \in Attempts : ~Unknown(b)'
    <3>1. /\ ~UnresolvedEffects /\ \A b \in Attempts \ {a} : ~Unknown(b)
          /\ outcome # "unknown" /\ clean # "unknown"
      BY <2>1, <2>2 DEF ClosedAs, Terminal
    <3>2. \A b \in Attempts : ~Unknown(b)'
      BY <2>1, <3>1 DEF ClosedAs, Unknown
    <3> QED
      BY <2>1, <3>1, <3>2, CloseWork
  <2>3. EndIsResolved'
    BY <2>2 DEF EndIsResolved, Unknown
  <2> QED
    BY <1>7, <2>3, CloseCleanup
<1>8. CASE RepeatTerminal
  BY <1>2, <1>8 DEF RepeatTerminal
<1>9. CASE SettleOperation
  <2>1. UNCHANGED <<att, oblig>>
    BY <1>9 DEF SettleOperation
  <2>2. CASE ObligationsOpen
    <3>1. op'.lifecycle = "reconciling" /\ op'.cleanup \in {op.cleanup, "unknown"}
      BY <1>9, <2>2 DEF SettleOperation
    <3> QED
      BY <1>1, <2>1, <3>1, EndKept DEF Terminal, Terminals
  <2>3. CASE ~ObligationsOpen
    <3>1. op'.cleanup = op.cleanup
      BY <1>9, <2>3 DEF SettleOperation, SettledAs
    <3> QED
      BY <1>2, <2>1, <2>3, <3>1 DEF ObligationsOpen
  <2> QED
    BY <2>2, <2>3
<1>10. CASE SettleFromIntent
  <2>1. op'.cleanup = op.cleanup
    BY <1>10 DEF SettleFromIntent, SettledAs
  <2> QED
    BY <1>2, <1>10, <2>1 DEF SettleFromIntent, ObligationsOpen
<1>11. ASSUME NEW x \in Obligations, PrepareDispatch(x) \/ Issue(x) \/ ReportUnknown(x) \/ Resolve(x)
       PROVE  Goal'
  <2>1. UNCHANGED <<op, att>>
    BY <1>11 DEF PrepareDispatch, Issue, ReportUnknown, Resolve, workVars
  <2>2. ~Terminal(op) \/ UnresolvedEffects
    <3>1. CASE PrepareDispatch(x) \/ Issue(x)
      BY <3>1 DEF PrepareDispatch, Issue, MayIssue, FencedForNewDispatch
    <3>2. CASE ReportUnknown(x) \/ Resolve(x)
      BY <3>2 DEF ReportUnknown, Resolve, UnresolvedEffects
    <3> QED
      BY <1>11, <3>1, <3>2
  <2>3. ~Terminal(op)'
    BY <2>1, <2>2 DEF EndIsResolved, Terminal
  <2> QED
    BY <2>1, <2>3 DEF CleanupIsKnown, EndIsResolved, HasOpenAttempt
<1>12. ASSUME NEW k \in Commands, SubmitCancel(k) PROVE Goal'
  <2>1. UNCHANGED <<att, oblig>>
    BY <1>12 DEF SubmitCancel, workVars
  <2>2. CASE op' = op
    BY <1>2, <2>1, <2>2
  <2>3. CASE op' = ApplyCancelFence /\ ~SendersQuiescent
    <3>1. op'.lifecycle = op.lifecycle /\ op'.cleanup = op.cleanup
      BY <2>3 DEF ApplyCancelFence
    <3> QED
      BY <1>2, <2>1, <3>1
  <2>4. CASE op' = ApplyCancelFence /\ SendersQuiescent
    <3>1. op'.lifecycle = "canceled"
      BY <2>4 DEF ApplyCancelFence
    <3>2. ~HasOpenAttempt /\ ~UnresolvedEffects /\ op.cleanup # "unknown"
      BY <2>4 DEF SendersQuiescent
    <3>3. \A a \in Attempts : att[a].cleanup # "unknown"
      BY <3>2 DEF CleanupIsKnown
    <3> QED
      BY <1>1, <2>1, <3>1, <3>2, <3>3 DEF CleanupIsKnown, EndIsResolved
  <2> QED
    BY <1>12, <2>2, <2>3, <2>4 DEF SubmitCancel
<1>13. ASSUME NEW k \in Commands, SubmitControl(k) \/ MarkCommandRelay(k) PROVE Goal'
  <2>1. UNCHANGED <<att, oblig>> /\ op'.lifecycle = op.lifecycle /\ op'.cleanup = op.cleanup
    BY <1>13 DEF SubmitControl, MarkCommandRelay, workVars, TypeOK, Operation
  <2> QED
    BY <1>2, <2>1
<1>14. ASSUME NEW k \in Commands, RecordCommandRelay(k) PROVE Goal'
  <2>1. PICK outcome : op' = ApplyControl(op, Kind[k], outcome)
    BY <1>14 DEF RecordCommandRelay
  <2>2. op'.lifecycle \in {op.lifecycle, "suspended", "running"} /\ op'.cleanup = op.cleanup
    BY <2>1 DEF ApplyControl, TypeOK, Operation
  <2>3. UNCHANGED <<att, oblig>>
    BY <1>14 DEF RecordCommandRelay, workVars
  <2> QED
    BY <1>2, <2>2, <2>3 DEF Terminal, Terminals
<1> QED
  BY <1>3, <1>4, <1>5, <1>6, <1>7, <1>8, <1>9, <1>10, <1>11, <1>12, <1>13, <1>14, AsideSteps DEF Next
-----------------------------------------------------------------------------
(* Without hold and question rounds nothing unknown is left behind.        *)

\* Nothing but evidence takes a reconciling operation of this profile out
\* of that state.
PlainProfile == SupportsControl = FALSE /\ MaxRounds = 0

\* No control command is relayed, no question is open, and an attempt of
\* unknown outcome or cleanup keeps its operation reconciling: a hold that
\* is applied after the close would suspend it, an answer make it run.
UnknownIsReconciling ==
    /\ \A k \in Commands : cmd[k].relay = "none"
    /\ ~question.open
    /\ HasUnknownAttempt => op.lifecycle = "reconciling"

(***************************************************************************)
(* A profile without rounds asks nothing (NewQuestionSet, NewAnswer).      *)
(***************************************************************************)
LEMMA NoQuestion ==
    ASSUME TypeOK, PlainProfile, UnknownIsReconciling, [Next]_vars
    PROVE  ~RecordQuestionSet /\ ~SubmitAnswer /\ UNCHANGED question
<1>1. ~RecordQuestionSet
  <2>1. question.asked \in 0..0
    BY DEF TypeOK, PlainProfile
  <2> QED
    BY <2>1 DEF RecordQuestionSet, NewQuestionSet, PlainProfile
<1>2. ~SubmitAnswer
  BY DEF SubmitAnswer, NewAnswer, OpenQuestionSet, UnknownIsReconciling
<1>3. CASE Aside
  BY <1>1, <1>2, <1>3 DEF Aside
<1>4. ASSUME NEW a \in Attempts,
             OpenAttempt(a) \/ PrepareLaunch(a) \/ RegisterInstance(a) \/ AcceptResult(a) \/ CloseAttempt(a)
      PROVE  UNCHANGED question
  BY <1>4 DEF OpenAttempt, PrepareLaunch, RegisterInstance, AcceptResult, CloseAttempt
<1>5. CASE RequestExecutionPermit \/ RepeatTerminal \/ SettleOperation \/ SettleFromIntent
  BY <1>1, <1>2, <1>5 DEF RequestExecutionPermit, RepeatTerminal, SettleOperation, SettleFromIntent
<1>6. ASSUME NEW x \in Obligations, PrepareDispatch(x) \/ Issue(x) \/ ReportUnknown(x) \/ Resolve(x)
      PROVE  UNCHANGED question
  BY <1>6 DEF PrepareDispatch, Issue, ReportUnknown, Resolve
<1>7. ASSUME NEW k \in Commands,
             SubmitCancel(k) \/ SubmitControl(k) \/ MarkCommandRelay(k) \/ RecordCommandRelay(k)
      PROVE  UNCHANGED question
  BY <1>7 DEF SubmitCancel, SubmitControl, MarkCommandRelay, RecordCommandRelay
<1> QED
  BY <1>1, <1>2, <1>3, <1>4, <1>5, <1>6, <1>7, AsideSteps DEF Next

(***************************************************************************)
(* With nothing relayed, a command moves only when it is submitted or      *)
(* settled by the end of its operation.                                    *)
(***************************************************************************)
LEMMA CommandMoves ==
    ASSUME TypeOK, \A k \in Commands : cmd[k].relay = "none", [Next]_vars
    PROVE  \/ UNCHANGED cmd \/ cmd' = SettledCommands
           \/ \E k \in Commands : SubmitCancel(k) \/ SubmitControl(k)
<1>0. \A k \in Commands : ~MarkCommandRelay(k) /\ ~RecordCommandRelay(k)
  BY DEF MarkCommandRelay, RecordCommandRelay, CommandRelayPending
<1>1. CASE \/ UNCHANGED vars
           \/ PutIntake \/ ConfirmIntake \/ CloseWorkflow \/ RecordFunding \/ RecordLease
           \/ \E r \in Replicas : Relay(r) \/ LaneFails(r)
           \/ \E a \in Attempts : PutLaunch(a) \/ ConfirmLaunch(a)
           \/ \E k \in Commands : AnswerCommand(k)
  BY <1>1, AsideSteps DEF Aside
<1>2. ASSUME NEW a \in Attempts,
             OpenAttempt(a) \/ PrepareLaunch(a) \/ RegisterInstance(a) \/ AcceptResult(a)
      PROVE  UNCHANGED cmd
  BY <1>2 DEF OpenAttempt, PrepareLaunch, RegisterInstance, AcceptResult
<1>3. ASSUME NEW a \in Attempts, CloseAttempt(a) PROVE cmd' = SettledCommands
  BY <1>3 DEF CloseAttempt, SettleTerminal
<1>4. CASE RequestExecutionPermit
  BY <1>4 DEF RequestExecutionPermit
<1>5. CASE RepeatTerminal \/ SettleOperation \/ SettleFromIntent
  BY <1>5 DEF RepeatTerminal, SettleOperation, SettleFromIntent, SettleTerminal
<1>6. ASSUME NEW x \in Obligations, PrepareDispatch(x) \/ Issue(x) \/ ReportUnknown(x) \/ Resolve(x)
      PROVE  UNCHANGED cmd
  BY <1>6 DEF PrepareDispatch, Issue, ReportUnknown, Resolve
<1>7. CASE RecordQuestionSet \/ SubmitAnswer
  BY <1>7, QuestionSteps
<1> QED
  BY <1>0, <1>1, <1>2, <1>3, <1>4, <1>5, <1>6, <1>7 DEF Next

(***************************************************************************)
(* A profile without hold and resume relays no command (ControlOutcomes).  *)
(***************************************************************************)
LEMMA NothingIsRelayed ==
    ASSUME TypeOK, SupportsControl = FALSE, \A k \in Commands : cmd[k].relay = "none", [Next]_vars
    PROVE  /\ \A k \in Commands : cmd'[k].relay = "none"
           /\ \A k \in Commands : ~MarkCommandRelay(k) /\ ~RecordCommandRelay(k)
           /\ \A k \in Commands : SubmitControl(k) => op' = op
<1>1. \A k \in Commands : ~MarkCommandRelay(k) /\ ~RecordCommandRelay(k)
  BY DEF MarkCommandRelay, RecordCommandRelay, CommandRelayPending
<1>2. ASSUME NEW k \in Commands, SubmitControl(k)
      PROVE  op' = op /\ cmd' = [cmd EXCEPT ![k] = [outcome |-> "rejected", relay |-> "none"]]
  BY <1>2 DEF SubmitControl, ControlOutcomes
<1>3. CASE UNCHANGED cmd
  BY <1>1, <1>2, <1>3
<1>4. CASE cmd' = SettledCommands
  BY <1>1, <1>2, <1>4, SettleTerminalType
<1>5. ASSUME NEW k \in Commands, SubmitCancel(k) PROVE \A j \in Commands : cmd'[j].relay = "none"
  <2>1. PICK c \in {cmd, SettledCommands} : cmd' = [c EXCEPT ![k].outcome = CancelOutcome]
    BY <1>5 DEF SubmitCancel
  <2>2. c \in [Commands -> Command] /\ \A j \in Commands : c[j].relay = "none"
    BY SettleTerminalType DEF TypeOK
  <2>3. [c[k] EXCEPT !.outcome = CancelOutcome].relay = "none"
    BY <2>2 DEF Command
  <2> QED
    BY <2>1, <2>2, <2>3
<1>6. ASSUME NEW k \in Commands, SubmitControl(k) PROVE \A j \in Commands : cmd'[j].relay = "none"
  BY <1>2, <1>6 DEF TypeOK
<1>7. \/ UNCHANGED cmd \/ cmd' = SettledCommands
      \/ \E k \in Commands : SubmitCancel(k) \/ SubmitControl(k)
  BY CommandMoves
<1> QED
  BY <1>1, <1>2, <1>3, <1>4, <1>5, <1>6, <1>7

(***************************************************************************)
(* Every step of a plain profile leaves an unknown attempt under a         *)
(* reconciling operation and nothing unknown under an ended one.           *)
(***************************************************************************)
LEMMA ResolvedStep ==
    ASSUME TypeOK, AttemptIsKept, PlainProfile, UnknownIsReconciling, EndIsQuiescent, [Next]_vars
    PROVE  UnknownIsReconciling' /\ EndIsQuiescent'
<1> DEFINE Goal == (HasUnknownAttempt => op.lifecycle = "reconciling") /\ EndIsQuiescent
<1>0. /\ \A k \in Commands : cmd'[k].relay = "none"
      /\ \A k \in Commands : ~MarkCommandRelay(k) /\ ~RecordCommandRelay(k)
      /\ \A k \in Commands : SubmitControl(k) => op' = op
  BY NothingIsRelayed DEF UnknownIsReconciling, PlainProfile
<1>a. ~RecordQuestionSet /\ ~SubmitAnswer /\ UNCHANGED question
  BY NoQuestion
<1> SUFFICES Goal'
  BY <1>0, <1>a DEF UnknownIsReconciling
<1> USE DEF UnknownIsReconciling, EndIsQuiescent, Terminal
<1>1. ASSUME op'.lifecycle = op.lifecycle, HasUnknownAttempt' => HasUnknownAttempt,
             UnresolvedEffects' => UnresolvedEffects
      PROVE  Goal'
  BY <1>1
<1>2. ASSUME UNCHANGED att PROVE HasUnknownAttempt' <=> HasUnknownAttempt
  BY <1>2 DEF HasUnknownAttempt, Unknown
<1>3. ASSUME UNCHANGED oblig PROVE UnresolvedEffects' <=> UnresolvedEffects
  BY <1>3 DEF UnresolvedEffects
<1>4. ASSUME ~HasUnknownAttempt', ~UnresolvedEffects' PROVE Goal'
  BY <1>4
<1>5. ASSUME ~FencedForNewDispatch PROVE ~HasUnknownAttempt
  BY <1>5 DEF FencedForNewDispatch
<1>6. ASSUME ~HasUnknownAttempt', op'.lifecycle = "running" PROVE Goal'
  BY <1>6 DEF Terminals
<1>7. CASE Aside
  BY <1>1, <1>2, <1>3, <1>7 DEF Aside
<1>8. CASE RequestExecutionPermit
  BY <1>2, <1>5, <1>6, <1>8 DEF RequestExecutionPermit, workVars, TypeOK, Operation
<1>9. ASSUME NEW a \in Attempts, OpenAttempt(a) PROVE Goal'
  <2>1. ~HasUnknownAttempt /\ op'.lifecycle = "running"
    BY <1>5, <1>9 DEF OpenAttempt, NewAttempt, TypeOK, Operation
  <2> QED
    BY <1>6, <1>9, <2>1, AdvanceWork
<1>10. ASSUME NEW a \in Attempts, PrepareLaunch(a) \/ RegisterInstance(a) \/ AcceptResult(a) PROVE Goal'
  <2>1. op'.lifecycle = op.lifecycle
    BY <1>10 DEF PrepareLaunch, RegisterInstance, AcceptResult, TypeOK, Operation
  <2> QED
    BY <1>1, <1>3, <1>10, <2>1, AdvanceWork
<1>11. ASSUME NEW a \in Attempts, CloseAttempt(a) PROVE Goal'
  <2>1. PICK outcome \in AttemptOutcomes, clean \in Cleanups : ClosedAs(a, outcome, clean)
    BY <1>11, CloseIsAs
  <2>2. HasUnknownAttempt' => op'.lifecycle = "reconciling"
    <3>1. ASSUME NEW b \in Attempts \ {a}, Unknown(b)' PROVE Unknown(b)
      BY <2>1, <3>1 DEF ClosedAs, Unknown
    <3>2. Unknown(a)' => outcome = "unknown" \/ clean = "unknown"
      BY <2>1 DEF ClosedAs, Unknown
    <3> QED
      BY <2>1, <3>1, <3>2 DEF ClosedAs, HasUnknownAttempt
  <2>3. op'.lifecycle \in Terminals => ~UnresolvedEffects'
    BY <2>1, CloseWork DEF ClosedAs
  <2> QED
    BY <2>2, <2>3 DEF Terminals
<1>12. CASE RepeatTerminal
  BY <1>1, <1>2, <1>3, <1>12 DEF RepeatTerminal
<1>13. CASE SettleOperation
  <2>1. UNCHANGED <<att, oblig>>
    BY <1>13 DEF SettleOperation
  <2>2. CASE ObligationsOpen
    BY <1>13, <2>2 DEF SettleOperation, Terminals
  <2>3. CASE ~ObligationsOpen
    BY <1>2, <1>3, <1>4, <2>1, <2>3 DEF ObligationsOpen
  <2> QED
    BY <2>2, <2>3
<1>14. CASE SettleFromIntent
  BY <1>2, <1>3, <1>4, <1>14 DEF SettleFromIntent, ObligationsOpen
<1>15. ASSUME NEW x \in Obligations, PrepareDispatch(x) \/ Issue(x) \/ ReportUnknown(x) \/ Resolve(x)
       PROVE  Goal'
  <2>1. UNCHANGED <<op, att>>
    BY <1>15 DEF PrepareDispatch, Issue, ReportUnknown, Resolve, workVars
  <2>2. ~Terminal(op) \/ UnresolvedEffects
    <3>1. CASE PrepareDispatch(x) \/ Issue(x)
      BY <3>1 DEF PrepareDispatch, Issue, MayIssue, FencedForNewDispatch
    <3>2. CASE ReportUnknown(x) \/ Resolve(x)
      BY <3>2 DEF ReportUnknown, Resolve, UnresolvedEffects
    <3> QED
      BY <1>15, <3>1, <3>2
  <2> QED
    BY <1>2, <2>1, <2>2
<1>16. ASSUME NEW k \in Commands, SubmitCancel(k) PROVE Goal'
  <2>1. UNCHANGED <<att, oblig>>
    BY <1>16 DEF SubmitCancel, workVars
  <2>2. op'.lifecycle = op.lifecycle \/ SendersQuiescent
    BY <1>16 DEF SubmitCancel, ApplyCancelFence
  <2>3. SendersQuiescent => ~HasUnknownAttempt /\ ~UnresolvedEffects
    BY DEF SendersQuiescent
  <2> QED
    BY <1>1, <1>2, <1>3, <1>4, <2>1, <2>2, <2>3
<1>17. ASSUME NEW k \in Commands, SubmitControl(k) PROVE Goal'
  BY <1>0, <1>1, <1>2, <1>3, <1>17 DEF SubmitControl, workVars
<1> QED
  BY <1>0, <1>a, <1>7, <1>8, <1>9, <1>10, <1>11, <1>12, <1>13, <1>14, <1>15, <1>16, <1>17, AsideSteps DEF Next
-----------------------------------------------------------------------------
(* With one attempt of a plain profile an end is final and a receipt true. *)

\* The operation has at most one attempt: a second one may still be open
\* when the first ends the operation.
SingleAttempt == \A a, b \in Attempts : a = b

\* A terminal operation is quiet, and a cancel is applied only to a
\* canceled one.
EndIsQuiet ==
    /\ Terminal(op) => ~HasOpenAttempt /\ ~ObligationsOpen
    /\ op.control = "cancel_applied" => op.lifecycle = "canceled"

(***************************************************************************)
(* No attempt, obligation, settlement or command moves a quiet terminal    *)
(* operation.                                                              *)
(***************************************************************************)
LEMMA EndIsFinal ==
    ASSUME TypeOK, AttemptIsKept, PlainProfile, UnknownIsReconciling, EndIsQuiet,
           Terminal(op), [Next]_vars
    PROVE  /\ op'.lifecycle = op.lifecycle /\ op'.control = op.control /\ op'.cleanup = op.cleanup
           /\ UNCHANGED <<att, oblig>>
<1> DEFINE Goal == /\ op'.lifecycle = op.lifecycle /\ op'.control = op.control /\ op'.cleanup = op.cleanup
                   /\ UNCHANGED <<att, oblig>>
<1>0. FencedForNewDispatch /\ ~HasOpenAttempt /\ ~UnresolvedEffects /\ ~HasUnknownAttempt
  BY DEF FencedForNewDispatch, EndIsQuiet, ObligationsOpen
<1>1. CASE Aside
  BY <1>1 DEF Aside
<1>2. CASE RequestExecutionPermit
  BY <1>0, <1>2 DEF RequestExecutionPermit
<1>3. ASSUME NEW a \in Attempts,
             OpenAttempt(a) \/ PrepareLaunch(a) \/ RegisterInstance(a) \/ AcceptResult(a)
      PROVE  Goal
  <2>1. ~OpenAttempt(a) /\ ~PrepareLaunch(a)
    BY <1>0 DEF OpenAttempt, NewAttempt, PrepareLaunch, NewLaunch
  <2>2. RegisterInstance(a) /\ att' = att
    BY <1>0, <1>3, <2>1, AdvanceSteps DEF HasOpenAttempt
  <2> QED
    BY <2>2 DEF RegisterInstance
<1>4. ASSUME NEW a \in Attempts, CloseAttempt(a) PROVE FALSE
  <2>1. PICK outcome \in AttemptOutcomes, clean \in Cleanups : ClosedAs(a, outcome, clean)
    BY <1>4, CloseIsAs
  <2>2. att[a].state = "closed"
    BY <1>0, <2>1 DEF ClosedAs, HasOpenAttempt
  <2> QED
    BY <1>0, <2>1, <2>2 DEF ClosedAs, HasUnknownAttempt, Unknown, Terminal, Terminals
<1>5. CASE RepeatTerminal
  BY <1>5 DEF RepeatTerminal
<1>6. ~SettleOperation /\ ~SettleFromIntent
  BY DEF SettleOperation, SettleFromIntent, ReconcilingSettlement, Terminal, Terminals
<1>7. ASSUME NEW x \in Obligations, PrepareDispatch(x) \/ Issue(x) \/ ReportUnknown(x) \/ Resolve(x)
      PROVE  FALSE
  BY <1>0, <1>7 DEF PrepareDispatch, Issue, MayIssue, ReportUnknown, Resolve, UnresolvedEffects
<1>8. ASSUME NEW k \in Commands, SubmitCancel(k) PROVE Goal
  BY <1>8 DEF SubmitCancel, InstallsFence, workVars
<1>9. ASSUME NEW k \in Commands, SubmitControl(k) \/ MarkCommandRelay(k) \/ RecordCommandRelay(k) PROVE Goal
  <2>1. SubmitControl(k) /\ op' = op
    BY <1>9, NothingIsRelayed DEF UnknownIsReconciling, PlainProfile
  <2> QED
    BY <2>1 DEF SubmitControl, workVars
<1> QED
  BY <1>1, <1>2, <1>3, <1>4, <1>5, <1>6, <1>7, <1>8, <1>9, AsideSteps, NoQuestion DEF Next

(***************************************************************************)
(* Every step of a single attempt leaves a terminal operation quiet.       *)
(***************************************************************************)
LEMMA QuietStep ==
    ASSUME TypeOK, AttemptIsKept, PlainProfile, SingleAttempt, CancelDominates,
           UnknownIsReconciling, EndIsQuiet, [Next]_vars
    PROVE  EndIsQuiet'
<1>1. CASE Terminal(op)
  <2>1. /\ op'.lifecycle = op.lifecycle /\ op'.control = op.control /\ op'.cleanup = op.cleanup
        /\ UNCHANGED <<att, oblig>>
    BY <1>1, EndIsFinal
  <2> QED
    BY <2>1 DEF EndIsQuiet, Terminal, HasOpenAttempt, ObligationsOpen, UnresolvedEffects, HasUnknownAttempt,
                Unknown, ExposureUnknown
<1>2. CASE ~Terminal(op)
  <2>0. op.control # "cancel_applied"
    BY <1>2 DEF EndIsQuiet, Terminal, Terminals
  <2>1. ASSUME op'.control = op.control, op'.lifecycle \in {op.lifecycle, "running", "reconciling"}
        PROVE  EndIsQuiet'
    BY <1>2, <2>0, <2>1 DEF EndIsQuiet, Terminal, Terminals
  <2>2. ASSUME UNCHANGED <<att, oblig>>, op'.cleanup # "unknown", ~HasOpenAttempt, ~UnresolvedEffects,
               ~HasUnknownAttempt, ~ExposureUnknown,
               op'.control = "cancel_applied" => op'.lifecycle = "canceled"
        PROVE  EndIsQuiet'
    BY <2>2 DEF EndIsQuiet, HasOpenAttempt, ObligationsOpen, UnresolvedEffects, HasUnknownAttempt,
                Unknown, ExposureUnknown
  <2>3. CASE Aside
    BY <2>1, <2>3 DEF Aside
  <2>4. CASE RequestExecutionPermit
    BY <2>1, <2>4 DEF RequestExecutionPermit, TypeOK, Operation
  <2>5. ASSUME NEW a \in Attempts,
               OpenAttempt(a) \/ PrepareLaunch(a) \/ RegisterInstance(a) \/ AcceptResult(a)
        PROVE  EndIsQuiet'
    BY <2>1, <2>5 DEF OpenAttempt, PrepareLaunch, RegisterInstance, AcceptResult, TypeOK, Operation
  <2>6. ASSUME NEW a \in Attempts, CloseAttempt(a) PROVE EndIsQuiet'
    <3>1. PICK outcome \in AttemptOutcomes, clean \in Cleanups : ClosedAs(a, outcome, clean)
      BY <2>6, CloseIsAs
    <3>2. ~HasOpenAttempt'
      BY <3>1 DEF ClosedAs, HasOpenAttempt, SingleAttempt
    <3>3. ASSUME Terminal(op)' PROVE ~UnresolvedEffects' /\ ~HasUnknownAttempt' /\ op'.cleanup # "unknown"
      <4>1. /\ ~UnresolvedEffects /\ outcome # "unknown" /\ clean # "unknown" /\ op'.cleanup = clean
        BY <3>1, <3>3 DEF ClosedAs, Terminal
      <4>2. ~HasUnknownAttempt'
        BY <3>1, <4>1 DEF ClosedAs, HasUnknownAttempt, Unknown, SingleAttempt
      <4> QED
        BY <3>1, <4>1, <4>2, CloseWork
    <3>4. ~UnresolvedEffects' => ~ExposureUnknown'
      BY LifecycleAssumption DEF UnresolvedEffects, ExposureUnknown
    <3>5. op'.control = "cancel_applied" => op'.lifecycle = "canceled"
      BY <2>0, <3>1 DEF ClosedAs
    <3> QED
      BY <3>2, <3>3, <3>4, <3>5 DEF EndIsQuiet, ObligationsOpen
  <2>7. CASE RepeatTerminal
    BY <2>1, <2>7 DEF RepeatTerminal
  <2>8. CASE SettleOperation
    <3>1. UNCHANGED <<att, oblig>> /\ ~HasOpenAttempt
      BY <2>8 DEF SettleOperation
    <3>2. CASE ObligationsOpen
      BY <2>1, <2>8, <3>2 DEF SettleOperation
    <3>3. CASE ~ObligationsOpen
      <4>1. op'.cleanup = op.cleanup /\ (op'.control = "cancel_applied" => op'.lifecycle = "canceled")
        BY <2>0, <2>8, <3>3 DEF SettleOperation, SettledAs
      <4> QED
        BY <2>2, <3>1, <3>3, <4>1 DEF ObligationsOpen
    <3> QED
      BY <3>2, <3>3
  <2>9. CASE SettleFromIntent
    <3>1. op'.cleanup = op.cleanup /\ (op'.control = "cancel_applied" => op'.lifecycle = "canceled")
      BY <2>0, <2>9 DEF SettleFromIntent, SettledAs
    <3> QED
      BY <2>2, <2>9, <3>1 DEF SettleFromIntent, ObligationsOpen
  <2>10. ASSUME NEW x \in Obligations, PrepareDispatch(x) \/ Issue(x) \/ ReportUnknown(x) \/ Resolve(x)
         PROVE  EndIsQuiet'
    BY <2>1, <2>10 DEF PrepareDispatch, Issue, ReportUnknown, Resolve
  <2>11. ASSUME NEW k \in Commands, SubmitCancel(k) PROVE EndIsQuiet'
    <3>1. CASE ~InstallsFence
      BY <2>1, <2>11, <3>1 DEF SubmitCancel
    <3>2. CASE InstallsFence /\ ~SendersQuiescent
      <4>1. op'.lifecycle = op.lifecycle /\ op'.control = "cancel_pending"
        BY <2>11, <3>2 DEF SubmitCancel, ApplyCancelFence
      <4> QED
        BY <1>2, <4>1 DEF EndIsQuiet, Terminal
    <3>3. CASE InstallsFence /\ SendersQuiescent
      <4>1. op' = ApplyCancelFence /\ UNCHANGED <<att, oblig>>
        BY <2>11, <3>3 DEF SubmitCancel, workVars
      <4>2. op'.lifecycle = "canceled" /\ op'.cleanup # "unknown"
        BY <3>3, <4>1 DEF ApplyCancelFence, SendersQuiescent
      <4> QED
        BY <2>2, <3>3, <4>1, <4>2 DEF SendersQuiescent, UnknownIsReconciling
    <3> QED
      BY <3>1, <3>2, <3>3
  <2>12. ASSUME NEW k \in Commands, SubmitControl(k) \/ MarkCommandRelay(k) \/ RecordCommandRelay(k)
         PROVE  EndIsQuiet'
    BY <2>1, <2>12, NothingIsRelayed DEF UnknownIsReconciling, PlainProfile
  <2> QED
    BY <2>3, <2>4, <2>5, <2>6, <2>7, <2>8, <2>9, <2>10, <2>11, <2>12, AsideSteps, NoQuestion DEF Next
<1> QED
  BY <1>1, <1>2
(***************************************************************************)
(* Every step of a single attempt leaves the receipts of its cancels true. *)
(***************************************************************************)
LEMMA ReceiptStep ==
    ASSUME TypeOK, AttemptIsKept, PlainProfile, SingleAttempt, CancelDominates,
           UnknownIsReconciling, EndIsQuiet, EndIsQuiet', ReceiptIsTrue, [Next]_vars
    PROVE  ReceiptIsTrue'
<1> DEFINE True(k) ==
        /\ cmd[k].outcome = "applied" => op.lifecycle = "canceled" /\ ~HasOpenAttempt /\ ~ObligationsOpen
        /\ cmd[k].outcome = "pending" => op.control = "cancel_pending" \/ TerminalWaits
<1> SUFFICES ASSUME NEW k \in Commands, Kind[k] = "cancel" PROVE True(k)'
  BY DEF ReceiptIsTrue
<1>0. True(k)
  BY DEF ReceiptIsTrue
<1>1. ~TerminalWaits /\ ~TerminalWaits'
  BY DEF TerminalWaits, EndIsQuiet
<1>2. SettledCommands[k].outcome =
        IF op'.control = "cancel_applied" /\ cmd[k].outcome = "pending" THEN "applied" ELSE cmd[k].outcome
  BY <1>1 DEF SettledCommands, TypeOK, Command
<1>3. op'.lifecycle = "canceled" => ~HasOpenAttempt' /\ ~ObligationsOpen'
  BY DEF EndIsQuiet, Terminal, Terminals
<1>4. op'.control = "cancel_applied" => op'.lifecycle = "canceled"
  BY DEF EndIsQuiet
<1>5. CASE Terminal(op)
  <2>1. op'.lifecycle = op.lifecycle /\ op'.control = op.control
    BY <1>5, EndIsFinal
  <2>2. ASSUME cmd'[k].outcome \in {cmd[k].outcome, SettledCommands[k].outcome} PROVE True(k)'
    <3>1. cmd[k].outcome = "pending" => op.control = "cancel_pending"
      BY <1>0, <1>1
    <3>2. cmd'[k].outcome = cmd[k].outcome
      BY <1>2, <2>1, <2>2, <3>1
    <3> QED
      BY <1>0, <1>1, <1>3, <2>1, <3>2
  <2>3. ASSUME NEW j \in Commands, SubmitCancel(j) PROVE True(k)'
    <3>1. cmd' = [cmd EXCEPT ![j].outcome = "rejected"]
      BY <1>5, <2>3 DEF SubmitCancel, InstallsFence, CancelOutcome
    <3>2. cmd'[k].outcome \in {"rejected", cmd[k].outcome}
      BY <3>1 DEF TypeOK, Command
    <3> QED
      BY <2>2, <3>2
  <2>4. ASSUME NEW j \in Commands, SubmitControl(j) PROVE cmd'[k] = cmd[k]
    BY <2>4 DEF SubmitControl, TypeOK
  <2> QED
    BY <2>2, <2>3, <2>4, CommandMoves DEF UnknownIsReconciling
<1>6. CASE ~Terminal(op)
  <2>0. cmd[k].outcome # "applied" /\ (cmd[k].outcome = "pending" => op.control = "cancel_pending")
    BY <1>0, <1>1, <1>6 DEF Terminal, Terminals
  <2>1. ASSUME op'.control = op.control, cmd'[k].outcome = cmd[k].outcome PROVE True(k)'
    BY <2>0, <2>1
  <2>2. ASSUME op.control = "cancel_pending" => op'.control \in {"cancel_pending", "cancel_applied"},
               cmd'[k].outcome = SettledCommands[k].outcome
        PROVE  True(k)'
    BY <1>2, <1>3, <1>4, <2>0, <2>2
  <2>3. CASE Aside
    BY <2>1, <2>3 DEF Aside
  <2>4. CASE RequestExecutionPermit
    BY <2>1, <2>4 DEF RequestExecutionPermit, TypeOK, Operation
  <2>5. ASSUME NEW a \in Attempts,
               OpenAttempt(a) \/ PrepareLaunch(a) \/ RegisterInstance(a) \/ AcceptResult(a)
        PROVE  True(k)'
    BY <2>1, <2>5 DEF OpenAttempt, PrepareLaunch, RegisterInstance, AcceptResult, TypeOK, Operation
  <2>6. ASSUME NEW a \in Attempts, CloseAttempt(a) PROVE True(k)'
    <3>1. op.control = "cancel_pending" => op'.control \in {"cancel_pending", "cancel_applied"}
      BY <2>6, CloseIsAs DEF ClosedAs
    <3> QED
      BY <2>2, <2>6, <3>1 DEF CloseAttempt, SettleTerminal
  <2>7. CASE RepeatTerminal
    BY <2>2, <2>7 DEF RepeatTerminal, SettleTerminal
  <2>8. CASE SettleOperation
    <3>1. op.control = "cancel_pending" => op'.control \in {"cancel_pending", "cancel_applied"}
      BY <2>8 DEF SettleOperation, SettledAs
    <3> QED
      BY <2>2, <2>8, <3>1 DEF SettleOperation, SettleTerminal
  <2>9. CASE SettleFromIntent
    <3>1. op.control = "cancel_pending" => op'.control \in {"cancel_pending", "cancel_applied"}
      BY <2>9 DEF SettleFromIntent, SettledAs
    <3> QED
      BY <2>2, <2>9, <3>1 DEF SettleFromIntent, SettleTerminal
  <2>10. ASSUME NEW x \in Obligations, PrepareDispatch(x) \/ Issue(x) \/ ReportUnknown(x) \/ Resolve(x)
         PROVE  True(k)'
    BY <2>1, <2>10 DEF PrepareDispatch, Issue, ReportUnknown, Resolve
  <2>11. ASSUME NEW j \in Commands, SubmitCancel(j) PROVE True(k)'
    <3>1. CASE InstallsFence
      <4>1. /\ op'.control = (IF SendersQuiescent THEN "cancel_applied" ELSE "cancel_pending")
            /\ cmd' = [SettledCommands EXCEPT ![j].outcome = CancelOutcome]
        BY <2>11, <3>1 DEF SubmitCancel, ApplyCancelFence
      <4>2. CASE j # k
        BY <2>2, <4>1, <4>2, SettleTerminalType
      <4>3. CASE j = k
        <5>1. CancelOutcome = (IF SendersQuiescent THEN "applied" ELSE "pending")
          BY <1>6, <3>1 DEF CancelOutcome, InstallsFence
        <5>2. cmd'[k].outcome = CancelOutcome
          BY <4>1, <4>3, SettleTerminalType DEF Command
        <5> QED
          BY <1>3, <1>4, <4>1, <5>1, <5>2
      <4> QED
        BY <4>2, <4>3
    <3>2. CASE ~InstallsFence
      <4>1. op' = op /\ cmd' = [cmd EXCEPT ![j].outcome = CancelOutcome]
        BY <2>11, <3>2 DEF SubmitCancel
      <4>2. op.control = "cancel_pending"
        BY <1>6, <3>2 DEF InstallsFence, EndIsQuiet, Terminal, Terminals
      <4>3. CancelOutcome = "pending"
        BY <1>6, <4>2 DEF CancelOutcome
      <4>4. cmd'[k].outcome \in {cmd[k].outcome, "pending"}
        BY <4>1, <4>3 DEF TypeOK, Command
      <4> QED
        BY <2>0, <4>1, <4>2, <4>4
    <3> QED
      BY <3>1, <3>2
  <2>12. ASSUME NEW j \in Commands, SubmitControl(j) \/ MarkCommandRelay(j) \/ RecordCommandRelay(j)
         PROVE  True(k)'
    <3>1. SubmitControl(j) /\ op' = op
      BY <2>12, NothingIsRelayed DEF UnknownIsReconciling, PlainProfile
    <3>2. cmd'[k] = cmd[k]
      BY <3>1 DEF SubmitControl, TypeOK
    <3> QED
      BY <2>1, <3>1, <3>2
  <2> QED
    BY <2>3, <2>4, <2>5, <2>6, <2>7, <2>8, <2>9, <2>10, <2>11, <2>12, AsideSteps, NoQuestion DEF Next
<1> QED
  BY <1>5, <1>6

-----------------------------------------------------------------------------
(* What every operation promises.                                          *)

\* The inductive invariant: it needs no assumption on the profile.
LifecycleInv ==
    /\ IntakeComesFirst /\ LaunchComesFirst
    /\ AttemptIsKept
    /\ CancelDominates /\ OutcomeIsStated /\ PermitCoversWork

(***************************************************************************)
(* The inductive invariant holds in every reachable state of Lifecycle,    *)
(* for any attempts, obligations, commands, replicas and profile.          *)
(***************************************************************************)
THEOREM LifecycleInvariant == Spec => [](TypeOK /\ LifecycleInv)
<1>1. Init => LifecycleInv
  BY InventoryInit DEF Init, LifecycleInv, AttemptIsKept, CancelDominates, OutcomeIsStated, PermitCoversWork,
                       HasOpenAttempt, AttemptsUnresolved, HasUnknownAttempt, Unknown
<1>2. TypeOK /\ LifecycleInv /\ [Next]_vars => LifecycleInv'
  BY IntakeStep, LaunchStep, AttemptStep, CancelStep, OutcomeStep, PermitStep DEF LifecycleInv
<1> QED
  BY <1>1, <1>2, TypeInit, TypeStep, PTL DEF Spec

(***************************************************************************)
(* Every variable of Lifecycle keeps its type.                             *)
(***************************************************************************)
THEOREM LifecycleTypes == Spec => []TypeOK
BY LifecycleInvariant, PTL

(***************************************************************************)
(* A run has its intake in the inventory and an instance its launch,       *)
(* whatever acknowledgement is lost and whichever replica restarts         *)
(* (confirmIntake, ListRelayPending, confirmLaunch, RegisterInstance).     *)
(***************************************************************************)
THEOREM InventoryIsFirst == Spec => []InventoryFirst
<1>1. TypeOK /\ LifecycleInv => InventoryFirst
  BY DEF LifecycleInv, IntakeComesFirst, LaunchComesFirst, InventoryFirst, TypeOK
<1> QED
  BY <1>1, LifecycleInvariant, PTL

(***************************************************************************)
(* Once the fence of a cancel is installed the operation neither succeeds  *)
(* nor fails (SettleClose, SettleOperation, ApplyControl).                 *)
(***************************************************************************)
THEOREM CancelAlwaysDominates == Spec => []CancelDominates
BY LifecycleInvariant, PTL DEF LifecycleInv

(***************************************************************************)
(* An operation that succeeded or failed did so as its workflow stated or  *)
(* on a certified result (SettleOperation, SettleFromIntent, SettleClose). *)
(***************************************************************************)
THEOREM OutcomeAlwaysStated == Spec => []OutcomeIsStated
BY LifecycleInvariant, PTL DEF LifecycleInv

(***************************************************************************)
(* A queued operation holds its permit as long as something may run for it *)
(* (BootstrapGate, settleTerminal).                                        *)
(***************************************************************************)
THEOREM PermitAlwaysCovers == Spec => []PermitCoversWork
BY LifecycleInvariant, PTL DEF LifecycleInv

(***************************************************************************)
(* An operation of a profile without hold and question rounds that ended   *)
(* has nothing unresolved and no attempt of unknown outcome or cleanup,    *)
(* for any number of attempts (CloseAttempt, SettleOperation,              *)
(* SendersQuiescent).                                                      *)
(***************************************************************************)
THEOREM EndsQuiescent ==
    ASSUME PlainProfile
    PROVE  Spec => []EndIsQuiescent
<1>1. Init => UnknownIsReconciling /\ EndIsQuiescent
  BY DEF Init, UnknownIsReconciling, EndIsQuiescent, HasUnknownAttempt, Unknown, Terminal, Terminals
<1>2. /\ TypeOK /\ LifecycleInv /\ UnknownIsReconciling /\ EndIsQuiescent /\ [Next]_vars
      => UnknownIsReconciling' /\ EndIsQuiescent'
  BY ResolvedStep DEF LifecycleInv
<1> QED
  BY <1>1, <1>2, LifecycleInvariant, PTL DEF Spec

(***************************************************************************)
(* Whatever the profile, an operation that ended has nothing unresolved    *)
(* and no unknown cleanup, and only a cancel of a profile with hold or     *)
(* question rounds leaves an unknown outcome behind (CloseAttempt,         *)
(* SettleOperation, SendersQuiescent, ApplyControl, SubmitAnswer).         *)
(***************************************************************************)
THEOREM EndsResolved == Spec => []TerminalIsResolved
<1>1. Spec => []EndIsResolved
  <2>1. Init => CleanupIsKnown /\ EndIsResolved
    BY DEF Init, CleanupIsKnown, EndIsResolved, Terminal, Terminals
  <2>2. /\ TypeOK /\ LifecycleInv /\ CleanupIsKnown /\ EndIsResolved /\ [Next]_vars
        => CleanupIsKnown' /\ EndIsResolved'
    BY EndStep DEF LifecycleInv
  <2> QED
    BY <2>1, <2>2, LifecycleInvariant, PTL DEF Spec
<1>2. CASE PlainProfile
  <2>1. EndIsQuiescent => TerminalIsResolved
    BY DEF EndIsQuiescent, TerminalIsResolved, HasUnknownAttempt, Unknown
  <2>2. Spec => []EndIsQuiescent
    BY <1>2, EndsQuiescent
  <2> QED
    BY <2>1, <2>2, PTL
<1>3. CASE ~PlainProfile
  <2>1. SupportsControl \/ MaxRounds > 0
    BY <1>3, LifecycleAssumption DEF PlainProfile
  <2>2. EndIsResolved => TerminalIsResolved
    BY <2>1 DEF EndIsResolved, TerminalIsResolved
  <2> QED
    BY <1>1, <2>2, PTL
<1> QED
  BY <1>2, <1>3

\* What a single attempt adds to the inductive invariant.
SingleInv == UnknownIsReconciling /\ EndIsQuiet /\ ReceiptIsTrue

(***************************************************************************)
(* With one attempt of a profile without hold and question rounds, the     *)
(* inductive invariant is kept with a quiet end and true receipts.         *)
(***************************************************************************)
LEMMA SingleInvariant ==
    ASSUME PlainProfile, SingleAttempt
    PROVE  Spec => [](TypeOK /\ LifecycleInv /\ SingleInv)
<1>1. Init => SingleInv
  <2> SUFFICES ASSUME Init PROVE SingleInv
    OBVIOUS
  <2>1. ~HasUnknownAttempt /\ ~Terminal(op) /\ op.control = "none"
    BY DEF Init, HasUnknownAttempt, Unknown, Terminal, Terminals
  <2>2. ~question.open /\ \A k \in Commands : cmd[k].outcome = "none" /\ cmd[k].relay = "none"
    BY DEF Init
  <2> QED
    BY <2>1, <2>2 DEF SingleInv, UnknownIsReconciling, EndIsQuiet, ReceiptIsTrue
<1>2. TypeOK /\ LifecycleInv /\ SingleInv /\ [Next]_vars => SingleInv'
  <2> SUFFICES ASSUME TypeOK, LifecycleInv, SingleInv, [Next]_vars PROVE SingleInv'
    OBVIOUS
  <2>1. EndIsQuiescent
    BY DEF SingleInv, EndIsQuiet, ObligationsOpen, EndIsQuiescent
  <2>2. UnknownIsReconciling'
    BY <2>1, ResolvedStep DEF LifecycleInv, SingleInv
  <2>3. EndIsQuiet'
    BY QuietStep DEF LifecycleInv, SingleInv
  <2>4. ReceiptIsTrue'
    BY <2>3, ReceiptStep DEF LifecycleInv, SingleInv
  <2> QED
    BY <2>2, <2>3, <2>4 DEF SingleInv
<1> QED
  BY <1>1, <1>2, LifecycleInvariant, PTL DEF Spec

(***************************************************************************)
(* With one attempt of a profile without hold and question rounds, the     *)
(* receipt of a cancel says applied only of a quiet canceled operation and *)
(* no longer says pending once it is one (SubmitCommand with               *)
(* settleTerminal).                                                        *)
(***************************************************************************)
THEOREM ReceiptsAlwaysTrue ==
    ASSUME PlainProfile, SingleAttempt
    PROVE  Spec => []ReceiptIsTrue
BY SingleInvariant, PTL DEF SingleInv

(***************************************************************************)
(* With one attempt of a profile without hold and question rounds, a       *)
(* terminal lifecycle is never left (Event.Completes).                     *)
(***************************************************************************)
THEOREM EndIsNeverLeft ==
    ASSUME PlainProfile, SingleAttempt
    PROVE  Spec => TerminalIsFinal
<1>1. TypeOK /\ LifecycleInv /\ SingleInv /\ [Next]_vars =>
        [Terminal(op) => op'.lifecycle = op.lifecycle]_vars
  BY EndIsFinal DEF LifecycleInv, SingleInv
<1> QED
  BY <1>1, SingleInvariant, PTL DEF Spec, TerminalIsFinal
=============================================================================
