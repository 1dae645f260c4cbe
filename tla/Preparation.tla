---------------------------- MODULE Preparation ----------------------------
(***************************************************************************)
(* The human input of a preparation and the generations that start from    *)
(* its brief: question rounds, answers and their relay to the run, frozen  *)
(* briefs, the acceptance of a generation against a brief and its          *)
(* execution permit in a bounded pool (application/preparation.go and      *)
(* generation.go over domain/preparation.go and generation.go, with        *)
(* verifyBriefBinding of operations.go and relayAnswer of relay.go).       *)
(*                                                                         *)
(* Mutations run under the operation's row lock and are one action each.   *)
(* Creating a generation reads the brief and then its preparation without  *)
(* a lock, under READ COMMITTED: two steps.  A call refused for another    *)
(* reason (a closed scope, a changed digest) is a call that does not       *)
(* happen; the artifacts named by answers and briefs are Artifacts.tla's.  *)
(***************************************************************************)
EXTENDS Naturals, FiniteSets

CONSTANTS
    Rounds,         \* question rounds the profile admits, from 1
    Answerers,      \* answer commands
    Briefs,         \* brief commands
    Generations,
    Replicas,       \* processes running the commands lane of the relay
    Capacity        \* of the queue pool

ASSUME PreparationAssumption == IsFiniteSet(Generations) /\ Capacity \in Nat

VARIABLES
    prep,       \* the preparation: lifecycle, fenced, and an attempt of unknown outcome
    round,      \* round -> none | open | answered
    past,       \* rounds whose wait ended
    answer,     \* round -> the accepted command and its relay intent
    lane,       \* replica -> the answer it relays
    run,        \* the preparation's workflow run
    heard,      \* round -> what the run's handler answered
    brief,      \* brief -> none | current | superseded
    gen,        \* generation -> where it is and the brief it binds
    permit      \* generation -> none | active | released

prepVars == <<prep, round, past, brief>>
relayVars == <<lane, run, heard>>
preparationVars == <<prepVars, answer, relayVars, gen, permit>>

-----------------------------------------------------------------------------
None == "none"
Terminals == {"succeeded", "canceled"}
RelayStates == {"pending", "sent", "applied", "rejected"}
Idle == [at |-> "idle", round |-> 0, by |-> None]
Unheard == [by |-> None, as |-> "none"]

\* Every variable has its type.
PreparationTypeOK ==
    /\ prep \in [lifecycle : {"running", "waiting", "reconciling"} \cup Terminals, fenced : BOOLEAN, unknown : BOOLEAN]
    /\ round \in [Rounds -> {"none", "open", "answered"}]
    /\ past \subseteq Rounds
    /\ answer \in [Rounds -> [by : Answerers \cup {None}, relay : RelayStates \cup {None}]]
    /\ lane \in [Replicas -> [at : {"idle", "mark", "call", "applied", "rejected"}, round : Rounds \cup {0},
                          by : Answerers \cup {None}]]
    /\ run \in {"running", "closed"}
    /\ heard \in [Rounds -> [by : Answerers \cup {None}, as : {"none", "applied", "rejected"}]]
    /\ brief \in [Briefs -> {"none", "current", "superseded"}]
    /\ gen \in [Generations -> [at : {"none", "reading", "accepted", "ended"}, brief : Briefs \cup {None}]]
    /\ permit \in [Generations -> {"none", "active", "released"}]

PreparationInit ==
    /\ prep = [lifecycle |-> "running", fenced |-> FALSE, unknown |-> FALSE]
    /\ round = [r \in Rounds |-> "none"] /\ past = {}
    /\ answer = [r \in Rounds |-> [by |-> None, relay |-> None]]
    /\ lane = [p \in Replicas |-> Idle]
    /\ run = "running" /\ heard = [r \in Rounds |-> Unheard]
    /\ brief = [b \in Briefs |-> "none"]
    /\ gen = [g \in Generations |-> [at |-> "none", brief |-> None]]
    /\ permit = [g \in Generations |-> "none"]

-----------------------------------------------------------------------------
(* Question rounds and answers.                                            *)

FencedForNewDispatch == prep.fenced \/ prep.lifecycle \in Terminals \cup {"reconciling"}

\* A round whose wait ended stays open: nothing else closes it.
OpenQuestionSet == \E r \in Rounds : round[r] = "open"

NewQuestionSet(r) == round[r] = "none" /\ ~FencedForNewDispatch /\ ~OpenQuestionSet

RecordQuestionSet(r) ==
    /\ run = "running" /\ NewQuestionSet(r)
    /\ round' = [round EXCEPT ![r] = "open"]
    /\ prep' = [prep EXCEPT !.lifecycle = "waiting"]
    /\ UNCHANGED <<past, brief, answer, relayVars, gen, permit>>

WaitEnds(r) ==
    /\ round[r] = "open" /\ r \notin past
    /\ past' = past \cup {r}
    /\ UNCHANGED <<prep, round, brief, answer, relayVars, gen, permit>>

Expired(r) == r \in past

\* An operation that is not terminal and has no control intent takes the
\* answer of its open round in time.
NewAnswer(r) ==
    /\ round[r] = "open" /\ ~Expired(r)
    /\ prep.lifecycle \notin Terminals /\ ~prep.fenced

\* The answer and its relay intent commit together and the operation runs
\* again, also one that was reconciling.
SubmitAnswer(c, r) ==
    /\ NewAnswer(r)
    /\ round' = [round EXCEPT ![r] = "answered"]
    /\ answer' = [answer EXCEPT ![r] = [by |-> c, relay |-> "pending"]]
    /\ prep' = [prep EXCEPT !.lifecycle = "running"]
    /\ UNCHANGED <<past, brief, relayVars, gen, permit>>

AnswerRelayPending == {r \in Rounds : answer[r].relay \in {"pending", "sent"}}

\* The lane lists the answers that are pending or sent; a pending one is
\* marked before the call.
ListAnswer(p, r) ==
    /\ lane[p].at = "idle" /\ r \in AnswerRelayPending
    /\ lane' = [lane EXCEPT ![p] = [at |-> IF answer[r].relay = "pending" THEN "mark" ELSE "call",
                                     round |-> r, by |-> answer[r].by]]
    /\ UNCHANGED <<prepVars, answer, run, heard, gen, permit>>

\* An answer is settled once; a later report never reopens it.
RecordAnswerRelay(r, state) ==
    answer' = IF answer[r].relay \in {"applied", "rejected"} THEN answer ELSE [answer EXCEPT ![r].relay = state]

MarkSent(p) ==
    /\ lane[p].at = "mark"
    /\ RecordAnswerRelay(lane[p].round, "sent")
    /\ lane' = [lane EXCEPT ![p].at = "call"]
    /\ UNCHANGED <<prepVars, run, heard, gen, permit>>

\* Mutant: a closed run refuses every Update.
UpdateRunning(p) ==
    LET r == lane[p].round
    IN  /\ lane[p].at = "call"
        /\ IF run = "closed"
           THEN lane' = [lane EXCEPT ![p].at = "rejected"] /\ UNCHANGED heard
           ELSE \E v \in {"applied", "rejected"} :
                /\ heard' = [heard EXCEPT ![r] = [by |-> lane[p].by, as |-> v]]
                /\ lane' = [lane EXCEPT ![p].at = v]
        /\ UNCHANGED <<prepVars, answer, run, gen, permit>>

\* The run's handler answers the Update of an answer once under its identity;
\* a closed run that never took it refuses it.
UpdateAnswer(p) ==
    LET r == lane[p].round
        verdicts == IF heard[r] # Unheard THEN {heard[r].as} ELSE {"applied", "rejected"}
    IN  /\ lane[p].at = "call"
        /\ IF heard[r] = Unheard /\ run = "closed"
           THEN lane' = [lane EXCEPT ![p].at = "rejected"] /\ UNCHANGED heard
           ELSE \E v \in verdicts :
                /\ heard' = [heard EXCEPT ![r] = IF @ = Unheard THEN [by |-> lane[p].by, as |-> v] ELSE @]
                /\ lane' = [lane EXCEPT ![p].at = v]
        /\ UNCHANGED <<prepVars, answer, run, gen, permit>>

RecordOutcome(p) ==
    /\ lane[p].at \in {"applied", "rejected"}
    /\ RecordAnswerRelay(lane[p].round, lane[p].at)
    /\ lane' = [lane EXCEPT ![p] = Idle]
    /\ UNCHANGED <<prepVars, run, heard, gen, permit>>

\* The call fails, its receipt is lost or the process restarts.
LaneFails(p) ==
    /\ lane[p].at # "idle"
    /\ lane' = [lane EXCEPT ![p] = Idle]
    /\ UNCHANGED <<prepVars, answer, run, heard, gen, permit>>

CloseRun ==
    /\ run = "running" /\ run' = "closed"
    /\ UNCHANGED <<prepVars, answer, lane, heard, gen, permit>>

-----------------------------------------------------------------------------
(* Briefs and the end of the preparation.                                  *)

NewBrief(b) == brief[b] = "none" /\ ~FencedForNewDispatch

SupersedeBriefs == [c \in Briefs |-> IF brief[c] = "current" THEN "superseded" ELSE brief[c]]

\* A new brief supersedes the operation's current one.
RecordBrief(b) ==
    /\ run = "running" /\ NewBrief(b)
    /\ brief' = [SupersedeBriefs EXCEPT ![b] = "current"]
    /\ UNCHANGED <<prep, round, past, answer, relayVars, gen, permit>>

\* The ends Lifecycle.tla allows: success from a running preparation with
\* nothing unknown, a cancel that is applied at once when the senders are
\* quiescent, an attempt that closes unknown and is resolved later.
EndPreparation ==
    /\ \/ /\ prep.lifecycle = "running" /\ ~prep.fenced /\ ~prep.unknown
          /\ prep' = [prep EXCEPT !.lifecycle = "succeeded"]
       \/ /\ prep.lifecycle \notin Terminals /\ ~prep.fenced
          /\ prep' = [prep EXCEPT !.fenced = TRUE,
                                  !.lifecycle = IF @ = "reconciling" THEN @ ELSE "canceled"]
       \/ /\ prep.lifecycle \in {"running", "waiting"} /\ ~prep.unknown
          /\ prep' = [prep EXCEPT !.lifecycle = "reconciling", !.unknown = TRUE]
       \/ /\ prep.unknown /\ prep.lifecycle \notin Terminals
          /\ prep' = [prep EXCEPT !.unknown = FALSE,
                                  !.lifecycle = IF prep.fenced THEN "canceled" ELSE IF @ = "reconciling" THEN "running" ELSE @]
    /\ UNCHANGED <<round, past, brief, answer, relayVars, gen, permit>>

-----------------------------------------------------------------------------
(* Generations.                                                            *)

StartsGeneration(b) == brief[b] = "current"

\* Create reads the brief as current ...
ReadBrief(g, b) ==
    /\ gen[g].at = "none" /\ StartsGeneration(b)
    /\ gen' = [gen EXCEPT ![g] = [at |-> "reading", brief |-> b]]
    /\ UNCHANGED <<prepVars, answer, relayVars, permit>>

\* ... and then its preparation as succeeded, and commits.
CreateGeneration(g) ==
    /\ gen[g].at = "reading"
    /\ gen' = [gen EXCEPT ![g] = IF prep.lifecycle = "succeeded" THEN [@ EXCEPT !.at = "accepted"]
                                 ELSE [at |-> "none", brief |-> None]]
    /\ UNCHANGED <<prepVars, answer, relayVars, permit>>

\* The active permits of the pool, counted under the lock of its row.
Active == {g \in Generations : permit[g] = "active"}

\* A granted permit is kept, a new one needs room.
DecidePermit(g) == gen[g].at = "accepted" /\ permit[g] # "active" /\ Cardinality(Active) < Capacity

\* Mutant: the brief was checked when the generation was accepted.
RequestPermitAccepted(g) ==
    /\ DecidePermit(g)
    /\ permit' = [permit EXCEPT ![g] = "active"]
    /\ UNCHANGED <<prepVars, answer, relayVars, gen>>

\* The brief must still be current; a full pool only answers granted = false.
RequestExecutionPermit(g) ==
    /\ DecidePermit(g) /\ StartsGeneration(gen[g].brief)
    /\ permit' = [permit EXCEPT ![g] = "active"]
    /\ UNCHANGED <<prepVars, answer, relayVars, gen>>

ReleasePermits(g) == [permit EXCEPT ![g] = IF @ = "active" THEN "released" ELSE @]

\* A terminal generation gives its permit back.
EndGeneration(g) ==
    /\ gen[g].at = "accepted"
    /\ gen' = [gen EXCEPT ![g].at = "ended"]
    /\ permit' = ReleasePermits(g)
    /\ UNCHANGED <<prepVars, answer, relayVars>>

-----------------------------------------------------------------------------
RelayAnswer(p) == (\E r \in Rounds : ListAnswer(p, r)) \/ MarkSent(p) \/ UpdateAnswer(p) \/ RecordOutcome(p)

PreparationNext ==
    \/ \E r \in Rounds : RecordQuestionSet(r) \/ WaitEnds(r) \/ \E c \in Answerers : SubmitAnswer(c, r)
    \/ \E p \in Replicas : RelayAnswer(p) \/ LaneFails(p)
    \/ CloseRun \/ EndPreparation
    \/ \E b \in Briefs : RecordBrief(b)
    \/ \E g \in Generations : \/ \E b \in Briefs : ReadBrief(g, b)
                              \/ CreateGeneration(g) \/ RequestExecutionPermit(g) \/ EndGeneration(g)

PreparationSpec == PreparationInit /\ [][PreparationNext]_preparationVars

-----------------------------------------------------------------------------
(* Properties.                                                             *)

(***************************************************************************)
(* A generation executes only on the brief its preparation ended with, and *)
(* in a pool that is never overdrawn: as long as it holds a permit the     *)
(* preparation has succeeded and the brief is current, although Create     *)
(* reads the two one after the other without a lock (verifyBriefBinding,   *)
(* RequestExecutionPermit, NewBrief).                                      *)
(***************************************************************************)
ExecutesOnFinalBrief ==
    /\ Cardinality(Active) <= Capacity
    /\ \A g \in Active : prep.lifecycle = "succeeded" /\ brief[gen[g].brief] = "current"

(***************************************************************************)
(* The receipt of a round's answer says what the run did with that answer: *)
(* applied only if the handler applied it, rejected only if it never did,  *)
(* whatever replicas relay it twice, however late their reports are and    *)
(* whenever the run closes; and what the run heard is the answer the round *)
(* keeps (SubmitAnswer, relayAnswer, RecordAnswerRelay).                   *)
(***************************************************************************)
AnswerReceiptIsTrue ==
    \A r \in Rounds :
        /\ heard[r] # Unheard => heard[r].by = answer[r].by
        /\ answer[r].relay = "applied" => heard[r].as = "applied"
        /\ answer[r].relay = "rejected" => heard[r].as # "applied"
=============================================================================
