------------------------- MODULE PreparationProofs -------------------------
(***************************************************************************)
(* Human input and the generations that start from it, for any number of   *)
(* rounds, answers, replicas, briefs and generations: the receipt of an    *)
(* answer is true, and a generation executes only on the final brief, in a *)
(* pool that is never overdrawn.                                           *)
(***************************************************************************)
EXTENDS Preparation, FiniteSetTheorems, TLAPS

PrepRow == [lifecycle : {"running", "waiting", "reconciling"} \cup Terminals, fenced : BOOLEAN, unknown : BOOLEAN]
AnswerRow == [by : Answerers \cup {None}, relay : RelayStates \cup {None}]
LaneRow == [at : {"idle", "mark", "call", "applied", "rejected"}, round : Rounds \cup {0}, by : Answerers \cup {None}]
HeardRow == [by : Answerers \cup {None}, as : {"none", "applied", "rejected"}]
GenRow == [at : {"none", "reading", "accepted", "ended"}, brief : Briefs \cup {None}]

\* The run refused the answer of a round, or closed without it: neither is
\* ever undone.
Refused(r) == heard[r].as = "rejected" \/ (heard[r] = Unheard /\ run = "closed")

\* A round that keeps an answer takes no other, and only such a round is
\* relayed: what the run heard, what a replica carries and what the receipt
\* says are of the one answer.
AnswerIsKept ==
    \A r \in Rounds :
        /\ answer[r].relay # None => round[r] = "answered"
        /\ heard[r] = Unheard \/ heard[r].as \in {"applied", "rejected"}
        /\ heard[r] # Unheard => answer[r].relay # None /\ heard[r].by = answer[r].by

LaneCarriesAnswer ==
    \A p \in Replicas : lane[p].at # "idle" =>
        /\ lane[p].round \in Rounds
        /\ answer[lane[p].round].relay # None /\ lane[p].by = answer[lane[p].round].by
        /\ lane[p].at = "applied" => heard[lane[p].round].as = "applied"
        /\ lane[p].at = "rejected" => Refused(lane[p].round)

ReceiptIsKnown ==
    \A r \in Rounds : /\ answer[r].relay = "applied" => heard[r].as = "applied"
                      /\ answer[r].relay = "rejected" => Refused(r)

\* Create commits only after it read the preparation as succeeded, and a
\* permit is only of an accepted generation whose brief is current.
GenerationIsBound ==
    \A g \in Generations :
        /\ gen[g].at # "none" => gen[g].brief \in Briefs
        /\ gen[g].at = "accepted" => prep.lifecycle = "succeeded"
        /\ permit[g] = "active" => gen[g].at = "accepted" /\ brief[gen[g].brief] = "current"

(***************************************************************************)
(* The inductive invariants.  The receipt of an answer is written from     *)
(* what a replica saw, possibly long ago; that is still so because the run *)
(* answers once and a closed run takes nothing (Refused).  A generation    *)
(* keeps the brief it read because a succeeded preparation records no      *)
(* other, although the brief was read before the preparation was.          *)
(***************************************************************************)
AnswerInv == AnswerIsKept /\ LaneCarriesAnswer /\ ReceiptIsKnown
PreparationInv == AnswerInv /\ GenerationIsBound

-----------------------------------------------------------------------------
(* Type correctness: one step per action.                                  *)

\* Every step keeps the types.
LEMMA TypeStep ==
    ASSUME PreparationTypeOK, AnswerInv, [PreparationNext]_preparationVars
    PROVE  PreparationTypeOK'
<1>0. /\ prep \in PrepRow /\ answer \in [Rounds -> AnswerRow] /\ lane \in [Replicas -> LaneRow]
      /\ heard \in [Rounds -> HeardRow] /\ gen \in [Generations -> GenRow]
    BY DEF PreparationTypeOK, PrepRow, AnswerRow, LaneRow, HeardRow, GenRow
<1> USE DEF prepVars, relayVars
<1>1. ASSUME NEW r \in Rounds, RecordQuestionSet(r) PROVE PreparationTypeOK'
    <2>1. prep' \in PrepRow
        BY <1>0, <1>1 DEF RecordQuestionSet, PrepRow
    <2> QED BY <1>1, <2>1 DEF PreparationTypeOK, RecordQuestionSet, PrepRow
<1>2. ASSUME NEW r \in Rounds, WaitEnds(r) PROVE PreparationTypeOK'
    BY <1>2 DEF PreparationTypeOK, WaitEnds
<1>3. ASSUME NEW r \in Rounds, NEW c \in Answerers, SubmitAnswer(c, r) PROVE PreparationTypeOK'
    <2>1. prep' \in PrepRow
        BY <1>0, <1>3 DEF SubmitAnswer, PrepRow
    <2>2. answer' \in [Rounds -> AnswerRow]
        BY <1>0, <1>3 DEF SubmitAnswer, AnswerRow, RelayStates
    <2> QED BY <1>3, <2>1, <2>2 DEF PreparationTypeOK, SubmitAnswer, PrepRow, AnswerRow
<1>4. ASSUME NEW p \in Replicas, NEW r \in Rounds, ListAnswer(p, r) PROVE PreparationTypeOK'
    <2>1. lane' \in [Replicas -> LaneRow]
        BY <1>0, <1>4 DEF ListAnswer, LaneRow, AnswerRow
    <2> QED BY <1>4, <2>1 DEF PreparationTypeOK, ListAnswer, LaneRow
<1>5. ASSUME NEW p \in Replicas, NEW r \in Rounds, NEW s \in RelayStates, RecordAnswerRelay(r, s)
      PROVE  answer' \in [Rounds -> AnswerRow]
    BY <1>0, <1>5 DEF RecordAnswerRelay, AnswerRow
<1>6. ASSUME NEW p \in Replicas, MarkSent(p) PROVE PreparationTypeOK'
    <2>1. lane[p].round \in Rounds /\ RecordAnswerRelay(lane[p].round, "sent") /\ lane' = [lane EXCEPT ![p].at = "call"]
        BY <1>6 DEF MarkSent, AnswerInv, LaneCarriesAnswer
    <2>2. answer' \in [Rounds -> AnswerRow]
        BY <1>5, <2>1 DEF RelayStates
    <2>3. lane' \in [Replicas -> LaneRow]
        BY <1>0, <2>1 DEF LaneRow
    <2> QED BY <1>6, <2>2, <2>3 DEF PreparationTypeOK, MarkSent, LaneRow, AnswerRow
<1>7. ASSUME NEW p \in Replicas, UpdateAnswer(p) PROVE PreparationTypeOK'
    <2>1. lane[p].round \in Rounds /\ lane[p] \in LaneRow /\ heard[lane[p].round] \in HeardRow
        BY <1>0, <1>7 DEF UpdateAnswer, AnswerInv, LaneCarriesAnswer
    <2>2. \E v \in {"applied", "rejected"} : lane' = [lane EXCEPT ![p].at = v]
        <3>1. heard[lane[p].round] = Unheard \/ heard[lane[p].round].as \in {"applied", "rejected"}
            BY <2>1 DEF AnswerInv, AnswerIsKept
        <3> QED BY <1>7, <3>1 DEF UpdateAnswer
    <2>3. lane' \in [Replicas -> LaneRow]
        BY <1>0, <2>2 DEF LaneRow
    <2>4. heard' \in [Rounds -> HeardRow]
        <3>1. CASE UNCHANGED heard
            BY <1>0, <3>1
        <3>2. CASE \E v \in {"applied", "rejected"} :
                        heard' = [heard EXCEPT ![lane[p].round] = IF @ = Unheard THEN [by |-> lane[p].by, as |-> v] ELSE @]
            BY <1>0, <2>1, <3>2 DEF HeardRow, LaneRow
        <3> QED BY <1>7, <3>1, <3>2 DEF UpdateAnswer
    <2> QED BY <1>7, <2>3, <2>4 DEF PreparationTypeOK, UpdateAnswer, LaneRow, HeardRow
<1>8. ASSUME NEW p \in Replicas, RecordOutcome(p) PROVE PreparationTypeOK'
    <2>1. lane[p].round \in Rounds /\ lane[p].at \in RelayStates /\ RecordAnswerRelay(lane[p].round, lane[p].at)
        BY <1>8 DEF RecordOutcome, AnswerInv, LaneCarriesAnswer, RelayStates
    <2>2. answer' \in [Rounds -> AnswerRow]
        BY <1>5, <2>1
    <2>3. lane' \in [Replicas -> LaneRow]
        BY <1>0, <1>8 DEF RecordOutcome, LaneRow, Idle
    <2> QED BY <1>8, <2>2, <2>3 DEF PreparationTypeOK, RecordOutcome, LaneRow, AnswerRow
<1>9. ASSUME NEW p \in Replicas, LaneFails(p) PROVE PreparationTypeOK'
    <2>1. lane' \in [Replicas -> LaneRow]
        BY <1>0, <1>9 DEF LaneFails, LaneRow, Idle
    <2> QED BY <1>9, <2>1 DEF PreparationTypeOK, LaneFails, LaneRow
<1>10. CASE CloseRun
    BY <1>10 DEF PreparationTypeOK, CloseRun
<1>11. CASE EndPreparation
    <2>1. prep' \in PrepRow
        BY <1>0, <1>11 DEF EndPreparation, PrepRow, Terminals
    <2> QED BY <1>11, <2>1 DEF PreparationTypeOK, EndPreparation, PrepRow
<1>12. ASSUME NEW b \in Briefs, RecordBrief(b) PROVE PreparationTypeOK'
    <2>1. brief' \in [Briefs -> {"none", "current", "superseded"}]
        BY <1>12 DEF PreparationTypeOK, RecordBrief, SupersedeBriefs
    <2> QED BY <1>12, <2>1 DEF PreparationTypeOK, RecordBrief
<1>13. ASSUME NEW g \in Generations, NEW b \in Briefs, ReadBrief(g, b) PROVE PreparationTypeOK'
    <2>1. gen' \in [Generations -> GenRow]
        BY <1>0, <1>13 DEF ReadBrief, GenRow
    <2> QED BY <1>13, <2>1 DEF PreparationTypeOK, ReadBrief, GenRow
<1>14. ASSUME NEW g \in Generations, CreateGeneration(g) PROVE PreparationTypeOK'
    <2>1. gen' \in [Generations -> GenRow]
        BY <1>0, <1>14 DEF CreateGeneration, GenRow
    <2> QED BY <1>14, <2>1 DEF PreparationTypeOK, CreateGeneration, GenRow
<1>15. ASSUME NEW g \in Generations, RequestExecutionPermit(g) PROVE PreparationTypeOK'
    BY <1>15 DEF PreparationTypeOK, RequestExecutionPermit
<1>16. ASSUME NEW g \in Generations, EndGeneration(g) PROVE PreparationTypeOK'
    <2>1. gen' \in [Generations -> GenRow]
        BY <1>0, <1>16 DEF EndGeneration, GenRow
    <2>2. permit' \in [Generations -> {"none", "active", "released"}]
        BY <1>16 DEF PreparationTypeOK, EndGeneration, ReleasePermits
    <2> QED BY <1>16, <2>1, <2>2 DEF PreparationTypeOK, EndGeneration, GenRow
<1>17. CASE UNCHANGED preparationVars
    BY <1>17 DEF PreparationTypeOK, preparationVars
<1> QED
    BY <1>1, <1>2, <1>3, <1>4, <1>6, <1>7, <1>8, <1>9, <1>10, <1>11, <1>12, <1>13, <1>14, <1>15, <1>16, <1>17
    DEF PreparationNext, RelayAnswer

-----------------------------------------------------------------------------
(* Answers: one lemma per step of the answer and of its relay.             *)

\* A step that leaves the answers and their relay alone.
LEMMA QuietAnswers ==
    ASSUME AnswerInv, UNCHANGED <<round, answer, lane, run, heard>>
    PROVE  AnswerInv'
BY DEF AnswerInv, AnswerIsKept, LaneCarriesAnswer, ReceiptIsKnown, Refused

\* A new round has no answer.
LEMMA RoundKeeps ==
    ASSUME PreparationTypeOK, AnswerInv, NEW r \in Rounds, RecordQuestionSet(r)
    PROVE  AnswerInv'
<1>1. round[r] = "none" /\ round' = [round EXCEPT ![r] = "open"] /\ UNCHANGED <<answer, lane, run, heard>>
    BY DEF RecordQuestionSet, NewQuestionSet, relayVars
<1>2. answer[r].relay = None
    BY <1>1 DEF AnswerInv, AnswerIsKept
<1>3. AnswerIsKept'
    BY <1>1, <1>2 DEF AnswerInv, AnswerIsKept, PreparationTypeOK
<1> QED BY <1>1, <1>3 DEF AnswerInv, LaneCarriesAnswer, ReceiptIsKnown, Refused

\* The run closes: what it refused stays refused.
LEMMA CloseKeeps ==
    ASSUME AnswerInv, CloseRun
    PROVE  AnswerInv'
BY DEF AnswerInv, AnswerIsKept, LaneCarriesAnswer, ReceiptIsKnown, Refused, CloseRun, prepVars

\* The answer of an open round: nothing of the round was relayed before.
LEMMA SubmitKeeps ==
    ASSUME PreparationTypeOK, AnswerInv, NEW r \in Rounds, NEW c \in Answerers, SubmitAnswer(c, r)
    PROVE  AnswerInv'
<1>1. /\ round[r] = "open" /\ round' = [round EXCEPT ![r] = "answered"]
      /\ answer' = [answer EXCEPT ![r] = [by |-> c, relay |-> "pending"]] /\ UNCHANGED <<lane, run, heard>>
    BY DEF SubmitAnswer, NewAnswer, relayVars
<1>2. answer[r].relay = None /\ heard[r] = Unheard
    BY <1>1 DEF AnswerInv, AnswerIsKept
<1>3. /\ answer'[r].relay = "pending" /\ round'[r] = "answered"
      /\ \A q \in Rounds : q # r => answer'[q] = answer[q] /\ round'[q] = round[q]
    BY <1>1 DEF PreparationTypeOK
<1>4. AnswerIsKept'
    BY <1>1, <1>2, <1>3 DEF AnswerInv, AnswerIsKept
<1>5. \A p \in Replicas : lane[p].at # "idle" => lane[p].round # r
    BY <1>2 DEF AnswerInv, LaneCarriesAnswer
<1>6. LaneCarriesAnswer'
    BY <1>1, <1>3, <1>5 DEF AnswerInv, LaneCarriesAnswer, Refused
<1>7. ReceiptIsKnown'
    BY <1>1, <1>3 DEF AnswerInv, ReceiptIsKnown, Refused
<1> QED BY <1>4, <1>6, <1>7 DEF AnswerInv

\* A replica picks an answer up, or gives up.
LEMMA ListKeeps ==
    ASSUME PreparationTypeOK, AnswerInv, NEW p \in Replicas,
           (\E r \in Rounds : ListAnswer(p, r)) \/ LaneFails(p)
    PROVE  AnswerInv'
<1>1. UNCHANGED <<round, answer, run, heard>>
    BY DEF ListAnswer, LaneFails, prepVars
<1>2. lane \in [Replicas -> LaneRow]
    BY DEF PreparationTypeOK, LaneRow
<1>3. ASSUME NEW r \in Rounds, ListAnswer(p, r) PROVE LaneCarriesAnswer'
    <2>1. /\ answer[r].relay \in {"pending", "sent"}
          /\ \E at \in {"mark", "call"} : lane' = [lane EXCEPT ![p] = [at |-> at, round |-> r, by |-> answer[r].by]]
        BY <1>3 DEF ListAnswer, AnswerRelayPending
    <2>2. /\ lane'[p].at \in {"mark", "call"} /\ lane'[p].round = r /\ lane'[p].by = answer[r].by
          /\ \A o \in Replicas : o # p => lane'[o] = lane[o]
        BY <1>2, <2>1
    <2> QED BY <1>1, <2>1, <2>2 DEF AnswerInv, LaneCarriesAnswer, Refused, None
<1>4. ASSUME LaneFails(p) PROVE LaneCarriesAnswer'
    <2>1. lane'[p].at = "idle" /\ \A o \in Replicas : o # p => lane'[o] = lane[o]
        BY <1>2, <1>4 DEF LaneFails, Idle
    <2> QED BY <1>1, <2>1 DEF AnswerInv, LaneCarriesAnswer, Refused
<1> QED BY <1>1, <1>3, <1>4 DEF AnswerInv, AnswerIsKept, ReceiptIsKnown, Refused

\* What a receipt may change: the relay state of one answer that has none
\* that is final.
LEMMA ReceiptKeeps ==
    ASSUME PreparationTypeOK, AnswerInv, NEW r \in Rounds, NEW s \in RelayStates, RecordAnswerRelay(r, s),
           answer[r].relay # None, UNCHANGED <<round, run, heard>>,
           s = "applied" => heard[r].as = "applied", s = "rejected" => Refused(r)
    PROVE  /\ AnswerIsKept' /\ ReceiptIsKnown'
           /\ \A q \in Rounds : answer'[q].by = answer[q].by /\ (answer[q].relay # None => answer'[q].relay # None)
<1>1. answer \in [Rounds -> AnswerRow]
    BY DEF PreparationTypeOK, AnswerRow
<1>2. /\ \A q \in Rounds : q # r => answer'[q] = answer[q]
      /\ answer'[r].by = answer[r].by /\ answer'[r].relay \in {answer[r].relay, s}
    BY <1>1 DEF RecordAnswerRelay, AnswerRow
<1>3. s # None
    BY DEF RelayStates, None
<1>4. AnswerIsKept'
    BY <1>2, <1>3 DEF AnswerInv, AnswerIsKept
<1>5. ReceiptIsKnown'
    BY <1>2 DEF AnswerInv, ReceiptIsKnown, Refused
<1> QED BY <1>2, <1>3, <1>4, <1>5

\* The mark before the call and the outcome after it.
LEMMA RelayKeeps ==
    ASSUME PreparationTypeOK, AnswerInv, NEW p \in Replicas, MarkSent(p) \/ RecordOutcome(p)
    PROVE  AnswerInv'
<1> DEFINE r == lane[p].round
<1>1. lane \in [Replicas -> LaneRow] /\ r \in Rounds /\ answer[r].relay # None /\ UNCHANGED <<round, run, heard>>
    BY DEF PreparationTypeOK, LaneRow, AnswerInv, LaneCarriesAnswer, MarkSent, RecordOutcome, prepVars
<1>2. PICK s \in RelayStates : /\ RecordAnswerRelay(r, s)
                               /\ s = "applied" => heard[r].as = "applied"
                               /\ s = "rejected" => Refused(r)
    BY DEF MarkSent, RecordOutcome, RelayStates, AnswerInv, LaneCarriesAnswer
<1>3. /\ AnswerIsKept' /\ ReceiptIsKnown'
      /\ \A q \in Rounds : answer'[q].by = answer[q].by /\ (answer[q].relay # None => answer'[q].relay # None)
    BY <1>1, <1>2, ReceiptKeeps
<1>4. /\ \A o \in Replicas : o # p => lane'[o] = lane[o]
      /\ \/ lane'[p].at = "idle"
         \/ lane'[p].at = "call" /\ lane[p].at # "idle" /\ lane'[p].round = lane[p].round /\ lane'[p].by = lane[p].by
    BY <1>1 DEF MarkSent, RecordOutcome, Idle, LaneRow
<1>5. LaneCarriesAnswer'
    <2> SUFFICES ASSUME NEW o \in Replicas, lane'[o].at # "idle"
                 PROVE  /\ lane'[o].round \in Rounds
                        /\ answer'[lane'[o].round].relay # None /\ lane'[o].by = answer'[lane'[o].round].by
                        /\ lane'[o].at = "applied" => heard'[lane'[o].round].as = "applied"
                        /\ lane'[o].at = "rejected" => Refused(lane[o].round)'
        BY DEF LaneCarriesAnswer
    <2>1. /\ lane[o].at # "idle" /\ lane'[o].round = lane[o].round /\ lane'[o].by = lane[o].by
          /\ lane'[o].at \in {lane[o].at, "call"}
        BY <1>4
    <2> QED BY <1>1, <1>3, <2>1 DEF AnswerInv, LaneCarriesAnswer, Refused
<1> QED BY <1>3, <1>5 DEF AnswerInv

\* The run's handler: an answer it heard keeps its verdict, and one it did
\* not hear is its first.
LEMMA UpdateKeeps ==
    ASSUME PreparationTypeOK, AnswerInv, NEW p \in Replicas, UpdateAnswer(p)
    PROVE  AnswerInv'
<1> DEFINE r == lane[p].round
<1>1. /\ lane \in [Replicas -> LaneRow] /\ heard \in [Rounds -> HeardRow] /\ r \in Rounds
      /\ answer[r].relay # None /\ lane[p].by = answer[r].by
      /\ UNCHANGED <<round, answer, run>>
    BY DEF PreparationTypeOK, LaneRow, HeardRow, AnswerInv, LaneCarriesAnswer, UpdateAnswer, prepVars
<1>2. heard[r] = Unheard \/ (heard[r] # Unheard /\ heard[r].as \in {"applied", "rejected"})
    BY <1>1 DEF AnswerInv, AnswerIsKept
<1>3. \E v \in {"applied", "rejected"} :
        /\ lane' = [lane EXCEPT ![p].at = v]
        /\ \/ heard[r] = Unheard /\ run = "closed" /\ v = "rejected" /\ UNCHANGED heard
           \/ heard[r] = Unheard /\ run # "closed" /\ heard' = [heard EXCEPT ![r] = [by |-> lane[p].by, as |-> v]]
           \/ heard[r] # Unheard /\ heard[r].as = v /\ heard' = [heard EXCEPT ![r] = @]
    BY <1>2 DEF UpdateAnswer
<1>4. PICK v \in {"applied", "rejected"} :
        /\ lane' = [lane EXCEPT ![p].at = v]
        /\ \A q \in Rounds : q # r => heard'[q] = heard[q]
        /\ \/ heard'[r] = heard[r] /\ heard[r] = Unheard /\ run = "closed" /\ v = "rejected"
           \/ heard[r] = Unheard /\ run # "closed" /\ heard'[r] = [by |-> lane[p].by, as |-> v]
           \/ heard'[r] = heard[r] /\ heard[r].as = v
    BY <1>1, <1>3
<1>5. AnswerIsKept'
    BY <1>1, <1>4 DEF AnswerInv, AnswerIsKept
<1>6. \A q \in Rounds : /\ heard[q].as = "applied" => heard'[q].as = "applied"
                        /\ Refused(q) => Refused(q)'
    BY <1>1, <1>4 DEF Refused, Unheard
<1>7. ReceiptIsKnown'
    BY <1>1, <1>6 DEF AnswerInv, ReceiptIsKnown
<1>8. LaneCarriesAnswer'
    <2>1. /\ \A o \in Replicas : o # p => lane'[o] = lane[o]
          /\ lane'[p].at = v /\ lane'[p].round = r /\ lane'[p].by = lane[p].by
        BY <1>1, <1>4 DEF LaneRow
    <2>2. (v = "applied" => heard'[r].as = "applied") /\ (v = "rejected" => Refused(r)')
        BY <1>1, <1>4 DEF Refused, Unheard
    <2>3. ASSUME NEW o \in Replicas, o # p, lane'[o].at # "idle"
          PROVE  /\ lane'[o].round \in Rounds
                 /\ answer'[lane'[o].round].relay # None /\ lane'[o].by = answer'[lane'[o].round].by
                 /\ lane'[o].at = "applied" => heard'[lane'[o].round].as = "applied"
                 /\ lane'[o].at = "rejected" => Refused(lane[o].round)'
        BY <1>1, <1>6, <2>1, <2>3 DEF AnswerInv, LaneCarriesAnswer
    <2>4. /\ lane'[p].round \in Rounds
          /\ answer'[lane'[p].round].relay # None /\ lane'[p].by = answer'[lane'[p].round].by
          /\ lane'[p].at = "applied" => heard'[lane'[p].round].as = "applied"
          /\ lane'[p].at = "rejected" => Refused(lane[p].round)'
        BY <1>1, <2>1, <2>2
    <2> QED BY <2>3, <2>4 DEF LaneCarriesAnswer
<1> QED BY <1>5, <1>7, <1>8 DEF AnswerInv

\* Every step keeps the answers.
LEMMA AnswerStep ==
    ASSUME PreparationTypeOK, AnswerInv, [PreparationNext]_preparationVars
    PROVE  AnswerInv'
<1>1. ASSUME NEW r \in Rounds, WaitEnds(r) PROVE AnswerInv'
    BY <1>1, QuietAnswers DEF WaitEnds, relayVars
<1>2. ASSUME NEW b \in Briefs, RecordBrief(b) PROVE AnswerInv'
    BY <1>2, QuietAnswers DEF RecordBrief, relayVars
<1>3. ASSUME NEW g \in Generations, \/ \E b \in Briefs : ReadBrief(g, b)
                                    \/ CreateGeneration(g) \/ RequestExecutionPermit(g) \/ EndGeneration(g)
      PROVE  AnswerInv'
    BY <1>3, QuietAnswers
    DEF ReadBrief, CreateGeneration, RequestExecutionPermit, EndGeneration, prepVars, relayVars
<1>4. ASSUME EndPreparation \/ UNCHANGED preparationVars PROVE AnswerInv'
    BY <1>4, QuietAnswers DEF EndPreparation, preparationVars, prepVars, relayVars
<1> QED BY <1>1, <1>2, <1>3, <1>4, RoundKeeps, CloseKeeps, SubmitKeeps, ListKeeps, RelayKeeps, UpdateKeeps
        DEF PreparationNext, RelayAnswer

-----------------------------------------------------------------------------
(* Generations.                                                            *)

\* A succeeded preparation stays succeeded and keeps its briefs.
LEMMA SucceededIsFinal ==
    ASSUME PreparationTypeOK, [PreparationNext]_preparationVars, prep.lifecycle = "succeeded"
    PROVE  prep'.lifecycle = "succeeded" /\ UNCHANGED brief
<1>1. FencedForNewDispatch
    BY DEF FencedForNewDispatch, Terminals
<1>2. ASSUME NEW r \in Rounds, RecordQuestionSet(r) \/ WaitEnds(r) \/ (\E c \in Answerers : SubmitAnswer(c, r))
      PROVE  prep'.lifecycle = "succeeded" /\ UNCHANGED brief
    BY <1>1, <1>2 DEF RecordQuestionSet, NewQuestionSet, WaitEnds, SubmitAnswer, NewAnswer, Terminals
<1>3. ASSUME NEW p \in Replicas, RelayAnswer(p) \/ LaneFails(p)
      PROVE  prep'.lifecycle = "succeeded" /\ UNCHANGED brief
    BY <1>3 DEF RelayAnswer, ListAnswer, MarkSent, UpdateAnswer, RecordOutcome, LaneFails, prepVars
<1>4. ASSUME NEW b \in Briefs, RecordBrief(b) PROVE FALSE
    BY <1>1, <1>4 DEF RecordBrief, NewBrief
<1>5. CASE EndPreparation
    BY <1>5 DEF EndPreparation, Terminals
<1>6. ASSUME NEW g \in Generations, \/ \E b \in Briefs : ReadBrief(g, b)
                                    \/ CreateGeneration(g) \/ RequestExecutionPermit(g) \/ EndGeneration(g)
      PROVE  prep'.lifecycle = "succeeded" /\ UNCHANGED brief
    BY <1>6 DEF ReadBrief, CreateGeneration, RequestExecutionPermit, EndGeneration, prepVars
<1>7. CASE CloseRun \/ UNCHANGED preparationVars
    BY <1>7 DEF CloseRun, preparationVars, prepVars
<1> QED BY <1>2, <1>3, <1>4, <1>5, <1>6, <1>7 DEF PreparationNext

\* A generation and its permit change together or not at all.
LEMMA GenerationMoves ==
    ASSUME PreparationTypeOK, [PreparationNext]_preparationVars, NEW g \in Generations
    PROVE  \/ gen'[g] = gen[g] /\ permit'[g] = permit[g]
           \/ gen[g].at = "none" /\ gen'[g].at = "reading" /\ gen'[g].brief \in Briefs /\ permit'[g] = permit[g]
           \/ gen[g].at = "reading" /\ gen'[g].at = "none" /\ permit'[g] = permit[g]
           \/ gen[g].at = "reading" /\ gen'[g].at = "accepted" /\ gen'[g].brief = gen[g].brief
              /\ permit'[g] = permit[g] /\ prep.lifecycle = "succeeded"
           \/ gen'[g] = gen[g] /\ gen[g].at = "accepted" /\ permit'[g] = "active" /\ brief[gen[g].brief] = "current"
           \/ gen'[g].at = "ended" /\ gen'[g].brief = gen[g].brief /\ gen[g].at = "accepted" /\ permit'[g] # "active"
<1>0. gen \in [Generations -> GenRow] /\ permit \in [Generations -> {"none", "active", "released"}]
    BY DEF PreparationTypeOK, GenRow
<1>1. CASE UNCHANGED <<gen, permit>>
    BY <1>1
<1>2. ASSUME NEW h \in Generations, NEW b \in Briefs, ReadBrief(h, b)
      PROVE  \/ gen'[g] = gen[g] /\ permit'[g] = permit[g]
             \/ gen[g].at = "none" /\ gen'[g].at = "reading" /\ gen'[g].brief \in Briefs /\ permit'[g] = permit[g]
    BY <1>0, <1>2 DEF ReadBrief
<1>3. ASSUME NEW h \in Generations, CreateGeneration(h)
      PROVE  \/ gen'[g] = gen[g] /\ permit'[g] = permit[g]
             \/ gen[g].at = "reading" /\ gen'[g].at = "none" /\ permit'[g] = permit[g]
             \/ gen[g].at = "reading" /\ gen'[g].at = "accepted" /\ gen'[g].brief = gen[g].brief
                /\ permit'[g] = permit[g] /\ prep.lifecycle = "succeeded"
    BY <1>0, <1>3 DEF CreateGeneration, GenRow
<1>4. ASSUME NEW h \in Generations, RequestExecutionPermit(h)
      PROVE  \/ gen'[g] = gen[g] /\ permit'[g] = permit[g]
             \/ gen'[g] = gen[g] /\ gen[g].at = "accepted" /\ permit'[g] = "active" /\ brief[gen[g].brief] = "current"
    BY <1>0, <1>4 DEF RequestExecutionPermit, DecidePermit, StartsGeneration
<1>5. ASSUME NEW h \in Generations, EndGeneration(h)
      PROVE  \/ gen'[g] = gen[g] /\ permit'[g] = permit[g]
             \/ gen'[g].at = "ended" /\ gen'[g].brief = gen[g].brief /\ gen[g].at = "accepted" /\ permit'[g] # "active"
    BY <1>0, <1>5 DEF EndGeneration, ReleasePermits, GenRow
<1>6. ASSUME NEW r \in Rounds, RecordQuestionSet(r) \/ WaitEnds(r) \/ (\E c \in Answerers : SubmitAnswer(c, r))
      PROVE  UNCHANGED <<gen, permit>>
    BY <1>6 DEF RecordQuestionSet, WaitEnds, SubmitAnswer
<1>7. ASSUME NEW p \in Replicas, RelayAnswer(p) \/ LaneFails(p) PROVE UNCHANGED <<gen, permit>>
    BY <1>7 DEF RelayAnswer, ListAnswer, MarkSent, UpdateAnswer, RecordOutcome, LaneFails
<1>8. ASSUME CloseRun \/ EndPreparation \/ UNCHANGED preparationVars \/ (\E b \in Briefs : RecordBrief(b))
      PROVE  UNCHANGED <<gen, permit>>
    BY <1>8 DEF CloseRun, EndPreparation, preparationVars, RecordBrief
<1> QED BY <1>1, <1>2, <1>3, <1>4, <1>5, <1>6, <1>7, <1>8 DEF PreparationNext

\* Every step keeps the generations bound.
LEMMA GenerationStep ==
    ASSUME PreparationTypeOK, PreparationInv, [PreparationNext]_preparationVars
    PROVE  GenerationIsBound'
<1> SUFFICES ASSUME NEW g \in Generations
             PROVE  /\ gen'[g].at # "none" => gen'[g].brief \in Briefs
                    /\ gen'[g].at = "accepted" => prep'.lifecycle = "succeeded"
                    /\ permit'[g] = "active" => gen'[g].at = "accepted" /\ brief'[gen'[g].brief] = "current"
    BY DEF GenerationIsBound
<1>1. /\ gen[g].at # "none" => gen[g].brief \in Briefs
      /\ gen[g].at = "accepted" => prep.lifecycle = "succeeded"
      /\ permit[g] = "active" => gen[g].at = "accepted" /\ brief[gen[g].brief] = "current"
    BY DEF PreparationInv, GenerationIsBound
<1> QED BY <1>1, GenerationMoves, SucceededIsFinal

\* The pool is never overdrawn: a permit is counted in under the lock of
\* the pool, whoever else asks.
LEMMA PoolStep ==
    ASSUME PreparationTypeOK, [PreparationNext]_preparationVars, Cardinality(Active) <= Capacity
    PROVE  Cardinality(Active') <= Capacity
<1>1. IsFiniteSet(Active) /\ Cardinality(Active) \in Nat
    BY PreparationAssumption, FS_Subset, FS_CardinalityType DEF Active
<1>2. CASE Active' \subseteq Active
    BY <1>1, <1>2, PreparationAssumption, FS_Subset, FS_CardinalityType
<1>3. ASSUME NEW g \in Generations, RequestExecutionPermit(g) PROVE Cardinality(Active') <= Capacity
    <2>1. g \notin Active /\ Cardinality(Active) < Capacity
        BY <1>3 DEF RequestExecutionPermit, DecidePermit, Active
    <2>2. Active' = Active \cup {g}
        BY <1>3 DEF RequestExecutionPermit, Active, PreparationTypeOK
    <2>3. Cardinality(Active \cup {g}) = Cardinality(Active) + 1
        BY <1>1, <2>1, FS_AddElement
    <2> QED BY <1>1, <2>1, <2>2, <2>3, PreparationAssumption
<1>4. ASSUME NEW g \in Generations, EndGeneration(g) PROVE Active' \subseteq Active
    BY <1>4 DEF EndGeneration, ReleasePermits, Active, PreparationTypeOK
<1>5. ASSUME NEW g \in Generations, (\E b \in Briefs : ReadBrief(g, b)) \/ CreateGeneration(g) PROVE UNCHANGED permit
    BY <1>5 DEF ReadBrief, CreateGeneration
<1>6. ASSUME NEW r \in Rounds, RecordQuestionSet(r) \/ WaitEnds(r) \/ (\E c \in Answerers : SubmitAnswer(c, r))
      PROVE  UNCHANGED permit
    BY <1>6 DEF RecordQuestionSet, WaitEnds, SubmitAnswer
<1>7. ASSUME NEW p \in Replicas, RelayAnswer(p) \/ LaneFails(p) PROVE UNCHANGED permit
    BY <1>7 DEF RelayAnswer, ListAnswer, MarkSent, UpdateAnswer, RecordOutcome, LaneFails
<1>8. ASSUME CloseRun \/ EndPreparation \/ UNCHANGED preparationVars \/ (\E b \in Briefs : RecordBrief(b))
      PROVE  UNCHANGED permit
    BY <1>8 DEF CloseRun, EndPreparation, preparationVars, RecordBrief
<1>9. ASSUME UNCHANGED permit PROVE Active' \subseteq Active
    BY <1>9 DEF Active
<1> QED BY <1>2, <1>3, <1>4, <1>5, <1>6, <1>7, <1>8, <1>9 DEF PreparationNext

-----------------------------------------------------------------------------
(* The theorems.                                                           *)

\* The invariant holds of every behaviour, with the types it needs.
THEOREM PreparationInvariant == PreparationSpec => [](PreparationTypeOK /\ PreparationInv)
<1>1. PreparationInit => PreparationTypeOK /\ PreparationInv
    <2> SUFFICES ASSUME PreparationInit PROVE PreparationTypeOK /\ PreparationInv
        OBVIOUS
    <2>1. PreparationTypeOK
        BY DEF PreparationInit, PreparationTypeOK, Terminals, RelayStates, Idle, Unheard
    <2>2. AnswerInv
        BY DEF PreparationInit, AnswerInv, AnswerIsKept, LaneCarriesAnswer, ReceiptIsKnown, Idle, None
    <2>3. GenerationIsBound
        BY DEF PreparationInit, GenerationIsBound
    <2> QED BY <2>1, <2>2, <2>3 DEF PreparationInv
<1>2. PreparationTypeOK /\ PreparationInv /\ [PreparationNext]_preparationVars => (PreparationTypeOK /\ PreparationInv)'
    BY TypeStep, AnswerStep, GenerationStep DEF PreparationInv
<1> QED BY <1>1, <1>2, PTL DEF PreparationSpec

\* Every variable keeps its type.
THEOREM PreparationTypes == PreparationSpec => []PreparationTypeOK
BY PreparationInvariant, PTL

\* The receipt of an answer says what the run did with it, whatever replicas
\* relay it twice and whenever the run closes.
THEOREM ReceiptsAreTrue == PreparationSpec => []AnswerReceiptIsTrue
<1>1. PreparationInv => AnswerReceiptIsTrue
    BY DEF PreparationInv, AnswerInv, AnswerIsKept, ReceiptIsKnown, Refused, Unheard, AnswerReceiptIsTrue
<1> QED BY <1>1, PreparationInvariant, PTL

\* A generation executes only on the brief its preparation succeeded with,
\* and never more of them than the pool has room for.
THEOREM ExecutesOnFinal == PreparationSpec => []ExecutesOnFinalBrief
<1>1. PreparationInit => Cardinality(Active) <= Capacity
    <2> SUFFICES ASSUME PreparationInit PROVE Cardinality(Active) <= Capacity
        OBVIOUS
    <2>1. Active = {}
        BY DEF PreparationInit, Active
    <2> QED BY <2>1, FS_EmptySet, PreparationAssumption
<1>2. PreparationTypeOK /\ Cardinality(Active) <= Capacity /\ [PreparationNext]_preparationVars => (Cardinality(Active) <= Capacity)'
    BY PoolStep
<1>3. PreparationInv /\ Cardinality(Active) <= Capacity => ExecutesOnFinalBrief
    BY DEF PreparationInv, GenerationIsBound, Active, ExecutesOnFinalBrief
<1> QED BY <1>1, <1>2, <1>3, PreparationInvariant, PTL DEF PreparationSpec
=============================================================================
