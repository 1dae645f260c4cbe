-------------------------- MODULE ArtifactsProofs --------------------------
(***************************************************************************)
(* Artifact transfers for any number of transfers, versions and finalize   *)
(* calls: what is served is verified, what is committed is in scope, and   *)
(* no slot of the archive check is lost.                                   *)
(***************************************************************************)
EXTENDS Artifacts, FiniteSetTheorems, SequenceTheorems, TLAPS

OpRow == [fenced : BOOLEAN, epoch : 1..MaxEpoch]
AttemptRow == [state : {"running", "result_accepted", "closed"}, epoch : 1..MaxEpoch]
Stored == {"exact", "other", "larger"}
PCs == {"idle", "verify", "waiting", "reading", "settle", "done"}

\* The bytes of a version are the declared ones, and a contained archive
\* when they are an archive or had to be one.
Verified(t, v) ==
    /\ v \in 1..Len(store[t]) /\ store[t][v] = "exact"
    /\ Bytes[t] # "escape" /\ (t \in Checked => Bytes[t] = "contained")

\* A transfer has one key of the store.
StoreHasKeys == store \in [Transfers -> Seq(Stored)]

\* What a finalize call knows between its steps: it holds a slot only while
\* it has the bytes of an archive, it streams only what needs no check, and
\* the facts it takes to the commit are of the version it names.
CallKnows ==
    \A f \in Finalizers :
        /\ fin[f].pc \notin {"settle", "done"} => fin[f].facts = "none"
        /\ fin[f].holds => fin[f].pc \in {"reading", "settle"}
        /\ fin[f].pc = "verify" => TransferOf[f] \notin Checked
        /\ fin[f].pc = "settle" /\ fin[f].facts = "exact" => Verified(TransferOf[f], VersionOf[f])

\* A finalized transfer names a verified version.
FinalizedIsVerified ==
    \A t \in Transfers : xfer[t].state = "finalized" => xfer[t].version \in Versions /\ Verified(t, xfer[t].version)

\* What is served is the version of a finalized transfer.
ServedIsFinalized == \A s \in served : xfer[s[1]].state = "finalized" /\ xfer[s[1]].version = s[2]

(***************************************************************************)
(* The inductive invariant.  A stage binds and a reader is given a         *)
(* finalized transfer without looking at its bytes again: the commit of a  *)
(* call is all there is between the bytes it verified outside the locks    *)
(* and every later use, so the invariant carries what a call verified      *)
(* (CallKnows) to the transfer and on to what is served.  That holds       *)
(* because a stored version never changes: an upload adds one.             *)
(***************************************************************************)
ArtifactsInv == StoreHasKeys /\ CallKnows /\ FinalizedIsVerified /\ ServedIsFinalized

Held == {f \in Finalizers : fin[f].holds}

-----------------------------------------------------------------------------
(* What a step may do to the store, to a transfer and to a call.           *)

\* The transfer, the version and the instance a call names.
LEMMA CallNames ==
    ASSUME NEW f \in Finalizers
    PROVE  /\ TransferOf[f] \in Transfers /\ VersionOf[f] \in Nat \ {0}
           /\ VersionOf[f] \in Versions /\ CommandOf[f] \in Commands
BY ArtifactsAssumption DEF Versions, Commands

\* The steps that are not of a finalize call leave the calls alone.
LEMMA OthersLeaveCalls ==
    ASSUME [Next]_vars, \A f \in Finalizers : ~Finalize(f) /\ ~GiveUp(f)
    PROVE  UNCHANGED <<fin, slots>>
<1>1. ASSUME NEW t \in Transfers, Begin(t) \/ Upload(t) \/ CapabilityExpires(t) \/ DeadlinePasses(t) \/ ReadCapability(t)
      PROVE  UNCHANGED <<fin, slots>>
    BY <1>1 DEF Begin, Upload, CapabilityExpires, DeadlinePasses, ReadCapability
<1>2. ASSUME NEW t \in Transfers, NEW i \in Instances, Resolve(t, i) PROVE UNCHANGED <<fin, slots>>
    BY <1>2 DEF Resolve
<1>3. ASSUME \/ Restart \/ AcceptResult \/ ControlChanges \/ RecoveryFences \/ CloseAttempt
             \/ (\E i \in Instances : RegisterInstance(i)) \/ UNCHANGED vars
      PROVE  UNCHANGED <<fin, slots>>
    BY <1>3 DEF Restart, AcceptResult, ControlChanges, RecoveryFences, CloseAttempt, RegisterInstance, vars
<1> QED BY <1>1, <1>2, <1>3 DEF Next

\* Only an upload changes the store, and it adds a version: what was
\* verified stays so.
LEMMA VerifiedStays ==
    ASSUME StoreHasKeys, [Next]_vars
    PROVE  StoreHasKeys' /\ \A t \in Transfers : \A v : Verified(t, v) => Verified(t, v)'
<1>1. CASE UNCHANGED store
    BY <1>1 DEF StoreHasKeys, Verified
<1>2. ASSUME NEW t \in Transfers, Upload(t)
      PROVE  StoreHasKeys' /\ \A u \in Transfers : \A v : Verified(u, v) => Verified(u, v)'
    <2>1. PICK b \in Bodies[t] : store' = [store EXCEPT ![t] = Append(@, b)]
        BY <1>2 DEF Upload
    <2>2. b \in Stored /\ store[t] \in Seq(Stored)
        BY ArtifactsAssumption DEF Stored, StoreHasKeys
    <2>3. /\ Append(store[t], b) \in Seq(Stored) /\ Len(Append(store[t], b)) = Len(store[t]) + 1
          /\ \A v \in 1..Len(store[t]) : Append(store[t], b)[v] = store[t][v]
        BY <2>2
    <2>4. store'[t] = Append(store[t], b) /\ \A u \in Transfers : u # t => store'[u] = store[u]
        BY <2>1 DEF StoreHasKeys
    <2>5. StoreHasKeys'
        BY <2>1, <2>3 DEF StoreHasKeys
    <2>6. ASSUME NEW v, Verified(t, v) PROVE Verified(t, v)'
        <3>1. Len(store[t]) \in Nat /\ v \in 1..Len(store[t]) /\ v \in 1..(Len(store[t]) + 1)
            BY <2>2, <2>6 DEF Verified
        <3> QED BY <2>3, <2>4, <2>6, <3>1 DEF Verified
    <2>7. ASSUME NEW u \in Transfers, u # t, NEW v, Verified(u, v) PROVE Verified(u, v)'
        BY <2>4, <2>7 DEF Verified
    <2> QED BY <2>5, <2>6, <2>7
<1>3. ASSUME NEW t \in Transfers, Begin(t) \/ CapabilityExpires(t) \/ DeadlinePasses(t) \/ ReadCapability(t)
      PROVE  UNCHANGED store
    BY <1>3 DEF Begin, CapabilityExpires, DeadlinePasses, ReadCapability
<1>4. ASSUME NEW t \in Transfers, NEW i \in Instances, Resolve(t, i) PROVE UNCHANGED store
    BY <1>4 DEF Resolve
<1>5. ASSUME NEW f \in Finalizers, Finalize(f) \/ GiveUp(f) PROVE UNCHANGED store
    BY <1>5 DEF Finalize, GiveUp, Peek, Verify, FinalizeSlot, Read, Settle
<1>6. ASSUME \/ Restart \/ AcceptResult \/ ControlChanges \/ RecoveryFences \/ CloseAttempt
             \/ (\E i \in Instances : RegisterInstance(i)) \/ UNCHANGED vars
      PROVE  UNCHANGED store
    BY <1>6 DEF Restart, AcceptResult, ControlChanges, RecoveryFences, CloseAttempt, RegisterInstance, vars
<1> QED BY <1>1, <1>2, <1>3, <1>4, <1>5, <1>6 DEF Next

\* A transfer is begun once and settled once, by a call that commits what it
\* verified inside the scope.
TransferMoves(t) ==
    \/ xfer'[t] = xfer[t]
    \/ xfer[t].state = "none" /\ xfer'[t].state = "begun"
    \/ xfer[t].state = "begun" /\ xfer'[t].state \in {"expired", "rejected"}
    \/ /\ Finalizable(t) /\ xfer'[t].state = "finalized"
       /\ \E f \in Finalizers : /\ TransferOf[f] = t /\ fin[f].pc = "settle" /\ fin[f].facts = "exact"
                                /\ xfer'[t].version = VersionOf[f]

\* The commit of a call.
LEMMA SettleMoves ==
    ASSUME TypeOK, NEW f \in Finalizers, Settle(f)
    PROVE  xfer' \in [Transfers -> Transfer] /\ \A t \in Transfers : TransferMoves(t)
<1> DEFINE d == TransferOf[f]
<1>1. xfer \in [Transfers -> Transfer] /\ d \in Transfers /\ xfer[d] \in Transfer
    BY CallNames DEF TypeOK
<1>2. \/ UNCHANGED xfer
      \/ xfer[d].state = "begun" /\ \E s \in {"expired", "rejected"} : xfer' = [xfer EXCEPT ![d].state = s]
      \/ Finalizable(d) /\ fin[f].facts = "exact" /\ xfer' = [xfer EXCEPT ![d] = Finalized(f)]
    <2>1. CASE xfer[d].state # "begun"
        BY <2>1 DEF Settle
    <2>2. CASE xfer[d].state = "begun" /\ d \in late
        BY <2>2 DEF Settle, Finalizable
    <2>3. CASE xfer[d].state = "begun" /\ d \notin late /\ Finalizable(d) /\ fin[f].facts = "exact"
        BY <2>3 DEF Settle
    <2>4. CASE xfer[d].state = "begun" /\ d \notin late /\ ~(Finalizable(d) /\ fin[f].facts = "exact")
        <3>1. xfer' = [xfer EXCEPT ![d] = Rejected(d)]
            BY <2>4 DEF Settle
        <3> QED BY <1>1, <2>4, <3>1 DEF Rejected
    <2> QED BY <2>1, <2>2, <2>3, <2>4
<1>3. CASE UNCHANGED xfer
    BY <1>1, <1>3 DEF TransferMoves
<1>4. ASSUME NEW s \in {"expired", "rejected"}, xfer[d].state = "begun", xfer' = [xfer EXCEPT ![d].state = s]
      PROVE  xfer' \in [Transfers -> Transfer] /\ \A t \in Transfers : TransferMoves(t)
    <2>1. xfer' \in [Transfers -> Transfer]
        BY <1>1, <1>4 DEF Transfer, TransferStates
    <2>2. xfer'[d].state = s /\ \A t \in Transfers : t # d => xfer'[t] = xfer[t]
        BY <1>1, <1>4 DEF Transfer
    <2> QED BY <1>4, <2>1, <2>2 DEF TransferMoves
<1>5. CASE Finalizable(d) /\ fin[f].facts = "exact" /\ xfer' = [xfer EXCEPT ![d] = Finalized(f)]
    <2>1. Finalized(f).state = "finalized" /\ Finalized(f).version = VersionOf[f]
        BY <1>1 DEF Finalized, Transfer
    <2>2. Finalized(f) \in Transfer
        <3>1. "finalized" \in TransferStates /\ VersionOf[f] \in Versions /\ CommandOf[f] \in Commands
            BY CallNames DEF TransferStates
        <3> QED BY <1>1, <3>1 DEF Finalized, Transfer
    <2>3. xfer' \in [Transfers -> Transfer]
        BY <1>1, <1>5, <2>2
    <2>4. fin[f].pc = "settle" /\ xfer'[d] = Finalized(f) /\ \A t \in Transfers : t # d => xfer'[t] = xfer[t]
        BY <1>1, <1>5 DEF Settle
    <2> QED BY <1>5, <2>1, <2>3, <2>4 DEF TransferMoves
<1> QED BY <1>2, <1>3, <1>4, <1>5

\* Every step moves every transfer along TransferMoves.
LEMMA EveryTransferMoves ==
    ASSUME TypeOK, [Next]_vars
    PROVE  xfer' \in [Transfers -> Transfer] /\ \A t \in Transfers : TransferMoves(t)
<1>0. xfer \in [Transfers -> Transfer] /\ op \in OpRow
    BY DEF TypeOK, OpRow
<1>1. CASE UNCHANGED xfer
    BY <1>0, <1>1 DEF TransferMoves
<1>2. ASSUME NEW t \in Transfers, Begin(t)
      PROVE  xfer' \in [Transfers -> Transfer] /\ \A u \in Transfers : TransferMoves(u)
    <2>1. CASE xfer[t].state = "none" /\ xfer' = [xfer EXCEPT ![t] = NewTransfer(t)]
        <3>1. NewTransfer(t).state = "begun" /\ NewTransfer(t) \in Transfer
            BY <1>0, ArtifactsAssumption DEF NewTransfer, Transfer, TransferStates, OpRow
        <3> QED BY <1>0, <2>1, <3>1 DEF TransferMoves
    <2> QED BY <1>1, <1>2, <2>1 DEF Begin
<1>3. ASSUME NEW f \in Finalizers, Peek(f) \/ Verify(f) \/ FinalizeSlot(f) \/ Read(f) \/ GiveUp(f) PROVE UNCHANGED xfer
    BY <1>3 DEF Peek, Verify, FinalizeSlot, Read, GiveUp
<1>4. ASSUME NEW t \in Transfers, Upload(t) \/ CapabilityExpires(t) \/ DeadlinePasses(t) \/ ReadCapability(t)
      PROVE  UNCHANGED xfer
    BY <1>4 DEF Upload, CapabilityExpires, DeadlinePasses, ReadCapability
<1>5. ASSUME NEW t \in Transfers, NEW i \in Instances, Resolve(t, i) PROVE UNCHANGED xfer
    BY <1>5 DEF Resolve
<1>6. ASSUME \/ Restart \/ AcceptResult \/ ControlChanges \/ RecoveryFences \/ CloseAttempt
             \/ (\E i \in Instances : RegisterInstance(i)) \/ UNCHANGED vars
      PROVE  UNCHANGED xfer
    BY <1>6 DEF Restart, AcceptResult, ControlChanges, RecoveryFences, CloseAttempt, RegisterInstance, vars
<1> QED BY <1>1, <1>2, <1>3, <1>4, <1>5, <1>6, SettleMoves DEF Next, Finalize

\* A call goes on, ends, or takes the facts of its version to the commit.
CallMoves(f) ==
    \/ fin'[f] = fin[f]
    \/ fin'[f].pc = "done" /\ ~fin'[f].holds
    \/ /\ fin'[f].facts = fin[f].facts /\ fin'[f].holds = fin[f].holds
       /\ \/ fin[f].pc = "idle" /\ fin'[f].pc \in {"settle", "waiting"}
          \/ fin[f].pc = "idle" /\ fin'[f].pc = "verify" /\ TransferOf[f] \notin Checked
          \/ fin[f].pc = "verify" /\ fin'[f].pc = "waiting"
    \/ fin[f].pc = "waiting" /\ fin'[f].pc = "reading" /\ fin'[f].holds /\ fin'[f].facts = fin[f].facts
    \/ /\ fin[f].pc \in {"verify", "reading"} /\ fin'[f].pc = "settle" /\ (fin'[f].holds => fin[f].holds)
       /\ fin'[f].facts = "exact" => Verified(TransferOf[f], VersionOf[f])

\* One call moves to a row of its type, the others do not.
LEMMA OneCallMoves ==
    ASSUME fin \in [Finalizers -> Finalizer], NEW f \in Finalizers, NEW next \in Finalizer,
           fin' = [fin EXCEPT ![f] = next]
    PROVE  /\ fin' \in [Finalizers -> Finalizer] /\ fin'[f] = next
           /\ \A g \in Finalizers : g # f => CallMoves(g)
BY DEF CallMoves

\* The rows a call moves to.
Goes(c, pc) == [c EXCEPT !.pc = pc]
Learns(c, a) == [c EXCEPT !.pc = "settle", !.facts = a]

\* They have their type and change what they say.
LEMMA CallRows ==
    ASSUME NEW c \in Finalizer
    PROVE  /\ Done(c) \in Finalizer /\ Done(c).pc = "done" /\ Done(c).holds = FALSE
           /\ \A pc \in PCs : /\ Goes(c, pc) \in Finalizer
                              /\ Goes(c, pc).pc = pc /\ Goes(c, pc).holds = c.holds /\ Goes(c, pc).facts = c.facts
           /\ \A a \in Facts : /\ Learns(c, a) \in Finalizer
                               /\ Learns(c, a).pc = "settle" /\ Learns(c, a).holds = c.holds /\ Learns(c, a).facts = a
<1>1. Done(c) \in Finalizer /\ Done(c).pc = "done" /\ Done(c).holds = FALSE
    BY DEF Done, Finalizer
<1>2. \A pc \in PCs : /\ Goes(c, pc) \in Finalizer
                      /\ Goes(c, pc).pc = pc /\ Goes(c, pc).holds = c.holds /\ Goes(c, pc).facts = c.facts
    BY DEF Goes, Finalizer, PCs
<1>3. \A a \in Facts : /\ Learns(c, a) \in Finalizer
                       /\ Learns(c, a).pc = "settle" /\ Learns(c, a).holds = c.holds /\ Learns(c, a).facts = a
    BY DEF Learns, Finalizer
<1> QED BY <1>1, <1>2, <1>3

\* A call without a slot goes on without one.
LEMMA FreeRows ==
    ASSUME NEW c \in Finalizer, ~c.holds
    PROVE  /\ \A pc \in PCs : /\ Goes(c, pc) \in Finalizer
                              /\ Goes(c, pc).pc = pc /\ Goes(c, pc).holds = FALSE /\ Goes(c, pc).facts = c.facts
           /\ \A a \in Facts : /\ Learns(c, a) \in Finalizer
                               /\ Learns(c, a).pc = "settle" /\ Learns(c, a).holds = FALSE /\ Learns(c, a).facts = a
<1>1. c.holds = FALSE
    BY DEF Finalizer
<1>2. (\A pc \in PCs : Goes(c, pc).holds = FALSE) /\ \A a \in Facts : Learns(c, a).holds = FALSE
    BY <1>1, CallRows
<1> QED BY <1>2, CallRows

\* The version a call reads as the declared bytes is stored.
LEMMA ExactIsStored ==
    ASSUME StoreHasKeys, NEW f \in Finalizers, "exact" \in Answers(f)
    PROVE  VersionOf[f] \in 1..Len(store[TransferOf[f]]) /\ store[TransferOf[f]][VersionOf[f]] = "exact"
<1>1. TransferOf[f] \in Transfers /\ VersionOf[f] \in Nat \ {0} /\ Len(store[TransferOf[f]]) \in Nat
    BY CallNames DEF StoreHasKeys
<1>2. VersionOf[f] <= Len(store[TransferOf[f]]) /\ store[TransferOf[f]][VersionOf[f]] = "exact"
    BY <1>1 DEF Answers
<1> QED BY <1>1, <1>2

\* The slots in use follow the calls that hold one.
SlotMoves ==
    \/ slots' = slots /\ Held' = Held
    \/ slots' = slots + 1 /\ slots < Slots /\ \E f \in Finalizers \ Held : Held' = Held \cup {f}
    \/ slots' = slots - 1 /\ \E f \in Held : Held' = Held \ {f}
    \/ slots' = 0 /\ Held' = {}

\* What a step of one call does to the calls and to the slots.
CallStep == fin' \in [Finalizers -> Finalizer] /\ (\A g \in Finalizers : CallMoves(g)) /\ SlotMoves

\* The first read: a call that waits or streams.
LEMMA PeekMoves ==
    ASSUME TypeOK, ArtifactsInv, NEW f \in Finalizers, Peek(f)
    PROVE  CallStep
<1>1. fin \in [Finalizers -> Finalizer] /\ fin[f] \in Finalizer /\ fin[f].pc = "idle" /\ ~fin[f].holds /\ UNCHANGED slots
    BY DEF TypeOK, Peek, ArtifactsInv, CallKnows
<1>2. \/ fin' = [fin EXCEPT ![f] = Done(fin[f])]
      \/ fin' = [fin EXCEPT ![f] = Goes(fin[f], "settle")]
      \/ fin' = [fin EXCEPT ![f] = Goes(fin[f], "waiting")]
      \/ fin' = [fin EXCEPT ![f] = Goes(fin[f], "verify")] /\ TransferOf[f] \notin Checked
    BY DEF Peek, NeedsArchiveCheck, Goes
<1>3. ASSUME NEW next \in Finalizer, fin' = [fin EXCEPT ![f] = next], next.holds = FALSE,
             \/ next.pc = "done"
             \/ next.facts = fin[f].facts /\ next.pc \in {"settle", "waiting"}
             \/ next.facts = fin[f].facts /\ next.pc = "verify" /\ TransferOf[f] \notin Checked
      PROVE  CallStep
    <2>1. fin' \in [Finalizers -> Finalizer] /\ fin'[f] = next /\ \A g \in Finalizers : g # f => CallMoves(g)
        BY <1>1, <1>3, OneCallMoves
    <2>2. CallMoves(f)
        BY <1>1, <1>3, <2>1 DEF CallMoves, Finalizer
    <2>3. Held' = Held
        BY <1>1, <1>3 DEF Held
    <2> QED BY <1>1, <2>1, <2>2, <2>3 DEF CallStep, SlotMoves
<1>4. /\ \A pc \in {"settle", "waiting", "verify"} :
            /\ Goes(fin[f], pc) \in Finalizer /\ Goes(fin[f], pc).pc = pc
            /\ Goes(fin[f], pc).holds = FALSE /\ Goes(fin[f], pc).facts = fin[f].facts
      /\ Done(fin[f]) \in Finalizer /\ Done(fin[f]).pc = "done" /\ Done(fin[f]).holds = FALSE
    <2>1. fin[f] \in Finalizer /\ ~fin[f].holds
        BY <1>1
    <2>2. Done(fin[f]) \in Finalizer /\ Done(fin[f]).pc = "done" /\ Done(fin[f]).holds = FALSE
        BY <2>1, CallRows
    <2>3. /\ \A pc \in PCs : /\ Goes(fin[f], pc) \in Finalizer /\ Goes(fin[f], pc).pc = pc
                             /\ Goes(fin[f], pc).holds = FALSE /\ Goes(fin[f], pc).facts = fin[f].facts
          /\ \A a \in Facts : /\ Learns(fin[f], a) \in Finalizer /\ Learns(fin[f], a).pc = "settle"
                              /\ Learns(fin[f], a).holds = FALSE /\ Learns(fin[f], a).facts = a
        BY <2>1, FreeRows
    <2> QED BY <2>2, <2>3 DEF PCs
<1>5. CASE fin' = [fin EXCEPT ![f] = Done(fin[f])]
    BY <1>3, <1>4, <1>5
<1>6. CASE fin' = [fin EXCEPT ![f] = Goes(fin[f], "settle")]
    BY <1>3, <1>4, <1>6
<1>7. CASE fin' = [fin EXCEPT ![f] = Goes(fin[f], "waiting")]
    BY <1>3, <1>4, <1>7
<1>8. CASE fin' = [fin EXCEPT ![f] = Goes(fin[f], "verify")] /\ TransferOf[f] \notin Checked
    BY <1>3, <1>4, <1>8
<1> QED BY <1>2, <1>5, <1>6, <1>7, <1>8

\* The stream: what is an archive is not taken as it is.
LEMMA VerifyMoves ==
    ASSUME TypeOK, ArtifactsInv, NEW f \in Finalizers, Verify(f)
    PROVE  CallStep
<1>1. /\ fin \in [Finalizers -> Finalizer] /\ fin[f] \in Finalizer /\ fin[f].pc = "verify" /\ ~fin[f].holds
      /\ TransferOf[f] \notin Checked /\ TransferOf[f] \in Transfers /\ UNCHANGED slots
    BY CallNames DEF TypeOK, Verify, ArtifactsInv, CallKnows
<1>2. \/ fin' = [fin EXCEPT ![f] = Done(fin[f])]
      \/ \E a \in {"failed", "other"} : fin' = [fin EXCEPT ![f] = Learns(fin[f], a)]
      \/ fin' = [fin EXCEPT ![f] = Goes(fin[f], "waiting")]
      \/ /\ fin' = [fin EXCEPT ![f] = Learns(fin[f], "exact")]
         /\ "exact" \in Answers(f) /\ ~DetectArchive(TransferOf[f])
    <2>1. PICK a \in Answers(f) : fin' = [fin EXCEPT ![f] =
            CASE a \in {"absent", "unavailable"} -> Done(@)
              [] a = "larger" -> [@ EXCEPT !.pc = "settle", !.facts = "failed"]
              [] a = "other" -> [@ EXCEPT !.pc = "settle", !.facts = a]
              [] a = "exact" -> IF DetectArchive(TransferOf[f]) THEN [@ EXCEPT !.pc = "waiting"]
                                ELSE [@ EXCEPT !.pc = "settle", !.facts = a]]
        BY DEF Verify
    <2>2. a \in {"absent", "unavailable"} \cup Stored
        <3>1. VersionOf[f] <= Len(store[TransferOf[f]]) => store[TransferOf[f]][VersionOf[f]] \in Stored
            BY CallNames DEF ArtifactsInv, StoreHasKeys
        <3> QED BY <3>1 DEF Answers
    <2> QED BY <2>1, <2>2 DEF Stored, Goes, Learns
<1>4. "exact" \in Answers(f) /\ ~DetectArchive(TransferOf[f]) => Verified(TransferOf[f], VersionOf[f])
    BY <1>1, ExactIsStored DEF ArtifactsInv, Verified, DetectArchive
<1>5. ASSUME NEW next \in Finalizer, fin' = [fin EXCEPT ![f] = next], next.holds = FALSE,
             \/ next.pc = "done"
             \/ next.facts = fin[f].facts /\ next.pc = "waiting"
             \/ next.pc = "settle" /\ (next.facts = "exact" => Verified(TransferOf[f], VersionOf[f]))
      PROVE  CallStep
    <2>1. fin' \in [Finalizers -> Finalizer] /\ fin'[f] = next /\ \A g \in Finalizers : g # f => CallMoves(g)
        BY <1>1, <1>5, OneCallMoves
    <2>2. CallMoves(f)
        BY <1>1, <1>5, <2>1 DEF CallMoves, Finalizer
    <2>3. Held' = Held
        BY <1>1, <1>5 DEF Held
    <2> QED BY <1>1, <2>1, <2>2, <2>3 DEF CallStep, SlotMoves
<1>6. /\ Done(fin[f]) \in Finalizer /\ Done(fin[f]).pc = "done" /\ Done(fin[f]).holds = FALSE
      /\ Goes(fin[f], "waiting") \in Finalizer /\ Goes(fin[f], "waiting").pc = "waiting"
      /\ Goes(fin[f], "waiting").holds = FALSE /\ Goes(fin[f], "waiting").facts = fin[f].facts
      /\ \A a \in Facts : /\ Learns(fin[f], a) \in Finalizer /\ Learns(fin[f], a).pc = "settle"
                          /\ Learns(fin[f], a).holds = FALSE /\ Learns(fin[f], a).facts = a
    <2>1. fin[f] \in Finalizer /\ ~fin[f].holds
        BY <1>1
    <2>2. Done(fin[f]) \in Finalizer /\ Done(fin[f]).pc = "done" /\ Done(fin[f]).holds = FALSE
        BY <2>1, CallRows
    <2>3. /\ \A pc \in PCs : /\ Goes(fin[f], pc) \in Finalizer /\ Goes(fin[f], pc).pc = pc
                             /\ Goes(fin[f], pc).holds = FALSE /\ Goes(fin[f], pc).facts = fin[f].facts
          /\ \A a \in Facts : /\ Learns(fin[f], a) \in Finalizer /\ Learns(fin[f], a).pc = "settle"
                              /\ Learns(fin[f], a).holds = FALSE /\ Learns(fin[f], a).facts = a
        BY <2>1, FreeRows
    <2> QED BY <2>2, <2>3 DEF PCs
<1>7. CASE fin' = [fin EXCEPT ![f] = Done(fin[f])]
    BY <1>5, <1>6, <1>7
<1>8. ASSUME NEW a \in {"failed", "other"}, fin' = [fin EXCEPT ![f] = Learns(fin[f], a)] PROVE CallStep
    BY <1>5, <1>6, <1>8 DEF Facts
<1>9. CASE fin' = [fin EXCEPT ![f] = Goes(fin[f], "waiting")]
    BY <1>5, <1>6, <1>9
<1>10. CASE /\ fin' = [fin EXCEPT ![f] = Learns(fin[f], "exact")]
            /\ "exact" \in Answers(f) /\ ~DetectArchive(TransferOf[f])
    BY <1>4, <1>5, <1>6, <1>10 DEF Facts
<1> QED BY <1>2, <1>7, <1>8, <1>9, <1>10

\* A call that moves on without taking a slot gives back the one it held.
LEMMA MoveSlots ==
    ASSUME fin \in [Finalizers -> Finalizer], NEW f \in Finalizers, NEW next \in Finalizer, Move(f, next),
           next.holds => fin[f].holds
    PROVE  SlotMoves
<1>1. fin' = [fin EXCEPT ![f] = next] /\ slots' = IF fin[f].holds /\ ~next.holds THEN slots - 1 ELSE slots
    BY DEF Move
<1>2. fin'[f] = next /\ \A g \in Finalizers : g # f => fin'[g] = fin[g]
    BY <1>1
<1>3. CASE fin[f].holds /\ ~next.holds
    <2>1. f \in Held /\ Held' = Held \ {f}
        BY <1>2, <1>3 DEF Held
    <2> QED BY <1>1, <1>3, <2>1 DEF SlotMoves
<1>4. CASE ~(fin[f].holds /\ ~next.holds)
    <2>1. \A g \in Finalizers : fin'[g].holds <=> fin[g].holds
        BY <1>2, <1>4
    <2>2. Held' = Held
        BY <2>1 DEF Held
    <2> QED BY <1>1, <1>4, <2>2 DEF SlotMoves
<1> QED BY <1>3, <1>4

\* A slot is taken while there is one.
LEMMA SlotTaken ==
    ASSUME TypeOK, ArtifactsInv, NEW f \in Finalizers, FinalizeSlot(f)
    PROVE  CallStep
<1> DEFINE next == [fin[f] EXCEPT !.pc = "reading", !.holds = TRUE]
<1>1. /\ fin \in [Finalizers -> Finalizer] /\ fin[f] \in Finalizer /\ fin[f].pc = "waiting" /\ ~fin[f].holds
      /\ slots < Slots /\ slots' = slots + 1
    BY DEF TypeOK, FinalizeSlot, ArtifactsInv, CallKnows
<1>2. next \in Finalizer /\ next.pc = "reading" /\ next.holds /\ next.facts = fin[f].facts
    BY <1>1 DEF Finalizer
<1>3. fin' = [fin EXCEPT ![f] = next]
    BY <1>1 DEF FinalizeSlot
<1> HIDE DEF next
<1>4. fin' \in [Finalizers -> Finalizer] /\ fin'[f] = next /\ \A g \in Finalizers : g # f => CallMoves(g)
    BY <1>1, <1>2, <1>3, OneCallMoves
<1>5. CallMoves(f)
    BY <1>1, <1>2, <1>4 DEF CallMoves
<1>6. f \notin Held /\ Held' = Held \cup {f}
    BY <1>1, <1>2, <1>3 DEF Held
<1> QED BY <1>1, <1>4, <1>5, <1>6 DEF CallStep, SlotMoves

\* The bytes under a slot: an archive that is not contained fails.
LEMMA ReadMoves ==
    ASSUME TypeOK, ArtifactsInv, NEW f \in Finalizers, Read(f)
    PROVE  CallStep
<1>1. fin \in [Finalizers -> Finalizer] /\ fin[f] \in Finalizer /\ fin[f].pc = "reading" /\ TransferOf[f] \in Transfers
    BY CallNames DEF TypeOK, Read
<1>2. PICK a \in Answers(f) :
        Move(f, CASE a \in {"absent", "unavailable"} -> Done(fin[f])
                  [] a = "larger" -> Learns(fin[f], "failed")
                  [] a = "other" -> [pc |-> "settle", holds |-> FALSE, facts |-> a]
                  [] a = "exact" -> [pc |-> "settle", holds |-> FALSE,
                                     facts |-> IF CheckArchive(TransferOf[f]) THEN a ELSE "failed"])
    BY DEF Read, Learns
<1>3. a \in {"absent", "unavailable"} \cup Stored
    <2>1. VersionOf[f] <= Len(store[TransferOf[f]]) => store[TransferOf[f]][VersionOf[f]] \in Stored
        BY CallNames DEF ArtifactsInv, StoreHasKeys
    <2> QED BY <2>1 DEF Answers
<1>4. ASSUME NEW next \in Finalizer, Move(f, next), next.holds => fin[f].holds,
             \/ next.pc = "done" /\ ~next.holds
             \/ next.pc = "settle" /\ (next.facts = "exact" => Verified(TransferOf[f], VersionOf[f]))
      PROVE  CallStep
    <2>1. fin' \in [Finalizers -> Finalizer] /\ fin'[f] = next /\ \A g \in Finalizers : g # f => CallMoves(g)
        BY <1>1, <1>4, OneCallMoves DEF Move
    <2>2. CallMoves(f)
        BY <1>1, <1>4, <2>1 DEF CallMoves
    <2>3. SlotMoves
        BY <1>1, <1>4, MoveSlots
    <2> QED BY <2>1, <2>2, <2>3 DEF CallStep
<1>5. CASE a \in {"absent", "unavailable"}
    <2>1. Done(fin[f]) \in Finalizer /\ Done(fin[f]).pc = "done" /\ ~Done(fin[f]).holds
        BY <1>1, CallRows
    <2>2. Move(f, Done(fin[f]))
        BY <1>2, <1>5
    <2> QED BY <1>4, <2>1, <2>2
<1>6. CASE a = "larger"
    <2>1. /\ Learns(fin[f], "failed") \in Finalizer /\ Learns(fin[f], "failed").pc = "settle"
          /\ Learns(fin[f], "failed").holds = fin[f].holds /\ Learns(fin[f], "failed").facts = "failed"
        BY <1>1, CallRows DEF Facts
    <2>2. Move(f, Learns(fin[f], "failed"))
        BY <1>2, <1>6
    <2> QED BY <1>4, <2>1, <2>2
<1>7. CASE a = "other"
    <2> DEFINE next == [pc |-> "settle", holds |-> FALSE, facts |-> "other"]
    <2>1. next \in Finalizer /\ next.pc = "settle" /\ ~next.holds /\ next.facts = "other"
        BY DEF Finalizer, Facts
    <2>2. Move(f, next)
        BY <1>2, <1>7
    <2> HIDE DEF next
    <2> QED BY <1>4, <2>1, <2>2
<1>8. CASE a = "exact"
    <2> DEFINE next == [pc |-> "settle", holds |-> FALSE,
                        facts |-> IF CheckArchive(TransferOf[f]) THEN "exact" ELSE "failed"]
    <2>1. next \in Finalizer /\ next.pc = "settle" /\ ~next.holds
        BY DEF Finalizer, Facts
    <2>2. next.facts = "exact" => CheckArchive(TransferOf[f])
        OBVIOUS
    <2>3. CheckArchive(TransferOf[f]) => Verified(TransferOf[f], VersionOf[f])
        BY <1>8, ExactIsStored DEF CheckArchive, Contained, Verified, ArtifactsInv
    <2>4. Move(f, next)
        BY <1>2, <1>8
    <2> HIDE DEF next
    <2> QED BY <1>4, <2>1, <2>2, <2>3, <2>4
<1> QED BY <1>3, <1>5, <1>6, <1>7, <1>8 DEF Stored

\* The commit, and the end of the process with every call in it.
LEMMA EndMoves ==
    ASSUME TypeOK, ArtifactsInv, NEW f \in Finalizers, Settle(f) \/ GiveUp(f)
    PROVE  CallStep
<1>1. fin \in [Finalizers -> Finalizer] /\ \A g \in Finalizers : fin[g] \in Finalizer
    BY DEF TypeOK
<1>2. \A g \in Finalizers : Done(fin[g]) \in Finalizer /\ Done(fin[g]).pc = "done" /\ ~Done(fin[g]).holds
    BY <1>1, CallRows
<1>3. CASE Settle(f)
    <2>1. Move(f, Done(fin[f]))
        BY <1>3 DEF Settle
    <2>2. fin' \in [Finalizers -> Finalizer] /\ fin'[f] = Done(fin[f]) /\ \A g \in Finalizers : g # f => CallMoves(g)
        BY <1>1, <1>2, <2>1, OneCallMoves DEF Move
    <2>3. CallMoves(f)
        BY <1>2, <2>2 DEF CallMoves
    <2>4. SlotMoves
        BY <1>1, <1>2, <2>1, MoveSlots
    <2> QED BY <2>2, <2>3, <2>4 DEF CallStep
<1>4. CASE GiveUp(f)
    <2>1. slots' = 0 /\ fin' = [g \in Finalizers |-> IF fin[g].pc = "idle" THEN fin[g] ELSE Done(fin[g])]
        BY <1>4 DEF GiveUp
    <2>2. fin' \in [Finalizers -> Finalizer]
        BY <1>1, <1>2, <2>1
    <2>3. \A g \in Finalizers : CallMoves(g)
        BY <1>2, <2>1 DEF CallMoves
    <2>4. \A g \in Finalizers : fin[g].pc = "idle" => ~fin[g].holds
        BY DEF ArtifactsInv, CallKnows
    <2>5. Held' = {}
        BY <1>2, <2>1, <2>4 DEF Held
    <2> QED BY <2>1, <2>2, <2>3, <2>5 DEF CallStep, SlotMoves
<1> QED BY <1>3, <1>4

\* Every step moves every call, and the slots with them.
LEMMA EveryCallMoves ==
    ASSUME TypeOK, ArtifactsInv, [Next]_vars
    PROVE  CallStep
<1>1. CASE UNCHANGED <<fin, slots>>
    BY <1>1 DEF CallStep, CallMoves, SlotMoves, Held, TypeOK
<1> QED BY <1>1, OthersLeaveCalls, PeekMoves, VerifyMoves, SlotTaken, ReadMoves, EndMoves DEF Finalize

-----------------------------------------------------------------------------
(* The slots.                                                              *)

\* The slots in use are the calls that hold one, within the bound.
LEMMA SlotStep ==
    ASSUME TypeOK, SlotsAreHeld, SlotMoves
    PROVE  slots' \in 0..Slots /\ SlotsAreHeld'
<1>1. IsFiniteSet(Held) /\ slots = Cardinality(Held) /\ slots \in 0..Slots /\ Slots \in Nat
    BY ArtifactsAssumption, FS_Subset DEF Held, SlotsAreHeld, TypeOK
<1>2. SlotsAreHeld' <=> slots' = Cardinality(Held')
    BY DEF SlotsAreHeld, Held
<1>3. CASE slots' = slots /\ Held' = Held
    BY <1>1, <1>2, <1>3
<1>4. ASSUME NEW f \in Finalizers \ Held, slots' = slots + 1, slots < Slots, Held' = Held \cup {f}
      PROVE  slots' \in 0..Slots /\ SlotsAreHeld'
    <2>1. Cardinality(Held \cup {f}) = Cardinality(Held) + 1
        BY <1>1, FS_AddElement
    <2> QED BY <1>1, <1>2, <1>4, <2>1
<1>5. ASSUME NEW f \in Held, slots' = slots - 1, Held' = Held \ {f}
      PROVE  slots' \in 0..Slots /\ SlotsAreHeld'
    <2>1. Cardinality(Held \ {f}) = Cardinality(Held) - 1 /\ IsFiniteSet(Held \ {f})
        BY <1>1, FS_RemoveElement
    <2>2. Cardinality(Held \ {f}) \in Nat
        BY <2>1, FS_CardinalityType
    <2> QED BY <1>1, <1>2, <1>5, <2>1, <2>2
<1>6. CASE slots' = 0 /\ Held' = {}
    BY <1>1, <1>2, <1>6, FS_EmptySet
<1> QED BY <1>3, <1>4, <1>5, <1>6 DEF SlotMoves

-----------------------------------------------------------------------------
(* What was verified is carried from the call to what is served.           *)

\* Only an acceptance or a reader adds to what is served, and only the
\* version of a finalized transfer.
LEMMA ServedMoves ==
    ASSUME TypeOK, [Next]_vars
    PROVE  \A s \in served' \ served : \E t \in Transfers : xfer[t].state = "finalized" /\ s = <<t, xfer[t].version>>
<1>1. CASE served' = served
    BY <1>1
<1>2. CASE AcceptResult
    BY <1>2 DEF AcceptResult, Manifests, Bindable
<1>3. ASSUME NEW t \in Transfers, ReadCapability(t)
      PROVE  \A s \in served' \ served : \E u \in Transfers : xfer[u].state = "finalized" /\ s = <<u, xfer[u].version>>
    BY <1>3 DEF ReadCapability
<1>4. ASSUME NEW t \in Transfers, Begin(t) \/ Upload(t) \/ CapabilityExpires(t) \/ DeadlinePasses(t)
      PROVE  served' = served
    BY <1>4 DEF Begin, Upload, CapabilityExpires, DeadlinePasses
<1>5. ASSUME NEW t \in Transfers, NEW i \in Instances, Resolve(t, i) PROVE served' = served
    BY <1>5 DEF Resolve
<1>6. ASSUME NEW f \in Finalizers, Finalize(f) \/ GiveUp(f) PROVE served' = served
    BY <1>6 DEF Finalize, GiveUp, Peek, Verify, FinalizeSlot, Read, Settle
<1>7. ASSUME \/ Restart \/ ControlChanges \/ RecoveryFences \/ CloseAttempt
             \/ (\E i \in Instances : RegisterInstance(i)) \/ UNCHANGED vars
      PROVE  served' = served
    BY <1>7 DEF Restart, ControlChanges, RecoveryFences, CloseAttempt, RegisterInstance, vars
<1> QED BY <1>1, <1>2, <1>3, <1>4, <1>5, <1>6, <1>7 DEF Next

\* Every step keeps the invariant.
LEMMA InvStep ==
    ASSUME TypeOK, ArtifactsInv, [Next]_vars
    PROVE  ArtifactsInv'
<1>1. StoreHasKeys' /\ \A t \in Transfers : \A v : Verified(t, v) => Verified(t, v)'
    BY VerifiedStays DEF ArtifactsInv
<1>2. CallKnows'
    <2> SUFFICES ASSUME NEW f \in Finalizers
                 PROVE  /\ fin'[f].pc \notin {"settle", "done"} => fin'[f].facts = "none"
                        /\ fin'[f].holds => fin'[f].pc \in {"reading", "settle"}
                        /\ fin'[f].pc = "verify" => TransferOf[f] \notin Checked
                        /\ fin'[f].pc = "settle" /\ fin'[f].facts = "exact" => Verified(TransferOf[f], VersionOf[f])'
        BY DEF CallKnows
    <2>1. CallMoves(f) /\ TransferOf[f] \in Transfers
        BY EveryCallMoves, CallNames DEF CallStep
    <2>2. /\ fin[f].pc \notin {"settle", "done"} => fin[f].facts = "none"
          /\ fin[f].holds => fin[f].pc \in {"reading", "settle"}
          /\ fin[f].pc = "verify" => TransferOf[f] \notin Checked
          /\ fin[f].pc = "settle" /\ fin[f].facts = "exact" => Verified(TransferOf[f], VersionOf[f])
        BY DEF ArtifactsInv, CallKnows
    <2> QED BY <1>1, <2>1, <2>2 DEF CallMoves
<1>3. FinalizedIsVerified'
    <2> SUFFICES ASSUME NEW t \in Transfers, xfer'[t].state = "finalized"
                 PROVE  xfer'[t].version \in Versions /\ Verified(t, xfer[t].version)'
        BY DEF FinalizedIsVerified
    <2>1. xfer'[t].version \in Versions /\ Verified(t, xfer'[t].version)
        <3>1. CASE xfer'[t] = xfer[t]
            BY <3>1 DEF ArtifactsInv, FinalizedIsVerified
        <3>2. ASSUME NEW f \in Finalizers, TransferOf[f] = t, fin[f].pc = "settle", fin[f].facts = "exact",
                     xfer'[t].version = VersionOf[f]
              PROVE  xfer'[t].version \in Versions /\ Verified(t, xfer'[t].version)
            BY <3>2, CallNames DEF ArtifactsInv, CallKnows
        <3> QED BY <3>1, <3>2, EveryTransferMoves DEF TransferMoves
    <2> QED BY <1>1, <2>1 DEF Verified
<1>4. ServedIsFinalized'
    <2>1. \A t \in Transfers : xfer[t].state = "finalized" => xfer'[t] = xfer[t]
        BY EveryTransferMoves DEF TransferMoves, Finalizable
    <2>2. ASSUME NEW s \in served PROVE xfer'[s[1]].state = "finalized" /\ xfer'[s[1]].version = s[2]
        <3>1. s[1] \in Transfers
            BY DEF TypeOK
        <3> QED BY <2>1, <3>1 DEF ArtifactsInv, ServedIsFinalized
    <2>3. ASSUME NEW s \in served' \ served PROVE xfer'[s[1]].state = "finalized" /\ xfer'[s[1]].version = s[2]
        <3>1. PICK t \in Transfers : xfer[t].state = "finalized" /\ s = <<t, xfer[t].version>>
            BY ServedMoves
        <3>2. s[1] = t /\ s[2] = xfer[t].version
            BY <3>1
        <3> QED BY <2>1, <3>1, <3>2
    <2> QED BY <2>2, <2>3 DEF ServedIsFinalized
<1> QED BY <1>1, <1>2, <1>3, <1>4 DEF ArtifactsInv

-----------------------------------------------------------------------------
(* Type correctness: what is left of it, one step per action.              *)

\* The rest of the state: the scope, the clock, capabilities and the process.
ScopeTypes ==
    /\ op \in OpRow /\ attempt \in AttemptRow /\ owner \in Instances \cup {"none"}
    /\ late \subseteq Transfers /\ caps \subseteq Transfers /\ up \in BOOLEAN

\* Every step keeps their types.
LEMMA ScopeStep ==
    ASSUME ScopeTypes, [Next]_vars
    PROVE  ScopeTypes'
<1> USE DEF ScopeTypes, scopeVars
<1>1. ASSUME NEW t \in Transfers, Begin(t) \/ Upload(t) \/ CapabilityExpires(t) \/ DeadlinePasses(t) \/ ReadCapability(t)
      PROVE  ScopeTypes'
    BY <1>1 DEF Begin, Capability, Upload, CapabilityExpires, DeadlinePasses, ReadCapability
<1>2. ASSUME NEW t \in Transfers, NEW i \in Instances, Resolve(t, i) PROVE ScopeTypes'
    BY <1>2 DEF Resolve, Capability
<1>3. ASSUME NEW f \in Finalizers, Finalize(f) \/ GiveUp(f) PROVE ScopeTypes'
    BY <1>3 DEF Finalize, GiveUp, Peek, Verify, FinalizeSlot, Read, Settle
<1>4. CASE AcceptResult \/ CloseAttempt
    <2>1. attempt' \in AttemptRow
        BY <1>4 DEF AcceptResult, CloseAttempt, AttemptRow
    <2> QED BY <1>4, <2>1 DEF AcceptResult, CloseAttempt
<1>5. CASE ControlChanges
    <2>1. op' \in OpRow
        BY <1>5 DEF ControlChanges, OpRow
    <2> QED BY <1>5, <2>1 DEF ControlChanges
<1>6. CASE RecoveryFences
    <2>1. op.epoch + 1 \in 1..MaxEpoch
        BY <1>6, ArtifactsAssumption DEF RecoveryFences, OpRow
    <2>2. op' \in OpRow
        BY <1>6, <2>1 DEF RecoveryFences, OpRow
    <2> QED BY <1>6, <2>2 DEF RecoveryFences
<1>7. CASE Restart \/ (\E i \in Instances : RegisterInstance(i)) \/ UNCHANGED vars
    BY <1>7 DEF Restart, RegisterInstance, vars
<1> QED BY <1>1, <1>2, <1>3, <1>4, <1>5, <1>6, <1>7 DEF Next

\* An upload stores what its transfer may hold.
LEMMA StoreStep ==
    ASSUME TypeOK, StoreHasKeys, [Next]_vars
    PROVE  \A t \in Transfers : store'[t] \in Seq(Bodies[t])
<1>1. CASE UNCHANGED store
    BY <1>1 DEF TypeOK
<1>2. ASSUME NEW u \in Transfers, Upload(u) PROVE \A t \in Transfers : store'[t] \in Seq(Bodies[t])
    <2>1. PICK b \in Bodies[u] : store' = [store EXCEPT ![u] = Append(@, b)]
        BY <1>2 DEF Upload
    <2>2. Append(store[u], b) \in Seq(Bodies[u])
        <3>1. store[u] \in Seq(Bodies[u])
            BY DEF TypeOK
        <3> QED BY <3>1, AppendProperties
    <2> QED BY <2>1, <2>2 DEF TypeOK, StoreHasKeys
<1>3. ASSUME NEW t \in Transfers, Begin(t) \/ CapabilityExpires(t) \/ DeadlinePasses(t) \/ ReadCapability(t)
      PROVE  UNCHANGED store
    BY <1>3 DEF Begin, CapabilityExpires, DeadlinePasses, ReadCapability
<1>4. ASSUME NEW t \in Transfers, NEW i \in Instances, Resolve(t, i) PROVE UNCHANGED store
    BY <1>4 DEF Resolve
<1>5. ASSUME NEW f \in Finalizers, Finalize(f) \/ GiveUp(f) PROVE UNCHANGED store
    BY <1>5 DEF Finalize, GiveUp, Peek, Verify, FinalizeSlot, Read, Settle
<1>6. ASSUME \/ Restart \/ AcceptResult \/ ControlChanges \/ RecoveryFences \/ CloseAttempt
             \/ (\E i \in Instances : RegisterInstance(i)) \/ UNCHANGED vars
      PROVE  UNCHANGED store
    BY <1>6 DEF Restart, AcceptResult, ControlChanges, RecoveryFences, CloseAttempt, RegisterInstance, vars
<1> QED BY <1>1, <1>2, <1>3, <1>4, <1>5, <1>6 DEF Next

\* Every step keeps the types.
LEMMA TypeStep ==
    ASSUME TypeOK, ArtifactsInv, SlotsAreHeld, [Next]_vars
    PROVE  TypeOK'
<1>1. ScopeTypes'
    <2>1. ScopeTypes
        BY DEF TypeOK, ScopeTypes, OpRow, AttemptRow
    <2> QED BY <2>1, ScopeStep
<1>2. xfer' \in [Transfers -> Transfer] /\ fin' \in [Finalizers -> Finalizer] /\ slots' \in 0..Slots
    BY EveryTransferMoves, EveryCallMoves, SlotStep DEF CallStep
<1>3. \A t \in Transfers : store'[t] \in Seq(Bodies[t])
    BY StoreStep DEF ArtifactsInv
<1>4. served' \subseteq Transfers \X Versions
    <2>1. \A t \in Transfers : xfer[t].state = "finalized" => xfer[t].version \in Versions
        BY DEF ArtifactsInv, FinalizedIsVerified
    <2> QED BY <2>1, ServedMoves DEF TypeOK
<1> QED BY <1>1, <1>2, <1>3, <1>4 DEF TypeOK, ScopeTypes, OpRow, AttemptRow

-----------------------------------------------------------------------------
(* The theorems.                                                           *)

\* The invariant holds of every behaviour, with the types it needs.
THEOREM ArtifactsInvariant == Spec => [](TypeOK /\ ArtifactsInv /\ SlotsAreHeld)
<1>1. Init => TypeOK /\ ArtifactsInv /\ SlotsAreHeld
    <2> SUFFICES ASSUME Init PROVE TypeOK /\ ArtifactsInv /\ SlotsAreHeld
        OBVIOUS
    <2>1. TypeOK
        <3>1. 1 \in 1..MaxEpoch /\ 0 \in 0..MaxEpoch /\ 0 \in 0..Slots
            BY ArtifactsAssumption
        <3>2. xfer \in [Transfers -> Transfer] /\ fin \in [Finalizers -> Finalizer]
            BY <3>1 DEF Init, Transfer, TransferStates, Finalizer, Facts
        <3>3. \A t \in Transfers : store[t] \in Seq(Bodies[t])
            BY DEF Init
        <3> QED BY <3>1, <3>2, <3>3 DEF Init, TypeOK
    <2>2. StoreHasKeys
        BY DEF Init, StoreHasKeys
    <2>3. CallKnows /\ FinalizedIsVerified /\ ServedIsFinalized
        BY DEF Init, CallKnows, FinalizedIsVerified, ServedIsFinalized
    <2>4. Held = {} /\ slots = 0
        BY DEF Init, Held
    <2>5. SlotsAreHeld
        BY <2>4, FS_EmptySet DEF SlotsAreHeld, Held
    <2> QED BY <2>1, <2>2, <2>3, <2>5 DEF ArtifactsInv
<1>2. TypeOK /\ ArtifactsInv /\ SlotsAreHeld /\ [Next]_vars => (TypeOK /\ ArtifactsInv /\ SlotsAreHeld)'
    BY TypeStep, InvStep, EveryCallMoves, SlotStep DEF CallStep
<1> QED BY <1>1, <1>2, PTL DEF Spec

\* Every variable keeps its type, the slots their bound.
THEOREM ArtifactsTypes == Spec => []TypeOK
BY ArtifactsInvariant, PTL

\* No slot of the archive check is lost, on any path of any call.
THEOREM NoSlotIsLost == Spec => []SlotsAreHeld
BY ArtifactsInvariant, PTL

\* What a stage binds or a reader may fetch was verified, and is for good
\* the version the transfer was finalized with.
THEOREM ServedWasVerified == Spec => []ServedIsVerified
<1>1. TypeOK /\ ArtifactsInv => ServedIsVerified
    <2> SUFFICES ASSUME TypeOK, ArtifactsInv, NEW s \in served
                 PROVE  /\ xfer[s[1]].state = "finalized" /\ xfer[s[1]].version = s[2]
                        /\ store[s[1]][s[2]] = "exact"
                        /\ Bytes[s[1]] # "escape" /\ (s[1] \in Checked => Bytes[s[1]] = "contained")
        BY DEF ServedIsVerified
    <2>1. s[1] \in Transfers /\ xfer[s[1]].state = "finalized" /\ xfer[s[1]].version = s[2]
        BY DEF TypeOK, ArtifactsInv, ServedIsFinalized
    <2>2. Verified(s[1], s[2])
        BY <2>1 DEF ArtifactsInv, FinalizedIsVerified
    <2> QED BY <2>1, <2>2 DEF Verified
<1> QED BY <1>1, ArtifactsInvariant, PTL

\* Verification outside the locks commits nothing its scope no longer
\* allows.
THEOREM CommitsStayInScope == Spec => CommitsInScope
<1> DEFINE InScope ==
        \A t \in Transfers : xfer[t].state # "finalized" /\ xfer'[t].state = "finalized" =>
            t \notin late /\ (Binding[t] # "none" => ~op.fenced /\ xfer[t].epoch = op.epoch)
            /\ (Binding[t] = "attempt" => attempt.state = "running")
<1>1. TypeOK /\ [Next]_vars => [InScope]_vars
    <2> SUFFICES ASSUME TypeOK, Next PROVE InScope
        OBVIOUS
    <2>1. \A t \in Transfers : xfer[t].state # "finalized" /\ xfer'[t].state = "finalized" => Finalizable(t)
        BY EveryTransferMoves DEF TransferMoves
    <2> QED BY <2>1 DEF Finalizable, Current, ScopeOpen
<1> QED BY <1>1, ArtifactsTypes, PTL DEF Spec, CommitsInScope
=============================================================================
