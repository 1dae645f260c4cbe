------------------------- MODULE PublicationProofs -------------------------
(***************************************************************************)
(* The guarded mutations and the release for every value of the constants: *)
(* type correctness (no mutation is performed twice), the order of what is *)
(* published upstream, the projection that never claims more than          *)
(* happened, and the refinement of GuardedWrite.                           *)
(***************************************************************************)
EXTENDS Publication, TLAPS

EffectRow == [state : EffectStates, inventory : {None, "pending", "uncertain", "confirmed"},
              subject : Subjects \cup {None}]
WorldRow == [sent : 0..1, result : {None, "applied", "refused"}]
RequestStates == {"idle", "put", "mark", "permit", "granted"}

\* The states of an effect that was permitted and not withdrawn.
Issued == {"permitted", "unknown", "succeeded", "failed"}

\* A permit in a caller's hands is of an unresolved effect that was not
\* performed, and is the only one of it.
GrantIsSingle ==
    /\ \A q \in Requests : req[q] = "granted" => Unresolved(EffectOf[q]) /\ world[EffectOf[q]].sent = 0
    /\ \A q1, q2 \in Requests :
            req[q1] = "granted" /\ req[q2] = "granted" /\ EffectOf[q1] = EffectOf[q2] => q1 = q2

\* A request asks for its permit only after its obligation was kept.
PermitIsKept == \A q \in Requests : req[q] = "permit" => EffectOf[q] \in kept

\* What was performed was permitted, and only that has a result.
PerformedIsIssued ==
    \A e \in Effects : /\ world[e].sent = 1 => effect[e].state \in Issued
                       /\ (world[e].sent = 0) = (world[e].result = None)

\* A definite outcome of the ledger is what happened.
OutcomeIsTrue ==
    \A e \in Effects : /\ effect[e].state = "succeeded" => world[e].result = "applied"
                       /\ effect[e].state = "failed" => world[e].result = "refused"

\* What authorized a permit outlives it.
AuthorityHolds ==
    /\ \A t \in {"npm", "browser"} : effect[t].state \in Issued => CheckReviewEffect(effect[t].subject)
    /\ effect["activation"].state \in Issued =>
            \A t \in {"npm", "browser"} : CheckTargetEffect(t, effect["activation"].subject)

\* The projection is backed by the ledger, and the identity of its subject
\* is bound.
LedgerBacksRelease ==
    /\ \A t \in Targets : rel[t] # "pending" => rel.subject # None
    /\ \A t \in Targets : rel[t] = "succeeded" => CheckTargetEffect(t, rel.subject)
    /\ rel.state \in {"published", "activated"} => Published(rel)
    /\ rel.state # None => lineage # None
    /\ rel.subject # None => rel.state # None /\ IdentityOf[rel.subject] = lineage

(***************************************************************************)
(* The inductive invariant.  UpstreamInOrder and ReleaseIsBacked speak of  *)
(* the world; neither a permit nor a record reads it.  They read the       *)
(* ledger, so the invariant says that a definite outcome of the ledger is  *)
(* true (OutcomeIsTrue) and that what a permit or a record relied on is    *)
(* still there after it (AuthorityHolds, LedgerBacksRelease).              *)
(***************************************************************************)
PublicationInv ==
    /\ GrantIsSingle
    /\ PermitIsKept
    /\ PerformedIsIssued
    /\ OutcomeIsTrue
    /\ AuthorityHolds
    /\ LedgerBacksRelease

-----------------------------------------------------------------------------
(* What a step may do to one effect.                                       *)

Becomes(e, s) == effect'[e].state = s /\ effect'[e].subject = effect[e].subject

\* Mutations, reports, dispositions and retries move an effect only so.
EffectMoves(e) ==
    \/ Becomes(e, effect[e].state)
    \/ effect[e].state = None /\ effect'[e].state \in {"prepared", "denied"}
    \/ effect[e].state = "prepared" /\ Becomes(e, "denied")
    \/ effect[e].state = "prepared" /\ Becomes(e, "permitted") /\ CheckReleaseEffect(e, effect[e].subject)
    \/ Unresolved(e) /\ Becomes(e, "unknown")
    \/ Unresolved(e) /\ Becomes(e, "succeeded") /\ world[e].result = "applied"
    \/ Unresolved(e) /\ Becomes(e, "failed") /\ world[e].result = "refused"
    \/ effect[e].state \in {"prepared", "permitted", "unknown"} /\ Becomes(e, "confirmed_not_sent")
       /\ world[e].sent = 0 /\ \A q \in Requests : EffectOf[q] = e => req[q] # "granted"

\* The effects a request may ask for, and the ones the release names.
LEMMA Bindings ==
    /\ \A q \in Requests : EffectOf[q] \in Effects
    /\ \A t \in Targets : t \in Effects
    /\ "review" \in Effects /\ Source \in Effects
BY PublicationAssumption DEF Effects, ReleaseEffects, Targets

\* A step that leaves the ledger alone moves no effect.
LEMMA StillMoves ==
    ASSUME UNCHANGED effect, NEW e PROVE EffectMoves(e)
BY DEF EffectMoves, Becomes

\* The first transaction of Prepare.
LEMMA PrepareMoves ==
    ASSUME TypeOK, NEW q \in Requests, NEW s \in Subjects \cup {None}, Prepare(q, s), NEW e \in Effects
    PROVE  EffectMoves(e) /\ effect' \in [Effects -> EffectRow]
<1>1. effect \in [Effects -> EffectRow] /\ EffectOf[q] \in Effects
    BY Bindings DEF TypeOK, EffectRow
<1>2. CASE UNCHANGED effect
    BY <1>1, <1>2, StillMoves
<1>3. CASE /\ effect[EffectOf[q]].state = None
           /\ \E row \in {NewEffect(s), DeniedEffect(s)} : effect' = [effect EXCEPT ![EffectOf[q]] = row]
    <2>1. NewEffect(s) \in EffectRow /\ DeniedEffect(s) \in EffectRow
        BY DEF NewEffect, DeniedEffect, EffectRow, EffectStates
    <2>2. effect' \in [Effects -> EffectRow]
        BY <1>1, <1>3, <2>1
    <2>3. EffectMoves(e)
        BY <1>1, <1>3, <2>1 DEF EffectMoves, Becomes, NewEffect, DeniedEffect
    <2> QED BY <2>2, <2>3
<1> QED BY <1>2, <1>3 DEF Prepare, EffectByCommand

\* The mark of an inventory write that did not answer.
LEMMA MarkMoves ==
    ASSUME TypeOK, NEW q \in Requests, MarkInventoryUncertain(q), NEW e \in Effects
    PROVE  EffectMoves(e) /\ effect' \in [Effects -> EffectRow]
<1>1. effect \in [Effects -> EffectRow] /\ EffectOf[q] \in Effects
    BY Bindings DEF TypeOK, EffectRow
<1>2. CASE UNCHANGED effect
    BY <1>1, <1>2, StillMoves
<1>3. CASE effect' = [effect EXCEPT ![EffectOf[q]].inventory = "uncertain"]
    <2>1. effect' \in [Effects -> EffectRow]
        BY <1>1, <1>3 DEF EffectRow
    <2>2. Becomes(e, effect[e].state)
        BY <1>1, <1>3 DEF EffectRow, Becomes
    <2> QED BY <2>1, <2>2 DEF EffectMoves
<1> QED BY <1>2, <1>3 DEF MarkInventoryUncertain

\* The second transaction.
LEMMA PermitMoves ==
    ASSUME TypeOK, NEW q \in Requests, Permit(q), NEW e \in Effects
    PROVE  EffectMoves(e) /\ effect' \in [Effects -> EffectRow]
<1>1. effect \in [Effects -> EffectRow] /\ EffectOf[q] \in Effects
    BY Bindings DEF TypeOK, EffectRow
<1>2. CASE UNCHANGED effect
    BY <1>1, <1>2, StillMoves
<1>3. CASE /\ effect[EffectOf[q]].state = "prepared" /\ CheckEffect(EffectOf[q], effect[EffectOf[q]].subject)
           /\ effect' = [effect EXCEPT ![EffectOf[q]] = PermitEffect(EffectOf[q])]
    <2>1. /\ PermitEffect(EffectOf[q]).state = "permitted"
          /\ PermitEffect(EffectOf[q]).subject = effect[EffectOf[q]].subject
        BY <1>1 DEF PermitEffect, EffectRow
    <2>2. PermitEffect(EffectOf[q]) \in EffectRow
        <3>1. effect[EffectOf[q]] \in EffectRow /\ "permitted" \in EffectStates
            BY <1>1 DEF EffectStates
        <3> QED BY <3>1 DEF PermitEffect, EffectRow
    <2>3. effect' \in [Effects -> EffectRow]
        BY <1>1, <1>3, <2>2
    <2>4. EffectMoves(e)
        BY <1>1, <1>3, <2>1 DEF EffectMoves, Becomes, CheckEffect
    <2> QED BY <2>3, <2>4
<1>4. CASE /\ effect[EffectOf[q]].state = "prepared"
           /\ effect' = [effect EXCEPT ![EffectOf[q]] = DenyEffect(EffectOf[q])]
    <2>1. /\ DenyEffect(EffectOf[q]).state = "denied"
          /\ DenyEffect(EffectOf[q]).subject = effect[EffectOf[q]].subject
        BY <1>1 DEF DenyEffect, EffectRow
    <2>2. DenyEffect(EffectOf[q]) \in EffectRow
        <3>1. effect[EffectOf[q]] \in EffectRow /\ "denied" \in EffectStates
            BY <1>1 DEF EffectStates
        <3> QED BY <3>1 DEF DenyEffect, EffectRow
    <2>3. effect' \in [Effects -> EffectRow]
        BY <1>1, <1>4, <2>2
    <2>4. EffectMoves(e)
        BY <1>1, <1>4, <2>1 DEF EffectMoves, Becomes
    <2> QED BY <2>3, <2>4
<1> QED BY <1>2, <1>3, <1>4 DEF Permit

\* A report, of the workflow or of its query.
LEMMA ObserveMoves ==
    ASSUME TypeOK, NEW d \in Effects, NEW src \in Sources, Observe(d, src), NEW e \in Effects
    PROVE  EffectMoves(e) /\ effect' \in [Effects -> EffectRow] /\ obs' \in [Sources -> Outcomes \cup {None}]
<1>1. effect \in [Effects -> EffectRow]
    BY DEF TypeOK, EffectRow
<1>2. PICK o \in Reports(d) : /\ effect' = Observed(d, o)
                              /\ obs' = IF d = Source THEN [obs EXCEPT ![src] = o] ELSE obs
    BY DEF Observe
<1>3. /\ o \in {"unknown", "succeeded", "failed"}
      /\ o = "succeeded" => world[d].result = "applied"
      /\ o = "failed" => world[d].result = "refused"
    BY DEF Reports
<1>4. obs' \in [Sources -> Outcomes \cup {None}]
    BY <1>2, <1>3 DEF TypeOK, Outcomes
<1>5. CASE UNCHANGED effect
    BY <1>1, <1>4, <1>5, StillMoves
<1>6. CASE Unresolved(d) /\ effect' = [effect EXCEPT ![d].state = o]
    <2>1. effect' \in [Effects -> EffectRow]
        BY <1>1, <1>3, <1>6 DEF EffectRow, EffectStates
    <2>2. IF e = d THEN Becomes(e, o) ELSE Becomes(e, effect[e].state)
        BY <1>1, <1>6 DEF EffectRow, Becomes
    <2> QED BY <1>3, <1>4, <1>6, <2>1, <2>2 DEF EffectMoves
<1> QED BY <1>2, <1>5, <1>6 DEF Observed

\* The disposition of an effect that was not sent.
LEMMA NotSentMoves ==
    ASSUME TypeOK, NEW d \in Effects, ConfirmNotSent(d), NEW e \in Effects
    PROVE  EffectMoves(e) /\ effect' \in [Effects -> EffectRow]
<1>1. effect \in [Effects -> EffectRow]
    BY DEF TypeOK, EffectRow
<1>2. effect' = [effect EXCEPT ![d].state = "confirmed_not_sent"]
    BY DEF ConfirmNotSent
<1>3. effect' \in [Effects -> EffectRow]
    BY <1>1, <1>2 DEF EffectRow, EffectStates
<1>4. IF e = d THEN Becomes(e, "confirmed_not_sent") ELSE Becomes(e, effect[e].state)
    BY <1>1, <1>2 DEF EffectRow, Becomes
<1> QED BY <1>3, <1>4 DEF EffectMoves, ConfirmNotSent

\* Every step moves every effect along EffectMoves.
LEMMA EveryMove ==
    ASSUME TypeOK, [Next]_vars
    PROVE  (\A e \in Effects : EffectMoves(e)) /\ effect' \in [Effects -> EffectRow]
<1> SUFFICES ASSUME NEW e \in Effects PROVE EffectMoves(e) /\ effect' \in [Effects -> EffectRow]
    BY Bindings
<1>1. CASE UNCHANGED effect
    BY <1>1, StillMoves DEF TypeOK, EffectRow
<1>2. ASSUME NEW q \in Requests, Put(q) \/ Lose(q) \/ Perform(q) PROVE UNCHANGED effect
    BY <1>2 DEF Put, Lose, Perform
<1>3. ASSUME NEW o \in Ops, OpenChanges(o) PROVE UNCHANGED effect
    BY <1>3 DEF OpenChanges, effectVars
<1>4. ASSUME AcceptRelease \/ RecordRelease \/ (\E s \in Subjects : Certify(s)) PROVE UNCHANGED effect
    BY <1>4 DEF AcceptRelease, RecordRelease, Certify, effectVars
<1>5. ASSUME UNCHANGED vars PROVE UNCHANGED effect
    BY <1>5 DEF vars, effectVars
<1>6. ASSUME NEW d \in Effects, Observe(d, "workflow") \/ QueryOriginal(d)
      PROVE  EffectMoves(e) /\ effect' \in [Effects -> EffectRow]
    BY <1>6, ObserveMoves DEF QueryOriginal, Sources
<1> QED BY <1>1, <1>2, <1>3, <1>4, <1>5, <1>6, PrepareMoves, MarkMoves, PermitMoves, NotSentMoves DEF Next

-----------------------------------------------------------------------------
(* What a record of the release may change.                                *)

\* A record moves along ReleaseNext, keeps a recorded subject and definite
\* outcomes, and is consistent with the ledger it is checked against.
LEMMA RecordMoves ==
    ASSUME TypeOK, RecordRelease
    PROVE  /\ rel' \in Release /\ rel.state # None /\ rel'.state # None
           /\ rel'.subject \in SubjectsOf
           /\ \A t \in Targets : rel'[t] \in TargetsOf(t, rel'.subject)
           /\ Consistent(rel')
<1>1. rel \in Release
    BY DEF TypeOK
<1>2. PICK st \in ReleaseNext[rel.state], s \in SubjectsOf, a \in BOOLEAN :
      \E n \in TargetsOf("npm", s), b \in TargetsOf("browser", s), v \in TargetsOf("activation", s) :
        LET r == [state |-> st, subject |-> s, approved |-> a, npm |-> n, browser |-> b, activation |-> v]
        IN  Consistent(r) /\ r # rel /\ rel' = r
    BY DEF RecordRelease
<1>3. PICK n \in TargetsOf("npm", s), b \in TargetsOf("browser", s), v \in TargetsOf("activation", s) :
        /\ rel' = [state |-> st, subject |-> s, approved |-> a, npm |-> n, browser |-> b, activation |-> v]
        /\ Consistent(rel')
    BY <1>2
<1>4. rel.state # None /\ st \in ReleaseStates \ {None}
    <2>1. rel.state \in ReleaseStates
        BY <1>1 DEF Release
    <2> QED BY <2>1 DEF ReleaseNext, ReleaseStates, None
<1>5. s \in Subjects \cup {None}
    BY <1>1 DEF SubjectsOf, Release
<1>6. n \in TargetStates /\ b \in TargetStates /\ v \in TargetStates
    BY DEF TargetsOf, TargetStates
<1>7. rel' \in Release
    BY <1>3, <1>4, <1>5, <1>6 DEF Release
<1>8. \A t \in Targets : rel'[t] \in TargetsOf(t, s)
    BY <1>3 DEF Targets, ReleaseEffects
<1> QED BY <1>3, <1>4, <1>7, <1>8

-----------------------------------------------------------------------------
(* Type correctness, from the permits that are single.                     *)

\* The holder of a permit performs its effect for the first time.
LEMMA PerformOnce ==
    ASSUME TypeOK, PublicationInv, NEW q \in Requests, Perform(q)
    PROVE  /\ EffectOf[q] \in Effects /\ world[EffectOf[q]].sent = 0 /\ req[q] = "granted"
           /\ req' = [req EXCEPT ![q] = "idle"]
           /\ UNCHANGED <<open, effect, kept, obs, lineage, certified, rel>>
           /\ \E r \in {"applied", "refused"} : world' = [world EXCEPT ![EffectOf[q]] = [sent |-> 1, result |-> r]]
<1>1. EffectOf[q] \in Effects /\ world[EffectOf[q]].sent = 0 /\ req[q] = "granted"
    BY Bindings DEF Perform, PublicationInv, GrantIsSingle
<1>2. PICK r \in {"applied", "refused"} :
        world' = [world EXCEPT ![EffectOf[q]] = [sent |-> @.sent + 1, result |-> r]]
    BY DEF Perform
<1>3. world' = [world EXCEPT ![EffectOf[q]] = [sent |-> 1, result |-> r]]
    BY <1>1, <1>2
<1> QED BY <1>1, <1>3 DEF Perform

\* Every step keeps the types.
LEMMA TypeStep ==
    ASSUME TypeOK, PublicationInv, [Next]_vars
    PROVE  TypeOK'
<1>1. effect' \in [Effects -> EffectRow]
    BY EveryMove
<1>2. ASSUME NEW q \in Requests, NEW s \in Subjects \cup {None}, Prepare(q, s) PROVE TypeOK'
    <2>1. lineage' \in {Identity[c] : c \in Candidates} \cup {None}
        BY <1>2 DEF Prepare, InsertLineageIdentity, TypeOK
    <2>2. req' \in [Requests -> RequestStates]
        BY <1>2 DEF Prepare, RequestStates, TypeOK
    <2> QED BY <1>1, <1>2, <2>1, <2>2 DEF TypeOK, Prepare, EffectRow, RequestStates
<1>3. ASSUME NEW q \in Requests, Put(q) PROVE TypeOK'
    <2>1. kept' \subseteq Effects
        BY <1>3, Bindings DEF Put, TypeOK
    <2>2. req' \in [Requests -> RequestStates]
        BY <1>3 DEF Put, RequestStates, TypeOK
    <2> QED BY <1>1, <1>3, <2>1, <2>2 DEF TypeOK, Put, EffectRow, RequestStates
<1>4. ASSUME NEW q \in Requests, MarkInventoryUncertain(q) \/ Permit(q) \/ Lose(q) PROVE TypeOK'
    <2>1. req' \in [Requests -> RequestStates]
        BY <1>4 DEF MarkInventoryUncertain, Permit, Lose, RequestStates, TypeOK
    <2> QED BY <1>1, <1>4, <2>1 DEF TypeOK, MarkInventoryUncertain, Permit, Lose, EffectRow, RequestStates
<1>5. ASSUME NEW q \in Requests, Perform(q) PROVE TypeOK'
    <2>3. world' \in [Effects -> WorldRow]
        BY <1>5, PerformOnce DEF TypeOK, WorldRow
    <2>4. req' \in [Requests -> RequestStates]
        BY <1>5 DEF Perform, RequestStates, TypeOK
    <2> QED BY <1>1, <1>5, <2>3, <2>4 DEF TypeOK, Perform, EffectRow, WorldRow, RequestStates
<1>6. ASSUME NEW d \in Effects, Observe(d, "workflow") \/ QueryOriginal(d) PROVE TypeOK'
    <2>1. PICK src \in Sources : Observe(d, src)
        BY <1>6 DEF QueryOriginal, Sources
    <2>2. obs' \in [Sources -> Outcomes \cup {None}]
        BY <2>1, ObserveMoves
    <2> QED BY <1>1, <2>1, <2>2 DEF TypeOK, Observe, EffectRow
<1>7. ASSUME NEW d \in Effects, ConfirmNotSent(d) PROVE TypeOK'
    BY <1>1, <1>7 DEF TypeOK, ConfirmNotSent, EffectRow
<1>8. ASSUME NEW o \in Ops, OpenChanges(o) PROVE TypeOK'
    <2>1. open' \in [Ops -> BOOLEAN]
        BY <1>8 DEF OpenChanges, TypeOK
    <2> QED BY <1>8, <2>1 DEF TypeOK, OpenChanges, effectVars
<1>9. CASE AcceptRelease
    <2>1. rel \in Release /\ rel' = [rel EXCEPT !.state = "accepted"] /\ "accepted" \in ReleaseStates
        BY <1>9 DEF AcceptRelease, TypeOK, ReleaseStates
    <2>2. rel' \in Release
        BY <2>1 DEF Release
    <2> QED BY <1>9, <2>2 DEF TypeOK, AcceptRelease, effectVars
<1>10. CASE RecordRelease
    BY <1>10, RecordMoves DEF TypeOK, RecordRelease, effectVars
<1>11. ASSUME NEW s \in Subjects, Certify(s) PROVE TypeOK'
    BY <1>11 DEF TypeOK, Certify, effectVars
<1>12. CASE UNCHANGED vars
    BY <1>12 DEF TypeOK, vars, effectVars
<1> QED BY <1>2, <1>3, <1>4, <1>5, <1>6, <1>7, <1>8, <1>9, <1>10, <1>11, <1>12 DEF Next

-----------------------------------------------------------------------------
(* The invariant is inductive: one lemma per part.                         *)

\* How the world changes: it does not, or the holder of a permit performs.
WorldMoves(e) ==
    \/ world'[e] = world[e]
    \/ /\ \E q \in Requests : /\ EffectOf[q] = e /\ req[q] = "granted" /\ req'[q] = "idle"
                              /\ \A p \in Requests : p # q => req'[p] = req[p]
       /\ world'[e].sent = 1 /\ world'[e].result \in {"applied", "refused"}
       /\ UNCHANGED effect

\* Only a request performs a mutation.
LEMMA WorldMove ==
    ASSUME TypeOK, PublicationInv, [Next]_vars, NEW e \in Effects
    PROVE  WorldMoves(e)
<1>1. CASE UNCHANGED world
    BY <1>1 DEF WorldMoves
<1>2. ASSUME NEW q \in Requests, Perform(q) PROVE WorldMoves(e)
    <2>1. PICK r \in {"applied", "refused"} : world' = [world EXCEPT ![EffectOf[q]] = [sent |-> 1, result |-> r]]
        BY <1>2, PerformOnce
    <2>2. /\ EffectOf[q] \in Effects /\ req[q] = "granted" /\ req'[q] = "idle" /\ UNCHANGED effect
          /\ \A p \in Requests : p # q => req'[p] = req[p]
        BY <1>2, PerformOnce DEF TypeOK
    <2> QED BY <2>1, <2>2 DEF TypeOK, WorldMoves
<1>3. ASSUME NEW q \in Requests, \/ \E s \in Subjects \cup {None} : Prepare(q, s)
                                 \/ Put(q) \/ MarkInventoryUncertain(q) \/ Permit(q) \/ Lose(q)
      PROVE  UNCHANGED world
    BY <1>3 DEF Prepare, Put, MarkInventoryUncertain, Permit, Lose
<1>4. ASSUME NEW d \in Effects, Observe(d, "workflow") \/ QueryOriginal(d) \/ ConfirmNotSent(d) PROVE UNCHANGED world
    BY <1>4 DEF Observe, QueryOriginal, ConfirmNotSent
<1>5. ASSUME \/ UNCHANGED vars \/ AcceptRelease \/ RecordRelease
             \/ (\E o \in Ops : OpenChanges(o)) \/ (\E s \in Subjects : Certify(s))
      PROVE  UNCHANGED world
    BY <1>5 DEF vars, effectVars, AcceptRelease, RecordRelease, OpenChanges, Certify
<1> QED BY <1>1, <1>2, <1>3, <1>4, <1>5 DEF Next

\* A request is granted by the one step that takes its effect out of
\* prepared, and asks for its permit after it kept its obligation.
RequestMoves(q) ==
    \/ req'[q] = req[q]
    \/ req'[q] \in {"idle", "put", "mark"}
    \/ req'[q] = "permit" /\ EffectOf[q] \in kept'
    \/ /\ req'[q] = "granted" /\ effect[EffectOf[q]].state = "prepared" /\ effect'[EffectOf[q]].state = "permitted"
       /\ UNCHANGED world /\ \A p \in Requests : p # q => req'[p] = req[p]

\* Every step moves every request along RequestMoves, and forgets nothing
\* of the inventory.
LEMMA RequestMove ==
    ASSUME TypeOK, [Next]_vars
    PROVE  kept \subseteq kept' /\ \A q \in Requests : RequestMoves(q)
<1>0. req \in [Requests -> RequestStates]
    BY DEF TypeOK, RequestStates
<1>1. CASE UNCHANGED <<req, kept>>
    BY <1>1 DEF RequestMoves
<1>2. ASSUME NEW p \in Requests, NEW s \in Subjects \cup {None}, Prepare(p, s)
      PROVE  kept \subseteq kept' /\ \A q \in Requests : RequestMoves(q)
    BY <1>0, <1>2 DEF Prepare, RequestMoves
<1>3. ASSUME NEW p \in Requests, Put(p)
      PROVE  kept \subseteq kept' /\ \A q \in Requests : RequestMoves(q)
    BY <1>0, <1>3 DEF Put, RequestMoves
<1>4. ASSUME NEW p \in Requests, MarkInventoryUncertain(p) \/ Lose(p) \/ Perform(p)
      PROVE  kept \subseteq kept' /\ \A q \in Requests : RequestMoves(q)
    BY <1>0, <1>4 DEF MarkInventoryUncertain, Lose, Perform, RequestMoves
<1>5. ASSUME NEW p \in Requests, Permit(p)
      PROVE  kept \subseteq kept' /\ \A q \in Requests : RequestMoves(q)
    <2>1. /\ UNCHANGED <<kept, world>>
          /\ \E l \in {"granted", "idle"} : req' = [req EXCEPT ![p] = l]
        BY <1>5 DEF Permit
    <2>2. req'[p] = "granted" => /\ effect[EffectOf[p]].state = "prepared"
                                 /\ effect' = [effect EXCEPT ![EffectOf[p]] = PermitEffect(EffectOf[p])]
        BY <1>0, <1>5 DEF Permit
    <2>3. effect \in [Effects -> EffectRow] /\ EffectOf[p] \in Effects
        BY Bindings DEF TypeOK, EffectRow
    <2>4. req'[p] = "granted" => effect'[EffectOf[p]].state = "permitted"
        <3>1. PermitEffect(EffectOf[p]).state = "permitted"
            BY <2>3 DEF PermitEffect, EffectRow
        <3> QED BY <2>2, <2>3, <3>1
    <2> QED BY <1>0, <2>1, <2>2, <2>4 DEF RequestMoves
<1>6. ASSUME NEW d \in Effects, Observe(d, "workflow") \/ QueryOriginal(d) \/ ConfirmNotSent(d)
      PROVE  UNCHANGED <<req, kept>>
    BY <1>6 DEF Observe, QueryOriginal, ConfirmNotSent
<1>7. ASSUME \/ UNCHANGED vars \/ AcceptRelease \/ RecordRelease
             \/ (\E o \in Ops : OpenChanges(o)) \/ (\E s \in Subjects : Certify(s))
      PROVE  UNCHANGED <<req, kept>>
    BY <1>7 DEF vars, effectVars, AcceptRelease, RecordRelease, OpenChanges, Certify
<1> QED BY <1>1, <1>2, <1>3, <1>4, <1>5, <1>6, <1>7 DEF Next

\* The shape of the steps that the parts below are proved from.
LEMMA StepShape ==
    ASSUME TypeOK, PublicationInv, [Next]_vars
    PROVE  /\ \A e \in Effects : EffectMoves(e) /\ WorldMoves(e)
           /\ \A q \in Requests : RequestMoves(q) /\ EffectOf[q] \in Effects
           /\ kept \subseteq kept'
           /\ \A e \in Effects : world[e] \in WorldRow
<1>1. \A e \in Effects : world[e] \in WorldRow
    BY DEF TypeOK, WorldRow
<1> QED BY <1>1, EveryMove, WorldMove, RequestMove, Bindings

\* Permits stay single: one is granted by the step that ends prepared.
LEMMA GrantStep ==
    ASSUME TypeOK, PublicationInv, [Next]_vars
    PROVE  GrantIsSingle'
<1>1. ASSUME NEW q \in Requests, req'[q] = "granted", req[q] = "granted"
      PROVE  effect'[EffectOf[q]].state \in {"permitted", "unknown"} /\ world'[EffectOf[q]].sent = 0
    <2>1. /\ EffectMoves(EffectOf[q]) /\ WorldMoves(EffectOf[q]) /\ EffectOf[q] \in Effects
          /\ Unresolved(EffectOf[q]) /\ world[EffectOf[q]].sent = 0 /\ world[EffectOf[q]].result = None
        BY <1>1, StepShape DEF PublicationInv, GrantIsSingle, PerformedIsIssued
    <2>2. world'[EffectOf[q]] = world[EffectOf[q]]
        BY <1>1, <2>1 DEF WorldMoves, PublicationInv, GrantIsSingle
    <2>3. effect'[EffectOf[q]].state \in {"permitted", "unknown"}
        BY <1>1, <2>1 DEF EffectMoves, Becomes, Unresolved, None
    <2> QED BY <2>1, <2>2, <2>3
<1>2. ASSUME NEW q \in Requests, req'[q] = "granted", req[q] # "granted"
      PROVE  /\ effect[EffectOf[q]].state = "prepared" /\ effect'[EffectOf[q]].state = "permitted"
             /\ world'[EffectOf[q]].sent = 0 /\ \A p \in Requests : p # q => req'[p] = req[p]
    <2>1. RequestMoves(q) /\ EffectOf[q] \in Effects /\ world[EffectOf[q]] \in WorldRow
        BY StepShape
    <2>2. world[EffectOf[q]].sent # 1 => world[EffectOf[q]].sent = 0
        BY <2>1 DEF WorldRow
    <2> QED BY <1>2, <2>1, <2>2 DEF RequestMoves, PublicationInv, PerformedIsIssued, Issued
<1>3. ASSUME NEW q1 \in Requests, NEW q2 \in Requests,
             req'[q1] = "granted", req'[q2] = "granted", EffectOf[q1] = EffectOf[q2]
      PROVE  q1 = q2
    <2>1. CASE req[q1] = "granted" /\ req[q2] = "granted"
        BY <1>3, <2>1 DEF PublicationInv, GrantIsSingle
    <2>2. CASE req[q1] # "granted"
        BY <1>2, <1>3, <2>2 DEF PublicationInv, GrantIsSingle, Unresolved
    <2>3. CASE req[q2] # "granted"
        BY <1>2, <1>3, <2>3 DEF PublicationInv, GrantIsSingle, Unresolved
    <2> QED BY <2>1, <2>2, <2>3
<1> QED BY <1>1, <1>2, <1>3 DEF GrantIsSingle, Unresolved

\* What was performed stays issued, and the ledger stays true.
LEMMA OutcomeStep ==
    ASSUME TypeOK, PublicationInv, [Next]_vars
    PROVE  PerformedIsIssued' /\ OutcomeIsTrue'
<1> SUFFICES ASSUME NEW e \in Effects
             PROVE  /\ world'[e].sent = 1 => effect'[e].state \in Issued
                    /\ (world'[e].sent = 0) = (world'[e].result = None)
                    /\ effect'[e].state = "succeeded" => world'[e].result = "applied"
                    /\ effect'[e].state = "failed" => world'[e].result = "refused"
    BY DEF PerformedIsIssued, OutcomeIsTrue
<1>1. EffectMoves(e) /\ WorldMoves(e)
    BY StepShape
<1>2. /\ world[e].sent = 1 => effect[e].state \in Issued
      /\ (world[e].sent = 0) = (world[e].result = None)
      /\ effect[e].state = "succeeded" => world[e].result = "applied"
      /\ effect[e].state = "failed" => world[e].result = "refused"
    BY DEF PublicationInv, PerformedIsIssued, OutcomeIsTrue
<1>3. CASE world'[e] = world[e]
    BY <1>1, <1>2, <1>3 DEF EffectMoves, Becomes, Unresolved, Issued, None
<1>4. CASE /\ \E q \in Requests : EffectOf[q] = e /\ req[q] = "granted"
           /\ world'[e].sent = 1 /\ world'[e].result \in {"applied", "refused"}
           /\ UNCHANGED effect
    <2>1. effect'[e].state \in {"permitted", "unknown"}
        BY <1>4 DEF PublicationInv, GrantIsSingle, Unresolved
    <2> QED BY <1>4, <2>1 DEF Issued, None
<1> QED BY <1>1, <1>3, <1>4 DEF WorldMoves

\* What authorized a permit stays: a succeeded effect never changes.
LEMMA AuthorityStep ==
    ASSUME TypeOK, PublicationInv, [Next]_vars
    PROVE  AuthorityHolds'
<1>1. \A e \in Effects : effect[e].state = "succeeded" => Becomes(e, "succeeded")
    BY StepShape DEF EffectMoves, Unresolved, None
<1>2. \A e \in Effects : effect'[e].state \in Issued =>
            /\ effect'[e].subject = effect[e].subject
            /\ effect[e].state \in Issued \/ CheckReleaseEffect(e, effect[e].subject)
    BY StepShape DEF EffectMoves, Becomes, Unresolved, Issued
<1>3. ASSUME NEW t \in {"npm", "browser"}, effect'[t].state \in Issued
      PROVE  effect'["review"].state = "succeeded" /\ effect'["review"].subject = effect'[t].subject
    <2>1. CheckReviewEffect(effect[t].subject) /\ t \in Effects /\ "review" \in Effects
        BY <1>2, <1>3, Bindings DEF PublicationInv, AuthorityHolds, CheckReleaseEffect, Targets, ReleaseEffects
    <2> QED BY <1>1, <1>2, <1>3, <2>1 DEF CheckReviewEffect, Becomes
<1>4. ASSUME effect'["activation"].state \in Issued, NEW t \in {"npm", "browser"}
      PROVE  effect'[t].state = "succeeded" /\ effect'[t].subject = effect'["activation"].subject
    <2>1. CheckTargetEffect(t, effect["activation"].subject) /\ t \in Effects /\ "activation" \in Effects
        BY <1>2, <1>4, Bindings DEF PublicationInv, AuthorityHolds, CheckReleaseEffect, Targets, ReleaseEffects
    <2> QED BY <1>1, <1>2, <1>4, <2>1 DEF CheckTargetEffect, Becomes
<1> QED BY <1>3, <1>4 DEF AuthorityHolds, CheckReviewEffect, CheckTargetEffect

\* A bound lineage keeps its identity, and only an acceptance or a record
\* changes the release.
LEMMA ReleaseMoves ==
    ASSUME [Next]_vars
    PROVE  /\ lineage # None => UNCHANGED lineage
           /\ UNCHANGED rel \/ AcceptRelease \/ RecordRelease
<1>1. ASSUME NEW q \in Requests, NEW s \in Subjects \cup {None}, Prepare(q, s)
      PROVE  (lineage # None => UNCHANGED lineage) /\ UNCHANGED rel
    BY <1>1 DEF Prepare, InsertLineageIdentity
<1>2. ASSUME NEW q \in Requests, Put(q) \/ MarkInventoryUncertain(q) \/ Permit(q) \/ Lose(q) \/ Perform(q)
      PROVE  UNCHANGED <<lineage, rel>>
    BY <1>2 DEF Put, MarkInventoryUncertain, Permit, Lose, Perform
<1>3. ASSUME NEW d \in Effects, Observe(d, "workflow") \/ QueryOriginal(d) \/ ConfirmNotSent(d)
      PROVE  UNCHANGED <<lineage, rel>>
    BY <1>3 DEF Observe, QueryOriginal, ConfirmNotSent
<1>4. ASSUME UNCHANGED vars \/ (\E o \in Ops : OpenChanges(o)) \/ (\E s \in Subjects : Certify(s))
      PROVE  UNCHANGED <<lineage, rel>>
    BY <1>4 DEF vars, effectVars, OpenChanges, Certify
<1>5. ASSUME AcceptRelease \/ RecordRelease PROVE UNCHANGED lineage
    BY <1>5 DEF AcceptRelease, RecordRelease, effectVars
<1> QED BY <1>1, <1>2, <1>3, <1>4, <1>5 DEF Next

\* The release stays backed by the ledger.
LEMMA LedgerStep ==
    ASSUME TypeOK, PublicationInv, [Next]_vars
    PROVE  LedgerBacksRelease'
<1>1. /\ \A t \in Targets : rel[t] # "pending" => rel.subject # None
      /\ \A t \in Targets : rel[t] = "succeeded" => CheckTargetEffect(t, rel.subject)
      /\ rel.state \in {"published", "activated"} => Published(rel)
      /\ rel.state # None => lineage # None
      /\ rel.subject # None => rel.state # None /\ IdentityOf[rel.subject] = lineage
    BY DEF PublicationInv, LedgerBacksRelease
<1>2. CASE UNCHANGED rel
    <2>1. \A t \in Targets : effect[t].state = "succeeded" =>
                effect'[t].state = "succeeded" /\ effect'[t].subject = effect[t].subject
        BY StepShape, Bindings DEF EffectMoves, Becomes, Unresolved, None
    <2>2. rel.state # None => UNCHANGED lineage
        BY <1>1, ReleaseMoves
    <2>3. \A t \in Targets : rel[t] = "succeeded" =>
                effect'[t].state = "succeeded" /\ effect'[t].subject = rel.subject
        BY <1>1, <2>1 DEF CheckTargetEffect
    <2> QED BY <1>1, <1>2, <2>2, <2>3 DEF LedgerBacksRelease, CheckTargetEffect, Published, Approved
<1>3. CASE AcceptRelease
    <2>1. /\ rel \in Release /\ rel.state = None /\ lineage # None /\ UNCHANGED <<effect, lineage>>
          /\ rel' = [rel EXCEPT !.state = "accepted"]
        BY <1>3 DEF AcceptRelease, TypeOK, effectVars
    <2>2. /\ rel'.state = "accepted" /\ rel'.subject = rel.subject
          /\ rel'.npm = rel.npm /\ rel'.browser = rel.browser /\ rel'.activation = rel.activation
        BY <2>1 DEF Release
    <2>3. \A t \in Targets : rel'[t] = rel[t]
        BY <2>2 DEF Targets, ReleaseEffects
    <2>4. rel.subject = None
        BY <1>1, <2>1
    <2> QED BY <1>1, <2>1, <2>2, <2>3, <2>4 DEF LedgerBacksRelease, CheckTargetEffect, None
<1>4. CASE RecordRelease
    <2>1. /\ rel' \in Release /\ rel.state # None /\ rel'.state # None /\ rel'.subject \in SubjectsOf
          /\ \A t \in Targets : rel'[t] \in TargetsOf(t, rel'.subject)
          /\ Consistent(rel')
        BY <1>4, RecordMoves
    <2>2. UNCHANGED <<effect, lineage>>
        BY <1>4 DEF RecordRelease, effectVars
    <2>3. /\ \A t \in Targets : rel'[t] # "pending" => rel'.subject # None
          /\ rel'.state \in {"published", "activated"} => Published(rel')
        BY <2>1 DEF Consistent, Approved
    <2>4. ASSUME NEW t \in Targets, rel'[t] = "succeeded" PROVE CheckTargetEffect(t, rel'.subject)
        <3>1. CASE rel[t] \in {"succeeded", "failed"}
            <4>1. rel[t] = "succeeded" /\ rel.subject # None
                BY <1>1, <2>1, <2>4, <3>1 DEF TargetsOf
            <4>2. rel'.subject = rel.subject
                BY <2>1, <4>1 DEF SubjectsOf
            <4> QED BY <1>1, <4>1, <4>2
        <3>2. CASE rel[t] \notin {"succeeded", "failed"}
            BY <2>1, <2>4, <3>2 DEF TargetsOf
        <3> QED BY <3>1, <3>2
    <2>5. rel'.subject # None => IdentityOf[rel'.subject] = lineage
        BY <1>1, <2>1 DEF SubjectsOf, CheckSubject
    <2> QED BY <1>1, <2>1, <2>2, <2>3, <2>4, <2>5 DEF LedgerBacksRelease, CheckTargetEffect, Published, Approved
<1> QED BY <1>2, <1>3, <1>4, ReleaseMoves

-----------------------------------------------------------------------------
(* The theorems.                                                           *)

\* The invariant holds of every behaviour, with the types it needs.
THEOREM PublicationInvariant == Spec => [](TypeOK /\ PublicationInv)
<1>1. Init => TypeOK /\ PublicationInv
    <2> SUFFICES ASSUME Init PROVE TypeOK /\ PublicationInv
        OBVIOUS
    <2>1. TypeOK
        BY DEF Init, TypeOK, EffectStates, Release, ReleaseStates, TargetStates
    <2>2. GrantIsSingle /\ PermitIsKept /\ PerformedIsIssued /\ OutcomeIsTrue
        BY Bindings DEF Init, GrantIsSingle, PermitIsKept, PerformedIsIssued, OutcomeIsTrue, None
    <2>3. AuthorityHolds
        BY Bindings DEF Init, AuthorityHolds, Issued, Targets, ReleaseEffects, None
    <2>4. LedgerBacksRelease
        BY DEF Init, LedgerBacksRelease, Targets, ReleaseEffects, None
    <2> QED BY <2>1, <2>2, <2>3, <2>4 DEF PublicationInv
<1>2. TypeOK /\ PublicationInv /\ [Next]_vars => (TypeOK /\ PublicationInv)'
    <2> SUFFICES ASSUME TypeOK, PublicationInv, [Next]_vars PROVE TypeOK' /\ PublicationInv'
        OBVIOUS
    <2>1. PermitIsKept'
        BY StepShape DEF RequestMoves, PublicationInv, PermitIsKept
    <2> QED BY <2>1, TypeStep, GrantStep, OutcomeStep, AuthorityStep, LedgerStep DEF PublicationInv
<1> QED BY <1>1, <1>2, PTL DEF Spec

\* Every variable keeps its type, and no mutation is performed twice.
THEOREM PublicationTypes == Spec => []TypeOK
BY PublicationInvariant, PTL

\* What is published upstream is one reviewed subject, and what is
\* activated is what was published.
THEOREM UpstreamOrder == Spec => []UpstreamInOrder
<1>1. TypeOK /\ PublicationInv => UpstreamInOrder
    <2> SUFFICES ASSUME TypeOK, PublicationInv PROVE UpstreamInOrder
        OBVIOUS
    <2>1. ASSUME NEW e \in Effects, Applied(e) PROVE effect[e].state \in Issued
        <3>1. world[e] \in WorldRow
            BY DEF TypeOK, WorldRow
        <3>2. world[e].sent = 1
            BY <2>1, <3>1 DEF PublicationInv, PerformedIsIssued, Applied, WorldRow, None
        <3> QED BY <3>2 DEF PublicationInv, PerformedIsIssued
    <2>2. \A e \in Effects : effect[e].state = "succeeded" => Applied(e)
        BY DEF PublicationInv, OutcomeIsTrue, Applied
    <2>3. {"review", "npm", "browser", "activation"} \subseteq Effects
        BY DEF Effects, ReleaseEffects
    <2> QED BY <2>1, <2>2, <2>3 DEF UpstreamInOrder, PublicationInv, AuthorityHolds, CheckReviewEffect, CheckTargetEffect
<1> QED BY <1>1, PublicationInvariant, PTL

\* The release never claims more than happened.
THEOREM ReleaseBacked == Spec => []ReleaseIsBacked
<1>1. TypeOK /\ PublicationInv => ReleaseIsBacked
    <2> SUFFICES ASSUME TypeOK, PublicationInv PROVE ReleaseIsBacked
        OBVIOUS
    <2>1. \A t \in Targets : CheckTargetEffect(t, rel.subject) => Applied(t) /\ effect[t].subject = rel.subject
        BY Bindings DEF PublicationInv, OutcomeIsTrue, Applied, CheckTargetEffect
    <2>2. "npm" \in Targets /\ "browser" \in Targets
        BY DEF Targets, ReleaseEffects
    <2> QED BY <2>1, <2>2 DEF ReleaseIsBacked, PublicationInv, LedgerBacksRelease, Published
<1> QED BY <1>1, PublicationInvariant, PTL

-----------------------------------------------------------------------------
(* The refinement: every step is a step of GuardedWrite or a stutter.      *)

\* A status is read off the state of the effect alone.
StatusOf(state) ==
    CASE state \in {None, "prepared"} -> "asked"
      [] state \in {"permitted", "unknown"} -> "permitted"
      [] state = "confirmed_not_sent" -> "not_sent"
      [] OTHER -> state

\* A step that moves one effect changes one status.
LEMMA StatusStep ==
    ASSUME NEW d \in Effects, \A e \in Effects : e # d => effect'[e].state = effect[e].state
    PROVE  [e \in Effects |-> Status(e)]' =
                [[e \in Effects |-> Status(e)] EXCEPT ![d] = StatusOf(effect'[d].state)]
<1>1. \A e \in Effects : Status(e) = StatusOf(effect[e].state) /\ Status(e)' = StatusOf(effect'[e].state)
    BY DEF Status, StatusOf
<1>2. \A e \in Effects : e # d => Status(e)' = Status(e)
    BY <1>1
<1>3. Status(d)' = StatusOf(effect'[d].state)
    BY <1>1
<1> HIDE DEF Status
<1> QED BY <1>2, <1>3

\* A step that moves no status is a stutter of the abstract ledger.
LEMMA StatusStill ==
    ASSUME \A e \in Effects : StatusOf(effect'[e].state) = StatusOf(effect[e].state)
    PROVE  [e \in Effects |-> Status(e)]' = [e \in Effects |-> Status(e)]
<1>1. \A e \in Effects : Status(e) = StatusOf(effect[e].state) /\ Status(e)' = StatusOf(effect'[e].state)
    BY DEF Status, StatusOf
<1> QED BY <1>1

\* The abstract step of a concrete one.
LEMMA GuardedStep ==
    ASSUME TypeOK, PublicationInv, [Next]_vars
    PROVE  [Guarded!Next]_(Guarded!vars)
<1> DEFINE stat == [e \in Effects |-> Status(e)]
<1>0. /\ effect \in [Effects -> EffectRow]
      /\ \A q \in Requests : EffectOf[q] \in Effects
      /\ \A e \in Effects : stat[e] = StatusOf(effect[e].state)
    BY Bindings DEF TypeOK, EffectRow, Status, StatusOf
<1>1. CASE UNCHANGED <<kept, world>> /\ \A e \in Effects : StatusOf(effect'[e].state) = StatusOf(effect[e].state)
    BY <1>1, StatusStill DEF Guarded!vars
<1>2. ASSUME NEW d \in Effects, UNCHANGED <<kept, world>>, \A e \in Effects : e # d => effect'[e].state = effect[e].state
      PROVE  \A s : StatusOf(effect'[d].state) = s => Guarded!Become(d, s)
    BY <1>2, StatusStep DEF Guarded!Become
<1>3. ASSUME NEW q \in Requests, NEW s \in Subjects \cup {None}, Prepare(q, s)
      PROVE  [Guarded!Next]_(Guarded!vars)
    <2>1. UNCHANGED <<kept, world>> /\ \A e \in Effects : e # EffectOf[q] => effect'[e].state = effect[e].state
        BY <1>0, <1>3 DEF Prepare
    <2>2. CASE effect'[EffectOf[q]].state = "denied" /\ effect[EffectOf[q]].state = None
        <3>1. Guarded!Become(EffectOf[q], "denied")
            BY <1>0, <1>2, <2>1, <2>2 DEF StatusOf, None
        <3>2. stat[EffectOf[q]] = "asked"
            BY <1>0, <2>2 DEF StatusOf, None
        <3>3. Guarded!Deny(EffectOf[q])
            BY <3>1, <3>2 DEF Guarded!Deny
        <3> QED BY <1>0, <3>3 DEF Guarded!Next
    <2>3. CASE effect'[EffectOf[q]].state = "prepared" /\ effect[EffectOf[q]].state = None
        BY <1>1, <2>1, <2>3 DEF StatusOf, None
    <2>4. CASE UNCHANGED effect
        BY <1>1, <2>1, <2>4
    <2> QED BY <1>0, <1>3, <2>2, <2>3, <2>4 DEF Prepare, EffectByCommand, NewEffect, DeniedEffect
<1>4. ASSUME NEW q \in Requests, Put(q) PROVE [Guarded!Next]_(Guarded!vars)
    <2>1. UNCHANGED <<effect, world>> /\ (UNCHANGED kept \/ kept' = kept \cup {EffectOf[q]})
        BY <1>4 DEF Put
    <2>2. UNCHANGED stat
        BY <2>1, StatusStill
    <2>3. CASE kept' = kept \cup {EffectOf[q]}
        BY <1>0, <2>1, <2>2, <2>3 DEF Guarded!Keep, Guarded!Next
    <2> QED BY <2>1, <2>2, <2>3 DEF Guarded!vars
<1>5. ASSUME NEW q \in Requests, MarkInventoryUncertain(q) PROVE [Guarded!Next]_(Guarded!vars)
    BY <1>0, <1>1, <1>5 DEF MarkInventoryUncertain, EffectRow
<1>6. ASSUME NEW q \in Requests, Permit(q) PROVE [Guarded!Next]_(Guarded!vars)
    <2>1. UNCHANGED <<kept, world>> /\ \A e \in Effects : e # EffectOf[q] => effect'[e].state = effect[e].state
        BY <1>0, <1>6 DEF Permit
    <2>2. CASE UNCHANGED effect
        BY <1>1, <2>1, <2>2
    <2>3. CASE effect[EffectOf[q]].state = "prepared" /\ effect'[EffectOf[q]].state = "permitted"
        <3>1. Guarded!Become(EffectOf[q], "permitted")
            BY <1>0, <1>2, <2>1, <2>3 DEF StatusOf, None
        <3>2. stat[EffectOf[q]] = "asked" /\ EffectOf[q] \in kept
            BY <1>0, <1>6, <2>3 DEF StatusOf, Permit, PublicationInv, PermitIsKept
        <3>3. Guarded!Permit(EffectOf[q])
            BY <3>1, <3>2 DEF Guarded!Permit
        <3> QED BY <1>0, <3>3 DEF Guarded!Next
    <2>4. CASE effect[EffectOf[q]].state = "prepared" /\ effect'[EffectOf[q]].state = "denied"
        <3>1. Guarded!Become(EffectOf[q], "denied")
            BY <1>0, <1>2, <2>1, <2>4 DEF StatusOf, None
        <3>2. stat[EffectOf[q]] = "asked"
            BY <1>0, <2>4 DEF StatusOf
        <3>3. Guarded!Deny(EffectOf[q])
            BY <3>1, <3>2 DEF Guarded!Deny
        <3> QED BY <1>0, <3>3 DEF Guarded!Next
    <2>5. /\ PermitEffect(EffectOf[q]).state = "permitted"
          /\ DenyEffect(EffectOf[q]).state = "denied"
        BY <1>0 DEF PermitEffect, DenyEffect, EffectRow
    <2> QED BY <1>0, <1>6, <2>2, <2>3, <2>4, <2>5 DEF Permit
<1>7. ASSUME NEW q \in Requests, Perform(q) PROVE [Guarded!Next]_(Guarded!vars)
    <2>1. stat[EffectOf[q]] = "permitted"
        BY <1>0, <1>7 DEF StatusOf, Perform, PublicationInv, GrantIsSingle, Unresolved, None
    <2>2. UNCHANGED stat /\ UNCHANGED kept
        BY <1>7, StatusStill DEF Perform
    <2>3. Guarded!Perform(EffectOf[q])
        BY <1>7, <2>1, <2>2, PerformOnce DEF Guarded!Perform
    <2> QED BY <1>0, <2>3 DEF Guarded!Next
<1>8. ASSUME NEW d \in Effects, Observe(d, "workflow") \/ QueryOriginal(d) PROVE [Guarded!Next]_(Guarded!vars)
    <2>1. PICK src \in Sources : Observe(d, src)
        BY <1>8 DEF QueryOriginal, Sources
    <2>2. UNCHANGED <<kept, world>> /\ EffectMoves(d)
        BY <2>1, ObserveMoves DEF Observe
    <2>3. PICK o \in Reports(d) : effect' = Observed(d, o)
        BY <2>1 DEF Observe
    <2>4. CASE UNCHANGED effect
        BY <1>1, <2>2, <2>4
    <2>5. CASE Unresolved(d) /\ effect' = [effect EXCEPT ![d].state = o]
        <3>1. effect'[d].state = o /\ \A e \in Effects : e # d => effect'[e].state = effect[e].state
            BY <1>0, <2>5 DEF EffectRow
        <3>2. stat[d] = "permitted"
            BY <1>0, <2>5 DEF StatusOf, Unresolved, None
        <3>3. CASE o = "unknown"
            BY <1>1, <2>2, <2>5, <3>1, <3>3 DEF StatusOf, Unresolved, None
        <3>4. CASE o \in {"succeeded", "failed"}
            <4>1. world[d].sent = 1 /\ o = IF world[d].result = "applied" THEN "succeeded" ELSE "failed"
                BY <3>4, StepShape DEF Reports, PublicationInv, PerformedIsIssued, WorldRow, None
            <4>2. Guarded!Become(d, o)
                BY <1>2, <2>2, <3>1, <3>4 DEF StatusOf, None
            <4>3. Guarded!Resolve(d)
                BY <3>2, <4>1, <4>2 DEF Guarded!Resolve
            <4> QED BY <4>3 DEF Guarded!Next
        <3> QED BY <3>3, <3>4 DEF Reports
    <2> QED BY <2>3, <2>4, <2>5 DEF Observed
<1>9. ASSUME NEW d \in Effects, ConfirmNotSent(d) PROVE [Guarded!Next]_(Guarded!vars)
    <2>1. /\ UNCHANGED <<kept, world>> /\ world[d].sent = 0
          /\ effect[d].state \in {"prepared", "permitted", "unknown"}
          /\ effect' = [effect EXCEPT ![d].state = "confirmed_not_sent"]
        BY <1>9 DEF ConfirmNotSent
    <2>2. effect'[d].state = "confirmed_not_sent" /\ \A e \in Effects : e # d => effect'[e].state = effect[e].state
        BY <1>0, <2>1 DEF EffectRow
    <2>3. Guarded!Become(d, "not_sent")
        BY <1>2, <2>1, <2>2 DEF StatusOf, None
    <2>4. stat[d] \in {"asked", "permitted"}
        BY <1>0, <2>1 DEF StatusOf, None
    <2>5. Guarded!Withdraw(d)
        BY <2>1, <2>3, <2>4 DEF Guarded!Withdraw
    <2> QED BY <2>5 DEF Guarded!Next
<1>10. ASSUME \/ UNCHANGED vars \/ AcceptRelease \/ RecordRelease
              \/ (\E o \in Ops : OpenChanges(o)) \/ (\E s \in Subjects : Certify(s)) \/ (\E q \in Requests : Lose(q))
       PROVE  [Guarded!Next]_(Guarded!vars)
    <2>1. UNCHANGED <<effect, kept, world>>
        BY <1>10 DEF vars, effectVars, AcceptRelease, RecordRelease, OpenChanges, Certify, Lose
    <2> QED BY <1>1, <2>1
<1> QED BY <1>3, <1>4, <1>5, <1>6, <1>7, <1>8, <1>9, <1>10 DEF Next

\* Every effect is a guarded write, whatever retries, lost answers, reports
\* in any order, fences and dispositions do between its two transactions.
THEOREM EffectsAreGuarded == Spec => ImplementsGuardedWrite
<1>1. Init => Guarded!Init
    <2> SUFFICES ASSUME Init PROVE Guarded!Init
        OBVIOUS
    <2>1. \A e \in Effects : Status(e) = "asked"
        BY DEF Init, Status, None
    <2> QED BY <2>1 DEF Init, Guarded!Init, None
<1>2. TypeOK /\ PublicationInv /\ [Next]_vars => [Guarded!Next]_(Guarded!vars)
    BY GuardedStep
<1> QED BY <1>1, <1>2, PublicationInvariant, PTL DEF Spec, ImplementsGuardedWrite, Guarded!Spec
=============================================================================
