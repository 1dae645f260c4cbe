---------------------------- MODULE Publication ----------------------------
(***************************************************************************)
(* The guarded mutations of a generation and of the release of its result: *)
(* candidate registration, review, the two publications and the activation *)
(* (application/effects.go over domain/effect.go), and the release         *)
(* projection that authorizes the last three (application/releases.go over *)
(* domain/release.go).                                                     *)
(*                                                                         *)
(* A permit takes two transactions with the inventory write between them;  *)
(* any number of requests of the same command run at once, crash and are   *)
(* repeated.  The Workflow that records the release is not trusted: a      *)
(* record states anything.  A record under another revision, or the same   *)
(* one repeated, changes nothing and is not an action.  All refusals of a  *)
(* scope (a fence, another epoch, a closed tenant, a deadline, a lease)    *)
(* are one: the operation is not open.                                     *)
(***************************************************************************)
EXTENDS Naturals, FiniteSets

CONSTANTS
    Requests,       \* prepare calls
    EffectOf,       \* the effect a call asks for
    Identity,       \* candidate effect -> the component identity of its brief
    Subjects,       \* release subjects
    IdentityOf,     \* subject -> the component identity it names
    Faulty,         \* effects that may fail (lost calls, writes and reports, a refusal upstream)
                    \* or be recorded so
    MayFence        \* operations that are fenced and resumed

ReleaseEffects == {"review", "npm", "browser", "activation"}
Targets == ReleaseEffects \ {"review"}
Candidates == DOMAIN Identity
Effects == Candidates \cup ReleaseEffects
Source == "candidate"       \* the registration of the generation that is released

ASSUME PublicationAssumption ==
    /\ Source \in Candidates /\ Candidates \cap ReleaseEffects = {}
    /\ EffectOf \in [Requests -> Effects] /\ Faulty \subseteq Effects

VARIABLES
    open,       \* operation -> it admits new mutations
    effect,     \* effect -> state, inventory, the subject it names
    kept,       \* effects whose obligation is in the inventory
    req,        \* call -> where it is
    world,      \* effect -> how often it was performed, and the result
    obs,        \* source -> its first report of the released candidate
    lineage,    \* the identity bound to the lineage
    certified,  \* the subject of the latest certified stage of the release
    rel         \* the release projection

effectVars == <<effect, kept, req, world, obs, lineage>>
vars == <<open, effectVars, certified, rel>>

-----------------------------------------------------------------------------
None == "none"
Ops == {"generation", "release"}
OpOf(e) == IF e \in ReleaseEffects THEN "release" ELSE "generation"
EffectStates == {None, "prepared", "permitted", "succeeded", "failed", "unknown", "confirmed_not_sent", "denied"}
Outcomes == {"succeeded", "failed", "unknown"}
Sources == {"workflow", "workflow-query"}
TargetStates == {"pending", "succeeded", "failed", "unknown"}
ReleaseStates == {None, "accepted", "certifying", "awaiting_approval", "publishing", "published", "activated",
                  "partially_published", "reconciling", "rejected", "failed"}
Release == [state : ReleaseStates, subject : Subjects \cup {None}, approved : BOOLEAN,
            npm : TargetStates, browser : TargetStates, activation : TargetStates]

\* Every variable has its type; in particular only a release that can still
\* move is recorded, and no mutation is performed twice.
TypeOK ==
    /\ open \in [Ops -> BOOLEAN]
    /\ effect \in [Effects -> [state : EffectStates, inventory : {None, "pending", "uncertain", "confirmed"},
                               subject : Subjects \cup {None}]]
    /\ kept \subseteq Effects
    /\ req \in [Requests -> {"idle", "put", "mark", "permit", "granted"}]
    /\ world \in [Effects -> [sent : 0..1, result : {None, "applied", "refused"}]]
    /\ obs \in [Sources -> Outcomes \cup {None}]
    /\ lineage \in {Identity[c] : c \in Candidates} \cup {None}
    /\ certified \in Subjects \cup {None}
    /\ rel \in Release

Init ==
    /\ open = [o \in Ops |-> TRUE]
    /\ effect = [e \in Effects |-> [state |-> None, inventory |-> None, subject |-> None]]
    /\ kept = {} /\ req = [q \in Requests |-> "idle"]
    /\ world = [e \in Effects |-> [sent |-> 0, result |-> None]]
    /\ obs = [s \in Sources |-> None]
    /\ lineage = None /\ certified = None
    /\ rel = [state |-> None, subject |-> None, approved |-> FALSE,
              npm |-> "pending", browser |-> "pending", activation |-> "pending"]

-----------------------------------------------------------------------------
(* The permit rules.                                                       *)

Approved(r) == r.subject # None /\ r.approved
Published(r) == Approved(r) /\ r.npm = "succeeded" /\ r.browser = "succeeded"

\* The registered review of the subject.  The code compares the outcome that
\* was observed of the review: it is the subject the review was asked to
\* register, which is what the registry's receipt is taken to name.
CheckReviewEffect(s) == effect["review"].state = "succeeded" /\ effect["review"].subject = s

\* A succeeded effect of this release, of the target and its subject.
CheckTargetEffect(t, s) == effect[t].state = "succeeded" /\ effect[t].subject = s

\* Mutant: a publication is authorized by the approval of some subject.
CheckReleaseAnySubject(e, s) ==
    /\ e \in {"npm", "browser"} => Approved(rel) /\ CheckReviewEffect(rel.subject)
    /\ e = "activation" => Published(rel) /\ s = rel.subject
                           /\ \A t \in {"npm", "browser"} : CheckTargetEffect(t, rel.subject)

CheckReleaseEffect(e, s) ==
    /\ e \in {"npm", "browser"} => Approved(rel) /\ s = rel.subject /\ CheckReviewEffect(rel.subject)
    /\ e = "activation" => Published(rel) /\ s = rel.subject
                           /\ \A t \in {"npm", "browser"} : CheckTargetEffect(t, rel.subject)

\* The operation under its lock: its scope, fences and deadlines, and the
\* closure of its tenant.
EffectContext(e) == open[OpOf(e)]

CheckEffect(e, s) == EffectContext(e) /\ CheckReleaseEffect(e, s)

CheckLineageIdentity(e) == lineage \in {None, Identity[e]}

\* The first registration binds its identity to the lineage, for good; the
\* same identity again changes nothing.
InsertLineageIdentity(e) == IF lineage = None THEN Identity[e] ELSE lineage
BindLineage(e) == e \in Candidates => CheckLineageIdentity(e)

NewEffect(s) == [state |-> "prepared", inventory |-> "pending", subject |-> s]
DeniedEffect(s) == [state |-> "denied", inventory |-> "pending", subject |-> s]

\* The record of the command, or of its occurrence.
EffectByCommand(e) == effect[e].state # None

\* The same command with another binding conflicts.
Binds(e, s) == effect[e].subject = s

\* The first transaction of Prepare: the record of the command, new,
\* refused for good, or reentered by the same binding.
Prepare(q, s) ==
    LET e == EffectOf[q]
        fresh == ~EffectByCommand(e)
        granted == CheckEffect(e, s) /\ BindLineage(e)
    IN  /\ req[q] = "idle" /\ (e \in ReleaseEffects => rel.state # None)
        /\ (e \in ReleaseEffects) = (s # None)
        /\ fresh \/ (effect[e].state = "prepared" /\ Binds(e, s))
        /\ effect' = IF fresh THEN [effect EXCEPT ![e] = IF granted THEN NewEffect(s) ELSE DeniedEffect(s)] ELSE effect
        /\ lineage' = IF fresh /\ granted /\ e \in Candidates THEN InsertLineageIdentity(e) ELSE lineage
        /\ req' = [req EXCEPT ![q] = IF fresh /\ ~granted THEN "idle" ELSE "put"]
        /\ UNCHANGED <<open, kept, world, obs, certified, rel>>

\* Mutant: the answer of the inventory is not looked at.
PutUnchecked(q) ==
    /\ req[q] = "put"
    /\ kept' \in {kept, kept \cup {EffectOf[q]}} /\ req' = [req EXCEPT ![q] = "permit"]
    /\ UNCHANGED <<open, effect, world, obs, lineage, certified, rel>>

\* The inventory write outside every lock; it may be kept although it
\* answers with an error.
Put(q) ==
    /\ req[q] = "put"
    /\ \/ kept' = kept \cup {EffectOf[q]} /\ req' = [req EXCEPT ![q] = "permit"]
       \/ /\ EffectOf[q] \in Faulty
          /\ kept' \in {kept, kept \cup {EffectOf[q]}} /\ req' = [req EXCEPT ![q] = "mark"]
    /\ UNCHANGED <<open, effect, world, obs, lineage, certified, rel>>

MarkInventoryUncertain(q) ==
    LET e == EffectOf[q]
    IN  /\ req[q] = "mark"
        /\ effect' = IF effect[e].state = "prepared" /\ effect[e].inventory = "pending"
                     THEN [effect EXCEPT ![e].inventory = "uncertain"] ELSE effect
        /\ req' = [req EXCEPT ![q] = "idle"]
        /\ UNCHANGED <<open, kept, world, obs, lineage, certified, rel>>

PermitEffect(e) == [effect[e] EXCEPT !.state = "permitted", !.inventory = "confirmed"]
DenyEffect(e) == [effect[e] EXCEPT !.state = "denied", !.inventory = "confirmed"]

\* The second transaction: the rules again, against the persisted binding;
\* only the request that takes the record out of prepared is permitted.
Permit(q) ==
    LET e == EffectOf[q]
        prepared == effect[e].state = "prepared"
        granted == prepared /\ CheckEffect(e, effect[e].subject)
    IN  /\ req[q] = "permit"
        /\ effect' = IF ~prepared THEN effect
                     ELSE [effect EXCEPT ![e] = IF granted THEN PermitEffect(e) ELSE DenyEffect(e)]
        /\ req' = [req EXCEPT ![q] = IF granted THEN "granted" ELSE "idle"]
        /\ UNCHANGED <<open, kept, world, obs, lineage, certified, rel>>

-----------------------------------------------------------------------------
(* The physical owner, its reports and the evidence.                       *)

\* The request, the answer or the process is lost: with a permit in it, the
\* permit is.
Lose(q) ==
    /\ req[q] # "idle" /\ EffectOf[q] \in Faulty
    /\ req' = [req EXCEPT ![q] = "idle"]
    /\ UNCHANGED <<open, effect, kept, world, obs, lineage, certified, rel>>

Perform(q) ==
    LET e == EffectOf[q]
    IN  /\ req[q] = "granted"
        /\ \E r \in {"applied"} \cup (IF e \in Faulty THEN {"refused"} ELSE {}) :
            world' = [world EXCEPT ![e] = [sent |-> @.sent + 1, result |-> r]]
        /\ req' = [req EXCEPT ![q] = "idle"]
        /\ UNCHANGED <<open, effect, kept, obs, lineage, certified, rel>>

Unresolved(e) == effect[e].state \in {"permitted", "unknown"}

\* The first definite outcome settles; a later report is recorded and
\* changes nothing of the effect.
Observed(e, o) == IF Unresolved(e) THEN [effect EXCEPT ![e].state = o] ELSE effect

\* What a reporter may say: a definite outcome is the one that happened.
Reports(e) ==
    (IF e \in Faulty THEN {"unknown"} ELSE {})
                \cup (IF world[e].result = "applied" THEN {"succeeded"} ELSE {})
                \cup (IF world[e].result = "refused" THEN {"failed"} ELSE {})

\* One report per source and sequence; those of the released candidate are
\* kept, they are read again.
Observe(e, src) ==
    /\ Unresolved(e) \/ effect[e].state \in {"succeeded", "failed"}
    /\ e = Source => obs[src] = None
    /\ \E o \in Reports(e) :
        /\ effect' = Observed(e, o)
        /\ obs' = IF e = Source THEN [obs EXCEPT ![src] = o] ELSE obs
    /\ UNCHANGED <<open, kept, req, world, lineage, certified, rel>>

\* The upstream is asked about an unresolved effect; without a record there
\* nothing changes.
QueryOriginal(e) ==
    /\ e \in Faulty /\ Unresolved(e) /\ world[e].sent > 0
    /\ Observe(e, "workflow-query")

\* Independently verified evidence that nothing was or will be sent.
ConfirmNotSent(e) ==
    /\ e \in Faulty /\ effect[e].state \in {"prepared", "permitted", "unknown"}
    /\ world[e].sent = 0 /\ ~\E q \in Requests : EffectOf[q] = e /\ req[q] = "granted"
    /\ effect' = [effect EXCEPT ![e].state = "confirmed_not_sent"]
    /\ UNCHANGED <<open, kept, req, world, obs, lineage, certified, rel>>

OpenChanges(o) ==
    /\ o \in MayFence /\ open' = [open EXCEPT ![o] = ~@]
    /\ UNCHANGED <<effectVars, certified, rel>>

-----------------------------------------------------------------------------
(* The release.                                                            *)

\* The revision a report names: a receipt comes with a definite outcome.
Receipt(o) == CASE o = "succeeded" -> "registered" [] o = "failed" -> "refused" [] OTHER -> None

\* The first report of a source.
EffectObservation(src) == Receipt(obs[src])

\* resolveSource: the first report of the workflow, else of its query.
ResolvedRevision ==
    IF effect[Source].state \in {None, "denied"} THEN None
    ELSE IF obs["workflow"] # None THEN EffectObservation("workflow") ELSE EffectObservation("workflow-query")

\* Create of the release: the caller names the revision its source holds.
AcceptRelease ==
    /\ rel.state = None /\ ResolvedRevision # None /\ lineage # None
    /\ rel' = [rel EXCEPT !.state = "accepted"]
    /\ UNCHANGED <<open, effectVars, certified>>

\* A certified stage of the release is accepted; the latest counts.
Certify(s) ==
    /\ rel.state \in {"accepted", "certifying"} /\ certified # s
    /\ certified' = s
    /\ UNCHANGED <<open, effectVars, rel>>

ReleaseNext ==
    [s \in ReleaseStates |->
        CASE s = "accepted" -> {"certifying", "failed"}
          [] s = "certifying" -> {"awaiting_approval", "failed"}
          [] s = "awaiting_approval" -> {"publishing", "rejected", "failed"}
          [] s = "publishing" -> {"publishing", "published", "partially_published", "reconciling", "failed"}
          [] s = "reconciling" -> {"publishing", "published", "partially_published", "reconciling", "activated", "failed"}
          [] s = "published" -> {"activated", "reconciling", "failed"}
          [] OTHER -> {}]

\* The subject is recorded once: the certification of the release, naming
\* the identity bound to its lineage.
CheckSubject(s) == s = certified /\ IdentityOf[s] = lineage

SubjectsOf == IF rel.subject # None THEN {rel.subject} ELSE {None} \cup {s \in Subjects : CheckSubject(s)}

\* Mutant: a target succeeds by the word of the recorder.
TargetsAsserted(t, s) == IF rel[t] \in {"succeeded", "failed"} THEN {rel[t]} ELSE TargetStates

\* checkTarget with the ledger: a definite outcome never changes, a
\* succeeded target is a succeeded effect.
TargetsOf(t, s) ==
    IF rel[t] \in {"succeeded", "failed"} THEN {rel[t]}
    ELSE {"pending"} \cup (IF t \in Faulty THEN {"failed", "unknown"} ELSE {})
                     \cup (IF CheckTargetEffect(t, s) THEN {"succeeded"} ELSE {})

Consistent(r) ==
    LET sent == \E t \in Targets : r[t] # "pending"
    IN  /\ r.approved => r.subject # None /\ CheckReviewEffect(r.subject)
        /\ r.state = "awaiting_approval" => r.subject # None
        /\ sent \/ r.state \in {"publishing", "published", "activated"} => Approved(r)
        /\ r.activation # "pending" \/ r.state \in {"published", "activated"} => Published(r)
        /\ r.state = "activated" => r.activation = "succeeded"
        /\ r.state = "partially_published" => {r.npm, r.browser} = {"succeeded", "failed"}
        /\ r.state = "reconciling" => \E t \in Targets : r[t] = "unknown"

\* Releases.Record with whatever the Workflow states.
RecordRelease ==
    /\ \E st \in ReleaseNext[rel.state], s \in SubjectsOf, a \in BOOLEAN :
       \E n \in TargetsOf("npm", s), b \in TargetsOf("browser", s), v \in TargetsOf("activation", s) :
        LET r == [state |-> st, subject |-> s, approved |-> a, npm |-> n, browser |-> b, activation |-> v]
        IN  Consistent(r) /\ r # rel /\ rel' = r
    /\ UNCHANGED <<open, effectVars, certified>>

-----------------------------------------------------------------------------
Next ==
    \/ \E q \in Requests : \/ \E s \in Subjects \cup {None} : Prepare(q, s)
                           \/ Put(q) \/ MarkInventoryUncertain(q) \/ Permit(q) \/ Lose(q) \/ Perform(q)
    \/ \E e \in Effects : Observe(e, "workflow") \/ QueryOriginal(e) \/ ConfirmNotSent(e)
    \/ \E o \in Ops : OpenChanges(o)
    \/ AcceptRelease \/ RecordRelease \/ \E s \in Subjects : Certify(s)

Spec == Init /\ [][Next]_vars

-----------------------------------------------------------------------------
(* Properties.                                                             *)

Applied(e) == world[e].result = "applied"

(***************************************************************************)
(* What is published upstream is one reviewed subject: nothing is          *)
(* published that the registered review is not of, and nothing is          *)
(* activated unless both publications of the same subject happened,        *)
(* whatever the Workflow records and whenever permits, reports and fences  *)
(* arrive (CheckReleaseEffect, checkTargetEffect).                         *)
(***************************************************************************)
UpstreamInOrder ==
    /\ \A t \in {"npm", "browser"} : Applied(t) => Applied("review") /\ effect["review"].subject = effect[t].subject
    /\ Applied("activation") =>
            \A t \in {"npm", "browser"} : Applied(t) /\ effect[t].subject = effect["activation"].subject

(***************************************************************************)
(* The projection never claims more than happened: a target recorded as    *)
(* succeeded was performed upstream for the release's own subject, and     *)
(* that subject names the identity of its lineage (ApplyRelease).          *)
(***************************************************************************)
ReleaseIsBacked ==
    /\ \A t \in Targets : rel[t] = "succeeded" => Applied(t) /\ effect[t].subject = rel.subject
    /\ rel.state \in {"published", "activated"} => Applied("npm") /\ Applied("browser")
    /\ rel.subject # None => IdentityOf[rel.subject] = lineage

Status(e) ==
    CASE effect[e].state \in {None, "prepared"} -> "asked"
      [] effect[e].state \in {"permitted", "unknown"} -> "permitted"
      [] effect[e].state = "confirmed_not_sent" -> "not_sent"
      [] OTHER -> effect[e].state

Guarded == INSTANCE GuardedWrite WITH Writes <- Effects, status <- [e \in Effects |-> Status(e)]

(***************************************************************************)
(* Every effect is a guarded write: the two transactions, retries, lost    *)
(* answers, reports in any order and dispositions together keep the        *)
(* promise of GuardedWrite.tla (Effects.Prepare, Observe, ConfirmNotSent). *)
(***************************************************************************)
ImplementsGuardedWrite == Guarded!Spec

(***************************************************************************)
(* A report that comes after the candidate was settled changes nothing, as *)
(* Observe says: the revision a release of it resolves stays what it was.  *)
(***************************************************************************)
LateReportChangesNothing ==
    [][effect[Source].state \in {"succeeded", "failed"} => ResolvedRevision' = ResolvedRevision]_vars
=============================================================================
