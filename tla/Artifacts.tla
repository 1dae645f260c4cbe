----------------------------- MODULE Artifacts -----------------------------
(***************************************************************************)
(* The scoped artifact transfers of one operation and its attempt: begin,  *)
(* upload, resolve, finalize, the binding of an accepted result's outputs  *)
(* and the capability to read (application/artifacts.go over               *)
(* domain/artifact.go, archive.go and adapters/artifacts/s3.go).           *)
(*                                                                         *)
(* A finalize reads the transfer, verifies the named object version        *)
(* outside every lock and commits under the locks: three steps, with the   *)
(* operation, the attempt, the clock and other finalizes moving between    *)
(* them.  The declared digest fixes the bytes, so whether they are an      *)
(* archive and a contained one is a constant of the transfer; what is      *)
(* uploaded may be other bytes.                                            *)
(***************************************************************************)
EXTENDS Naturals, FiniteSets, Sequences

CONSTANTS
    Transfers,
    Binding,        \* transfer -> none | operation | attempt
    Checked,        \* transfers of class source or declared as an archive
    Bytes,          \* transfer -> plain | contained | escape, the declared bytes
    Instances,
    Finalizers,     \* finalize calls
    TransferOf, VersionOf, CommandOf, InstanceOf,   \* what a call names
    Bodies,         \* transfer -> what uploads may store: exact | other | larger
    MaxUploads,     \* transfer -> how many versions are uploaded at most
    Slots, MaxEpoch

ASSUME ArtifactsAssumption ==
    /\ Binding \in [Transfers -> {"none", "operation", "attempt"}]
    /\ Checked \subseteq Transfers
    /\ Bytes \in [Transfers -> {"plain", "contained", "escape"}]
    /\ IsFiniteSet(Finalizers) /\ TransferOf \in [Finalizers -> Transfers]
    /\ MaxUploads \in [Transfers -> Nat]
    /\ VersionOf \in [Finalizers -> Nat \ {0}]
    /\ InstanceOf \in [Finalizers -> Instances \cup {"none"}]
    /\ Bodies \in [Transfers -> SUBSET {"exact", "other", "larger"}]
    /\ Slots \in Nat \ {0} /\ MaxEpoch \in Nat \ {0}

VARIABLES
    op,         \* fenced, epoch
    attempt,    \* state, epoch
    owner,      \* the attempt's current instance
    late,       \* transfers whose deadline passed
    xfer,       \* transfer -> state, epoch, version, by
    store,      \* transfer -> the versions under its key
    caps,       \* transfers with an upload capability in use
    fin,        \* finalize call -> where it is, what it holds and verified
    slots,      \* finalize slots in use
    served,     \* <<transfer, version>> bound by the accepted stage or readable
    up          \* the process runs

scopeVars == <<op, attempt, owner>>
vars == <<scopeVars, late, xfer, store, caps, fin, slots, served, up>>

-----------------------------------------------------------------------------
TransferStates == {"none", "begun", "finalized", "rejected", "expired"}
Versions == {VersionOf[f] : f \in Finalizers}
Commands == {CommandOf[f] : f \in Finalizers}
Transfer == [state : TransferStates, epoch : 0..MaxEpoch, version : {0} \cup Versions, by : Commands \cup {"none"}]
Facts == {"none", "exact", "other", "failed"}
Finalizer == [pc : {"idle", "verify", "waiting", "reading", "settle", "done"}, holds : BOOLEAN, facts : Facts]

\* Every variable has its type; the slots in use never leave their bound.
TypeOK ==
    /\ op \in [fenced : BOOLEAN, epoch : 1..MaxEpoch]
    /\ attempt \in [state : {"running", "result_accepted", "closed"}, epoch : 1..MaxEpoch]
    /\ owner \in Instances \cup {"none"}
    /\ late \subseteq Transfers /\ caps \subseteq Transfers
    /\ xfer \in [Transfers -> Transfer]
    /\ \A t \in Transfers : store[t] \in Seq(Bodies[t])
    /\ fin \in [Finalizers -> Finalizer]
    /\ slots \in 0..Slots
    /\ served \subseteq Transfers \X Versions
    /\ up \in BOOLEAN

Init ==
    /\ op = [fenced |-> FALSE, epoch |-> 1]
    /\ attempt = [state |-> "running", epoch |-> 1]
    /\ owner = "none" /\ late = {} /\ caps = {} /\ slots = 0 /\ served = {} /\ up = TRUE
    /\ xfer = [t \in Transfers |-> [state |-> "none", epoch |-> 0, version |-> 0, by |-> "none"]]
    /\ store = [t \in Transfers |-> <<>>]
    /\ fin = [f \in Finalizers |-> [pc |-> "idle", holds |-> FALSE, facts |-> "none"]]

-----------------------------------------------------------------------------
(* Begin, resolve and upload.                                              *)

\* The scope a bound transfer may be begun, uploaded and finalized in.
ScopeOpen(t) ==
    /\ Binding[t] # "none" => ~op.fenced
    /\ Binding[t] = "attempt" => attempt.state = "running" /\ attempt.epoch = op.epoch

\* Transfer.current
Current(t) == ScopeOpen(t) /\ (Binding[t] # "none" => xfer[t].epoch = op.epoch)

Reissuable(t) == xfer[t].state = "begun" /\ t \notin late /\ Current(t)

NewTransfer(t) ==
    [state |-> "begun", epoch |-> IF Binding[t] = "none" THEN 1 ELSE op.epoch, version |-> 0, by |-> "none"]

\* An upload capability for a begun transfer inside its deadline.
Capability(t) == xfer'[t].state = "begun" /\ t \notin late /\ caps' = caps \cup {t}

\* A reentered begin gets the capability again only while the persisted
\* transfer may still be uploaded.
Begin(t) ==
    /\ up /\ t \notin caps
    /\ \/ /\ xfer[t].state = "none" /\ t \notin late /\ ScopeOpen(t)
          /\ xfer' = [xfer EXCEPT ![t] = NewTransfer(t)]
       \/ Reissuable(t) /\ UNCHANGED xfer
    /\ Capability(t)
    /\ UNCHANGED <<scopeVars, late, store, fin, slots, served, up>>

Resolvable(t, i) == Reissuable(t) /\ Binding[t] = "attempt" /\ owner = i

Resolve(t, i) ==
    /\ up /\ t \notin caps /\ Resolvable(t, i)
    /\ UNCHANGED xfer /\ Capability(t)
    /\ UNCHANGED <<scopeVars, late, store, fin, slots, served, up>>

\* The holder of a capability stores one more version under the key, also
\* after the scope moved on.
Upload(t) ==
    /\ t \in caps /\ Len(store[t]) < MaxUploads[t]
    /\ \E b \in Bodies[t] : store' = [store EXCEPT ![t] = Append(@, b)]
    /\ UNCHANGED <<scopeVars, late, xfer, caps, fin, slots, served, up>>

\* A capability ends with its own expiry, and with the deadline at the latest.
CapabilityExpires(t) ==
    /\ t \in caps
    /\ caps' = caps \ {t}
    /\ UNCHANGED <<scopeVars, late, xfer, store, fin, slots, served, up>>

DeadlinePasses(t) ==
    /\ t \notin late
    /\ late' = late \cup {t} /\ caps' = caps \ {t}
    /\ UNCHANGED <<scopeVars, xfer, store, fin, slots, served, up>>

-----------------------------------------------------------------------------
(* Finalize: read the transfer, verify the version, commit.                *)

Done(c) == [c EXCEPT !.pc = "done", !.holds = FALSE]

\* Mutant: a call that ends in an error keeps its slot.
MoveLeaking(f, next) ==
    /\ fin' = [fin EXCEPT ![f] = next]
    /\ slots' = IF fin[f].holds /\ ~next.holds /\ next.pc = "settle" THEN slots - 1 ELSE slots

\* The call ends or goes on; the slot it held is given back when it ends or
\* has dropped the bytes.
Move(f, next) ==
    /\ fin' = [fin EXCEPT ![f] = next]
    /\ slots' = IF fin[f].holds /\ ~next.holds THEN slots - 1 ELSE slots

\* A source artifact or one declared with an archive media type.
NeedsArchiveCheck(t) == t \in Checked

\* The leading bytes carry an archive signature.
DetectArchive(t) == Bytes[t] # "plain"

\* No entry of the archive leaves its root, and it stays within its limits.
Contained(t) == Bytes[t] = "contained"

\* Step 1: a transfer that is no longer begun is answered at once; a late
\* one goes to the commit to be expired; only the attempt's current
\* instance finalizes for it.
Peek(f) ==
    LET t == TransferOf[f]
        foreign == InstanceOf[f] # "none" /\ Binding[t] = "attempt" /\ InstanceOf[f] # owner
        begun == xfer[t].state = "begun" /\ ~foreign
    IN  /\ up /\ fin[f].pc = "idle" /\ xfer[t].state # "none"
        /\ fin' = [fin EXCEPT ![f] =
                CASE ~begun -> Done(@)
                  [] begun /\ t \in late -> [@ EXCEPT !.pc = "settle"]
                  [] begun /\ t \notin late -> [@ EXCEPT !.pc = IF NeedsArchiveCheck(t) THEN "waiting" ELSE "verify"]]
        /\ UNCHANGED <<scopeVars, late, xfer, store, caps, slots, served, up>>

\* What the store answers for the version a call names: absent before its
\* upload; any read may fail.
Answers(f) ==
    LET s == store[TransferOf[f]]
    IN  {"unavailable"} \cup {IF VersionOf[f] <= Len(s) THEN s[VersionOf[f]] ELSE "absent"}

\* Mutant: only a declared archive is checked as one.
VerifyDeclared(f) ==
    /\ up /\ fin[f].pc = "verify"
    /\ \E a \in Answers(f) :
        fin' = [fin EXCEPT ![f] =
            CASE a \in {"absent", "unavailable"} -> Done(@)
              [] a = "larger" -> [@ EXCEPT !.pc = "settle", !.facts = "failed"]
              [] a \in {"exact", "other"} -> [@ EXCEPT !.pc = "settle", !.facts = a]]
    /\ UNCHANGED <<scopeVars, late, xfer, store, caps, slots, served, up>>

\* Step 2 as a stream; bytes that carry an archive signature are read and
\* checked as an archive whatever was declared.
Verify(f) ==
    /\ up /\ fin[f].pc = "verify"
    /\ \E a \in Answers(f) :
        fin' = [fin EXCEPT ![f] =
            CASE a \in {"absent", "unavailable"} -> Done(@)
              [] a = "larger" -> [@ EXCEPT !.pc = "settle", !.facts = "failed"]
              [] a = "other" -> [@ EXCEPT !.pc = "settle", !.facts = a]
              [] a = "exact" -> IF DetectArchive(TransferOf[f]) THEN [@ EXCEPT !.pc = "waiting"]
                                ELSE [@ EXCEPT !.pc = "settle", !.facts = a]]
    /\ UNCHANGED <<scopeVars, late, xfer, store, caps, slots, served, up>>

FinalizeSlot(f) ==
    /\ up /\ fin[f].pc = "waiting" /\ slots < Slots
    /\ fin' = [fin EXCEPT ![f].pc = "reading", ![f].holds = TRUE]
    /\ slots' = slots + 1
    /\ UNCHANGED <<scopeVars, late, xfer, store, caps, served, up>>

\* The caller of a waiting call goes away: finalizeSlot answers a nil
\* release, which the deferred release of Finalize calls.  Nothing recovers
\* the panic: the process ends with every call in it.
GiveUp(f) ==
    /\ up /\ fin[f].pc = "waiting"
    /\ up' = FALSE /\ slots' = 0
    /\ fin' = [g \in Finalizers |-> IF fin[g].pc = "idle" THEN fin[g] ELSE Done(fin[g])]
    /\ UNCHANGED <<scopeVars, late, xfer, store, caps, served>>

Restart ==
    /\ ~up /\ up' = TRUE
    /\ UNCHANGED <<scopeVars, late, xfer, store, caps, fin, slots, served>>

\* Bytes checked as an archive must be one, and a contained one.
CheckArchive(t) == DetectArchive(t) /\ Contained(t)

\* Step 2 with the bytes: the slot is held until the check is done, and to
\* the end of the call for an object larger than declared.
Read(f) ==
    /\ up /\ fin[f].pc = "reading"
    /\ \E a \in Answers(f) :
        LET c == fin[f] IN
        Move(f, CASE a \in {"absent", "unavailable"} -> Done(c)
                  [] a = "larger" -> [c EXCEPT !.pc = "settle", !.facts = "failed"]
                  [] a = "other" -> [pc |-> "settle", holds |-> FALSE, facts |-> a]
                  [] a = "exact" -> [pc |-> "settle", holds |-> FALSE,
                                     facts |-> IF CheckArchive(TransferOf[f]) THEN a ELSE "failed"])
    /\ UNCHANGED <<scopeVars, late, xfer, store, caps, served, up>>

Finalized(f) == [xfer[TransferOf[f]] EXCEPT !.state = "finalized", !.version = VersionOf[f], !.by = CommandOf[f]]

\* Mutant: the transfer is committed as it was read in step 1.
SettleUnchecked(f) ==
    LET t == TransferOf[f]
    IN  /\ up /\ fin[f].pc = "settle"
        /\ xfer' = IF xfer[t].state = "begun" /\ fin[f].facts = "exact" THEN [xfer EXCEPT ![t] = Finalized(f)]
                   ELSE IF xfer[t].state = "begun" THEN [xfer EXCEPT ![t].state = "rejected"] ELSE xfer
        /\ Move(f, Done(fin[f]))
        /\ UNCHANGED <<scopeVars, late, store, caps, served, up>>

Rejected(t) == [xfer[t] EXCEPT !.state = "rejected"]

\* Under the transfer's lock: begun, inside its deadline, its scope current.
Finalizable(t) == xfer[t].state = "begun" /\ t \notin late /\ Current(t)

\* Step 3: the deadline expires and a stale scope or a failed verification
\* rejects a begun transfer; a finalized one answers its own command and
\* refuses another.
Settle(f) ==
    LET t == TransferOf[f]
        begun == xfer[t].state = "begun"
    IN  /\ up /\ fin[f].pc = "settle"
        /\ xfer' = CASE ~begun -> xfer
                     [] begun /\ t \in late -> [xfer EXCEPT ![t].state = "expired"]
                     [] Finalizable(t) /\ fin[f].facts = "exact" -> [xfer EXCEPT ![t] = Finalized(f)]
                     [] OTHER -> [xfer EXCEPT ![t] = Rejected(t)]
        /\ Move(f, Done(fin[f]))
        /\ UNCHANGED <<scopeVars, late, store, caps, served, up>>

-----------------------------------------------------------------------------
(* Results and readers.                                                    *)

\* BindArtifact: a finalized transfer of the operation and, when bound to
\* one, of this attempt, at the operation's epoch.
Bindable(t) == Binding[t] # "none" /\ xfer[t].state = "finalized" /\ xfer[t].epoch = op.epoch

\* The outputs a manifest that is accepted can name.
Manifests == SUBSET {t \in Transfers : Bindable(t)}

\* The acceptance of a result binds every output it names or is refused.
AcceptResult ==
    /\ up /\ owner # "none" /\ attempt.state = "running" /\ attempt.epoch = op.epoch
    /\ \E outputs \in Manifests :
        served' = served \cup {<<t, xfer[t].version>> : t \in outputs}
    /\ attempt' = [attempt EXCEPT !.state = "result_accepted"]
    /\ UNCHANGED <<op, owner, late, xfer, store, caps, fin, slots, up>>

\* The prompt is an input of the operation.
ArtifactRelationship(t) == Binding[t] = "none"

\* The operation reads its prompt (unbound) through a capability for the
\* finalized version; an instance only while it executes.
ReadCapability(t) ==
    /\ up /\ xfer[t].state = "finalized" /\ ArtifactRelationship(t)
    /\ <<t, xfer[t].version>> \notin served
    /\ served' = served \cup {<<t, xfer[t].version>>}
    /\ UNCHANGED <<scopeVars, late, xfer, store, caps, fin, slots, up>>

-----------------------------------------------------------------------------
(* The scope moves on.                                                     *)

RegisterInstance(i) ==
    /\ owner = "none" /\ owner' = i
    /\ UNCHANGED <<op, attempt, late, xfer, store, caps, fin, slots, served, up>>

\* A control intent is installed, or a hold is resumed.
ControlChanges ==
    /\ op' = [op EXCEPT !.fenced = ~@]
    /\ UNCHANGED <<attempt, owner, late, xfer, store, caps, fin, slots, served, up>>

\* Recovery begins: the operation moves to the next epoch, fenced.
RecoveryFences ==
    /\ op.epoch < MaxEpoch
    /\ op' = [fenced |-> TRUE, epoch |-> op.epoch + 1]
    /\ UNCHANGED <<attempt, owner, late, xfer, store, caps, fin, slots, served, up>>

CloseAttempt ==
    /\ attempt.state # "closed"
    /\ attempt' = [attempt EXCEPT !.state = "closed"]
    /\ UNCHANGED <<op, owner, late, xfer, store, caps, fin, slots, served, up>>

Finalize(f) == Peek(f) \/ Verify(f) \/ FinalizeSlot(f) \/ Read(f) \/ Settle(f)

Next ==
    \/ \E t \in Transfers : Begin(t) \/ Upload(t) \/ CapabilityExpires(t) \/ DeadlinePasses(t) \/ ReadCapability(t)
    \/ \E t \in Transfers, i \in Instances : Resolve(t, i)
    \/ \E f \in Finalizers : Finalize(f) \/ GiveUp(f)
    \/ Restart \/ AcceptResult \/ ControlChanges \/ RecoveryFences \/ CloseAttempt
    \/ \E i \in Instances : RegisterInstance(i)

Spec == Init /\ [][Next]_vars

-----------------------------------------------------------------------------
(* Properties.                                                             *)

(***************************************************************************)
(* What a stage binds or a reader may fetch is, for good, the version the  *)
(* transfer was finalized with: bytes of the declared digest, and a        *)
(* contained archive whenever they are an archive or had to be one         *)
(* (Finalize, BindOutputs, Read).                                          *)
(***************************************************************************)
ServedIsVerified ==
    \A s \in served :
        LET t == s[1] IN
        /\ xfer[t].state = "finalized" /\ xfer[t].version = s[2]
        /\ store[t][s[2]] = "exact"
        /\ Bytes[t] # "escape" /\ (t \in Checked => Bytes[t] = "contained")

(***************************************************************************)
(* Verification outside the locks commits nothing the scope no longer      *)
(* allows: a transfer is finalized only inside its deadline, unfenced and  *)
(* under the epoch it was begun in, whatever moved while its bytes were    *)
(* read (settle).                                                          *)
(***************************************************************************)
CommitsInScope ==
    [][\A t \in Transfers : xfer[t].state # "finalized" /\ xfer'[t].state = "finalized" =>
            t \notin late /\ (Binding[t] # "none" => ~op.fenced /\ xfer[t].epoch = op.epoch)
            /\ (Binding[t] = "attempt" => attempt.state = "running")]_vars

(***************************************************************************)
(* No slot of the archive check is lost: every slot in use is held by a    *)
(* call that still has to give it back, on every error path, so a waiting  *)
(* call is let in once the holders end (finalizeSlot).                     *)
(***************************************************************************)
SlotsAreHeld == slots = Cardinality({f \in Finalizers : fin[f].holds})

(***************************************************************************)
(* A caller that stops waiting for a slot gets its error and nothing else  *)
(* happens (finalizeSlot: "case <-ctx.Done(): return nil, ctx.Err()").     *)
(***************************************************************************)
KeepsServing == up
=============================================================================
