------------------------------ MODULE Recovery ------------------------------
(***************************************************************************)
(* Recovery from a rolled back database (application/recovery.go,          *)
(* recovery_enumeration.go, recovery_reconciliation.go and                 *)
(* recovery_disposition.go over domain/recovery.go): close the scope and   *)
(* fence it under a new epoch, enumerate the obligations the independent   *)
(* inventory kept, restore what the database lost, query and record the    *)
(* original outcomes, dispose what cannot be established, and reopen.      *)
(*                                                                         *)
(* The obligations of one operation are admitted first, as Dispatch.tla    *)
(* and Publication.tla model it: recorded, kept in the inventory,          *)
(* permitted, sent.  A backup is taken at any time and the database is     *)
(* rolled back to it at most once.  Obligations of a class are listed in   *)
(* the order of their numbers.  The window covers every obligation.        *)
(***************************************************************************)
EXTENDS Naturals, FiniteSets

CONSTANTS
    Classes,            \* class -> the numbers of its obligations
    Corrupt,            \* obligations whose object does not decode
    Runs,               \* recovery commands
    Workers,            \* calls of the steps that run at once
    PageSize,
    MaxAdmitted,        \* how many of the obligations come into being
    BackupsPrepared     \* a backup may hold an obligation recorded and not yet permitted

None == "none"
Obligations == UNION {{c} \X Classes[c] : c \in DOMAIN Classes}
Launches == {o \in Obligations : o[1] = "job_launch"}

ASSUME RecoveryAssumption ==
    /\ DOMAIN Classes \subseteq {"job_launch", "dispatch", "business_write"}
    /\ \A c \in DOMAIN Classes : Classes[c] \subseteq Nat \ {0}
    /\ None \notin Runs /\ Corrupt \subseteq Obligations /\ PageSize \in Nat \ {0} /\ MaxAdmitted \in Nat /\ BackupsPrepared \in BOOLEAN

VARIABLES
    op,         \* the operation: active, absent from the database, or fenced
    adm,        \* obligation -> where its admission is
    db,         \* obligation -> its record
    inv,        \* obligations in the inventory
    upstream,   \* obligations that happened outside
    backup,     \* the backup and what it holds
    closure,    \* the run that holds the admission closure
    run,        \* run -> phase, and class -> cursor and completion
    finding,    \* run -> obligation -> status
    seen,       \* run -> launches whose finding carries evidence of the launcher
    disp,       \* obligation -> the operator's decision
    named,      \* obligation -> the run the decision names
    worker      \* worker -> the step it is in and what it has read

sendVars == <<adm, inv, upstream>>
dbVars == <<op, db>>
runVars == <<closure, run, finding, seen, disp, named>>
vars == <<sendVars, dbVars, backup, runVars, worker>>

-----------------------------------------------------------------------------
States == {"absent", "prepared", "issued", "unknown", "settled", "not_sent", "denied", "uncleaned"}
Statuses == {"present", "missing", "restored", "resolved", "unresolved", "disposed"}
Settled == {"present", "resolved", "disposed"}
Phases == {None, "reading", "fenced", "enumerating", "reconciling", "restricted", "reopened"}
Progress == [cursor : Nat, complete : BOOLEAN]
NoProgress == [c \in DOMAIN Classes |-> [cursor |-> 0, complete |-> FALSE]]
Free == [at |-> "free"]
NoRecords == [o \in Obligations |-> "absent"]

RecoveryRun == [phase : Phases, progress : [DOMAIN Classes -> Progress]]
Operations == {"active", "absent", "fenced"}
ListStep == [at : {"list"}, run : Runs, class : DOMAIN Classes, cursor : Nat]
RecordStep == [at : {"record"}, run : Runs, class : DOMAIN Classes, cursor : Nat,
               keys : SUBSET Nat, next : Nat, complete : BOOLEAN]
FindingStep == [at : {"restore", "query", "settle", "close", "clean", "stopped"}, run : Runs, o : Obligations,
                status : Statuses \cup {None}]

\* Every variable has its type.
TypeOK ==
    /\ op \in Operations
    /\ adm \in [Obligations -> {"idle", "put", "permit", "granted", "done"}]
    /\ db \in [Obligations -> States]
    /\ inv \subseteq Obligations /\ upstream \subseteq Obligations
    /\ backup \in [state : {"none", "taken", "restored"}, op : Operations, db : [Obligations -> States]]
    /\ closure \in Runs \cup {None}
    /\ run \in [Runs -> RecoveryRun]
    /\ finding \in [Runs -> [Obligations -> Statuses \cup {None}]]
    /\ seen \in [Runs -> SUBSET Obligations]
    /\ disp \in [Obligations -> {None, "retain_exposure", "confirm_not_sent", "resolve"}]
    /\ named \in [Obligations -> Runs \cup {None}]
    /\ worker \in [Workers -> {Free} \cup ListStep \cup RecordStep \cup FindingStep]

Init ==
    /\ op = "active"
    /\ adm = [o \in Obligations |-> "idle"]
    /\ db = NoRecords
    /\ inv = {} /\ upstream = {} /\ backup = [state |-> "none", op |-> "absent", db |-> NoRecords]
    /\ closure = None
    /\ run = [r \in Runs |-> [phase |-> None, progress |-> NoProgress]]
    /\ finding = [r \in Runs |-> [o \in Obligations |-> None]]
    /\ seen = [r \in Runs |-> {}]
    /\ disp = [o \in Obligations |-> None] /\ named = [o \in Obligations |-> None]
    /\ worker = [p \in Workers |-> Free]

-----------------------------------------------------------------------------
(* Admission, sending, and the loss of the database.                       *)

IsAdmissionClosed == closure # None

Admits == op = "active" /\ ~IsAdmissionClosed

Prepare(o) ==
    /\ adm[o] = "idle" /\ db[o] = "absent" /\ Admits
    /\ Cardinality({x \in Obligations : adm[x] # "idle"}) < MaxAdmitted
    /\ db' = [db EXCEPT ![o] = "prepared"] /\ adm' = [adm EXCEPT ![o] = "put"]
    /\ UNCHANGED <<op, inv, upstream, backup, runVars, worker>>

\* The object is durable before the write answers.
Put(o) ==
    /\ adm[o] = "put"
    /\ inv' = inv \cup {o} /\ adm' = [adm EXCEPT ![o] = "permit"]
    /\ UNCHANGED <<dbVars, upstream, backup, runVars, worker>>

\* The second transaction: refused by the closure and the fence, and not
\* possible for a record the database lost.
Permit(o) ==
    /\ adm[o] = "permit"
    /\ LET granted == db[o] = "prepared" /\ Admits
       IN  /\ adm' = [adm EXCEPT ![o] = IF granted THEN "granted" ELSE "done"]
           /\ db' = IF db[o] = "prepared" THEN [db EXCEPT ![o] = IF granted THEN "issued" ELSE "denied"] ELSE db
    /\ UNCHANGED <<op, inv, upstream, backup, runVars, worker>>

\* The sender acts, or never will.
Send(o) ==
    /\ adm[o] = "granted"
    /\ adm' = [adm EXCEPT ![o] = "done"]
    /\ upstream' \in {upstream, upstream \cup {o}}
    /\ UNCHANGED <<dbVars, inv, backup, runVars, worker>>

\* The sender of a call or a write reports what happened (Observe).
Report(o) ==
    /\ o \notin Launches /\ o \in upstream /\ db[o] \in {"issued", "unknown"}
    /\ db' = [db EXCEPT ![o] = "settled"]
    /\ UNCHANGED <<sendVars, op, backup, runVars, worker>>

MayHaveHappened(o) == adm[o] = "granted" \/ o \in upstream

\* The attempt of a launch is open, or closed with nothing known of it.
OpenLaunch == {"prepared", "issued", "unknown", "denied"}

\* The owner of a launch closes its attempt, whatever fences the operation:
\* with an outcome and its cleanup unknown, with complete cleanup of what
\* ran, or with none required where nothing did and nothing will.
OwnerCloses(o) ==
    /\ o \in Launches
    /\ \/ db[o] \in OpenLaunch /\ db' = [db EXCEPT ![o] = "uncleaned"]
       \/ db[o] \in OpenLaunch \cup {"uncleaned"} /\ o \in upstream /\ db' = [db EXCEPT ![o] = "settled"]
       \/ db[o] \in OpenLaunch \cup {"uncleaned"} /\ ~MayHaveHappened(o) /\ db' = [db EXCEPT ![o] = "not_sent"]
    /\ UNCHANGED <<sendVars, op, backup, runVars, worker>>

\* A backup is complete up to one commit, or taken before the operation.
Backup ==
    /\ backup.state = "none"
    /\ BackupsPrepared \/ \A o \in Obligations : db[o] # "prepared"
    /\ \/ backup' = [state |-> "taken", op |-> op, db |-> db]
       \/ backup' = [state |-> "taken", op |-> "absent", db |-> NoRecords]
    /\ UNCHANGED <<sendVars, dbVars, runVars, worker>>

\* The database is restored; every call that was running is gone.
Rollback ==
    /\ backup.state = "taken" /\ closure = None
    /\ op' = backup.op /\ db' = backup.db
    /\ backup' = [state |-> "restored", op |-> "absent", db |-> NoRecords]
    /\ UNCHANGED <<sendVars, runVars, worker>>

-----------------------------------------------------------------------------
(* The run: begin, started, evaluate.                                      *)

NewRecoveryRun == [phase |-> "fenced", progress |-> NoProgress]

\* What is not terminal; its current execution epoch is retired.
ActiveOperations == IF op = "absent" THEN {} ELSE {op}
Fence == IF ActiveOperations # {} THEN "fenced" ELSE op

ReopenAdmission(r) == IF closure = r THEN None ELSE closure

\* Begin reads the closure ...
ReadClosure(r) ==
    /\ backup.state = "restored" /\ run[r].phase = None /\ ~IsAdmissionClosed
    /\ run' = [run EXCEPT ![r].phase = "reading"]
    /\ UNCHANGED <<sendVars, dbVars, backup, closure, finding, seen, disp, named, worker>>

\* ... and commits the run, the closure and the fence of every operation.
Begin(r) ==
    /\ run[r].phase = "reading"
    /\ run' = [run EXCEPT ![r] = NewRecoveryRun] /\ closure' = r
    /\ op' = Fence
    /\ UNCHANGED <<sendVars, db, backup, finding, seen, disp, named, worker>>

Started(r) ==
    /\ run[r].phase = "fenced"
    /\ run' = [run EXCEPT ![r].phase = "enumerating"]
    /\ UNCHANGED <<sendVars, dbVars, backup, closure, finding, seen, disp, named, worker>>

Complete(progress) == \A c \in DOMAIN Classes : progress[c].complete

Unsettled(r) == \E o \in Obligations : finding[r][o] \notin Settled \cup {None}

Evaluate(r) ==
    LET done == Complete(run[r].progress)
        next == IF ~done THEN "enumerating" ELSE IF Unsettled(r) THEN "restricted" ELSE "reopened"
    IN  /\ run[r].phase \notin {None, "reading", "reopened"} /\ (~done => run[r].phase # "fenced")
        /\ run' = [run EXCEPT ![r].phase = next]
        /\ closure' = IF next = "reopened" THEN ReopenAdmission(r) ELSE closure
        /\ UNCHANGED <<sendVars, dbVars, backup, finding, seen, disp, named, worker>>

-----------------------------------------------------------------------------
(* Enumerate: read the cursor, list a page, record it.                     *)

Take(p, step) == worker' = [worker EXCEPT ![p] = step]

ReadProgress(p, r, c) ==
    /\ worker[p] = Free /\ run[r].phase \in {"fenced", "enumerating"} /\ ~run[r].progress[c].complete
    /\ Take(p, [at |-> "list", run |-> r, class |-> c, cursor |-> run[r].progress[c].cursor])
    /\ UNCHANGED <<sendVars, dbVars, backup, runVars>>

After(c, n) == {k \in Classes[c] : k > n /\ <<c, k>> \in inv}

\* The first objects after the cursor, in the order of the keys.
PageAfter(c, n) == {k \in After(c, n) : Cardinality({j \in After(c, n) : j < k}) < PageSize}

LastOf(keys, n) == IF keys = {} THEN n ELSE CHOOSE k \in keys : \A j \in keys : j <= k

List(p) ==
    LET w == worker[p]
        keys == PageAfter(w.class, w.cursor)
    IN  /\ w.at = "list"
        /\ Take(p, [at |-> "record", run |-> w.run, class |-> w.class, cursor |-> w.cursor, keys |-> keys,
                    next |-> LastOf(keys, w.cursor), complete |-> After(w.class, w.cursor) = keys])
        /\ UNCHANGED <<sendVars, dbVars, backup, runVars>>

\* The object is an obligation of the class of its key.
Decodes(o) == o \notin Corrupt

\* The attempt was closed with definite cleanup: complete, or not required.
LaunchSettled(o) == db[o] \in {"settled", "not_sent"}

\* Mutant: an obligation the database holds is settled.
SettlementByIdentity(o) ==
    IF ~Decodes(o) THEN "unresolved" ELSE IF db[o] = "absent" THEN "missing" ELSE "present"

\* That the database holds the identity is not that its effect is settled.
Settlement(o) ==
    CASE ~Decodes(o) -> "unresolved"
      [] Decodes(o) /\ db[o] = "absent" -> "missing"
      [] o \in Launches /\ db[o] # "absent" /\ Decodes(o) -> IF LaunchSettled(o) THEN "present" ELSE "unresolved"
      [] OTHER -> IF db[o] \in {"issued", "unknown"} THEN "unresolved" ELSE "present"

\* A decision of an operator stands across runs.
Found(o) == IF Settlement(o) = "unresolved" /\ disp[o] # None THEN "disposed" ELSE Settlement(o)

\* One finding per obligation of the page that the run has none of yet.
NewFindings(r, page) ==
    [o \in Obligations |-> IF o \in page /\ finding[r][o] = None THEN Found(o) ELSE finding[r][o]]

\* The run reconciles once every class is enumerated.
Enumerated(r, progress) ==
    [phase |-> IF run[r].phase = "enumerating" /\ Complete(progress) THEN "reconciling" ELSE run[r].phase,
     progress |-> progress]

\* One commit under the run's lock; a page read from another cursor is
\* another replica's.
RecordPage(p) ==
    LET w == worker[p]
        r == w.run
        stale == run[r].progress[w.class].cursor # w.cursor \/ run[r].progress[w.class].complete
        progress == [run[r].progress EXCEPT ![w.class] = [cursor |-> w.next, complete |-> w.complete]]
    IN  /\ w.at = "record"
        /\ IF stale THEN UNCHANGED <<run, finding>>
           ELSE /\ finding' = [finding EXCEPT ![r] = NewFindings(r, {w.class} \X w.keys)]
                /\ run' = [run EXCEPT ![r] = Enumerated(r, progress)]
        /\ Take(p, Free)
        /\ UNCHANGED <<sendVars, dbVars, backup, closure, seen, disp, named>>

-----------------------------------------------------------------------------
(* Reconcile: restore, query, settle the finding.                          *)

ReadFinding(p, r, o) ==
    /\ worker[p] = Free /\ finding[r][o] \notin Settled \cup {None}
    /\ finding[r][o] = "missing" \/ db[o] # "absent"
    /\ Take(p, [at |-> IF finding[r][o] = "missing" THEN "restore" ELSE "query", run |-> r, o |-> o, status |-> finding[r][o]])
    /\ UNCHANGED <<sendVars, dbVars, backup, runVars>>

\* A lost operation comes back reconciling, its execution epoch retired.
RestoreOperation == IF op = "absent" THEN "fenced" ELSE op

\* A lost attempt, call or write comes back under its recorded epoch with an
\* unknown outcome, an attempt open.
RestoreRecord(o) == IF db[o] = "absent" THEN "unknown" ELSE db[o]

\* The finding decides under its lock whether there is something to restore.
Restore(p) ==
    LET w == worker[p]
    IN  /\ w.at = "restore"
        /\ IF finding[w.run][w.o] # "missing" THEN UNCHANGED <<dbVars, finding>>
           ELSE /\ op' = RestoreOperation
                /\ db' = [db EXCEPT ![w.o] = RestoreRecord(w.o)]
                /\ finding' = [finding EXCEPT ![w.run][w.o] = "restored"]
        /\ Take(p, [w EXCEPT !.at = "query", !.status = finding'[w.run][w.o]])
        /\ UNCHANGED <<sendVars, backup, closure, run, seen, disp, named>>

\* What the records say: settled before or outside the run.
DispatchDefinite(o) == db[o] \in {"settled", "not_sent", "denied"}
EffectDefinite(o) == db[o] \notin {"issued", "unknown"}

\* The upstream is asked for the original identity: it may know an outcome
\* of what happened, and knows nothing of the rest.
QueryDispatch(o) ==
    IF DispatchDefinite(o) THEN {<<db[o], "resolved">>}
    ELSE {<<db[o], "unresolved">>} \cup (IF o \in upstream /\ db[o] # "prepared" THEN {<<"settled", "resolved">>} ELSE {})

QueryEffect(o) ==
    IF EffectDefinite(o) THEN {<<db[o], "resolved">>}
    ELSE {<<db[o], "unresolved">>} \cup (IF o \in upstream THEN {<<"settled", "resolved">>} ELSE {})

\* Control's own records settle a launch, else its finding stays what it is.
SettleLaunchRecords(o, status) == {<<db[o], IF LaunchSettled(o) THEN "resolved" ELSE status>>}

Query(p) ==
    LET w == worker[p]
        answers == CASE w.o \in Launches -> SettleLaunchRecords(w.o, w.status)
                     [] w.o[1] = "dispatch" -> QueryDispatch(w.o)
                     [] w.o[1] = "business_write" -> QueryEffect(w.o)
    IN  /\ w.at = "query" /\ db[w.o] # "absent"
        /\ \E a \in answers :
            /\ db' = [db EXCEPT ![w.o] = a[1]]
            /\ Take(p, [w EXCEPT !.at = "settle", !.status = a[2]])
        /\ UNCHANGED <<sendVars, op, backup, runVars>>

\* A finding an operator disposed of meanwhile keeps its disposition; any
\* other status is replaced.
SettleFinding(r, o, status) ==
    finding' = IF finding[r][o] = "disposed" THEN finding ELSE [finding EXCEPT ![r][o] = status]

\* The launcher's evidence of a stopped launch is kept with its finding.
Settle(p) ==
    LET w == worker[p]
    IN  /\ w.at \in {"settle", "stopped"}
        /\ SettleFinding(w.run, w.o, w.status)
        /\ seen' = IF w.at = "stopped" /\ finding[w.run][w.o] # "disposed"
                    THEN [seen EXCEPT ![w.run] = @ \cup {w.o}] ELSE seen
        /\ Take(p, Free)
        /\ UNCHANGED <<sendVars, dbVars, backup, closure, run, disp, named>>

-----------------------------------------------------------------------------
(* RecordOutcome: the launcher's evidence about a launch.                  *)

\* The finding and the attempt are read; an attempt that is closed will be
\* closed again with its own outcome, an open one with an unknown outcome.
ReadLaunch(p, r, o) ==
    /\ worker[p] = Free /\ o \in Launches /\ finding[r][o] \in {"restored", "unresolved"}
    /\ db[o] # "absent" /\ ~LaunchSettled(o)
    /\ Take(p, [at |-> IF db[o] = "uncleaned" THEN "clean" ELSE "close", run |-> r, o |-> o, status |-> finding[r][o]])
    /\ UNCHANGED <<sendVars, dbVars, backup, runVars>>

\* Not stopped: what was found under the launch key is recorded.  Without
\* evidence, or when it cannot be recorded, the finding stays unresolved.
ObserveLaunch(p) ==
    LET w == worker[p]
    IN  /\ w.at \in {"close", "clean"}
        /\ \/ /\ w.o \in upstream /\ SettleFinding(w.run, w.o, w.status)
              /\ seen' = IF finding[w.run][w.o] = "disposed" THEN seen ELSE [seen EXCEPT ![w.run] = @ \cup {w.o}]
           \/ \E status \in {w.status, "unresolved"} : SettleFinding(w.run, w.o, status) /\ UNCHANGED seen
        /\ Take(p, Free)
        /\ UNCHANGED <<sendVars, dbVars, backup, closure, run, disp, named>>

\* CloseAttempt with complete cleanup: an open attempt is closed, a cleanup
\* that was unknown is settled under the attempt's own outcome.  An attempt
\* that another closed meanwhile is a conflict, which is passed over.
Cleaned(at, state) == IF state \in OpenLaunch \/ (at = "clean" /\ state = "uncleaned") THEN "settled" ELSE state

\* Mutant: an empty launch key is cleanup, whatever was observed.
StopUnseen(p) ==
    LET w == worker[p]
    IN  /\ w.at \in {"close", "clean"}
        /\ db' = [db EXCEPT ![w.o] = Cleaned(w.at, db[w.o])]
        /\ Take(p, [w EXCEPT !.at = "stopped", !.status = "resolved"])
        /\ UNCHANGED <<sendVars, op, backup, runVars>>

\* Stopped: the launch was observed, in this call or in one before, and its
\* key is empty now.
StopLaunch(p) ==
    LET w == worker[p]
    IN  /\ w.at \in {"close", "clean"} /\ w.o \in upstream
        /\ db' = [db EXCEPT ![w.o] = Cleaned(w.at, db[w.o])]
        /\ Take(p, [w EXCEPT !.at = "stopped", !.status = "resolved"])
        /\ UNCHANGED <<sendVars, op, backup, runVars>>

WorkerFails(p) ==
    /\ worker[p] # Free
    /\ Take(p, Free)
    /\ UNCHANGED <<sendVars, dbVars, backup, runVars>>

-----------------------------------------------------------------------------
(* Dispose: one decision per obligation, bound to verified evidence.       *)

Decisions(o) ==
    {"retain_exposure"}
    \cup (IF o \notin Launches /\ db[o] \in {"prepared", "issued", "unknown"} /\ o \notin upstream
             /\ adm[o] # "granted" THEN {"confirm_not_sent"} ELSE {})
    \cup (IF o[1] = "business_write" /\ db[o] \in {"issued", "unknown"} /\ o \in upstream THEN {"resolve"} ELSE {})

Begun(r) == run[r].phase \notin {None, "reading"}

\* An identity the database does not hold is bound to the finding of the
\* run the decision names, and only retained.  Else the decision is bound to
\* the operation, and may name any run or none.
Binds(r, o, d) ==
    /\ r # None => Begun(r)
    /\ IF db[o] = "absent" THEN r # None /\ finding[r][o] # None /\ d = "retain_exposure"
       ELSE backup.state = "restored"

Decided(o, d) ==
    CASE d = "confirm_not_sent" -> "not_sent" [] d = "resolve" -> "settled" [] d = "retain_exposure" -> db[o]

\* The finding of the run that is named, unless it is settled, is disposed
\* of; without one no finding is touched.
DisposeFinding(r, o) ==
    IF r = None \/ finding[r][o] \in Settled \cup {None} THEN finding ELSE [finding EXCEPT ![r][o] = "disposed"]

Dispose(r, o) ==
    /\ disp[o] = None
    /\ \E d \in Decisions(o) :
        /\ Binds(r, o, d)
        /\ disp' = [disp EXCEPT ![o] = d]
        /\ db' = [db EXCEPT ![o] = Decided(o, d)]
    /\ named' = [named EXCEPT ![o] = r]
    /\ finding' = DisposeFinding(r, o)
    /\ UNCHANGED <<sendVars, op, backup, closure, run, seen, worker>>

-----------------------------------------------------------------------------
Admission(o) == Prepare(o) \/ Put(o) \/ Permit(o) \/ Send(o) \/ Report(o) \/ OwnerCloses(o)

Enumerate(p) == (\E r \in Runs, c \in DOMAIN Classes : ReadProgress(p, r, c)) \/ List(p) \/ RecordPage(p)

Reconcile(p) == (\E r \in Runs, o \in Obligations : ReadFinding(p, r, o)) \/ Restore(p) \/ Query(p) \/ Settle(p)

RecordOutcome(p) == (\E r \in Runs, o \in Obligations : ReadLaunch(p, r, o)) \/ ObserveLaunch(p) \/ StopLaunch(p)

Next ==
    \/ \E o \in Obligations : Admission(o)
    \/ Backup \/ Rollback
    \/ \E r \in Runs : ReadClosure(r) \/ Begin(r) \/ Started(r) \/ Evaluate(r)
    \/ \E r \in Runs \cup {None}, o \in Obligations : Dispose(r, o)
    \/ \E p \in Workers : Enumerate(p) \/ Reconcile(p) \/ RecordOutcome(p) \/ WorkerFails(p)

Spec == Init /\ [][Next]_vars

-----------------------------------------------------------------------------
(* Properties.                                                             *)

\* The record alone does not settle a finding.
Open(o) == IF o \in Launches THEN ~LaunchSettled(o) ELSE db[o] \in {"absent", "issued", "unknown"}

\* The records settle the obligation, or the launcher's evidence a launch
\* whose owner recorded its outcome and not its cleanup.
Known(r, o) == ~Open(o) \/ (db[o] = "uncleaned" /\ o \in seen[r])

Accounted(o) == db[o] = "settled" \/ disp[o] # None \/ \E r \in Runs : db[o] = "uncleaned" /\ o \in seen[r]

(***************************************************************************)
(* Reopening forgets nothing: when a run has lifted its closure, every     *)
(* obligation that was permitted before, so that it happened or still may, *)
(* is in the database with its outcome (a launch with its cleanup, or with *)
(* the launcher's evidence), or an operator decided about it, whatever the *)
(* rollback lost, however pages and calls are interrupted and repeated.    *)
(* Nor is a decision: an obligation that nothing else settles and that was *)
(* disposed of for a run, and cannot be a second time, is never open again *)
(* in that run, although a query that began before ends after (Enumerate,  *)
(* settlement, Reconcile, RecordOutcome, settleFinding, Evaluate).         *)
(***************************************************************************)
NothingForgotten ==
    /\ (\E r \in Runs : run[r].phase = "reopened") /\ closure = None =>
            \A o \in Obligations : MayHaveHappened(o) => Accounted(o)
    /\ \A r \in Runs, o \in Obligations :
            closure = r /\ named[o] = r /\ ~Known(r, o) => finding[r][o] \in Settled \cup {None}

(***************************************************************************)
(* What recovery establishes is true: an obligation is settled only when   *)
(* it happened, closed as not sent only when it did not and never will,    *)
(* and refused only when it was never permitted (restore, queryDispatch,   *)
(* queryEffect, RecordOutcome, Dispose).                                   *)
(***************************************************************************)
EstablishedIsTrue ==
    \A o \in Obligations :
        /\ db[o] = "settled" => o \in upstream
        /\ db[o] \in {"not_sent", "denied"} => ~MayHaveHappened(o)

(***************************************************************************)
(* A decision settles the finding (Dispose: "the disposition is recorded   *)
(* and the run's finding is settled in one commit").                       *)
(***************************************************************************)
DecisionIsFinal ==
    \A r \in Runs, o \in Obligations : closure = r /\ disp[o] # None /\ Open(o) => finding[r][o] \in Settled \cup {None}

(***************************************************************************)
(* A launch that was stopped is closed with complete cleanup before its    *)
(* run reopens (RecordOutcome: "the attempt is closed ... with complete    *)
(* cleanup, and the finding resolves").                                    *)
(***************************************************************************)
StoppedIsClean ==
    (\E r \in Runs : run[r].phase = "reopened") /\ closure = None =>
        \A o \in Launches : MayHaveHappened(o) => LaunchSettled(o) \/ disp[o] # None

(***************************************************************************)
(* One run at a time holds a scope (Begin, "One run at a time per scope"). *)
(***************************************************************************)
OneRunPerScope ==
    Cardinality({r \in Runs : run[r].phase \notin {None, "reading", "reopened"}}) <= 1

(***************************************************************************)
(* A run that reopened has no open finding (Evaluate: "every finding       *)
(* settled the scope reopens").                                            *)
(***************************************************************************)
ReopenedIsSettled == \A r \in Runs : run[r].phase = "reopened" => ~Unsettled(r)
=============================================================================
