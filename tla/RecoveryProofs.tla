--------------------------- MODULE RecoveryProofs ---------------------------
(***************************************************************************)
(* What Recovery promises for any classes, obligations, runs, workers and  *)
(* page size, with its proofs: types, and that what recovery establishes   *)
(* is true; and, when no backup holds an obligation that is between its    *)
(* two transactions, that reopening forgets nothing.                       *)
(***************************************************************************)
EXTENDS Recovery, FiniteSetTheorems, WellFoundedInduction, TLAPS

-----------------------------------------------------------------------------
(* Obligations, records and steps.                                         *)

(***************************************************************************)
(* An obligation is a class and a number of it.                            *)
(***************************************************************************)
LEMMA ObligationPair ==
    /\ \A o \in Obligations : o[1] \in DOMAIN Classes /\ o[2] \in Classes[o[1]] /\ o = <<o[1], o[2]>>
    /\ \A c \in DOMAIN Classes : \A k \in Classes[c] : <<c, k>> \in Obligations
BY DEF Obligations

(***************************************************************************)
(* What a worker that is somewhere holds.                                  *)
(***************************************************************************)
LEMMA WorkerIsAt ==
    ASSUME TypeOK, NEW p \in Workers
    PROVE  /\ worker[p].at \in {"free", "list", "record", "restore", "query", "settle", "close", "clean", "stopped"}
           /\ worker[p].at = "free" => worker[p] = Free
           /\ worker[p].at = "list" => worker[p] \in ListStep
           /\ worker[p].at = "record" => worker[p] \in RecordStep
           /\ worker[p].at \in {"restore", "query", "settle", "close", "clean", "stopped"} => worker[p] \in FindingStep
           /\ worker[p] = Free => worker[p].at = "free"
<1>1. worker[p] \in {Free} \cup ListStep \cup RecordStep \cup FindingStep
  BY DEF TypeOK
<1>2. Free.at = "free"
  BY DEF Free
<1>3. CASE worker[p] = Free
  BY <1>2, <1>3
<1>4. CASE worker[p] \in ListStep
  BY <1>2, <1>4 DEF ListStep
<1>5. CASE worker[p] \in RecordStep
  BY <1>2, <1>5 DEF RecordStep
<1>6. CASE worker[p] \in FindingStep
  BY <1>2, <1>6 DEF FindingStep
<1> QED
  BY <1>1, <1>3, <1>4, <1>5, <1>6

(***************************************************************************)
(* A set of naturals has a least element.                                  *)
(***************************************************************************)
LEMMA LeastNatural ==
    ASSUME NEW T \in SUBSET Nat, T # {}
    PROVE  \E n \in T : \A m \in T : n <= m
<1> DEFINE Before == OpToRel(<, Nat)
<1>1. IsWellFoundedOn(Before, Nat)
  BY NatLessThanWellFounded
<1>2. \A x, y \in Nat : y < x => <<y, x>> \in Before
  BY DEF OpToRel
<1> HIDE DEF Before
<1>3. PICK x \in T : \A y \in T : ~(<<y, x>> \in Before)
  BY <1>1, WFMin
<1>4. \A y \in T : ~(y < x)
  BY <1>2, <1>3
<1> QED
  BY <1>4

(***************************************************************************)
(* What a page lists: every object up to its last, and all of them when it *)
(* is complete (List).                                                     *)
(***************************************************************************)
LEMMA PageIsPrefix ==
    ASSUME NEW c \in DOMAIN Classes, NEW n \in Nat
    PROVE  LET keys == PageAfter(c, n)
           IN  /\ keys \subseteq After(c, n) /\ keys \in SUBSET Nat
               /\ LastOf(keys, n) \in Nat
               /\ \A k \in After(c, n) : k <= LastOf(keys, n) => k \in keys
<1> DEFINE rest == After(c, n)
           keys == PageAfter(c, n)
           below(k) == {j \in rest : j < k}
           rank(k) == Cardinality(below(k))
<1>1. rest \in SUBSET Nat /\ \A k \in rest : k > n
  BY RecoveryAssumption DEF After
<1>2. keys \subseteq rest /\ \A k \in rest : k \in keys <=> rank(k) < PageSize
  BY DEF PageAfter
<1>3. \A k \in rest : IsFiniteSet(below(k)) /\ rank(k) \in Nat
  <2> SUFFICES ASSUME NEW k \in rest PROVE IsFiniteSet(below(k)) /\ rank(k) \in Nat
    OBVIOUS
  <2>1. below(k) \in SUBSET Nat /\ k \in Nat /\ \A j \in below(k) : j <= k
    BY <1>1
  <2>2. IsFiniteSet(below(k))
    BY <2>1, FS_BoundedSetOfNaturals
  <2> QED
    BY <2>2, FS_CardinalityType
<1>4. ASSUME NEW j \in rest, NEW k \in rest, j < k PROVE rank(j) + 1 <= rank(k)
  <2>1. j \notin below(j) /\ below(j) \cup {j} \subseteq below(k)
    BY <1>1, <1>4
  <2>2. Cardinality(below(j) \cup {j}) = rank(j) + 1
    BY <1>3, <2>1, FS_AddElement
  <2>3. Cardinality(below(j) \cup {j}) <= rank(k)
    BY <1>3, <2>1, FS_Subset
  <2> QED
    BY <2>2, <2>3
<1> HIDE DEF rank, below
<1>5. CASE keys = {}
  BY <1>1, <1>5 DEF LastOf
<1>6. CASE keys # {}
  <2> DEFINE ranks == {PageSize - rank(k) : k \in keys}
  <2>1. ranks \in SUBSET Nat /\ ranks # {}
    BY <1>2, <1>3, <1>6, RecoveryAssumption
  <2>2. PICK least \in ranks : \A m \in ranks : least <= m
    BY <2>1, LeastNatural
  <2>3. PICK last \in keys : least = PageSize - rank(last)
    BY <2>2
  <2>4. \A k \in keys : rank(k) <= rank(last)
    <3> SUFFICES ASSUME NEW k \in keys PROVE rank(k) <= rank(last)
      OBVIOUS
    <3>1. PageSize - rank(last) <= PageSize - rank(k)
      BY <2>2, <2>3
    <3> QED
      BY <1>2, <1>3, <3>1, RecoveryAssumption
  <2>5. \A k \in keys : k <= last
    <3> SUFFICES ASSUME NEW k \in keys, last < k PROVE FALSE
      BY <1>1, <1>2, <2>3
    <3>1. rank(last) + 1 <= rank(k) /\ rank(k) <= rank(last)
      BY <1>2, <1>4, <2>4
    <3> QED
      BY <1>2, <1>3, <3>1
  <2>6. LastOf(keys, n) \in keys /\ \A k \in keys : k <= LastOf(keys, n)
    BY <1>6, <2>5 DEF LastOf
  <2> DEFINE m == LastOf(keys, n)
  <2> HIDE DEF m
  <2>7. m \in keys /\ m \in rest
    BY <1>2, <2>6 DEF m
  <2>8. ASSUME NEW k \in rest, k <= m PROVE k \in keys
    <3>1. CASE k = m
      BY <2>7, <3>1
    <3>2. CASE k < m
      <4>1. rank(k) + 1 <= rank(m) /\ rank(m) < PageSize
        BY <1>2, <1>4, <2>7, <3>2
      <4>2. rank(k) < PageSize
        BY <1>3, <2>7, <4>1, RecoveryAssumption
      <4> QED
        BY <1>2, <4>2
    <3> QED
      BY <1>1, <2>7, <2>8, <3>1, <3>2
  <2> QED
    BY <1>1, <1>2, <2>7, <2>8 DEF m
<1> QED
  BY <1>5, <1>6
-----------------------------------------------------------------------------
(* Types.                                                                  *)

(***************************************************************************)
(* The first state has its types.                                          *)
(***************************************************************************)
LEMMA TypeInit == Init => TypeOK
<1> SUFFICES ASSUME Init PROVE TypeOK
  OBVIOUS
<1>1. NoRecords \in [Obligations -> States]
  BY DEF NoRecords, States
<1>2. backup \in [state : {"none", "taken", "restored"}, op : Operations, db : [Obligations -> States]]
  BY <1>1 DEF Init, Operations
<1>3. NoProgress \in [DOMAIN Classes -> Progress]
  <2>1. FALSE \in BOOLEAN
    OBVIOUS
  <2>2. [cursor |-> 0, complete |-> FALSE] \in Progress
    BY <2>1 DEF Progress
  <2> QED
    BY <2>2 DEF NoProgress
<1>4. run \in [Runs -> RecoveryRun]
  BY <1>3 DEF Init, RecoveryRun, Phases, None
<1>5. worker \in [Workers -> {Free} \cup ListStep \cup RecordStep \cup FindingStep]
  BY DEF Init
<1> QED
  BY <1>1, <1>2, <1>4, <1>5 DEF Init, TypeOK, Operations

(***************************************************************************)
(* What a record of the database becomes is a state (RestoreRecord,        *)
(* Decided).                                                               *)
(***************************************************************************)
LEMMA RecordTypes ==
    ASSUME TypeOK, NEW o \in Obligations
    PROVE  /\ db[o] \in States /\ RestoreRecord(o) \in States
           /\ \A d \in Decisions(o) : Decided(o, d) \in States /\ d \in {"retain_exposure", "confirm_not_sent", "resolve"}
           /\ Found(o) \in Statuses
<1>1. db[o] \in States
  BY DEF TypeOK
<1>2. RestoreRecord(o) \in States
  BY <1>1 DEF RestoreRecord, States
<1>3. ASSUME NEW d \in Decisions(o)
      PROVE  Decided(o, d) \in States /\ d \in {"retain_exposure", "confirm_not_sent", "resolve"}
  <2>1. d \in {"retain_exposure", "confirm_not_sent", "resolve"}
    BY DEF Decisions
  <2> QED
    BY <1>1, <2>1 DEF Decided, States
<1>4. Settlement(o) \in Statuses
  BY DEF Settlement, Statuses
<1> QED
  BY <1>1, <1>2, <1>3, <1>4 DEF Found, Statuses

(***************************************************************************)
(* Admission, sending and the loss of the database keep the types.         *)
(***************************************************************************)
LEMMA TypeAdmission ==
    ASSUME TypeOK, (\E o \in Obligations : Admission(o)) \/ Backup \/ Rollback
    PROVE  TypeOK'
<1> USE DEF TypeOK
<1>0. {"prepared", "issued", "denied", "settled", "uncleaned", "not_sent"} \subseteq States /\ NoRecords \in [Obligations -> States]
  BY DEF States, NoRecords
<1>1. ASSUME NEW o \in Obligations, Prepare(o) PROVE TypeOK'
  BY <1>0, <1>1 DEF Prepare, runVars
<1>2. ASSUME NEW o \in Obligations, Put(o) PROVE TypeOK'
  BY <1>2 DEF Put, dbVars, runVars
<1>3. ASSUME NEW o \in Obligations, Permit(o) PROVE TypeOK'
  BY <1>0, <1>3 DEF Permit, runVars
<1>4. ASSUME NEW o \in Obligations, Send(o) PROVE TypeOK'
  BY <1>4 DEF Send, dbVars, runVars
<1>5. ASSUME NEW o \in Obligations, Report(o) PROVE TypeOK'
  BY <1>0, <1>5 DEF Report, sendVars, runVars
<1>8. ASSUME NEW o \in Obligations, OwnerCloses(o) PROVE TypeOK'
  BY <1>0, <1>8 DEF OwnerCloses, sendVars, runVars
<1>6. CASE Backup
  <2>1. backup' \in [state : {"none", "taken", "restored"}, op : Operations, db : [Obligations -> States]]
    BY <1>0, <1>6 DEF Backup, Operations
  <2> QED
    BY <1>6, <2>1 DEF Backup, sendVars, dbVars, runVars
<1>7. CASE Rollback
  <2>1. backup' \in [state : {"none", "taken", "restored"}, op : Operations, db : [Obligations -> States]]
    BY <1>0, <1>7 DEF Rollback, Operations
  <2> QED
    BY <1>7, <2>1 DEF Rollback, sendVars, runVars
<1> QED
  BY <1>1, <1>2, <1>3, <1>4, <1>5, <1>6, <1>7, <1>8 DEF Admission

(***************************************************************************)
(* A run that enters a phase keeps its progress.                           *)
(***************************************************************************)
LEMMA PhaseType ==
    ASSUME NEW row \in RecoveryRun, NEW phase \in Phases
    PROVE  /\ [row EXCEPT !.phase = phase] \in RecoveryRun
           /\ [row EXCEPT !.phase = phase].progress = row.progress
           /\ [row EXCEPT !.phase = phase].phase = phase
BY DEF RecoveryRun

(***************************************************************************)
(* The steps of a run keep the types.                                      *)
(***************************************************************************)
LEMMA TypeRun ==
    ASSUME TypeOK, NEW r \in Runs, ReadClosure(r) \/ Begin(r) \/ Started(r) \/ Evaluate(r)
    PROVE  TypeOK'
<1> USE DEF TypeOK
<1>0. {None, "reading", "fenced", "enumerating", "restricted", "reopened"} \subseteq Phases
  BY DEF Phases
<1>1. ASSUME NEW phase \in Phases
      PROVE  [run EXCEPT ![r].phase = phase] \in [Runs -> RecoveryRun]
  <2>1. [run[r] EXCEPT !.phase = phase] \in RecoveryRun
    BY PhaseType
  <2> QED
    BY <2>1
<1>2. CASE ReadClosure(r)
  BY <1>0, <1>1, <1>2 DEF ReadClosure, sendVars, dbVars
<1>3. CASE Begin(r)
  <2>1. NoProgress \in [DOMAIN Classes -> Progress]
    <3>1. FALSE \in BOOLEAN
      OBVIOUS
    <3>2. [cursor |-> 0, complete |-> FALSE] \in Progress
      BY <3>1 DEF Progress
    <3> QED
      BY <3>2 DEF NoProgress
  <2>2. NewRecoveryRun \in RecoveryRun
    BY <1>0, <2>1 DEF NewRecoveryRun, RecoveryRun
  <2>3. Fence \in Operations
    BY DEF Fence, Operations
  <2>4. run' \in [Runs -> RecoveryRun] /\ closure' \in Runs \cup {None}
    BY <1>3, <2>2 DEF Begin
  <2> QED
    BY <1>3, <2>3, <2>4 DEF Begin, sendVars
<1>4. CASE Started(r)
  BY <1>0, <1>1, <1>4 DEF Started, sendVars, dbVars
<1>5. CASE Evaluate(r)
  <2>1. PICK next \in {"enumerating", "restricted", "reopened"} :
          run' = [run EXCEPT ![r].phase = next] /\ closure' = IF next = "reopened" THEN ReopenAdmission(r) ELSE closure
    BY <1>5 DEF Evaluate
  <2>2. closure' \in Runs \cup {None}
    BY <2>1 DEF ReopenAdmission
  <2>3. run' \in [Runs -> RecoveryRun]
    BY <1>0, <1>1, <2>1
  <2> QED
    BY <1>5, <2>2, <2>3 DEF Evaluate, sendVars, dbVars
<1> QED
  BY <1>2, <1>3, <1>4, <1>5

(***************************************************************************)
(* The decisions keep the types.                                           *)
(***************************************************************************)
LEMMA TypeDispose ==
    ASSUME TypeOK, NEW r \in Runs \cup {None}, NEW o \in Obligations, Dispose(r, o)
    PROVE  TypeOK'
<1>1. PICK d \in Decisions(o) : disp' = [disp EXCEPT ![o] = d] /\ db' = [db EXCEPT ![o] = Decided(o, d)]
  BY DEF Dispose
<1>2. Decided(o, d) \in States /\ d \in {"retain_exposure", "confirm_not_sent", "resolve"}
  BY RecordTypes
<1>3. disp' \in [Obligations -> {None, "retain_exposure", "confirm_not_sent", "resolve"}]
  BY <1>1, <1>2 DEF TypeOK
<1>4. db' \in [Obligations -> States]
  BY <1>1, <1>2 DEF TypeOK
<1>5. finding' \in [Runs -> [Obligations -> Statuses \cup {None}]]
  <2>1. CASE finding' = finding
    BY <2>1 DEF TypeOK
  <2>2. CASE finding' # finding
    <3>1. r \in Runs /\ finding' = [finding EXCEPT ![r][o] = "disposed"] /\ "disposed" \in Statuses
      BY <2>2 DEF Dispose, DisposeFinding, Statuses
    <3> QED
      BY <3>1 DEF TypeOK
  <2> QED
    BY <2>1, <2>2
<1>6. named' \in [Obligations -> Runs \cup {None}]
  BY DEF Dispose, TypeOK
<1> QED
  BY <1>3, <1>4, <1>5, <1>6 DEF Dispose, TypeOK, sendVars

(***************************************************************************)
(* A worker that moves to a step of its kind keeps the types.              *)
(***************************************************************************)
LEMMA TakeType ==
    ASSUME TypeOK, NEW p \in Workers,
           NEW step \in {Free} \cup ListStep \cup RecordStep \cup FindingStep, Take(p, step)
    PROVE  worker' \in [Workers -> {Free} \cup ListStep \cup RecordStep \cup FindingStep]
BY DEF Take, TypeOK

(***************************************************************************)
(* A worker that moves on with a finding keeps the run and the obligation. *)
(***************************************************************************)
LEMMA FindingStepType ==
    ASSUME NEW w \in FindingStep, NEW at \in {"query", "settle", "stopped"}, NEW status \in Statuses \cup {None}
    PROVE  /\ [w EXCEPT !.at = at, !.status = status] \in FindingStep
           /\ [w EXCEPT !.at = at, !.status = status].at = at
           /\ [w EXCEPT !.at = at, !.status = status].run = w.run
           /\ [w EXCEPT !.at = at, !.status = status].o = w.o
           /\ [w EXCEPT !.at = at, !.status = status].status = status
BY DEF FindingStep

\* The step with which a worker takes up the page it lists.
PageOf(w) ==
    LET keys == PageAfter(w.class, w.cursor)
    IN  [at |-> "record", run |-> w.run, class |-> w.class, cursor |-> w.cursor, keys |-> keys,
         next |-> LastOf(keys, w.cursor), complete |-> After(w.class, w.cursor) = keys]

(***************************************************************************)
(* The page a worker lists is one (List).                                  *)
(***************************************************************************)
LEMMA PageType ==
    ASSUME NEW w \in ListStep
    PROVE  PageOf(w) \in RecordStep
<1> DEFINE keys == PageAfter(w.class, w.cursor)
<1>1. w.run \in Runs /\ w.class \in DOMAIN Classes /\ w.cursor \in Nat
  BY DEF ListStep
<1>2. keys \in SUBSET Nat /\ LastOf(keys, w.cursor) \in Nat
  BY <1>1, PageIsPrefix
<1>3. (After(w.class, w.cursor) = keys) \in BOOLEAN
  OBVIOUS
<1> HIDE DEF keys
<1> QED
  BY <1>1, <1>2, <1>3 DEF PageOf, RecordStep, keys

\* The record alone would not settle a finding of o in state s.
OpenState(o, s) == IF o \in Launches THEN s \notin {"settled", "not_sent"} ELSE s \in {"absent", "issued", "unknown"}

(***************************************************************************)
(* What a query answers: the record is kept, or settled by what the        *)
(* upstream knows; the obligation is resolved only by a record that is     *)
(* (queryDispatch, queryEffect, settleLaunchRecords).                      *)
(***************************************************************************)
LEMMA QueryIsTrue ==
    ASSUME TypeOK, NEW p \in Workers, Query(p)
    PROVE  LET w == worker[p]
           IN  /\ w \in FindingStep
               /\ \E s \in States, status \in Statuses \cup {None} :
                    /\ db' = [db EXCEPT ![w.o] = s]
                    /\ Take(p, [w EXCEPT !.at = "settle", !.status = status])
                    /\ s = db[w.o] \/ (s = "settled" /\ w.o \in upstream)
                    /\ status \in {w.status, "unresolved"} \/ (status = "resolved" /\ ~OpenState(w.o, s))
<1> DEFINE w == worker[p]
           answers == CASE w.o \in Launches -> SettleLaunchRecords(w.o, w.status)
                        [] w.o[1] = "dispatch" -> QueryDispatch(w.o)
                        [] w.o[1] = "business_write" -> QueryEffect(w.o)
<1>1. w \in FindingStep
  BY WorkerIsAt DEF Query
<1>2. w.o \in Obligations /\ w.status \in Statuses \cup {None}
  BY <1>1 DEF FindingStep
<1>3. PICK a \in answers : db' = [db EXCEPT ![w.o] = a[1]] /\ Take(p, [w EXCEPT !.at = "settle", !.status = a[2]])
  BY DEF Query
<1>4. db[w.o] # "absent" /\ db[w.o] \in States
  BY <1>2 DEF Query, TypeOK
<1>5. w.o[1] \in {"job_launch", "dispatch", "business_write"}
  BY <1>2, ObligationPair, RecoveryAssumption
<1> HIDE DEF w
<1>6. /\ a[1] = db[w.o] \/ (a[1] = "settled" /\ w.o \in upstream)
      /\ a[2] \in {w.status, "unresolved"} \/ (a[2] = "resolved" /\ ~OpenState(w.o, a[1]))
  <2>1. CASE w.o \in Launches
    <3>1. a \in SettleLaunchRecords(w.o, w.status)
      BY <1>3, <2>1 DEF Launches
    <3> QED
      BY <2>1, <3>1 DEF SettleLaunchRecords, LaunchSettled, OpenState
  <2>2. CASE w.o \notin Launches /\ w.o[1] = "dispatch"
    BY <1>3, <1>4, <2>2 DEF QueryDispatch, DispatchDefinite, OpenState
  <2>3. CASE w.o \notin Launches /\ w.o[1] = "business_write"
    <3>1. a \in QueryEffect(w.o)
      BY <1>3, <2>3
    <3> QED
      BY <1>4, <2>3, <3>1 DEF QueryEffect, EffectDefinite, OpenState
  <2> QED
    BY <1>2, <1>5, <2>1, <2>2, <2>3 DEF Launches
<1>7. a[1] \in States /\ a[2] \in Statuses \cup {None}
  BY <1>2, <1>4, <1>6 DEF States, Statuses
<1> QED
  BY <1>1, <1>3, <1>6, <1>7 DEF w

(***************************************************************************)
(* The steps of a worker keep the types.                                   *)
(***************************************************************************)
LEMMA TypeWorker ==
    ASSUME TypeOK, NEW p \in Workers, Enumerate(p) \/ Reconcile(p) \/ RecordOutcome(p) \/ WorkerFails(p)
    PROVE  TypeOK'
<1> DEFINE w == worker[p]
<1>1. ASSUME NEW r \in Runs, NEW c \in DOMAIN Classes, ReadProgress(p, r, c) PROVE TypeOK'
  <2>1. run[r].progress[c].cursor \in Nat
    BY DEF TypeOK, RecoveryRun, Progress
  <2>2. [at |-> "list", run |-> r, class |-> c, cursor |-> run[r].progress[c].cursor] \in ListStep
    BY <2>1 DEF ListStep
  <2>3. worker' \in [Workers -> {Free} \cup ListStep \cup RecordStep \cup FindingStep]
    BY <1>1, <2>2, TakeType DEF ReadProgress
  <2> QED
    BY <1>1, <2>3 DEF ReadProgress, TypeOK, sendVars, dbVars, runVars
<1>2. CASE List(p)
  <2>1. w \in ListStep /\ Take(p, PageOf(w))
    BY <1>2, WorkerIsAt DEF List, PageOf
  <2>2. PageOf(w) \in RecordStep
    BY <2>1, PageType
  <2>3. worker' \in [Workers -> {Free} \cup ListStep \cup RecordStep \cup FindingStep]
    BY <2>1, <2>2, TakeType
  <2> QED
    BY <1>2, <2>3 DEF List, TypeOK, sendVars, dbVars, runVars
<1>3. CASE RecordPage(p)
  <2>1. w \in RecordStep
    BY <1>3, WorkerIsAt DEF RecordPage
  <2>2. w.run \in Runs /\ w.class \in DOMAIN Classes /\ w.next \in Nat /\ w.complete \in BOOLEAN
    BY <2>1 DEF RecordStep
  <2> DEFINE progress == [run[w.run].progress EXCEPT ![w.class] = [cursor |-> w.next, complete |-> w.complete]]
  <2>3. run[w.run] \in RecoveryRun
    BY <2>2 DEF TypeOK
  <2>4. [cursor |-> w.next, complete |-> w.complete] \in Progress
    BY <2>2 DEF Progress
  <2>5. progress \in [DOMAIN Classes -> Progress]
    <3>1. run[w.run].progress \in [DOMAIN Classes -> Progress]
      BY <2>3 DEF RecoveryRun
    <3> QED
      BY <2>4, <3>1
  <2>6. Enumerated(w.run, progress) \in RecoveryRun
    <3>1. run[w.run].phase \in Phases
      BY <2>3 DEF RecoveryRun
    <3> HIDE DEF progress
    <3> QED
      BY <2>5, <3>1 DEF Enumerated, RecoveryRun, Phases
  <2>7. NewFindings(w.run, {w.class} \X w.keys) \in [Obligations -> Statuses \cup {None}]
    BY <2>2, RecordTypes DEF NewFindings, TypeOK
  <2>8. run' \in [Runs -> RecoveryRun]
    BY <1>3, <2>6 DEF RecordPage, TypeOK
  <2>9. finding' \in [Runs -> [Obligations -> Statuses \cup {None}]]
    BY <1>3, <2>7 DEF RecordPage, TypeOK
  <2>10. worker' \in [Workers -> {Free} \cup ListStep \cup RecordStep \cup FindingStep]
    BY <1>3, TakeType DEF RecordPage
  <2> QED
    BY <1>3, <2>8, <2>9, <2>10 DEF RecordPage, TypeOK, sendVars, dbVars
<1>4. ASSUME NEW r \in Runs, NEW o \in Obligations, ReadFinding(p, r, o) PROVE TypeOK'
  <2>1. finding[r][o] \in Statuses \cup {None}
    BY DEF TypeOK
  <2>2. [at |-> IF finding[r][o] = "missing" THEN "restore" ELSE "query",
         run |-> r, o |-> o, status |-> finding[r][o]] \in FindingStep
    BY <2>1 DEF FindingStep
  <2>3. worker' \in [Workers -> {Free} \cup ListStep \cup RecordStep \cup FindingStep]
    BY <1>4, <2>2, TakeType DEF ReadFinding
  <2> QED
    BY <1>4, <2>3 DEF ReadFinding, TypeOK, sendVars, dbVars, runVars
<1>5. CASE Restore(p)
  <2>1. w \in FindingStep
    BY <1>5, WorkerIsAt DEF Restore
  <2>2. w.run \in Runs /\ w.o \in Obligations
    BY <2>1 DEF FindingStep
  <2>3. \/ UNCHANGED <<op, db, finding>>
        \/ /\ op' = RestoreOperation /\ db' = [db EXCEPT ![w.o] = RestoreRecord(w.o)]
           /\ finding' = [finding EXCEPT ![w.run][w.o] = "restored"]
    BY <1>5 DEF Restore, dbVars
  <2>4. op' \in Operations
    BY <2>3 DEF RestoreOperation, TypeOK, Operations
  <2>5. db' \in [Obligations -> States] /\ finding' \in [Runs -> [Obligations -> Statuses \cup {None}]]
    <3>1. RestoreRecord(w.o) \in States /\ "restored" \in Statuses
      BY <2>2, RecordTypes DEF Statuses
    <3>2. \A s \in States : [db EXCEPT ![w.o] = s] \in [Obligations -> States]
      BY DEF TypeOK
    <3>3. [finding EXCEPT ![w.run][w.o] = "restored"] \in [Runs -> [Obligations -> Statuses \cup {None}]]
      BY <2>2, <3>1 DEF TypeOK
    <3>4. CASE UNCHANGED <<op, db, finding>>
      BY <3>4 DEF TypeOK
    <3>5. CASE ~UNCHANGED <<op, db, finding>>
      BY <2>3, <3>1, <3>2, <3>3, <3>5
    <3> QED
      BY <3>4, <3>5
  <2>6. [w EXCEPT !.at = "query", !.status = finding'[w.run][w.o]] \in FindingStep
    <3>1. finding'[w.run][w.o] \in Statuses \cup {None}
      BY <2>2, <2>5
    <3>2. PICK status \in Statuses \cup {None} : status = finding'[w.run][w.o]
      BY <3>1
    <3>3. [w EXCEPT !.at = "query", !.status = status] \in FindingStep
      <4> HIDE DEF w
      <4> QED
        BY <2>1, FindingStepType
    <3> QED
      BY <3>2, <3>3
  <2>7. worker' \in [Workers -> {Free} \cup ListStep \cup RecordStep \cup FindingStep]
    BY <1>5, <2>6, TakeType DEF Restore
  <2> QED
    BY <1>5, <2>4, <2>5, <2>7 DEF Restore, TypeOK, sendVars
<1>6. CASE Query(p)
  <2>1. PICK s \in States, status \in Statuses \cup {None} :
          db' = [db EXCEPT ![w.o] = s] /\ Take(p, [w EXCEPT !.at = "settle", !.status = status])
    BY <1>6, QueryIsTrue
  <2>2. [w EXCEPT !.at = "settle", !.status = status] \in FindingStep
    BY <1>6, QueryIsTrue, FindingStepType
  <2>3. worker' \in [Workers -> {Free} \cup ListStep \cup RecordStep \cup FindingStep]
    BY <2>1, <2>2, TakeType
  <2> QED
    BY <1>6, <2>1, <2>3 DEF Query, TypeOK, sendVars, runVars
<1>7. CASE Settle(p)
  <2>1. w.run \in Runs /\ w.o \in Obligations /\ w.status \in Statuses \cup {None}
    BY <1>7, WorkerIsAt DEF Settle, FindingStep
  <2>2. finding' \in [Runs -> [Obligations -> Statuses \cup {None}]]
    BY <1>7, <2>1 DEF Settle, SettleFinding, TypeOK
  <2>3. worker' \in [Workers -> {Free} \cup ListStep \cup RecordStep \cup FindingStep]
    BY <1>7, TakeType DEF Settle
  <2>4. seen' \in [Runs -> SUBSET Obligations]
    BY <1>7, <2>1 DEF Settle, TypeOK
  <2> QED
    BY <1>7, <2>2, <2>3, <2>4 DEF Settle, TypeOK, sendVars, dbVars
<1>9. ASSUME NEW r \in Runs, NEW o \in Obligations, ReadLaunch(p, r, o) PROVE TypeOK'
  <2>1. finding[r][o] \in Statuses \cup {None}
    BY DEF TypeOK
  <2>2. [at |-> IF db[o] = "uncleaned" THEN "clean" ELSE "close",
         run |-> r, o |-> o, status |-> finding[r][o]] \in FindingStep
    BY <2>1 DEF FindingStep
  <2>3. worker' \in [Workers -> {Free} \cup ListStep \cup RecordStep \cup FindingStep]
    BY <1>9, <2>2, TakeType DEF ReadLaunch
  <2> QED
    BY <1>9, <2>3 DEF ReadLaunch, TypeOK, sendVars, dbVars, runVars
<1>10. CASE ObserveLaunch(p)
  <2>1. w.run \in Runs /\ w.o \in Obligations /\ w.status \in Statuses \cup {None} /\ "unresolved" \in Statuses
    BY <1>10, WorkerIsAt DEF ObserveLaunch, FindingStep, Statuses
  <2>2. PICK status \in Statuses \cup {None} : SettleFinding(w.run, w.o, status)
    BY <1>10, <2>1 DEF ObserveLaunch
  <2>3. finding' \in [Runs -> [Obligations -> Statuses \cup {None}]]
    BY <2>1, <2>2 DEF SettleFinding, TypeOK
  <2>4. worker' \in [Workers -> {Free} \cup ListStep \cup RecordStep \cup FindingStep]
    BY <1>10, TakeType DEF ObserveLaunch
  <2>5. seen' \in [Runs -> SUBSET Obligations]
    BY <1>10, <2>1 DEF ObserveLaunch, TypeOK
  <2> QED
    BY <1>10, <2>3, <2>4, <2>5 DEF ObserveLaunch, TypeOK, sendVars, dbVars
<1>11. CASE StopLaunch(p)
  <2>1. w \in FindingStep
    BY <1>11, WorkerIsAt DEF StopLaunch
  <2>2. w.o \in Obligations /\ "resolved" \in Statuses /\ "settled" \in States
    BY <2>1 DEF FindingStep, Statuses, States
  <2>3. db' \in [Obligations -> States]
    BY <1>11, <2>2 DEF StopLaunch, Cleaned, TypeOK
  <2>4. [w EXCEPT !.at = "stopped", !.status = "resolved"] \in FindingStep
    BY <2>1, <2>2, FindingStepType
  <2>5. worker' \in [Workers -> {Free} \cup ListStep \cup RecordStep \cup FindingStep]
    BY <1>11, <2>4, TakeType DEF StopLaunch
  <2> QED
    BY <1>11, <2>3, <2>5 DEF StopLaunch, TypeOK, sendVars, runVars
<1>8. CASE WorkerFails(p)
  <2>1. worker' \in [Workers -> {Free} \cup ListStep \cup RecordStep \cup FindingStep]
    BY <1>8, TakeType DEF WorkerFails
  <2> QED
    BY <1>8, <2>1 DEF WorkerFails, TypeOK, sendVars, dbVars, runVars
<1> QED
  BY <1>1, <1>2, <1>3, <1>4, <1>5, <1>6, <1>7, <1>8, <1>9, <1>10, <1>11 DEF Enumerate, Reconcile, RecordOutcome

(***************************************************************************)
(* Every step keeps the types.                                             *)
(***************************************************************************)
LEMMA TypeStep == TypeOK /\ [Next]_vars => TypeOK'
<1> SUFFICES ASSUME TypeOK, [Next]_vars PROVE TypeOK'
  OBVIOUS
<1>1. CASE UNCHANGED vars
  BY <1>1 DEF TypeOK, vars, sendVars, dbVars, runVars
<1>2. CASE Next
  BY <1>2, TypeAdmission, TypeRun, TypeDispose, TypeWorker DEF Next
<1> QED
  BY <1>1, <1>2

-----------------------------------------------------------------------------
(* What recovery establishes is true.                                      *)

\* What was never permitted did not happen, and a refusal ends the admission.
PermitComesFirst ==
    \A o \in Obligations :
        /\ adm[o] \in {"idle", "put", "permit"} => o \notin upstream
        /\ db[o] = "denied" => adm[o] = "done"

\* Runs come after the loss of the database.
LossComesFirst == \A r \in Runs : run[r].phase # None => backup.state = "restored"

\* What a backup holds stays true.
BackupIsTrue ==
    \A o \in Obligations :
        /\ backup.db[o] = "settled" => o \in upstream
        /\ backup.db[o] = "denied" => adm[o] = "done" /\ o \notin upstream
        /\ backup.db[o] = "not_sent" => db[o] = "not_sent"

RecoveryInv == PermitComesFirst /\ LossComesFirst /\ BackupIsTrue /\ EstablishedIsTrue

(***************************************************************************)
(* The first state has established nothing.                                *)
(***************************************************************************)
LEMMA EstablishedInit == Init => RecoveryInv
<1> SUFFICES ASSUME Init PROVE RecoveryInv
  OBVIOUS
<1>1. \A o \in Obligations : db[o] = "absent" /\ backup.db[o] = "absent" /\ adm[o] = "idle"
  BY DEF Init, NoRecords
<1>2. \A r \in Runs : run[r].phase = None
  BY DEF Init
<1> QED
  BY <1>1, <1>2
  DEF Init, RecoveryInv, PermitComesFirst, LossComesFirst, BackupIsTrue, EstablishedIsTrue, MayHaveHappened

\* A step of the run that changes nothing of what is established.
Aside ==
    /\ UNCHANGED <<adm, upstream, db, backup>>
    /\ \A r \in Runs : run'[r].phase = None <=> run[r].phase = None

(***************************************************************************)
(* The steps of the run, of the enumeration and of the findings establish  *)
(* nothing.                                                                *)
(***************************************************************************)
LEMMA AsideSteps ==
    ASSUME TypeOK,
           \/ \E r \in Runs : Begin(r) \/ Started(r) \/ Evaluate(r)
           \/ \E p \in Workers : \/ Enumerate(p) \/ Settle(p) \/ ObserveLaunch(p) \/ WorkerFails(p)
                                 \/ \E r \in Runs, o \in Obligations : ReadFinding(p, r, o) \/ ReadLaunch(p, r, o)
    PROVE  Aside
<1>0. \A r \in Runs : run[r] \in RecoveryRun
  BY DEF TypeOK
<1>1. ASSUME NEW r \in Runs, NEW row, run' = [run EXCEPT ![r] = row], row.phase # None, run[r].phase # None
      PROVE  \A q \in Runs : run'[q].phase = None <=> run[q].phase = None
  BY <1>1 DEF TypeOK
<1>2. ASSUME NEW r \in Runs, NEW phase \in Phases, run' = [run EXCEPT ![r].phase = phase], phase # None, run[r].phase # None
      PROVE  \A q \in Runs : run'[q].phase = None <=> run[q].phase = None
  <2>1. run' = [run EXCEPT ![r] = [run[r] EXCEPT !.phase = phase]]
    BY <1>2
  <2>2. [run[r] EXCEPT !.phase = phase].phase = phase
    BY <1>0, PhaseType
  <2> QED
    BY <1>1, <1>2, <2>1, <2>2
<1>3. ASSUME NEW r \in Runs, Begin(r) PROVE Aside
  <2>1. run' = [run EXCEPT ![r] = NewRecoveryRun] /\ NewRecoveryRun.phase # None /\ run[r].phase # None
    BY <1>3 DEF Begin, NewRecoveryRun, None
  <2> QED
    BY <1>1, <1>3, <2>1 DEF Begin, Aside, sendVars
<1>4. ASSUME NEW r \in Runs, Started(r) PROVE Aside
  <2>1. \A q \in Runs : run'[q].phase = None <=> run[q].phase = None
    BY <1>2, <1>4 DEF Started, Phases, None
  <2> QED
    BY <1>4, <2>1 DEF Started, Aside, sendVars, dbVars
<1>5. ASSUME NEW r \in Runs, Evaluate(r) PROVE Aside
  <2>1. \E next \in {"enumerating", "restricted", "reopened"} : run' = [run EXCEPT ![r].phase = next]
    BY <1>5 DEF Evaluate
  <2>2. run[r].phase # None
    BY <1>5 DEF Evaluate
  <2>3. \A q \in Runs : run'[q].phase = None <=> run[q].phase = None
    BY <1>2, <2>1, <2>2 DEF Phases, None
  <2> QED
    BY <1>5, <2>3 DEF Evaluate, Aside, sendVars, dbVars
<1>6. ASSUME NEW p \in Workers, RecordPage(p) PROVE Aside
  <2>1. worker[p].run \in Runs
    BY <1>6, WorkerIsAt DEF RecordPage, RecordStep
  <2>2. \/ run' = run
        \/ \E progress : run' = [run EXCEPT ![worker[p].run] = Enumerated(worker[p].run, progress)]
    BY <1>6 DEF RecordPage
  <2>3. \A progress : Enumerated(worker[p].run, progress).phase = None <=> run[worker[p].run].phase = None
    BY DEF Enumerated, None
  <2>4. \A q \in Runs : run'[q].phase = None <=> run[q].phase = None
    BY <2>1, <2>2, <2>3 DEF TypeOK
  <2> QED
    BY <1>6, <2>4 DEF RecordPage, Aside, sendVars, dbVars
<1>7. ASSUME NEW p \in Workers,
             \/ List(p) \/ Settle(p) \/ ObserveLaunch(p) \/ WorkerFails(p)
             \/ \E r \in Runs, c \in DOMAIN Classes : ReadProgress(p, r, c)
             \/ \E r \in Runs, o \in Obligations : ReadFinding(p, r, o) \/ ReadLaunch(p, r, o)
      PROVE Aside
  BY <1>7 DEF List, Settle, ObserveLaunch, WorkerFails, ReadProgress, ReadFinding, ReadLaunch, Aside, sendVars, dbVars, runVars
<1> QED
  BY <1>3, <1>4, <1>5, <1>6, <1>7 DEF Enumerate

(***************************************************************************)
(* Every step keeps what is established true.                              *)
(***************************************************************************)
LEMMA EstablishedStep ==
    ASSUME TypeOK, RecoveryInv, [Next]_vars
    PROVE  RecoveryInv'
<1> USE DEF RecoveryInv, PermitComesFirst, LossComesFirst, BackupIsTrue, EstablishedIsTrue, MayHaveHappened
<1>1. CASE UNCHANGED vars
  BY <1>1 DEF vars, sendVars, dbVars, runVars
<1>2. CASE Aside
  BY <1>2 DEF Aside
<1>3. ASSUME NEW o \in Obligations, Prepare(o) PROVE RecoveryInv'
  BY <1>3 DEF Prepare, runVars, TypeOK
<1>4. ASSUME NEW o \in Obligations, Put(o) PROVE RecoveryInv'
  BY <1>4 DEF Put, dbVars, runVars, TypeOK
<1>5. ASSUME NEW o \in Obligations, Permit(o) PROVE RecoveryInv'
  BY <1>5 DEF Permit, runVars, TypeOK
<1>6. ASSUME NEW o \in Obligations, Send(o) PROVE RecoveryInv'
  BY <1>6 DEF Send, dbVars, runVars, TypeOK
<1>7. ASSUME NEW o \in Obligations, Report(o) PROVE RecoveryInv'
  BY <1>7 DEF Report, sendVars, runVars, TypeOK
<1>8. CASE Backup
  <2>1. \A x \in Obligations : backup'.db[x] \in {db[x], "absent"}
    BY <1>8 DEF Backup, NoRecords
  <2> QED
    BY <1>8, <2>1 DEF Backup, sendVars, dbVars, runVars
<1>9. CASE Rollback
  <2>1. \A x \in Obligations : backup'.db[x] = "absent"
    BY <1>9 DEF Rollback, NoRecords
  <2> QED
    BY <1>9, <2>1 DEF Rollback, sendVars, runVars
<1>10. ASSUME NEW r \in Runs, ReadClosure(r) PROVE RecoveryInv'
  BY <1>10 DEF ReadClosure, sendVars, dbVars
<1>11. ASSUME NEW o \in Obligations, OwnerCloses(o) PROVE RecoveryInv'
  BY <1>11 DEF OwnerCloses, OpenLaunch, sendVars, runVars, TypeOK
<1>12. ASSUME NEW p \in Workers, StopLaunch(p) PROVE RecoveryInv'
  <2>1. worker[p].o \in upstream /\ db' = [db EXCEPT ![worker[p].o] = Cleaned(worker[p].at, db[worker[p].o])]
    BY <1>12 DEF StopLaunch
  <2>2. \A x \in Obligations : db'[x] = db[x] \/ (db'[x] = "settled" /\ x \in upstream)
    BY <2>1 DEF Cleaned, TypeOK
  <2> QED
    BY <1>12, <2>2 DEF StopLaunch, sendVars, runVars
<1>13. ASSUME NEW r \in Runs \cup {None}, NEW o \in Obligations, Dispose(r, o) PROVE RecoveryInv'
  <2>1. PICK d \in Decisions(o) : db' = [db EXCEPT ![o] = Decided(o, d)]
    BY <1>13 DEF Dispose
  <2>3. \/ Decided(o, d) = db[o]
        \/ Decided(o, d) = "not_sent" /\ o \notin upstream /\ adm[o] # "granted"
        \/ Decided(o, d) = "settled" /\ o \in upstream
    BY DEF Decisions, Decided
  <2> QED
    BY <1>13, <2>1, <2>3 DEF Dispose, sendVars, TypeOK
<1>14. ASSUME NEW p \in Workers, Restore(p) PROVE RecoveryInv'
  <2>1. db' = db \/ db' = [db EXCEPT ![worker[p].o] = RestoreRecord(worker[p].o)]
    BY <1>14 DEF Restore, dbVars
  <2>2. \A x \in Obligations : db'[x] = db[x] \/ (db[x] = "absent" /\ db'[x] = "unknown")
    BY <2>1 DEF RestoreRecord, TypeOK
  <2> QED
    BY <1>14, <2>2 DEF Restore, sendVars
<1>15. ASSUME NEW p \in Workers, Query(p) PROVE RecoveryInv'
  <2>1. \E s \in States : /\ db' = [db EXCEPT ![worker[p].o] = s]
                          /\ s = db[worker[p].o] \/ (s = "settled" /\ worker[p].o \in upstream)
    BY <1>15, QueryIsTrue
  <2>2. \A x \in Obligations : db'[x] = db[x] \/ (db'[x] = "settled" /\ x \in upstream)
    BY <2>1 DEF TypeOK
  <2> QED
    BY <1>15, <2>2 DEF Query, sendVars, runVars
<1>16. CASE Next
  <2> HIDE DEF RecoveryInv
  <2>1. CASE \E o \in Obligations : Admission(o)
    BY <2>1, <1>3, <1>4, <1>5, <1>6, <1>7, <1>11 DEF Admission
  <2>2. CASE \E r \in Runs : ReadClosure(r) \/ Begin(r) \/ Started(r) \/ Evaluate(r)
    BY <2>2, <1>2, <1>10, AsideSteps
  <2>3. CASE \E r \in Runs \cup {None}, o \in Obligations : Dispose(r, o)
    BY <2>3, <1>13
  <2>4. CASE \E p \in Workers : Enumerate(p) \/ Reconcile(p) \/ RecordOutcome(p) \/ WorkerFails(p)
    BY <2>4, <1>2, <1>12, <1>14, <1>15, AsideSteps DEF Reconcile, RecordOutcome
  <2> QED
    BY <1>8, <1>9, <1>16, <2>1, <2>2, <2>3, <2>4 DEF Next
<1> QED
  BY <1>1, <1>16

(***************************************************************************)
(* The inductive invariant: types, and what recovery establishes, with     *)
(* what makes it true.                                                     *)
(***************************************************************************)
THEOREM RecoveryInvariant == Spec => [](TypeOK /\ RecoveryInv)
<1>1. Init => TypeOK /\ RecoveryInv
  BY TypeInit, EstablishedInit
<1>2. TypeOK /\ RecoveryInv /\ [Next]_vars => (TypeOK /\ RecoveryInv)'
  BY TypeStep, EstablishedStep
<1> QED
  BY <1>1, <1>2, PTL DEF Spec

(***************************************************************************)
(* Every variable has its type, always.                                    *)
(***************************************************************************)
THEOREM RecoveryTypes == Spec => []TypeOK
BY RecoveryInvariant, PTL

(***************************************************************************)
(* What recovery establishes is true, for any obligations, any number of   *)
(* runs and workers, and any backup: a record is settled only when the     *)
(* obligation happened, not sent only when it did not and never will, and  *)
(* denied only when it was never permitted (restore, queryDispatch,        *)
(* queryEffect, RecordOutcome, Dispose).                                   *)
(***************************************************************************)
THEOREM RecoveryEstablishesTruth == Spec => []EstablishedIsTrue
<1>1. RecoveryInv => EstablishedIsTrue
  BY DEF RecoveryInv
<1> QED
  BY <1>1, RecoveryInvariant, PTL

-----------------------------------------------------------------------------
(* Reopening forgets nothing.                                              *)

\* Steps, findings and the decisions that name a run are those of a run that
\* has begun.
RunComesFirst ==
    \A r \in Runs : ~Begun(r) =>
        /\ \A p \in Workers : worker[p] = Free \/ worker[p].run # r
        /\ \A o \in Obligations : finding[r][o] = None /\ named[o] # r

\* A run that has begun fenced the operation: nothing is permitted any more.
ScopeIsFenced == \A r \in Runs : Begun(r) => op # "active"

\* What was permitted is in the inventory.
InventoryComesFirst == \A o \in Obligations : adm[o] \in {"permit", "granted", "done"} => o \in inv

\* A record is prepared while its admission is between the transactions,
\* and only a launch is cleaned up.
PreparedIsOpen ==
    \A o \in Obligations :
        /\ db[o] = "prepared" => adm[o] \in {"put", "permit"}
        /\ backup.db[o] # "prepared"
        /\ "uncleaned" \in {db[o], backup.db[o]} => o \in Launches

\* A finding that is settled is settled by the record, by the launcher's
\* evidence or by a decision.
FindingIsTrue(r) ==
    \A o \in Obligations :
        /\ finding[r][o] \in {"present", "resolved"} => Known(r, o)
        /\ finding[r][o] = "disposed" => disp[o] # None

\* The attempt of a stopped launch is closed.
IsClosed(o) == ~Open(o) \/ db[o] = "uncleaned"

\* The status a worker is about to write is true.
StatusIsTrue(w) ==
    /\ finding[w.run][w.o] # None /\ w.status # None
    /\ w.at # "stopped" /\ w.status \in {"present", "resolved"} => Known(w.run, w.o)
    /\ w.at = "stopped" => w.status = "resolved" /\ IsClosed(w.o)
    /\ w.at \in {"close", "clean"} => w.o \in Launches /\ db[w.o] # "absent"
    /\ w.status = "disposed" => disp[w.o] # None

StepIsTrue == \A p \in Workers : worker[p] \in FindingStep => StatusIsTrue(worker[p])

\* An open obligation that was decided for the run is disposed of, or will
\* be found so.
DecisionStands(r) ==
    \A o \in Obligations : named[o] = r =>
        /\ disp[o] # None
        /\ ~Known(r, o) => /\ finding[r][o] \in {"disposed", None}
                           /\ finding[r][o] = None => db[o] # "absent"

\* What may have happened has a finding once the cursor has passed it.
PagesAreListed(r) ==
    \A o \in Obligations :
        /\ MayHaveHappened(o)
        /\ run[r].progress[o[1]].complete \/ o[2] <= run[r].progress[o[1]].cursor
        => finding[r][o] # None

\* And is on the page that will move the cursor past it.
PageIsWhole(w) ==
    \A k \in Classes[w.class] :
        MayHaveHappened(<<w.class, k>>) /\ k > w.cursor /\ (w.complete \/ k <= w.next) => k \in w.keys

StepIsWhole == \A p \in Workers : worker[p] \in RecordStep => PageIsWhole(worker[p])

ReopenedIsClean(r) ==
    run[r].phase = "reopened" => \A o \in Obligations : MayHaveHappened(o) => Accounted(o)

\* What a run that has begun knows.
RunIsTrue(r) == FindingIsTrue(r) /\ DecisionStands(r) /\ PagesAreListed(r) /\ ReopenedIsClean(r)

RunInv ==
    /\ RunComesFirst /\ ScopeIsFenced /\ StepIsTrue /\ StepIsWhole
    /\ \A r \in Runs : Begun(r) => RunIsTrue(r)

ReopenInv == InventoryComesFirst /\ PreparedIsOpen /\ RunInv

(***************************************************************************)
(* What may have happened is in the inventory, and a record that is not    *)
(* open then says so.                                                      *)
(***************************************************************************)
LEMMA HappenedIsKept ==
    ASSUME TypeOK, RecoveryInv, InventoryComesFirst, PreparedIsOpen, NEW o \in Obligations, MayHaveHappened(o)
    PROVE  /\ o \in inv
           /\ ~Open(o) => db[o] = "settled"
<1>1. adm[o] \in {"granted", "done"}
  BY DEF TypeOK, RecoveryInv, PermitComesFirst, MayHaveHappened
<1>2. db[o] \in States /\ db[o] \notin {"prepared", "not_sent", "denied"}
  BY <1>1 DEF TypeOK, RecoveryInv, EstablishedIsTrue, PreparedIsOpen
<1>3. o \in inv
  BY <1>1 DEF InventoryComesFirst
<1> QED
  BY <1>2, <1>3 DEF Open, LaunchSettled, States, PreparedIsOpen

(***************************************************************************)
(* No step permits what the inventory does not hold, and none leaves a     *)
(* record prepared behind its admission.                                   *)
(***************************************************************************)
LEMMA AdmissionStep ==
    ASSUME TypeOK, RecoveryInv, InventoryComesFirst, PreparedIsOpen, BackupsPrepared = FALSE, [Next]_vars
    PROVE  InventoryComesFirst' /\ PreparedIsOpen'
<1> USE DEF InventoryComesFirst, PreparedIsOpen
<1>1. CASE UNCHANGED <<adm, inv, db, backup>>
  BY <1>1
<1>2. ASSUME NEW o \in Obligations, Prepare(o) PROVE InventoryComesFirst' /\ PreparedIsOpen'
  BY <1>2 DEF Prepare, TypeOK
<1>3. ASSUME NEW o \in Obligations, Put(o) PROVE InventoryComesFirst' /\ PreparedIsOpen'
  BY <1>3 DEF Put, dbVars, TypeOK
<1>4. ASSUME NEW o \in Obligations, Permit(o) PROVE InventoryComesFirst' /\ PreparedIsOpen'
  BY <1>4 DEF Permit, TypeOK
<1>5. ASSUME NEW o \in Obligations, Send(o) PROVE InventoryComesFirst' /\ PreparedIsOpen'
  BY <1>5 DEF Send, dbVars, TypeOK
<1>6. ASSUME NEW o \in Obligations, Report(o) PROVE InventoryComesFirst' /\ PreparedIsOpen'
  BY <1>6 DEF Report, sendVars, TypeOK
<1>10. ASSUME NEW o \in Obligations, OwnerCloses(o) PROVE InventoryComesFirst' /\ PreparedIsOpen'
  BY <1>10 DEF OwnerCloses, sendVars, TypeOK
<1>7. CASE Backup
  <2>1. \A x \in Obligations : backup'.db[x] # "prepared" /\ backup'.db[x] \in {db[x], "absent"}
    BY <1>7 DEF Backup, NoRecords
  <2> QED
    BY <1>7, <2>1 DEF Backup, sendVars, dbVars
<1>8. CASE Rollback
  <2>1. \A x \in Obligations : backup'.db[x] = "absent"
    BY <1>8 DEF Rollback, NoRecords
  <2> QED
    BY <1>8, <2>1 DEF Rollback, sendVars
<1>9. ASSUME UNCHANGED <<adm, inv, backup>>,
             \A o \in Obligations : db'[o] = db[o] \/ db'[o] \in {"settled", "not_sent", "unknown"}
      PROVE  InventoryComesFirst' /\ PreparedIsOpen'
  BY <1>9
<1>11. ASSUME NEW r \in Runs \cup {None}, NEW o \in Obligations, Dispose(r, o)
       PROVE  InventoryComesFirst' /\ PreparedIsOpen'
  <2>1. PICK d \in Decisions(o) : db' = [db EXCEPT ![o] = Decided(o, d)]
    BY <1>11 DEF Dispose
  <2>2. Decided(o, d) = db[o] \/ Decided(o, d) \in {"settled", "not_sent"}
    BY DEF Decisions, Decided
  <2>3. \A x \in Obligations : db'[x] = db[x] \/ db'[x] \in {"settled", "not_sent", "unknown"}
    BY <2>1, <2>2 DEF TypeOK
  <2> QED
    BY <1>9, <1>11, <2>3 DEF Dispose, sendVars
<1>12. ASSUME NEW p \in Workers, Restore(p) PROVE InventoryComesFirst' /\ PreparedIsOpen'
  <2>1. \A x \in Obligations : db'[x] = db[x] \/ db'[x] \in {"settled", "not_sent", "unknown"}
    BY <1>12 DEF Restore, dbVars, RestoreRecord, TypeOK
  <2> QED
    BY <1>9, <1>12, <2>1 DEF Restore, sendVars
<1>13. ASSUME NEW p \in Workers, Query(p) PROVE InventoryComesFirst' /\ PreparedIsOpen'
  <2>1. \E s \in States : db' = [db EXCEPT ![worker[p].o] = s] /\ (s = db[worker[p].o] \/ s = "settled")
    BY <1>13, QueryIsTrue
  <2>2. \A x \in Obligations : db'[x] = db[x] \/ db'[x] \in {"settled", "not_sent", "unknown"}
    BY <2>1 DEF TypeOK
  <2> QED
    BY <1>9, <1>13, <2>2 DEF Query, sendVars
<1>15. ASSUME NEW p \in Workers, StopLaunch(p) PROVE InventoryComesFirst' /\ PreparedIsOpen'
  <2>1. \A x \in Obligations : db'[x] = db[x] \/ db'[x] \in {"settled", "not_sent", "unknown"}
    BY <1>15 DEF StopLaunch, Cleaned, TypeOK
  <2> QED
    BY <1>9, <1>15, <2>1 DEF StopLaunch, sendVars
<1>14. CASE \/ UNCHANGED vars
            \/ \E r \in Runs : ReadClosure(r) \/ Begin(r) \/ Started(r) \/ Evaluate(r)
            \/ \E p \in Workers : \/ Enumerate(p) \/ Settle(p) \/ ObserveLaunch(p) \/ WorkerFails(p)
                                  \/ \E r \in Runs, o \in Obligations : ReadFinding(p, r, o) \/ ReadLaunch(p, r, o)
  <2>1. UNCHANGED <<adm, inv, db, backup>>
    BY <1>14, ZenonT(40) DEF vars, ReadClosure, Begin, Started, Evaluate, ObserveLaunch, Enumerate, ReadProgress, List, RecordPage,
                 Settle, WorkerFails, ReadFinding, ReadLaunch, sendVars, dbVars
  <2> QED
    BY <1>1, <2>1
<1> HIDE DEF InventoryComesFirst, PreparedIsOpen
<1> QED
  BY <1>2, <1>3, <1>4, <1>5, <1>6, <1>7, <1>8, <1>10, <1>11, <1>12, <1>13, <1>14, <1>15
  DEF Next, Admission, Reconcile, RecordOutcome

\* What a step does to an obligation while a run is under way: what may have
\* happened only shrinks, and what is known, closed, recorded, decided or
\* accounted for stays so.
GoesOn(o) ==
    /\ MayHaveHappened(o)' => MayHaveHappened(o)
    /\ \A r \in Runs : Known(r, o) => Known(r, o)'
    /\ IsClosed(o) => IsClosed(o)'
    /\ db'[o] = "absent" => db[o] = "absent"
    /\ disp[o] # None => disp'[o] # None
    /\ Accounted(o) /\ MayHaveHappened(o)' => Accounted(o)'

\* What a step does to a record while a run is under way.
RecordGoesOn(o) ==
    \/ db'[o] = db[o]
    \/ db'[o] = "settled"
    \/ db'[o] = "not_sent" /\ ~MayHaveHappened(o)
    \/ db'[o] = "uncleaned" /\ o \in Launches /\ db[o] \in OpenLaunch
    \/ db[o] = "absent" /\ db'[o] = "unknown"
    \/ db[o] = "prepared" /\ db'[o] = "denied"

(***************************************************************************)
(* So it goes on when its record does.                                     *)
(***************************************************************************)
LEMMA GoesOnWithRecord ==
    ASSUME NEW o \in Obligations, RecordGoesOn(o), MayHaveHappened(o)' => MayHaveHappened(o),
           disp[o] # None => disp'[o] # None, \A r \in Runs : o \in seen[r] => o \in seen'[r]
    PROVE  GoesOn(o)
<1> USE DEF RecordGoesOn, OpenLaunch, Open, LaunchSettled
<1>1. ~Open(o) => ~Open(o)'
  OBVIOUS
<1>2. db[o] = "uncleaned" => db'[o] \in {"uncleaned", "settled", "not_sent"}
  OBVIOUS
<1>3. db'[o] \in {"settled", "not_sent"} => ~Open(o)'
  OBVIOUS
<1>4. db[o] = "settled" /\ MayHaveHappened(o) => db'[o] = "settled"
  OBVIOUS
<1>5. db'[o] = "absent" => db[o] = "absent"
  OBVIOUS
<1>6. db'[o] = "not_sent" /\ MayHaveHappened(o) => db[o] = "not_sent"
  OBVIOUS
<1> HIDE DEF RecordGoesOn, OpenLaunch, Open, LaunchSettled
<1>7. \A r \in Runs : Known(r, o) => Known(r, o)'
  BY <1>1, <1>2, <1>3 DEF Known
<1>8. IsClosed(o) => IsClosed(o)'
  BY <1>1, <1>2, <1>3 DEF IsClosed
<1>9. Accounted(o) /\ MayHaveHappened(o)' => Accounted(o)'
  BY <1>2, <1>4, <1>6 DEF Accounted
<1> QED
  BY <1>5, <1>7, <1>8, <1>9 DEF GoesOn

(***************************************************************************)
(* While a run is under way every step goes on, and the operation stays    *)
(* fenced.                                                                 *)
(***************************************************************************)
LEMMA Onward ==
    ASSUME TypeOK, RecoveryInv, ScopeIsFenced, [Next]_vars, NEW r \in Runs, Begun(r)
    PROVE  op' # "active" /\ \A o \in Obligations : GoesOn(o)
<1> DEFINE Kept == /\ op' # "active"
                   /\ \A o \in Obligations : RecordGoesOn(o) /\ (MayHaveHappened(o)' => MayHaveHappened(o))
                   /\ \A o \in Obligations : disp[o] # None => disp'[o] # None
                   /\ \A o \in Obligations : \A q \in Runs : o \in seen[q] => o \in seen'[q]
<1> USE DEF RecordGoesOn
<1>0. op # "active" /\ ~Admits /\ backup.state = "restored"
  BY DEF ScopeIsFenced, Admits, RecoveryInv, LossComesFirst, Begun
<1>1. ASSUME UNCHANGED <<adm, upstream, db, op, disp, seen>> PROVE Kept
  BY <1>0, <1>1 DEF MayHaveHappened
<1>2. ASSUME NEW o \in Obligations, Admission(o) PROVE Kept
  <2>1. ~Prepare(o)
    BY <1>0 DEF Prepare
  <2>2. CASE Put(o)
    BY <1>0, <2>2 DEF Put, dbVars, runVars, TypeOK, MayHaveHappened
  <2>3. CASE Permit(o)
    BY <1>0, <2>3 DEF Permit, runVars, TypeOK, MayHaveHappened
  <2>4. CASE Send(o)
    BY <1>0, <2>4 DEF Send, dbVars, runVars, TypeOK, MayHaveHappened
  <2>5. CASE Report(o)
    BY <1>0, <2>5 DEF Report, sendVars, runVars, TypeOK, MayHaveHappened
  <2>6. CASE OwnerCloses(o)
    BY <1>0, <2>6 DEF OwnerCloses, sendVars, runVars, TypeOK, MayHaveHappened
  <2> QED
    BY <1>2, <2>1, <2>2, <2>3, <2>4, <2>5, <2>6 DEF Admission
<1>3. ASSUME NEW q \in Runs, Begin(q) PROVE Kept
  <2>1. op' # "active"
    BY <1>3 DEF Begin, Fence, ActiveOperations
  <2> QED
    BY <1>3, <2>1 DEF Begin, sendVars, MayHaveHappened
<1>4. ASSUME NEW p \in Workers, StopLaunch(p) PROVE Kept
  <2>1. \A x \in Obligations : db'[x] = db[x] \/ db'[x] = "settled"
    BY <1>4 DEF StopLaunch, Cleaned, TypeOK
  <2> QED
    BY <1>0, <1>4, <2>1 DEF StopLaunch, sendVars, runVars, MayHaveHappened
<1>5. ASSUME NEW q \in Runs \cup {None}, NEW o \in Obligations, Dispose(q, o) PROVE Kept
  <2>1. PICK d \in Decisions(o) : disp' = [disp EXCEPT ![o] = d] /\ db' = [db EXCEPT ![o] = Decided(o, d)]
    BY <1>5 DEF Dispose
  <2>2. d \in {"retain_exposure", "confirm_not_sent", "resolve"}
    BY DEF Decisions
  <2>3. Decided(o, d) = db[o] \/ (Decided(o, d) = "not_sent" /\ ~MayHaveHappened(o)) \/ Decided(o, d) = "settled"
    BY DEF Decisions, Decided, MayHaveHappened
  <2>4. \A x \in Obligations : disp[x] # None => disp'[x] # None
    BY <2>1, <2>2 DEF TypeOK, None
  <2>5. \A x \in Obligations : RecordGoesOn(x)
    BY <2>1, <2>3 DEF TypeOK
  <2>6. UNCHANGED <<adm, upstream, op, seen>>
    BY <1>5 DEF Dispose, sendVars
  <2> QED
    BY <1>0, <2>4, <2>5, <2>6 DEF MayHaveHappened
<1>6. ASSUME NEW p \in Workers, Restore(p) PROVE Kept
  <2>1. op' # "active"
    BY <1>0, <1>6 DEF Restore, dbVars, RestoreOperation
  <2>2. \A x \in Obligations : db'[x] = db[x] \/ (db[x] = "absent" /\ db'[x] = "unknown")
    BY <1>6 DEF Restore, dbVars, RestoreRecord, TypeOK
  <2> QED
    BY <1>6, <2>1, <2>2 DEF Restore, sendVars, MayHaveHappened
<1>7. ASSUME NEW p \in Workers, Query(p) PROVE Kept
  <2>1. \E s \in States : db' = [db EXCEPT ![worker[p].o] = s] /\ (s = db[worker[p].o] \/ s = "settled")
    BY <1>7, QueryIsTrue
  <2>2. \A x \in Obligations : db'[x] = db[x] \/ db'[x] = "settled"
    BY <2>1 DEF TypeOK
  <2> QED
    BY <1>0, <1>7, <2>2 DEF Query, sendVars, runVars, MayHaveHappened
<1>8. ASSUME NEW p \in Workers, Settle(p) \/ ObserveLaunch(p) PROVE Kept
  <2>1. seen' = seen \/ \E q, x : seen' = [seen EXCEPT ![q] = @ \cup {x}]
    BY <1>8 DEF Settle, ObserveLaunch
  <2>2. \A o \in Obligations : \A q \in Runs : o \in seen[q] => o \in seen'[q]
    BY <2>1 DEF TypeOK
  <2>3. UNCHANGED <<adm, upstream, db, op, disp>>
    BY <1>8 DEF Settle, ObserveLaunch, sendVars, dbVars
  <2> QED
    BY <1>0, <2>2, <2>3 DEF MayHaveHappened
<1>9. ASSUME \/ UNCHANGED vars \/ Backup
             \/ \E q \in Runs : ReadClosure(q) \/ Started(q) \/ Evaluate(q)
             \/ \E p \in Workers : \/ Enumerate(p) \/ WorkerFails(p)
                                   \/ \E q \in Runs, o \in Obligations : ReadFinding(p, q, o) \/ ReadLaunch(p, q, o)
      PROVE  Kept
  <2>1. UNCHANGED <<adm, upstream, db, op, disp, seen>>
    BY <1>9 DEF vars, Backup, ReadClosure, Started, Evaluate, Enumerate, ReadProgress, List, RecordPage,
                WorkerFails, ReadFinding, ReadLaunch, sendVars, dbVars, runVars
  <2> QED
    BY <1>1, <2>1
<1>10. ~Rollback
  BY <1>0 DEF Rollback
<1> HIDE DEF Kept
<1>11. Kept
  BY <1>2, <1>3, <1>4, <1>5, <1>6, <1>7, <1>8, <1>9, <1>10 DEF Next, Reconcile, RecordOutcome
<1> QED
  BY <1>11, GoesOnWithRecord DEF Kept

(***************************************************************************)
(* A run that has begun stays so, and only Begin makes one begun.          *)
(***************************************************************************)
LEMMA BegunStays ==
    ASSUME TypeOK, [Next]_vars, NEW r \in Runs
    PROVE  /\ Begun(r) => Begun(r)'
           /\ Begun(r)' /\ ~Begun(r) => Begin(r)
<1>0. \A q \in Runs : run[q] \in RecoveryRun
  BY DEF TypeOK
<1>1. CASE UNCHANGED run
  BY <1>1 DEF Begun
<1>2. ASSUME NEW q \in Runs, NEW phase \in Phases, run' = [run EXCEPT ![q].phase = phase]
      PROVE  run'[r].phase = IF r = q THEN phase ELSE run[r].phase
  <2>1. run'[r] = IF r = q THEN [run[q] EXCEPT !.phase = phase] ELSE run[r]
    BY <1>2 DEF TypeOK
  <2>2. [run[q] EXCEPT !.phase = phase].phase = phase
    BY <1>0, PhaseType
  <2> QED
    BY <2>1, <2>2
<1>3. ASSUME NEW q \in Runs, ReadClosure(q) PROVE Begun(r)' <=> Begun(r)
  BY <1>2, <1>3 DEF ReadClosure, Begun, Phases
<1>4. ASSUME NEW q \in Runs, Begin(q) PROVE (Begun(r) => Begun(r)') /\ (Begun(r)' /\ ~Begun(r) => Begin(r))
  <2>1. run'[r] = IF r = q THEN NewRecoveryRun ELSE run[r]
    BY <1>4 DEF Begin, TypeOK
  <2>2. NewRecoveryRun.phase = "fenced"
    BY DEF NewRecoveryRun
  <2>3. CASE r = q
    BY <1>4, <2>1, <2>2, <2>3 DEF Begun, None
  <2>4. CASE r # q
    BY <2>1, <2>4 DEF Begun
  <2> QED
    BY <2>3, <2>4
<1>5. ASSUME NEW q \in Runs, Started(q) PROVE Begun(r)' <=> Begun(r)
  BY <1>2, <1>5 DEF Started, Begun, Phases, None
<1>6. ASSUME NEW q \in Runs, Evaluate(q) PROVE Begun(r)' <=> Begun(r)
  <2>1. PICK next \in {"enumerating", "restricted", "reopened"} : run' = [run EXCEPT ![q].phase = next]
    BY <1>6 DEF Evaluate
  <2>2. run[q].phase \notin {None, "reading"}
    BY <1>6 DEF Evaluate
  <2> QED
    BY <1>2, <2>1, <2>2 DEF Begun, Phases, None
<1>7. ASSUME NEW p \in Workers, RecordPage(p) PROVE Begun(r)' <=> Begun(r)
  <2>1. CASE UNCHANGED run
    BY <2>1 DEF Begun
  <2>2. CASE ~UNCHANGED run
    <3>1. PICK progress : run' = [run EXCEPT ![worker[p].run] = Enumerated(worker[p].run, progress)]
      BY <1>7, <2>2 DEF RecordPage
    <3>2. worker[p].run \in Runs
      BY <1>7, WorkerIsAt DEF RecordPage, RecordStep
    <3>3. run'[r] = IF r = worker[p].run THEN Enumerated(r, progress) ELSE run[r]
      BY <3>1, <3>2 DEF TypeOK
    <3>4. Enumerated(r, progress).phase = run[r].phase \/ {Enumerated(r, progress).phase, run[r].phase} = {"enumerating", "reconciling"}
      BY DEF Enumerated
    <3> QED
      BY <3>3, <3>4 DEF Begun, None
  <2> QED
    BY <2>1, <2>2
<1>8. CASE \/ UNCHANGED vars \/ (\E o \in Obligations : Admission(o)) \/ Backup \/ Rollback
           \/ \E q \in Runs \cup {None}, o \in Obligations : Dispose(q, o)
           \/ \E p \in Workers : Reconcile(p) \/ RecordOutcome(p) \/ WorkerFails(p) \/ List(p)
           \/ \E p \in Workers, q \in Runs, c \in DOMAIN Classes : ReadProgress(p, q, c)
  <2>1. UNCHANGED run
    BY <1>8 DEF vars, Admission, Prepare, Put, Permit, Send, Report, OwnerCloses, Backup, Rollback, Dispose, Reconcile,
                ReadFinding, Restore, Query, Settle, RecordOutcome, ReadLaunch, ObserveLaunch, StopLaunch, WorkerFails,
                List, ReadProgress, runVars
  <2> QED
    BY <1>1, <2>1
<1> QED
  BY <1>3, <1>4, <1>5, <1>6, <1>7, <1>8 DEF Next, Enumerate

(***************************************************************************)
(* A worker that is in a step is in one of a run that has begun.           *)
(***************************************************************************)
LEMMA StepOfRun ==
    ASSUME TypeOK, RunComesFirst, NEW p \in Workers, worker[p] # Free
    PROVE  worker[p].run \in Runs /\ Begun(worker[p].run)
<1>1. worker[p] \in ListStep \cup RecordStep \cup FindingStep
  BY DEF TypeOK
<1>2. worker[p].run \in Runs
  BY <1>1 DEF ListStep, RecordStep, FindingStep
<1> QED
  BY <1>2 DEF RunComesFirst

(***************************************************************************)
(* So are the step a worker takes up and the finding it writes.            *)
(***************************************************************************)
LEMMA WorkerOfRun ==
    ASSUME TypeOK, RunComesFirst, NEW p \in Workers,
           Enumerate(p) \/ Reconcile(p) \/ RecordOutcome(p) \/ WorkerFails(p)
    PROVE  /\ UNCHANGED <<disp, named>>
           /\ \E q \in Runs : Begun(q)
           /\ \E step : /\ Take(p, step) /\ (step = Free \/ (step.run \in Runs /\ Begun(step.run)))
           /\ \A q \in Runs : ~Begun(q) => finding'[q] = finding[q]
<1> DEFINE w == worker[p]
           Goal == /\ UNCHANGED <<disp, named>>
                   /\ \E q \in Runs : Begun(q)
                   /\ \E step : /\ Take(p, step) /\ (step = Free \/ (step.run \in Runs /\ Begun(step.run)))
                   /\ \A q \in Runs : ~Begun(q) => finding'[q] = finding[q]
<1>0. w.at # "free" => w # Free /\ w.run \in Runs /\ Begun(w.run)
  BY StepOfRun DEF Free
<1>1. ASSUME NEW q \in Runs, NEW c \in DOMAIN Classes, ReadProgress(p, q, c) PROVE Goal
  <2>1. PICK step : step = [at |-> "list", run |-> q, class |-> c, cursor |-> run[q].progress[c].cursor]
    OBVIOUS
  <2>2. step.run = q /\ Take(p, step) /\ Begun(q)
    BY <1>1, <2>1 DEF ReadProgress, Begun, None
  <2> QED
    BY <1>1, <2>2 DEF ReadProgress, runVars
<1>2. CASE List(p)
  <2>1. PICK step : step = PageOf(w)
    OBVIOUS
  <2>2. step.run = w.run /\ Take(p, step) /\ w.at # "free"
    BY <1>2, <2>1 DEF List, PageOf
  <2> QED
    BY <1>0, <1>2, <2>2 DEF List, runVars
<1>3. CASE RecordPage(p)
  <2>1. w.at # "free" /\ Take(p, Free)
    BY <1>3 DEF RecordPage
  <2>2. \A q \in Runs : q # w.run => finding'[q] = finding[q]
    BY <1>3 DEF RecordPage, TypeOK
  <2> QED
    BY <1>0, <1>3, <2>1, <2>2 DEF RecordPage
<1>4. ASSUME NEW q \in Runs, NEW o \in Obligations, ReadFinding(p, q, o) PROVE Goal
  <2>1. PICK step : step = [at |-> IF finding[q][o] = "missing" THEN "restore" ELSE "query",
                            run |-> q, o |-> o, status |-> finding[q][o]]
    OBVIOUS
  <2>2. step.run = q /\ Take(p, step) /\ finding[q][o] # None
    BY <1>4, <2>1 DEF ReadFinding
  <2>3. Begun(q)
    BY <2>2 DEF RunComesFirst
  <2> QED
    BY <1>4, <2>2, <2>3 DEF ReadFinding, runVars
<1>5. CASE Restore(p)
  <2>1. PICK step : step = [w EXCEPT !.at = "query", !.status = finding'[w.run][w.o]]
    OBVIOUS
  <2>2. w.at # "free" /\ Take(p, step) /\ w \in FindingStep
    BY <1>5, <2>1, WorkerIsAt DEF Restore
  <2>3. step.run = w.run
    BY <2>1, <2>2 DEF FindingStep
  <2>4. \A q \in Runs : q # w.run => finding'[q] = finding[q]
    BY <1>5 DEF Restore, TypeOK
  <2> QED
    BY <1>0, <1>5, <2>2, <2>3, <2>4 DEF Restore
<1>6. CASE Query(p)
  <2>1. PICK status : Take(p, [w EXCEPT !.at = "settle", !.status = status])
    BY <1>6, QueryIsTrue
  <2>2. PICK step : step = [w EXCEPT !.at = "settle", !.status = status]
    OBVIOUS
  <2>3. w.at # "free" /\ w \in FindingStep
    BY <1>6, WorkerIsAt DEF Query
  <2>4. step.run = w.run
    BY <2>2, <2>3 DEF FindingStep
  <2> QED
    BY <1>0, <1>6, <2>1, <2>2, <2>3, <2>4 DEF Query, runVars
<1>7. CASE Settle(p) \/ ObserveLaunch(p)
  <2>1. w.at # "free" /\ Take(p, Free) /\ UNCHANGED <<disp, named>>
    BY <1>7 DEF Settle, ObserveLaunch
  <2>2. \A q \in Runs : q # w.run => finding'[q] = finding[q]
    BY <1>7 DEF Settle, ObserveLaunch, SettleFinding, TypeOK
  <2> QED
    BY <1>0, <2>1, <2>2
<1>8. ASSUME NEW q \in Runs, NEW o \in Obligations, ReadLaunch(p, q, o) PROVE Goal
  <2>1. PICK step : step = [at |-> IF db[o] = "uncleaned" THEN "clean" ELSE "close",
                            run |-> q, o |-> o, status |-> finding[q][o]]
    OBVIOUS
  <2>2. step.run = q /\ Take(p, step) /\ finding[q][o] # None
    BY <1>8, <2>1 DEF ReadLaunch, None
  <2>3. Begun(q)
    BY <2>2 DEF RunComesFirst
  <2> QED
    BY <1>8, <2>2, <2>3 DEF ReadLaunch, runVars
<1>9. CASE StopLaunch(p)
  <2>1. PICK step : step = [w EXCEPT !.at = "stopped", !.status = "resolved"]
    OBVIOUS
  <2>2. w.at # "free" /\ Take(p, step) /\ w \in FindingStep
    BY <1>9, <2>1, WorkerIsAt DEF StopLaunch
  <2>3. step.run = w.run
    BY <2>1, <2>2 DEF FindingStep
  <2> QED
    BY <1>0, <1>9, <2>2, <2>3 DEF StopLaunch, runVars
<1>10. CASE WorkerFails(p)
  BY <1>10, StepOfRun DEF WorkerFails, runVars
<1> QED
  BY <1>1, <1>2, <1>3, <1>4, <1>5, <1>6, <1>7, <1>8, <1>9, <1>10 DEF Enumerate, Reconcile, RecordOutcome

(***************************************************************************)
(* Every step keeps that a run comes first.                                *)
(***************************************************************************)
LEMMA FirstStep ==
    ASSUME TypeOK, RunComesFirst, [Next]_vars
    PROVE  RunComesFirst'
<1> SUFFICES ASSUME NEW r \in Runs, ~Begun(r)'
             PROVE  /\ \A p \in Workers : worker'[p] = Free \/ worker'[p].run # r
                    /\ \A o \in Obligations : finding'[r][o] = None /\ named'[o] # r
  BY DEF RunComesFirst
<1>0. /\ ~Begun(r)
      /\ \A p \in Workers : worker[p] = Free \/ worker[p].run # r
      /\ \A o \in Obligations : finding[r][o] = None /\ named[o] # r
  BY BegunStays DEF RunComesFirst
<1>1. CASE UNCHANGED <<worker, finding, named>>
  BY <1>0, <1>1
<1>2. ASSUME NEW q \in Runs \cup {None}, NEW o \in Obligations, Dispose(q, o)
      PROVE  /\ \A p \in Workers : worker'[p] = Free \/ worker'[p].run # r
             /\ \A x \in Obligations : finding'[r][x] = None /\ named'[x] # r
  <2>1. q # r
    <3>1. PICK d \in Decisions(o) : Binds(q, o, d)
      BY <1>2 DEF Dispose
    <3> QED
      BY <1>0, <3>1, RecoveryAssumption DEF Binds
  <2>2. worker' = worker /\ named' = [named EXCEPT ![o] = q] /\ finding' = DisposeFinding(q, o)
    BY <1>2 DEF Dispose
  <2>3. finding'[r] = finding[r]
    BY <2>1, <2>2 DEF DisposeFinding, TypeOK
  <2>4. \A x \in Obligations : named'[x] # r
    BY <1>0, <2>1, <2>2 DEF TypeOK
  <2> QED
    BY <1>0, <2>2, <2>3, <2>4
<1>3. ASSUME NEW p \in Workers, Enumerate(p) \/ Reconcile(p) \/ RecordOutcome(p) \/ WorkerFails(p)
      PROVE  /\ \A x \in Workers : worker'[x] = Free \/ worker'[x].run # r
             /\ \A o \in Obligations : finding'[r][o] = None /\ named'[o] # r
  <2>1. named' = named /\ finding'[r] = finding[r]
    BY <1>0, <1>3, WorkerOfRun
  <2>2. PICK step : Take(p, step) /\ (step = Free \/ (step.run \in Runs /\ Begun(step.run)))
    BY <1>3, WorkerOfRun
  <2>3. step = Free \/ step.run # r
    BY <1>0, <2>2
  <2>4. \A x \in Workers : worker'[x] = IF x = p THEN step ELSE worker[x]
    BY <2>2 DEF Take, TypeOK
  <2> QED
    BY <1>0, <2>1, <2>3, <2>4
<1>4. CASE \/ UNCHANGED vars \/ (\E o \in Obligations : Admission(o)) \/ Backup \/ Rollback
           \/ \E q \in Runs : ReadClosure(q) \/ Begin(q) \/ Started(q) \/ Evaluate(q)
  <2>1. UNCHANGED <<worker, finding, named>>
    BY <1>4 DEF vars, Admission, Prepare, Put, Permit, Send, Report, OwnerCloses, Backup, Rollback, ReadClosure, Begin,
                Started, Evaluate, runVars
  <2> QED
    BY <1>1, <2>1
<1> QED
  BY <1>2, <1>3, <1>4 DEF Next

\* A step keeps a finding, or writes what the record, the launcher's evidence
\* or a decision settles.
FindingGoesOn(r, o) ==
    /\ finding[r][o] # None => finding'[r][o] # None
    /\ finding'[r][o] # finding[r][o] =>
        /\ finding'[r][o] \in {"present", "resolved"} => Known(r, o)'
        /\ finding'[r][o] = "disposed" => disp'[o] # None
        /\ named'[o] = r /\ ~Known(r, o)' => finding'[r][o] = "disposed"

(***************************************************************************)
(* While a run goes on, what it found stays true, and what was decided for *)
(* it stands.                                                              *)
(***************************************************************************)
LEMMA FindingsGoOn ==
    ASSUME NEW r \in Runs, RunIsTrue(r), \A o \in Obligations : GoesOn(o), \A o \in Obligations : FindingGoesOn(r, o),
           \A o \in Obligations : named'[o] = r => named[o] = r
    PROVE  FindingIsTrue(r)' /\ DecisionStands(r)'
<1>1. ASSUME NEW o \in Obligations
      PROVE  /\ finding'[r][o] \in {"present", "resolved"} => Known(r, o)'
             /\ finding'[r][o] = "disposed" => disp'[o] # None
  BY DEF GoesOn, FindingGoesOn, RunIsTrue, FindingIsTrue
<1>2. ASSUME NEW o \in Obligations, named'[o] = r
      PROVE  /\ disp'[o] # None
             /\ ~Known(r, o)' => /\ finding'[r][o] \in {"disposed", None}
                                 /\ finding'[r][o] = None => db'[o] # "absent"
  <2>1. disp[o] # None /\ GoesOn(o) /\ FindingGoesOn(r, o)
    BY <1>2 DEF RunIsTrue, DecisionStands
  <2>2. ~Known(r, o) => /\ finding[r][o] \in {"disposed", None}
                        /\ finding[r][o] = None => db[o] # "absent"
    BY <1>2 DEF RunIsTrue, DecisionStands
  <2> QED
    BY <1>2, <2>1, <2>2 DEF GoesOn, FindingGoesOn, None
<1>3. FindingIsTrue(r)'
  BY <1>1 DEF FindingIsTrue
<1> QED
  BY <1>2, <1>3 DEF DecisionStands

(***************************************************************************)
(* While no cursor moves, what was listed stays so, and a run that         *)
(* reopened stays clean.                                                   *)
(***************************************************************************)
LEMMA ListedGoesOn ==
    ASSUME NEW r \in Runs, RunIsTrue(r), \A o \in Obligations : GoesOn(o),
           \A o \in Obligations : finding[r][o] # None => finding'[r][o] # None
    PROVE  /\ run'[r].progress = run[r].progress => PagesAreListed(r)'
           /\ (run'[r].phase = "reopened" => run[r].phase = "reopened") => ReopenedIsClean(r)'
<1>1. ASSUME run'[r].progress = run[r].progress PROVE PagesAreListed(r)'
  <2> SUFFICES ASSUME NEW o \in Obligations, MayHaveHappened(o)',
                      run'[r].progress[o[1]].complete \/ o[2] <= run'[r].progress[o[1]].cursor
               PROVE  finding'[r][o] # None
    BY DEF PagesAreListed
  <2> QED
    BY <1>1 DEF GoesOn, RunIsTrue, PagesAreListed
<1>2. ASSUME run'[r].phase = "reopened" => run[r].phase = "reopened" PROVE ReopenedIsClean(r)'
  <2> SUFFICES ASSUME run'[r].phase = "reopened", NEW o \in Obligations, MayHaveHappened(o)' PROVE Accounted(o)'
    BY DEF ReopenedIsClean
  <2>1. GoesOn(o) /\ MayHaveHappened(o)
    BY DEF GoesOn
  <2>2. Accounted(o)
    BY <1>2, <2>1 DEF RunIsTrue, ReopenedIsClean
  <2> QED
    BY <2>1, <2>2 DEF GoesOn
<1> QED
  BY <1>1, <1>2

(***************************************************************************)
(* So a run that only its findings change stays true.                      *)
(***************************************************************************)
LEMMA RunGoesOn ==
    ASSUME NEW r \in Runs, RunIsTrue(r), \A o \in Obligations : GoesOn(o), \A o \in Obligations : FindingGoesOn(r, o),
           \A o \in Obligations : named'[o] = r => named[o] = r,
           run'[r].progress = run[r].progress, run'[r].phase = "reopened" => run[r].phase = "reopened"
    PROVE  RunIsTrue(r)'
<1>1. FindingIsTrue(r)' /\ DecisionStands(r)'
  BY FindingsGoOn
<1>2. \A o \in Obligations : finding[r][o] # None => finding'[r][o] # None
  BY DEF FindingGoesOn
<1>3. PagesAreListed(r)' /\ ReopenedIsClean(r)'
  BY <1>2, ListedGoesOn
<1> QED
  BY <1>1, <1>3 DEF RunIsTrue

(***************************************************************************)
(* While a run goes on, what a worker holds stays true and whole.          *)
(***************************************************************************)
LEMMA HeldGoesOn ==
    ASSUME TypeOK, RunInv, \A o \in Obligations : GoesOn(o),
           \A q \in Runs, o \in Obligations : finding[q][o] # None => finding'[q][o] # None,
           NEW p \in Workers, NEW w, worker[p] = w
    PROVE  /\ w \in FindingStep => StatusIsTrue(w)'
           /\ w \in RecordStep => PageIsWhole(w)'
<1>1. ASSUME w \in FindingStep PROVE StatusIsTrue(w)'
  <2>1. w.o \in Obligations /\ w.run \in Runs /\ StatusIsTrue(w)
    BY <1>1 DEF FindingStep, RunInv, StepIsTrue
  <2>2. PICK o \in Obligations, q \in Runs : o = w.o /\ q = w.run
    BY <2>1
  <2>3. /\ finding[q][o] # None /\ w.status # None
        /\ w.at # "stopped" /\ w.status \in {"present", "resolved"} => Known(q, o)
        /\ w.at = "stopped" => w.status = "resolved" /\ IsClosed(o)
        /\ w.at \in {"close", "clean"} => o \in Launches /\ db[o] # "absent"
        /\ w.status = "disposed" => disp[o] # None
    BY <2>1, <2>2 DEF StatusIsTrue
  <2>4. /\ finding'[q][o] # None /\ w.status # None
        /\ w.at # "stopped" /\ w.status \in {"present", "resolved"} => Known(q, o)'
        /\ w.at = "stopped" => w.status = "resolved" /\ IsClosed(o)'
        /\ w.at \in {"close", "clean"} => o \in Launches /\ db'[o] # "absent"
        /\ w.status = "disposed" => disp'[o] # None
    BY <2>3 DEF GoesOn
  <2> QED
    BY <2>2, <2>4 DEF StatusIsTrue
<1>2. ASSUME w \in RecordStep PROVE PageIsWhole(w)'
  <2>1. w.class \in DOMAIN Classes /\ PageIsWhole(w)
    BY <1>2 DEF RecordStep, RunInv, StepIsWhole
  <2>2. \A k \in Classes[w.class] : MayHaveHappened(<<w.class, k>>)' => MayHaveHappened(<<w.class, k>>)
    BY <2>1, ObligationPair DEF GoesOn
  <2> QED
    BY <2>1, <2>2 DEF PageIsWhole
<1> QED
  BY <1>1, <1>2

(***************************************************************************)
(* So it does when one worker takes up a step that is true and whole.      *)
(***************************************************************************)
LEMMA StepsGoOn ==
    ASSUME TypeOK, RunInv, \A o \in Obligations : GoesOn(o),
           \A q \in Runs, o \in Obligations : finding[q][o] # None => finding'[q][o] # None,
           \/ UNCHANGED worker
           \/ \E p \in Workers : \E step : /\ worker' = [worker EXCEPT ![p] = step]
                                           /\ step \in FindingStep => StatusIsTrue(step)'
                                           /\ step \in RecordStep => PageIsWhole(step)'
    PROVE  StepIsTrue' /\ StepIsWhole'
<1>1. ASSUME NEW x \in Workers, NEW w, worker'[x] = w
      PROVE  /\ w \in FindingStep => StatusIsTrue(w)'
             /\ w \in RecordStep => PageIsWhole(w)'
  <2>1. CASE worker'[x] = worker[x]
    BY <1>1, <2>1, HeldGoesOn
  <2>2. CASE worker'[x] # worker[x]
    BY <1>1, <2>2 DEF TypeOK
  <2> QED
    BY <2>1, <2>2
<1>2. StepIsTrue'
  <2> SUFFICES ASSUME NEW x \in Workers, worker'[x] \in FindingStep PROVE StatusIsTrue(worker[x])'
    BY DEF StepIsTrue
  <2>1. PICK w : worker'[x] = w
    OBVIOUS
  <2>2. StatusIsTrue(w)'
    BY <1>1, <2>1
  <2> QED
    BY <2>1, <2>2 DEF StatusIsTrue
<1>3. StepIsWhole'
  <2> SUFFICES ASSUME NEW x \in Workers, worker'[x] \in RecordStep PROVE PageIsWhole(worker[x])'
    BY DEF StepIsWhole
  <2>1. PICK w : worker'[x] = w
    OBVIOUS
  <2>2. PageIsWhole(w)'
    BY <1>1, <2>1
  <2> QED
    BY <2>1, <2>2 DEF PageIsWhole
<1> QED
  BY <1>2, <1>3

(***************************************************************************)
(* A run begins with no findings and its cursors before the first object.  *)
(***************************************************************************)
LEMMA NewRunIsTrue ==
    ASSUME TypeOK, RunComesFirst, NEW r \in Runs, Begin(r)
    PROVE  RunIsTrue(r)'
<1>1. run'[r] = NewRecoveryRun /\ UNCHANGED <<finding, named>>
  BY DEF Begin, TypeOK
<1>2. \A o \in Obligations : finding'[r][o] = None /\ named'[o] # r
  BY <1>1 DEF RunComesFirst, Begin, Begun
<1>3. FindingIsTrue(r)' /\ DecisionStands(r)'
  BY <1>2 DEF FindingIsTrue, DecisionStands, None
<1>4. ASSUME NEW o \in Obligations
      PROVE  ~(run'[r].progress[o[1]].complete \/ o[2] <= run'[r].progress[o[1]].cursor)
  <2>1. o[1] \in DOMAIN Classes /\ o[2] \in Nat \ {0}
    BY ObligationPair, RecoveryAssumption
  <2>2. run'[r].progress[o[1]] = [cursor |-> 0, complete |-> FALSE]
    BY <1>1, <2>1 DEF NewRecoveryRun, NoProgress
  <2> QED
    BY <2>1, <2>2
<1>5. run'[r].phase = "fenced"
  BY <1>1 DEF NewRecoveryRun
<1> QED
  BY <1>3, <1>4, <1>5 DEF RunIsTrue, PagesAreListed, ReopenedIsClean

(***************************************************************************)
(* What is left to show of a step: that the workers hold what is true and  *)
(* whole, and that a run that had begun stays true.                        *)
(***************************************************************************)
LEMMA Assemble ==
    ASSUME TypeOK, RecoveryInv, RunInv, [Next]_vars, StepIsTrue', StepIsWhole',
           \A r \in Runs : Begun(r) => RunIsTrue(r)'
    PROVE  RunInv'
<1>1. RunComesFirst'
  BY FirstStep DEF RunInv
<1>2. ASSUME NEW r \in Runs, Begun(r)' PROVE op' # "active" /\ RunIsTrue(r)'
  <2>1. CASE Begun(r)
    BY <2>1, Onward DEF RunInv
  <2>2. CASE ~Begun(r)
    <3>1. Begin(r)
      BY <1>2, <2>2, BegunStays
    <3>2. op' # "active"
      BY <3>1 DEF Begin, Fence, ActiveOperations
    <3> QED
      BY <3>1, <3>2, NewRunIsTrue DEF RunInv
  <2> QED
    BY <2>1, <2>2
<1> QED
  BY <1>1, <1>2 DEF RunInv, ScopeIsFenced

(***************************************************************************)
(* Before any run has begun no worker is at work.                          *)
(***************************************************************************)
LEMMA RunBegins ==
    ASSUME TypeOK, RecoveryInv, RunInv, [Next]_vars, \A r \in Runs : ~Begun(r)
    PROVE  RunInv'
<1>1. \A p \in Workers : worker[p] = Free
  BY StepOfRun DEF RunInv
<1>2. Free \notin FindingStep /\ Free \notin RecordStep
  BY DEF Free, FindingStep, RecordStep
<1>3. ASSUME NEW p \in Workers, Enumerate(p) \/ Reconcile(p) \/ RecordOutcome(p) \/ WorkerFails(p) PROVE FALSE
  BY <1>3, WorkerOfRun DEF RunInv
<1>4. UNCHANGED worker
  <2>1. CASE \/ UNCHANGED vars \/ (\E o \in Obligations : Admission(o)) \/ Backup \/ Rollback
             \/ \E q \in Runs : ReadClosure(q) \/ Begin(q) \/ Started(q) \/ Evaluate(q)
             \/ \E q \in Runs \cup {None}, o \in Obligations : Dispose(q, o)
    BY <2>1 DEF vars, Admission, Prepare, Put, Permit, Send, Report, OwnerCloses, Backup, Rollback, ReadClosure, Begin,
                Started, Evaluate, Dispose
  <2> QED
    BY <1>3, <2>1 DEF Next
<1>5. StepIsTrue' /\ StepIsWhole'
  BY <1>1, <1>2, <1>4 DEF StepIsTrue, StepIsWhole
<1> QED
  BY <1>5, Assemble


(***************************************************************************)
(* What a run that is not the one at work, or whose findings stay, keeps.  *)
(***************************************************************************)
LEMMA SameFinding ==
    ASSUME NEW r \in Runs, NEW o \in Obligations, finding'[r][o] = finding[r][o]
    PROVE  FindingGoesOn(r, o)
BY DEF FindingGoesOn

(***************************************************************************)
(* A worker that takes up a step that is true and whole, while the runs    *)
(* and the decisions stay, keeps what the runs know.                       *)
(***************************************************************************)
LEMMA WorkerGoesOn ==
    ASSUME TypeOK, RecoveryInv, RunInv, NEW r \in Runs, Begun(r), [Next]_vars, UNCHANGED <<run, named>>,
           \A q \in Runs, o \in Obligations : FindingGoesOn(q, o),
           \/ UNCHANGED worker
           \/ \E p \in Workers : \E step : /\ worker' = [worker EXCEPT ![p] = step]
                                           /\ step \in FindingStep => StatusIsTrue(step)'
                                           /\ step \in RecordStep => PageIsWhole(step)'
    PROVE  RunInv'
<1>1. \A o \in Obligations : GoesOn(o)
  BY Onward DEF RunInv
<1>2. \A q \in Runs, o \in Obligations : finding[q][o] # None => finding'[q][o] # None
  BY DEF FindingGoesOn
<1>3. StepIsTrue' /\ StepIsWhole'
  BY <1>1, <1>2, StepsGoOn
<1>4. ASSUME NEW q \in Runs, Begun(q) PROVE RunIsTrue(q)'
  <2>1. RunIsTrue(q)
    BY <1>4 DEF RunInv
  <2>2. \A o \in Obligations : FindingGoesOn(q, o)
    OBVIOUS
  <2> QED
    BY <1>1, <2>1, <2>2, RunGoesOn
<1> QED
  BY <1>3, <1>4, Assemble

(***************************************************************************)
(* A run reopens once every class is enumerated and every finding is       *)
(* settled: then all that may have happened is accounted for (Evaluate).   *)
(***************************************************************************)
LEMMA SettledIsAccounted ==
    ASSUME TypeOK, RecoveryInv, InventoryComesFirst, PreparedIsOpen, NEW r \in Runs, RunIsTrue(r),
           Complete(run[r].progress), ~Unsettled(r), NEW o \in Obligations, MayHaveHappened(o)
    PROVE  Accounted(o)
<1>1. run[r].progress[o[1]].complete
  BY ObligationPair DEF Complete
<1>2. finding[r][o] # None
  BY <1>1 DEF RunIsTrue, PagesAreListed
<1>3. finding[r][o] \in Settled
  BY <1>2 DEF Unsettled
<1>4. Known(r, o) \/ disp[o] # None
  BY <1>3 DEF Settled, RunIsTrue, FindingIsTrue
<1>5. ~Open(o) => db[o] = "settled"
  BY HappenedIsKept
<1> QED
  BY <1>4, <1>5 DEF Known, Accounted

(***************************************************************************)
(* The steps outside the runs, and those that only move a run's phase,     *)
(* keep what the runs know.                                                *)
(***************************************************************************)
LEMMA PhaseStep ==
    ASSUME TypeOK, RecoveryInv, ReopenInv, NEW r \in Runs, Begun(r), [Next]_vars,
           NEW q \in Runs, ReadClosure(q) \/ Begin(q) \/ Started(q) \/ Evaluate(q)
    PROVE  RunInv'
<1>0. RunInv /\ \A o \in Obligations : GoesOn(o)
  BY Onward DEF ReopenInv, RunInv
<1>1. UNCHANGED <<finding, named, worker>>
  BY DEF ReadClosure, Begin, Started, Evaluate
<1>2. \A x \in Runs, o \in Obligations : FindingGoesOn(x, o) /\ (finding[x][o] # None => finding'[x][o] # None)
  BY <1>1 DEF FindingGoesOn
<1>3. StepIsTrue' /\ StepIsWhole'
  BY <1>0, <1>1, <1>2, StepsGoOn
<1>4. \A x \in Runs : x # q => run'[x] = run[x]
  BY DEF ReadClosure, Begin, Started, Evaluate, TypeOK
<1>5. run[q] \in RecoveryRun
  BY DEF TypeOK
<1>6. ASSUME Begun(q)
      PROVE  \E next \in {"enumerating", "restricted", "reopened"} :
                /\ run'[q].progress = run[q].progress /\ run'[q].phase = next
                /\ next = "reopened" => Complete(run[q].progress) /\ ~Unsettled(q)
  <2>1. ~ReadClosure(q) /\ ~Begin(q)
    BY <1>6 DEF ReadClosure, Begin, Begun
  <2>2. PICK next \in {"enumerating", "restricted", "reopened"} :
          /\ run' = [run EXCEPT ![q].phase = next]
          /\ next = "reopened" => Complete(run[q].progress) /\ ~Unsettled(q)
    BY <2>1 DEF Started, Evaluate
  <2>3. run'[q] = [run[q] EXCEPT !.phase = next]
    BY <2>2 DEF TypeOK
  <2>4. next \in Phases
    BY DEF Phases
  <2>5. run'[q].progress = run[q].progress /\ run'[q].phase = next
    BY <1>5, <2>3, <2>4, PhaseType
  <2> QED
    BY <2>2, <2>5
<1>7. ASSUME NEW x \in Runs, Begun(x) PROVE RunIsTrue(x)'
  <2>1. RunIsTrue(x) /\ \A o \in Obligations : FindingGoesOn(x, o)
    BY <1>0, <1>2, <1>7 DEF RunInv
  <2>2. \A o \in Obligations : named'[o] = x => named[o] = x
    BY <1>1
  <2>3. CASE x # q
    BY <1>0, <1>4, <2>1, <2>2, <2>3, RunGoesOn
  <2>4. CASE x = q
    <3>1. PICK next \in {"enumerating", "restricted", "reopened"} :
            /\ run'[q].progress = run[q].progress /\ run'[q].phase = next
            /\ next = "reopened" => Complete(run[q].progress) /\ ~Unsettled(q)
      BY <1>6, <1>7, <2>4
    <3>2. CASE next # "reopened"
      BY <1>0, <2>1, <2>2, <2>4, <3>1, <3>2, RunGoesOn
    <3>3. CASE next = "reopened"
      <4>1. FindingIsTrue(q)' /\ DecisionStands(q)'
        BY <1>0, <2>1, <2>2, <2>4, FindingsGoOn
      <4>2. PagesAreListed(q)'
        BY <1>0, <1>2, <2>1, <2>4, <3>1, ListedGoesOn
      <4>3. ASSUME NEW o \in Obligations, MayHaveHappened(o)' PROVE Accounted(o)'
        <5>1. MayHaveHappened(o) /\ GoesOn(o)
          BY <1>0, <4>3 DEF GoesOn
        <5>2. Accounted(o)
          BY <2>1, <2>4, <3>1, <3>3, <5>1, SettledIsAccounted DEF ReopenInv
        <5> QED
          BY <4>3, <5>1, <5>2 DEF GoesOn
      <4>4. ReopenedIsClean(q)'
        BY <4>3 DEF ReopenedIsClean
      <4> QED
        BY <2>4, <4>1, <4>2, <4>4 DEF RunIsTrue
    <3> QED
      BY <3>2, <3>3
  <2> QED
    BY <2>3, <2>4
<1> QED
  BY <1>0, <1>3, <1>7, Assemble

(***************************************************************************)
(* A decision that names a run disposes of its finding, and one that names *)
(* none touches no run (Dispose).                                          *)
(***************************************************************************)
LEMMA DisposeStep ==
    ASSUME TypeOK, RecoveryInv, RunInv, NEW r \in Runs, Begun(r), [Next]_vars,
           NEW q \in Runs \cup {None}, NEW o \in Obligations, Dispose(q, o)
    PROVE  RunInv'
<1>0. \A x \in Obligations : GoesOn(x)
  BY Onward DEF RunInv
<1>1. PICK d \in Decisions(o) : Binds(q, o, d) /\ disp' = [disp EXCEPT ![o] = d]
  BY DEF Dispose
<1>2. disp'[o] # None
  <2>1. d \in {"retain_exposure", "confirm_not_sent", "resolve"}
    BY DEF Decisions
  <2> QED
    BY <1>1, <2>1 DEF TypeOK, None
<1>3. UNCHANGED <<run, worker>> /\ named' = [named EXCEPT ![o] = q] /\ finding' = DisposeFinding(q, o)
  BY DEF Dispose
<1>4. \A x \in Obligations : named'[x] = IF x = o THEN q ELSE named[x]
  BY <1>3 DEF TypeOK
<1>5. \A x \in Runs, y \in Obligations :
        finding'[x][y] = IF x = q /\ y = o /\ finding[x][y] \notin Settled \cup {None} THEN "disposed" ELSE finding[x][y]
  BY <1>3, RecoveryAssumption DEF DisposeFinding, TypeOK
<1>6. \A x \in Runs, y \in Obligations : finding[x][y] # None => finding'[x][y] # None
  BY <1>5 DEF None
<1>7. StepIsTrue' /\ StepIsWhole'
  BY <1>0, <1>3, <1>6, StepsGoOn
<1>8. ASSUME NEW x \in Runs, Begun(x) PROVE RunIsTrue(x)'
  <2>1. RunIsTrue(x)
    BY <1>8 DEF RunInv
  <2>2. CASE x # q
    <3>1. \A y \in Obligations : FindingGoesOn(x, y) /\ (named'[y] = x => named[y] = x)
      BY <1>4, <1>5, <2>2, SameFinding
    <3> QED
      BY <1>0, <1>3, <2>1, <3>1, RunGoesOn
  <2>3. CASE x = q
    <3>1. ASSUME NEW y \in Obligations
          PROVE  /\ finding'[q][y] \in {"present", "resolved"} => Known(q, y)'
                 /\ finding'[q][y] = "disposed" => disp'[y] # None
      <4>1. /\ GoesOn(y)
            /\ finding[q][y] \in {"present", "resolved"} => Known(q, y)
            /\ finding[q][y] = "disposed" => disp[y] # None
        BY <1>0, <2>1, <2>3 DEF RunIsTrue, FindingIsTrue
      <4>2. finding'[q][y] = finding[q][y] \/ (y = o /\ finding'[q][y] = "disposed")
        BY <1>5, <2>3
      <4>3. Known(q, y) => Known(q, y)'
        BY <2>3, <4>1 DEF GoesOn
      <4>4. disp[y] # None => disp'[y] # None
        BY <4>1 DEF GoesOn
      <4> QED
        BY <1>2, <4>1, <4>2, <4>3, <4>4
    <3>2. ASSUME NEW y \in Obligations, named'[y] = q
          PROVE  /\ disp'[y] # None
                 /\ ~Known(q, y)' => /\ finding'[q][y] \in {"disposed", None}
                                     /\ finding'[q][y] = None => db'[y] # "absent"
      <4>1. GoesOn(y) /\ (Known(q, y) => Known(q, y)')
        BY <1>0, <2>3 DEF GoesOn
      <4>2. CASE y # o
        <5>1. named[y] = q /\ finding'[q][y] = finding[q][y]
          BY <1>4, <1>5, <2>3, <3>2, <4>2
        <5>2. /\ disp[y] # None
              /\ ~Known(q, y) => /\ finding[q][y] \in {"disposed", None}
                                 /\ finding[q][y] = None => db[y] # "absent"
          BY <2>1, <2>3, <5>1 DEF RunIsTrue, DecisionStands
        <5> QED
          BY <4>1, <5>1, <5>2 DEF GoesOn
      <4>3. CASE y = o
        <5>1. finding[q][o] \in {"present", "resolved"} => Known(q, o)
          BY <2>1, <2>3 DEF RunIsTrue, FindingIsTrue
        <5>2. finding[q][o] = None => db[o] # "absent"
          BY <1>1 DEF Binds
        <5>3. finding'[q][o] = IF finding[q][o] \notin Settled \cup {None} THEN "disposed" ELSE finding[q][o]
          BY <1>5, <2>3
        <5>4. db'[o] = "absent" => db[o] = "absent"
          BY <4>1, <4>3 DEF GoesOn
        <5> QED
          BY <1>2, <4>1, <4>3, <5>1, <5>2, <5>3, <5>4 DEF Settled, None
      <4> QED
        BY <4>2, <4>3
    <3>3. FindingIsTrue(q)'
      BY <3>1 DEF FindingIsTrue
    <3>4. DecisionStands(q)'
      BY <3>2 DEF DecisionStands
    <3>5. PagesAreListed(q)' /\ ReopenedIsClean(q)'
      BY <1>0, <1>3, <1>6, <2>1, <2>3, ListedGoesOn
    <3> QED
      BY <2>3, <3>3, <3>4, <3>5 DEF RunIsTrue
  <2> QED
    BY <2>2, <2>3
<1> QED
  BY <1>7, <1>8, Assemble

(***************************************************************************)
(* What enumerating an obligation finds is true (settlement).              *)
(***************************************************************************)
LEMMA FoundIsTrue ==
    ASSUME TypeOK, NEW o \in Obligations
    PROVE  /\ Found(o) \in Statuses
           /\ Found(o) \in {"present", "resolved"} => ~Open(o)
           /\ Found(o) = "disposed" => disp[o] # None
           /\ disp[o] # None /\ Open(o) /\ db[o] # "absent" => Found(o) = "disposed"
<1>1. Settlement(o) \in {"unresolved", "missing", "present"}
  BY DEF Settlement
<1>2. Settlement(o) = "present" => ~Open(o)
  BY DEF Settlement, Open, LaunchSettled
<1>3. Open(o) /\ db[o] # "absent" => Settlement(o) = "unresolved"
  BY DEF Settlement, Open, LaunchSettled
<1> QED
  BY <1>1, <1>2, <1>3 DEF Found, Statuses

(***************************************************************************)
(* Recording a page moves the cursor past what has a finding: the page     *)
(* holds every obligation between the two cursors (RecordPage).            *)
(***************************************************************************)
LEMMA RecordStepIsKept ==
    ASSUME TypeOK, RecoveryInv, RunInv, [Next]_vars, NEW p \in Workers, RecordPage(p)
    PROVE  RunInv'
<1> DEFINE w == worker[p]
<1>1. w \in RecordStep /\ worker' = [worker EXCEPT ![p] = Free] /\ UNCHANGED <<disp, named, seen, db>>
  BY WorkerIsAt DEF RecordPage, Take, dbVars
<1>2. /\ w.run \in Runs /\ w.class \in DOMAIN Classes /\ w.cursor \in Nat /\ w.next \in Nat /\ w.keys \in SUBSET Nat
      /\ PageIsWhole(w)
  <2>1. /\ w.run \in Runs /\ w.class \in DOMAIN Classes /\ w.cursor \in Nat /\ w.next \in Nat /\ w.keys \in SUBSET Nat
    BY <1>1 DEF RecordStep
  <2> QED
    BY <1>1, <2>1 DEF RunInv, StepIsWhole
<1>3. Free \notin FindingStep /\ Free \notin RecordStep
  BY DEF Free, FindingStep, RecordStep
<1>4. PICK r \in Runs : r = w.run
  BY <1>2
<1>5. Begun(r) /\ RunIsTrue(r)
  <2>1. w # Free
    BY <1>1, <1>3
  <2> QED
    BY <1>4, <2>1, StepOfRun DEF RunInv
<1>6. CASE UNCHANGED <<run, finding>>
  <2>1. \A q \in Runs, o \in Obligations : FindingGoesOn(q, o)
    BY <1>6 DEF FindingGoesOn
  <2> QED
    BY <1>1, <1>3, <1>5, <1>6, <2>1, WorkerGoesOn
<1>7. CASE ~UNCHANGED <<run, finding>>
  <2> DEFINE progress == [run[r].progress EXCEPT ![w.class] = [cursor |-> w.next, complete |-> w.complete]]
  <2>1. /\ run[r].progress[w.class].cursor = w.cursor
        /\ finding' = [finding EXCEPT ![r] = NewFindings(r, {w.class} \X w.keys)]
        /\ run' = [run EXCEPT ![r] = Enumerated(r, progress)]
    BY <1>4, <1>7 DEF RecordPage
  <2>2. run'[r] = Enumerated(r, progress) /\ \A q \in Runs : q # r => run'[q] = run[q]
    BY <2>1 DEF TypeOK
  <2>3. /\ run'[r].progress = progress
        /\ run'[r].phase = "reopened" => run[r].phase = "reopened"
    BY <2>2 DEF Enumerated
  <2>4. /\ \A o \in Obligations :
            finding'[r][o] = IF o \in {w.class} \X w.keys /\ finding[r][o] = None THEN Found(o) ELSE finding[r][o]
        /\ \A q \in Runs : q # r => finding'[q] = finding[q]
    BY <2>1 DEF NewFindings, TypeOK
  <2>5. \A o \in Obligations : GoesOn(o)
    BY <1>5, Onward DEF RunInv
  <2>6. ASSUME NEW o \in Obligations PROVE FindingGoesOn(r, o)
    <3>1. finding'[r][o] = finding[r][o] \/ (finding[r][o] = None /\ finding'[r][o] = Found(o))
      BY <2>4
    <3>2. Found(o) # None
      BY FoundIsTrue DEF Statuses, None
    <3>3. named[o] = r /\ ~Known(r, o) /\ finding[r][o] = None => db[o] # "absent" /\ disp[o] # None
      BY <1>5 DEF RunIsTrue, DecisionStands
    <3>4. disp'[o] = disp[o] /\ named'[o] = named[o] /\ (Known(r, o)' <=> Known(r, o)) /\ (~Open(o) => Known(r, o))
      BY <1>1 DEF Known, Open, LaunchSettled
    <3> QED
      BY <3>1, <3>2, <3>3, <3>4, FoundIsTrue DEF FindingGoesOn
  <2>7. \A q \in Runs, o \in Obligations : finding[q][o] # None => finding'[q][o] # None
    BY <2>4, <2>6 DEF FindingGoesOn
  <2>8. StepIsTrue' /\ StepIsWhole'
    BY <1>1, <1>3, <2>5, <2>7, StepsGoOn
  <2>9. FindingIsTrue(r)' /\ DecisionStands(r)'
    BY <1>1, <1>5, <2>5, <2>6, FindingsGoOn
  <2>10. ReopenedIsClean(r)'
    BY <1>5, <2>3, <2>5, <2>7, ListedGoesOn
  <2>11. PagesAreListed(r)'
    <3> SUFFICES ASSUME NEW o \in Obligations, MayHaveHappened(o)',
                        run'[r].progress[o[1]].complete \/ o[2] <= run'[r].progress[o[1]].cursor
                 PROVE  finding'[r][o] # None
      BY DEF PagesAreListed
    <3>1. MayHaveHappened(o)
      BY <2>5 DEF GoesOn
    <3>2. o[1] \in DOMAIN Classes /\ o[2] \in Classes[o[1]] /\ o = <<o[1], o[2]>> /\ o[2] \in Nat
      BY ObligationPair, RecoveryAssumption
    <3>3. run[r].progress \in [DOMAIN Classes -> Progress]
      BY DEF TypeOK, RecoveryRun
    <3>4. CASE o[1] # w.class
      <4>1. run'[r].progress[o[1]] = run[r].progress[o[1]]
        BY <2>3, <3>2, <3>3, <3>4
      <4>2. finding[r][o] # None
        BY <1>5, <3>1, <4>1 DEF RunIsTrue, PagesAreListed
      <4> QED
        BY <2>7, <4>2
    <3>5. CASE o[1] = w.class /\ o[2] <= w.cursor
      <4>1. finding[r][o] # None
        BY <1>5, <2>1, <3>1, <3>5 DEF RunIsTrue, PagesAreListed
      <4> QED
        BY <2>7, <4>1
    <3>6. CASE o[1] = w.class /\ o[2] > w.cursor
      <4>1. run'[r].progress[o[1]] = [cursor |-> w.next, complete |-> w.complete]
        BY <1>2, <2>3, <3>3, <3>6
      <4>2. w.complete \/ o[2] <= w.next
        BY <4>1
      <4>3. o[2] \in w.keys
        BY <1>2, <3>1, <3>2, <3>6, <4>2 DEF PageIsWhole
      <4>4. o \in {w.class} \X w.keys
        BY <3>2, <3>6, <4>3
      <4> QED
        BY <2>4, <4>4, FoundIsTrue DEF Statuses, None
    <3> QED
      BY <1>2, <3>2, <3>4, <3>5, <3>6
  <2>12. ASSUME NEW q \in Runs, Begun(q) PROVE RunIsTrue(q)'
    <3>1. CASE q = r
      BY <2>9, <2>10, <2>11, <3>1 DEF RunIsTrue
    <3>2. CASE q # r
      <4>1. RunIsTrue(q) /\ \A o \in Obligations : FindingGoesOn(q, o)
        BY <2>4, <2>12, <3>2, SameFinding DEF RunInv
      <4> QED
        BY <1>1, <2>2, <2>5, <3>2, <4>1, RunGoesOn
    <3> QED
      BY <3>1, <3>2
  <2> QED
    BY <2>8, <2>12, Assemble
<1> QED
  BY <1>6, <1>7

(***************************************************************************)
(* The page a worker lists holds everything that may have happened between *)
(* its cursors (List).                                                     *)
(***************************************************************************)
LEMMA ListedIsWhole ==
    ASSUME TypeOK, RecoveryInv, InventoryComesFirst, PreparedIsOpen, NEW w \in ListStep
    PROVE  PageIsWhole(PageOf(w))
<1> DEFINE keys == PageAfter(w.class, w.cursor)
           page == PageOf(w)
<1>1. w.class \in DOMAIN Classes /\ w.cursor \in Nat
  BY DEF ListStep
<1>2. /\ page.class = w.class /\ page.cursor = w.cursor /\ page.keys = keys
      /\ page.next = LastOf(keys, w.cursor) /\ page.complete = (After(w.class, w.cursor) = keys)
  BY DEF PageOf
<1> HIDE DEF page
<1>3. ASSUME NEW k \in Classes[w.class], MayHaveHappened(<<w.class, k>>), k > w.cursor,
             After(w.class, w.cursor) = keys \/ k <= LastOf(keys, w.cursor)
      PROVE  k \in keys
  <2>1. <<w.class, k>> \in inv
    BY <1>1, <1>3, ObligationPair, HappenedIsKept
  <2>2. k \in After(w.class, w.cursor)
    BY <1>3, <2>1 DEF After
  <2> QED
    BY <1>1, <1>3, <2>2, PageIsPrefix
<1>4. PageIsWhole(page)
  BY <1>2, <1>3 DEF PageIsWhole
<1> QED
  BY <1>4 DEF page

(***************************************************************************)
(* What a worker that is at a finding holds.                               *)
(***************************************************************************)
LEMMA HeldFinding ==
    ASSUME TypeOK, RunInv, NEW p \in Workers, worker[p] \in FindingStep
    PROVE  \E r \in Runs, o \in Obligations, status \in Statuses :
            /\ worker[p].run = r /\ worker[p].o = o /\ worker[p].status = status
            /\ Begun(r) /\ RunIsTrue(r) /\ finding[r][o] # None
            /\ worker[p].at # "stopped" /\ status \in {"present", "resolved"} => Known(r, o)
            /\ worker[p].at = "stopped" => status = "resolved" /\ IsClosed(o)
            /\ worker[p].at \in {"close", "clean"} => o \in Launches /\ db[o] # "absent"
            /\ status = "disposed" => disp[o] # None
<1>1. StatusIsTrue(worker[p])
  BY DEF RunInv, StepIsTrue
<1>2. worker[p].run \in Runs /\ worker[p].o \in Obligations /\ worker[p].status \in Statuses
  BY <1>1 DEF FindingStep, StatusIsTrue
<1>3. worker[p] # Free
  BY DEF Free, FindingStep
<1>4. Begun(worker[p].run) /\ RunIsTrue(worker[p].run)
  BY <1>3, StepOfRun DEF RunInv
<1> QED
  BY <1>1, <1>2, <1>4 DEF StatusIsTrue

(***************************************************************************)
(* A status that is true is written where no decision stands.              *)
(***************************************************************************)
LEMMA WrittenFinding ==
    ASSUME TypeOK, NEW r \in Runs, NEW o \in Obligations, NEW status \in Statuses, SettleFinding(r, o, status),
           RunIsTrue(r), \A x \in Obligations : GoesOn(x), UNCHANGED <<disp, named>>, finding[r][o] # None,
           status \in {"present", "resolved"} /\ finding[r][o] # "disposed" => Known(r, o)',
           status = "disposed" => disp[o] # None
    PROVE  \A q \in Runs, x \in Obligations : FindingGoesOn(q, x)
<1>1. \A q \in Runs, x \in Obligations :
        \/ finding'[q][x] = finding[q][x]
        \/ q = r /\ x = o /\ finding[r][o] # "disposed" /\ finding'[q][x] = status
  BY DEF SettleFinding, TypeOK
<1>2. status # None
  BY DEF Statuses, None
<1>3. finding[r][o] # "disposed" /\ named[o] = r => Known(r, o)
  BY DEF RunIsTrue, DecisionStands
<1>4. Known(r, o) => Known(r, o)'
  BY DEF GoesOn
<1>5. finding[r][o] # "disposed" /\ finding'[r][o] = status => FindingGoesOn(r, o)
  BY <1>2, <1>3, <1>4 DEF FindingGoesOn
<1> QED
  BY <1>1, <1>5, SameFinding

(***************************************************************************)
(* What reading a finding takes up is true (Reconcile, RecordOutcome).     *)
(***************************************************************************)
LEMMA ReadStep ==
    ASSUME TypeOK, RecoveryInv, RunInv, [Next]_vars, NEW p \in Workers, NEW r \in Runs, NEW o \in Obligations,
           ReadFinding(p, r, o) \/ ReadLaunch(p, r, o)
    PROVE  RunInv'
<1>1. PICK at \in {"restore", "query", "close", "clean"} :
        /\ Take(p, [at |-> at, run |-> r, o |-> o, status |-> finding[r][o]])
        /\ at \in {"close", "clean"} => o \in Launches /\ db[o] # "absent"
  BY DEF ReadFinding, ReadLaunch
<1>2. PICK step : step = [at |-> at, run |-> r, o |-> o, status |-> finding[r][o]]
  OBVIOUS
<1>3. /\ step.at = at /\ step.run = r /\ step.o = o /\ step.status = finding[r][o]
      /\ step \notin RecordStep
  BY <1>2 DEF RecordStep
<1>4. worker' = [worker EXCEPT ![p] = step] /\ UNCHANGED <<run, named, finding, disp, db>>
  BY <1>1, <1>2 DEF ReadFinding, ReadLaunch, Take, runVars, dbVars
<1>5. finding[r][o] \notin {None, "present", "resolved", "disposed"}
  BY DEF ReadFinding, ReadLaunch, Settled, None
<1>6. StatusIsTrue(step)'
  BY <1>1, <1>3, <1>4, <1>5 DEF StatusIsTrue
<1>7. Begun(r)
  BY <1>5 DEF RunInv, RunComesFirst
<1>8. \A q \in Runs, x \in Obligations : FindingGoesOn(q, x)
  BY <1>4 DEF FindingGoesOn
<1> QED
  BY <1>3, <1>4, <1>6, <1>7, <1>8, WorkerGoesOn

(***************************************************************************)
(* Restoring a record and its finding (Restore).                           *)
(***************************************************************************)
LEMMA RestoreStep ==
    ASSUME TypeOK, RecoveryInv, RunInv, [Next]_vars, NEW p \in Workers, Restore(p)
    PROVE  RunInv'
<1> DEFINE w == worker[p]
<1>1. w \in FindingStep
  BY WorkerIsAt DEF Restore
<1>2. PICK r \in Runs, o \in Obligations, old \in Statuses :
        w.run = r /\ w.o = o /\ w.status = old /\ Begun(r) /\ RunIsTrue(r) /\ finding[r][o] # None
  BY <1>1, HeldFinding
<1>3. \A x \in Obligations : GoesOn(x)
  BY <1>2, Onward DEF RunInv
<1>4. PICK status : status = finding'[r][o]
  OBVIOUS
<1>5. PICK step : step = [w EXCEPT !.at = "query", !.status = status]
  OBVIOUS
<1>6. \/ UNCHANGED finding
      \/ finding[r][o] = "missing" /\ finding' = [finding EXCEPT ![r][o] = "restored"]
  BY <1>2 DEF Restore
<1>7. \A q \in Runs, x \in Obligations :
        \/ finding'[q][x] = finding[q][x]
        \/ q = r /\ x = o /\ finding[q][x] = "missing" /\ finding'[q][x] = "restored"
  BY <1>6 DEF TypeOK
<1>8. UNCHANGED <<run, named, disp>> /\ worker' = [worker EXCEPT ![p] = step]
  BY <1>2, <1>4, <1>5 DEF Restore, Take
<1>9. status \in Statuses \cup {None} /\ status # None /\ (status = finding[r][o] \/ status = "restored")
  BY <1>2, <1>4, <1>7 DEF TypeOK, Statuses, None
<1>10. step.at = "query" /\ step.run = r /\ step.o = o /\ step.status = status /\ step \notin RecordStep
  <2>1. step \in FindingStep /\ step.at = "query" /\ step.run = r /\ step.o = o /\ step.status = status
    <3> HIDE DEF w
    <3> QED
      BY <1>1, <1>2, <1>5, <1>9, FindingStepType
  <2> QED
    BY <2>1 DEF FindingStep, RecordStep
<1>11. ASSUME NEW q \in Runs, NEW x \in Obligations PROVE FindingGoesOn(q, x)
  <2>1. CASE finding'[q][x] = finding[q][x]
    BY <2>1, SameFinding
  <2>2. CASE q = r /\ x = o /\ finding[q][x] = "missing" /\ finding'[q][x] = "restored"
    <3>1. named[o] = r => Known(r, o)
      BY <1>2, <2>2 DEF RunIsTrue, DecisionStands, None
    <3>2. Known(r, o) => Known(r, o)'
      BY <1>3 DEF GoesOn
    <3> QED
      BY <1>8, <2>2, <3>1, <3>2 DEF FindingGoesOn, None
  <2> QED
    BY <1>7, <2>1, <2>2
<1>12. StatusIsTrue(step)'
  <2>1. /\ finding[r][o] \in {"present", "resolved"} => Known(r, o)
        /\ finding[r][o] = "disposed" => disp[o] # None
    BY <1>2 DEF RunIsTrue, FindingIsTrue
  <2>2. Known(r, o) => Known(r, o)'
    BY <1>3 DEF GoesOn
  <2> QED
    BY <1>4, <1>8, <1>9, <1>10, <2>1, <2>2 DEF StatusIsTrue
<1> QED
  BY <1>2, <1>8, <1>10, <1>11, <1>12, WorkerGoesOn

(***************************************************************************)
(* A query takes up what the records or the upstream say (Query).          *)
(***************************************************************************)
LEMMA QueryStep ==
    ASSUME TypeOK, RecoveryInv, RunInv, [Next]_vars, NEW p \in Workers, Query(p)
    PROVE  RunInv'
<1> DEFINE w == worker[p]
<1>1. w \in FindingStep /\ w.at = "query"
  BY QueryIsTrue DEF Query
<1>2. PICK s \in States, status \in Statuses \cup {None} :
        /\ db' = [db EXCEPT ![w.o] = s]
        /\ Take(p, [w EXCEPT !.at = "settle", !.status = status])
        /\ status \in {w.status, "unresolved"} \/ (status = "resolved" /\ ~OpenState(w.o, s))
  BY QueryIsTrue
<1>3. PICK r \in Runs, o \in Obligations, old \in Statuses :
        /\ w.run = r /\ w.o = o /\ w.status = old /\ Begun(r) /\ RunIsTrue(r) /\ finding[r][o] # None
        /\ old \in {"present", "resolved"} => Known(r, o)
        /\ old = "disposed" => disp[o] # None
  BY <1>1, HeldFinding
<1>4. PICK step : step = [w EXCEPT !.at = "settle", !.status = status]
  OBVIOUS
<1>5. UNCHANGED <<run, finding, disp, named>> /\ worker' = [worker EXCEPT ![p] = step]
  BY <1>2, <1>4 DEF Query, Take, runVars
<1>6. step.at = "settle" /\ step.run = r /\ step.o = o /\ step.status = status /\ step \notin RecordStep
  <2>1. step \in FindingStep /\ step.at = "settle" /\ step.run = r /\ step.o = o /\ step.status = status
    <3>1. w \in FindingStep /\ w.run = r /\ w.o = o
      BY <1>1, <1>3
    <3> HIDE DEF w
    <3>2. /\ [w EXCEPT !.at = "settle", !.status = status] \in FindingStep
          /\ [w EXCEPT !.at = "settle", !.status = status].at = "settle"
          /\ [w EXCEPT !.at = "settle", !.status = status].run = w.run
          /\ [w EXCEPT !.at = "settle", !.status = status].o = w.o
          /\ [w EXCEPT !.at = "settle", !.status = status].status = status
      BY <3>1, FindingStepType
    <3> QED
      BY <1>4, <3>1, <3>2
  <2> QED
    BY <2>1 DEF FindingStep, RecordStep
<1>7. status \in {old, "unresolved"} \/ (status = "resolved" /\ Known(r, o)')
  <2>1. db'[o] = s
    BY <1>2, <1>3 DEF TypeOK
  <2>2. ~OpenState(o, s) => ~Open(o)'
    BY <2>1 DEF OpenState, Open, LaunchSettled
  <2> QED
    BY <1>2, <1>3, <2>2 DEF Known
<1>8. StatusIsTrue(step)'
  <2>1. Known(r, o) => Known(r, o)'
    BY <1>3, Onward DEF RunInv, GoesOn
  <2>2. status # None
    BY <1>7 DEF Statuses, None
  <2> QED
    BY <1>3, <1>5, <1>6, <1>7, <2>1, <2>2 DEF StatusIsTrue
<1>9. \A q \in Runs, x \in Obligations : FindingGoesOn(q, x)
  BY <1>5 DEF FindingGoesOn
<1> QED
  BY <1>3, <1>5, <1>6, <1>8, <1>9, WorkerGoesOn

(***************************************************************************)
(* What a worker writes to a finding (Settle, ObserveLaunch).              *)
(***************************************************************************)
LEMMA SettleStep ==
    ASSUME TypeOK, RecoveryInv, RunInv, [Next]_vars, NEW p \in Workers, Settle(p) \/ ObserveLaunch(p)
    PROVE  RunInv'
<1> DEFINE w == worker[p]
<1>1. w \in FindingStep
  BY WorkerIsAt DEF Settle, ObserveLaunch
<1>2. PICK r \in Runs, o \in Obligations, old \in Statuses :
        /\ w.run = r /\ w.o = o /\ w.status = old /\ Begun(r) /\ RunIsTrue(r) /\ finding[r][o] # None
        /\ w.at # "stopped" /\ old \in {"present", "resolved"} => Known(r, o)
        /\ w.at = "stopped" => old = "resolved" /\ IsClosed(o)
        /\ old = "disposed" => disp[o] # None
  BY <1>1, HeldFinding
<1>3. \A x \in Obligations : GoesOn(x)
  BY <1>2, Onward DEF RunInv
<1>4. UNCHANGED <<run, named, disp, db>> /\ worker' = [worker EXCEPT ![p] = Free]
  BY DEF Settle, ObserveLaunch, Take, dbVars
<1>5. PICK status \in {old, "unresolved"} : SettleFinding(r, o, status)
  BY <1>2 DEF Settle, ObserveLaunch
<1>6. ASSUME status \in {"present", "resolved"}, finding[r][o] # "disposed" PROVE Known(r, o)'
  <2>1. status = old
    BY <1>5, <1>6
  <2>2. CASE w.at # "stopped"
    BY <1>2, <1>3, <1>6, <2>1, <2>2 DEF GoesOn
  <2>3. CASE w.at = "stopped"
    <3>1. o \in seen'[r]
      BY <1>2, <1>6, <2>3 DEF Settle, ObserveLaunch, TypeOK
    <3>2. IsClosed(o)'
      BY <1>2, <1>3, <2>3 DEF GoesOn
    <3> QED
      BY <3>1, <3>2 DEF Known, IsClosed
  <2> QED
    BY <2>2, <2>3
<1>7. status \in Statuses /\ (status = "disposed" => disp[o] # None)
  BY <1>2, <1>5 DEF Statuses
<1>8. \A q \in Runs, x \in Obligations : FindingGoesOn(q, x)
  BY <1>2, <1>3, <1>4, <1>5, <1>6, <1>7, WrittenFinding
<1>9. Free \notin FindingStep /\ Free \notin RecordStep
  BY DEF Free, FindingStep, RecordStep
<1> QED
  BY <1>2, <1>4, <1>8, <1>9, WorkerGoesOn

(***************************************************************************)
(* Closing the attempt of a stopped launch leaves it closed, by this call  *)
(* or by another (RecordOutcome, CloseAttempt).                            *)
(***************************************************************************)
LEMMA StopStep ==
    ASSUME TypeOK, RecoveryInv, RunInv, [Next]_vars, NEW p \in Workers, StopLaunch(p)
    PROVE  RunInv'
<1> DEFINE w == worker[p]
<1>1. w \in FindingStep /\ w.at \in {"close", "clean"}
  BY WorkerIsAt DEF StopLaunch
<1>2. PICK r \in Runs, o \in Obligations, old \in Statuses :
        /\ w.run = r /\ w.o = o /\ w.status = old /\ Begun(r) /\ RunIsTrue(r) /\ finding[r][o] # None
        /\ o \in Launches /\ db[o] # "absent"
  BY <1>1, HeldFinding
<1>3. PICK step : step = [w EXCEPT !.at = "stopped", !.status = "resolved"]
  OBVIOUS
<1>4. /\ UNCHANGED <<run, finding, disp, named>> /\ worker' = [worker EXCEPT ![p] = step]
      /\ db' = [db EXCEPT ![o] = Cleaned(w.at, db[o])]
  BY <1>2, <1>3 DEF StopLaunch, Take, runVars
<1>5. step.at = "stopped" /\ step.run = r /\ step.o = o /\ step.status = "resolved" /\ step \notin RecordStep
  <2>1. step \in FindingStep /\ step.at = "stopped" /\ step.run = r /\ step.o = o /\ step.status = "resolved"
    <3>1. PICK status \in Statuses \cup {None} : status = "resolved"
      BY DEF Statuses
    <3>2. w \in FindingStep /\ w.run = r /\ w.o = o
      BY <1>1, <1>2
    <3>3. step = [w EXCEPT !.at = "stopped", !.status = status]
      BY <1>3, <3>1
    <3> HIDE DEF w
    <3>4. /\ [w EXCEPT !.at = "stopped", !.status = status] \in FindingStep
          /\ [w EXCEPT !.at = "stopped", !.status = status].at = "stopped"
          /\ [w EXCEPT !.at = "stopped", !.status = status].run = w.run
          /\ [w EXCEPT !.at = "stopped", !.status = status].o = w.o
          /\ [w EXCEPT !.at = "stopped", !.status = status].status = status
      BY <3>2, FindingStepType
    <3> QED
      BY <3>1, <3>2, <3>3, <3>4
  <2> QED
    BY <2>1 DEF FindingStep, RecordStep
<1>6. IsClosed(o)'
  <2>1. db[o] \in States /\ db'[o] = Cleaned(w.at, db[o])
    BY <1>4 DEF TypeOK
  <2>2. db'[o] \in {"settled", "not_sent", "uncleaned"}
    BY <1>2, <2>1 DEF Cleaned, OpenLaunch, States
  <2> QED
    BY <1>2, <2>2 DEF IsClosed, Open, LaunchSettled
<1>7. StatusIsTrue(step)'
  BY <1>2, <1>4, <1>5, <1>6 DEF StatusIsTrue, None
<1>8. \A q \in Runs, x \in Obligations : FindingGoesOn(q, x)
  BY <1>4 DEF FindingGoesOn
<1> QED
  BY <1>2, <1>4, <1>5, <1>7, <1>8, WorkerGoesOn

(***************************************************************************)
(* The steps of a worker keep what the runs know.                          *)
(***************************************************************************)
LEMMA WorkerStep ==
    ASSUME TypeOK, RecoveryInv, ReopenInv, [Next]_vars,
           NEW p \in Workers, Enumerate(p) \/ Reconcile(p) \/ RecordOutcome(p) \/ WorkerFails(p)
    PROVE  RunInv'
<1>0. RunInv
  BY DEF ReopenInv
<1>1. PICK r \in Runs : Begun(r)
  BY <1>0, WorkerOfRun DEF RunInv
<1>2. UNCHANGED finding => \A q \in Runs, o \in Obligations : FindingGoesOn(q, o)
  BY DEF FindingGoesOn
<1>3. ASSUME NEW step, step \notin FindingStep, step \notin RecordStep, Take(p, step), UNCHANGED <<run, finding, named>>
      PROVE  RunInv'
  BY <1>0, <1>1, <1>2, <1>3, WorkerGoesOn DEF Take
<1>4. ASSUME NEW q \in Runs, NEW c \in DOMAIN Classes, ReadProgress(p, q, c) PROVE RunInv'
  <2>1. PICK step : step = [at |-> "list", run |-> q, class |-> c, cursor |-> run[q].progress[c].cursor]
    OBVIOUS
  <2>2. step \notin FindingStep /\ step \notin RecordStep
    BY <2>1 DEF FindingStep, RecordStep
  <2>3. Take(p, step) /\ UNCHANGED <<run, finding, named>>
    BY <1>4, <2>1 DEF ReadProgress, runVars
  <2> QED
    BY <1>3, <2>2, <2>3
<1>5. CASE List(p)
  <2>1. worker[p] \in ListStep
    BY <1>5, WorkerIsAt DEF List
  <2>2. PICK step : step = PageOf(worker[p])
    OBVIOUS
  <2>3. PageIsWhole(step)
    BY <2>1, <2>2, ListedIsWhole DEF ReopenInv
  <2>4. worker' = [worker EXCEPT ![p] = step] /\ UNCHANGED <<run, finding, named, adm, upstream>>
    BY <1>5, <2>2 DEF List, PageOf, Take, sendVars, runVars
  <2>5. PageIsWhole(step)'
    BY <2>3, <2>4 DEF PageIsWhole, MayHaveHappened
  <2>6. step \notin FindingStep
    BY <2>2 DEF PageOf, FindingStep
  <2> QED
    BY <1>0, <1>1, <1>2, <2>4, <2>5, <2>6, WorkerGoesOn
<1>6. CASE RecordPage(p)
  BY <1>0, <1>6, RecordStepIsKept
<1>7. CASE \E q \in Runs, o \in Obligations : ReadFinding(p, q, o) \/ ReadLaunch(p, q, o)
  BY <1>0, <1>7, ReadStep
<1>8. CASE Restore(p)
  BY <1>0, <1>8, RestoreStep
<1>9. CASE Query(p)
  BY <1>0, <1>9, QueryStep
<1>10. CASE Settle(p) \/ ObserveLaunch(p)
  BY <1>0, <1>10, SettleStep
<1>11. CASE StopLaunch(p)
  BY <1>0, <1>11, StopStep
<1>12. CASE WorkerFails(p)
  <2>1. Free \notin FindingStep /\ Free \notin RecordStep
    BY DEF Free, FindingStep, RecordStep
  <2> QED
    BY <1>3, <1>12, <2>1 DEF WorkerFails, runVars
<1> QED
  BY <1>4, <1>5, <1>6, <1>7, <1>8, <1>9, <1>10, <1>11, <1>12 DEF Enumerate, Reconcile, RecordOutcome

(***************************************************************************)
(* Every step keeps what the runs know.                                    *)
(***************************************************************************)
LEMMA RunStep ==
    ASSUME TypeOK, RecoveryInv, ReopenInv, [Next]_vars
    PROVE  RunInv'
<1>0. RunInv
  BY DEF ReopenInv
<1>1. CASE \A r \in Runs : ~Begun(r)
  BY <1>0, <1>1, RunBegins
<1>2. ASSUME NEW r \in Runs, Begun(r) PROVE RunInv'
  <2>1. CASE UNCHANGED vars \/ (\E o \in Obligations : Admission(o)) \/ Backup \/ Rollback
    <3>1. UNCHANGED <<run, finding, named, worker>>
      BY <2>1 DEF vars, Admission, Prepare, Put, Permit, Send, Report, OwnerCloses, Backup, Rollback, runVars
    <3>2. \A q \in Runs, o \in Obligations : FindingGoesOn(q, o)
      BY <3>1 DEF FindingGoesOn
    <3> QED
      BY <1>0, <1>2, <3>1, <3>2, WorkerGoesOn
  <2>2. CASE \E q \in Runs : ReadClosure(q) \/ Begin(q) \/ Started(q) \/ Evaluate(q)
    BY <1>2, <2>2, PhaseStep
  <2>3. CASE \E q \in Runs \cup {None}, o \in Obligations : Dispose(q, o)
    BY <1>0, <1>2, <2>3, DisposeStep
  <2>4. CASE \E p \in Workers : Enumerate(p) \/ Reconcile(p) \/ RecordOutcome(p) \/ WorkerFails(p)
    BY <2>4, WorkerStep
  <2> QED
    BY <2>1, <2>2, <2>3, <2>4 DEF Next
<1> QED
  BY <1>1, <1>2

(***************************************************************************)
(* The first state has no run to keep.                                     *)
(***************************************************************************)
LEMMA ReopenInit == Init => ReopenInv
<1> SUFFICES ASSUME Init PROVE ReopenInv
  OBVIOUS
<1>1. \A o \in Obligations : db[o] = "absent" /\ backup.db[o] = "absent" /\ adm[o] = "idle" /\ named[o] = None
  BY DEF Init, NoRecords
<1>2. \A r \in Runs : ~Begun(r) /\ r # None /\ \A o \in Obligations : finding[r][o] = None
  BY RecoveryAssumption DEF Init, Begun
<1>3. \A p \in Workers : worker[p] = Free
  BY DEF Init
<1>4. Free \notin FindingStep /\ Free \notin RecordStep
  BY DEF Free, FindingStep, RecordStep
<1>5. InventoryComesFirst /\ PreparedIsOpen
  BY <1>1 DEF InventoryComesFirst, PreparedIsOpen
<1>6. RunComesFirst /\ ScopeIsFenced
  BY <1>1, <1>2, <1>3 DEF RunComesFirst, ScopeIsFenced
<1>7. StepIsTrue /\ StepIsWhole
  BY <1>3, <1>4 DEF StepIsTrue, StepIsWhole
<1> QED
  BY <1>2, <1>5, <1>6, <1>7 DEF ReopenInv, RunInv

(***************************************************************************)
(* Reopening forgets nothing, for any obligations, runs and workers and    *)
(* any page size, when no backup holds an obligation between its two       *)
(* transactions: when a run has reopened, everything that was permitted is *)
(* settled in the database, evidenced by the launcher or decided, and a    *)
(* decision that names a run is never an open finding of it again          *)
(* (Enumerate, settlement, Reconcile, RecordOutcome, settleFinding,        *)
(* Dispose, Evaluate).                                                     *)
(***************************************************************************)
THEOREM ReopeningForgetsNothing ==
    ASSUME BackupsPrepared = FALSE
    PROVE  Spec => []NothingForgotten
<1> DEFINE Inv == TypeOK /\ RecoveryInv /\ ReopenInv
<1>1. Init => Inv
  BY TypeInit, EstablishedInit, ReopenInit
<1>2. Inv /\ [Next]_vars => Inv'
  <2> SUFFICES ASSUME Inv, [Next]_vars PROVE Inv'
    OBVIOUS
  <2>1. TypeOK' /\ RecoveryInv' /\ RunInv'
    BY TypeStep, EstablishedStep, RunStep
  <2>2. InventoryComesFirst' /\ PreparedIsOpen'
    BY AdmissionStep DEF ReopenInv
  <2> QED
    BY <2>1, <2>2 DEF ReopenInv
<1>3. Inv => NothingForgotten
  <2> SUFFICES ASSUME Inv PROVE NothingForgotten
    OBVIOUS
  <2>1. ASSUME NEW r \in Runs, run[r].phase = "reopened", NEW o \in Obligations, MayHaveHappened(o)
        PROVE  Accounted(o)
    <3>1. Begun(r)
      BY <2>1 DEF Begun, None
    <3> QED
      BY <2>1, <3>1 DEF ReopenInv, RunInv, RunIsTrue, ReopenedIsClean
  <2>2. ASSUME NEW r \in Runs, NEW o \in Obligations, named[o] = r, ~Known(r, o)
        PROVE  finding[r][o] \in Settled \cup {None}
    <3>1. Begun(r)
      BY <2>2 DEF ReopenInv, RunInv, RunComesFirst
    <3> QED
      BY <2>2, <3>1 DEF ReopenInv, RunInv, RunIsTrue, DecisionStands, Settled
  <2> QED
    BY <2>1, <2>2 DEF NothingForgotten
<1> QED
  BY <1>1, <1>2, <1>3, PTL DEF Spec
=============================================================================
