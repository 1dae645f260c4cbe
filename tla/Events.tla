------------------------------- MODULE Events -------------------------------
(***************************************************************************)
(* The events of operations on their way out: the transactions that record *)
(* a transition with its event, its outbox row and its notification        *)
(* (postgres Store.Tx and InsertEvent, outbox.Publish), the forwarder that *)
(* publishes the outbox to JetStream and the retention that prunes it      *)
(* (adapters/outbox, bootstrap/events.go), the wakes of the notifier, and  *)
(* the streams that send an operation's events to a client                 *)
(* (StreamOperationEvents over Operations.ListEvents).                     *)
(*                                                                         *)
(* A transaction has its id from its first row lock, which may be another  *)
(* row than its operation's, and its outbox offsets from one sequence when *)
(* it writes: neither is the order of commits.  A client that comes back   *)
(* resumes after the last event it received.                               *)
(***************************************************************************)
EXTENDS Naturals, Sequences, FiniteSets, SequencesExt

CONSTANTS
    Txs, Ops,
    OpOf,           \* transaction -> the operation it changes
    EventsOf,       \* transaction -> how many events it records
    Final,          \* transactions that leave the operation without further events
    Streams,
    StreamOp,       \* stream -> the operation it follows
    PageLimit,      \* events of one page
    BatchSize,      \* rows the forwarder takes at once
    MaxFailures,    \* failures of the forwarder
    MaxOpens        \* how often a client opens its stream

ASSUME EventsAssumption ==
    /\ OpOf \in [Txs -> Ops] /\ EventsOf \in [Txs -> Nat \ {0}] /\ Final \subseteq Txs
    /\ StreamOp \in [Streams -> Ops]
    /\ PageLimit \in Nat \ {0} /\ BatchSize \in Nat \ {0}
    /\ IsFiniteSet(Txs)

VARIABLES
    tx,         \* transaction -> its state and its id
    offsets,    \* the last outbox offset given out
    log,        \* operation -> the transaction of each committed event, in order
    over,       \* operations that record no further event
    outbox,     \* rows of the outbox, committed or not
    acked,      \* position the consumer group has processed
    batch,      \* rows the forwarder has read and not yet published, and the last it has
    js,         \* events in the stream of the broker
    failures,   \* of the forwarder so far
    notes,      \* wakes on their way
    lost,       \* some wake was lost
    stream,     \* stream -> where its handler is and what it has read
    woken,      \* streams with a pending wake
    received,   \* stream -> what its client has received
    opens       \* stream -> how often its client opened it

txVars == <<tx, offsets, log, over>>
forwardVars == <<outbox, acked, batch, js, failures>>
wakeVars == <<notes, lost, woken>>
streamVars == <<stream, received, opens>>
vars == <<txVars, forwardVars, wakeVars, streamVars>>

-----------------------------------------------------------------------------
Closed == [at |-> "closed", covered |-> 0, final |-> FALSE, page |-> <<>>, full |-> FALSE]
NoBatch == [open |-> FALSE, rows |-> {}, last |-> <<0, 0>>]
Waiting(s) == stream[s].at = "waiting"
OpenStreams == {s \in Streams : stream[s].at \notin {"closed", "ended"}}

Transaction == [at : {"none", "begun", "written", "committed", "aborted"}, id : Nat]
Row == [tx : Txs, op : Ops, seq : Nat, id : Nat, offset : Nat]
Batch == [open : BOOLEAN, rows : SUBSET Row, last : Nat \X Nat]
Handler == [at : {"closed", "read", "list", "send", "waiting", "ended"}, covered : Nat, final : BOOLEAN,
            page : Seq(Nat), full : BOOLEAN]

\* Every variable has its type.
TypeOK ==
    /\ tx \in [Txs -> Transaction]
    /\ offsets \in Nat /\ log \in [Ops -> Seq(Txs)] /\ over \subseteq Ops
    /\ outbox \subseteq Row /\ acked \in Nat \X Nat /\ batch \in Batch
    /\ js \subseteq Ops \X Nat /\ failures \in Nat
    /\ notes \subseteq Ops /\ lost \in BOOLEAN /\ woken \subseteq Streams
    /\ stream \in [Streams -> Handler]
    /\ received \in [Streams -> Seq(Nat)] /\ opens \in [Streams -> Nat]

Init ==
    /\ tx = [t \in Txs |-> [at |-> "none", id |-> 0]] /\ offsets = 0
    /\ log = [o \in Ops |-> <<>>] /\ over = {} /\ outbox = {}
    /\ acked = <<0, 0>> /\ batch = NoBatch /\ js = {} /\ failures = 0
    /\ notes = {} /\ lost = FALSE /\ woken = {}
    /\ stream = [s \in Streams |-> Closed]
    /\ received = [s \in Streams |-> <<>>] /\ opens = [s \in Streams |-> 0]

-----------------------------------------------------------------------------
(* Transactions.                                                           *)

NextId == 1 + Cardinality({t \in Txs : tx[t].id > 0})

\* BeginTx and the first row lock.
Begin(t) ==
    /\ tx[t].at = "none"
    /\ tx' = [tx EXCEPT ![t] = [at |-> "begun", id |-> NextId]]
    /\ UNCHANGED <<offsets, log, over, forwardVars, wakeVars, streamVars>>

\* Operation.Transition gives an event the next sequence of its operation.
Transition(t, i) == [tx |-> t, op |-> OpOf[t], seq |-> Len(log[OpOf[t]]) + i, id |-> tx[t].id, offset |-> offsets + i]

LocksOperation(t) == tx[t].at = "written"

\* InsertEvent under the lock of the operation: the event, its outbox row
\* and its notification.  That an operation which is over records no further
\* event is not checked here: it is what the callers keep to in the normal
\* course (EventPage).
Write(t) ==
    /\ tx[t].at = "begun" /\ OpOf[t] \notin over
    /\ ~\E u \in Txs : OpOf[u] = OpOf[t] /\ LocksOperation(u)
    /\ outbox' = outbox \cup {Transition(t, i) : i \in 1..EventsOf[t]}
    /\ offsets' = offsets + EventsOf[t]
    /\ tx' = [tx EXCEPT ![t].at = "written"]
    /\ UNCHANGED <<log, over, acked, batch, js, failures, wakeVars, streamVars>>

\* The events are visible, the notification is delivered.
Commit(t) ==
    /\ tx[t].at = "written"
    /\ tx' = [tx EXCEPT ![t].at = "committed"]
    /\ log' = [log EXCEPT ![OpOf[t]] = @ \o [i \in 1..EventsOf[t] |-> t]]
    /\ over' = IF t \in Final THEN over \cup {OpOf[t]} ELSE over
    /\ notes' = notes \cup {OpOf[t]}
    /\ UNCHANGED <<offsets, forwardVars, lost, woken, streamVars>>

\* The handler refuses, the connection or the process is lost.
Rollback(t) ==
    /\ tx[t].at \in {"begun", "written"}
    /\ tx' = [tx EXCEPT ![t].at = "aborted"]
    /\ outbox' = {r \in outbox : r.tx # t}
    /\ UNCHANGED <<offsets, log, over, acked, batch, js, failures, wakeVars, streamVars>>

-----------------------------------------------------------------------------
(* The forwarder and the retention.                                        *)

Position(r) == <<r.id, r.offset>>
Before(p, q) == p[1] < q[1] \/ (p[1] = q[1] /\ p[2] < q[2])
AtOrBefore(p, q) == p = q \/ Before(p, q)

\* No transaction with a smaller id is still in progress.
BelowHorizon(r) == \A t \in Txs : tx[t].at \in {"begun", "written"} => r.id < tx[t].id

Visible == {r \in outbox : tx[r.tx].at = "committed"}

\* The subscriber's query: visible rows after the position and below the
\* horizon, in the order of transaction and offset; the lock of the offsets
\* row keeps other replicas out.
Pending == {r \in Visible : Before(acked, Position(r)) /\ BelowHorizon(r)}

\* The first rows of them.
FirstRows == {r \in Pending : Cardinality({q \in Pending : Before(Position(q), Position(r))}) < BatchSize}

Query ==
    /\ ~batch.open /\ Pending # {}
    /\ batch' = [open |-> TRUE, rows |-> FirstRows, last |-> acked]
    /\ UNCHANGED <<txVars, outbox, acked, js, failures, wakeVars, streamVars>>

\* The operation the envelope names.
WakeTarget(r) == r.op

\* The unwrapped envelope is published under its event id; the broker drops
\* a duplicate.  The consumer of the subject wakes the operation.
PublishHead ==
    /\ batch.open
    /\ \E r \in batch.rows :
        /\ \A q \in batch.rows : AtOrBefore(Position(r), Position(q))
        /\ js' = js \cup {<<r.op, r.seq>>}
        /\ notes' = IF <<r.op, r.seq>> \in js THEN notes ELSE notes \cup {WakeTarget(r)}
        /\ batch' = [open |-> TRUE, rows |-> batch.rows \ {r}, last |-> Position(r)]
    /\ UNCHANGED <<txVars, outbox, acked, failures, lost, woken, streamVars>>

\* The position is acknowledged with the transaction of the query.
Acknowledge ==
    /\ batch.open /\ batch.rows = {}
    /\ acked' = batch.last /\ batch' = NoBatch
    /\ UNCHANGED <<txVars, outbox, js, failures, wakeVars, streamVars>>

\* The broker refuses, the acknowledgement deadline passes or the process
\* ends: what was published is published again.
ForwarderFails ==
    /\ batch.open /\ failures < MaxFailures
    /\ batch' = NoBatch /\ failures' = failures + 1
    /\ UNCHANGED <<txVars, outbox, acked, js, wakeVars, streamVars>>

\* Mutant: a row is behind the position when its offset is.
PruneByOffset(r) ==
    /\ r \in Visible /\ r.offset <= acked[2]
    /\ outbox' = outbox \ {r}
    /\ UNCHANGED <<txVars, acked, batch, js, failures, wakeVars, streamVars>>

\* A row past its retention, at or before the position.
Prune(r) ==
    /\ r \in Visible /\ AtOrBefore(Position(r), acked)
    /\ outbox' = outbox \ {r}
    /\ UNCHANGED <<txVars, acked, batch, js, failures, wakeVars, streamVars>>

-----------------------------------------------------------------------------
(* Wakes.                                                                  *)

\* Mutant: a wake is kept only by a stream that waits for it.
WakeWaiting(o) ==
    /\ o \in notes
    /\ notes' = notes \ {o}
    /\ woken' = woken \cup {s \in OpenStreams : StreamOp[s] = o /\ Waiting(s)}
    /\ UNCHANGED <<txVars, forwardVars, lost, streamVars>>

\* Wake reaches every subscriber of the operation; one wake is kept.
Wake(o) ==
    /\ o \in notes
    /\ notes' = notes \ {o}
    /\ woken' = woken \cup {s \in OpenStreams : StreamOp[s] = o}
    /\ UNCHANGED <<txVars, forwardVars, lost, streamVars>>

\* The listening connection is down.
LoseWake(o) ==
    /\ o \in notes
    /\ notes' = notes \ {o} /\ lost' = TRUE
    /\ UNCHANGED <<txVars, forwardVars, woken, streamVars>>

-----------------------------------------------------------------------------
(* Streams.                                                                *)

After(s) == IF received[s] = <<>> THEN 0 ELSE Last(received[s])

Enter(s, next) == stream' = [stream EXCEPT ![s] = next]

\* The stream is admitted and its wake subscribed before the first read.
OpenStream(s) ==
    /\ stream[s].at = "closed" /\ opens[s] < MaxOpens
    /\ Enter(s, [stream[s] EXCEPT !.at = "read"])
    /\ opens' = [opens EXCEPT ![s] = @ + 1]
    /\ woken' = woken \ {s}
    /\ UNCHANGED <<txVars, forwardVars, notes, lost, received>>

\* ListEvents reads the operation ...
ReadOperation(s) ==
    /\ stream[s].at = "read"
    /\ Enter(s, [stream[s] EXCEPT !.at = "list", !.covered = Len(log[StreamOp[s]]), !.final = StreamOp[s] \in over])
    /\ UNCHANGED <<txVars, forwardVars, wakeVars, received, opens>>

\* ... and then, in a statement of its own, the events after the cursor.
ListPage(s) ==
    LET n == Len(log[StreamOp[s]])
        last == IF After(s) + PageLimit < n THEN After(s) + PageLimit ELSE n
    IN  /\ stream[s].at = "list"
        /\ Enter(s, [stream[s] EXCEPT !.at = "send", !.page = [i \in 1..(last - After(s)) |-> After(s) + i],
                                      !.full = last < n])
        /\ UNCHANGED <<txVars, forwardVars, wakeVars, received, opens>>

SendHead(s) ==
    /\ stream[s].at = "send" /\ stream[s].page # <<>>
    /\ received' = [received EXCEPT ![s] = Append(@, Head(stream[s].page))]
    /\ Enter(s, [stream[s] EXCEPT !.page = Tail(@)])
    /\ UNCHANGED <<txVars, forwardVars, wakeVars, opens>>

\* Mutant: a final operation ends its stream with the page that was read.
EndOfPageFinal(s) ==
    /\ stream[s].at = "send" /\ stream[s].page = <<>>
    /\ Enter(s, [stream[s] EXCEPT !.at = IF stream[s].final THEN "ended" ELSE "waiting"])
    /\ UNCHANGED <<txVars, forwardVars, wakeVars, received, opens>>

\* The handler returns when the cursor has reached what a final operation
\* covered.
EndOfPage(s) ==
    /\ stream[s].at = "send" /\ stream[s].page = <<>>
    /\ Enter(s, [stream[s] EXCEPT !.at =
            IF stream[s].final /\ After(s) >= stream[s].covered THEN "ended" ELSE "waiting"])
    /\ UNCHANGED <<txVars, forwardVars, wakeVars, received, opens>>

\* Mutant: the wait ends with a wake alone.
ResumeWoken(s) ==
    /\ Waiting(s) /\ s \in woken
    /\ Enter(s, [stream[s] EXCEPT !.at = "read"])
    /\ woken' = woken \ {s}
    /\ UNCHANGED <<txVars, forwardVars, notes, lost, received, opens>>

\* A pending wake, or the poll timer, which leaves a wake pending.
Resume(s) ==
    /\ Waiting(s)
    /\ Enter(s, [stream[s] EXCEPT !.at = "read"])
    /\ woken' \in {woken \ {s}} \cup (IF s \in woken THEN {woken} ELSE {})
    /\ UNCHANGED <<txVars, forwardVars, notes, lost, received, opens>>

\* The client goes away; what was not sent yet is dropped.
Leave(s) ==
    /\ s \in OpenStreams
    /\ Enter(s, Closed)
    /\ woken' = woken \ {s}
    /\ UNCHANGED <<txVars, forwardVars, notes, lost, received, opens>>

-----------------------------------------------------------------------------
Transact(t) == Write(t) \/ Commit(t) \/ Rollback(t)
Forward == Query \/ PublishHead \/ Acknowledge
Serve(s) == ReadOperation(s) \/ ListPage(s) \/ SendHead(s) \/ EndOfPage(s) \/ Resume(s)

Next ==
    \/ \E t \in Txs : Begin(t) \/ Transact(t)
    \/ Forward \/ ForwarderFails
    \/ \E r \in outbox : Prune(r)
    \/ \E o \in Ops : Wake(o) \/ LoseWake(o)
    \/ \E s \in Streams : OpenStream(s) \/ Serve(s) \/ Leave(s)

\* A transaction ends, the forwarder keeps polling and the handler of a
\* stream runs; a stream in the wait reads again with its poll timer.
Fairness ==
    /\ \A t \in Txs : WF_vars(Transact(t))
    /\ WF_vars(Forward)
    /\ \A s \in Streams : WF_vars(Serve(s))

Spec == Init /\ [][Next]_vars /\ Fairness

-----------------------------------------------------------------------------
(* Properties.                                                             *)

Committed(r) == tx[r.tx].at = "committed"
EventsIn(o) == {o} \X (1..Len(log[o]))

(***************************************************************************)
(* No event is skipped: an event whose row was pruned, or lies at or       *)
(* before the position of the forwarder, has been published, although      *)
(* transactions commit in another order than their ids and offsets say and *)
(* the forwarder crashes between publishing and acknowledging (Prune,      *)
(* NewForwarder).                                                          *)
(***************************************************************************)
PassedIsPublished ==
    \A o \in Ops : \A e \in EventsIn(o) :
        (\A r \in outbox : <<r.op, r.seq>> = e /\ Committed(r) => AtOrBefore(Position(r), acked)) => e \in js

(***************************************************************************)
(* A client receives exactly the events of the operation: in order, each   *)
(* once, over every reconnect, and all of them before the server ends the  *)
(* stream, although the operation and its events are read by two           *)
(* statements (StreamOperationEvents, ListEvents).                         *)
(***************************************************************************)
StreamIsExact ==
    \A s \in Streams :
        LET n == Len(received[s])
            o == StreamOp[s]
        IN  /\ n <= Len(log[o]) /\ received[s] = [i \in 1..n |-> i]
            /\ stream[s].at = "ended" => o \in over /\ n = Len(log[o])

(***************************************************************************)
(* A stream that waits behind its operation is not left to the poll: as    *)
(* long as no notification was lost, and unless a full page left more to   *)
(* read, a wake is pending or on its way (Subscribe before the first read, *)
(* the buffered channel of Wake, pg_notify at commit).                     *)
(***************************************************************************)
NoLostWake ==
    \A s \in Streams :
        Waiting(s) /\ ~lost /\ ~stream[s].full /\ After(s) < Len(log[StreamOp[s]]) =>
            s \in woken \/ StreamOp[s] \in notes

Got(s, i) == Len(received[s]) >= i \/ s \notin OpenStreams

(***************************************************************************)
(* Every committed event is published, and every open stream gets it as    *)
(* long as its client stays, also when wakes are lost (Forwarder.Run, the  *)
(* poll of StreamOperationEvents).                                         *)
(***************************************************************************)
EventsArrive ==
    /\ \A t \in Txs : (tx[t].at = "committed") ~> (EventsIn(OpOf[t]) \subseteq js)
    /\ \A s \in Streams : \A i \in 1..MapThenSumSet(LAMBDA t : EventsOf[t], Txs) :
            (s \in OpenStreams /\ Len(log[StreamOp[s]]) >= i) ~> Got(s, i)
=============================================================================
