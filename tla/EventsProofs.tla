---------------------------- MODULE EventsProofs ----------------------------
(***************************************************************************)
(* What Events promises for any transactions, operations and streams, any  *)
(* page and batch size and any number of failures and reconnects, with its *)
(* proofs: types; that a client receives exactly the events of its         *)
(* operation; that no wake is lost while the connection holds; and that    *)
(* the forwarder skips no event.                                           *)
(***************************************************************************)
EXTENDS Events, FiniteSetTheorems, SequenceTheorems, TLAPS

-----------------------------------------------------------------------------
(* Sequences of numbers.                                                   *)

\* The m numbers after n.
Following(n, m) == [i \in 1..m |-> n + i]

(***************************************************************************)
(* What a client has received and what a page holds are runs of numbers:   *)
(* one moves from the head of the page to the end of what was received.    *)
(***************************************************************************)
LEMMA FollowingIsRun ==
    ASSUME NEW n \in Nat, NEW m \in Nat
    PROVE  /\ Following(n, m) \in Seq(Nat) /\ Len(Following(n, m)) = m
           /\ m > 0 => /\ Head(Following(n, m)) = n + 1 /\ Last(Following(n, m)) = n + m
                       /\ Tail(Following(n, m)) = Following(n + 1, m - 1)
           /\ Append(Following(0, n), n + 1) = Following(0, n + 1)
           /\ m = 0 <=> Following(n, m) = <<>>
<1>1. Following(n, m) \in Seq(Nat) /\ Len(Following(n, m)) = m
  BY DEF Following
<1>2. ASSUME m > 0
      PROVE  /\ Head(Following(n, m)) = n + 1 /\ Last(Following(n, m)) = n + m
             /\ Tail(Following(n, m)) = Following(n + 1, m - 1)
  <2>1. Head(Following(n, m)) = n + 1
    BY <1>1, <1>2 DEF Following
  <2>2. Last(Following(n, m)) = n + m
    BY <1>1, <1>2 DEF Following, Last
  <2>3. Tail(Following(n, m)) = Following(n + 1, m - 1)
    <3>1. Following(n, m) # <<>>
      BY <1>1, <1>2
    <3>2. Tail(Following(n, m)) \in Seq(Nat) /\ Len(Tail(Following(n, m))) = m - 1
      BY <1>1, <3>1
    <3>3. \A i \in 1..(m - 1) : Tail(Following(n, m))[i] = Following(n, m)[i + 1]
      BY <1>1, <3>1
    <3>4. \A i \in 1..(m - 1) : Following(n, m)[i + 1] = Following(n + 1, m - 1)[i]
      BY DEF Following
    <3>5. Following(n + 1, m - 1) \in Seq(Nat) /\ Len(Following(n + 1, m - 1)) = m - 1
      BY <1>2 DEF Following
    <3> QED
      BY <3>2, <3>3, <3>4, <3>5, SeqEqual
  <2> QED
    BY <2>1, <2>2, <2>3
<1>3. Append(Following(0, n), n + 1) = Following(0, n + 1)
  <2>1. Following(0, n) \in Seq(Nat) /\ Len(Following(0, n)) = n
    BY DEF Following
  <2>2. Following(0, n + 1) \in Seq(Nat) /\ Len(Following(0, n + 1)) = n + 1
    BY DEF Following
  <2>3. Append(Following(0, n), n + 1) \in Seq(Nat) /\ Len(Append(Following(0, n), n + 1)) = n + 1
    BY <2>1
  <2>4. \A i \in 1..(n + 1) : Append(Following(0, n), n + 1)[i] = Following(0, n + 1)[i]
    BY <2>1 DEF Following
  <2> QED
    BY <2>2, <2>3, <2>4
<1>4. m = 0 <=> Following(n, m) = <<>>
  BY <1>1
<1> QED
  BY <1>1, <1>2, <1>3, <1>4

-----------------------------------------------------------------------------
(* Types.                                                                  *)

(***************************************************************************)
(* A handler that moves on keeps what it has read.                         *)
(***************************************************************************)
LEMMA HandlerMoves ==
    ASSUME NEW h \in Handler, NEW at \in {"closed", "read", "list", "send", "waiting", "ended"}
    PROVE  LET g == [h EXCEPT !.at = at]
           IN  /\ g \in Handler /\ g.at = at
               /\ g.covered = h.covered /\ g.final = h.final /\ g.page = h.page /\ g.full = h.full
BY DEF Handler

(***************************************************************************)
(* A handler that has sent an event keeps all but its page.                *)
(***************************************************************************)
LEMMA HandlerSends ==
    ASSUME NEW h \in Handler, NEW page \in Seq(Nat)
    PROVE  LET g == [h EXCEPT !.page = page]
           IN  /\ g \in Handler /\ g.page = page
               /\ g.at = h.at /\ g.covered = h.covered /\ g.final = h.final /\ g.full = h.full
BY DEF Handler

(***************************************************************************)
(* A closed handler has read nothing.                                      *)
(***************************************************************************)
LEMMA ClosedType ==
    /\ Closed \in Handler
    /\ Closed.at = "closed" /\ Closed.page = <<>> /\ Closed.final = FALSE
<1>1. FALSE \in BOOLEAN /\ <<>> \in Seq(Nat) /\ 0 \in Nat
  OBVIOUS
<1> QED
  BY <1>1 DEF Closed, Handler

(***************************************************************************)
(* A batch without rows is one.                                            *)
(***************************************************************************)
LEMMA NoBatchType == NoBatch \in Batch /\ NoBatch.open = FALSE /\ NoBatch.rows = {} /\ NoBatch.last = <<0, 0>>
<1>1. FALSE \in BOOLEAN /\ {} \in SUBSET Row /\ <<0, 0>> \in Nat \X Nat
  OBVIOUS
<1> QED
  BY <1>1 DEF NoBatch, Batch

(***************************************************************************)
(* The first state has its types.                                          *)
(***************************************************************************)
LEMMA TypeInit == Init => TypeOK
<1> SUFFICES ASSUME Init PROVE TypeOK
  OBVIOUS
<1>1. [at |-> "none", id |-> 0] \in Transaction
  BY DEF Transaction
<1>2. tx \in [Txs -> Transaction] /\ stream \in [Streams -> Handler]
  BY <1>1, ClosedType DEF Init
<1>3. log \in [Ops -> Seq(Txs)] /\ received \in [Streams -> Seq(Nat)]
  BY DEF Init
<1>4. lost \in BOOLEAN /\ batch \in Batch /\ acked \in Nat \X Nat
  BY NoBatchType DEF Init
<1> QED
  BY <1>2, <1>3, <1>4 DEF Init, TypeOK

(***************************************************************************)
(* A row a transaction writes is one, and its fields.                      *)
(***************************************************************************)
LEMMA TransitionType ==
    ASSUME TypeOK, NEW t \in Txs, NEW i \in 1..EventsOf[t]
    PROVE  /\ Transition(t, i) \in Row
           /\ Transition(t, i).tx = t /\ Transition(t, i).op = OpOf[t] /\ Transition(t, i).id = tx[t].id
           /\ Transition(t, i).seq = Len(log[OpOf[t]]) + i /\ Transition(t, i).offset = offsets + i
<1>1. OpOf[t] \in Ops /\ EventsOf[t] \in Nat /\ i \in Nat
  BY EventsAssumption
<1>2. tx[t].id \in Nat /\ offsets \in Nat /\ Len(log[OpOf[t]]) \in Nat
  BY <1>1 DEF TypeOK, Transaction
<1> QED
  BY <1>1, <1>2 DEF Transition, Row

(***************************************************************************)
(* A transaction that moves on keeps its id.                               *)
(***************************************************************************)
LEMMA TransactionFields ==
    ASSUME NEW row \in Transaction, NEW at \in {"begun", "written", "committed", "aborted"}
    PROVE  /\ [row EXCEPT !.at = at] \in Transaction
           /\ [row EXCEPT !.at = at].at = at /\ [row EXCEPT !.at = at].id = row.id
BY DEF Transaction

(***************************************************************************)
(* What moving a transaction on changes.                                   *)
(***************************************************************************)
LEMMA TransactionMoves ==
    ASSUME TypeOK, NEW t \in Txs, NEW at \in {"begun", "written", "committed", "aborted"}, tx' = [tx EXCEPT ![t].at = at]
    PROVE  /\ tx' \in [Txs -> Transaction] /\ tx'[t].at = at
           /\ \A u \in Txs : tx'[u].id = tx[u].id /\ (u # t => tx'[u] = tx[u])
<1>1. tx[t] \in Transaction /\ tx' = [tx EXCEPT ![t] = [tx[t] EXCEPT !.at = at]]
  BY DEF TypeOK
<1>2. [tx[t] EXCEPT !.at = at] \in Transaction /\ [tx[t] EXCEPT !.at = at].at = at /\ [tx[t] EXCEPT !.at = at].id = tx[t].id
  BY <1>1, TransactionFields
<1> QED
  BY <1>1, <1>2 DEF TypeOK

(***************************************************************************)
(* The events a transaction adds to the log of its operation.              *)
(***************************************************************************)
LEMMA CommitLog ==
    ASSUME TypeOK, NEW t \in Txs, Commit(t)
    PROVE  /\ log' \in [Ops -> Seq(Txs)]
           /\ Len(log'[OpOf[t]]) = Len(log[OpOf[t]]) + EventsOf[t]
           /\ \A o \in Ops : o # OpOf[t] => log'[o] = log[o]
<1>1. OpOf[t] \in Ops /\ EventsOf[t] \in Nat
  BY EventsAssumption
<1>2. log[OpOf[t]] \in Seq(Txs)
  BY <1>1 DEF TypeOK
<1>3. PICK more : more = [i \in 1..EventsOf[t] |-> t]
  OBVIOUS
<1>4. more \in Seq(Txs) /\ Len(more) = EventsOf[t]
  BY <1>1, <1>3
<1>5. log[OpOf[t]] \o more \in Seq(Txs) /\ Len(log[OpOf[t]] \o more) = Len(log[OpOf[t]]) + EventsOf[t]
  BY <1>2, <1>4
<1>6. log' = [log EXCEPT ![OpOf[t]] = log[OpOf[t]] \o more]
  BY <1>3 DEF Commit
<1> QED
  BY <1>1, <1>5, <1>6 DEF TypeOK

-----------------------------------------------------------------------------
(* Streams.                                                                *)

Recorded(s) == Len(log[StreamOp[s]])

\* One transaction at a time writes events of an operation, and none of an
\* operation that is over.
OperationIsLocked ==
    /\ \A t, u \in Txs : LocksOperation(t) /\ LocksOperation(u) /\ OpOf[t] = OpOf[u] => t = u
    /\ \A t \in Txs : LocksOperation(t) => OpOf[t] \notin over

\* A client has the first events, and the page its handler holds is next.
PageIsNext(s) ==
    /\ received[s] = Following(0, Len(received[s]))
    /\ stream[s].page = Following(Len(received[s]), Len(stream[s].page))
    /\ Len(received[s]) + Len(stream[s].page) <= Recorded(s)
    /\ stream[s].page # <<>> => stream[s].at = "send"

\* An operation that was read as final stays as it was covered.
FinalIsCovered(s) ==
    /\ stream[s].final => StreamOp[s] \in over /\ stream[s].covered = Recorded(s)
    /\ stream[s].at = "ended" => StreamOp[s] \in over /\ Len(received[s]) = Recorded(s)

\* A handler that has listed everything is woken for what comes after.
WakeIsKept(s) ==
    /\ stream[s].at \in {"send", "waiting"} /\ ~stream[s].full /\ ~lost
    /\ Len(received[s]) + Len(stream[s].page) < Recorded(s)
    => s \in woken \/ StreamOp[s] \in notes

HandlerInv(s) == PageIsNext(s) /\ FinalIsCovered(s) /\ WakeIsKept(s)

StreamInv == OperationIsLocked /\ \A s \in Streams : HandlerInv(s)

(***************************************************************************)
(* A stream resumes after as many events as its client has.                *)
(***************************************************************************)
LEMMA AfterIsCount ==
    ASSUME TypeOK, NEW s \in Streams, PageIsNext(s)
    PROVE  /\ After(s) = Len(received[s]) /\ Len(received[s]) \in Nat /\ Len(stream[s].page) \in Nat
           /\ StreamOp[s] \in Ops /\ Recorded(s) \in Nat /\ stream[s] \in Handler
<1>1. received[s] \in Seq(Nat) /\ stream[s] \in Handler /\ StreamOp[s] \in Ops
  BY EventsAssumption DEF TypeOK
<1>2. stream[s].page \in Seq(Nat) /\ log[StreamOp[s]] \in Seq(Txs)
  BY <1>1 DEF Handler, TypeOK
<1>3. Len(received[s]) \in Nat /\ Len(stream[s].page) \in Nat /\ Recorded(s) \in Nat
  BY <1>1, <1>2 DEF Recorded
<1>4. PICK n \in Nat : n = Len(received[s])
  BY <1>3
<1>5. received[s] = Following(0, n)
  BY <1>4 DEF PageIsNext
<1>6. CASE n = 0
  <2>1. received[s] = <<>>
    BY <1>5, <1>6, FollowingIsRun
  <2> QED
    BY <1>1, <1>3, <1>4, <1>6, <2>1 DEF After
<1>7. CASE n > 0
  <2>1. Last(Following(0, n)) = 0 + n /\ Following(0, n) # <<>>
    BY <1>7, FollowingIsRun
  <2> QED
    BY <1>1, <1>3, <1>4, <1>5, <2>1 DEF After
<1> QED
  BY <1>1, <1>3, <1>4, <1>6, <1>7

\* What a step of stream s does to its handler and its client.
Moves(s, h, got) ==
    /\ h \in Handler /\ got \in Seq(Nat)
    /\ stream' = [stream EXCEPT ![s] = h] /\ received' = [received EXCEPT ![s] = got]
    /\ UNCHANGED <<txVars, forwardVars, notes, lost>>

(***************************************************************************)
(* What reading the operation and listing a page leave in the handler.     *)
(***************************************************************************)
LEMMA ReadMoves ==
    ASSUME TypeOK, NEW s \in Streams, HandlerInv(s), ReadOperation(s) \/ ListPage(s)
    PROVE  /\ UNCHANGED <<woken, opens>>
           /\ \E h \in Handler :
                /\ Moves(s, h, received[s])
                /\ ReadOperation(s) => /\ h.at = "list" /\ h.covered = Recorded(s) /\ h.final = (StreamOp[s] \in over)
                                       /\ h.page = stream[s].page
                /\ ListPage(s) => /\ h.at = "send" /\ h.covered = stream[s].covered /\ h.final = stream[s].final
                                  /\ \E m \in Nat : /\ h.page = Following(Len(received[s]), m)
                                                    /\ Len(received[s]) + m <= Recorded(s)
                                                    /\ h.full = (Len(received[s]) + m < Recorded(s))
<1>0. /\ After(s) = Len(received[s]) /\ Len(received[s]) \in Nat /\ stream[s] \in Handler /\ Recorded(s) \in Nat
      /\ Len(received[s]) <= Recorded(s) /\ received[s] \in Seq(Nat) /\ received' = [received EXCEPT ![s] = received[s]]
  <2>1. received' = received
    BY DEF ReadOperation, ListPage
  <2> QED
    BY <2>1, AfterIsCount DEF HandlerInv, PageIsNext, TypeOK
<1>1. ReadOperation(s) => ~ListPage(s)
  BY DEF ReadOperation, ListPage
<1>2. CASE ReadOperation(s)
  <2>1. (StreamOp[s] \in over) \in BOOLEAN
    OBVIOUS
  <2>2. PICK h : h = [stream[s] EXCEPT !.at = "list", !.covered = Recorded(s), !.final = StreamOp[s] \in over]
    OBVIOUS
  <2>3. h \in Handler /\ h.at = "list" /\ h.covered = Recorded(s) /\ h.final = (StreamOp[s] \in over) /\ h.page = stream[s].page
    <3>1. PICK f \in Handler, n \in Nat : f = stream[s] /\ n = Recorded(s)
      BY <1>0
    <3>2. ASSUME NEW b \in BOOLEAN
          PROVE  LET g == [f EXCEPT !.at = "list", !.covered = n, !.final = b]
                 IN  g \in Handler /\ g.at = "list" /\ g.covered = n /\ g.final = b /\ g.page = f.page
      BY DEF Handler
    <3> QED
      BY <2>1, <2>2, <3>1, <3>2, Zenon
  <2>4. Moves(s, h, received[s]) /\ UNCHANGED <<woken, opens>>
    BY <1>0, <1>2, <2>1, <2>2, <2>3 DEF ReadOperation, Enter, Recorded, Moves, wakeVars
  <2> QED
    BY <1>1, <1>2, <2>3, <2>4
<1>3. CASE ListPage(s)
  <2> DEFINE n == Recorded(s)
             last == IF After(s) + PageLimit < n THEN After(s) + PageLimit ELSE n
  <2>1. PICK m : m = last - After(s)
    OBVIOUS
  <2>2. m \in Nat /\ last = Len(received[s]) + m /\ last <= n
    BY <1>0, <2>1, EventsAssumption
  <2>3. PICK page : page = Following(Len(received[s]), m)
    OBVIOUS
  <2>4. page \in Seq(Nat)
    BY <1>0, <2>2, <2>3, FollowingIsRun
  <2> (last < n) \in BOOLEAN
    OBVIOUS
  <2>5. PICK h : h = [stream[s] EXCEPT !.at = "send", !.page = page, !.full = last < n]
    OBVIOUS
  <2>6. h \in Handler /\ h.at = "send" /\ h.covered = stream[s].covered /\ h.final = stream[s].final
        /\ h.page = page /\ h.full = (last < n)
    <3> HIDE DEF last, n
    <3>1. PICK f \in Handler : f = stream[s]
      BY <1>0
    <3>2. ASSUME NEW b \in BOOLEAN
          PROVE  LET g == [f EXCEPT !.at = "send", !.page = page, !.full = b]
                 IN  /\ g \in Handler /\ g.at = "send" /\ g.covered = f.covered /\ g.final = f.final
                     /\ g.page = page /\ g.full = b
      BY <2>4 DEF Handler
    <3> QED
      BY <2>5, <3>1, <3>2, Zenon
  <2>7. page = [i \in 1..(last - After(s)) |-> After(s) + i]
    BY <1>0, <2>1, <2>3 DEF Following
  <2>8. Moves(s, h, received[s]) /\ UNCHANGED <<woken, opens>>
    <3>1. Enter(s, [stream[s] EXCEPT !.at = "send", !.page = [i \in 1..(last - After(s)) |-> After(s) + i], !.full = last < n])
      BY <1>3 DEF ListPage, Recorded
    <3>2. stream' = [stream EXCEPT ![s] = h]
      BY <2>5, <2>7, <3>1 DEF Enter
    <3> QED
      BY <1>0, <1>3, <2>6, <3>2 DEF ListPage, Moves, wakeVars
  <2>9. h.page = Following(Len(received[s]), m) /\ Len(received[s]) + m <= Recorded(s) /\ h.full = (Len(received[s]) + m < Recorded(s))
    BY <2>2, <2>3, <2>6
  <2> QED
    BY <1>1, <1>3, <2>2, <2>6, <2>8, <2>9
<1> QED
  BY <1>2, <1>3

\* What makes a handler and a client right after a step of stream s.
HeldRight(s, h, got) ==
    /\ got = Following(0, Len(got)) /\ h.page = Following(Len(got), Len(h.page))
    /\ Len(got) + Len(h.page) <= Recorded(s)
    /\ h.page # <<>> => h.at = "send"
    /\ h.final => StreamOp[s] \in over /\ h.covered = Recorded(s)
    /\ h.at = "ended" => StreamOp[s] \in over /\ Len(got) = Recorded(s)
    /\ h.at \in {"send", "waiting"} /\ ~h.full /\ ~lost /\ Len(got) + Len(h.page) < Recorded(s)
        => s \in woken' \/ StreamOp[s] \in notes

(***************************************************************************)
(* A step of one stream keeps types and streams when it leaves its own     *)
(* handler right and takes no wake from another.                           *)
(***************************************************************************)
LEMMA MovesRight ==
    ASSUME TypeOK, StreamInv, NEW s \in Streams, NEW h, NEW got, Moves(s, h, got), HeldRight(s, h, got),
           woken' \subseteq Streams, woken \ {s} \subseteq woken', opens' \in [Streams -> Nat]
    PROVE  TypeOK' /\ StreamInv'
<1>1. /\ stream'[s] = h /\ received'[s] = got
      /\ \A x \in Streams : x # s => stream'[x] = stream[x] /\ received'[x] = received[x]
      /\ stream' \in [Streams -> Handler] /\ received' \in [Streams -> Seq(Nat)]
  BY DEF Moves, TypeOK
<1>2. TypeOK'
  BY <1>1 DEF TypeOK, Moves, txVars, forwardVars
<1>3. OperationIsLocked'
  BY DEF StreamInv, OperationIsLocked, LocksOperation, Moves, txVars
<1>4. \A x \in Streams : Recorded(x)' = Recorded(x)
  BY DEF Recorded, Moves, txVars
<1>5. UNCHANGED <<over, notes, lost>>
  BY DEF Moves, txVars
<1>6. HandlerInv(s)'
  BY <1>1, <1>4, <1>5 DEF HeldRight, HandlerInv, PageIsNext, FinalIsCovered, WakeIsKept
<1>7. ASSUME NEW x \in Streams, x # s PROVE HandlerInv(x)'
  <2>1. HandlerInv(x) /\ stream'[x] = stream[x] /\ received'[x] = received[x] /\ (x \in woken => x \in woken')
    BY <1>1, <1>7 DEF StreamInv
  <2> QED
    BY <1>4, <1>5, <2>1 DEF HandlerInv, PageIsNext, FinalIsCovered, WakeIsKept
<1> QED
  BY <1>2, <1>3, <1>6, <1>7 DEF StreamInv

(***************************************************************************)
(* Every step of a stream keeps types and streams: what is listed is next, *)
(* what is sent is the head of it, and the stream ends at what a final     *)
(* operation covered (ListEvents, StreamOperationEvents).                  *)
(***************************************************************************)
LEMMA StreamStep ==
    ASSUME TypeOK, StreamInv, NEW s \in Streams, OpenStream(s) \/ Serve(s) \/ Leave(s)
    PROVE  TypeOK' /\ StreamInv'
<1>0. /\ HandlerInv(s) /\ PageIsNext(s) /\ FinalIsCovered(s) /\ WakeIsKept(s)
      /\ After(s) = Len(received[s]) /\ Len(received[s]) \in Nat /\ Len(stream[s].page) \in Nat
      /\ StreamOp[s] \in Ops /\ Recorded(s) \in Nat /\ stream[s] \in Handler
      /\ received[s] \in Seq(Nat) /\ stream[s].page \in Seq(Nat)
      /\ opens \in [Streams -> Nat] /\ woken \subseteq Streams
  <2>1. HandlerInv(s) /\ PageIsNext(s) /\ FinalIsCovered(s) /\ WakeIsKept(s)
    BY DEF StreamInv, HandlerInv
  <2> QED
    BY <2>1, AfterIsCount DEF TypeOK, Handler
<1>count. PICK n \in Nat, m \in Nat, total \in Nat : n = Len(received[s]) /\ m = Len(stream[s].page) /\ total = Recorded(s)
  BY <1>0
<1>00. /\ received[s] = Following(0, n) /\ stream[s].page = Following(n, m) /\ n + m <= total /\ After(s) = n
       /\ stream[s].page # <<>> => stream[s].at = "send"
       /\ stream[s].page = <<>> <=> m = 0
  BY <1>0, <1>count, FollowingIsRun DEF PageIsNext
<1>1. CASE ReadOperation(s)
  <2>1. PICK h \in Handler :
          /\ Moves(s, h, received[s])
          /\ h.at = "list" /\ h.covered = Recorded(s) /\ h.final = (StreamOp[s] \in over) /\ h.page = stream[s].page
    BY <1>0, <1>count, <1>1, ReadMoves
  <2>2. UNCHANGED <<woken, opens>> /\ stream[s].page = <<>>
    BY <1>0, <1>count, <1>1, ReadMoves DEF ReadOperation, PageIsNext
  <2>3. HeldRight(s, h, received[s])
    BY <1>0, <1>count, <2>1, <2>2 DEF HeldRight, PageIsNext
  <2> QED
    BY <1>0, <1>count, <2>1, <2>2, <2>3, MovesRight
<1>2. CASE ListPage(s)
  <2>1. PICK h \in Handler :
          /\ Moves(s, h, received[s])
          /\ h.at = "send" /\ h.covered = stream[s].covered /\ h.final = stream[s].final
          /\ \E k \in Nat : /\ h.page = Following(Len(received[s]), k) /\ Len(received[s]) + k <= Recorded(s)
                            /\ h.full = (Len(received[s]) + k < Recorded(s))
    BY <1>0, <1>count, <1>2, ReadMoves
  <2>2. PICK k \in Nat : h.page = Following(n, k) /\ n + k <= total /\ h.full = (n + k < total)
    BY <1>count, <2>1
  <2>3. Len(h.page) = k
    <3>1. h.page = Following(n, k)
      BY <2>2
    <3>2. Len(Following(n, k)) = k
      BY FollowingIsRun
    <3> QED
      BY <3>1, <3>2, Zenon
  <2>4. UNCHANGED <<woken, opens>>
    BY <1>0, <1>count, <1>2, ReadMoves
  <2>5. HeldRight(s, h, received[s])
    BY <1>0, <1>count, <1>00, <2>1, <2>2, <2>3 DEF HeldRight, FinalIsCovered
  <2> QED
    BY <1>0, <1>count, <2>1, <2>4, <2>5, MovesRight
<1>3. CASE SendHead(s)
  <2>1. m > 0
    BY <1>00, <1>3 DEF SendHead
  <2>2. Head(stream[s].page) = n + 1 /\ Tail(stream[s].page) = Following(n + 1, m - 1)
    BY <1>00, <2>1, FollowingIsRun
  <2>3. Append(received[s], n + 1) = Following(0, n + 1)
    BY <1>00, FollowingIsRun
  <2>4. PICK got : got = Following(0, n + 1)
    OBVIOUS
  <2>5. PICK page : page = Following(n + 1, m - 1)
    OBVIOUS
  <2>6. got \in Seq(Nat) /\ Len(got) = n + 1
    <3>1. n + 1 \in Nat /\ 0 \in Nat
      OBVIOUS
    <3> QED
      BY <2>4, <3>1, FollowingIsRun
  <2>7. page \in Seq(Nat) /\ Len(page) = m - 1
    <3>1. n + 1 \in Nat /\ m - 1 \in Nat
      BY <2>1
    <3> QED
      BY <2>5, <3>1, FollowingIsRun
  <2>8. PICK h : h = [stream[s] EXCEPT !.page = page]
    OBVIOUS
  <2>9. h \in Handler /\ h.page = page /\ h.at = "send" /\ h.covered = stream[s].covered /\ h.final = stream[s].final /\ h.full = stream[s].full
    BY <1>0, <1>count, <1>3, <2>7, <2>8, HandlerSends DEF SendHead
  <2>10. stream' = [stream EXCEPT ![s] = h]
    BY <1>3, <2>2, <2>5, <2>8 DEF SendHead, Enter
  <2>11. received' = [received EXCEPT ![s] = got]
    BY <1>3, <2>2, <2>3, <2>4 DEF SendHead
  <2>12. Moves(s, h, got) /\ UNCHANGED <<woken, opens>>
    BY <1>3, <2>6, <2>9, <2>10, <2>11 DEF SendHead, Moves, wakeVars
  <2>13. Len(got) + Len(h.page) = n + m
    BY <2>6, <2>7, <2>9
  <2>14. HeldRight(s, h, got)
    <3>1. h.page = Following(Len(got), Len(h.page)) /\ got = Following(0, Len(got))
      BY <2>4, <2>5, <2>6, <2>7, <2>9
    <3>2. stream[s].at = "send"
      BY <1>3 DEF SendHead
    <3> QED
      BY <1>0, <1>count, <1>00, <2>1, <2>9, <2>12, <2>13, <3>1, <3>2 DEF HeldRight, FinalIsCovered, WakeIsKept
  <2> QED
    BY <1>0, <1>count, <2>12, <2>14, MovesRight
<1>4. CASE EndOfPage(s)
  <2>1. PICK at \in {"ended", "waiting"} :
          /\ stream' = [stream EXCEPT ![s] = [stream[s] EXCEPT !.at = at]]
          /\ at = "ended" => stream[s].final /\ After(s) >= stream[s].covered
    BY <1>4 DEF EndOfPage, Enter
  <2>2. PICK h : h = [stream[s] EXCEPT !.at = at]
    OBVIOUS
  <2>3. /\ h \in Handler /\ h.at = at
        /\ h.covered = stream[s].covered /\ h.final = stream[s].final /\ h.page = stream[s].page /\ h.full = stream[s].full
    BY <1>0, <1>count, <2>2 DEF Handler
  <2>4. received' = [received EXCEPT ![s] = received[s]] /\ UNCHANGED <<woken, opens>>
    BY <1>4 DEF EndOfPage, TypeOK, wakeVars
  <2>5. Moves(s, h, received[s])
    BY <1>0, <1>count, <1>4, <2>1, <2>2, <2>3, <2>4 DEF EndOfPage, Moves, wakeVars
  <2>6. stream[s].page = <<>> /\ stream[s].at = "send"
    BY <1>4 DEF EndOfPage
  <2>7. at = "ended" => StreamOp[s] \in over /\ n = total
    BY <1>0, <1>count, <1>00, <2>1 DEF FinalIsCovered
  <2>8. HeldRight(s, h, received[s])
    BY <1>0, <1>count, <2>3, <2>4, <2>6, <2>7 DEF HeldRight, PageIsNext, FinalIsCovered, WakeIsKept
  <2> QED
    BY <1>0, <1>count, <2>4, <2>5, <2>8, MovesRight
<1>5. CASE Resume(s) \/ OpenStream(s)
  <2>1. PICK h : h = [stream[s] EXCEPT !.at = "read"]
    OBVIOUS
  <2>2. /\ h \in Handler /\ h.at = "read"
        /\ h.covered = stream[s].covered /\ h.final = stream[s].final /\ h.page = stream[s].page /\ h.full = stream[s].full
    BY <1>0, <1>count, <2>1, HandlerMoves
  <2>3. received' = [received EXCEPT ![s] = received[s]] /\ stream[s].page = <<>>
    BY <1>0, <1>count, <1>5 DEF Resume, OpenStream, TypeOK, Waiting, PageIsNext
  <2>4. woken' \in {woken, woken \ {s}} /\ opens' \in [Streams -> Nat]
    <3>1. opens' = opens \/ opens' = [opens EXCEPT ![s] = opens[s] + 1]
      BY <1>5 DEF Resume, OpenStream
    <3>2. woken' \in {woken, woken \ {s}}
      BY <1>5 DEF Resume, OpenStream
    <3> QED
      BY <1>0, <1>count, <3>1, <3>2
  <2>5. Moves(s, h, received[s])
    BY <1>0, <1>count, <1>5, <2>1, <2>2, <2>3 DEF Resume, OpenStream, Enter, Moves
  <2>6. HeldRight(s, h, received[s])
    BY <1>0, <1>count, <2>2, <2>3 DEF HeldRight, PageIsNext, FinalIsCovered
  <2> QED
    BY <1>0, <1>count, <2>4, <2>5, <2>6, MovesRight
<1>6. CASE Leave(s)
  <2>1. received' = [received EXCEPT ![s] = received[s]] /\ stream' = [stream EXCEPT ![s] = Closed]
    BY <1>6 DEF Leave, Enter, TypeOK
  <2>2. woken' = woken \ {s} /\ UNCHANGED opens
    BY <1>6 DEF Leave
  <2>3. Moves(s, Closed, received[s])
    BY <1>0, <1>count, <1>6, <2>1, ClosedType DEF Leave, Moves
  <2>4. Len(<<>>) = 0 /\ Following(Len(received[s]), 0) = <<>>
    BY <1>0, <1>count, FollowingIsRun
  <2>5. Closed.at = "closed" /\ Closed.page = <<>> /\ ~Closed.final
    BY ClosedType
  <2>6. HeldRight(s, Closed, received[s])
    BY <1>0, <1>00, <1>count, <2>4, <2>5 DEF HeldRight
  <2> QED
    BY <1>0, <1>count, <2>2, <2>3, <2>6, MovesRight
<1> QED
  BY <1>1, <1>2, <1>3, <1>4, <1>5, <1>6 DEF Serve

(***************************************************************************)
(* The first state has no event.                                           *)
(***************************************************************************)
LEMMA StreamInit == Init => StreamInv
<1> SUFFICES ASSUME Init PROVE StreamInv
  OBVIOUS
<1>1. \A t \in Txs : ~LocksOperation(t)
  BY DEF Init, LocksOperation
<1>2. ASSUME NEW s \in Streams PROVE HandlerInv(s)
  <2>1. stream[s] = Closed /\ received[s] = <<>> /\ StreamOp[s] \in Ops
    BY EventsAssumption DEF Init
  <2>2. Closed.at = "closed" /\ Closed.page = <<>> /\ ~Closed.final
    BY ClosedType
  <2>3. Recorded(s) = 0
    BY <2>1 DEF Init, Recorded
  <2>4. Following(0, 0) = <<>> /\ Len(<<>>) = 0
    BY FollowingIsRun
  <2> QED
    BY <2>1, <2>2, <2>3, <2>4 DEF HandlerInv, PageIsNext, FinalIsCovered, WakeIsKept
<1> QED
  BY <1>1, <1>2 DEF StreamInv, OperationIsLocked

(***************************************************************************)
(* While the log stays, a step keeps the streams when it loses no wake.    *)
(***************************************************************************)
LEMMA StreamsStay ==
    ASSUME StreamInv, UNCHANGED <<log, over, stream, received>>, OperationIsLocked', woken \subseteq woken',
           \A s \in Streams : /\ s \in OpenStreams /\ StreamOp[s] \in notes => lost' = TRUE \/ s \in woken' \/ StreamOp[s] \in notes'
                              /\ lost => lost'
    PROVE  StreamInv'
<1>1. ASSUME NEW s \in Streams PROVE HandlerInv(s)'
  <2>1. HandlerInv(s) /\ Recorded(s)' = Recorded(s)
    BY DEF StreamInv, Recorded
  <2>2. PageIsNext(s)' /\ FinalIsCovered(s)'
    BY <2>1 DEF HandlerInv, PageIsNext, FinalIsCovered
  <2>3. WakeIsKept(s)'
    <3> SUFFICES ASSUME stream[s].at \in {"send", "waiting"}, ~stream[s].full, ~lost',
                        Len(received[s]) + Len(stream[s].page) < Recorded(s)
                 PROVE  s \in woken' \/ StreamOp[s] \in notes'
      BY <2>1 DEF WakeIsKept
    <3>1. s \in OpenStreams
      BY DEF OpenStreams
    <3>2. s \in woken \/ StreamOp[s] \in notes
      BY <2>1 DEF HandlerInv, WakeIsKept
    <3> QED
      BY <3>1, <3>2
  <2> QED
    BY <2>2, <2>3 DEF HandlerInv
<1> QED
  BY <1>1 DEF StreamInv

(***************************************************************************)
(* The transactions keep types and streams: a commit adds to the log of    *)
(* its operation under the lock, and notifies (InsertEvent).               *)
(***************************************************************************)
LEMMA TransactionStep ==
    ASSUME TypeOK, StreamInv, NEW t \in Txs, Begin(t) \/ Transact(t)
    PROVE  TypeOK' /\ StreamInv'
<1>0. OpOf[t] \in Ops /\ EventsOf[t] \in Nat /\ OperationIsLocked
  BY EventsAssumption DEF StreamInv
<1>1. CASE Begin(t)
  <2>1. NextId \in Nat
    <3>1. IsFiniteSet({u \in Txs : tx[u].id > 0})
      BY EventsAssumption, FS_Subset
    <3> QED
      BY <3>1, FS_CardinalityType DEF NextId
  <2>2. [at |-> "begun", id |-> NextId] \in Transaction
    BY <2>1 DEF Transaction
  <2>3. tx' \in [Txs -> Transaction] /\ tx'[t].at = "begun" /\ \A u \in Txs : u # t => tx'[u] = tx[u]
    BY <1>1, <2>2 DEF Begin, TypeOK
  <2>4. OperationIsLocked'
    BY <1>0, <1>1, <2>3 DEF Begin, OperationIsLocked, LocksOperation
  <2>5. StreamInv'
    BY <1>1, <2>4, StreamsStay DEF Begin, wakeVars, streamVars
  <2> QED
    BY <1>1, <2>3, <2>5 DEF Begin, TypeOK, forwardVars, wakeVars, streamVars
<1>2. CASE Write(t)
  <2>1. tx' \in [Txs -> Transaction] /\ tx'[t].at = "written" /\ \A u \in Txs : u # t => tx'[u] = tx[u]
    BY <1>2, TransactionMoves DEF Write
  <2>2. OperationIsLocked'
    BY <1>0, <1>2, <2>1 DEF Write, OperationIsLocked, LocksOperation
  <2>3. StreamInv'
    BY <1>2, <2>2, StreamsStay DEF Write, wakeVars, streamVars
  <2>4. outbox' \subseteq Row /\ offsets' \in Nat
    BY <1>0, <1>2, TransitionType DEF Write, TypeOK
  <2> QED
    BY <1>2, <2>1, <2>3, <2>4 DEF Write, TypeOK, wakeVars, streamVars
<1>3. CASE Rollback(t)
  <2>1. tx' \in [Txs -> Transaction] /\ tx'[t].at = "aborted" /\ \A u \in Txs : u # t => tx'[u] = tx[u]
    BY <1>3, TransactionMoves DEF Rollback
  <2>2. OperationIsLocked'
    BY <1>0, <1>3, <2>1 DEF Rollback, OperationIsLocked, LocksOperation
  <2>3. StreamInv'
    BY <1>3, <2>2, StreamsStay DEF Rollback, wakeVars, streamVars
  <2>4. outbox' \subseteq Row
    BY <1>3 DEF Rollback, TypeOK
  <2> QED
    BY <1>3, <2>1, <2>3, <2>4 DEF Rollback, TypeOK, wakeVars, streamVars
<1>4. CASE Commit(t)
  <2>1. tx' \in [Txs -> Transaction] /\ tx'[t].at = "committed" /\ \A u \in Txs : u # t => tx'[u] = tx[u]
    BY <1>4, TransactionMoves DEF Commit
  <2>2. /\ log' \in [Ops -> Seq(Txs)] /\ \A o \in Ops : o # OpOf[t] => log'[o] = log[o]
        /\ Len(log'[OpOf[t]]) = Len(log[OpOf[t]]) + EventsOf[t]
    BY <1>4, CommitLog
  <2>3. LocksOperation(t) /\ OpOf[t] \notin over
    BY <1>0, <1>4 DEF Commit, LocksOperation, OperationIsLocked
  <2>4. OperationIsLocked'
    BY <1>0, <1>4, <2>1, <2>3 DEF Commit, OperationIsLocked, LocksOperation
  <2>5. TypeOK'
    <3>1. over' \subseteq Ops /\ notes' \subseteq Ops
      BY <1>0, <1>4 DEF Commit, TypeOK
    <3> QED
      BY <1>4, <2>1, <2>2, <3>1 DEF Commit, TypeOK, forwardVars, streamVars
  <2>6. ASSUME NEW s \in Streams PROVE HandlerInv(s)'
    <3>1. /\ HandlerInv(s) /\ StreamOp[s] \in Ops
          /\ stream'[s] = stream[s] /\ received'[s] = received[s] /\ lost' = lost /\ woken' = woken
      BY <1>4, EventsAssumption DEF StreamInv, Commit, streamVars
    <3>2. CASE StreamOp[s] # OpOf[t]
      <4>1. Recorded(s)' = Recorded(s) /\ (StreamOp[s] \in over' <=> StreamOp[s] \in over)
        BY <1>4, <2>2, <3>1, <3>2 DEF Recorded, Commit
      <4>2. StreamOp[s] \in notes => StreamOp[s] \in notes'
        BY <1>4 DEF Commit
      <4> QED
        BY <3>1, <4>1, <4>2 DEF HandlerInv, PageIsNext, FinalIsCovered, WakeIsKept
    <3>3. CASE StreamOp[s] = OpOf[t]
      <4>1. /\ After(s) = Len(received[s]) /\ Len(received[s]) \in Nat /\ Len(stream[s].page) \in Nat /\ Recorded(s) \in Nat
        BY <3>1, AfterIsCount DEF HandlerInv
      <4>2. Recorded(s)' = Recorded(s) + EventsOf[t]
        BY <2>2, <3>3 DEF Recorded
      <4>3. Recorded(s)' >= Recorded(s)
        BY <1>0, <4>1, <4>2
      <4>4. ~stream[s].final /\ stream[s].at # "ended"
        BY <2>3, <3>1, <3>3 DEF HandlerInv, FinalIsCovered
      <4>5. StreamOp[s] \in notes'
        BY <1>4, <3>3 DEF Commit
      <4>6. Len(received[s]) + Len(stream[s].page) <= Recorded(s)'
        <5>1. PICK n \in Nat, m \in Nat, total \in Nat :
                n = Len(received[s]) /\ m = Len(stream[s].page) /\ total = Recorded(s)
          BY <4>1
        <5>2. n + m <= total
          BY <3>1, <5>1 DEF HandlerInv, PageIsNext
        <5>3. n + m <= total + EventsOf[t]
          BY <1>0, <5>2
        <5> QED
          BY <4>2, <5>1, <5>3
      <4> QED
        BY <3>1, <4>4, <4>5, <4>6 DEF HandlerInv, PageIsNext, FinalIsCovered, WakeIsKept
    <3> QED
      BY <3>2, <3>3
  <2> QED
    BY <2>4, <2>5, <2>6 DEF StreamInv
<1> QED
  BY <1>1, <1>2, <1>3, <1>4 DEF Transact

(***************************************************************************)
(* The forwarder, the retention and the wakes keep types and streams: a    *)
(* wake reaches every open stream of the operation (Wake).                 *)
(***************************************************************************)
LEMMA ForwardStep ==
    ASSUME TypeOK, StreamInv,
           Forward \/ ForwarderFails \/ (\E r \in outbox : Prune(r)) \/ (\E o \in Ops : Wake(o) \/ LoseWake(o))
    PROVE  TypeOK' /\ StreamInv'
<1>0. OperationIsLocked /\ outbox \subseteq Row
  BY DEF StreamInv, TypeOK
<1>1. OperationIsLocked'
  <2>1. UNCHANGED <<tx, over>>
    BY DEF Forward, Query, PublishHead, Acknowledge, ForwarderFails, Prune, Wake, LoseWake, txVars
  <2> QED
    BY <1>0, <2>1 DEF OperationIsLocked, LocksOperation
<1>2. CASE Query
  <2>1. FirstRows \subseteq Row /\ TRUE \in BOOLEAN
    BY <1>0 DEF FirstRows, Pending, Visible
  <2>2. batch' \in Batch
    BY <1>2, <2>1 DEF Query, Batch, TypeOK
  <2>3. StreamInv'
    BY <1>1, <1>2, StreamsStay DEF Query, txVars, wakeVars, streamVars
  <2> QED
    BY <1>2, <2>2, <2>3 DEF Query, TypeOK, txVars, wakeVars, streamVars
<1>3. CASE PublishHead
  <2>1. PICK r \in batch.rows : /\ js' = js \cup {<<r.op, r.seq>>} /\ notes' \in {notes, notes \cup {r.op}}
                                /\ batch' = [open |-> TRUE, rows |-> batch.rows \ {r}, last |-> Position(r)]
    BY <1>3 DEF PublishHead, WakeTarget
  <2>2. batch.rows \subseteq Row
    BY DEF TypeOK, Batch
  <2>3. r.op \in Ops /\ r.seq \in Nat /\ Position(r) \in Nat \X Nat
    BY <2>1, <2>2 DEF Row, Position
  <2>4. batch' \in Batch
    <3>1. TRUE \in BOOLEAN /\ batch.rows \ {r} \in SUBSET Row
      BY <2>2
    <3> QED
      BY <2>1, <2>3, <3>1 DEF Batch
  <2>5. StreamInv'
    BY <1>1, <1>3, <2>1, StreamsStay DEF PublishHead, txVars, streamVars
  <2>6. js' \subseteq Ops \X Nat /\ notes' \subseteq Ops
    BY <2>1, <2>3 DEF TypeOK
  <2> QED
    BY <1>3, <2>4, <2>5, <2>6 DEF PublishHead, TypeOK, txVars, streamVars
<1>4. CASE Acknowledge
  <2>1. acked' \in Nat \X Nat /\ batch' \in Batch
    BY <1>4, NoBatchType DEF Acknowledge, TypeOK, Batch
  <2>2. StreamInv'
    BY <1>1, <1>4, StreamsStay DEF Acknowledge, txVars, wakeVars, streamVars
  <2> QED
    BY <1>4, <2>1, <2>2 DEF Acknowledge, TypeOK, txVars, wakeVars, streamVars
<1>5. CASE ForwarderFails
  <2>1. batch' \in Batch /\ failures' \in Nat
    BY <1>5, NoBatchType DEF ForwarderFails, TypeOK
  <2>2. StreamInv'
    BY <1>1, <1>5, StreamsStay DEF ForwarderFails, txVars, wakeVars, streamVars
  <2> QED
    BY <1>5, <2>1, <2>2 DEF ForwarderFails, TypeOK, txVars, wakeVars, streamVars
<1>6. ASSUME NEW r \in outbox, Prune(r) PROVE TypeOK' /\ StreamInv'
  <2>1. StreamInv'
    BY <1>1, <1>6, StreamsStay DEF Prune, txVars, wakeVars, streamVars
  <2> QED
    BY <1>6, <2>1 DEF Prune, TypeOK, txVars, wakeVars, streamVars
<1>7. ASSUME NEW o \in Ops, Wake(o) PROVE TypeOK' /\ StreamInv'
  <2>1. woken' = woken \cup {s \in OpenStreams : StreamOp[s] = o} /\ notes' = notes \ {o} /\ UNCHANGED lost
    BY <1>7 DEF Wake
  <2>2. UNCHANGED <<log, over, stream, received>>
    BY <1>7 DEF Wake, txVars, streamVars
  <2>3. StreamInv'
    BY <1>1, <2>1, <2>2, StreamsStay
  <2>4. woken' \subseteq Streams
    BY <2>1 DEF OpenStreams, TypeOK
  <2> QED
    BY <1>7, <2>3, <2>4 DEF Wake, TypeOK, txVars, forwardVars, streamVars
<1>8. ASSUME NEW o \in Ops, LoseWake(o) PROVE TypeOK' /\ StreamInv'
  <2>1. lost' = TRUE /\ UNCHANGED <<log, over, stream, received, woken>>
    BY <1>8 DEF LoseWake, txVars, streamVars
  <2>2. StreamInv'
    BY <1>1, <2>1, StreamsStay
  <2> QED
    BY <1>8, <2>2 DEF LoseWake, TypeOK, txVars, forwardVars, streamVars
<1> QED
  BY <1>2, <1>3, <1>4, <1>5, <1>6, <1>7, <1>8 DEF Forward

(***************************************************************************)
(* Every step keeps types and streams.                                     *)
(***************************************************************************)
LEMMA TypeStep ==
    ASSUME TypeOK, StreamInv, [Next]_vars
    PROVE  TypeOK' /\ StreamInv'
<1>1. CASE UNCHANGED vars
  <2>1. UNCHANGED <<tx, offsets, log, over, outbox, acked, batch, js, failures, notes, lost, woken, stream, received, opens>>
    BY <1>1 DEF vars, txVars, forwardVars, wakeVars, streamVars
  <2>2. TypeOK'
    BY <2>1 DEF TypeOK
  <2>3. OperationIsLocked'
    BY <2>1 DEF StreamInv, OperationIsLocked, LocksOperation
  <2>4. StreamInv'
    BY <2>1, <2>3, StreamsStay
  <2> QED
    BY <2>2, <2>4
<1>2. CASE Next
  BY <1>2, TransactionStep, ForwardStep, StreamStep DEF Next
<1> QED
  BY <1>1, <1>2

-----------------------------------------------------------------------------
(* The forwarder.                                                          *)

Given == {t \in Txs : tx[t].id > 0}

\* A transaction has its id from its begin, after every id given before.
IdsAreGiven ==
    \A t \in Txs : /\ tx[t].at = "none" <=> tx[t].id = 0
                   /\ tx[t].id <= Cardinality(Given)

\* A row is of a transaction that wrote it, under an offset of its own.
RowsAreKnown ==
    /\ IsFiniteSet(outbox)
    /\ \A r \in outbox : /\ r.id = tx[r.tx].id /\ tx[r.tx].at \in {"written", "committed"}
                         /\ r.offset <= offsets
    /\ \A r, q \in outbox : r.offset = q.offset => r = q

\* What a transaction has written is in the outbox, under the next numbers.
WrittenIsKept ==
    \A t \in Txs : LocksOperation(t) =>
        \A i \in 1..EventsOf[t] :
            \E r \in outbox : r.tx = t /\ r.op = OpOf[t] /\ r.seq = Len(log[OpOf[t]]) + i

\* Every transaction in progress has a larger id than the position.
InProgress(t) == tx[t].at \in {"begun", "written"}

BelowAll(id) == id <= Cardinality(Given) /\ \A t \in Txs : InProgress(t) => id < tx[t].id

PositionIsBelow ==
    /\ BelowAll(acked[1])
    /\ batch.open => BelowAll(batch.last[1]) /\ \A r \in batch.rows : BelowAll(r.id)

\* The batch is the next visible rows after the last one published.
BatchIsNext ==
    batch.open =>
        /\ AtOrBefore(acked, batch.last)
        /\ \A r \in batch.rows : r \in Visible /\ Before(batch.last, Position(r))
        /\ \A r \in Visible, q \in batch.rows :
                Before(batch.last, Position(r)) /\ AtOrBefore(Position(r), Position(q)) => r \in batch.rows

\* An event that is not published is in a row after the position.
IsAhead(e, p) == \E r \in Visible : <<r.op, r.seq>> = e /\ Before(p, Position(r))

NothingSkipped ==
    \A o \in Ops : \A e \in EventsIn(o) :
        /\ e \in js \/ IsAhead(e, acked)
        /\ batch.open => e \in js \/ IsAhead(e, batch.last)

ForwardInv ==
    /\ IdsAreGiven /\ RowsAreKnown /\ WrittenIsKept
    /\ PositionIsBelow /\ BatchIsNext /\ NothingSkipped

(***************************************************************************)
(* Positions are ordered by transaction, then by offset.                   *)
(***************************************************************************)
LEMMA PositionsAreOrdered ==
    ASSUME NEW p \in Nat \X Nat, NEW q \in Nat \X Nat, NEW w \in Nat \X Nat
    PROVE  /\ ~Before(p, p) /\ (Before(p, q) => ~AtOrBefore(q, p))
           /\ Before(p, q) \/ AtOrBefore(q, p)
           /\ AtOrBefore(p, q) /\ AtOrBefore(q, p) => p = q
           /\ AtOrBefore(p, q) /\ AtOrBefore(q, w) => AtOrBefore(p, w)
           /\ Before(p, q) /\ AtOrBefore(q, w) => Before(p, w)
           /\ AtOrBefore(p, q) /\ Before(q, w) => Before(p, w)
           /\ Before(p, q) /\ Before(q, w) => Before(p, w)
           /\ p[1] < q[1] => Before(p, q)
           /\ AtOrBefore(p, q) => p[1] <= q[1]
<1>1. PICK a \in Nat, b \in Nat : p = <<a, b>>
  OBVIOUS
<1>2. PICK c \in Nat, d \in Nat : q = <<c, d>>
  OBVIOUS
<1>3. PICK e \in Nat, f \in Nat : w = <<e, f>>
  OBVIOUS
<1> QED
  BY <1>1, <1>2, <1>3 DEF Before, AtOrBefore

(***************************************************************************)
(* The position of a row.                                                  *)
(***************************************************************************)
LEMMA PositionType ==
    ASSUME NEW r \in Row
    PROVE  Position(r) \in Nat \X Nat /\ Position(r)[1] = r.id /\ Position(r)[2] = r.offset
BY DEF Position, Row

(***************************************************************************)
(* The ids that were given are counted.                                    *)
(***************************************************************************)
LEMMA GivenIsCounted == IsFiniteSet(Given) /\ Cardinality(Given) \in Nat
<1>1. IsFiniteSet(Given)
  BY EventsAssumption, FS_Subset DEF Given
<1> QED
  BY <1>1, FS_CardinalityType

(***************************************************************************)
(* The forwarder has skipped no event, and the row of an event that is not *)
(* published has not been pruned.                                          *)
(***************************************************************************)
LEMMA SkippedIsPublished ==
    ASSUME TypeOK, ForwardInv
    PROVE  PassedIsPublished
<1> SUFFICES ASSUME NEW o \in Ops, NEW e \in EventsIn(o), e \notin js,
                    \A r \in outbox : <<r.op, r.seq>> = e /\ Committed(r) => AtOrBefore(Position(r), acked)
             PROVE  FALSE
  BY DEF PassedIsPublished
<1>1. PICK r \in Visible : <<r.op, r.seq>> = e /\ Before(acked, Position(r))
  BY DEF ForwardInv, NothingSkipped, IsAhead
<1>2. r \in outbox /\ Committed(r) /\ r \in Row
  BY <1>1 DEF Visible, Committed, TypeOK
<1>3. AtOrBefore(Position(r), acked)
  BY <1>1, <1>2
<1> QED
  BY <1>1, <1>2, <1>3, PositionType, PositionsAreOrdered DEF TypeOK

(***************************************************************************)
(* The first state has nothing to forward.                                 *)
(***************************************************************************)
LEMMA ForwardInit == Init => ForwardInv
<1> SUFFICES ASSUME Init PROVE ForwardInv
  OBVIOUS
<1>1. \A t \in Txs : tx[t].at = "none" /\ tx[t].id = 0 /\ ~LocksOperation(t) /\ ~InProgress(t)
  BY DEF Init, LocksOperation, InProgress
<1>2. acked[1] = 0 /\ outbox = {} /\ ~batch.open
  BY NoBatchType DEF Init
<1>3. \A o \in Ops : EventsIn(o) = {}
  BY DEF Init, EventsIn
<1>4. 0 <= Cardinality(Given)
  BY GivenIsCounted
<1>5. IsFiniteSet({})
  BY FS_EmptySet
<1> QED
  BY <1>1, <1>2, <1>3, <1>4, <1>5
  DEF ForwardInv, IdsAreGiven, RowsAreKnown, WrittenIsKept, PositionIsBelow, BelowAll, BatchIsNext, NothingSkipped

(***************************************************************************)
(* While what is visible, published and acknowledged stays, a step keeps   *)
(* the forwarder right when it begins no transaction below the position.   *)
(***************************************************************************)
LEMMA ForwardStays ==
    ASSUME TypeOK, ForwardInv, UNCHANGED <<log, acked, batch, js>>, Visible' = Visible,
           \A id \in Nat : BelowAll(id) => BelowAll(id)',
           IdsAreGiven', RowsAreKnown', WrittenIsKept'
    PROVE  ForwardInv'
<1>1. PositionIsBelow'
  <2>1. acked[1] \in Nat /\ batch.last[1] \in Nat /\ \A r \in batch.rows : r.id \in Nat
    BY DEF TypeOK, Batch, Row
  <2> QED
    BY <2>1 DEF ForwardInv, PositionIsBelow
<1>2. BatchIsNext'
  BY DEF ForwardInv, BatchIsNext
<1>3. NothingSkipped'
  BY DEF ForwardInv, NothingSkipped, IsAhead, EventsIn
<1> QED
  BY <1>1, <1>2, <1>3 DEF ForwardInv

(***************************************************************************)
(* A step that leaves the transactions, the log and the outbox alone keeps *)
(* what is known of them.                                                  *)
(***************************************************************************)
LEMMA RowsStay ==
    ASSUME ForwardInv, UNCHANGED <<tx, offsets, log, outbox>>
    PROVE  /\ IdsAreGiven' /\ RowsAreKnown' /\ WrittenIsKept'
           /\ Visible' = Visible /\ \A id \in Nat : BelowAll(id)' = BelowAll(id)
<1>1. Visible' = Visible /\ Given' = Given
  BY DEF Visible, Given
<1>2. IdsAreGiven' /\ \A id \in Nat : BelowAll(id)' = BelowAll(id)
  BY <1>1 DEF ForwardInv, IdsAreGiven, BelowAll, InProgress
<1>3. RowsAreKnown'
  BY DEF ForwardInv, RowsAreKnown
<1>4. WrittenIsKept'
  BY DEF ForwardInv, WrittenIsKept, LocksOperation
<1> QED
  BY <1>1, <1>2, <1>3, <1>4

(***************************************************************************)
(* A transaction begins with an id above every position (BeginTx).         *)
(***************************************************************************)
LEMMA BeginForwards ==
    ASSUME TypeOK, ForwardInv, NEW t \in Txs, Begin(t)
    PROVE  ForwardInv'
<1>1. tx'[t] = [at |-> "begun", id |-> NextId] /\ \A u \in Txs : u # t => tx'[u] = tx[u]
  BY DEF Begin, TypeOK
<1>2. UNCHANGED <<log, outbox, acked, batch, js, offsets>>
  BY DEF Begin, forwardVars
<1>3. NextId = Cardinality(Given) + 1 /\ Cardinality(Given) \in Nat /\ IsFiniteSet(Given)
  BY GivenIsCounted DEF NextId, Given
<1>4. tx[t].id = 0 /\ tx[t].at = "none" /\ \A u \in Txs : tx[u].id \in Nat
  BY DEF Begin, ForwardInv, IdsAreGiven, TypeOK, Transaction
<1>5. Given' = Given \cup {t} /\ t \notin Given
  BY <1>1, <1>3, <1>4 DEF Given
<1>6. Cardinality(Given') = Cardinality(Given) + 1
  BY <1>3, <1>5, FS_AddElement
<1>7. \A r \in outbox : r.tx \in Txs /\ r.tx # t
  BY <1>4 DEF ForwardInv, RowsAreKnown, TypeOK, Row
<1>8. Visible' = Visible
  BY <1>1, <1>2, <1>7 DEF Visible
<1>9. ASSUME NEW id \in Nat, BelowAll(id) PROVE BelowAll(id)'
  BY <1>1, <1>3, <1>6, <1>9 DEF BelowAll, InProgress
<1>10. IdsAreGiven'
  BY <1>1, <1>3, <1>4, <1>6 DEF ForwardInv, IdsAreGiven
<1>11. RowsAreKnown'
  BY <1>1, <1>2, <1>7 DEF ForwardInv, RowsAreKnown
<1>12. WrittenIsKept'
  BY <1>1, <1>2 DEF ForwardInv, WrittenIsKept, LocksOperation
<1> QED
  BY <1>2, <1>8, <1>9, <1>10, <1>11, <1>12, ForwardStays

(***************************************************************************)
(* A transaction that moves on keeps the ids.                              *)
(***************************************************************************)
LEMMA IdsStay ==
    ASSUME TypeOK, IdsAreGiven, \A u \in Txs : tx'[u].id = tx[u].id /\ (tx'[u].at = "none" <=> tx[u].at = "none")
    PROVE  /\ IdsAreGiven' /\ Given' = Given
           /\ (\A u \in Txs : InProgress(u)' => InProgress(u)) => \A id \in Nat : BelowAll(id) => BelowAll(id)'
<1>1. Given' = Given
  BY DEF Given
<1>2. IdsAreGiven'
  BY <1>1 DEF IdsAreGiven
<1> QED
  BY <1>1, <1>2 DEF BelowAll

(***************************************************************************)
(* A transaction writes its rows under new offsets and the next numbers of *)
(* its operation, and they are not visible yet (InsertEvent).              *)
(***************************************************************************)
LEMMA WriteForwards ==
    ASSUME TypeOK, StreamInv, ForwardInv, NEW t \in Txs, Write(t)
    PROVE  ForwardInv'
<1> DEFINE new == {Transition(t, i) : i \in 1..EventsOf[t]}
<1>0. OpOf[t] \in Ops /\ EventsOf[t] \in Nat /\ offsets \in Nat
  BY EventsAssumption DEF TypeOK
<1>1. /\ tx'[t].at = "written" /\ tx[t].at = "begun"
      /\ \A u \in Txs : tx'[u].id = tx[u].id /\ (u # t => tx'[u] = tx[u])
  BY TransactionMoves DEF Write
<1>2. UNCHANGED <<log, acked, batch, js>> /\ outbox' = outbox \cup new /\ offsets' = offsets + EventsOf[t]
  BY DEF Write
<1>3. \A r \in outbox : r.tx \in Txs /\ r.tx # t
  BY <1>1 DEF ForwardInv, RowsAreKnown, TypeOK, Row
<1>4. ASSUME NEW r \in new
      PROVE  /\ r \in Row /\ r.tx = t /\ r.id = tx[t].id
             /\ \E i \in 1..EventsOf[t] : r = Transition(t, i) /\ r.offset = offsets + i
  BY TransitionType
<1>5. Visible' = Visible
  BY <1>1, <1>2, <1>3, <1>4 DEF Visible
<1>6. IdsAreGiven' /\ \A id \in Nat : BelowAll(id) => BelowAll(id)'
  <2>1. \A u \in Txs : tx'[u].id = tx[u].id /\ (tx'[u].at = "none" <=> tx[u].at = "none")
    BY <1>1
  <2>2. \A u \in Txs : InProgress(u)' => InProgress(u)
    BY <1>1 DEF InProgress
  <2> QED
    BY <2>1, <2>2, IdsStay DEF ForwardInv
<1>7. RowsAreKnown'
  <2>1. IsFiniteSet(outbox')
    <3>1. IsFiniteSet(1..EventsOf[t])
      BY <1>0, FS_Interval
    <3>2. IsFiniteSet(new)
      <4> DEFINE f == [i \in 1..EventsOf[t] |-> Transition(t, i)]
      <4>1. f \in Surjection(1..EventsOf[t], new)
        BY DEF Surjection
      <4> HIDE DEF f, new
      <4> QED
        BY <3>1, <4>1, FS_Surjection
    <3>3. IsFiniteSet(outbox)
      BY DEF ForwardInv, RowsAreKnown
    <3> HIDE DEF new
    <3> QED
      BY <1>2, <3>2, <3>3, FS_Union
  <2>2. ASSUME NEW r \in outbox'
        PROVE r.id = tx'[r.tx].id /\ tx'[r.tx].at \in {"written", "committed"} /\ r.offset <= offsets'
    <3>1. CASE r \in outbox
      <4>1. r.tx # t /\ r.tx \in Txs /\ r.id = tx[r.tx].id /\ tx[r.tx].at \in {"written", "committed"} /\ r.offset <= offsets
        BY <1>3, <3>1 DEF ForwardInv, RowsAreKnown
      <4>2. r.offset \in Nat
        BY <3>1 DEF TypeOK, Row
      <4> QED
        BY <1>0, <1>1, <1>2, <4>1, <4>2
    <3>2. CASE r \in new
      <4>1. r.tx = t /\ r.id = tx[t].id /\ \E i \in 1..EventsOf[t] : r.offset = offsets + i
        BY <1>4, <3>2
      <4> QED
        BY <1>0, <1>1, <1>2, <4>1
    <3> QED
      BY <1>2, <3>1, <3>2
  <2>3. ASSUME NEW r \in outbox', NEW q \in outbox', r.offset = q.offset PROVE r = q
    <3>1. \A x \in outbox : x.offset \in Nat /\ x.offset <= offsets
      BY DEF ForwardInv, RowsAreKnown, TypeOK, Row
    <3>2. \A x \in new : x.offset > offsets
      BY <1>0, <1>4
    <3>3. CASE r \in outbox /\ q \in outbox
      BY <2>3, <3>3 DEF ForwardInv, RowsAreKnown
    <3>4. CASE r \in new /\ q \in new
      <4>1. PICK i \in 1..EventsOf[t] : r = Transition(t, i) /\ r.offset = offsets + i
        BY <1>4, <3>4
      <4>2. PICK j \in 1..EventsOf[t] : q = Transition(t, j) /\ q.offset = offsets + j
        BY <1>4, <3>4
      <4>3. i = j
        BY <1>0, <2>3, <4>1, <4>2
      <4> QED
        BY <4>1, <4>2, <4>3
    <3> HIDE DEF new
    <3>5. CASE (r \in outbox /\ q \in new) \/ (r \in new /\ q \in outbox)
      BY <1>0, <2>3, <3>1, <3>2, <3>5
    <3> QED
      BY <1>2, <3>3, <3>4, <3>5
  <2> QED
    BY <2>1, <2>2, <2>3 DEF RowsAreKnown
<1>8. WrittenIsKept'
  <2> SUFFICES ASSUME NEW u \in Txs, tx'[u].at = "written", NEW i \in 1..EventsOf[u]
               PROVE  \E r \in outbox' : r.tx = u /\ r.op = OpOf[u] /\ r.seq = Len(log[OpOf[u]]) + i
    BY <1>2 DEF WrittenIsKept, LocksOperation
  <2>1. CASE u = t
    <3>1. Transition(t, i) \in outbox'
      BY <1>2, <2>1
    <3>2. Transition(t, i).tx = t /\ Transition(t, i).op = OpOf[t] /\ Transition(t, i).seq = Len(log[OpOf[t]]) + i
      BY <2>1, TransitionType
    <3> QED
      BY <2>1, <3>1, <3>2
  <2>2. CASE u # t
    <3>1. \E r \in outbox : r.tx = u /\ r.op = OpOf[u] /\ r.seq = Len(log[OpOf[u]]) + i
      BY <1>1, <2>2 DEF ForwardInv, WrittenIsKept, LocksOperation
    <3> QED
      BY <1>2, <3>1
  <2> QED
    BY <2>1, <2>2
<1> HIDE DEF new
<1> QED
  BY <1>2, <1>5, <1>6, <1>7, <1>8, ForwardStays

(***************************************************************************)
(* A transaction that is rolled back takes its rows, none of them visible. *)
(***************************************************************************)
LEMMA RollbackForwards ==
    ASSUME TypeOK, ForwardInv, NEW t \in Txs, Rollback(t)
    PROVE  ForwardInv'
<1>1. /\ tx'[t].at = "aborted" /\ tx[t].at \in {"begun", "written"}
      /\ \A u \in Txs : tx'[u].id = tx[u].id /\ (u # t => tx'[u] = tx[u])
  BY TransactionMoves DEF Rollback
<1>2. UNCHANGED <<log, acked, batch, js, offsets>> /\ outbox' = {r \in outbox : r.tx # t}
  BY DEF Rollback
<1>3. \A r \in outbox : r.tx \in Txs
  BY DEF TypeOK, Row
<1>4. Visible' = Visible
  BY <1>1, <1>2, <1>3 DEF Visible
<1>5. IdsAreGiven' /\ \A id \in Nat : BelowAll(id) => BelowAll(id)'
  <2>1. \A u \in Txs : tx'[u].id = tx[u].id /\ (tx'[u].at = "none" <=> tx[u].at = "none")
    BY <1>1
  <2>2. \A u \in Txs : InProgress(u)' => InProgress(u)
    BY <1>1 DEF InProgress
  <2> QED
    BY <2>1, <2>2, IdsStay DEF ForwardInv
<1>6. RowsAreKnown'
  <2>1. IsFiniteSet(outbox')
    BY <1>2, FS_Subset DEF ForwardInv, RowsAreKnown
  <2> QED
    BY <1>1, <1>2, <1>3, <2>1 DEF ForwardInv, RowsAreKnown
<1>7. WrittenIsKept'
  BY <1>1, <1>2 DEF ForwardInv, WrittenIsKept, LocksOperation
<1> QED
  BY <1>2, <1>4, <1>5, <1>6, <1>7, ForwardStays

(***************************************************************************)
(* A transaction that commits makes its rows visible, all of them after    *)
(* the position and after the batch, because its id kept the horizon below *)
(* it: each of its events is still ahead (Store.Tx).                       *)
(***************************************************************************)
LEMMA CommitForwards ==
    ASSUME TypeOK, StreamInv, ForwardInv, NEW t \in Txs, Commit(t)
    PROVE  ForwardInv'
<1>0. OpOf[t] \in Ops /\ EventsOf[t] \in Nat /\ IdsAreGiven /\ RowsAreKnown /\ tx[t].id \in Nat
  BY EventsAssumption DEF TypeOK, Transaction, ForwardInv
<1>1. /\ tx'[t].at = "committed" /\ tx[t].at = "written"
      /\ \A u \in Txs : tx'[u].id = tx[u].id /\ (u # t => tx'[u] = tx[u])
  BY TransactionMoves DEF Commit
<1>2. UNCHANGED <<outbox, acked, batch, js, offsets>>
  BY DEF Commit, forwardVars
<1>3. /\ log' \in [Ops -> Seq(Txs)] /\ \A o \in Ops : o # OpOf[t] => log'[o] = log[o]
      /\ Len(log'[OpOf[t]]) = Len(log[OpOf[t]]) + EventsOf[t]
  BY CommitLog
<1>4. \A r \in outbox : r.tx \in Txs /\ r \in Row /\ r.id = tx[r.tx].id
  BY <1>0 DEF RowsAreKnown, TypeOK, Row
<1>5. Visible \subseteq Visible' /\ (\A r \in Visible' : r \in Visible \/ r.tx = t) /\ (\A r \in outbox : r.tx = t => r \in Visible')
  BY <1>1, <1>2, <1>4 DEF Visible
<1>6. IdsAreGiven' /\ \A id \in Nat : BelowAll(id) => BelowAll(id)'
  <2>1. \A u \in Txs : tx'[u].id = tx[u].id /\ (tx'[u].at = "none" <=> tx[u].at = "none")
    BY <1>1
  <2>2. \A u \in Txs : InProgress(u)' => InProgress(u)
    BY <1>1 DEF InProgress
  <2> QED
    BY <1>0, <2>1, <2>2, IdsStay
<1>7. RowsAreKnown'
  BY <1>0, <1>1, <1>2, <1>4 DEF RowsAreKnown
<1>8. WrittenIsKept'
  <2> SUFFICES ASSUME NEW u \in Txs, tx'[u].at = "written", NEW i \in 1..EventsOf[u]
               PROVE  \E r \in outbox' : r.tx = u /\ r.op = OpOf[u] /\ r.seq = Len(log'[OpOf[u]]) + i
    BY DEF WrittenIsKept, LocksOperation
  <2>1. u # t /\ LocksOperation(u) /\ LocksOperation(t)
    BY <1>1 DEF LocksOperation
  <2>2. OpOf[u] # OpOf[t] /\ OpOf[u] \in Ops
    BY <2>1, EventsAssumption DEF StreamInv, OperationIsLocked
  <2>3. \E r \in outbox : r.tx = u /\ r.op = OpOf[u] /\ r.seq = Len(log[OpOf[u]]) + i
    BY <2>1 DEF ForwardInv, WrittenIsKept
  <2>4. log'[OpOf[u]] = log[OpOf[u]]
    BY <1>3, <2>2
  <2> QED
    BY <1>2, <2>3, <2>4
<1>9. /\ acked \in Nat \X Nat /\ batch.last \in Nat \X Nat /\ batch.rows \subseteq Row
      /\ acked[1] < tx[t].id
      /\ batch.open => batch.last[1] < tx[t].id /\ \A q \in batch.rows : q.id < tx[t].id
  BY <1>1 DEF ForwardInv, PositionIsBelow, BelowAll, InProgress, TypeOK, Batch
<1>10. PositionIsBelow'
  <2>1. acked[1] \in Nat /\ batch.last[1] \in Nat /\ \A r \in batch.rows : r.id \in Nat
    BY DEF TypeOK, Batch, Row
  <2> QED
    BY <1>2, <1>6, <2>1 DEF ForwardInv, PositionIsBelow
<1>11. ASSUME NEW r \in outbox, NEW q \in Row, r.tx = t, q.id < tx[t].id PROVE ~AtOrBefore(Position(r), Position(q))
  <2>1. r.id = tx[t].id /\ r \in Row /\ q.id \in Nat
    BY <1>4, <1>11 DEF Row
  <2> QED
    BY <1>0, <1>11, <2>1, PositionType, PositionsAreOrdered
<1>12. BatchIsNext'
  <2> SUFFICES ASSUME batch.open
               PROVE  /\ AtOrBefore(acked, batch.last)
                      /\ \A r \in batch.rows : r \in Visible' /\ Before(batch.last, Position(r))
                      /\ \A r \in Visible', q \in batch.rows :
                            Before(batch.last, Position(r)) /\ AtOrBefore(Position(r), Position(q)) => r \in batch.rows
    BY <1>2 DEF BatchIsNext
  <2>1. ASSUME NEW r \in Visible', NEW q \in batch.rows, Before(batch.last, Position(r)), AtOrBefore(Position(r), Position(q))
        PROVE  r \in batch.rows
    <3>1. r.tx # t
      <4>1. r \in outbox
        BY <1>2 DEF Visible
      <4> QED
        BY <1>9, <1>11, <2>1, <4>1
    <3>2. r \in Visible
      BY <1>5, <3>1
    <3> QED
      BY <2>1, <3>2 DEF ForwardInv, BatchIsNext
  <2> QED
    BY <1>5, <2>1 DEF ForwardInv, BatchIsNext
<1>13. NothingSkipped'
  <2>1. ASSUME NEW e, NEW p, IsAhead(e, p) PROVE \E r \in Visible' : <<r.op, r.seq>> = e /\ Before(p, Position(r))
    BY <1>5, <2>1 DEF IsAhead
  <2> SUFFICES ASSUME NEW o \in Ops, NEW e \in EventsIn(o)'
               PROVE  /\ e \in js \/ IsAhead(e, acked)'
                      /\ batch.open => e \in js \/ IsAhead(e, batch.last)'
    BY <1>2 DEF NothingSkipped
  <2>2. CASE e \in EventsIn(o)
    BY <1>2, <2>1, <2>2 DEF ForwardInv, NothingSkipped, IsAhead
  <2>3. CASE e \notin EventsIn(o)
    <3>1. PICK n \in Nat, m \in Nat : n = Len(log[o]) /\ m = Len(log'[o])
      BY <1>3 DEF TypeOK
    <3>2. PICK k \in 1..m : e = <<o, k>>
      BY <3>1 DEF EventsIn
    <3>3. k \notin 1..n
      BY <2>3, <3>1, <3>2 DEF EventsIn
    <3>4. o = OpOf[t] /\ m = n + EventsOf[t]
      BY <1>3, <3>1, <3>3
    <3>5. PICK i \in 1..EventsOf[t] : k = n + i
      <4>1. k - n \in 1..EventsOf[t] /\ k = n + (k - n)
        BY <1>0, <3>3, <3>4
      <4> QED
        BY <4>1
    <3>6. PICK r \in outbox : r.tx = t /\ r.op = o /\ r.seq = k
      BY <1>1, <3>1, <3>4, <3>5 DEF ForwardInv, WrittenIsKept, LocksOperation
    <3>7. r \in Visible' /\ r.id = tx[t].id /\ r \in Row
      BY <1>4, <1>5, <3>6
    <3>8. Before(acked, Position(r)) /\ (batch.open => Before(batch.last, Position(r)))
      BY <1>9, <3>7, PositionType, PositionsAreOrdered
    <3> QED
      BY <1>2, <3>2, <3>6, <3>7, <3>8 DEF IsAhead
  <2> QED
    BY <2>2, <2>3
<1> QED
  BY <1>6, <1>7, <1>8, <1>10, <1>12, <1>13 DEF ForwardInv

(***************************************************************************)
(* The forwarder takes the first rows after the position that lie below    *)
(* every transaction in progress: no visible row lies between them.        *)
(***************************************************************************)
LEMMA QueryForwards ==
    ASSUME TypeOK, ForwardInv, Query
    PROVE  ForwardInv'
<1>1. UNCHANGED <<tx, offsets, log, outbox, acked, js>> /\ batch' = [open |-> TRUE, rows |-> FirstRows, last |-> acked]
  BY DEF Query, txVars
<1>2. batch'.rows = FirstRows /\ batch'.last = acked
  BY <1>1
<1>3. /\ IdsAreGiven' /\ RowsAreKnown' /\ WrittenIsKept'
      /\ Visible' = Visible /\ \A id \in Nat : BelowAll(id)' = BelowAll(id)
  BY <1>1, RowsStay
<1>4. Pending \subseteq Visible /\ FirstRows \subseteq Pending /\ Visible \subseteq outbox /\ outbox \subseteq Row /\ acked \in Nat \X Nat
  BY DEF Pending, FirstRows, Visible, TypeOK
<1>5. PositionIsBelow'
  <2>1. ASSUME NEW r \in FirstRows PROVE BelowAll(r.id) /\ r.id \in Nat
    <3>1. r \in Pending /\ r \in outbox /\ r \in Row
      BY <1>4
    <3>2. r.tx \in Txs /\ r.id = tx[r.tx].id /\ BelowHorizon(r) /\ r.id \in Nat
      BY <3>1 DEF ForwardInv, RowsAreKnown, Row, Pending
    <3> QED
      BY <3>2 DEF BelowAll, BelowHorizon, InProgress, ForwardInv, IdsAreGiven
  <2>2. acked[1] \in Nat /\ BelowAll(acked[1])
    BY <1>4 DEF ForwardInv, PositionIsBelow
  <2> QED
    BY <1>1, <1>2, <1>3, <2>1, <2>2 DEF PositionIsBelow
<1>6. ASSUME NEW r \in Visible, NEW q \in FirstRows, Before(acked, Position(r)), AtOrBefore(Position(r), Position(q))
      PROVE  r \in FirstRows
  <2>1. r \in Row /\ q \in Row /\ q \in Pending
    BY <1>4
  <2>2. /\ Position(r) \in Nat \X Nat /\ Position(q) \in Nat \X Nat
        /\ Position(r)[1] = r.id /\ Position(q)[1] = q.id /\ r.id \in Nat /\ q.id \in Nat
    BY <2>1, PositionType DEF Row
  <2>3. r.id <= q.id
    BY <1>6, <2>2, PositionsAreOrdered
  <2>4. BelowHorizon(r)
    <3>1. BelowHorizon(q) /\ \A u \in Txs : tx[u].id \in Nat
      BY <2>1 DEF Pending, TypeOK, Transaction
    <3> QED
      BY <2>2, <2>3, <3>1 DEF BelowHorizon
  <2>5. r \in Pending
    BY <1>6, <2>4 DEF Pending
  <2> DEFINE Ahead(x) == {y \in Pending : Before(Position(y), Position(x))}
  <2>6. IsFiniteSet(Pending)
    BY <1>4, FS_Subset DEF ForwardInv, RowsAreKnown
  <2>7. Ahead(r) \subseteq Ahead(q)
    <3>1. ASSUME NEW y \in Pending, Before(Position(y), Position(r)) PROVE Before(Position(y), Position(q))
      <4>1. Position(y) \in Nat \X Nat
        BY <1>4, PositionType
      <4> QED
        BY <1>6, <2>2, <3>1, <4>1, PositionsAreOrdered
    <3> QED
      BY <3>1
  <2>8. IsFiniteSet(Ahead(q)) /\ Cardinality(Ahead(q)) < BatchSize
    <3>1. Ahead(q) \subseteq Pending
      OBVIOUS
    <3> QED
      BY <2>6, <3>1, FS_Subset DEF FirstRows
  <2>9. Cardinality(Ahead(r)) <= Cardinality(Ahead(q)) /\ Cardinality(Ahead(r)) \in Nat /\ Cardinality(Ahead(q)) \in Nat
    <3> HIDE DEF Ahead
    <3> QED
      BY <2>7, <2>8, FS_Subset, FS_CardinalityType
  <2>10. Cardinality(Ahead(r)) < BatchSize
    <3> HIDE DEF Ahead
    <3> QED
      BY <2>8, <2>9, EventsAssumption
  <2> QED
    BY <2>5, <2>10 DEF FirstRows
<1>7. BatchIsNext'
  <2>1. AtOrBefore(acked, acked) /\ \A r \in FirstRows : r \in Visible /\ Before(acked, Position(r))
    BY <1>4 DEF AtOrBefore, Pending
  <2> QED
    BY <1>1, <1>2, <1>3, <1>6, <2>1 DEF BatchIsNext
<1>8. NothingSkipped'
  BY <1>1, <1>2, <1>3 DEF ForwardInv, NothingSkipped, IsAhead, EventsIn
<1> QED
  BY <1>3, <1>5, <1>7, <1>8 DEF ForwardInv

(***************************************************************************)
(* The forwarder publishes the first row of its batch: the events before   *)
(* it are published, the others are still ahead.                           *)
(***************************************************************************)
LEMMA PublishForwards ==
    ASSUME TypeOK, ForwardInv, PublishHead
    PROVE  ForwardInv'
<1>0. batch.open /\ batch.rows \subseteq Row /\ batch.last \in Nat \X Nat /\ acked \in Nat \X Nat /\ Visible \subseteq Row
  BY DEF PublishHead, TypeOK, Batch, Visible
<1>1. PICK h \in batch.rows :
        /\ \A q \in batch.rows : AtOrBefore(Position(h), Position(q))
        /\ js' = js \cup {<<h.op, h.seq>>}
        /\ batch' = [open |-> TRUE, rows |-> batch.rows \ {h}, last |-> Position(h)]
  BY DEF PublishHead
<1>2. batch'.rows = batch.rows \ {h} /\ batch'.last = Position(h)
  BY <1>1
<1>3. UNCHANGED <<tx, offsets, log, outbox, acked>>
  BY DEF PublishHead, txVars
<1>4. /\ IdsAreGiven' /\ RowsAreKnown' /\ WrittenIsKept'
      /\ Visible' = Visible /\ \A id \in Nat : BelowAll(id)' = BelowAll(id)
  BY <1>3, RowsStay
<1>5. /\ \A r \in Row : Position(r) \in Nat \X Nat /\ Position(r)[1] = r.id /\ Position(r)[2] = r.offset /\ r.id \in Nat
      /\ batch.rows \subseteq Visible /\ Before(batch.last, Position(h)) /\ AtOrBefore(acked, batch.last)
      /\ \A r \in Visible, q \in batch.rows :
            Before(batch.last, Position(r)) /\ AtOrBefore(Position(r), Position(q)) => r \in batch.rows
  BY <1>0, <1>1, PositionType DEF ForwardInv, BatchIsNext, Row
<1>6. ASSUME NEW r \in batch.rows, AtOrBefore(Position(r), Position(h)) PROVE r = h
  <2>1. Position(r) = Position(h)
    BY <1>0, <1>1, <1>5, <1>6, PositionsAreOrdered
  <2>2. r.offset = h.offset /\ r \in outbox /\ h \in outbox
    BY <1>0, <1>1, <1>5, <2>1 DEF Visible
  <2> QED
    BY <2>2 DEF ForwardInv, RowsAreKnown
<1>7. PositionIsBelow'
  <2>1. BelowAll(acked[1]) /\ acked[1] \in Nat /\ \A r \in batch.rows : BelowAll(r.id) /\ r.id \in Nat
    BY <1>0, <1>5 DEF ForwardInv, PositionIsBelow
  <2>2. Position(h)[1] = h.id
    BY <1>0, <1>1, <1>5
  <2> QED
    BY <1>1, <1>2, <1>3, <1>4, <2>1, <2>2 DEF PositionIsBelow
<1>8. BatchIsNext'
  <2>1. AtOrBefore(acked, Position(h))
    BY <1>0, <1>1, <1>5, PositionsAreOrdered DEF AtOrBefore
  <2>2. ASSUME NEW r \in batch.rows, r # h PROVE Before(Position(h), Position(r))
    BY <1>0, <1>1, <1>5, <1>6, <2>2, PositionsAreOrdered
  <2>3. ASSUME NEW r \in Visible, NEW q \in batch.rows, Before(Position(h), Position(r)), AtOrBefore(Position(r), Position(q))
        PROVE  r \in batch.rows \ {h}
    <3>1. Before(batch.last, Position(r)) /\ r # h
      BY <1>0, <1>1, <1>5, <2>3, PositionsAreOrdered
    <3> QED
      BY <1>5, <2>3, <3>1
  <2> QED
    BY <1>2, <1>3, <1>4, <1>5, <2>1, <2>2, <2>3 DEF BatchIsNext
<1>9. NothingSkipped'
  <2> SUFFICES ASSUME NEW o \in Ops, NEW e \in EventsIn(o), e # <<h.op, h.seq>>, e \notin js
               PROVE  IsAhead(e, acked) /\ IsAhead(e, Position(h))
    BY <1>1, <1>2, <1>3, <1>4 DEF NothingSkipped, EventsIn, IsAhead
  <2>1. IsAhead(e, acked) /\ IsAhead(e, batch.last)
    BY <1>0 DEF ForwardInv, NothingSkipped
  <2>2. PICK r \in Visible : <<r.op, r.seq>> = e /\ Before(batch.last, Position(r))
    BY <2>1 DEF IsAhead
  <2>3. r # h
    BY <2>2
  <2>4. ~AtOrBefore(Position(r), Position(h))
    BY <1>1, <1>5, <1>6, <2>2, <2>3
  <2>5. Before(Position(h), Position(r))
    BY <1>0, <1>1, <1>5, <2>4, PositionsAreOrdered
  <2> QED
    BY <2>1, <2>2, <2>5 DEF IsAhead
<1> QED
  BY <1>4, <1>7, <1>8, <1>9 DEF ForwardInv

(***************************************************************************)
(* The position moves to the last row published, or the batch is given up  *)
(* and the position stays.                                                 *)
(***************************************************************************)
LEMMA BatchEndForwards ==
    ASSUME TypeOK, ForwardInv, Acknowledge \/ ForwarderFails
    PROVE  ForwardInv'
<1>1. UNCHANGED <<tx, offsets, log, outbox, js>> /\ batch' = NoBatch /\ batch.open
  BY DEF Acknowledge, ForwarderFails, txVars
<1>2. ~batch'.open
  BY <1>1, NoBatchType
<1>3. acked' \in {acked, batch.last} /\ acked' \in Nat \X Nat
  BY DEF Acknowledge, ForwarderFails, TypeOK, Batch
<1>4. /\ IdsAreGiven' /\ RowsAreKnown' /\ WrittenIsKept'
      /\ Visible' = Visible /\ \A id \in Nat : BelowAll(id)' = BelowAll(id)
  BY <1>1, RowsStay
<1>5. PositionIsBelow'
  BY <1>1, <1>2, <1>3, <1>4 DEF ForwardInv, PositionIsBelow
<1>6. BatchIsNext'
  BY <1>2 DEF BatchIsNext
<1>7. NothingSkipped'
  BY <1>1, <1>2, <1>3, <1>4 DEF ForwardInv, NothingSkipped, IsAhead, EventsIn
<1> QED
  BY <1>4, <1>5, <1>6, <1>7 DEF ForwardInv

(***************************************************************************)
(* A row is pruned at or before the position, where it is neither in the   *)
(* batch nor the row of an event that is not published (Prune).            *)
(***************************************************************************)
LEMMA PruneForwards ==
    ASSUME TypeOK, ForwardInv, NEW r \in outbox, Prune(r)
    PROVE  ForwardInv'
<1>1. /\ UNCHANGED <<tx, offsets, log, acked, batch, js>> /\ outbox' = outbox \ {r}
      /\ r \in Visible /\ AtOrBefore(Position(r), acked)
  BY DEF Prune, txVars
<1>2. Visible' = Visible \ {r}
  BY <1>1 DEF Visible
<1>3. /\ acked \in Nat \X Nat /\ batch.last \in Nat \X Nat /\ Position(r) \in Nat \X Nat
      /\ batch.open => AtOrBefore(acked, batch.last)
  BY PositionType DEF TypeOK, Batch, ForwardInv, BatchIsNext
<1>4. ~Before(acked, Position(r)) /\ (batch.open => ~Before(batch.last, Position(r)))
  BY <1>1, <1>3, PositionsAreOrdered
<1>5. IdsAreGiven' /\ \A id \in Nat : BelowAll(id)' = BelowAll(id)
  BY <1>1 DEF ForwardInv, IdsAreGiven, BelowAll, InProgress, Given
<1>6. RowsAreKnown'
  <2>1. IsFiniteSet(outbox')
    BY <1>1, FS_Subset DEF ForwardInv, RowsAreKnown
  <2> QED
    BY <1>1, <2>1 DEF ForwardInv, RowsAreKnown
<1>7. WrittenIsKept'
  <2>1. tx[r.tx].at = "committed"
    BY <1>1 DEF Visible
  <2>2. ASSUME NEW t \in Txs, LocksOperation(t) PROVE r.tx # t
    BY <2>1, <2>2 DEF LocksOperation
  <2> QED
    BY <1>1, <2>2 DEF ForwardInv, WrittenIsKept, LocksOperation
<1>8. PositionIsBelow'
  <2>1. acked[1] \in Nat /\ batch.last[1] \in Nat /\ \A q \in batch.rows : q.id \in Nat
    BY DEF TypeOK, Batch, Row
  <2> QED
    BY <1>1, <1>5, <2>1 DEF ForwardInv, PositionIsBelow
<1>9. BatchIsNext'
  BY <1>1, <1>2, <1>4 DEF ForwardInv, BatchIsNext
<1>10. NothingSkipped'
  BY <1>1, <1>2, <1>4 DEF ForwardInv, NothingSkipped, IsAhead, EventsIn
<1> QED
  BY <1>5, <1>6, <1>7, <1>8, <1>9, <1>10 DEF ForwardInv

(***************************************************************************)
(* Every step keeps the forwarder right.                                   *)
(***************************************************************************)
LEMMA ForwardInvStep ==
    ASSUME TypeOK, StreamInv, ForwardInv, [Next]_vars
    PROVE  ForwardInv'
<1>1. ASSUME UNCHANGED <<tx, offsets, log, outbox, acked, batch, js>> PROVE ForwardInv'
  <2>1. /\ IdsAreGiven' /\ RowsAreKnown' /\ WrittenIsKept'
        /\ Visible' = Visible /\ \A id \in Nat : BelowAll(id)' = BelowAll(id)
    BY <1>1, RowsStay
  <2> QED
    BY <1>1, <2>1, ForwardStays
<1>2. CASE UNCHANGED vars
  BY <1>1, <1>2 DEF vars, txVars, forwardVars
<1>3. ASSUME NEW t \in Txs, Begin(t) \/ Transact(t) PROVE ForwardInv'
  BY <1>3, BeginForwards, WriteForwards, CommitForwards, RollbackForwards DEF Transact
<1>4. CASE Forward \/ ForwarderFails
  BY <1>4, QueryForwards, PublishForwards, BatchEndForwards DEF Forward
<1>5. ASSUME NEW r \in outbox, Prune(r) PROVE ForwardInv'
  BY <1>5, PruneForwards
<1>6. ASSUME NEW o \in Ops, Wake(o) \/ LoseWake(o) PROVE ForwardInv'
  BY <1>1, <1>6 DEF Wake, LoseWake, txVars, forwardVars
<1>7. ASSUME NEW s \in Streams, OpenStream(s) \/ Serve(s) \/ Leave(s) PROVE ForwardInv'
  <2>1. UNCHANGED <<txVars, forwardVars>>
    BY <1>7 DEF OpenStream, Serve, Leave, ReadOperation, ListPage, SendHead, EndOfPage, Resume
  <2> QED
    BY <1>1, <2>1 DEF txVars, forwardVars
<1> QED
  BY <1>2, <1>3, <1>4, <1>5, <1>6, <1>7 DEF Next

-----------------------------------------------------------------------------
(* Theorems.                                                               *)

(***************************************************************************)
(* The inductive invariant: types, the lock of an operation, what each     *)
(* handler holds against what its client has, and where the forwarder is.  *)
(***************************************************************************)
THEOREM EventsInvariant == Spec => [](TypeOK /\ StreamInv /\ ForwardInv)
<1>1. Init => TypeOK /\ StreamInv /\ ForwardInv
  BY TypeInit, StreamInit, ForwardInit
<1>2. TypeOK /\ StreamInv /\ ForwardInv /\ [Next]_vars => (TypeOK /\ StreamInv /\ ForwardInv)'
  BY TypeStep, ForwardInvStep
<1> QED
  BY <1>1, <1>2, PTL DEF Spec

(***************************************************************************)
(* Every variable keeps its type in every reachable state.                 *)
(***************************************************************************)
THEOREM EventsTypes == Spec => []TypeOK
BY EventsInvariant, PTL

(***************************************************************************)
(* A client receives exactly the events of its operation, each once and in *)
(* order over any number of reconnects, and all of them before the server  *)
(* ends the stream (StreamOperationEvents, ListEvents).                    *)
(***************************************************************************)
THEOREM ClientsReceiveExactly == Spec => []StreamIsExact
<1>1. TypeOK /\ StreamInv => StreamIsExact
  <2> SUFFICES ASSUME TypeOK, StreamInv, NEW s \in Streams
               PROVE  /\ Len(received[s]) <= Len(log[StreamOp[s]])
                      /\ received[s] = [i \in 1..Len(received[s]) |-> i]
                      /\ stream[s].at = "ended" => StreamOp[s] \in over /\ Len(received[s]) = Len(log[StreamOp[s]])
    BY DEF StreamIsExact
  <2>1. PageIsNext(s) /\ FinalIsCovered(s)
    BY DEF StreamInv, HandlerInv
  <2>2. PICK n \in Nat, m \in Nat, total \in Nat :
          n = Len(received[s]) /\ m = Len(stream[s].page) /\ total = Recorded(s)
    BY <2>1, AfterIsCount
  <2>3. n + m <= total
    BY <2>1, <2>2 DEF PageIsNext
  <2>4. n <= total
    BY <2>3
  <2>5. Following(0, n) = [i \in 1..n |-> i]
    BY DEF Following
  <2> QED
    BY <2>1, <2>2, <2>4, <2>5 DEF PageIsNext, FinalIsCovered, Recorded
<1> QED
  BY <1>1, EventsInvariant, PTL

(***************************************************************************)
(* As long as no notification was lost, a stream that waits behind its     *)
(* operation after a page that was not full has a wake pending or on its   *)
(* way (Subscribe, Wake, pg_notify at commit).                             *)
(***************************************************************************)
THEOREM WakesAreNeverLost == Spec => []NoLostWake
<1>1. TypeOK /\ StreamInv => NoLostWake
  <2> SUFFICES ASSUME TypeOK, StreamInv, NEW s \in Streams,
                      Waiting(s), ~lost, ~stream[s].full, After(s) < Len(log[StreamOp[s]])
               PROVE  s \in woken \/ StreamOp[s] \in notes
    BY DEF NoLostWake
  <2>1. PageIsNext(s) /\ WakeIsKept(s)
    BY DEF StreamInv, HandlerInv
  <2>2. stream[s].at = "waiting" /\ stream[s].page = <<>>
    BY <2>1 DEF Waiting, PageIsNext
  <2>3. PICK n \in Nat, total \in Nat : n = Len(received[s]) /\ total = Recorded(s) /\ After(s) = n
    BY <2>1, AfterIsCount
  <2>4. n < total /\ n + 0 = n
    BY <2>3 DEF Recorded
  <2>5. Len(stream[s].page) = 0
    BY <2>2
  <2> QED
    BY <2>1, <2>2, <2>3, <2>4, <2>5 DEF WakeIsKept
<1> QED
  BY <1>1, EventsInvariant, PTL

(***************************************************************************)
(* No event is skipped: whatever order transactions commit in and however  *)
(* often the forwarder fails between publishing and acknowledging, an      *)
(* event whose row was pruned or passed has been published (NewForwarder,  *)
(* Prune).                                                                 *)
(***************************************************************************)
THEOREM NoEventIsSkipped == Spec => []PassedIsPublished
BY EventsInvariant, SkippedIsPublished, PTL
=============================================================================
