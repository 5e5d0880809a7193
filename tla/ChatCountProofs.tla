-------------------------- MODULE ChatCountProofs --------------------------
(* What the threads of the server count, queue and keep: connectionNum, the   *)
(* dealing of connections to workers, the queues of connections, and the chat *)
(* requests, for any number of workers and connections; and how they end.     *)
EXTENDS ChatServerProofs, FiniteSetTheorems

(* An open connection has a worker that runs: a part of LogInv.               *)
THEOREM OwnerAliveCorrect == Spec => []OwnerAlive
<1>1. LogInv => OwnerAlive
  BY DEF LogInv
<1> QED
  BY <1>1, LogInvCorrect, PTL

(* The queue of the worker that misses its loop holds a connection, which is  *)
(* waiting: by ShutdownOrder the acceptor has ended by then, and no connection*)
(* will follow it.                                                            *)
THEOREM NullLoopWhenClosing == Spec => []NullLoopOnlyWhenClosing
<1>1. Init => NullLoopOnlyWhenClosing
  BY DEF Init, NullLoopOnlyWhenClosing
<1>2. ASSUME TypeOK, ShutdownOrder, LogInv, NullLoopOnlyWhenClosing, [Next]_vars
      PROVE  NullLoopOnlyWhenClosing'
  <2>1. CASE UNCHANGED vars
    BY <1>2, <2>1 DEF NullLoopOnlyWhenClosing, vars, guiVars, threadVars, connVars
  <2>2. CASE ~ crashed /\ UNCHANGED crashed
    BY <2>2 DEF NullLoopOnlyWhenClosing
  <2>3. ASSUME NEW w \in Workers, NewConnEventNoLoop(w) PROVE NullLoopOnlyWhenClosing'
    <3>1. /\ worker[w] = "stopping" /\ customEvents[w] # << >>
          /\ UNCHANGED << gui, acceptor, worker, chan, owner >>
      BY <2>3 DEF NewConnEventNoLoop, guiVars, threadVars, connVars
    <3>2. gui = "stopWorkers" /\ acceptor = "stopped"
      BY <1>2, <3>1 DEF ShutdownOrder, All, TypeOK
    <3>3. customEvents[w] \in Seq(Conns)
      BY <1>2 DEF TypeOK
    <3>4. 1 \in 1 .. Len(customEvents[w]) /\ customEvents[w][1] \in Conns
      BY <3>1, <3>3, LenProperties, ElementOfSeq, HeadTailProperties
    <3>5. chan[customEvents[w][1]] = "queued" /\ owner[customEvents[w][1]] = w
      BY <1>2, <3>4 DEF LogInv, QueueInv
    <3> QED
      BY <3>1, <3>2, <3>4, <3>5 DEF NullLoopOnlyWhenClosing
  <2> QED
    BY <1>2, <2>1, <2>2, <2>3 DEF Next
<1>3. TypeOK /\ ShutdownOrder /\ LogInv /\ NullLoopOnlyWhenClosing /\ [Next]_vars =>
        NullLoopOnlyWhenClosing'
  BY <1>2
<1> QED
  BY <1>1, <1>3, TypeCorrect, StartStopOrder, LogInvCorrect, PTL DEF Spec

-----------------------------------------------------------------------------
(* connectionNum: the finite set it counts, and the worker whose count goes   *)
(* down is the one the connection is counted on.                              *)
Busy(w) == {c \in Conns : owner[c] = w /\ chan[c] \in {"queued", "open"}}
CountInv ==
  \A w \in Workers : IsFiniteSet(Busy(w)) /\ connectionNum[w] = Cardinality(Busy(w))

LEMMA CountInit == Init => CountInv
<1> SUFFICES ASSUME Init PROVE CountInv
  OBVIOUS
<1>1. \A w \in Workers : Busy(w) = {} /\ connectionNum[w] = 0
  BY WorkersFact DEF Init, Busy
<1> QED
  BY <1>1, FS_EmptySet DEF CountInv

LEMMA CountNext ==
  ASSUME TypeOK, LogInv, CountInv, [Next]_vars
  PROVE  CountInv'
<1> USE DEF guiVars, threadVars, connVars, peerVars, lineVars
<1>1. ASSUME UNCHANGED connVars PROVE CountInv'
  BY <1>1 DEF CountInv, Busy
<1>2. ASSUME NEW c \in Conns, OnAccept(c) PROVE CountInv'
  <2>1. nextLoop \in Workers /\ owner[c] = NoOne
    BY <1>2, nextLoopType DEF TypeOK, LogInv, OwnerAlive, OnAccept
  <2> DEFINE v == nextLoop
  <2>2. /\ owner' = [owner EXCEPT ![c] = v] /\ chan' = [chan EXCEPT ![c] = "queued"]
        /\ connectionNum' = [connectionNum EXCEPT ![v] = @ + 1] /\ v \in Workers
    BY <1>2, <2>1 DEF OnAccept
  <2> HIDE DEF v
  <2> SUFFICES ASSUME NEW w \in Workers
               PROVE  IsFiniteSet(Busy(w)') /\ connectionNum'[w] = Cardinality(Busy(w)')
    BY DEF CountInv
  <2>3. c \notin Busy(w)
    BY <2>1, WorkersFact DEF Busy
  <2>4. IsFiniteSet(Busy(w)) /\ connectionNum[w] = Cardinality(Busy(w))
    BY DEF CountInv
  <2>5. CASE w = v
    <3>1. Busy(w)' = Busy(w) \union {c}
      BY <2>2, <2>5 DEF Busy, TypeOK
    <3>2. connectionNum'[w] = connectionNum[w] + 1
      BY <2>2, <2>5 DEF TypeOK
    <3>3. IsFiniteSet(Busy(w)') /\ Cardinality(Busy(w)') = Cardinality(Busy(w)) + 1
      BY <2>3, <2>4, <3>1, FS_AddElement
    <3> QED
      BY <2>4, <3>2, <3>3
  <2>6. CASE w # v
    <3>1. Busy(w)' = Busy(w)
      BY <2>2, <2>3, <2>6 DEF Busy, TypeOK
    <3>2. connectionNum'[w] = connectionNum[w]
      BY <2>2, <2>6 DEF TypeOK
    <3> QED
      BY <2>4, <3>1, <3>2
  <2> QED
    BY <2>5, <2>6
<1>3. ASSUME NEW v \in Workers, NewConnEvent(v) PROVE CountInv'
  <2> DEFINE c == Head(customEvents[v])
  <2>1. c \in Conns /\ chan[c] = "queued" /\ chan' = [chan EXCEPT ![c] = "open"]
        /\ UNCHANGED << owner, connectionNum >>
    BY <1>3, QueueNewConnEvent DEF NewConnEvent, LogInv
  <2> HIDE DEF c
  <2>2. \A w \in Workers : Busy(w)' = Busy(w)
    BY <2>1 DEF Busy, TypeOK
  <2> QED
    BY <2>1, <2>2 DEF CountInv
<1>4. ASSUME NEW c \in Conns, OnClose(c) PROVE CountInv'
  <2> DEFINE v == owner[c]
  <2>1. /\ chan[c] = "open" /\ chan' = [chan EXCEPT ![c] = "closed"] /\ owner' = owner
        /\ connectionNum' = [connectionNum EXCEPT ![v] = @ - 1]
    BY <1>4 DEF OnClose, CountDown
  <2>2. v \in Workers
    BY <2>1 DEF TypeOK, LogInv, OwnerAlive
  <2> SUFFICES ASSUME NEW w \in Workers
               PROVE  IsFiniteSet(Busy(w)') /\ connectionNum'[w] = Cardinality(Busy(w)')
    BY DEF CountInv
  <2>4. IsFiniteSet(Busy(w)) /\ connectionNum[w] = Cardinality(Busy(w))
    BY DEF CountInv
  <2>5. CASE w = v
    <3>1. Busy(w)' = Busy(w) \ {c} /\ c \in Busy(w)
      BY <2>1, <2>5 DEF Busy, TypeOK
    <3>2. connectionNum'[w] = connectionNum[w] - 1
      BY <2>1, <2>2, <2>5 DEF TypeOK
    <3>3. IsFiniteSet(Busy(w)') /\ Cardinality(Busy(w)') = Cardinality(Busy(w)) - 1
      BY <2>4, <3>1, FS_RemoveElement
    <3> QED
      BY <2>4, <3>2, <3>3
  <2>6. CASE w # v
    <3>1. Busy(w)' = Busy(w)
      BY <2>1, <2>6 DEF Busy, TypeOK
    <3>2. connectionNum'[w] = connectionNum[w]
      BY <2>1, <2>2, <2>6 DEF TypeOK
    <3> QED
      BY <2>4, <3>1, <3>2
  <2> QED
    BY <2>5, <2>6
<1> QED
  BY <1>1, <1>2, <1>3, <1>4
  DEF Next, vars, Gui, Worker, Conn, Peer, StartServer, StartServerFails, OverWriteMsg,
      customEvent, StopAcceptor, AcceptorStopped, StopWorker, Destroy, AcceptorExit,
      NewConnEventNoLoop, LeaveLoop, WorkerExit, OnRead, OnEof, OnTimeout, OnCleanup,
      PeerWrite, PeerClose

(* The counts of the workers are exact whenever the threads are looked at.    *)
THEOREM CountsExact == Spec => []ConnectionNumExact
<1>1. Init => CountInv
  BY CountInit
<1>2. TypeOK /\ LogInv /\ CountInv /\ [Next]_vars => CountInv'
  BY CountNext
<1>3. CountInv => ConnectionNumExact
  BY DEF CountInv, ConnectionNumExact, Busy
<1> QED
  BY <1>1, <1>2, <1>3, TypeCorrect, LogInvCorrect, PTL DEF Spec

-----------------------------------------------------------------------------
(* Round robin: after whole rounds r, the workers from 1 up to the last one   *)
(* that was dealt a connection have got one more.                             *)
DealtTo(w) == {c \in Conns : owner[c] = w}
DealtInv ==
  \E r \in Nat : \A w \in Workers :
    /\ IsFiniteSet(DealtTo(w))
    /\ Cardinality(DealtTo(w)) = IF w \in 1 .. nextLoopIdx THEN r + 1 ELSE r

LEMMA DealtInit == Init => DealtInv
<1> SUFFICES ASSUME Init PROVE DealtInv
  OBVIOUS
<1>0. ASSUME NEW w \in Workers PROVE DealtTo(w) = {}
  <2>1. \A c \in Conns : owner[c] = NoOne
    BY DEF Init
  <2> QED
    BY <2>1, WorkersFact DEF DealtTo
<1>1. \A w \in Workers : DealtTo(w) = {} /\ w \notin 1 .. nextLoopIdx
  <2>1. nextLoopIdx = 0
    BY DEF Init
  <2>2. 1 .. 0 = {}
    OBVIOUS
  <2> QED
    BY <1>0, <2>1, <2>2
<1>2. \A w \in Workers : /\ IsFiniteSet(DealtTo(w))
                         /\ Cardinality(DealtTo(w)) = IF w \in 1 .. nextLoopIdx THEN 0 + 1 ELSE 0
  BY <1>1, FS_EmptySet
<1> QED
  BY <1>2 DEF DealtInv

LEMMA DealtNext ==
  ASSUME TypeOK, LogInv, DealtInv, [Next]_vars
  PROVE  DealtInv'
<1> USE DEF guiVars, threadVars, connVars, peerVars, lineVars
<1>1. ASSUME UNCHANGED << owner, nextLoopIdx >> PROVE DealtInv'
  BY <1>1 DEF DealtInv, DealtTo
<1>2. ASSUME NEW c \in Conns, OnAccept(c) PROVE DealtInv'
  <2> DEFINE v == nextLoop
             idx == nextLoopIdx
  <2>1. /\ owner[c] = NoOne /\ owner' = [owner EXCEPT ![c] = v] /\ nextLoopIdx' = v
        /\ v \in Workers /\ idx \in Workers
    BY <1>2, nextLoopType DEF TypeOK, LogInv, OwnerAlive, OnAccept
  <2>2. v = IF idx + 1 >= NumWorkers THEN 0 ELSE idx + 1
    BY DEF nextLoop
  <2>3. PICK r \in Nat : \A w \in Workers :
          /\ IsFiniteSet(DealtTo(w))
          /\ Cardinality(DealtTo(w)) = IF w \in 1 .. idx THEN r + 1 ELSE r
    BY DEF DealtInv
  <2> HIDE DEF v, idx
  <2>4. ASSUME NEW w \in Workers
        PROVE  /\ IsFiniteSet(DealtTo(w)')
               /\ Cardinality(DealtTo(w)') = Cardinality(DealtTo(w)) + IF w = v THEN 1 ELSE 0
    <3>1. c \notin DealtTo(w)
      BY <2>1, WorkersFact DEF DealtTo
    <3>2. IsFiniteSet(DealtTo(w)) /\ Cardinality(DealtTo(w)) \in Nat
      BY <2>3, FS_CardinalityType
    <3>3. CASE w = v
      <4>1. DealtTo(w)' = DealtTo(w) \union {c}
        BY <2>1, <3>3 DEF DealtTo, TypeOK
      <4> QED
        BY <3>1, <3>2, <3>3, <4>1, FS_AddElement
    <3>4. CASE w # v
      <4>1. DealtTo(w)' = DealtTo(w)
        BY <2>1, <3>1, <3>4 DEF DealtTo, TypeOK
      <4> QED
        BY <3>2, <3>4, <4>1
    <3> QED
      BY <3>3, <3>4
  <2>5. NumWorkers \in Nat /\ \A w \in Workers : w \in Nat /\ w <= NumWorkers - 1
    BY ConstantsAssumption DEF Workers
  <2>6. CASE idx + 1 < NumWorkers
    <3>1. v = idx + 1
      BY <2>1, <2>2, <2>5, <2>6
    <3>2. \A w \in Workers :
            /\ IsFiniteSet(DealtTo(w)')
            /\ Cardinality(DealtTo(w)') = IF w \in 1 .. v THEN r + 1 ELSE r
      BY <2>1, <2>3, <2>4, <2>5, <3>1
    <3> QED
      BY <2>1, <3>2 DEF DealtInv
  <2>7. CASE ~ (idx + 1 < NumWorkers)
    <3>1. v = 0 /\ idx = NumWorkers - 1
      BY <2>1, <2>2, <2>5, <2>7
    <3>2. \A w \in Workers :
            /\ IsFiniteSet(DealtTo(w)')
            /\ Cardinality(DealtTo(w)') = IF w \in 1 .. v THEN (r + 1) + 1 ELSE r + 1
      BY <2>1, <2>3, <2>4, <2>5, <3>1
    <3> QED
      BY <2>1, <3>2 DEF DealtInv
  <2> QED
    BY <2>6, <2>7
<1> QED
  BY <1>1, <1>2
  DEF Next, vars, Gui, Worker, Conn, Peer, StartServer, StartServerFails, OverWriteMsg,
      customEvent, StopAcceptor, AcceptorStopped, StopWorker, Destroy, AcceptorExit,
      NewConnEventNoLoop, NewConnEvent, LeaveLoop, WorkerExit, OnRead, OnEof, OnTimeout,
      OnCleanup, OnClose, PeerWrite, PeerClose

(* No worker is ever dealt two connections more than another.                 *)
THEOREM DealtEvenly == Spec => []Balanced
<1>1. Init => DealtInv
  BY DealtInit
<1>2. TypeOK /\ LogInv /\ DealtInv /\ [Next]_vars => DealtInv'
  BY DealtNext
<1>3. DealtInv => Balanced
  <2> SUFFICES ASSUME DealtInv, NEW v \in Workers, NEW w \in Workers
               PROVE  Cardinality(DealtTo(v)) <= Cardinality(DealtTo(w)) + 1
    BY DEF Balanced, DealtTo
  <2> QED
    BY DEF DealtInv
<1> QED
  BY <1>1, <1>2, <1>3, TypeCorrect, LogInvCorrect, PTL DEF Spec

-----------------------------------------------------------------------------
(* A connection that is queued is in the queue of its worker; QueueInv says   *)
(* that it is nowhere else and not twice.                                     *)
WaitInv ==
  \A w \in Workers, c \in Conns :
    chan[c] = "queued" /\ owner[c] = w =>
      \E i \in 1 .. Len(customEvents[w]) : customEvents[w][i] = c

LEMMA WaitNext ==
  ASSUME TypeOK, LogInv, WaitInv, [Next]_vars
  PROVE  WaitInv'
<1> USE DEF guiVars, threadVars, connVars, peerVars, lineVars
<1>1. ASSUME UNCHANGED connVars PROVE WaitInv'
  BY <1>1 DEF WaitInv
<1>2. ASSUME NEW d \in Conns, OnAccept(d) PROVE WaitInv'
  <2> DEFINE v == nextLoop
  <2>1. /\ v \in Workers /\ owner' = [owner EXCEPT ![d] = v]
        /\ chan' = [chan EXCEPT ![d] = "queued"]
        /\ customEvents' = [customEvents EXCEPT ![v] = Append(@, d)]
    BY <1>2, nextLoopType DEF TypeOK, OnAccept
  <2> HIDE DEF v
  <2> SUFFICES ASSUME NEW w \in Workers, NEW c \in Conns, chan'[c] = "queued", owner'[c] = w
               PROVE  \E i \in 1 .. Len(customEvents'[w]) : customEvents'[w][i] = c
    BY DEF WaitInv
  <2> DEFINE q == customEvents[w]
  <2>2. q \in Seq(Conns) /\ Len(q) \in Nat
    BY LenProperties DEF TypeOK
  <2>3. /\ Len(Append(q, d)) = Len(q) + 1 /\ Append(q, d)[Len(q) + 1] = d
        /\ \A i \in 1 .. Len(q) : Append(q, d)[i] = q[i]
    BY <2>2, AppendProperties
  <2>4. customEvents'[w] = IF w = v THEN Append(q, d) ELSE q
    BY <2>1 DEF TypeOK
  <2>5. CASE c = d
    <3>1. w = v
      BY <2>1, <2>5 DEF TypeOK
    <3> QED
      BY <2>2, <2>3, <2>4, <2>5, <3>1
  <2>6. CASE c # d
    <3>1. chan[c] = "queued" /\ owner[c] = w
      BY <2>1, <2>6 DEF TypeOK
    <3>2. PICK i \in 1 .. Len(q) : q[i] = c
      BY <3>1 DEF WaitInv
    <3> QED
      BY <2>2, <2>3, <2>4, <3>2
  <2> QED
    BY <2>5, <2>6
<1>3. ASSUME NEW v \in Workers, NewConnEvent(v) PROVE WaitInv'
  <2> DEFINE d == Head(customEvents[v])
  <2>1. /\ d \in Conns /\ chan[d] = "queued" /\ chan' = [chan EXCEPT ![d] = "open"]
        /\ owner' = owner /\ customEvents[v] # << >>
        /\ customEvents' = [customEvents EXCEPT ![v] = Tail(@)]
    BY <1>3, QueueNewConnEvent DEF NewConnEvent, Dequeue, LogInv
  <2>2. d = customEvents[v][1]
    <3>1. customEvents[v] \in Seq(Conns)
      BY DEF TypeOK
    <3> QED
      BY <2>1, <3>1, HeadTailProperties
  <2> HIDE DEF d
  <2> SUFFICES ASSUME NEW w \in Workers, NEW c \in Conns, chan'[c] = "queued", owner'[c] = w
               PROVE  \E i \in 1 .. Len(customEvents'[w]) : customEvents'[w][i] = c
    BY DEF WaitInv
  <2>3. chan[c] = "queued" /\ owner[c] = w /\ c # d
    BY <2>1 DEF TypeOK
  <2>4. PICK i \in 1 .. Len(customEvents[w]) : customEvents[w][i] = c
    BY <2>3 DEF WaitInv
  <2>5. CASE w # v
    <3>1. customEvents'[w] = customEvents[w]
      BY <2>1, <2>5 DEF TypeOK
    <3> QED
      BY <2>4, <3>1
  <2>6. CASE w = v
    <3> DEFINE q == customEvents[v]
    <3>1. q \in Seq(Conns) /\ q # << >> /\ customEvents'[v] = Tail(q) /\ Len(q) \in Nat
      BY <2>1, LenProperties DEF TypeOK
    <3>2. /\ Len(Tail(q)) = Len(q) - 1
          /\ \A j \in 1 .. Len(Tail(q)) : Tail(q)[j] = q[j + 1]
      BY <3>1, HeadTailProperties
    <3>3. i # 1
      BY <2>2, <2>3, <2>4, <2>6
    <3>4. i - 1 \in 1 .. Len(Tail(q)) /\ (i - 1) + 1 = i
      BY <2>6, <3>1, <3>2, <3>3
    <3>5. Tail(q)[i - 1] = c
      BY <2>4, <2>6, <3>2, <3>4
    <3> QED
      BY <2>6, <3>1, <3>4, <3>5
  <2> QED
    BY <2>5, <2>6
<1>4. ASSUME NEW d \in Conns, OnClose(d) PROVE WaitInv'
  <2>1. /\ owner' = owner /\ customEvents' = customEvents
        /\ chan' = [chan EXCEPT ![d] = "closed"]
    BY <1>4 DEF OnClose
  <2>2. ASSUME NEW c \in Conns, chan'[c] = "queued" PROVE chan[c] = "queued"
    BY <2>1, <2>2 DEF TypeOK
  <2> QED
    BY <2>1, <2>2 DEF WaitInv
<1> QED
  BY <1>1, <1>2, <1>3, <1>4
  DEF Next, vars, Gui, Worker, Conn, Peer, StartServer, StartServerFails, OverWriteMsg,
      customEvent, StopAcceptor, AcceptorStopped, StopWorker, Destroy, AcceptorExit,
      NewConnEventNoLoop, LeaveLoop, WorkerExit, OnRead, OnEof, OnTimeout, OnCleanup,
      PeerWrite, PeerClose

LEMMA OnePlace ==
  ASSUME TypeOK, LogInv, WaitInv
  PROVE  QueuedOnce
<1> SUFFICES ASSUME NEW w \in Workers, NEW c \in Conns
             PROVE  Cardinality({i \in 1 .. Len(customEvents[w]) : customEvents[w][i] = c})
                      = IF chan[c] = "queued" /\ owner[c] = w THEN 1 ELSE 0
  BY DEF QueuedOnce
<1> DEFINE q == customEvents[w]
           places == {i \in 1 .. Len(q) : q[i] = c}
<1>1. q \in Seq(Conns) /\ Len(q) \in Nat
  BY LenProperties DEF TypeOK
<1>2. \A i \in 1 .. Len(q) : /\ chan[q[i]] = "queued" /\ owner[q[i]] = w
                             /\ \A j \in 1 .. i - 1 : q[j] # q[i]
  BY DEF LogInv, QueueInv
<1>3. CASE chan[c] = "queued" /\ owner[c] = w
  <2>1. PICK i \in 1 .. Len(q) : q[i] = c
    BY <1>3 DEF WaitInv
  <2>2. \A j \in 1 .. Len(q) : q[j] = c => j = i
    <3> SUFFICES ASSUME NEW j \in 1 .. Len(q), q[j] = c, j # i PROVE FALSE
      OBVIOUS
    <3>1. j \in 1 .. i - 1 \/ i \in 1 .. j - 1
      BY <1>1
    <3> QED
      BY <1>2, <2>1, <3>1
  <2>3. places = {i}
    BY <2>1, <2>2
  <2> QED
    BY <1>3, <2>3, FS_Singleton
<1>4. CASE ~ (chan[c] = "queued" /\ owner[c] = w)
  <2>1. places = {}
    BY <1>2, <1>4
  <2> QED
    BY <1>4, <2>1, FS_EmptySet
<1> QED
  BY <1>3, <1>4

(* A connection waits in one place of one queue until its worker opens it.    *)
THEOREM QueuedInOnePlace == Spec => []QueuedOnce
<1>1. Init => WaitInv
  BY DEF Init, WaitInv
<1>2. TypeOK /\ LogInv /\ WaitInv /\ [Next]_vars => WaitInv'
  BY WaitNext
<1>3. TypeOK /\ LogInv /\ WaitInv => QueuedOnce
  BY OnePlace
<1> QED
  BY <1>1, <1>2, <1>3, TypeCorrect, LogInvCorrect, PTL DEF Spec

-----------------------------------------------------------------------------
(* What is read and what is kept, however the reads cut and join messages:    *)
(* behind the rest of a message that a read has begun the cells of a stream   *)
(* are whole messages.                                                        *)
Shape(s) ==
  /\ \A i \in 1 .. Len(s) : s[i].kind = "type" /\ s[i].type = "REQ_CHAT" =>
       /\ i + 3 <= Len(s)
       /\ s[i + 1].kind = "str" /\ s[i + 2].kind = "str" /\ s[i + 3].kind = "text"
  /\ \A i \in 1 .. Len(s) : s[i].kind = "text" =>
       \/ i >= 4 /\ s[i - 3].kind = "type" /\ s[i - 3].type = "REQ_CHAT"
       \/ \A j \in 1 .. i : s[j].kind # "type"

HasText(s, n) == \E i \in 1 .. Len(s) : s[i].kind = "text" /\ s[i].text = n
Shown(c, n) == \E i \in 1 .. Len(Whole) :
                 Whole[i].kind = "chat" /\ Whole[i].conn = c /\ Whole[i].text = n
Asked(c, n) == n \in 1 .. Len(written[c]) /\ written[c][n] = "REQ_CHAT"

(* Where the text of a request can be: shown or posted, unread, or taken by a *)
(* read that was not one message.                                             *)
Kept(c, n) == \/ Shown(c, n) /\ n \notin {NoText, Garbled}
              \/ HasText(net[c], n)
              \/ n \in mixed[c]

KeptInv ==
  \A c \in Conns :
    /\ chan[c] = "none" => written[c] = << >> /\ net[c] = << >> /\ mixed[c] = {}
    /\ Shape(net[c])
    /\ chan[c] \in {"queued", "open"} => \A n : Asked(c, n) <=> Kept(c, n)

(* The cells of one message.                                                  *)
LEMMA SerrializeCells ==
  ASSUME NEW type \in RequestType, NEW text \in Nat, NEW m, m = Serrialize(type, text)
  PROVE  /\ m \in Seq(Cell) /\ Len(m) \in Nat /\ Len(m) >= 2
         /\ m[1].kind = "type" /\ m[1].type = type
         /\ \A i \in 2 .. Len(m) : m[i].kind # "type"
         /\ type = "REQ_CHAT" => /\ Len(m) = 5 /\ m[2].kind = "str" /\ m[3].kind = "str"
                                 /\ m[4].kind = "text" /\ m[4].text = text
         /\ \A i \in 1 .. Len(m) : m[i].kind = "text" => type = "REQ_CHAT" /\ i = 4
<1> DEFINE h == << TypeCell(type), Other("str") >>
           b == Body(type, text)
<1>1. /\ TypeCell(type).kind = "type" /\ TypeCell(type).type = type
      /\ TextCell(text).kind = "text" /\ TextCell(text).text = text
      /\ \A k : Other(k).kind = k
      /\ TypeCell(type) \in Cell /\ TextCell(text) \in Cell
      /\ \A k \in {"str", "int"} : Other(k) \in Cell
  BY DEF TypeCell, TextCell, Other, Cell, Text, NoText, RequestType
<1>2. h \in Seq(Cell) /\ Len(h) = 2 /\ h[1].kind = "type" /\ h[1].type = type
      /\ h[2].kind = "str"
  BY <1>1
<1>3. /\ b \in Seq(Cell) /\ Len(b) \in {0, 3} /\ (type = "REQ_CHAT" => Len(b) = 3)
      /\ Len(b) = 3 => /\ b[1].kind = "str" /\ b[3].kind \in {"str", "int"}
                       /\ IF type = "REQ_CHAT" THEN b[2].kind = "text" /\ b[2].text = text
                                               ELSE b[2].kind = "str"
  <2>1. CASE type \in {"REQ_LOGIN", "REQ_REGIST"}
    <3>1. b = << Other("str"), Other("str"), Other("str") >>
      BY <2>1 DEF Body
    <3> QED
      BY <1>1, <2>1, <3>1
  <2>2. CASE type = "REQ_CHAT"
    <3>1. b = << Other("str"), TextCell(text), Other("int") >>
      BY <2>2 DEF Body
    <3>2. b \in Seq(Cell) /\ Len(b) = 3 /\ b[1] = Other("str")
          /\ b[2] = TextCell(text) /\ b[3] = Other("int")
      <4>1. TextCell(text) \in Cell /\ Other("str") \in Cell /\ Other("int") \in Cell
        BY <1>1
      <4> QED
        BY <3>1, <4>1
    <3> HIDE DEF b
    <3>3. /\ Other("str").kind = "str" /\ Other("int").kind = "int"
          /\ TextCell(text).kind = "text" /\ TextCell(text).text = text
      BY <1>1
    <3> QED
      BY <2>2, <3>2, <3>3
  <2>3. CASE type \notin {"REQ_LOGIN", "REQ_REGIST", "REQ_CHAT"}
    <3>1. b = << >>
      BY <2>3 DEF Body
    <3> QED
      BY <2>3, <3>1
  <2> QED
    BY <2>1, <2>2, <2>3
<1>4. m = h \o b
  BY DEF Serrialize
<1>5. m \in Seq(Cell)
  BY SerrializeType
<1> HIDE DEF h, b
<1>6. /\ Len(m) = 2 + Len(b)
      /\ \A i \in 1 .. 2 + Len(b) : m[i] = IF i <= 2 THEN h[i] ELSE b[i - 2]
  <2>1. h \in Seq(Cell) /\ b \in Seq(Cell) /\ Len(h) = 2
    BY <1>2, <1>3
  <2>2. /\ Len(h \o b) = Len(h) + Len(b)
        /\ \A i \in 1 .. Len(h) + Len(b) :
              (h \o b)[i] = IF i <= Len(h) THEN h[i] ELSE b[i - Len(h)]
    BY <2>1, ConcatProperties, Zenon
  <2> QED
    BY <1>4, <2>1, <2>2
<1>7. m[1] = h[1] /\ m[2] = h[2]
      /\ (Len(b) = 3 => m[3] = b[1] /\ m[4] = b[2] /\ m[5] = b[3])
  BY <1>3, <1>6
<1>8. \A i \in 1 .. Len(m) : i \in {1, 2} \/ (Len(b) = 3 /\ i \in {3, 4, 5})
  BY <1>3, <1>6
<1>9. \A i \in 2 .. Len(m) : m[i].kind # "type"
  BY <1>2, <1>3, <1>6, <1>7, <1>8
<1>10. \A i \in 1 .. Len(m) : m[i].kind = "text" => type = "REQ_CHAT" /\ i = 4
  BY <1>2, <1>3, <1>6, <1>7, <1>8
<1>11. /\ Len(m) \in Nat /\ Len(m) >= 2 /\ m[1].kind = "type" /\ m[1].type = type
       /\ type = "REQ_CHAT" => /\ Len(m) = 5 /\ m[2].kind = "str" /\ m[3].kind = "str"
                               /\ m[4].kind = "text" /\ m[4].text = text
  BY <1>2, <1>3, <1>6, <1>7
<1> QED
  BY <1>5, <1>9, <1>10, <1>11

(* A message behind whole messages.                                           *)
LEMMA ShapeAppend ==
  ASSUME NEW s \in Seq(Cell), Shape(s), NEW type \in RequestType, NEW text \in Nat,
         NEW q, q = s \o Serrialize(type, text)
  PROVE  /\ Shape(q)
         /\ \A n : HasText(q, n) <=> HasText(s, n) \/ (type = "REQ_CHAT" /\ n = text)
<1> DEFINE m == Serrialize(type, text)
<1>1. /\ m \in Seq(Cell) /\ Len(m) \in Nat /\ Len(m) >= 2
      /\ m[1].kind = "type" /\ m[1].type = type
      /\ \A i \in 2 .. Len(m) : m[i].kind # "type"
      /\ type = "REQ_CHAT" => /\ Len(m) = 5 /\ m[2].kind = "str" /\ m[3].kind = "str"
                              /\ m[4].kind = "text" /\ m[4].text = text
      /\ \A i \in 1 .. Len(m) : m[i].kind = "text" => type = "REQ_CHAT" /\ i = 4
  BY SerrializeCells
<1>0. q = s \o m
  OBVIOUS
<1> HIDE DEF m
<1>2. Len(s) \in Nat
  BY LenProperties
<1>3. /\ Len(q) = Len(s) + Len(m)
      /\ \A i \in 1 .. Len(s) + Len(m) : q[i] = IF i <= Len(s) THEN s[i] ELSE m[i - Len(s)]
  <2>1. m \in Seq(Cell)
    BY <1>1
  <2>2. /\ Len(s \o m) = Len(s) + Len(m)
        /\ \A i \in 1 .. Len(s) + Len(m) :
              (s \o m)[i] = IF i <= Len(s) THEN s[i] ELSE m[i - Len(s)]
    BY <2>1, ConcatProperties, Zenon
  <2> QED
    BY <1>0, <2>2
<1> DEFINE k == Len(s)
<1>4. /\ \A i \in 1 .. k : i \in 1 .. Len(q) /\ q[i] = s[i]
      /\ \A i \in 1 .. Len(m) : k + i \in 1 .. Len(q) /\ q[k + i] = m[i]
      /\ \A i \in 1 .. Len(q) : i \in 1 .. k \/ i - k \in 1 .. Len(m)
  <2>1. k \in Nat /\ Len(m) \in Nat /\ Len(q) = k + Len(m)
        /\ \A i \in 1 .. k + Len(m) : q[i] = IF i <= k THEN s[i] ELSE m[i - k]
    BY <1>1, <1>2, <1>3
  <2> HIDE DEF k
  <2>2. ASSUME NEW i \in 1 .. k PROVE i \in 1 .. Len(q) /\ q[i] = s[i]
    <3>1. i \in 1 .. k + Len(m) /\ i <= k
      BY <2>1
    <3> QED
      BY <2>1, <3>1
  <2>3. ASSUME NEW i \in 1 .. Len(m) PROVE k + i \in 1 .. Len(q) /\ q[k + i] = m[i]
    <3>1. k + i \in 1 .. k + Len(m) /\ ~ (k + i <= k) /\ (k + i) - k = i
      BY <2>1
    <3>2. q[k + i] = m[(k + i) - k]
      BY <2>1, <3>1
    <3> QED
      BY <2>1, <3>1, <3>2
  <2>4. \A i \in 1 .. Len(q) : i \in 1 .. k \/ i - k \in 1 .. Len(m)
    BY <2>1
  <2> QED
    BY <2>2, <2>3, <2>4
<1>6. ASSUME NEW i \in 1 .. Len(q), q[i].kind = "type", q[i].type = "REQ_CHAT"
      PROVE  /\ i + 3 <= Len(q)
             /\ q[i + 1].kind = "str" /\ q[i + 2].kind = "str" /\ q[i + 3].kind = "text"
  <2>1. CASE i \in 1 .. k
    <3>1. s[i].kind = "type" /\ s[i].type = "REQ_CHAT"
      BY <1>4, <1>6, <2>1
    <3>2. /\ i + 3 <= k
          /\ s[i + 1].kind = "str" /\ s[i + 2].kind = "str" /\ s[i + 3].kind = "text"
      BY <2>1, <3>1 DEF Shape
    <3>3. i + 1 \in 1 .. k /\ i + 2 \in 1 .. k /\ i + 3 \in 1 .. k
      BY <1>2, <2>1, <3>2
    <3> QED
      BY <1>1, <1>2, <1>3, <1>4, <3>2, <3>3
  <2>2. CASE i - k \in 1 .. Len(m)
    <3>1. q[i] = m[i - k]
      BY <1>2, <1>3, <1>6, <2>2
    <3>2. i - k = 1
      BY <1>1, <1>2, <1>6, <2>2, <3>1
    <3>3. type = "REQ_CHAT" /\ Len(m) = 5
      BY <1>1, <1>6, <3>1, <3>2
    <3>4. /\ 2 \in 1 .. Len(m) /\ 3 \in 1 .. Len(m) /\ 4 \in 1 .. Len(m)
          /\ k + 2 = i + 1 /\ k + 3 = i + 2 /\ k + 4 = i + 3 /\ i + 3 <= Len(q)
      BY <1>2, <1>3, <3>2, <3>3
    <3>5. q[k + 2] = m[2] /\ q[k + 3] = m[3] /\ q[k + 4] = m[4]
      BY <1>4, <3>4
    <3> QED
      BY <1>1, <3>3, <3>4, <3>5
  <2> QED
    BY <1>4, <2>1, <2>2
<1>7. ASSUME NEW i \in 1 .. Len(q), q[i].kind = "text"
      PROVE  \/ i >= 4 /\ q[i - 3].kind = "type" /\ q[i - 3].type = "REQ_CHAT"
             \/ \A j \in 1 .. i : q[j].kind # "type"
  <2>1. CASE i \in 1 .. k
    <3>1. \/ i >= 4 /\ s[i - 3].kind = "type" /\ s[i - 3].type = "REQ_CHAT"
          \/ \A j \in 1 .. i : s[j].kind # "type"
      BY <1>4, <1>7, <2>1 DEF Shape
    <3>2. (i >= 4 => i - 3 \in 1 .. k) /\ \A j \in 1 .. i : j \in 1 .. k
      BY <1>2, <2>1
    <3> QED
      BY <1>4, <3>1, <3>2
  <2>2. CASE i - k \in 1 .. Len(m)
    <3>1. q[i] = m[i - k]
      BY <1>2, <1>3, <1>7, <2>2
    <3>2. type = "REQ_CHAT" /\ i - k = 4
      BY <1>1, <1>7, <2>2, <3>1
    <3>3. 1 \in 1 .. Len(m) /\ k + 1 = i - 3 /\ i >= 4
      BY <1>1, <1>2, <3>2
    <3>4. q[i - 3] = m[1]
      BY <1>4, <3>3
    <3> QED
      BY <1>1, <3>2, <3>3, <3>4
  <2> QED
    BY <1>4, <2>1, <2>2
<1>8. Shape(q)
  BY <1>6, <1>7 DEF Shape
<1>9. ASSUME NEW n
      PROVE  HasText(q, n) <=> HasText(s, n) \/ (type = "REQ_CHAT" /\ n = text)
  <2>1. ASSUME HasText(s, n) PROVE HasText(q, n)
    BY <1>4, <2>1 DEF HasText
  <2>2. ASSUME type = "REQ_CHAT", n = text PROVE HasText(q, n)
    <3>1. 4 \in 1 .. Len(m) /\ m[4].kind = "text" /\ m[4].text = n
      <4>1. Len(m) = 5 /\ m[4].kind = "text" /\ m[4].text = text
        BY <1>1, <2>2
      <4> QED
        BY <2>2, <4>1
    <3>2. k + 4 \in 1 .. Len(q) /\ q[k + 4] = m[4]
      BY <1>4, <3>1
    <3> QED
      BY <3>1, <3>2 DEF HasText
  <2>3. ASSUME HasText(q, n) PROVE HasText(s, n) \/ (type = "REQ_CHAT" /\ n = text)
    <3>1. PICK i \in 1 .. Len(q) : q[i].kind = "text" /\ q[i].text = n
      BY <2>3 DEF HasText
    <3>2. CASE i \in 1 .. k
      BY <1>4, <3>1, <3>2 DEF HasText
    <3>3. CASE i - k \in 1 .. Len(m)
      <4>1. q[i] = m[i - k]
        BY <1>2, <1>3, <3>1, <3>3
      <4>2. type = "REQ_CHAT" /\ i - k = 4
        BY <1>1, <3>1, <3>3, <4>1
      <4> QED
        BY <1>1, <3>1, <4>1, <4>2
    <3> QED
      BY <1>4, <3>2, <3>3
  <2> QED
    BY <2>1, <2>2, <2>3
<1> QED
  BY <1>8, <1>9

(* The cells a read leaves.                                                   *)
LEMMA LeftCells ==
  ASSUME NEW c \in Conns, net \in [Conns -> Seq(Cell)],
         NEW k \in 0 .. Len(net[c]), NEW cut \in BOOLEAN, Readable(c, k, cut)
  PROVE  /\ Len(Remainder(c, k, cut)) = Len(net[c]) - k
         /\ \A i \in 1 .. Len(net[c]) - k :
              Remainder(c, k, cut)[i] = IF cut /\ i = 1 THEN Frag ELSE net[c][k + i]
         /\ cut => k + 1 <= Len(net[c]) /\ net[c][k + 1].kind # "type"
         /\ cut \/ k >= 1
<1> DEFINE s == net[c]
           r == Remainder(c, k, cut)
<1>1. s \in Seq(Cell) /\ Len(s) \in Nat /\ k \in Nat /\ k <= Len(s)
  BY LenProperties
<1>2. CASE cut
  <2>1. k + 1 <= Len(s) /\ s[k + 1].kind # "type"
    BY <1>1, <1>2 DEF Readable
  <2> DEFINE t == SubSeq(s, k + 2, Len(s))
  <2>2. /\ t \in Seq(Cell) /\ Len(t) = Len(s) - (k + 1)
        /\ \A i \in 1 .. Len(t) : t[i] = s[(k + 1) + i]
    BY <1>1, <2>1, SubSeqProperties
  <2>3. r = << Frag >> \o t
    BY <1>2 DEF Remainder
  <2>4. << Frag >> \in Seq({Frag}) /\ Len(<< Frag >>) = 1 /\ << Frag >>[1] = Frag
    OBVIOUS
  <2> HIDE DEF t, r, s
  <2>5. << Frag >> \in Seq(Cell \union {Frag}) /\ t \in Seq(Cell \union {Frag})
    BY <2>2, ElementOfSeq, IsASeq
  <2>6. /\ Len(r) = 1 + Len(t)
        /\ \A i \in 1 .. 1 + Len(t) : r[i] = IF i <= 1 THEN << Frag >>[i] ELSE t[i - 1]
    BY <2>3, <2>4, <2>5, ConcatProperties
  <2>7. Len(r) = Len(s) - k
    BY <1>1, <2>2, <2>6
  <2>8. ASSUME NEW i \in 1 .. Len(s) - k PROVE r[i] = IF i = 1 THEN Frag ELSE s[k + i]
    <3>1. CASE i = 1
      BY <1>1, <2>1, <2>2, <2>4, <2>6, <3>1
    <3>2. CASE i # 1
      <4>1. i \in 1 .. 1 + Len(t) /\ ~ (i <= 1) /\ i - 1 \in 1 .. Len(t)
            /\ (k + 1) + (i - 1) = k + i
        BY <1>1, <2>1, <2>2, <3>2
      <4>2. r[i] = t[i - 1] /\ t[i - 1] = s[(k + 1) + (i - 1)]
        BY <2>2, <2>6, <4>1
      <4> QED
        BY <3>2, <4>1, <4>2
    <3> QED
      BY <3>1, <3>2
  <2> QED
    BY <1>2, <2>1, <2>7, <2>8 DEF r, s
<1>3. CASE ~ cut
  <2>1. r = SubSeq(s, k + 1, Len(s))
    BY <1>3 DEF Remainder
  <2>2. /\ Len(r) = Len(s) - k
        /\ \A i \in 1 .. Len(s) - k : r[i] = s[k + i]
    BY <1>1, <2>1, SubSeqProperties
  <2>3. k >= 1
    BY <1>1, <1>3 DEF Readable
  <2> QED
    BY <1>3, <2>2, <2>3
<1> QED
  BY <1>2, <1>3

(* The cells a read returns.                                                  *)
LEMMA ChunkCells ==
  ASSUME NEW c \in Conns, net \in [Conns -> Seq(Cell)],
         NEW k \in 0 .. Len(net[c]), NEW cut \in BOOLEAN, Readable(c, k, cut)
  PROVE  /\ Len(Chunk(c, k, cut)) = IF cut THEN k + 1 ELSE k
         /\ \A i \in 1 .. k : Chunk(c, k, cut)[i] = net[c][i]
         /\ cut => Chunk(c, k, cut)[k + 1] = Frag
<1> DEFINE s == net[c]
           q == Chunk(c, k, cut)
           h == SubSeq(s, 1, k)
<1>1. s \in Seq(Cell) /\ Len(s) \in Nat /\ k \in Nat /\ k <= Len(s)
  BY LenProperties
<1>2. h \in Seq(Cell) /\ Len(h) = k /\ \A i \in 1 .. k : h[i] = s[i]
  BY <1>1, SubSeqProperties
<1> HIDE DEF h
<1>3. CASE cut
  <2>1. q = h \o << Frag >>
    BY <1>3 DEF Chunk, h
  <2>2. q = Append(h, Frag)
    BY <1>2, <2>1, AppendIsConcat
  <2>3. Frag \in Cell
    BY DEF Frag, Other, Cell, Text, NoText, RequestType
  <2>4. /\ Len(q) = Len(h) + 1 /\ q[Len(h) + 1] = Frag
        /\ \A i \in 1 .. Len(h) : q[i] = h[i]
    BY <1>2, <2>2, <2>3, AppendProperties
  <2> QED
    BY <1>2, <1>3, <2>4
<1>4. CASE ~ cut
  <2>1. q = h
    BY <1>2, <1>4, ConcatEmptySeq DEF Chunk, h
  <2> QED
    BY <1>2, <1>4, <2>1
<1> QED
  BY <1>3, <1>4

(* Whatever a read takes, whole messages follow the rest of the first one.    *)
LEMMA ShapeRead ==
  ASSUME NEW c \in Conns, net \in [Conns -> Seq(Cell)], Shape(net[c]),
         NEW k \in 0 .. Len(net[c]), NEW cut \in BOOLEAN, Readable(c, k, cut)
  PROVE  Shape(Remainder(c, k, cut))
<1> DEFINE s == net[c]
           r == Remainder(c, k, cut)
           l == Len(s)
<1>1. l \in Nat /\ k \in Nat /\ k <= l
  BY LenProperties
<1>2. /\ Len(r) = l - k
      /\ \A i \in 1 .. l - k : r[i] = IF cut /\ i = 1 THEN Frag ELSE s[k + i]
      /\ cut => s[k + 1].kind # "type"
  BY LeftCells
<1>3. /\ \A i \in 1 .. l : s[i].kind = "type" /\ s[i].type = "REQ_CHAT" =>
           /\ i + 3 <= l
           /\ s[i + 1].kind = "str" /\ s[i + 2].kind = "str" /\ s[i + 3].kind = "text"
      /\ \A i \in 1 .. l : s[i].kind = "text" =>
           \/ i >= 4 /\ s[i - 3].kind = "type" /\ s[i - 3].type = "REQ_CHAT"
           \/ \A j \in 1 .. i : s[j].kind # "type"
  BY DEF Shape
<1>4. Frag.kind = "frag"
  BY DEF Frag, Other
<1> HIDE DEF s, r, l
<1>5. \A i \in 1 .. l - k : k + i \in 1 .. l
  BY <1>1
<1>6. ASSUME NEW i \in 1 .. l - k, r[i].kind # "frag"
      PROVE  ~ (cut /\ i = 1) /\ r[i] = s[k + i]
  BY <1>2, <1>4, <1>6
<1>7. ASSUME NEW i \in 1 .. l - k, i # 1 PROVE r[i] = s[k + i]
  BY <1>2, <1>7
<1>8. ASSUME NEW i \in 1 .. l - k, s[k + i].kind # "type" PROVE r[i].kind # "type"
  BY <1>2, <1>4, <1>8
<1>9. ASSUME NEW i \in 1 .. l - k, s[k + i].kind = "type" PROVE r[i] = s[k + i]
  BY <1>2, <1>9
<1>10. ASSUME NEW i \in 1 .. Len(r), r[i].kind = "type", r[i].type = "REQ_CHAT"
       PROVE  /\ i + 3 <= Len(r)
              /\ r[i + 1].kind = "str" /\ r[i + 2].kind = "str" /\ r[i + 3].kind = "text"
  <2>1. i \in 1 .. l - k /\ s[k + i] = r[i] /\ k + i \in 1 .. l
    BY <1>2, <1>5, <1>6, <1>10
  <2>2. /\ (k + i) + 3 <= l
        /\ s[(k + i) + 1].kind = "str" /\ s[(k + i) + 2].kind = "str"
        /\ s[(k + i) + 3].kind = "text"
    BY <1>3, <1>10, <2>1
  <2>3. /\ i + 1 \in 1 .. l - k /\ i + 2 \in 1 .. l - k /\ i + 3 \in 1 .. l - k
        /\ i + 1 # 1 /\ i + 2 # 1 /\ i + 3 # 1
        /\ (k + i) + 1 = k + (i + 1) /\ (k + i) + 2 = k + (i + 2) /\ (k + i) + 3 = k + (i + 3)
        /\ i + 3 <= l - k
    BY <1>1, <2>1, <2>2
  <2>4. /\ r[i + 1] = s[(k + i) + 1] /\ r[i + 2] = s[(k + i) + 2]
        /\ r[i + 3] = s[(k + i) + 3]
    <3>1. r[i + 1] = s[k + (i + 1)] /\ r[i + 2] = s[k + (i + 2)] /\ r[i + 3] = s[k + (i + 3)]
      BY <1>7, <2>3, Zenon
    <3> QED
      BY <2>3, <3>1, Zenon
  <2> QED
    BY <1>2, <2>2, <2>3, <2>4
<1>11. ASSUME NEW i \in 1 .. Len(r), r[i].kind = "text"
       PROVE  \/ i >= 4 /\ r[i - 3].kind = "type" /\ r[i - 3].type = "REQ_CHAT"
              \/ \A j \in 1 .. i : r[j].kind # "type"
  <2>1. i \in 1 .. l - k /\ s[k + i] = r[i] /\ k + i \in 1 .. l
    BY <1>2, <1>5, <1>6, <1>11
  <2>2. \A j \in 1 .. i : j \in 1 .. l - k /\ k + j \in 1 .. k + i
    BY <1>1, <2>1
  <2>3. CASE \A j \in 1 .. k + i : s[j].kind # "type"
    BY <1>8, <2>2, <2>3
  <2>4. CASE k + i >= 4 /\ s[(k + i) - 3].kind = "type" /\ s[(k + i) - 3].type = "REQ_CHAT"
    <3> DEFINE p == (k + i) - 3
    <3>1. p \in 1 .. l
      BY <1>1, <2>1, <2>4
    <3>2. s[p + 1].kind = "str" /\ s[p + 2].kind = "str" /\ s[p + 3].kind = "text"
      BY <1>3, <2>4, <3>1
    <3>3. CASE i >= 4
      <4>1. i - 3 \in 1 .. l - k /\ k + (i - 3) = p
        BY <1>1, <2>1, <3>3
      <4>2. r[i - 3] = s[p]
        <5>1. s[k + (i - 3)].kind = "type"
          BY <2>4, <4>1
        <5>2. r[i - 3] = s[k + (i - 3)]
          BY <1>9, <4>1, <5>1
        <5> QED
          BY <4>1, <5>2
      <4> QED
        BY <2>4, <3>3, <4>2
    <3>4. CASE ~ (i >= 4)
      <4>1. ASSUME NEW j \in 1 .. i PROVE r[j].kind # "type"
        <5>1. k + j \in {p + 1, p + 2, p + 3}
          BY <1>1, <2>1, <3>4
        <5>2. s[k + j].kind # "type"
          BY <3>2, <5>1
        <5> QED
          BY <1>8, <2>2, <5>2
      <4> QED
        BY <4>1
    <3> QED
      BY <3>3, <3>4
  <2> QED
    BY <1>3, <1>11, <2>1, <2>3, <2>4
<1> QED
  BY <1>10, <1>11 DEF Shape, r

(* A read takes the texts it takes and leaves the others.                     *)
LEMMA TextsRead ==
  ASSUME NEW c \in Conns, net \in [Conns -> Seq(Cell)],
         NEW k \in 0 .. Len(net[c]), NEW cut \in BOOLEAN, Readable(c, k, cut), NEW n
  PROVE  HasText(net[c], n) <=> HasText(Remainder(c, k, cut), n) \/ n \in Taken(c, k, cut)
<1> DEFINE s == net[c]
           r == Remainder(c, k, cut)
           l == Len(s)
           t == IF cut THEN k + 1 ELSE k
<1>1. l \in Nat /\ k \in Nat /\ k <= l
  BY LenProperties
<1>2. /\ Len(r) = l - k
      /\ \A i \in 1 .. l - k : r[i] = IF cut /\ i = 1 THEN Frag ELSE s[k + i]
      /\ cut => k + 1 <= l
  BY LeftCells
<1>3. Frag.kind = "frag"
  BY DEF Frag, Other
<1>4. n \in Taken(c, k, cut) <=> \E j \in 1 .. t : s[j].kind = "text" /\ s[j].text = n
  BY DEF Taken
<1> HIDE DEF s, r, l
<1>5. t \in Nat /\ t <= l
  BY <1>1, <1>2
<1>6. ASSUME HasText(s, n) PROVE HasText(r, n) \/ n \in Taken(c, k, cut)
  <2>1. PICK i \in 1 .. l : s[i].kind = "text" /\ s[i].text = n
    BY <1>6 DEF HasText, l
  <2>2. CASE i \in 1 .. t
    BY <1>4, <2>1, <2>2
  <2>3. CASE i \notin 1 .. t
    <3>1. i - k \in 1 .. l - k /\ k + (i - k) = i /\ ~ (cut /\ i - k = 1)
      BY <1>1, <1>5, <2>1, <2>3
    <3>2. r[i - k] = s[i]
      BY <1>2, <3>1
    <3> QED
      BY <1>2, <2>1, <3>1, <3>2 DEF HasText
  <2> QED
    BY <2>2, <2>3
<1>7. ASSUME HasText(r, n) PROVE HasText(s, n)
  <2>1. PICK i \in 1 .. l - k : r[i].kind = "text" /\ r[i].text = n
    BY <1>2, <1>7 DEF HasText
  <2>2. r[i] = s[k + i] /\ k + i \in 1 .. l
    BY <1>1, <1>2, <1>3, <2>1
  <2> QED
    BY <2>1, <2>2 DEF HasText, l
<1>8. ASSUME n \in Taken(c, k, cut) PROVE HasText(s, n)
  <2>1. PICK j \in 1 .. t : s[j].kind = "text" /\ s[j].text = n
    BY <1>4, <1>8
  <2>2. j \in 1 .. l
    BY <1>1, <1>5, <2>1
  <2> QED
    BY <2>1, <2>2 DEF HasText, l
<1> QED
  BY <1>6, <1>7, <1>8 DEF r, s

(* What is decoded: a chat request posts a text it has read, or none or one   *)
(* that is garbled; and it posts the text if the read is one message.         *)
LEMMA PostedText ==
  ASSUME NEW c \in Conns, net \in [Conns -> Seq(Cell)], Shape(net[c]),
         NEW k \in 0 .. Len(net[c]), NEW cut \in BOOLEAN, Readable(c, k, cut),
         NEW msg \in DeSerrialize(Chunk(c, k, cut))
  PROVE  /\ msg.body /\ msg.type = "REQ_CHAT" =>
              msg.text \in {NoText, Garbled} \/ HasText(net[c], msg.text)
         /\ OneMessage(c, k, cut) =>
              \A n \in Taken(c, k, cut) :
                msg.body /\ msg.type = "REQ_CHAT" /\ n = msg.text
<1> DEFINE s == net[c]
           q == Chunk(c, k, cut)
           l == Len(s)
           chat == msg.body /\ msg.type = "REQ_CHAT"
<1>1. l \in Nat /\ k \in Nat /\ k <= l
  BY LenProperties
<1>2. /\ Len(q) = IF cut THEN k + 1 ELSE k
      /\ \A i \in 1 .. k : q[i] = s[i]
      /\ cut => q[k + 1] = Frag /\ k + 1 <= l
  BY ChunkCells, LeftCells
<1>3. Frag.kind = "frag" /\ Frag.text = NoText
  BY DEF Frag, Other
<1>4. cut \/ k >= 1
  BY LeftCells
<1>5. /\ \A i \in 1 .. l : s[i].kind = "type" /\ s[i].type = "REQ_CHAT" =>
           /\ i + 3 <= l
           /\ s[i + 1].kind = "str" /\ s[i + 2].kind = "str" /\ s[i + 3].kind = "text"
      /\ \A i \in 1 .. l : s[i].kind = "text" =>
           \/ i >= 4 /\ s[i - 3].kind = "type" /\ s[i - 3].type = "REQ_CHAT"
           \/ \A j \in 1 .. i : s[j].kind # "type"
  BY DEF Shape
<1>6. IF q[1].kind = "type"
        THEN /\ msg.type = q[1].type
             /\ msg.body = (q[1].type \in {"REQ_LOGIN", "REQ_REGIST", "REQ_CHAT"})
             /\ msg.text = IF q[1].type = "REQ_CHAT"
                             THEN IF Len(q) >= 4 THEN q[4].text ELSE NoText
                             ELSE NoText
        ELSE msg.text \in {NoText, Garbled}
  BY DEF DeSerrialize
<1>8. OneMessage(c, k, cut) <=>
        /\ ~ cut /\ s[1].kind = "type"
        /\ \A i \in 2 .. k : s[i].kind # "type"
        /\ k < l => s[k + 1].kind = "type"
  BY DEF OneMessage
<1> HIDE DEF s, q, l
<1>9. q[1].kind = "type" => k >= 1 /\ q[1] = s[1] /\ 1 \in 1 .. l
  BY <1>1, <1>2, <1>3, <1>4
<1>10. ASSUME chat, msg.text \notin {NoText, Garbled} PROVE HasText(s, msg.text)
  <2>1. /\ q[1].kind = "type" /\ q[1].type = "REQ_CHAT"
        /\ Len(q) >= 4 /\ msg.text = q[4].text
    BY <1>6, <1>10
  <2>2. 1 \in 1 .. l /\ s[1].kind = "type" /\ s[1].type = "REQ_CHAT"
    BY <1>9, <2>1
  <2>3. 4 <= l /\ s[4].kind = "text"
    BY <1>5, <2>2
  <2>4. k >= 4
    <3>1. ~ (cut /\ k = 3)
      BY <1>2, <1>3, <1>10, <2>1
    <3> QED
      BY <1>1, <1>2, <2>1, <3>1
  <2>5. q[4] = s[4] /\ 4 \in 1 .. l
    BY <1>1, <1>2, <2>3, <2>4
  <2> QED
    BY <2>1, <2>3, <2>5 DEF HasText, l
<1>11. ASSUME OneMessage(c, k, cut), NEW n \in Taken(c, k, cut)
       PROVE  chat /\ n = msg.text
  <2>1. /\ ~ cut /\ s[1].kind = "type"
        /\ \A i \in 2 .. k : s[i].kind # "type"
    BY <1>8, <1>11
  <2>2. PICK j \in 1 .. k : s[j].kind = "text" /\ s[j].text = n
    BY <1>11, <2>1 DEF Taken, s
  <2>3. j \in 1 .. l /\ 1 \in 1 .. j /\ k >= 1
    BY <1>1, <2>2
  <2>4. j >= 4 /\ s[j - 3].kind = "type" /\ s[j - 3].type = "REQ_CHAT"
    BY <1>5, <2>1, <2>2, <2>3
  <2>5. j - 3 = 1
    <3>1. j - 3 \notin 2 .. k
      BY <2>1, <2>4
    <3> QED
      BY <1>1, <2>2, <2>4, <3>1
  <2>6. j = 4
    BY <2>2, <2>5
  <2>7. q[1] = s[1] /\ q[4] = s[4] /\ Len(q) >= 4
    BY <1>1, <1>2, <2>1, <2>2, <2>6
  <2>8. s[1].kind = "type" /\ s[1].type = "REQ_CHAT" /\ s[4].text = n
    BY <2>2, <2>4, <2>5, <2>6
  <2> QED
    BY <1>6, <2>7, <2>8
<1> QED
  BY <1>10, <1>11 DEF s

(* What a step that only posts, shows or drops lines changes.                 *)
LEMMA ShownPost ==
  ASSUME TypeOK, NEW line \in Lines, PostMsg(line), chatEdit' = chatEdit, NEW c, NEW n
  PROVE  Shown(c, n)' <=> \/ Shown(c, n)
                          \/ line.kind = "chat" /\ line.conn = c /\ line.text = n
<1>1. Whole \in Seq(Lines) /\ Len(Whole) \in Nat /\ Whole' = Append(Whole, line)
  BY WholeType, WholePost
<1>2. /\ Len(Whole') = Len(Whole) + 1
      /\ \A i \in 1 .. Len(Whole) : Whole'[i] = Whole[i]
      /\ Whole'[Len(Whole) + 1] = line
  BY <1>1, AppendProperties
<1>3. \A i \in 1 .. Len(Whole') : \/ i \in 1 .. Len(Whole) /\ Whole'[i] = Whole[i]
                                  \/ Whole'[i] = line
  BY <1>1, <1>2
<1>4. Len(Whole) + 1 \in 1 .. Len(Whole')
      /\ \A i \in 1 .. Len(Whole) : i \in 1 .. Len(Whole')
  BY <1>1, <1>2
<1> QED
  BY <1>2, <1>3, <1>4 DEF Shown

(* A step that leaves the chat requests written, unread and shown as they are *)
(* and starts no connection.                                                  *)
LEMMA KeptFrame ==
  ASSUME KeptInv, UNCHANGED << written, net, mixed >>,
         \A c \in Conns : \/ chan'[c] = chan[c]
                          \/ chan'[c] = "closed"
                          \/ chan'[c] = "open" /\ chan[c] = "queued",
         \A c \in Conns : chan'[c] \in {"queued", "open"} =>
                            \A n : Shown(c, n)' <=> Shown(c, n)
  PROVE  KeptInv'
<1> SUFFICES ASSUME NEW c \in Conns
             PROVE  /\ chan'[c] = "none" =>
                         written[c] = << >> /\ net[c] = << >> /\ mixed[c] = {}
                    /\ Shape(net[c])
                    /\ chan'[c] \in {"queued", "open"} =>
                         \A n : Asked(c, n) <=> Kept(c, n)'
  BY DEF KeptInv, Asked
<1>1. /\ chan[c] = "none" => written[c] = << >> /\ net[c] = << >> /\ mixed[c] = {}
      /\ Shape(net[c])
      /\ chan[c] \in {"queued", "open"} => \A n : Asked(c, n) <=> Kept(c, n)
  BY DEF KeptInv
<1>2. /\ chan'[c] = "none" => chan[c] = "none"
      /\ chan'[c] \in {"queued", "open"} => chan[c] \in {"queued", "open"}
  OBVIOUS
<1>3. ASSUME chan'[c] \in {"queued", "open"}, NEW n PROVE Kept(c, n)' <=> Kept(c, n)
  BY <1>3 DEF Kept
<1> QED
  BY <1>1, <1>2, <1>3

(* Lines are dropped only when no connection is open, and a connection that   *)
(* waits for its worker has no line.                                          *)
LEMMA KeptDrop ==
  ASSUME TypeOK, ReportInv, KeptInv, \A c \in Conns : chan[c] # "open",
         postedEvents' = << >>, UNCHANGED << chatEdit, chan, written, net, mixed >>
  PROVE  KeptInv'
<1>1. Whole' = chatEdit
  BY WholeType, ConcatEmptySeq DEF Whole
<1>2. /\ Len(chatEdit) \in Nat /\ Len(Whole) \in Nat /\ Len(chatEdit) <= Len(Whole)
      /\ \A i \in 1 .. Len(chatEdit) : Whole[i] = chatEdit[i]
  BY WholeType
<1>3. ASSUME NEW c \in Conns, chan[c] \in {"queued", "open"}, NEW n
      PROVE  Shown(c, n)' <=> Shown(c, n)
  <2>1. \A i \in 1 .. Len(Whole) : Whole[i].conn # c
    BY <1>3 DEF ReportInv
  <2>2. \A i \in 1 .. Len(Whole') : Whole'[i].conn # c
    BY <1>1, <1>2, <2>1
  <2> QED
    BY <2>1, <2>2 DEF Shown
<1> QED
  BY <1>3, KeptFrame

(* A connection that is accepted has written nothing yet and has no line.     *)
LEMMA KeptOnAccept ==
  ASSUME TypeOK, ReportInv, KeptInv, NEW c \in Conns, OnAccept(c)
  PROVE  KeptInv'
<1>1. /\ chan[c] = "none" /\ chan' = [chan EXCEPT ![c] = "queued"]
      /\ UNCHANGED << postedEvents, chatEdit, written, net, mixed >>
  BY DEF OnAccept, lineVars, peerVars
<1>2. Whole' = Whole
  BY <1>1 DEF Whole
<1>3. written[c] = << >> /\ net[c] = << >> /\ mixed[c] = {}
      /\ \A i \in 1 .. Len(Whole) : Whole[i].conn # c
  BY <1>1 DEF KeptInv, ReportInv
<1>4. \A n : ~ Asked(c, n) /\ ~ Kept(c, n)
  <2>1. Len(<< >>) = 0 /\ 1 .. 0 = {}
    OBVIOUS
  <2> QED
    BY <1>3, <2>1 DEF Asked, Kept, Shown, HasText
<1>5. chan \in [Conns -> {"none", "queued", "open", "closed"}]
  BY DEF TypeOK
<1>6. chan'[c] = "queued" /\ \A d \in Conns : d # c => chan'[d] = chan[d]
  BY <1>1, <1>5
<1> SUFFICES ASSUME NEW d \in Conns
             PROVE  /\ chan'[d] = "none" =>
                         written[d] = << >> /\ net[d] = << >> /\ mixed[d] = {}
                    /\ Shape(net[d])
                    /\ chan'[d] \in {"queued", "open"} =>
                         \A n : Asked(d, n) <=> Kept(d, n)
  BY <1>1, <1>2 DEF KeptInv, Asked, Kept, Shown
<1>7. CASE d = c
  BY <1>4, <1>6, <1>7 DEF KeptInv
<1>8. CASE d # c
  BY <1>6, <1>8 DEF KeptInv
<1> QED
  BY <1>7, <1>8

(* A read of one message posts the text it takes; any other read records the  *)
(* texts it takes as mixed.                                                   *)
LEMMA KeptOnRead ==
  ASSUME TypeOK, KeptInv, NEW c \in Conns,
         NEW k \in 0 .. Len(net[c]), NEW cut \in BOOLEAN, OnRead(c, k, cut)
  PROVE  KeptInv'
<1> DEFINE r == Remainder(c, k, cut)
           t == Taken(c, k, cut)
           one == OneMessage(c, k, cut)
<1>1. /\ chan[c] = "open" /\ Readable(c, k, cut) /\ chatEdit' = chatEdit
      /\ net' = [net EXCEPT ![c] = r] /\ UNCHANGED << chan, written >>
      /\ mixed' = IF one THEN mixed ELSE [mixed EXCEPT ![c] = @ \union t]
  BY DEF OnRead, Polled, connVars
<1>2. PICK msg \in DeSerrialize(Chunk(c, k, cut)) : onMsg(c, msg)
  BY DEF OnRead
<1>3. net \in [Conns -> Seq(Cell)] /\ mixed \in [Conns -> SUBSET Text]
  BY DEF TypeOK
<1>4. Shape(net[c]) /\ \A n : Asked(c, n) <=> Kept(c, n)
  BY <1>1 DEF KeptInv
<1> DEFINE chat == msg.body /\ msg.type = "REQ_CHAT"
<1>5. /\ Shape(r)
      /\ chat => msg.text \in {NoText, Garbled} \/ HasText(net[c], msg.text)
      /\ one => \A n \in t : chat /\ n = msg.text
  BY <1>1, <1>3, <1>4, ShapeRead, PostedText
<1>6. \A n : HasText(net[c], n) <=> HasText(r, n) \/ n \in t
  BY <1>1, <1>3, TextsRead
<1>7. ASSUME NEW d, NEW n
      PROVE  Shown(d, n)' <=> Shown(d, n) \/ (chat /\ d = c /\ n = msg.text)
  <2>1. CASE chat
    <3> DEFINE line == Line("chat", c, msg.text)
    <3>1. PostMsg(line)
      BY <1>2, <2>1 DEF onMsg
    <3>2. msg.text \in Text
      <4>1. Chunk(c, k, cut) \in Seq(Cell) /\ Len(Chunk(c, k, cut)) >= 1
        BY <1>1, <1>3, ReadType
      <4> QED
        BY <4>1, DecodedType DEF Text
    <3>3. line \in Lines /\ line.kind = "chat" /\ line.conn = c /\ line.text = msg.text
      BY <3>2 DEF Line, Lines
    <3> HIDE DEF line
    <3>4. Shown(d, n)' <=> \/ Shown(d, n)
                           \/ line.kind = "chat" /\ line.conn = d /\ line.text = n
      BY <1>1, <3>1, <3>3, ShownPost
    <3> QED
      BY <2>1, <3>3, <3>4
  <2>2. CASE ~ chat
    <3>1. Whole' = Whole
      BY <1>1, <1>2, <2>2 DEF onMsg, Whole
    <3> QED
      BY <2>2, <3>1 DEF Shown
  <2> QED
    BY <2>1, <2>2
<1> HIDE DEF r, t, one, chat
<1>8. /\ net'[c] = r /\ \A d \in Conns : d # c => net'[d] = net[d] /\ mixed'[d] = mixed[d]
      /\ mixed'[c] = IF one THEN mixed[c] ELSE mixed[c] \union t
  BY <1>1, <1>3
<1>9. \A n : Asked(c, n) => n \notin {NoText, Garbled}
  BY DEF Asked, NoText, Garbled
<1>10. ASSUME NEW n PROVE Asked(c, n) <=> Kept(c, n)'
  <2>1. Asked(c, n) <=> \/ Shown(c, n) /\ n \notin {NoText, Garbled}
                        \/ HasText(net[c], n)
                        \/ n \in mixed[c]
    BY <1>4 DEF Kept
  <2>2. Kept(c, n)' <=> \/ Shown(c, n)' /\ n \notin {NoText, Garbled}
                        \/ HasText(r, n)
                        \/ n \in mixed'[c]
    BY <1>8 DEF Kept
  <2>3. CASE one
    BY <1>5, <1>6, <1>7, <1>8, <1>9, <2>1, <2>2, <2>3
  <2>4. CASE ~ one
    BY <1>5, <1>6, <1>7, <1>8, <1>9, <2>1, <2>2, <2>4
  <2> QED
    BY <2>3, <2>4
<1> SUFFICES ASSUME NEW d \in Conns
             PROVE  /\ chan[d] = "none" =>
                         written[d] = << >> /\ net'[d] = << >> /\ mixed'[d] = {}
                    /\ Shape(net'[d])
                    /\ chan[d] \in {"queued", "open"} =>
                         \A n : Asked(d, n) <=> Kept(d, n)'
  BY <1>1 DEF KeptInv, Asked
<1>11. CASE d = c
  <2>1. chan[d] # "none" /\ net'[d] = r
    BY <1>1, <1>8, <1>11
  <2> QED
    BY <1>5, <1>10, <1>11, <2>1
<1>12. CASE d # c
  <2>1. \A n : Shown(d, n)' <=> Shown(d, n)
    BY <1>7, <1>12
  <2>2. net'[d] = net[d] /\ mixed'[d] = mixed[d]
    BY <1>8, <1>12
  <2>3. \A n : Kept(d, n)' <=> Kept(d, n)
    BY <2>1, <2>2 DEF Kept
  <2> QED
    BY <2>2, <2>3 DEF KeptInv
<1> QED
  BY <1>11, <1>12

(* A write adds one request and, if it is a chat request, its text.           *)
LEMMA KeptPeerWrite ==
  ASSUME TypeOK, KeptInv, NEW c \in Conns, NEW type \in Requests, PeerWrite(c, type)
  PROVE  KeptInv'
<1> DEFINE l == Len(written[c])
           q == net[c] \o Serrialize(type, l + 1)
<1>1. /\ chan[c] \in {"queued", "open"} /\ UNCHANGED << chan, postedEvents, chatEdit >>
      /\ written' = [written EXCEPT ![c] = Append(@, type)]
      /\ net' = [net EXCEPT ![c] = q] /\ mixed' = mixed
  BY DEF PeerWrite, connVars, lineVars
<1>2. type \in RequestType
  BY ConstantsAssumption DEF ConstantsAssumption
<1>3. net \in [Conns -> Seq(Cell)] /\ written \in [Conns -> Seq(RequestType)]
  BY DEF TypeOK
<1>4. net[c] \in Seq(Cell) /\ written[c] \in Seq(RequestType)
  BY <1>3
<1>5. l \in Nat
  BY <1>4, LenProperties
<1>6. Shape(net[c]) /\ \A n : Asked(c, n) <=> Kept(c, n)
  BY <1>1 DEF KeptInv
<1>7. /\ Shape(q)
      /\ \A n : HasText(q, n) <=> HasText(net[c], n) \/ (type = "REQ_CHAT" /\ n = l + 1)
  <2> DEFINE x == l + 1
             s == net[c]
  <2>1. x \in Nat /\ type \in RequestType
    BY <1>2, <1>5
  <2>2. q = s \o Serrialize(type, x)
    OBVIOUS
  <2>3. s \in Seq(Cell) /\ Shape(s)
    BY <1>4, <1>6
  <2> HIDE DEF x, q, s
  <2>4. Shape(q)
    BY <2>1, <2>2, <2>3, ShapeAppend, Zenon
  <2>5. \A n : HasText(q, n) <=> HasText(s, n) \/ (type = "REQ_CHAT" /\ n = x)
    BY <2>1, <2>2, <2>3, ShapeAppend, Zenon
  <2> QED
    BY <2>4, <2>5 DEF x, s
<1>8. ASSUME NEW n
      PROVE  Asked(c, n)' <=> Asked(c, n) \/ (type = "REQ_CHAT" /\ n = l + 1)
  <2>1. written'[c] = Append(written[c], type)
    BY <1>1, <1>3
  <2>2. /\ Len(written'[c]) = l + 1 /\ written'[c][l + 1] = type
        /\ \A i \in 1 .. l : written'[c][i] = written[c][i]
    BY <1>2, <1>4, <2>1, AppendProperties
  <2> HIDE DEF l
  <2>3. n \in 1 .. l + 1 <=> n \in 1 .. l \/ n = l + 1
    BY <1>5
  <2>4. ~ (l + 1 \in 1 .. l)
    BY <1>5
  <2> QED
    BY <2>2, <2>3, <2>4 DEF Asked, l
<1> HIDE DEF q, l
<1>9. /\ net'[c] = q
      /\ \A d \in Conns : d # c => net'[d] = net[d] /\ written'[d] = written[d]
  BY <1>1, <1>3
<1>10. Whole' = Whole
  BY <1>1 DEF Whole
<1> SUFFICES ASSUME NEW d \in Conns
             PROVE  /\ chan[d] = "none" =>
                         written'[d] = << >> /\ net'[d] = << >> /\ mixed[d] = {}
                    /\ Shape(net'[d])
                    /\ chan[d] \in {"queued", "open"} =>
                         \A n : Asked(d, n)' <=> Kept(d, n)'
  BY <1>1 DEF KeptInv
<1>11. \A x, n : Shown(x, n)' <=> Shown(x, n)
  BY <1>10 DEF Shown
<1>12. CASE d = c
  <2>1. chan[d] # "none" /\ net'[d] = q /\ mixed'[d] = mixed[c]
    BY <1>1, <1>9, <1>12
  <2>2. ASSUME NEW n PROVE Kept(c, n)' <=> Kept(c, n) \/ (type = "REQ_CHAT" /\ n = l + 1)
    <3>1. Kept(c, n)' <=> \/ Shown(c, n) /\ n \notin {NoText, Garbled}
                          \/ HasText(q, n) \/ n \in mixed[c]
      BY <1>11, <1>12, <2>1 DEF Kept
    <3> QED
      BY <1>7, <3>1 DEF Kept
  <2> QED
    BY <1>6, <1>7, <1>8, <1>12, <2>1, <2>2
<1>13. CASE d # c
  <2>1. \A n : Asked(d, n)' <=> Asked(d, n)
    BY <1>9, <1>13 DEF Asked
  <2>2. net'[d] = net[d] /\ mixed'[d] = mixed[d] /\ written'[d] = written[d]
    BY <1>1, <1>9, <1>13
  <2>3. \A n : Kept(d, n)' <=> Kept(d, n)
    BY <1>11, <2>2 DEF Kept
  <2> QED
    BY <1>13, <2>1, <2>2, <2>3 DEF KeptInv
<1> QED
  BY <1>12, <1>13

(* KeptInv is inductive, relative to TypeOK, ShutdownOrder and LogInv.        *)
LEMMA KeptInit == Init => KeptInv
<1> SUFFICES ASSUME Init, NEW c \in Conns
             PROVE  /\ chan[c] = "none" /\ written[c] = << >> /\ net[c] = << >>
                    /\ mixed[c] = {} /\ Shape(net[c])
  BY DEF KeptInv
<1>1. chan[c] = "none" /\ written[c] = << >> /\ net[c] = << >> /\ mixed[c] = {}
  BY DEF Init
<1>2. Len(<< >>) = 0 /\ 1 .. 0 = {}
  OBVIOUS
<1> QED
  BY <1>1, <1>2 DEF Shape

LEMMA KeptNext ==
  ASSUME TypeOK, ShutdownOrder, LogInv, KeptInv, [Next]_vars
  PROVE  KeptInv'
<1> USE DEF guiVars, threadVars, connVars, peerVars, lineVars
<1>0. QueueInv /\ OwnerAlive /\ ReportInv
  BY DEF LogInv
<1>1. ASSUME UNCHANGED << lineVars, chan, net, written, mixed >> PROVE KeptInv'
  <2>1. Whole' = Whole
    BY <1>1 DEF Whole
  <2>2. \A c, n : Shown(c, n)' <=> Shown(c, n)
    BY <2>1 DEF Shown
  <2> QED
    BY <1>1, <2>2, KeptFrame
<1>2. CASE OverWriteMsg
  <2>1. chatEdit' = chatEdit
    BY <1>2 DEF OverWriteMsg, LogInv
  <2> QED
    BY <1>1, <1>2, <2>1 DEF OverWriteMsg
<1>3. CASE customEvent
  <2>1. Whole' = Whole /\ UNCHANGED << chan, net, written, mixed >>
    BY <1>3, WholeShow DEF customEvent
  <2>2. \A c, n : Shown(c, n)' <=> Shown(c, n)
    BY <2>1 DEF Shown
  <2> QED
    BY <2>1, <2>2, KeptFrame
<1>4. ASSUME \A w \in Workers : ~ Alive(w) PROVE \A c \in Conns : chan[c] # "open"
  BY <1>0, <1>4, WorkersFact DEF OwnerAlive, TypeOK
<1>5. CASE StopAcceptor
  <2>1. CASE acceptor = "idle"
    <3>1. \A w \in Workers : ~ Alive(w)
      BY <1>5, <2>1 DEF StopAcceptor, ShutdownOrder, All, Alive
    <3>2. postedEvents' = << >> /\ UNCHANGED << chatEdit, chan, written, net, mixed >>
      BY <1>5, <2>1 DEF StopAcceptor
    <3> QED
      BY <1>0, <1>4, <3>1, <3>2, KeptDrop
  <2>2. CASE acceptor # "idle"
    BY <1>1, <1>5, <2>2 DEF StopAcceptor
  <2> QED
    BY <2>1, <2>2
<1>6. CASE Destroy
  <2>1. \A w \in Workers : ~ Alive(w)
    BY <1>6 DEF Destroy, WorkersGone, Alive
  <2>2. postedEvents' = << >> /\ UNCHANGED << chatEdit, chan, written, net, mixed >>
    BY <1>6 DEF Destroy
  <2> QED
    BY <1>0, <1>4, <2>1, <2>2, KeptDrop
<1>7. ASSUME NEW c \in Conns, NEW kind \in {"connected", "disconnected"},
             PostMsg(Line(kind, c, NoText)), UNCHANGED << chatEdit, net, written, mixed >>,
             \/ chan[c] = "queued" /\ chan' = [chan EXCEPT ![c] = "open"]
             \/ chan' = [chan EXCEPT ![c] = "closed"]
      PROVE  KeptInv'
  <2> DEFINE line == Line(kind, c, NoText)
  <2>1. PostMsg(line) /\ line \in Lines /\ line.kind # "chat"
    BY <1>7 DEF Line, Lines, Text, NoText
  <2> HIDE DEF line
  <2>2. ASSUME NEW d, NEW n PROVE Shown(d, n)' <=> Shown(d, n)
    BY <1>7, <2>1, ShownPost
  <2>3. ASSUME NEW d \in Conns
        PROVE  \/ chan'[d] = chan[d] \/ chan'[d] = "closed"
               \/ chan'[d] = "open" /\ chan[d] = "queued"
    BY <1>7 DEF TypeOK
  <2> QED
    BY <1>7, <2>2, <2>3, KeptFrame
<1>8. ASSUME NEW w \in Workers, NewConnEvent(w) PROVE KeptInv'
  <2> DEFINE c == Head(customEvents[w])
  <2>1. customEvents[w] \in Seq(Conns) /\ customEvents[w] # << >>
    BY <1>8 DEF TypeOK, NewConnEvent
  <2>2. c \in Conns /\ c = customEvents[w][1] /\ 1 \in 1 .. Len(customEvents[w])
    BY <2>1, HeadTailProperties, EmptySeq, LenProperties
  <2>3. chan[c] = "queued"
    BY <1>0, <2>2 DEF QueueInv
  <2>4. /\ chan' = [chan EXCEPT ![c] = "open"] /\ PostMsg(Line("connected", c, NoText))
        /\ UNCHANGED << chatEdit, net, written, mixed >>
    BY <1>8 DEF NewConnEvent, onConnection
  <2> HIDE DEF c
  <2> QED
    BY <1>7, <2>2, <2>3, <2>4
<1>9. ASSUME NEW c \in Conns, OnClose(c) PROVE KeptInv'
  <2>1. /\ chan' = [chan EXCEPT ![c] = "closed"] /\ PostMsg(Line("disconnected", c, NoText))
        /\ UNCHANGED << chatEdit, net, written, mixed >>
    BY <1>9 DEF OnClose, onConnection
  <2> QED
    BY <1>7, <2>1
<1>10. ASSUME NEW c \in Conns, Conn(c) PROVE KeptInv'
  <2>1. ASSUME NEW k \in 0 .. Len(net[c]), NEW cut \in BOOLEAN, OnRead(c, k, cut)
        PROVE  KeptInv'
    BY <2>1, KeptOnRead
  <2> QED
    BY <1>9, <1>10, <2>1 DEF Conn, OnEof, OnTimeout, OnCleanup
<1>11. ASSUME NEW c \in Conns, OnAccept(c) PROVE KeptInv'
  BY <1>0, <1>11, KeptOnAccept
<1>12. ASSUME NEW c \in Conns, NEW type \in Requests, PeerWrite(c, type) PROVE KeptInv'
  BY <1>12, KeptPeerWrite
<1>13. CASE \/ StartServerFails \/ StartServer \/ AcceptorStopped \/ StopWorker \/ AcceptorExit
            \/ \E w \in Workers : LeaveLoop(w) \/ WorkerExit(w) \/ NewConnEventNoLoop(w)
            \/ \E c \in Conns : PeerClose(c)
            \/ UNCHANGED vars
  BY <1>1, <1>13 DEF StartServerFails, StartServer, AcceptorStopped, StopWorker, AcceptorExit,
     LeaveLoop, WorkerExit, NewConnEventNoLoop, PeerClose, vars
<1> QED
  BY <1>2, <1>3, <1>5, <1>6, <1>8, <1>10, <1>11, <1>12, <1>13 DEF Next, Gui, Worker, Peer

(* KeptInv says of each text what NothingLost says of the sets of texts.      *)
LEMMA NothingLostFromKept ==
  ASSUME KeptInv
  PROVE  NothingLost
<1> SUFFICES ASSUME NEW c \in Conns, chan[c] \in {"queued", "open"}
             PROVE  Said(c) = (Posted(c) \ {NoText, Garbled}) \union Unread(c) \union mixed[c]
  BY DEF NothingLost
<1>1. \A n : Asked(c, n) <=> \/ Shown(c, n) /\ n \notin {NoText, Garbled}
                             \/ HasText(net[c], n)
                             \/ n \in mixed[c]
  BY DEF KeptInv, Kept
<1>2. \A n : n \in Said(c) <=> Asked(c, n)
  BY DEF Said, Asked
<1>3. \A n : n \in Posted(c) <=> Shown(c, n)
  BY DEF Posted, Shown
<1>4. \A n : n \in Unread(c) <=> HasText(net[c], n)
  BY DEF Unread, HasText
<1> QED
  BY <1>1, <1>2, <1>3, <1>4

(* onMsg loses no chat request but by a read that cuts or joins messages: in  *)
(* every interleaving and with the stream cut at every place, each request of *)
(* a connection that waits or is open is shown, posted or unread, or was      *)
(* taken by such a read; and no text is made up.                              *)
THEOREM NothingIsLost == Spec => []NothingLost
<1>1. Init => KeptInv
  BY KeptInit
<1>2. TypeOK /\ ShutdownOrder /\ LogInv /\ KeptInv /\ [Next]_vars => KeptInv'
  BY KeptNext
<1>3. KeptInv => NothingLost
  BY NothingLostFromKept
<1> QED
  BY <1>1, <1>2, <1>3, TypeCorrect, StartStopOrder, LogInvCorrect, PTL DEF Spec

-----------------------------------------------------------------------------
(* Closing the window, step by step.  ShutdownTerminates itself is an         *)
(* induction over a leads-to; what it rests on is proved here, for any number *)
(* of workers and connections: while the window closes it is always some      *)
(* thread's turn, a turn once due stays due, and a turn that is taken takes   *)
(* something off what is left, to which nothing is ever added.                *)
Closing == gui \in {"stopAcceptor", "stopWorkers"} /\ ~ crashed

(* Whose turn it is: the guards of the steps with which threads end.          *)
AcceptorTurn   == acceptor = "stopping"
GuiTurn        == \/ gui = "stopAcceptor" /\ AcceptorGone
                  \/ gui = "stopWorkers" /\ stopping \in Workers
                  \/ gui = "stopWorkers" /\ stopping = NumWorkers /\ WorkersGone
LeaveTurn(w)   == worker[w] = "stopping"
CleanupTurn(c) == chan[c] = "open" /\ worker[owner[c]] = "draining"
ExitTurn(w)    == worker[w] = "draining" /\ \A c \in Conns : owner[c] = w => chan[c] # "open"

ClosingHasTurn ==
  Closing => \/ AcceptorTurn \/ GuiTurn
             \/ \E w \in Workers : LeaveTurn(w) \/ ExitTurn(w)
             \/ \E c \in Conns : CleanupTurn(c)

TurnTaken ==
  \/ AcceptorExit \/ AcceptorStopped \/ StopWorker \/ Destroy
  \/ \E w \in Workers : LeaveLoop(w) \/ WorkerExit(w)
  \/ \E c \in Conns : OnCleanup(c)

TurnsKept ==
  /\ AcceptorTurn => AcceptorTurn'
  /\ GuiTurn => GuiTurn'
  /\ \A w \in Workers : (LeaveTurn(w) => LeaveTurn(w)') /\ (ExitTurn(w) => ExitTurn(w)')
  /\ \A c \in Conns : CleanupTurn(c) => CleanupTurn(c)'

(* What is left: finite sets of workers and connections, if Conns is finite.  *)
ToStop    == {w \in Workers : stopping <= w}
InLoop    == {w \in Workers : worker[w] \in {"running", "stopping"}}
NotEnded  == {w \in Workers : worker[w] # "stopped"}
NotClosed == {c \in Conns : chan[c] # "closed"}
Left      == << acceptor, gui, ToStop, InLoop, NotEnded, NotClosed >>

NoMore ==
  /\ acceptor = "stopped" => acceptor' = "stopped"
  /\ gui = "stopWorkers" => gui' = "stopWorkers"
  /\ ToStop' \subseteq ToStop /\ InLoop' \subseteq InLoop
  /\ NotEnded' \subseteq NotEnded /\ NotClosed' \subseteq NotClosed

Less == NoMore /\ Left' # Left

ClosingStep ==
  Closing =>
    /\ \/ gui' = "destroyed" \/ crashed'
       \/ Closing' /\ Less
       \/ Closing' /\ Left' = Left /\ TurnsKept
    /\ TurnTaken => gui' = "destroyed" \/ Less

(* In every place of the destructor a thread can take its next step: no two   *)
(* of them wait for each other.                                               *)
THEOREM ClosingIsSomeonesTurn == Spec => []ClosingHasTurn
<1>1. ASSUME TypeOK, ShutdownOrder PROVE ClosingHasTurn
  <2> SUFFICES ASSUME Closing, ~ AcceptorTurn, ~ GuiTurn
               PROVE  \/ \E w \in Workers : LeaveTurn(w) \/ ExitTurn(w)
                      \/ \E c \in Conns : CleanupTurn(c)
    BY DEF ClosingHasTurn
  <2>1. gui = "stopWorkers" /\ stopping \notin Workers
    BY <1>1 DEF Closing, AcceptorTurn, GuiTurn, AcceptorGone, ShutdownOrder
  <2>2. stopping = NumWorkers
    <3>1. stopping \in 0 .. NumWorkers
      BY <1>1 DEF TypeOK
    <3> QED
      BY <2>1, <3>1, ConstantsAssumption DEF Workers
  <2>3. \A w \in Workers : worker[w] \in {"stopping", "draining", "stopped"}
    <3>1. \A w \in Workers : w < stopping
      BY <2>2, ConstantsAssumption DEF Workers
    <3> QED
      BY <1>1, <2>1, <3>1 DEF ShutdownOrder
  <2>4. PICK w \in Workers : worker[w] # "stopped"
    BY <2>1, <2>2 DEF GuiTurn, WorkersGone
  <2> QED
    BY <2>3, <2>4 DEF LeaveTurn, ExitTurn, CleanupTurn
<1>2. TypeOK /\ ShutdownOrder => ClosingHasTurn
  BY <1>1
<1> QED
  BY <1>2, TypeCorrect, StartStopOrder, PTL

LEMMA ClosingSame ==
  ASSUME UNCHANGED << gui, stopping, acceptor, worker, chan, owner >>
  PROVE  Left' = Left /\ TurnsKept
  BY DEF Left, ToStop, InLoop, NotEnded, NotClosed, TurnsKept, AcceptorTurn, GuiTurn,
         AcceptorGone, WorkersGone, LeaveTurn, ExitTurn, CleanupTurn

(* A connection that is accepted or attached takes no turn away: a worker     *)
(* that attaches one is not about to end.                                     *)
LEMMA ClosingAccept ==
  ASSUME TypeOK, NEW c \in Conns, OnAccept(c)
  PROVE  Left' = Left /\ TurnsKept
<1>1. /\ UNCHANGED << gui, stopping, acceptor, worker >>
      /\ chan[c] = "none" /\ chan' = [chan EXCEPT ![c] = "queued"]
      /\ \A d \in Conns : d # c => owner'[d] = owner[d]
  BY DEF OnAccept, TypeOK, guiVars, threadVars
<1>2. \A d \in Conns : /\ chan'[d] = "open" <=> chan[d] = "open"
                       /\ chan'[d] = "closed" <=> chan[d] = "closed"
                       /\ chan[d] = "open" => owner'[d] = owner[d]
  BY <1>1 DEF TypeOK
<1> HIDE DEF OnAccept
<1>3. Left' = Left
  BY <1>1, <1>2 DEF Left, ToStop, InLoop, NotEnded, NotClosed
<1>4. \A d \in Conns : CleanupTurn(d) => CleanupTurn(d)'
  BY <1>1, <1>2 DEF CleanupTurn
<1>5. \A w \in Workers : ExitTurn(w) => ExitTurn(w)'
  BY <1>1, <1>2 DEF ExitTurn
<1> QED
  BY <1>1, <1>3, <1>4, <1>5
  DEF TurnsKept, AcceptorTurn, GuiTurn, AcceptorGone, WorkersGone, LeaveTurn

LEMMA ClosingAttach ==
  ASSUME TypeOK, LogInv, NEW v \in Workers, NewConnEvent(v)
  PROVE  Left' = Left /\ TurnsKept
<1> DEFINE c == Head(customEvents[v])
<1>1. c \in Conns /\ chan[c] = "queued" /\ owner[c] = v
  BY QueueNewConnEvent DEF LogInv
<1>2. /\ UNCHANGED << gui, stopping, acceptor, worker, owner >>
      /\ worker[v] = "running" /\ chan' = [chan EXCEPT ![c] = "open"]
  BY DEF NewConnEvent, guiVars, threadVars
<1> HIDE DEF c
<1>3. \A d \in Conns : /\ chan'[d] = "closed" <=> chan[d] = "closed"
                       /\ chan[d] = "open" => chan'[d] = "open"
                       /\ d # c /\ chan[d] # "open" => chan'[d] # "open"
  BY <1>1, <1>2 DEF TypeOK
<1>4. Left' = Left
  BY <1>2, <1>3 DEF Left, ToStop, InLoop, NotEnded, NotClosed
<1>5. \A d \in Conns : CleanupTurn(d) => CleanupTurn(d)'
  BY <1>2, <1>3 DEF CleanupTurn
<1>6. \A w \in Workers : ExitTurn(w) => ExitTurn(w)'
  BY <1>1, <1>2, <1>3 DEF ExitTurn
<1> QED
  BY <1>2, <1>4, <1>5, <1>6
  DEF TurnsKept, AcceptorTurn, GuiTurn, AcceptorGone, WorkersGone, LeaveTurn

(* The steps that take something off what is left.                            *)
LEMMA ClosingLess ==
  ASSUME TypeOK, ShutdownOrder, Closing,
         \/ AcceptorExit \/ AcceptorStopped \/ StopWorker
         \/ \E w \in Workers : LeaveLoop(w) \/ WorkerExit(w)
         \/ \E c \in Conns : OnClose(c)
  PROVE  gui' \in {"stopAcceptor", "stopWorkers"} /\ Less
<1> USE DEF guiVars, threadVars, connVars
<1>1. CASE AcceptorExit
  <2>1. /\ acceptor = "stopping" /\ acceptor' = "stopped"
        /\ UNCHANGED << gui, stopping, worker, chan >>
    BY <1>1 DEF AcceptorExit
  <2> QED
    BY <2>1 DEF Closing, Less, NoMore, Left, ToStop, InLoop, NotEnded, NotClosed
<1>2. CASE AcceptorStopped
  <2>1. /\ gui = "stopAcceptor" /\ gui' = "stopWorkers"
        /\ UNCHANGED << acceptor, stopping, worker, chan >>
    BY <1>2 DEF AcceptorStopped
  <2> QED
    BY <2>1 DEF Closing, Less, NoMore, Left, ToStop, InLoop, NotEnded, NotClosed
<1>3. CASE StopWorker
  <2>1. /\ gui = "stopWorkers" /\ stopping \in Workers /\ stopping' = stopping + 1
        /\ worker' = [worker EXCEPT ![stopping] = "stopping"]
        /\ UNCHANGED << gui, acceptor, chan >>
    BY <1>3 DEF StopWorker
  <2>2. \A w \in Workers : w \in Int
    BY WorkersFact
  <2>3. ToStop' \subseteq ToStop /\ stopping \in ToStop /\ stopping \notin ToStop'
    BY <2>1, <2>2 DEF ToStop
  <2>4. worker[stopping] = "running"
    BY <2>1, <2>2 DEF ShutdownOrder
  <2>5. InLoop' \subseteq InLoop /\ NotEnded' \subseteq NotEnded
    BY <2>1, <2>4 DEF InLoop, NotEnded, TypeOK
  <2>6. NotClosed' = NotClosed
    BY <2>1 DEF NotClosed
  <2> QED
    BY <2>1, <2>3, <2>5, <2>6 DEF Less, NoMore, Left
<1>4. ASSUME NEW w \in Workers, LeaveLoop(w) PROVE gui' \in {"stopAcceptor", "stopWorkers"} /\ Less
  <2>1. /\ worker[w] = "stopping" /\ worker' = [worker EXCEPT ![w] = "draining"]
        /\ UNCHANGED << gui, stopping, acceptor, chan >>
    BY <1>4 DEF LeaveLoop
  <2>2. InLoop' \subseteq InLoop /\ w \in InLoop /\ w \notin InLoop'
    BY <2>1 DEF InLoop, TypeOK
  <2>3. NotEnded' \subseteq NotEnded
    BY <2>1 DEF NotEnded, TypeOK
  <2>4. ToStop' = ToStop /\ NotClosed' = NotClosed
    BY <2>1 DEF ToStop, NotClosed
  <2> QED
    BY <2>1, <2>2, <2>3, <2>4 DEF Closing, Less, NoMore, Left
<1>5. ASSUME NEW w \in Workers, WorkerExit(w) PROVE gui' \in {"stopAcceptor", "stopWorkers"} /\ Less
  <2>1. /\ worker[w] = "draining" /\ worker' = [worker EXCEPT ![w] = "stopped"]
        /\ UNCHANGED << gui, stopping, acceptor, chan >>
    BY <1>5 DEF WorkerExit
  <2>2. NotEnded' \subseteq NotEnded /\ w \in NotEnded /\ w \notin NotEnded'
    BY <2>1 DEF NotEnded, TypeOK
  <2>3. InLoop' \subseteq InLoop
    BY <2>1 DEF InLoop, TypeOK
  <2>4. ToStop' = ToStop /\ NotClosed' = NotClosed
    BY <2>1 DEF ToStop, NotClosed
  <2> QED
    BY <2>1, <2>2, <2>3, <2>4 DEF Closing, Less, NoMore, Left
<1>6. ASSUME NEW c \in Conns, OnClose(c) PROVE gui' \in {"stopAcceptor", "stopWorkers"} /\ Less
  <2>1. /\ chan[c] = "open" /\ chan' = [chan EXCEPT ![c] = "closed"]
        /\ UNCHANGED << gui, stopping, acceptor, worker >>
    BY <1>6 DEF OnClose
  <2>2. NotClosed' \subseteq NotClosed /\ c \in NotClosed /\ c \notin NotClosed'
    BY <2>1 DEF NotClosed, TypeOK
  <2>3. ToStop' = ToStop /\ InLoop' = InLoop /\ NotEnded' = NotEnded
    BY <2>1 DEF ToStop, InLoop, NotEnded
  <2> QED
    BY <2>1, <2>2, <2>3 DEF Closing, Less, NoMore, Left
<1> QED
  BY <1>1, <1>2, <1>3, <1>4, <1>5, <1>6

(* Under the fairness of FairSpec each turn is taken or what is left shrinks, *)
(* until the window is gone or a worker missed its loop.                      *)
THEOREM ClosingGoesOn == Spec => [][ClosingStep]_vars
<1>1. ASSUME TypeOK, ShutdownOrder, LogInv, [Next]_vars PROVE [ClosingStep]_vars
  <2> SUFFICES ASSUME Closing, Next PROVE ClosingStep
    BY <1>1 DEF ClosingStep
  <2> USE DEF guiVars, threadVars, connVars
  <2> DEFINE Stays == gui' \in {"stopAcceptor", "stopWorkers"}
  <2>1. ASSUME Stays /\ Less PROVE ClosingStep
    BY <2>1 DEF ClosingStep, Closing
  <2>2. ASSUME UNCHANGED gui, Left' = Left, TurnsKept \/ crashed' = TRUE PROVE ClosingStep
    <3>1. ~ TurnTaken
      <4>1. \A c \in Conns : ~ OnClose(c)
        BY <1>1, <2>2, ClosingLess DEF Less
      <4>2. ~ Destroy
        BY <2>2 DEF Destroy
      <4>3. /\ ~ AcceptorExit /\ ~ AcceptorStopped /\ ~ StopWorker
            /\ \A w \in Workers : ~ LeaveLoop(w) /\ ~ WorkerExit(w)
        BY <1>1, <2>2, ClosingLess DEF Less
      <4> QED
        BY <4>1, <4>2, <4>3 DEF TurnTaken, OnCleanup
    <3> QED
      BY <2>2, <3>1 DEF ClosingStep, Closing
  <2>3. CASE UNCHANGED << gui, stopping, acceptor, worker, chan, owner >>
    BY <2>2, <2>3, ClosingSame
  <2>4. ASSUME NEW c \in Conns, OnAccept(c) PROVE ClosingStep
    BY <1>1, <2>2, <2>4, ClosingAccept DEF OnAccept
  <2>5. ASSUME NEW w \in Workers, NewConnEvent(w) PROVE ClosingStep
    BY <1>1, <2>2, <2>5, ClosingAttach DEF NewConnEvent
  <2>6. CASE \/ AcceptorExit \/ AcceptorStopped \/ StopWorker
             \/ \E w \in Workers : LeaveLoop(w) \/ WorkerExit(w)
             \/ \E c \in Conns : OnClose(c)
    BY <1>1, <2>1, <2>6, ClosingLess
  <2>7. CASE Destroy
    BY <2>7 DEF Destroy, ClosingStep
  <2>8. gui \notin {"ctor", "started", "loop"}
    BY DEF Closing
  <2> QED
    BY <2>3, <2>4, <2>5, <2>6, <2>7, <2>8
    DEF Next, Gui, Worker, Conn, Peer, StartServer, StartServerFails, OverWriteMsg,
        customEvent, StopAcceptor, NewConnEventNoLoop, OnRead, OnEof, OnTimeout,
        OnCleanup, PeerWrite, PeerClose
<1>2. TypeOK /\ ShutdownOrder /\ LogInv /\ [Next]_vars => [ClosingStep]_vars
  BY <1>1
<1> QED
  BY <1>2, TypeCorrect, StartStopOrder, LogInvCorrect, PTL DEF Spec
=============================================================================
