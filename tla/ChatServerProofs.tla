-------------------------- MODULE ChatServerProofs --------------------------
(* Proofs about ChatServer, for any number of workers and connections, any    *)
(* bound and any way the stream is cut: the types, that shutting down is safe *)
(* for the callbacks, and that the chat log of the window implements ChatLog. *)
EXTENDS ChatServer, SequenceTheorems, TLAPS

-----------------------------------------------------------------------------
(* The cells of a message are cells.                                          *)
LEMMA SerrializeType ==
  ASSUME NEW type \in RequestType, NEW text \in Int
  PROVE  Serrialize(type, text) \in Seq(Cell)
<1>1. /\ TypeCell(type) \in Cell
      /\ TextCell(text) \in Cell
      /\ \A k \in {"str", "int"} : Other(k) \in Cell
  BY DEF TypeCell, TextCell, Other, Cell, Text, NoText, RequestType
<1>2. Body(type, text) \in Seq(Cell)
  BY <1>1 DEF Body, RequestType
<1>3. << TypeCell(type), Other("str") >> \in Seq(Cell)
  BY <1>1
<1> QED
  BY <1>2, <1>3, ConcatProperties DEF Serrialize

(* What a read returns and what it leaves are sequences of cells.             *)
LEMMA ReadType ==
  ASSUME NEW c \in Conns, net \in [Conns -> Seq(Cell)],
         NEW k \in 0 .. Len(net[c]), NEW cut \in BOOLEAN, Readable(c, k, cut)
  PROVE  /\ Chunk(c, k, cut) \in Seq(Cell)
         /\ Len(Chunk(c, k, cut)) >= 1
         /\ Remainder(c, k, cut) \in Seq(Cell)
<1> DEFINE s == net[c]
<1>1. s \in Seq(Cell) /\ Len(s) \in Nat /\ k \in Nat
  BY LenProperties
<1>2. Frag \in Cell
  BY DEF Frag, Other, Cell, Text, NoText, RequestType
<1>3. << Frag >> \in Seq(Cell) /\ Len(<< Frag >>) = 1
  BY <1>2
<1>4. SubSeq(s, 1, k) \in Seq(Cell) /\ Len(SubSeq(s, 1, k)) = k
  BY <1>1, SubSeqProperties
<1>5. SubSeq(s, k + 1, Len(s)) \in Seq(Cell)
  BY <1>1, SubSeqProperties
<1>6. CASE cut
  <2>1. k + 1 <= Len(s)
    BY <1>1, <1>6 DEF Readable
  <2>2. SubSeq(s, k + 2, Len(s)) \in Seq(Cell)
    BY <1>1, <2>1, SubSeqProperties
  <2> QED
    BY <1>3, <1>4, <1>6, <2>2, ConcatProperties DEF Chunk, Remainder
<1>7. CASE ~ cut
  <2>1. k >= 1
    BY <1>1, <1>7 DEF Readable
  <2>2. SubSeq(s, 1, k) \o << >> = SubSeq(s, 1, k)
    BY <1>4, ConcatEmptySeq
  <2> QED
    BY <1>4, <1>5, <1>7, <2>1, <2>2 DEF Chunk, Remainder
<1> QED
  BY <1>6, <1>7

(* The texts of the cells that a read takes.                                  *)
LEMMA TakenType ==
  ASSUME NEW c \in Conns, net \in [Conns -> Seq(Cell)],
         NEW k \in 0 .. Len(net[c]), NEW cut \in BOOLEAN, Readable(c, k, cut)
  PROVE  Taken(c, k, cut) \subseteq Text
<1> DEFINE s == net[c]
<1>1. s \in Seq(Cell) /\ Len(s) \in Nat /\ k \in Nat
  BY LenProperties
<1>2. (IF cut THEN k + 1 ELSE k) <= Len(s)
  BY <1>1 DEF Readable
<1>3. ASSUME NEW j \in 1 .. IF cut THEN k + 1 ELSE k PROVE s[j].text \in Text
  <2>1. j \in 1 .. Len(s)
    BY <1>1, <1>2
  <2>2. s[j] \in Cell
    BY <1>1, <2>1, ElementOfSeq
  <2> QED
    BY <2>2 DEF Cell
<1> QED
  BY <1>3 DEF Taken

(* The text of a decoded message is a text.                                   *)
LEMMA DecodedType ==
  ASSUME NEW chunk \in Seq(Cell), Len(chunk) >= 1, NEW msg \in DeSerrialize(chunk)
  PROVE  msg.text \in Int
<1>1. Len(chunk) \in Nat
  BY LenProperties
<1>2. Len(chunk) >= 4 => chunk[4] \in Cell
  BY <1>1, ElementOfSeq
<1>3. Len(chunk) >= 4 => chunk[4].text \in Int
  BY <1>2 DEF Cell, Text
<1> QED
  BY <1>3 DEF DeSerrialize, NoText, Garbled

(* Posting a line to the window keeps the queue well-typed.                   *)
LEMMA PostType ==
  ASSUME postedEvents \in Seq(Lines),
         NEW line \in Lines, PostMsg(line)
  PROVE  postedEvents' \in Seq(Lines)
  BY AppendProperties DEF PostMsg

LEMMA onConnectionType ==
  ASSUME postedEvents \in Seq(Lines),
         NEW c \in Conns, NEW status, onConnection(c, status)
  PROVE  postedEvents' \in Seq(Lines)
<1>1. Line(IF status = "open" THEN "connected" ELSE "disconnected", c, NoText) \in Lines
  BY DEF Line, Lines, Text, NoText
<1> QED
  BY <1>1, PostType DEF onConnection

-----------------------------------------------------------------------------
(* TypeOK is inductive.                                                       *)
LEMMA WorkersFact == Workers \subseteq Nat /\ 0 \in Workers /\ NoOne \notin Workers
  BY ConstantsAssumption DEF Workers, NoOne

LEMMA nextLoopType == nextLoopIdx \in Workers => nextLoop \in Workers
  BY ConstantsAssumption DEF nextLoop, Workers

LEMMA TypeInit == Init => TypeOK
<1> SUFFICES ASSUME Init PROVE TypeOK
  OBVIOUS
<1>1. << >> \in Seq(Conns) /\ << >> \in Seq(RequestType) /\ << >> \in Seq(Cell)
      /\ << >> \in Seq(Lines)
  BY EmptySeq
<1>2. 0 \in 0 .. NumWorkers /\ 0 \in Workers
  BY WorkersFact, ConstantsAssumption
<1>3. stopping = 0 /\ nextLoopIdx = 0 /\ connectionNum = [w \in Workers |-> 0]
  BY DEF Init
<1>4. stopping \in 0 .. NumWorkers /\ nextLoopIdx \in Workers
  BY <1>2, <1>3
<1>5. connectionNum \in [Workers -> Int]
  BY <1>3
<1>6. written \in [Conns -> Seq(RequestType)] /\ net \in [Conns -> Seq(Cell)]
      /\ customEvents \in [Workers -> Seq(Conns)]
      /\ postedEvents \in Seq(Lines) /\ chatEdit \in Seq(Lines)
  BY <1>1 DEF Init
<1> QED
  BY <1>4, <1>5, <1>6 DEF Init, TypeOK

(* Every step of Next keeps TypeOK, one action after the other.               *)
LEMMA TypeNext == TypeOK /\ [Next]_vars => TypeOK'
<1> SUFFICES ASSUME TypeOK, [Next]_vars PROVE TypeOK'
  OBVIOUS
<1> USE DEF guiVars, threadVars, connVars, peerVars, lineVars
<1>1. CASE StartServerFails /\ UNCHANGED crashed
  BY <1>1 DEF StartServerFails, TypeOK
<1>2. CASE StartServer /\ UNCHANGED crashed
  BY <1>2 DEF StartServer, TypeOK
<1>3. CASE OverWriteMsg /\ UNCHANGED crashed
  BY <1>3, EmptySeq DEF OverWriteMsg, TypeOK
<1>4. CASE customEvent /\ UNCHANGED crashed
  <2>1. postedEvents \in Seq(Lines) /\ postedEvents # << >> /\ chatEdit \in Seq(Lines)
    BY <1>4 DEF customEvent, TypeOK
  <2>2. Head(postedEvents) \in Lines /\ Tail(postedEvents) \in Seq(Lines)
    BY <2>1, HeadTailProperties
  <2>3. chatEdit' \in Seq(Lines) /\ postedEvents' \in Seq(Lines)
    BY <1>4, <2>1, <2>2, AppendProperties DEF customEvent
  <2> QED
    BY <1>4, <2>3 DEF customEvent, TypeOK
<1>5. CASE StopAcceptor /\ UNCHANGED crashed
  <2>1. postedEvents' \in Seq(Lines)
    BY <1>5, EmptySeq DEF StopAcceptor, TypeOK
  <2> QED
    BY <1>5, <2>1 DEF StopAcceptor, TypeOK
<1>6. CASE AcceptorStopped /\ UNCHANGED crashed
  BY <1>6 DEF AcceptorStopped, TypeOK
<1>7. CASE StopWorker /\ UNCHANGED crashed
  <2>1. stopping \in Workers /\ stopping' = stopping + 1
    BY <1>7 DEF StopWorker
  <2>2. stopping' \in 0 .. NumWorkers
    BY <2>1, ConstantsAssumption DEF Workers
  <2> QED
    BY <1>7, <2>2 DEF StopWorker, TypeOK
<1>8. CASE Destroy /\ UNCHANGED crashed
  <2>1. postedEvents' \in Seq(Lines)
    BY <1>8, EmptySeq DEF Destroy
  <2> QED
    BY <1>8, <2>1 DEF Destroy, TypeOK
<1>9. CASE AcceptorExit /\ UNCHANGED crashed
  BY <1>9 DEF AcceptorExit, TypeOK
<1>10. ASSUME NEW w \in Workers, NewConnEvent(w), UNCHANGED crashed
       PROVE  TypeOK'
  <2>1. customEvents[w] \in Seq(Conns) /\ customEvents[w] # << >>
    BY <1>10 DEF NewConnEvent, TypeOK
  <2>2. Head(customEvents[w]) \in Conns /\ Tail(customEvents[w]) \in Seq(Conns)
    BY <2>1, HeadTailProperties
  <2>3. postedEvents' \in Seq(Lines)
    BY <1>10, <2>2, onConnectionType DEF NewConnEvent, TypeOK
  <2>4. customEvents' \in [Workers -> Seq(Conns)]
    BY <1>10, <2>2 DEF NewConnEvent, Dequeue, TypeOK
  <2>5. chan' \in [Conns -> {"none", "queued", "open", "closed"}]
    BY <1>10, <2>2 DEF NewConnEvent, TypeOK
  <2> QED
    BY <1>10, <2>3, <2>4, <2>5 DEF NewConnEvent, TypeOK
<1>11. ASSUME NEW w \in Workers, LeaveLoop(w) \/ WorkerExit(w), UNCHANGED crashed
       PROVE  TypeOK'
  BY <1>11 DEF LeaveLoop, WorkerExit, TypeOK
<1>12. ASSUME NEW c \in Conns, OnAccept(c), UNCHANGED crashed
       PROVE  TypeOK'
  <2>1. nextLoop \in Workers
    BY nextLoopType DEF TypeOK
  <2>2. Append(customEvents[nextLoop], c) \in Seq(Conns)
    BY <2>1, AppendProperties DEF TypeOK
  <2>3. customEvents' \in [Workers -> Seq(Conns)]
    BY <1>12, <2>1, <2>2 DEF OnAccept, TypeOK
  <2>4. connectionNum' \in [Workers -> Int]
    <3>1. /\ connectionNum \in [Workers -> Int]
          /\ connectionNum' = [connectionNum EXCEPT ![nextLoop] = connectionNum[nextLoop] + 1]
      BY <1>12 DEF OnAccept, TypeOK
    <3>2. connectionNum[nextLoop] + 1 \in Int
      BY <2>1, <3>1
    <3> QED
      BY <3>1, <3>2
  <2> QED
    BY <1>12, <2>1, <2>3, <2>4 DEF OnAccept, TypeOK
<1>13. ASSUME NEW c \in Conns, NEW k \in 0 .. Len(net[c]), NEW cut \in BOOLEAN,
              OnRead(c, k, cut), UNCHANGED crashed
       PROVE  TypeOK'
  <2>1. /\ Chunk(c, k, cut) \in Seq(Cell) /\ Len(Chunk(c, k, cut)) >= 1
        /\ Remainder(c, k, cut) \in Seq(Cell)
    BY <1>13, ReadType DEF OnRead, TypeOK
  <2>2. PICK msg \in DeSerrialize(Chunk(c, k, cut)) : onMsg(c, msg)
    BY <1>13 DEF OnRead
  <2>3. msg.text \in Int
    BY <2>1, DecodedType
  <2>4. Line("chat", c, msg.text) \in Lines
    BY <2>3 DEF Line, Lines, Text
  <2>5. postedEvents' \in Seq(Lines)
    BY <2>2, <2>4, PostType DEF onMsg, TypeOK
  <2>6. net' \in [Conns -> Seq(Cell)]
    BY <1>13, <2>1 DEF OnRead, TypeOK
  <2>7. mixed' \in [Conns -> SUBSET Text]
    <3>1. Taken(c, k, cut) \subseteq Text
      BY <1>13, TakenType DEF OnRead, TypeOK
    <3>2. mixed[c] \union Taken(c, k, cut) \in SUBSET Text
      BY <3>1 DEF TypeOK
    <3> QED
      BY <1>13, <3>2 DEF OnRead, TypeOK
  <2> QED
    BY <1>13, <2>5, <2>6, <2>7 DEF OnRead, TypeOK
<1>14. ASSUME NEW c \in Conns, OnClose(c), UNCHANGED crashed
       PROVE  TypeOK'
  <2>1. postedEvents' \in Seq(Lines)
    BY <1>14, onConnectionType DEF OnClose, TypeOK
  <2>2. connectionNum' \in [Workers -> Int]
    <3>1. /\ connectionNum \in [Workers -> Int]
          /\ connectionNum' = [connectionNum EXCEPT ![owner[c]] = connectionNum[owner[c]] - 1]
      BY <1>14 DEF OnClose, CountDown, TypeOK
    <3>2. CASE owner[c] \in Workers
      <4>1. connectionNum[owner[c]] - 1 \in Int
        BY <3>1, <3>2
      <4> QED
        BY <3>1, <4>1
    <3>3. CASE owner[c] \notin Workers
      BY <3>1, <3>3
    <3> QED
      BY <3>2, <3>3
  <2> QED
    BY <1>14, <2>1, <2>2 DEF OnClose, TypeOK
<1>15. ASSUME NEW c \in Conns, NEW type \in RequestType, PeerWrite(c, type),
              UNCHANGED crashed
       PROVE  TypeOK'
  <2>1. written[c] \in Seq(RequestType) /\ net[c] \in Seq(Cell)
    BY DEF TypeOK
  <2>2. Append(written[c], type) \in Seq(RequestType) /\ Len(written[c]) + 1 \in Int
    BY <2>1, AppendProperties, LenProperties
  <2>3. net[c] \o Serrialize(type, Len(written[c]) + 1) \in Seq(Cell)
    BY <2>1, <2>2, SerrializeType, ConcatProperties
  <2>4. net' \in [Conns -> Seq(Cell)] /\ written' \in [Conns -> Seq(RequestType)]
    BY <1>15, <2>2, <2>3 DEF PeerWrite, TypeOK
  <2> QED
    BY <1>15, <2>4 DEF PeerWrite, TypeOK
<1>16. ASSUME NEW c \in Conns, PeerClose(c), UNCHANGED crashed
       PROVE  TypeOK'
  BY <1>16 DEF PeerClose, TypeOK
<1>17. ASSUME NEW w \in Workers, NewConnEventNoLoop(w)
       PROVE  TypeOK'
  BY <1>17 DEF NewConnEventNoLoop, TypeOK
<1>18. CASE UNCHANGED vars
  BY <1>18 DEF vars, TypeOK
<1> QED
  BY <1>1, <1>2, <1>3, <1>4, <1>5, <1>6, <1>7, <1>8, <1>9, <1>10, <1>11, <1>12,
     <1>13, <1>14, <1>15, <1>16, <1>17, <1>18, ConstantsAssumption
  DEF Next, Gui, Worker, Conn, Peer, OnEof, OnTimeout, OnCleanup

(* Types, for every number of workers, connections and writes.                *)
THEOREM TypeCorrect == Spec => []TypeOK
  BY TypeInit, TypeNext, PTL DEF Spec

-----------------------------------------------------------------------------
(* Starting and stopping.                                                     *)

LEMMA ShutdownInit == Init => ShutdownOrder
  BY DEF Init, ShutdownOrder, All

(* Only the GUI thread, AcceptorExit, LeaveLoop and WorkerExit touch the      *)
(* threads; every other action leaves ShutdownOrder as it was.                *)
LEMMA ShutdownNext == TypeOK /\ ShutdownOrder /\ [Next]_vars => ShutdownOrder'
<1> SUFFICES ASSUME TypeOK, ShutdownOrder, [Next]_vars PROVE ShutdownOrder'
  OBVIOUS
<1> USE DEF guiVars, threadVars, connVars, peerVars, lineVars
<1>1. CASE UNCHANGED << guiVars, threadVars >>
  BY <1>1 DEF ShutdownOrder, All
<1>2. CASE StartServerFails
  BY <1>2 DEF StartServerFails, ShutdownOrder, All
<1>3. CASE StartServer
  BY <1>3 DEF StartServer, ShutdownOrder, All
<1>4. CASE OverWriteMsg
  BY <1>4 DEF OverWriteMsg, ShutdownOrder, All
<1>5. CASE StopAcceptor
  BY <1>5 DEF StopAcceptor, ShutdownOrder, All
<1>6. CASE AcceptorStopped
  <2>1. stopping' = 0 /\ gui' = "stopWorkers" /\ acceptor' = "stopped"
    BY <1>6 DEF AcceptorStopped, AcceptorGone, ShutdownOrder
  <2>2. \A w \in Workers : ~ (w < 0) /\ worker'[w] = "running"
    BY <1>6, WorkersFact DEF AcceptorStopped, ShutdownOrder, All
  <2> QED
    BY <2>1, <2>2 DEF ShutdownOrder
<1>7. CASE StopWorker
  <2>1. /\ gui' = "stopWorkers" /\ acceptor' = "stopped"
        /\ stopping \in Workers /\ stopping' = stopping + 1
        /\ worker' = [worker EXCEPT ![stopping] = "stopping"]
    BY <1>7 DEF StopWorker, ShutdownOrder
  <2>2. ASSUME NEW w \in Workers
        PROVE  IF w < stopping' THEN worker'[w] \in {"stopping", "draining", "stopped"}
                                ELSE worker'[w] = "running"
    <3>1. w \in Int /\ stopping \in Int
      BY <2>1, WorkersFact
    <3>2. IF w < stopping THEN worker[w] \in {"stopping", "draining", "stopped"}
                          ELSE worker[w] = "running"
      BY <1>7 DEF StopWorker, ShutdownOrder
    <3>3. worker'[w] = IF w = stopping THEN "stopping" ELSE worker[w]
      BY <2>1 DEF TypeOK
    <3> QED
      BY <2>1, <3>1, <3>2, <3>3
  <2> QED
    BY <2>1, <2>2 DEF ShutdownOrder
<1>8. CASE Destroy
  BY <1>8 DEF Destroy, WorkersGone, ShutdownOrder, All
<1>9. CASE AcceptorExit
  BY <1>9 DEF AcceptorExit, ShutdownOrder, All
<1>10. ASSUME NEW w \in Workers, LeaveLoop(w) \/ WorkerExit(w) PROVE ShutdownOrder'
  <2>1. /\ worker[w] \in {"stopping", "draining"}
        /\ \E st \in {"draining", "stopped"} : worker' = [worker EXCEPT ![w] = st]
        /\ UNCHANGED << guiVars, acceptor >>
    BY <1>10 DEF LeaveLoop, WorkerExit
  <2>2. gui = "stopWorkers"
    BY <2>1 DEF ShutdownOrder, All, TypeOK
  <2>3. ASSUME NEW v \in Workers
        PROVE  IF v < stopping' THEN worker'[v] \in {"stopping", "draining", "stopped"}
                                ELSE worker'[v] = "running"
    BY <2>1, <2>2 DEF ShutdownOrder, TypeOK
  <2> QED
    BY <2>1, <2>2, <2>3 DEF ShutdownOrder
<1> QED
  BY <1>1, <1>2, <1>3, <1>4, <1>5, <1>6, <1>7, <1>8, <1>9, <1>10
  DEF Next, Gui, Worker, Conn, Peer, customEvent, NewConnEvent, NewConnEventNoLoop,
      OnAccept, OnRead, OnEof, OnTimeout, OnCleanup, OnClose, PeerWrite, PeerClose, vars

(* The workers start before the acceptor and stop after it, and the window is *)
(* gone only after all of them.                                               *)
THEOREM StartStopOrder == Spec => []ShutdownOrder
<1>1. Init => TypeOK /\ ShutdownOrder
  BY TypeInit, ShutdownInit
<1>2. TypeOK /\ ShutdownOrder /\ [Next]_vars => (TypeOK /\ ShutdownOrder)'
  BY TypeNext, ShutdownNext
<1> QED
  BY <1>1, <1>2, PTL DEF Spec

(* No handler of the window can run once ~mainwindow is done.                 *)
THEOREM CallbacksEndFirst == Spec => []NoCallbackAfterDestroy
<1>1. ShutdownOrder => NoCallbackAfterDestroy
  BY DEF ShutdownOrder, NoCallbackAfterDestroy, All, Alive
<1> QED
  BY <1>1, StartStopOrder, PTL

(* onAccept only ever queues a connection on a worker that runs.              *)
THEOREM AcceptIsSafe == Spec => AcceptOntoRunning
<1> DEFINE Safe == \A c \in Conns : chan[c] = "none" /\ chan'[c] = "queued"
                                     => worker[owner'[c]] = "running"
<1>1. ASSUME TypeOK, ShutdownOrder, [Next]_vars PROVE [Safe]_vars
  <2> SUFFICES ASSUME NEW c \in Conns, chan[c] = "none", chan'[c] = "queued"
               PROVE  worker[owner'[c]] = "running"
    OBVIOUS
  <2> USE DEF guiVars, threadVars, connVars, peerVars, lineVars
  <2>1. CASE chan' = chan
    BY <2>1
  <2>2. ASSUME NEW w \in Workers, NewConnEvent(w) PROVE FALSE
    BY <2>2 DEF NewConnEvent, TypeOK
  <2>3. ASSUME NEW d \in Conns, OnClose(d) PROVE FALSE
    BY <2>3 DEF OnClose, TypeOK
  <2>4. ASSUME NEW d \in Conns, OnAccept(d) PROVE worker[owner'[c]] = "running"
    <3>1. d = c
      BY <2>4 DEF OnAccept, TypeOK
    <3>2. nextLoop \in Workers
      BY <1>1, nextLoopType DEF TypeOK
    <3>3. owner'[c] = nextLoop
      BY <1>1, <2>4, <3>1 DEF OnAccept, TypeOK
    <3>4. acceptor \in {"running", "stopping"}
      BY <2>4 DEF OnAccept
    <3>5. All({"running"})
      BY <1>1, <3>4 DEF ShutdownOrder, TypeOK
    <3> QED
      BY <3>2, <3>3, <3>5 DEF All
  <2> QED
    BY <1>1, <2>1, <2>2, <2>3, <2>4
    DEF Next, Gui, Worker, Conn, Peer, customEvent, NewConnEventNoLoop, OnRead, OnEof,
        OnTimeout, OnCleanup, PeerWrite, PeerClose, vars, StartServer, StartServerFails,
        OverWriteMsg, StopAcceptor, AcceptorStopped, StopWorker, Destroy, AcceptorExit,
        LeaveLoop, WorkerExit
<1>2. TypeOK /\ ShutdownOrder /\ [Next]_vars => [Safe]_vars
  BY <1>1
<1> QED
  BY <1>2, TypeCorrect, StartStopOrder, PTL DEF Spec, AcceptOntoRunning

-----------------------------------------------------------------------------
(* The chat log.                                                              *)

(* The lines shown and posted, taken together.                                *)
LEMMA WholeType ==
  ASSUME TypeOK
  PROVE  /\ Whole \in Seq(Lines) /\ chatEdit \in Seq(Lines) /\ postedEvents \in Seq(Lines)
         /\ Len(Whole) = Len(chatEdit) + Len(postedEvents)
         /\ Len(Whole) \in Nat /\ Len(chatEdit) \in Nat /\ Len(postedEvents) \in Nat
         /\ \A i \in 1 .. Len(chatEdit) : Whole[i] = chatEdit[i]
<1>1. chatEdit \in Seq(Lines) /\ postedEvents \in Seq(Lines)
  BY DEF TypeOK
<1>2. Len(chatEdit) \in Nat /\ Len(postedEvents) \in Nat
  BY <1>1, LenProperties
<1> QED
  BY <1>1, <1>2, ConcatProperties DEF Whole

LEMMA LineText == TypeOK => \A i \in 1 .. Len(Whole) : Whole[i] \in Lines /\ Whole[i].text \in Int
<1> SUFFICES ASSUME TypeOK, NEW i \in 1 .. Len(Whole)
             PROVE  Whole[i] \in Lines /\ Whole[i].text \in Int
  OBVIOUS
<1>1. Whole \in Seq(Lines)
  BY WholeType
<1>2. Whole[i] \in Lines
  BY <1>1, ElementOfSeq
<1> QED
  BY <1>2 DEF Lines, Text

(* Posting a line appends it to the whole.                                    *)
LEMMA WholePost ==
  ASSUME TypeOK, NEW line \in Lines, PostMsg(line), chatEdit' = chatEdit
  PROVE  Whole' = Append(Whole, line)
<1>1. chatEdit \in Seq(Lines) /\ postedEvents \in Seq(Lines) /\ << line >> \in Seq(Lines)
  BY WholeType
<1>2. postedEvents' = postedEvents \o << line >>
  BY <1>1, AppendIsConcat DEF PostMsg
<1>3. Whole' = (chatEdit \o postedEvents) \o << line >>
  BY <1>1, <1>2, ConcatAssociative DEF Whole
<1> QED
  BY <1>1, <1>3, WholeType, AppendIsConcat DEF Whole

(* Showing the oldest posted line leaves the whole as it is.                  *)
LEMMA WholeShow ==
  ASSUME TypeOK, customEvent
  PROVE  Whole' = Whole
<1>1. chatEdit \in Seq(Lines) /\ postedEvents \in Seq(Lines) /\ postedEvents # << >>
  BY WholeType DEF customEvent
<1> DEFINE h == Head(postedEvents)
           t == Tail(postedEvents)
<1>2. h \in Lines /\ t \in Seq(Lines) /\ << h >> \in Seq(Lines)
  BY <1>1, HeadTailProperties
<1>3. postedEvents = << h >> \o t
  <2>1. << h >> \o t \in Seq(Lines) /\ Len(<< h >> \o t) = Len(postedEvents)
    BY <1>1, <1>2, HeadTailProperties, ConcatProperties, LenProperties
  <2>2. \A i \in 1 .. Len(postedEvents) : postedEvents[i] = (<< h >> \o t)[i]
    BY <1>1, <1>2, HeadTailProperties, ConcatProperties, LenProperties
  <2> QED
    BY <1>1, <2>1, <2>2, SeqEqual
<1>4. Whole' = (chatEdit \o << h >>) \o t
  BY <1>1, <1>2, AppendIsConcat DEF customEvent, Whole
<1> HIDE DEF h, t
<1>5. (chatEdit \o << h >>) \o t = chatEdit \o (<< h >> \o t)
  BY ONLY <1>1, <1>2, ConcatAssociative
<1> QED
  BY ONLY <1>3, <1>4, <1>5 DEF Whole

(* What makes a line legal at the end of the whole.                           *)
NewLine(line) ==
  /\ line.text \in Garbled .. MaxWrites
  /\ line.kind # "chat" => line.text = NoText
  /\ line.kind = "connected" => \A j \in 1 .. Len(Whole) : Whole[j].conn # line.conn
  /\ line.kind # "connected" => /\ Reported(line.conn, "connected")
                                /\ ~ Reported(line.conn, "disconnected")
  /\ line.text > 0 => \A j \in 1 .. Len(Whole) :
                        Whole[j].conn = line.conn => Whole[j].text < line.text

(* Legality of a line only depends on the lines up to it.                     *)
LEMMA LegalSame ==
  ASSUME NEW s, NEW t, NEW i \in Nat, s[i] = t[i], \A j \in 1 .. i - 1 : s[j] = t[j],
         LegalAt(s, i)
  PROVE  LegalAt(t, i)
<1>1. \A j \in 1 .. i - 1 : s[j].conn = t[j].conn /\ s[j].kind = t[j].kind
                            /\ s[j].text = t[j].text
  OBVIOUS
<1>2. s[i].conn = t[i].conn /\ s[i].kind = t[i].kind /\ s[i].text = t[i].text
  OBVIOUS
<1> QED
  BY <1>1, <1>2 DEF LegalAt

LEMMA AppendLegal ==
  ASSUME TypeOK, Legal(Whole), NEW line \in Lines, NewLine(line),
         Whole' = Append(Whole, line)
  PROVE  Legal(Whole')
<1> DEFINE n == Len(Whole)
<1>1. Whole \in Seq(Lines) /\ n \in Nat
  BY WholeType
<1>2. /\ Len(Whole') = n + 1
      /\ \A i \in 1 .. n : Whole'[i] = Whole[i]
      /\ Whole'[n + 1] = line
  BY <1>1, AppendProperties
<1> HIDE DEF n
<1>3. ASSUME NEW i \in 1 .. n PROVE LegalAt(Whole', i)
  <2>1. LegalAt(Whole, i)
    BY <1>3 DEF Legal, n
  <2>2. /\ i \in Nat /\ Whole[i] = Whole'[i]
        /\ \A j \in 1 .. i - 1 : Whole[j] = Whole'[j]
    BY <1>1, <1>2
  <2> QED
    BY <2>1, <2>2, LegalSame
<1>4. LegalAt(Whole', n + 1)
  BY <1>1, <1>2 DEF LegalAt, NewLine, Reported, n
<1> QED
  BY <1>1, <1>2, <1>3, <1>4 DEF Legal

-----------------------------------------------------------------------------
(* The queues: accepting puts a new connection at the end of one of them,     *)
(* newConnEvent takes the first off and opens it.                             *)
LEMMA QueueOnAccept ==
  ASSUME TypeOK, QueueInv, NEW c \in Conns, OnAccept(c)
  PROVE  QueueInv'
<1>1. nextLoop \in Workers
  BY nextLoopType DEF TypeOK
<1>2. /\ chan[c] = "none" /\ chan' = [chan EXCEPT ![c] = "queued"]
      /\ owner' = [owner EXCEPT ![c] = nextLoop]
      /\ customEvents' = [customEvents EXCEPT ![nextLoop] = Append(@, c)]
  BY DEF OnAccept
<1>3. SUFFICES ASSUME NEW w \in Workers, NEW i \in 1 .. Len(customEvents'[w])
               PROVE  /\ chan'[customEvents'[w][i]] = "queued"
                      /\ owner'[customEvents'[w][i]] = w
                      /\ \A j \in 1 .. i - 1 : customEvents'[w][j] # customEvents'[w][i]
  BY DEF QueueInv
<1> DEFINE q == customEvents[w]
<1>4. q \in Seq(Conns) /\ Len(q) \in Nat
  BY LenProperties DEF TypeOK
<1>5. \A j \in 1 .. Len(q) : q[j] \in Conns /\ q[j] # c /\ chan[q[j]] = "queued"
                             /\ owner[q[j]] = w
  BY <1>2, <1>4, ElementOfSeq DEF QueueInv
<1>6. \A j \in 1 .. Len(q) : chan'[q[j]] = "queued" /\ owner'[q[j]] = w
  BY <1>2, <1>5 DEF TypeOK
<1>7. CASE w = nextLoop
  <2>1. customEvents'[w] = Append(q, c)
    BY <1>1, <1>2, <1>7 DEF TypeOK
  <2>2. /\ Len(customEvents'[w]) = Len(q) + 1
        /\ \A j \in 1 .. Len(q) : customEvents'[w][j] = q[j]
        /\ customEvents'[w][Len(q) + 1] = c
    BY <1>4, <2>1, AppendProperties
  <2>3. chan'[c] = "queued" /\ owner'[c] = w
    BY <1>1, <1>2, <1>7 DEF TypeOK
  <2>4. CASE i = Len(q) + 1
    BY <1>4, <1>5, <2>2, <2>3, <2>4
  <2>5. CASE i \in 1 .. Len(q)
    <3>1. \A j \in 1 .. i - 1 : q[j] # q[i]
      BY <2>5 DEF QueueInv
    <3> QED
      BY <1>4, <1>6, <2>2, <2>5, <3>1
  <2> QED
    BY <1>4, <2>2, <2>4, <2>5
<1>8. CASE w # nextLoop
  <2>1. customEvents'[w] = q
    BY <1>1, <1>2, <1>8 DEF TypeOK
  <2> QED
    BY <1>4, <1>6, <2>1 DEF QueueInv
<1> QED
  BY <1>7, <1>8

LEMMA QueueNewConnEvent ==
  ASSUME TypeOK, QueueInv, NEW v \in Workers, NewConnEvent(v)
  PROVE  /\ QueueInv'
         /\ Head(customEvents[v]) \in Conns
         /\ chan[Head(customEvents[v])] = "queued"
         /\ owner[Head(customEvents[v])] = v
<1> DEFINE c == Head(customEvents[v])
<1>1. /\ customEvents[v] \in Seq(Conns) /\ customEvents[v] # << >>
      /\ chan' = [chan EXCEPT ![c] = "open"]
      /\ customEvents' = [customEvents EXCEPT ![v] = Tail(@)]
      /\ owner' = owner
  BY DEF NewConnEvent, Dequeue, connVars, TypeOK
<1>2. c \in Conns /\ c = customEvents[v][1] /\ 1 \in 1 .. Len(customEvents[v])
  BY <1>1, HeadTailProperties, LenProperties
<1>3. chan[c] = "queued" /\ owner[c] = v
  BY <1>2 DEF QueueInv
<1>4. ASSUME NEW w \in Workers, NEW i \in 1 .. Len(customEvents'[w])
      PROVE  /\ chan'[customEvents'[w][i]] = "queued"
             /\ owner'[customEvents'[w][i]] = w
             /\ \A j \in 1 .. i - 1 : customEvents'[w][j] # customEvents'[w][i]
  <2> DEFINE q == customEvents[w]
  <2>1. q \in Seq(Conns) /\ Len(q) \in Nat
    BY LenProperties DEF TypeOK
  <2> HIDE DEF q
  <2>2. CASE w = v
    <3>1. customEvents'[w] = Tail(q) /\ q # << >>
      BY <1>1, <2>2 DEF TypeOK, q
    <3>2. /\ Len(customEvents'[w]) = Len(q) - 1
          /\ \A j \in 1 .. Len(q) - 1 : customEvents'[w][j] = q[j + 1]
      BY <2>1, <3>1, HeadTailProperties
    <3>3. i + 1 \in 2 .. Len(q)
      BY <2>1, <3>2
    <3>4. q[i + 1] \in Conns /\ q[i + 1] # c /\ chan[q[i + 1]] = "queued"
          /\ owner[q[i + 1]] = w
      BY <1>2, <2>1, <2>2, <3>3, ElementOfSeq DEF QueueInv, q
    <3>5. \A j \in 1 .. i - 1 : q[j + 1] # q[i + 1]
      BY <2>1, <3>3 DEF QueueInv, q
    <3>6. customEvents'[w][i] = q[i + 1] /\ chan'[q[i + 1]] = "queued"
          /\ owner'[q[i + 1]] = w
      BY <1>1, <2>1, <3>2, <3>3, <3>4 DEF TypeOK
    <3>7. \A j \in 1 .. i - 1 : customEvents'[w][j] = q[j + 1]
      BY <2>1, <3>2, <3>3
    <3> QED
      BY <3>5, <3>6, <3>7
  <2>3. CASE w # v
    <3>1. customEvents'[w] = q /\ i \in 1 .. Len(q)
      BY <1>1, <2>3 DEF TypeOK, q
    <3>2. /\ q[i] \in Conns /\ chan[q[i]] = "queued" /\ owner[q[i]] = w
          /\ \A j \in 1 .. i - 1 : q[j] # q[i]
      BY <2>1, <3>1, ElementOfSeq DEF QueueInv, q
    <3>3. q[i] # c
      BY <1>3, <2>3, <3>2
    <3>4. chan'[q[i]] = "queued"
      BY <1>1, <3>2, <3>3 DEF TypeOK
    <3> QED
      BY <1>1, <3>1, <3>2, <3>4
  <2> QED
    BY <2>2, <2>3
<1> QED
  BY <1>2, <1>3, <1>4 DEF QueueInv

LEMMA QueueOnClose ==
  ASSUME TypeOK, QueueInv, NEW c \in Conns, OnClose(c)
  PROVE  QueueInv'
<1>1. chan[c] = "open" /\ chan' = [chan EXCEPT ![c] = "closed"]
      /\ customEvents' = customEvents /\ owner' = owner
  BY DEF OnClose
<1> SUFFICES ASSUME NEW w \in Workers, NEW i \in 1 .. Len(customEvents[w])
             PROVE  /\ chan'[customEvents[w][i]] = "queued"
                    /\ owner[customEvents[w][i]] = w
                    /\ \A j \in 1 .. i - 1 : customEvents[w][j] # customEvents[w][i]
  BY <1>1 DEF QueueInv
<1>2. customEvents[w] \in Seq(Conns)
  BY DEF TypeOK
<1>3. customEvents[w][i] \in Conns
  BY <1>2, ElementOfSeq
<1>4. /\ chan[customEvents[w][i]] = "queued" /\ owner[customEvents[w][i]] = w
      /\ \A j \in 1 .. i - 1 : customEvents[w][j] # customEvents[w][i]
  BY DEF QueueInv
<1>5. chan'[customEvents[w][i]] = "queued"
  BY <1>1, <1>3, <1>4 DEF TypeOK
<1> QED
  BY <1>4, <1>5

(* The connections that are queued or open have a worker; the ones that are   *)
(* open have one that still runs, because a worker closes them before it ends.*)
LEMMA QueueNext ==
  ASSUME TypeOK, QueueInv, OwnerAlive, [Next]_vars
  PROVE  QueueInv' /\ OwnerAlive'
<1> USE DEF guiVars, threadVars, connVars, peerVars, lineVars
<1>1. ASSUME UNCHANGED connVars, UNCHANGED worker PROVE QueueInv' /\ OwnerAlive'
  BY <1>1 DEF QueueInv, OwnerAlive, Alive
<1>2. ASSUME UNCHANGED connVars,
             \A w \in Workers : Alive(w) => \/ Alive(w)'
                                            \/ \A c \in Conns : owner[c] = w => chan[c] # "open"
      PROVE  QueueInv' /\ OwnerAlive'
  <2>1. QueueInv'
    BY <1>2 DEF QueueInv
  <2>2. ASSUME NEW c \in Conns, chan[c] = "open" PROVE owner[c] \in Workers
    BY <2>2, WorkersFact DEF OwnerAlive, TypeOK
  <2> QED
    BY <1>2, <2>1, <2>2 DEF OwnerAlive
<1>3. CASE StartServer
  <2>1. \A w \in Workers : Alive(w)'
    BY <1>3 DEF StartServer, Alive
  <2> QED
    BY <1>2, <1>3, <2>1 DEF StartServer
<1>4. CASE StopWorker
  <2>1. \A w \in Workers : Alive(w) => Alive(w)'
    BY <1>4 DEF StopWorker, Alive, TypeOK
  <2> QED
    BY <1>2, <1>4, <2>1 DEF StopWorker
<1>5. ASSUME NEW v \in Workers, LeaveLoop(v) PROVE QueueInv' /\ OwnerAlive'
  <2>1. \A w \in Workers : Alive(w) => Alive(w)'
    BY <1>5 DEF LeaveLoop, Alive, TypeOK
  <2> QED
    BY <1>2, <1>5, <2>1 DEF LeaveLoop
<1>6. ASSUME NEW v \in Workers, WorkerExit(v) PROVE QueueInv' /\ OwnerAlive'
  <2>1. \A w \in Workers : w # v /\ Alive(w) => Alive(w)'
    BY <1>6 DEF WorkerExit, Alive, TypeOK
  <2>2. \A c \in Conns : owner[c] = v => chan[c] # "open"
    BY <1>6 DEF WorkerExit
  <2> QED
    BY <1>2, <1>6, <2>1, <2>2 DEF WorkerExit
<1>7. ASSUME NEW c \in Conns, OnAccept(c) PROVE QueueInv' /\ OwnerAlive'
  <2>1. nextLoop \in Workers
    BY nextLoopType DEF TypeOK
  <2>2. OwnerAlive'
    BY <1>7, <2>1, WorkersFact DEF OnAccept, OwnerAlive, Alive, TypeOK
  <2> QED
    BY <1>7, <2>2, QueueOnAccept
<1>8. ASSUME NEW w \in Workers, NewConnEvent(w) PROVE QueueInv' /\ OwnerAlive'
  <2> DEFINE c == Head(customEvents[w])
  <2>1. c \in Conns /\ chan[c] = "queued" /\ owner[c] = w /\ QueueInv'
    BY <1>8, QueueNewConnEvent
  <2>2. chan' = [chan EXCEPT ![c] = "open"] /\ UNCHANGED << owner, worker >> /\ Alive(w)
    BY <1>8 DEF NewConnEvent, Alive
  <2> HIDE DEF c
  <2> QED
    BY <2>1, <2>2 DEF OwnerAlive, Alive, TypeOK
<1>9. ASSUME NEW c \in Conns, OnClose(c) PROVE QueueInv' /\ OwnerAlive'
  <2>1. OwnerAlive'
    BY <1>9 DEF OnClose, OwnerAlive, Alive, TypeOK
  <2> QED
    BY <1>9, <2>1, QueueOnClose
<1> QED
  BY <1>1, <1>3, <1>4, <1>5, <1>6, <1>7, <1>8, <1>9
  DEF Next, vars, Gui, Worker, Conn, Peer, StartServerFails, OverWriteMsg, customEvent,
      StopAcceptor, AcceptorStopped, Destroy, AcceptorExit, NewConnEventNoLoop, OnRead,
      OnEof, OnTimeout, OnCleanup, PeerWrite, PeerClose

-----------------------------------------------------------------------------
(* The stream.  Of the cells of a message only the fourth holds a text.       *)
LEMMA SerrializeTexts ==
  ASSUME NEW type \in RequestType, NEW text \in Nat
  PROVE  LET s == Serrialize(type, text)
         IN  /\ s \in Seq(Cell) /\ Len(s) \in Nat
             /\ \A i \in 1 .. Len(s) : IF i = 4 THEN s[i].text \in {NoText, text}
                                               ELSE s[i].text = NoText
<1> DEFINE s == Serrialize(type, text)
<1>1. text \in Int
  OBVIOUS
<1>2. s \in Seq(Cell) /\ Len(s) \in Nat
  BY <1>1, SerrializeType, LenProperties
<1> DEFINE h == << TypeCell(type), Other("str") >>
           b == Body(type, text)
<1>3. /\ TypeCell(type).text = NoText /\ TextCell(text).text = text
      /\ \A k : Other(k).text = NoText
      /\ TypeCell(type) \in Cell /\ TextCell(text) \in Cell
      /\ \A k \in {"str", "int"} : Other(k) \in Cell
  BY DEF TypeCell, TextCell, Other, Cell, Text, NoText, RequestType
<1>4. h \in Seq(Cell) /\ Len(h) = 2 /\ h[1].text = NoText /\ h[2].text = NoText
  BY <1>3
<1>5. /\ b \in Seq(Cell) /\ Len(b) \in {0, 3}
      /\ Len(b) = 3 => /\ b[1].text = NoText /\ b[3].text = NoText
                       /\ b[2].text \in {NoText, text}
  <2>1. CASE type \in {"REQ_LOGIN", "REQ_REGIST"}
    <3>1. b = << Other("str"), Other("str"), Other("str") >>
      BY <2>1 DEF Body
    <3> QED
      BY <1>3, <3>1
  <2>2. CASE type = "REQ_CHAT"
    <3>1. b = << Other("str"), TextCell(text), Other("int") >>
      BY <2>2 DEF Body
    <3> QED
      BY <1>3, <3>1
  <2>3. CASE type \notin {"REQ_LOGIN", "REQ_REGIST", "REQ_CHAT"}
    <3>1. b = << >>
      BY <2>3 DEF Body
    <3> QED
      BY <3>1
  <2> QED
    BY <2>1, <2>2, <2>3
<1>6. s = h \o b
  BY DEF Serrialize
<1> HIDE DEF s, h, b
<1>7. /\ Len(s) = 2 + Len(b)
      /\ \A i \in 1 .. 2 + Len(b) : s[i] = IF i <= 2 THEN h[i] ELSE b[i - 2]
  <2>1. h \in Seq(Cell) /\ b \in Seq(Cell) /\ Len(h) = 2
    BY <1>4, <1>5
  <2>2. /\ Len(h \o b) = Len(h) + Len(b)
        /\ \A i \in 1 .. Len(h) + Len(b) :
              (h \o b)[i] = IF i <= Len(h) THEN h[i] ELSE b[i - Len(h)]
    BY <2>1, ConcatProperties, Zenon
  <2> QED
    BY <1>6, <2>1, <2>2
<1>8. ASSUME NEW i \in 1 .. Len(s)
      PROVE  IF i = 4 THEN s[i].text \in {NoText, text} ELSE s[i].text = NoText
  <2>1. i \in {1, 2} \/ (Len(b) = 3 /\ i \in {3, 4, 5})
    BY <1>5, <1>7
  <2>2. CASE i \in {1, 2}
    <3>1. s[i] = h[i] /\ h[i].text = NoText
      BY <1>4, <1>7, <2>2
    <3> QED
      BY <2>2, <3>1
  <2>3. CASE Len(b) = 3 /\ i \in {3, 4, 5}
    <3>1. s[i] = b[i - 2]
      BY <1>7, <2>3
    <3>2. IF i = 4 THEN b[i - 2].text \in {NoText, text} ELSE b[i - 2].text = NoText
      BY <1>5, <2>3
    <3> QED
      BY <3>1, <3>2
  <2> QED
    BY <2>1, <2>2, <2>3
<1> QED
  BY <1>2, <1>8 DEF s

(* What a read leaves is the end of what there was, or its cut first cell.    *)
LEMMA RemainderCells ==
  ASSUME NEW c \in Conns, net \in [Conns -> Seq(Cell)],
         NEW k \in 0 .. Len(net[c]), NEW cut \in BOOLEAN, Readable(c, k, cut)
  PROVE  LET r == Remainder(c, k, cut)
         IN  /\ Len(net[c]) \in Nat /\ Len(r) = Len(net[c]) - k
             /\ \A i \in 1 .. Len(r) : r[i] = net[c][k + i] \/ r[i] = Frag
<1> DEFINE s == net[c]
<1>1. s \in Seq(Cell) /\ Len(s) \in Nat /\ k \in Nat
  BY LenProperties
<1>2. \A i \in 1 .. Len(s) : s[i] \in Cell
  BY <1>1, ElementOfSeq
<1>3. CASE cut
  <2> DEFINE t == SubSeq(s, k + 2, Len(s))
  <2>1. k + 1 <= Len(s)
    BY <1>1, <1>3 DEF Readable
  <2>2. t \in Seq(Cell) /\ Len(t) = Len(s) - k - 1
        /\ \A i \in 1 .. Len(s) - k - 1 : t[i] = s[k + 1 + i]
    BY <1>1, <1>2, <2>1, SubSeqProperties
  <2>3. Frag \in Cell /\ << Frag >> \in Seq(Cell) /\ Len(<< Frag >>) = 1
    BY DEF Frag, Other, Cell, Text, NoText, RequestType
  <2>4. Remainder(c, k, cut) = << Frag >> \o t
    BY <1>3 DEF Remainder
  <2> HIDE DEF t
  <2>5. /\ Len(<< Frag >> \o t) = 1 + Len(t)
        /\ \A i \in 1 .. 1 + Len(t) :
              (<< Frag >> \o t)[i] = IF i <= 1 THEN << Frag >>[i] ELSE t[i - 1]
    BY <2>2, <2>3, ConcatProperties
  <2>6. << Frag >>[1] = Frag
    OBVIOUS
  <2> DEFINE r == << Frag >> \o t
  <2>7. Len(r) = Len(s) - k
    BY <1>1, <2>1, <2>2, <2>3, <2>5
  <2>8. ASSUME NEW i \in 1 .. Len(r) PROVE r[i] = s[k + i] \/ r[i] = Frag
    <3>1. CASE i = 1
      BY <1>1, <2>2, <2>5, <2>6, <3>1
    <3>2. CASE i # 1
      <4>1. i - 1 \in 1 .. Len(s) - k - 1 /\ i \in 1 .. 1 + Len(t)
        BY <1>1, <2>1, <2>2, <2>7, <3>2
      <4>2. r[i] = t[i - 1]
        BY <1>1, <2>5, <3>2, <4>1
      <4>3. t[i - 1] = s[k + 1 + (i - 1)] /\ k + 1 + (i - 1) = k + i
        BY <1>1, <2>2, <4>1
      <4> QED
        BY <4>2, <4>3
    <3> QED
      BY <3>1, <3>2
  <2> HIDE DEF r
  <2> QED
    BY <1>1, <2>4, <2>7, <2>8 DEF r
<1>4. CASE ~ cut
  <2>1. Remainder(c, k, cut) = SubSeq(s, k + 1, Len(s))
    BY <1>4 DEF Remainder
  <2>2. /\ Len(SubSeq(s, k + 1, Len(s))) = Len(s) - k
        /\ \A i \in 1 .. Len(s) - k : SubSeq(s, k + 1, Len(s))[i] = s[k + i]
    BY <1>1, <1>2, SubSeqProperties
  <2> QED
    BY <1>1, <2>1, <2>2
<1> QED
  BY <1>3, <1>4

(* A decoded text is none, garbled, or that of the fourth cell read.          *)
LEMMA DecodedText ==
  ASSUME NEW c \in Conns, net \in [Conns -> Seq(Cell)],
         NEW k \in 0 .. Len(net[c]), NEW cut \in BOOLEAN, Readable(c, k, cut),
         NEW msg \in DeSerrialize(Chunk(c, k, cut))
  PROVE  \/ msg.text \in {NoText, Garbled}
         \/ k >= 4 /\ msg.text = net[c][4].text
<1> DEFINE s == net[c]
           q == Chunk(c, k, cut)
<1>1. s \in Seq(Cell) /\ Len(s) \in Nat /\ k \in Nat
  BY LenProperties
<1>2. \A i \in 1 .. Len(s) : s[i] \in Cell
  BY <1>1, ElementOfSeq
<1>3. /\ SubSeq(s, 1, k) \in Seq(Cell) /\ Len(SubSeq(s, 1, k)) = k
      /\ \A i \in 1 .. k : SubSeq(s, 1, k)[i] = s[i]
  BY <1>1, <1>2, SubSeqProperties
<1>4. Len(q) >= 4 => q[4] = Frag \/ (k >= 4 /\ q[4] = s[4])
  <2>1. CASE cut
    <3>1. Frag \in Cell /\ << Frag >> \in Seq(Cell) /\ Len(<< Frag >>) = 1
      BY DEF Frag, Other, Cell, Text, NoText, RequestType
    <3>2. q = SubSeq(s, 1, k) \o << Frag >>
      BY <2>1 DEF Chunk
    <3>3. /\ Len(q) = k + 1
          /\ \A i \in 1 .. k + 1 : q[i] = IF i <= k THEN SubSeq(s, 1, k)[i]
                                                   ELSE << Frag >>[i - k]
      BY <1>1, <1>3, <3>1, <3>2, ConcatProperties
    <3>4. << Frag >>[1] = Frag
      OBVIOUS
    <3>5. ASSUME Len(q) >= 4 PROVE q[4] = Frag \/ (k >= 4 /\ q[4] = s[4])
      <4>1. CASE k = 3
        BY <3>3, <3>4, <4>1
      <4>2. CASE k >= 4
        BY <1>1, <1>3, <3>3, <4>2
      <4> QED
        BY <1>1, <3>3, <3>5, <4>1, <4>2
    <3> QED
      BY <3>5
  <2>2. CASE ~ cut
    <3>1. q = SubSeq(s, 1, k)
      BY <1>3, <2>2, ConcatEmptySeq DEF Chunk
    <3> QED
      BY <1>1, <1>3, <3>1
  <2> QED
    BY <2>1, <2>2
<1>5. Frag.text = NoText
  BY DEF Frag, Other
<1> HIDE DEF q
<1>6. \/ msg.text \in {NoText, Garbled}
      \/ Len(q) >= 4 /\ msg.text = q[4].text
  BY DEF DeSerrialize, q
<1> QED
  BY <1>4, <1>5, <1>6

-----------------------------------------------------------------------------
(* What the parts of LogInv need of a step.                                   *)
LineInv == Legal(Whole) /\ ReportInv /\ TextInv

(* A step that leaves the lines, the connections and the stream alone.        *)
LEMMA LineFrame ==
  ASSUME LineInv, Whole' = Whole, UNCHANGED << chan, net, written >>
  PROVE  LineInv'
<1>1. Legal(Whole')
  BY DEF LineInv
<1>2. ReportInv'
  BY DEF LineInv, ReportInv, Reported
<1>3. TextInv'
  BY DEF LineInv, TextInv
<1> QED
  BY <1>1, <1>2, <1>3 DEF LineInv

(* Lines that are dropped: nothing is claimed of a closed connection, and no  *)
(* connection is open when it happens.                                        *)
LEMMA LineDrop ==
  ASSUME TypeOK, LineInv, postedEvents' = << >>, chatEdit' = chatEdit,
         UNCHANGED << chan, net, written >>, \A c \in Conns : chan[c] # "open"
  PROVE  LineInv'
<1>1. Whole' = chatEdit
  BY WholeType, ConcatEmptySeq DEF Whole
<1> DEFINE n == Len(chatEdit)
<1>2. n \in Nat /\ Len(Whole) \in Nat /\ n <= Len(Whole)
      /\ \A i \in 1 .. n : Whole'[i] = Whole[i]
  <2>1. Len(postedEvents) \in Nat /\ n \in Nat /\ Len(Whole) = n + Len(postedEvents)
    BY WholeType
  <2>2. \A i \in 1 .. n : Whole[i] = chatEdit[i]
    BY WholeType
  <2> QED
    BY <1>1, <2>1, <2>2
<1>3. Len(Whole') = n
  BY <1>1
<1> HIDE DEF n
<1>4. Legal(Whole')
  <2> SUFFICES ASSUME NEW i \in 1 .. n PROVE LegalAt(Whole', i)
    BY <1>3 DEF Legal
  <2>1. LegalAt(Whole, i)
    BY <1>2 DEF LineInv, Legal
  <2>2. i \in Nat /\ Whole[i] = Whole'[i] /\ \A j \in 1 .. i - 1 : Whole[j] = Whole'[j]
    BY <1>2
  <2> QED
    BY <2>1, <2>2, LegalSame
<1>5. ReportInv'
  BY <1>2, <1>3 DEF LineInv, ReportInv
<1>6. TextInv'
  <2>1. \A i \in 1 .. Len(Whole') : i \in 1 .. Len(Whole) /\ Whole'[i] = Whole[i]
    BY <1>2, <1>3
  <2> HIDE DEF Whole
  <2>2. TextInv
    BY DEF LineInv
  <2> QED
    BY <2>1, <2>2 DEF TextInv
<1> QED
  BY <1>4, <1>5, <1>6 DEF LineInv

(* A line that is posted is the last one, and changes what is reported of its *)
(* own connection only.                                                       *)
LEMMA LinePost ==
  ASSUME TypeOK, NEW line \in Lines, PostMsg(line), chatEdit' = chatEdit
  PROVE  /\ \A i \in 1 .. Len(Whole') :
               \/ i \in 1 .. Len(Whole) /\ Whole'[i] = Whole[i]
               \/ Whole'[i] = line
         /\ \A c, kind : Reported(c, kind)' <=> \/ Reported(c, kind)
                                                \/ line.conn = c /\ line.kind = kind
<1>1. Whole \in Seq(Lines) /\ Len(Whole) \in Nat /\ Whole' = Append(Whole, line)
  BY WholeType, WholePost
<1>2. /\ Len(Whole') = Len(Whole) + 1
      /\ \A i \in 1 .. Len(Whole) : Whole'[i] = Whole[i]
      /\ Whole'[Len(Whole) + 1] = line
  BY <1>1, AppendProperties
<1>3. \A i \in 1 .. Len(Whole') : \/ i \in 1 .. Len(Whole) /\ Whole'[i] = Whole[i]
                                  \/ Whole'[i] = line
  BY <1>1, <1>2
<1>4. Len(Whole) + 1 \in 1 .. Len(Whole')
      /\ \A i \in 1 .. Len(Whole) : i \in 1 .. Len(Whole')
  BY <1>1, <1>2
<1>5. ASSUME NEW c, NEW kind
      PROVE  Reported(c, kind)' <=> \/ Reported(c, kind)
                                    \/ line.conn = c /\ line.kind = kind
  BY <1>2, <1>3, <1>4 DEF Reported
<1> QED
  BY <1>3, <1>5

(* A line without a text leaves the order of the texts alone.                 *)
LEMMA TextOfNoText ==
  ASSUME TypeOK, TextInv, NEW line \in Lines, line.text = NoText,
         PostMsg(line), chatEdit' = chatEdit, UNCHANGED << net, written >>
  PROVE  TextInv'
<1>1. \A i \in 1 .. Len(Whole') : \/ i \in 1 .. Len(Whole) /\ Whole'[i] = Whole[i]
                                  \/ Whole'[i] = line
  BY LinePost
<1>2. \A c \in Conns : Len(written[c]) \in Nat
  BY LenProperties DEF TypeOK
<1>3. line.text = 0
  BY DEF NoText
<1> SUFFICES ASSUME NEW c \in Conns
             PROVE  /\ Len(written[c]) <= MaxWrites
                    /\ \A i \in 1 .. Len(Whole') :
                         Whole'[i].conn = c => Whole'[i].text <= Len(written[c])
                    /\ \A j \in 1 .. Len(net[c]) :
                         /\ net[c][j].text \in 0 .. Len(written[c])
                         /\ net[c][j].text > 0 =>
                              /\ \A i \in 1 .. j - 1 : net[c][i].text < net[c][j].text
                              /\ \A i \in 1 .. Len(Whole') : Whole'[i].conn = c =>
                                   Whole'[i].text < net[c][j].text
  BY DEF TextInv
<1>4. ASSUME NEW i \in 1 .. Len(Whole'), Whole'[i].conn = c
      PROVE  Whole'[i].text <= Len(written[c])
  BY <1>1, <1>2, <1>3, <1>4 DEF TextInv
<1>5. ASSUME NEW j \in 1 .. Len(net[c]), net[c][j].text > 0,
             NEW i \in 1 .. Len(Whole'), Whole'[i].conn = c
      PROVE  Whole'[i].text < net[c][j].text
  BY <1>1, <1>3, <1>5 DEF TextInv
<1> QED
  BY <1>4, <1>5 DEF TextInv

(* newConnEvent and onclose post a line without a text about their own        *)
(* connection.                                                                *)
LEMMA LineNewConnEvent ==
  ASSUME TypeOK, LineInv, QueueInv, NEW w \in Workers, NewConnEvent(w)
  PROVE  LineInv'
<1>1. PICK c \in Conns : c = Head(customEvents[w]) /\ chan[c] = "queued"
  BY QueueNewConnEvent
<1> DEFINE line == Line("connected", c, NoText)
<1>2. /\ PostMsg(line) /\ chatEdit' = chatEdit
      /\ chan' = [chan EXCEPT ![c] = "open"] /\ UNCHANGED << net, written >>
  BY <1>1 DEF NewConnEvent, onConnection, peerVars
<1>3. /\ line \in Lines /\ line.conn = c /\ line.kind = "connected" /\ line.text = NoText
      /\ NoText = 0
  BY <1>1 DEF Line, Lines, Text, NoText
<1> HIDE DEF line
<1>4. \A i \in 1 .. Len(Whole) : Whole[i].conn # c
  BY <1>1 DEF LineInv, ReportInv
<1>5. NewLine(line)
  <2>1. line.text \in Garbled .. MaxWrites
    BY <1>3, ConstantsAssumption DEF Garbled, ConstantsAssumption
  <2> QED
    BY <1>3, <1>4, <2>1 DEF NewLine
<1>6. Legal(Whole')
  BY <1>2, <1>3, <1>5, WholePost, AppendLegal DEF LineInv
<1>7. ReportInv'
  <2>1. /\ \A i \in 1 .. Len(Whole') : \/ i \in 1 .. Len(Whole) /\ Whole'[i] = Whole[i]
                                       \/ Whole'[i] = line
        /\ \A d, kind : Reported(d, kind)' <=> \/ Reported(d, kind)
                                               \/ line.conn = d /\ line.kind = kind
    BY <1>2, <1>3, LinePost
  <2>2. Reported(c, "connected")' /\ ~ Reported(c, "disconnected")'
    <3>1. ~ Reported(c, "disconnected")
      BY <1>4 DEF Reported
    <3> QED
      BY <1>3, <2>1, <3>1
  <2>3. ASSUME NEW d \in Conns, d # c
        PROVE  /\ chan'[d] = chan[d]
               /\ \A kind : Reported(d, kind)' <=> Reported(d, kind)
    BY <1>2, <1>3, <2>1, <2>3 DEF TypeOK
  <2>4. ASSUME NEW d \in Conns, chan'[d] \in {"none", "queued"}, NEW i \in 1 .. Len(Whole')
        PROVE  Whole'[i].conn # d
    <3>1. d # c /\ chan[d] \in {"none", "queued"}
      BY <1>1, <1>2, <2>4 DEF TypeOK
    <3>2. \A j \in 1 .. Len(Whole) : Whole[j].conn # d
      BY <3>1 DEF LineInv, ReportInv
    <3>3. CASE i \in 1 .. Len(Whole) /\ Whole'[i] = Whole[i]
      BY <3>2, <3>3
    <3>4. CASE Whole'[i] = line
      BY <1>3, <3>1, <3>4
    <3> QED
      BY <2>1, <2>4, <3>3, <3>4
  <2>5. ASSUME NEW d \in Conns, chan'[d] = "open"
        PROVE  Reported(d, "connected")' /\ ~ Reported(d, "disconnected")'
    <3>1. CASE d # c
      BY <2>3, <2>5, <3>1 DEF LineInv, ReportInv
    <3> QED
      BY <2>2, <3>1
  <2> QED
    BY <2>4, <2>5 DEF ReportInv
<1>8. TextInv'
  BY <1>2, <1>3, TextOfNoText DEF LineInv
<1> QED
  BY <1>6, <1>7, <1>8 DEF LineInv

(* A line about an open connection that is no "connected".                    *)
LEMMA ReportOfOpen ==
  ASSUME TypeOK, ReportInv, NEW c \in Conns, chan[c] = "open",
         NEW line \in Lines, line.conn = c, PostMsg(line), chatEdit' = chatEdit,
         \/ chan' = chan /\ line.kind = "chat"
         \/ chan' = [chan EXCEPT ![c] = "closed"]
  PROVE  ReportInv'
<1>1. /\ \A i \in 1 .. Len(Whole') : \/ i \in 1 .. Len(Whole) /\ Whole'[i] = Whole[i]
                                     \/ Whole'[i] = line
      /\ \A d, kind : Reported(d, kind)' <=> \/ Reported(d, kind)
                                             \/ line.conn = d /\ line.kind = kind
  BY LinePost
<1>2. ASSUME NEW d \in Conns, d # c
      PROVE  chan'[d] = chan[d]
  BY <1>2 DEF TypeOK
<1>3. /\ chan'[c] \notin {"none", "queued"}
      /\ chan'[c] = "open" => line.kind = "chat"
  BY DEF TypeOK
<1>4. ASSUME NEW d \in Conns, chan'[d] \in {"none", "queued"}, NEW i \in 1 .. Len(Whole')
      PROVE  Whole'[i].conn # d
  <2>1. d # c /\ chan[d] \in {"none", "queued"}
    BY <1>2, <1>3, <1>4
  <2>2. \A j \in 1 .. Len(Whole) : Whole[j].conn # d
    BY <2>1 DEF ReportInv
  <2>3. CASE i \in 1 .. Len(Whole) /\ Whole'[i] = Whole[i]
    BY <2>2, <2>3
  <2>4. CASE Whole'[i] = line
    BY <2>1, <2>4
  <2> QED
    BY <1>1, <1>4, <2>3, <2>4
<1>5. ASSUME NEW d \in Conns, chan'[d] = "open"
      PROVE  Reported(d, "connected")' /\ ~ Reported(d, "disconnected")'
  <2>1. chan[d] = "open" /\ (d = c => line.kind = "chat")
    BY <1>2, <1>3, <1>5
  <2>2. Reported(d, "connected") /\ ~ Reported(d, "disconnected")
    BY <2>1 DEF ReportInv
  <2>3. ~ (line.conn = d /\ line.kind = "disconnected")
    BY <2>1
  <2> QED
    BY <1>1, <2>2, <2>3
<1> QED
  BY <1>4, <1>5 DEF ReportInv

LEMMA LineOnClose ==
  ASSUME TypeOK, LineInv, NEW c \in Conns, OnClose(c)
  PROVE  LineInv'
<1> DEFINE line == Line("disconnected", c, NoText)
<1>1. /\ chan[c] = "open" /\ PostMsg(line) /\ chatEdit' = chatEdit
      /\ chan' = [chan EXCEPT ![c] = "closed"] /\ UNCHANGED << net, written >>
  BY DEF OnClose, onConnection, peerVars
<1>2. /\ line \in Lines /\ line.conn = c /\ line.kind = "disconnected"
      /\ line.text = NoText /\ NoText = 0
  BY DEF Line, Lines, Text, NoText
<1> HIDE DEF line
<1>3. NewLine(line)
  <2>1. line.text \in Garbled .. MaxWrites
    BY <1>2, ConstantsAssumption DEF Garbled, ConstantsAssumption
  <2>2. Reported(c, "connected") /\ ~ Reported(c, "disconnected")
    BY <1>1 DEF LineInv, ReportInv
  <2> QED
    BY <1>2, <2>1, <2>2 DEF NewLine
<1>4. Legal(Whole')
  BY <1>1, <1>2, <1>3, WholePost, AppendLegal DEF LineInv
<1>5. ReportInv'
  BY <1>1, <1>2, ReportOfOpen DEF LineInv
<1>6. TextInv'
  BY <1>1, <1>2, TextOfNoText DEF LineInv
<1> QED
  BY <1>4, <1>5, <1>6 DEF LineInv

(* A read takes cells off the front of the stream; what it posts is the text  *)
(* of the fourth of them, or no text of the peer.                             *)
LEMMA LineOnRead ==
  ASSUME TypeOK, LineInv, NEW c \in Conns, NEW k \in 0 .. Len(net[c]), NEW cut \in BOOLEAN,
         OnRead(c, k, cut)
  PROVE  LineInv'
<1> DEFINE s == net[c]
           r == Remainder(c, k, cut)
<1>1. /\ chan[c] = "open" /\ Readable(c, k, cut) /\ chatEdit' = chatEdit
      /\ net' = [net EXCEPT ![c] = r] /\ UNCHANGED << chan, written >>
  BY DEF OnRead, Polled, connVars
<1>2. PICK msg \in DeSerrialize(Chunk(c, k, cut)) : onMsg(c, msg)
  BY DEF OnRead
<1>3. net \in [Conns -> Seq(Cell)] /\ s \in Seq(Cell) /\ Len(s) \in Nat /\ k \in Nat
  <2>1. net \in [Conns -> Seq(Cell)]
    BY DEF TypeOK
  <2>2. s \in Seq(Cell)
    BY <2>1
  <2>3. Len(s) \in Nat
    BY <2>2, LenProperties
  <2> QED
    BY <2>1, <2>2, <2>3
<1>4. /\ Len(r) = Len(s) - k
      /\ \A i \in 1 .. Len(r) : r[i] = s[k + i] \/ r[i] = Frag
  BY <1>1, <1>3, RemainderCells
<1>5. Frag.text = 0
  BY DEF Frag, Other, NoText
<1>6. \/ msg.text \in {NoText, Garbled}
      \/ k >= 4 /\ msg.text = s[4].text
  BY <1>1, <1>3, DecodedText
<1>7. /\ \A j \in 1 .. Len(s) :
           /\ s[j].text \in 0 .. Len(written[c])
           /\ s[j].text > 0 => /\ \A i \in 1 .. j - 1 : s[i].text < s[j].text
                               /\ \A i \in 1 .. Len(Whole) :
                                    Whole[i].conn = c => Whole[i].text < s[j].text
      /\ Len(written[c]) <= MaxWrites
      /\ \A i \in 1 .. Len(Whole) : Whole[i].conn = c => Whole[i].text <= Len(written[c])
  BY DEF LineInv, TextInv
<1>8. Len(written[c]) \in Nat /\ MaxWrites \in Nat
  BY ConstantsAssumption, LenProperties DEF TypeOK, ConstantsAssumption
<1> HIDE DEF s, r
<1>9. /\ msg.text \in Garbled .. Len(written[c])
      /\ msg.text > 0 => k >= 4 /\ msg.text = s[4].text
  <2>1. CASE msg.text \in {NoText, Garbled}
    BY <1>8, <2>1 DEF NoText, Garbled
  <2>2. CASE k >= 4 /\ msg.text = s[4].text
    <3>1. 4 \in 1 .. Len(s)
      BY <1>3, <2>2 DEF s
    <3>2. s[4].text \in 0 .. Len(written[c])
      BY <1>7, <3>1
    <3> QED
      BY <1>8, <2>2, <3>2 DEF Garbled
  <2> QED
    BY <1>6, <2>1, <2>2
<1>10. ASSUME NEW t \in Int,
              t > 0 => k >= 4 /\ t = s[4].text,
              t <= Len(written[c]),
              \A i \in 1 .. Len(Whole') : \/ i \in 1 .. Len(Whole) /\ Whole'[i] = Whole[i]
                                          \/ Whole'[i].conn = c /\ Whole'[i].text = t
       PROVE  TextInv'
  <2>1. ASSUME NEW d \in Conns, NEW i \in 1 .. Len(Whole'), Whole'[i].conn = d
        PROVE  Whole'[i].text <= Len(written[d])
    <3>1. CASE i \in 1 .. Len(Whole) /\ Whole'[i] = Whole[i]
      BY <2>1, <3>1 DEF LineInv, TextInv
    <3>2. CASE Whole'[i].conn = c /\ Whole'[i].text = t
      BY <1>10, <2>1, <3>2
    <3> QED
      BY <1>10, <3>1, <3>2
  <2>2. ASSUME NEW j \in 1 .. Len(r)
        PROVE  /\ r[j].text \in 0 .. Len(written[c])
               /\ r[j].text > 0 =>
                    /\ k + j \in 1 .. Len(s) /\ r[j].text = s[k + j].text
                    /\ \A i \in 1 .. j - 1 : r[i].text < r[j].text
                    /\ \A i \in 1 .. Len(Whole') :
                         Whole'[i].conn = c => Whole'[i].text < r[j].text
    <3>1. \A i \in 1 .. j : i \in 1 .. Len(r) /\ k + i \in 1 .. Len(s)
      BY <1>3, <1>4 DEF s
    <3>2. CASE r[j] = Frag
      BY <1>5, <1>8, <3>2
    <3>3. CASE r[j] = s[k + j]
      <4>1. k + j \in 1 .. Len(s) /\ j \in 1 .. j /\ j \in Nat
        BY <1>3, <3>1
      <4>2. r[j].text \in 0 .. Len(written[c])
        BY <1>7, <3>3, <4>1
      <4>3. ASSUME r[j].text > 0, NEW i \in 1 .. j - 1
            PROVE  r[i].text < r[j].text
        <5>1. i \in 1 .. Len(r) /\ k + i \in 1 .. k + j - 1
          BY <1>3, <1>4, <4>1 DEF s
        <5>2. CASE r[i] = Frag
          BY <1>5, <4>3, <5>2
        <5>3. CASE r[i] = s[k + i]
          <6>1. s[k + i].text < s[k + j].text
            BY <1>7, <3>3, <4>1, <4>3, <5>1
          <6> QED
            BY <3>3, <5>3, <6>1
        <5> QED
          BY <1>4, <5>1, <5>2, <5>3
      <4>4. ASSUME r[j].text > 0, NEW i \in 1 .. Len(Whole'), Whole'[i].conn = c
            PROVE  Whole'[i].text < r[j].text
        <5>1. CASE i \in 1 .. Len(Whole) /\ Whole'[i] = Whole[i]
          BY <1>7, <3>3, <4>1, <4>4, <5>1
        <5>2. CASE Whole'[i].text = t /\ t <= 0
          BY <1>8, <4>2, <4>4, <5>2
        <5>3. CASE Whole'[i].text = t /\ t > 0
          <6>1. k >= 4 /\ t = s[4].text /\ 4 \in 1 .. k + j - 1
            BY <1>3, <1>10, <4>1, <5>3
          <6>2. s[4].text < s[k + j].text
            BY <1>7, <3>3, <4>1, <4>4, <6>1
          <6> QED
            BY <3>3, <5>3, <6>1, <6>2
        <5>4. CASE Whole'[i].text = t
          <6>1. t <= 0 \/ t > 0
            BY <1>10
          <6> QED
            BY <5>2, <5>3, <5>4, <6>1
        <5> QED
          BY <1>10, <5>1, <5>4
      <4> QED
        BY <3>3, <4>1, <4>2, <4>3, <4>4
    <3> QED
      BY <1>4, <3>2, <3>3
  <2>3. net'[c] = r
    BY <1>1, <1>3
  <2>4. ASSUME NEW d \in Conns, d # c, NEW j \in 1 .. Len(net[d])
        PROVE  /\ net[d][j].text \in 0 .. Len(written[d])
               /\ net[d][j].text > 0 =>
                    /\ \A i \in 1 .. j - 1 : net[d][i].text < net[d][j].text
                    /\ \A i \in 1 .. Len(Whole') :
                         Whole'[i].conn = d => Whole'[i].text < net[d][j].text
    BY <1>10, <2>4 DEF LineInv, TextInv
  <2>5. \A d \in Conns : d # c => net'[d] = net[d]
    BY <1>1, <1>3
  <2>6. \A d \in Conns : Len(written[d]) <= MaxWrites
    BY DEF LineInv, TextInv
  <2>7. ASSUME NEW d \in Conns, NEW j \in 1 .. Len(net'[d])
        PROVE  /\ net'[d][j].text \in 0 .. Len(written[d])
               /\ net'[d][j].text > 0 =>
                    /\ \A i \in 1 .. j - 1 : net'[d][i].text < net'[d][j].text
                    /\ \A i \in 1 .. Len(Whole') :
                         Whole'[i].conn = d => Whole'[i].text < net'[d][j].text
    <3>1. CASE d = c
      BY <2>2, <2>3, <3>1
    <3>2. CASE d # c
      BY <2>4, <2>5, <3>2
    <3> QED
      BY <3>1, <3>2
  <2> QED
    BY <1>1, <2>1, <2>6, <2>7 DEF TextInv
<1>11. CASE msg.body /\ msg.type = "REQ_CHAT"
  <2> DEFINE line == Line("chat", c, msg.text)
  <2>1. PostMsg(line)
    BY <1>2, <1>11 DEF onMsg
  <2>2. msg.text \in Int /\ msg.text <= Len(written[c]) /\ msg.text \in Garbled .. MaxWrites
    BY <1>7, <1>8, <1>9 DEF Garbled
  <2>3. line \in Lines /\ line.conn = c /\ line.kind = "chat" /\ line.text = msg.text
    BY <2>2 DEF Line, Lines, Text
  <2> HIDE DEF line
  <2>4. NewLine(line)
    <3>1. Reported(c, "connected") /\ ~ Reported(c, "disconnected")
      BY <1>1 DEF LineInv, ReportInv
    <3>2. ASSUME line.text > 0, NEW j \in 1 .. Len(Whole), Whole[j].conn = line.conn
          PROVE  Whole[j].text < line.text
      <4>1. k >= 4 /\ line.text = s[4].text
        BY <1>9, <2>3, <3>2
      <4>2. 4 \in 1 .. Len(s)
        BY <1>3, <4>1 DEF s
      <4> QED
        BY <1>7, <2>3, <3>2, <4>1, <4>2
    <3> QED
      BY <2>2, <2>3, <3>1, <3>2 DEF NewLine
  <2>5. Legal(Whole')
    BY <1>1, <2>1, <2>3, <2>4, WholePost, AppendLegal DEF LineInv
  <2>6. ReportInv'
    BY <1>1, <2>1, <2>3, ReportOfOpen DEF LineInv
  <2>7. \A i \in 1 .. Len(Whole') : \/ i \in 1 .. Len(Whole) /\ Whole'[i] = Whole[i]
                                    \/ Whole'[i].conn = c /\ Whole'[i].text = msg.text
    BY <1>1, <2>1, <2>3, LinePost
  <2>8. TextInv'
    BY <1>9, <1>10, <2>2, <2>7
  <2> QED
    BY <2>5, <2>6, <2>8 DEF LineInv
<1>12. CASE ~ (msg.body /\ msg.type = "REQ_CHAT")
  <2>1. Whole' = Whole
    BY <1>1, <1>2, <1>12 DEF onMsg, Whole
  <2>2. Legal(Whole') /\ ReportInv'
    BY <1>1, <2>1 DEF LineInv, ReportInv, Reported
  <2>3. TextInv'
    BY <1>8, <1>10, <2>1
  <2> QED
    BY <2>2, <2>3 DEF LineInv
<1> QED
  BY <1>11, <1>12

(* A write puts the cells of one message behind the others, with the next     *)
(* text of the peer.                                                          *)
LEMMA LinePeerWrite ==
  ASSUME TypeOK, LineInv, NEW c \in Conns, NEW type \in Requests, PeerWrite(c, type)
  PROVE  LineInv'
<1> DEFINE s == net[c]
           n == Len(written[c])
           m == Serrialize(type, n + 1)
<1>1. /\ n < MaxWrites /\ UNCHANGED << chan, postedEvents, chatEdit >>
      /\ written' = [written EXCEPT ![c] = Append(@, type)]
      /\ net' = [net EXCEPT ![c] = s \o m]
  BY DEF PeerWrite, connVars, lineVars
<1>2. type \in RequestType /\ MaxWrites \in Nat
  BY ConstantsAssumption DEF ConstantsAssumption
<1>3. net \in [Conns -> Seq(Cell)] /\ written \in [Conns -> Seq(RequestType)]
  BY DEF TypeOK
<1>4. s \in Seq(Cell) /\ written[c] \in Seq(RequestType)
  BY <1>3
<1>5. Len(s) \in Nat /\ n \in Nat
  BY <1>4, LenProperties
<1>6. /\ m \in Seq(Cell) /\ Len(m) \in Nat
      /\ \A i \in 1 .. Len(m) : IF i = 4 THEN m[i].text \in {NoText, n + 1}
                                        ELSE m[i].text = NoText
  BY <1>2, <1>5, SerrializeTexts
<1>7. Whole' = Whole
  BY <1>1 DEF Whole
<1>8. Legal(Whole') /\ ReportInv'
  BY <1>1, <1>7 DEF LineInv, ReportInv, Reported
<1>9. /\ \A j \in 1 .. Len(s) :
           /\ s[j].text \in 0 .. n
           /\ s[j].text > 0 => /\ \A i \in 1 .. j - 1 : s[i].text < s[j].text
                               /\ \A i \in 1 .. Len(Whole) :
                                    Whole[i].conn = c => Whole[i].text < s[j].text
      /\ \A i \in 1 .. Len(Whole) : Whole[i].conn = c => Whole[i].text <= n
  BY DEF LineInv, TextInv
<1>10. Len(written'[c]) = n + 1
  BY <1>1, <1>2, <1>3, <1>4, AppendProperties
<1>11. \A d \in Conns : d # c => written'[d] = written[d] /\ net'[d] = net[d]
  BY <1>1, <1>3
<1> HIDE DEF s, n, m
<1> DEFINE q == s \o m
<1>12. net'[c] = q
  BY <1>1, <1>3
<1>13. /\ Len(q) = Len(s) + Len(m)
       /\ \A i \in 1 .. Len(s) + Len(m) :
             q[i] = IF i <= Len(s) THEN s[i] ELSE m[i - Len(s)]
  BY <1>4, <1>6, ConcatProperties, Zenon DEF s
<1> HIDE DEF q
<1>14. Len(s) \in Nat /\ n \in Nat
  BY <1>5 DEF s
<1>15. ASSUME NEW j \in 1 .. Len(q)
       PROVE  /\ q[j].text \in 0 .. n + 1
              /\ q[j].text > 0 =>
                   /\ \A i \in 1 .. j - 1 : q[i].text < q[j].text
                   /\ \A i \in 1 .. Len(Whole) : Whole[i].conn = c => Whole[i].text < q[j].text
  <2>1. CASE j <= Len(s)
    <3>1. j \in 1 .. Len(s) /\ q[j] = s[j] /\ \A i \in 1 .. j - 1 : q[i] = s[i]
      BY <1>6, <1>13, <1>14, <2>1
    <3>2. s[j].text \in 0 .. n
      BY <1>9, <3>1
    <3>3. ASSUME s[j].text > 0
          PROVE  /\ \A i \in 1 .. j - 1 : s[i].text < s[j].text
                 /\ \A i \in 1 .. Len(Whole) : Whole[i].conn = c => Whole[i].text < s[j].text
      BY <1>9, <3>1, <3>3
    <3>4. s[j].text \in 0 .. n + 1
      BY <1>14, <3>2
    <3> QED
      BY <3>1, <3>3, <3>4
  <2>2. CASE j > Len(s)
    <3>1. j - Len(s) \in 1 .. Len(m) /\ q[j] = m[j - Len(s)]
      BY <1>6, <1>13, <1>14, <2>2
    <3>2. CASE j - Len(s) # 4
      <4>1. m[j - Len(s)].text = NoText
        BY <1>6, <3>1, <3>2
      <4> QED
        BY <1>14, <3>1, <4>1 DEF NoText
    <3>3. CASE j - Len(s) = 4
      <4>1. q[j].text \in {0, n + 1}
        BY <1>6, <3>1, <3>3 DEF NoText
      <4>2. ASSUME NEW i \in 1 .. j - 1 PROVE q[i].text < n + 1
        <5>1. i \in 1 .. Len(s) + Len(m)
          BY <1>6, <1>14, <3>1
        <5>2. CASE i <= Len(s)
          <6>1. q[i] = s[i] /\ i \in 1 .. Len(s)
            BY <1>13, <5>1, <5>2
          <6> QED
            BY <1>9, <1>14, <6>1
        <5>3. CASE i > Len(s)
          <6>1. q[i] = m[i - Len(s)] /\ i - Len(s) \in 1 .. 3
            BY <1>13, <1>14, <3>3, <5>1, <5>3
          <6>2. m[i - Len(s)].text = NoText
            BY <1>6, <1>14, <3>1, <3>3, <6>1
          <6> QED
            BY <1>14, <6>1, <6>2 DEF NoText
        <5> QED
          BY <1>14, <5>2, <5>3
      <4>3. ASSUME NEW i \in 1 .. Len(Whole), Whole[i].conn = c PROVE Whole[i].text < n + 1
        BY <1>9, <1>14, <4>3, LineText
      <4> QED
        BY <1>14, <4>1, <4>2, <4>3
    <3> QED
      BY <3>2, <3>3
  <2> QED
    BY <1>14, <2>1, <2>2
<1>16. ASSUME NEW i \in 1 .. Len(Whole), Whole[i].conn = c PROVE Whole[i].text <= n + 1
  BY <1>9, <1>14, <1>16, LineText
<1>17. n + 1 <= MaxWrites
  BY <1>1, <1>2, <1>14
<1>18. ASSUME NEW d \in Conns
       PROVE  /\ Len(written'[d]) <= MaxWrites
              /\ \A i \in 1 .. Len(Whole) : Whole[i].conn = d => Whole[i].text <= Len(written'[d])
              /\ \A j \in 1 .. Len(net'[d]) :
                   /\ net'[d][j].text \in 0 .. Len(written'[d])
                   /\ net'[d][j].text > 0 =>
                        /\ \A i \in 1 .. j - 1 : net'[d][i].text < net'[d][j].text
                        /\ \A i \in 1 .. Len(Whole) :
                             Whole[i].conn = d => Whole[i].text < net'[d][j].text
  <2>1. CASE d = c
    BY <1>10, <1>12, <1>15, <1>16, <1>17, <2>1
  <2>2. CASE d # c
    BY <1>11, <2>2 DEF LineInv, TextInv
  <2> QED
    BY <2>1, <2>2
<1>19. TextInv'
  BY <1>7, <1>18 DEF TextInv
<1> QED
  BY <1>8, <1>19 DEF LineInv

-----------------------------------------------------------------------------
(* LogInv is an inductive invariant, relative to TypeOK and ShutdownOrder.    *)
LEMMA LogInit == Init => LogInv
<1> SUFFICES ASSUME Init PROVE LogInv
  OBVIOUS
<1>1. Whole = << >> /\ Len(Whole) = 0 /\ chatEdit = << >>
  <2>1. chatEdit = << >> /\ postedEvents = << >>
    BY DEF Init
  <2>2. << >> \in Seq(Lines)
    OBVIOUS
  <2>3. Whole = << >>
    BY <2>1, <2>2, ConcatEmptySeq DEF Whole
  <2> QED
    BY <2>1, <2>3
<1>2. \A w \in Workers : Len(customEvents[w]) = 0
  BY DEF Init
<1>3. \A c \in Conns : chan[c] = "none" /\ owner[c] = NoOne /\ Len(written[c]) = 0
                       /\ Len(net[c]) = 0
  BY DEF Init
<1>4. QueueInv /\ OwnerAlive
  BY <1>2, <1>3 DEF QueueInv, OwnerAlive
<1>5. Legal(Whole) /\ ReportInv
  BY <1>1, <1>3 DEF Legal, ReportInv
<1>6. TextInv
  BY <1>1, <1>3, ConstantsAssumption DEF TextInv, ConstantsAssumption
<1> QED
  BY <1>1, <1>4, <1>5, <1>6 DEF LogInv

LEMMA LineNext ==
  ASSUME TypeOK, ShutdownOrder, LogInv, [Next]_vars
  PROVE  LineInv'
<1> USE DEF guiVars, threadVars, connVars, peerVars, lineVars
<1>0. LineInv /\ QueueInv /\ OwnerAlive
  BY DEF LogInv, LineInv
<1>1. ASSUME UNCHANGED << lineVars, chan, net, written >> PROVE LineInv'
  <2>1. Whole' = Whole
    BY <1>1 DEF Whole
  <2> QED
    BY <1>0, <1>1, <2>1, LineFrame
<1>2. CASE OverWriteMsg
  <2>1. chatEdit' = chatEdit
    BY <1>2 DEF OverWriteMsg, LogInv
  <2> QED
    BY <1>1, <1>2, <2>1 DEF OverWriteMsg
<1>3. CASE customEvent
  <2>1. Whole' = Whole /\ UNCHANGED << chan, net, written >>
    BY <1>3, WholeShow DEF customEvent
  <2> QED
    BY <1>0, <2>1, LineFrame
<1>4. CASE StopAcceptor
  <2>1. CASE acceptor = "idle"
    <3>1. \A w \in Workers : ~ Alive(w)
      BY <1>4, <2>1 DEF StopAcceptor, ShutdownOrder, All, Alive
    <3>2. \A c \in Conns : chan[c] # "open"
      BY <1>0, <3>1, WorkersFact DEF OwnerAlive, TypeOK
    <3>3. postedEvents' = << >> /\ chatEdit' = chatEdit /\ UNCHANGED << chan, net, written >>
      BY <1>4, <2>1 DEF StopAcceptor
    <3> QED
      BY <1>0, <3>2, <3>3, LineDrop
  <2>2. CASE acceptor # "idle"
    BY <1>1, <1>4, <2>2 DEF StopAcceptor
  <2> QED
    BY <2>1, <2>2
<1>5. CASE Destroy
  <2>1. \A w \in Workers : ~ Alive(w)
    BY <1>5 DEF Destroy, WorkersGone, Alive
  <2>2. \A c \in Conns : chan[c] # "open"
    BY <1>0, <2>1, WorkersFact DEF OwnerAlive, TypeOK
  <2>3. postedEvents' = << >> /\ chatEdit' = chatEdit /\ UNCHANGED << chan, net, written >>
    BY <1>5 DEF Destroy
  <2> QED
    BY <1>0, <2>2, <2>3, LineDrop
<1>6. ASSUME NEW c \in Conns, OnAccept(c) PROVE LineInv'
  <2>1. UNCHANGED << lineVars, net, written >> /\ chan[c] = "none"
        /\ chan' = [chan EXCEPT ![c] = "queued"]
    BY <1>6 DEF OnAccept
  <2>2. Whole' = Whole
    BY <2>1 DEF Whole
  <2>3. Legal(Whole') /\ TextInv'
    BY <1>0, <2>1, <2>2 DEF LineInv, TextInv
  <2>4. \A d \in Conns : /\ chan'[d] \in {"none", "queued"} => chan[d] \in {"none", "queued"}
                         /\ chan'[d] = "open" => chan[d] = "open"
    BY <2>1 DEF TypeOK
  <2>5. ReportInv'
    BY <1>0, <2>2, <2>4 DEF LineInv, ReportInv, Reported
  <2> QED
    BY <2>3, <2>5 DEF LineInv
<1>7. ASSUME NEW w \in Workers, NewConnEvent(w) PROVE LineInv'
  BY <1>0, <1>7, LineNewConnEvent
<1>8. ASSUME NEW c \in Conns, OnClose(c) PROVE LineInv'
  BY <1>0, <1>8, LineOnClose
<1>9. ASSUME NEW c \in Conns, Conn(c) PROVE LineInv'
  <2>1. ASSUME NEW k \in 0 .. Len(net[c]), NEW cut \in BOOLEAN, OnRead(c, k, cut)
        PROVE  LineInv'
    BY <1>0, <2>1, LineOnRead
  <2> QED
    BY <1>8, <1>9, <2>1 DEF Conn, OnEof, OnTimeout, OnCleanup
<1>10. ASSUME NEW c \in Conns, NEW type \in Requests, PeerWrite(c, type) PROVE LineInv'
  BY <1>0, <1>10, LinePeerWrite
<1>11. CASE \/ StartServerFails \/ StartServer \/ AcceptorStopped \/ StopWorker \/ AcceptorExit
            \/ \E w \in Workers : LeaveLoop(w) \/ WorkerExit(w) \/ NewConnEventNoLoop(w)
            \/ \E c \in Conns : PeerClose(c)
            \/ UNCHANGED vars
  BY <1>1, <1>11 DEF StartServerFails, StartServer, AcceptorStopped, StopWorker, AcceptorExit,
     LeaveLoop, WorkerExit, NewConnEventNoLoop, PeerClose, vars
<1> QED
  BY <1>2, <1>3, <1>4, <1>5, <1>6, <1>7, <1>9, <1>10, <1>11 DEF Next, Gui, Worker, Peer

LEMMA LogNext ==
  ASSUME TypeOK, ShutdownOrder, LogInv, [Next]_vars
  PROVE  LogInv'
<1>1. QueueInv' /\ OwnerAlive'
  BY QueueNext DEF LogInv
<1>2. LineInv'
  BY LineNext
<1>3. (gui \in {"ctor", "started"} => chatEdit = << >>)'
  BY DEF LogInv, Next, Gui, StartServerFails, StartServer, OverWriteMsg, customEvent,
     StopAcceptor, AcceptorStopped, StopWorker, Destroy, AcceptorExit, Worker, NewConnEvent,
     NewConnEventNoLoop, LeaveLoop, WorkerExit, OnAccept, Conn, OnRead, OnEof, OnTimeout,
     OnCleanup, OnClose, Peer, PeerWrite, PeerClose, vars, guiVars, lineVars
<1> QED
  BY <1>1, <1>2, <1>3 DEF LogInv, LineInv

(* The lines shown and posted are a legal log at any time, the queues hold    *)
(* each waiting connection once, and every text still unread is newer than    *)
(* those in the log.                                                          *)
THEOREM LogInvCorrect == Spec => []LogInv
<1>1. Init => LogInv
  BY LogInit
<1>2. TypeOK /\ ShutdownOrder /\ LogInv /\ [Next]_vars => LogInv'
  BY LogNext
<1> QED
  BY <1>1, <1>2, TypeCorrect, StartStopOrder, PTL DEF Spec

-----------------------------------------------------------------------------
(* Showing a line is a step of the log.                                       *)
LEMMA ShowStep ==
  ASSUME TypeOK, LogInv, customEvent
  PROVE  Log!Next
<1> DEFINE n == Len(chatEdit)
           line == Head(postedEvents)
<1>1. /\ chatEdit \in Seq(Lines) /\ postedEvents \in Seq(Lines) /\ postedEvents # << >>
      /\ chatEdit' = Append(chatEdit, line)
  BY WholeType DEF customEvent
<1>2. line \in Lines /\ line = postedEvents[1] /\ Len(postedEvents) >= 1
  BY <1>1, HeadTailProperties, LenProperties
<1>3. n \in Nat /\ Len(postedEvents) \in Nat
      /\ Len(Whole) = n + Len(postedEvents)
      /\ \A i \in 1 .. n : Whole[i] = chatEdit[i]
  BY WholeType
<1>4. Whole[n + 1] = line
  <2>1. \A i \in 1 .. n + Len(postedEvents) :
           (chatEdit \o postedEvents)[i] = IF i <= n THEN chatEdit[i] ELSE postedEvents[i - n]
    BY <1>1, ConcatProperties, Zenon
  <2>2. n + 1 \in 1 .. n + Len(postedEvents) /\ ~ (n + 1 <= n) /\ (n + 1) - n = 1
    BY <1>2, <1>3
  <2>3. (chatEdit \o postedEvents)[n + 1] = postedEvents[(n + 1) - n]
    BY <2>1, <2>2
  <2> QED
    BY <1>2, <2>2, <2>3 DEF Whole
<1> HIDE DEF n, line
<1>5. LegalAt(Whole, n + 1)
  <2>1. n + 1 \in 1 .. Len(Whole)
    BY <1>2, <1>3
  <2> QED
    BY <2>1 DEF LogInv, Legal
<1>6. (n + 1) - 1 = n
  BY <1>3
<1>7. PICK c \in Conns : c = line.conn
  BY <1>2 DEF Lines
<1>8. /\ line.text \in Garbled .. MaxWrites
      /\ line.kind # "chat" => line.text = NoText
      /\ line.kind = "connected" => \A j \in 1 .. n : chatEdit[j].conn # c
      /\ line.kind # "connected" =>
           /\ \E j \in 1 .. n : chatEdit[j].conn = c /\ chatEdit[j].kind = "connected"
           /\ ~ \E j \in 1 .. n : chatEdit[j].conn = c /\ chatEdit[j].kind = "disconnected"
      /\ line.text > 0 =>
           \A j \in 1 .. n : chatEdit[j].conn = c => chatEdit[j].text < line.text
  BY <1>3, <1>4, <1>5, <1>6, <1>7 DEF LegalAt
<1>9. /\ line = [kind |-> line.kind, conn |-> c, text |-> line.text]
      /\ line.kind \in {"connected", "chat", "disconnected"}
  BY <1>2, <1>7 DEF Lines
<1>10. CASE line.kind = "connected"
  <2>1. line = [kind |-> "connected", conn |-> c, text |-> 0]
    BY <1>8, <1>9, <1>10 DEF NoText
  <2>2. Log!Connect(c)
    BY <1>1, <1>8, <1>10, <2>1 DEF Log!Connect, n
  <2> QED
    BY <2>2 DEF Log!Next
<1>11. CASE line.kind = "chat"
  <2>1. Log!Has(c, "connected") /\ ~ Log!Has(c, "disconnected")
    BY <1>8, <1>11 DEF Log!Has, n
  <2>2. Log!Say(c, line.text)
    BY <1>1, <1>8, <1>9, <1>11, <2>1 DEF Log!Say, n
  <2> QED
    BY <1>8, <2>2 DEF Log!Next
<1>12. CASE line.kind = "disconnected"
  <2>1. Log!Has(c, "connected") /\ ~ Log!Has(c, "disconnected")
    BY <1>8, <1>12 DEF Log!Has, n
  <2>2. line = [kind |-> "disconnected", conn |-> c, text |-> 0]
    BY <1>8, <1>9, <1>12 DEF NoText
  <2>3. Log!Disconnect(c)
    BY <1>1, <2>1, <2>2 DEF Log!Disconnect
  <2> QED
    BY <2>3 DEF Log!Next
<1> QED
  BY <1>9, <1>10, <1>11, <1>12

(* The server implements ChatLog: whatever the threads interleave and however *)
(* the stream is cut, what the window shows is a chat log.                    *)
THEOREM LogCorrect == Spec => LogSpec
<1>1. Init => Log!Init
  BY DEF Init, Log!Init
<1>2. ASSUME TypeOK, LogInv, [Next]_vars PROVE [Log!Next]_chatEdit
  <2>1. CASE customEvent
    BY <1>2, <2>1, ShowStep
  <2>2. CASE OverWriteMsg
    BY <1>2, <2>2 DEF OverWriteMsg, LogInv
  <2>3. CASE chatEdit' = chatEdit
    BY <2>3
  <2> QED
    BY <1>2, <2>1, <2>2, <2>3
    DEF Next, Gui, StartServerFails, StartServer, StopAcceptor, AcceptorStopped, StopWorker,
        Destroy, AcceptorExit, Worker, NewConnEvent, NewConnEventNoLoop, LeaveLoop, WorkerExit,
        OnAccept, Conn, OnRead, OnEof, OnTimeout, OnCleanup, OnClose, Peer, PeerWrite,
        PeerClose, vars, lineVars
<1>3. TypeOK /\ LogInv /\ [Next]_vars => [Log!Next]_chatEdit
  BY <1>2
<1> QED
  BY <1>1, <1>3, TypeCorrect, LogInvCorrect, PTL DEF Spec, LogSpec, Log!Spec
=============================================================================
