----------------------------- MODULE ChatServer -----------------------------
(* The server: the window (XChatyServer/mainwindow.cpp), whose handlers run   *)
(* on the worker threads of hv::TcpServer (TcpServer.h, EventLoopThreadPool.h,*)
(* EventLoop.h), and the Qt event queue that carries their lines to the GUI   *)
(* thread (ChatWindowUtilty.cpp, customevent.h).                              *)
(*                                                                            *)
(* Threads: the GUI thread (constructor, event loop, destructor), the acceptor*)
(* and NumWorkers workers.  Peers and the network are the environment.        *)
EXTENDS Protoc, FiniteSets

CONSTANTS
  Conns,       \* the connections of a run, each the id of its channel
  NumWorkers,  \* worker threads: setThreadNum(4) in mainwindow.cpp
  Requests,    \* the request types peers write
  MaxWrites,   \* bound: writes of one peer
  Framed       \* TRUE: each read returns exactly one message

ASSUME ConstantsAssumption ==
  /\ NumWorkers \in Nat \ {0}
  /\ Requests \subseteq RequestType
  /\ MaxWrites \in Nat
  /\ Framed \in BOOLEAN

Workers == 0 .. NumWorkers - 1
NoOne   == -1

VARIABLES
  gui,           \* where the GUI thread is
  title,         \* what StartServer reported in the chat window
  stopping,      \* index of the next worker that stop() will tell to stop
  acceptor,      \* the acceptor thread
  worker,        \* the worker threads
  customEvents,  \* connections queued on each worker (EventLoop::customEvents)
  nextLoopIdx,   \* EventLoopThreadPool::next_loop_idx_
  connectionNum, \* EventLoop::connectionNum of each worker
  chan,          \* the life of each connection on the server side
  owner,         \* the worker a connection was given to
  peer,          \* "up", or "eof" once the peer has closed
  written,       \* the types of the messages the peer wrote, in order
  net,           \* cells written and not read yet
  mixed,         \* history: texts taken by reads that were not one whole message
  postedEvents,  \* lines posted to the window, not handled yet
  chatEdit,      \* lines shown in the window
  crashed        \* newConnEvent used a loop that is no longer there

guiVars    == << gui, title, stopping >>
threadVars == << acceptor, worker >>
connVars   == << customEvents, nextLoopIdx, connectionNum, chan, owner >>
peerVars   == << peer, written, net, mixed >>
lineVars   == << postedEvents, chatEdit >>
vars == << guiVars, threadVars, connVars, peerVars, lineVars, crashed >>

Line(kind, c, text) == [kind |-> kind, conn |-> c, text |-> text]
Lines == [kind : {"connected", "chat", "disconnected"}, conn : Conns, text : Text]

(* EventLoop::run has entered hloop_run and the loop has not been left.  A    *)
(* worker is "stopping" once EventLoop::stop has set loop_ to NULL and may    *)
(* still be inside one iteration, "draining" while hloop_run closes the       *)
(* connections that are left.                                                 *)
Alive(w) == worker[w] \in {"running", "stopping", "draining"}

Init ==
  /\ gui = "ctor" /\ title = "" /\ stopping = 0
  /\ acceptor = "idle" /\ worker = [w \in Workers |-> "idle"]
  /\ customEvents = [w \in Workers |-> << >>]
  /\ nextLoopIdx = 0
  /\ connectionNum = [w \in Workers |-> 0]
  /\ chan = [c \in Conns |-> "none"]
  /\ owner = [c \in Conns |-> NoOne]
  /\ peer = [c \in Conns |-> "up"]
  /\ written = [c \in Conns |-> << >>]
  /\ net = [c \in Conns |-> << >>]
  /\ mixed = [c \in Conns |-> {}]
  /\ postedEvents = << >> /\ chatEdit = << >>
  /\ crashed = FALSE

-----------------------------------------------------------------------------
(* GUI thread: the constructor.                                               *)

(* AppendMsg on an empty window: the port is empty or createsocket failed.    *)
StartServerFails ==
  /\ gui = "ctor"
  /\ title' \in {"Port is empty!", "Create socket failed!"}
  /\ gui' = "loop"
  /\ UNCHANGED << stopping, threadVars, connVars, peerVars, lineVars >>

(* setThreadNum and start(true): the workers run before the acceptor does.    *)
StartServer ==
  /\ gui = "ctor"
  /\ gui' = "started"
  /\ worker' = [w \in Workers |-> "running"]
  /\ acceptor' = "running"
  /\ UNCHANGED << title, stopping, connVars, peerVars, lineVars >>

(* The end of the constructor: OverWriteMsg clears the window.                *)
OverWriteMsg ==
  /\ gui = "started"
  /\ gui' = "loop"
  /\ title' = "Listening"
  /\ chatEdit' = << >>
  /\ UNCHANGED << stopping, threadVars, connVars, peerVars, postedEvents >>

(* GUI thread: the event loop.  customEvent appends the oldest posted line.   *)
customEvent_Coalesce ==
  /\ gui = "loop"
  /\ postedEvents # << >>
  /\ chatEdit' = Append(chatEdit, Head(postedEvents))
  /\ postedEvents' = << >>
  /\ UNCHANGED << guiVars, threadVars, connVars, peerVars >>

customEvent ==
  /\ gui = "loop"
  /\ postedEvents # << >>
  /\ chatEdit' = Append(chatEdit, Head(postedEvents))
  /\ postedEvents' = Tail(postedEvents)
  /\ UNCHANGED << guiVars, threadVars, connVars, peerVars >>

-----------------------------------------------------------------------------
(* GUI thread: the destructor, which is TcpServerTmpl::stop(true).            *)

(* EventLoopThread::stop of the acceptor; a server that never started has     *)
(* nothing to stop.                                                           *)
StopAcceptor_WorkersToo ==
  /\ gui = "loop"
  /\ gui' = IF acceptor = "idle" THEN "destroyed" ELSE "stopAcceptor"
  /\ acceptor' = IF acceptor = "idle" THEN "idle" ELSE "stopping"
  /\ worker' = IF acceptor = "idle" THEN worker ELSE [w \in Workers |-> "stopping"]
  /\ postedEvents' = IF acceptor = "idle" THEN << >> ELSE postedEvents
  /\ UNCHANGED << title, stopping, connVars, peerVars, chatEdit >>

StopAcceptor ==
  /\ gui = "loop"
  /\ gui' = IF acceptor = "idle" THEN "destroyed" ELSE "stopAcceptor"
  /\ acceptor' = IF acceptor = "idle" THEN "idle" ELSE "stopping"
  /\ postedEvents' = IF acceptor = "idle" THEN << >> ELSE postedEvents
  /\ UNCHANGED << title, stopping, worker, connVars, peerVars, chatEdit >>

(* while (!isStopped()) of the acceptor thread.                               *)
AcceptorGone_NoWait == TRUE
AcceptorGone == acceptor = "stopped"

(* The wait for the acceptor is over; EventLoopThreadPool::stop begins.       *)
AcceptorStopped ==
  /\ gui = "stopAcceptor"
  /\ AcceptorGone
  /\ gui' = "stopWorkers"
  /\ UNCHANGED << title, stopping, threadVars, connVars, peerVars, lineVars >>

(* EventLoop::stop of the next worker: hloop_stop, then loop_ = NULL.         *)
StopWorker_SkipBusy ==
  /\ gui = "stopWorkers"
  /\ stopping \in Workers
  /\ worker' = IF customEvents[stopping] = << >>
                 THEN [worker EXCEPT ![stopping] = "stopping"] ELSE worker
  /\ stopping' = stopping + 1
  /\ UNCHANGED << gui, title, acceptor, connVars, peerVars, lineVars >>

StopWorker ==
  /\ gui = "stopWorkers"
  /\ stopping \in Workers
  /\ worker' = [worker EXCEPT ![stopping] = "stopping"]
  /\ stopping' = stopping + 1
  /\ UNCHANGED << gui, title, acceptor, connVars, peerVars, lineVars >>

(* The same wait of the thread pool.                                          *)
WorkersGone_NoWait == TRUE
WorkersGone == \A w \in Workers : worker[w] = "stopped"

(* stop(true) returned: every worker left its loop.  ~QObject of the window   *)
(* drops the lines still posted to it.                                        *)
Destroy ==
  /\ gui = "stopWorkers"
  /\ stopping = NumWorkers
  /\ WorkersGone
  /\ gui' = "destroyed"
  /\ postedEvents' = << >>
  /\ UNCHANGED << title, stopping, threadVars, connVars, peerVars, chatEdit >>

-----------------------------------------------------------------------------
(* The acceptor thread.                                                       *)

(* EventLoopThreadPool::nextLoop, round robin.                                *)
nextLoop_NoIncrement == nextLoopIdx
nextLoop_NoReset == nextLoopIdx + 1
nextLoop == IF nextLoopIdx + 1 >= NumWorkers THEN 0 ELSE nextLoopIdx + 1

(* onAccept: pick a worker, count the connection there, queue newConnEvent.   *)
OnAccept(c) ==
  /\ acceptor \in {"running", "stopping"}
  /\ chan[c] = "none"
  /\ nextLoopIdx' = nextLoop
  /\ connectionNum' = [connectionNum EXCEPT ![nextLoop] = @ + 1]
  /\ customEvents' = [customEvents EXCEPT ![nextLoop] = Append(@, c)]
  /\ owner' = [owner EXCEPT ![c] = nextLoop]
  /\ chan' = [chan EXCEPT ![c] = "queued"]
  /\ UNCHANGED << guiVars, threadVars, peerVars, lineVars >>

AcceptorExit ==
  /\ acceptor = "stopping"
  /\ acceptor' = "stopped"
  /\ UNCHANGED << guiVars, worker, connVars, peerVars, lineVars >>

-----------------------------------------------------------------------------
(* A worker thread.                                                           *)

(* PostMsg: any thread appends to the event queue of the window.              *)
PostMsg_HighPriority(line) == postedEvents' = << line >> \o postedEvents
PostMsg(line) == postedEvents' = Append(postedEvents, line)

(* The window's handler onConnection, told the new status of the channel.     *)
onConnection_OnlyConnected(c, status) ==
  IF status = "open" THEN PostMsg(Line("connected", c, NoText))
                     ELSE UNCHANGED postedEvents
onConnection(c, status) ==
  PostMsg(Line(IF status = "open" THEN "connected" ELSE "disconnected", c, NoText))

(* EventLoop::onCustomEvent takes the oldest event off the queue.             *)
Dequeue_NoPop(w) == customEvents' = customEvents
Dequeue(w) == customEvents' = [customEvents EXCEPT ![w] = Tail(@)]

(* newConnEvent: hio_attach to worker_loop->loop(), addChannel, then the handler  *)
(* onConnection posts "connected".                                            *)
NewConnEvent(w) ==
  /\ worker[w] = "running"
  /\ customEvents[w] # << >>
  /\ LET c == Head(customEvents[w])
     IN  /\ chan' = [chan EXCEPT ![c] = "open"]
         /\ onConnection(c, "open")
  /\ Dequeue(w)
  /\ UNCHANGED << guiVars, threadVars, nextLoopIdx, connectionNum, owner,
                  peerVars, chatEdit >>

(* The same handler after loop_ was set to NULL, in the iteration that was    *)
(* under way: hio_attach(NULL, connio).                                       *)
NewConnEventNoLoop(w) ==
  /\ worker[w] = "stopping"
  /\ customEvents[w] # << >>
  /\ crashed' = TRUE
  /\ UNCHANGED << guiVars, threadVars, connVars, peerVars, lineVars >>

(* Channel c is open and its worker still polls it.                           *)
Polled(c) == chan[c] = "open" /\ worker[owner[c]] \in {"running", "stopping"}

(* The first k cells are one whole message.  Nothing sees to it: the server   *)
(* sets no unpack_setting, so a read may return any part of what has arrived. *)
OneMessage(c, k, cut) ==
  /\ ~ cut /\ net[c][1].kind = "type"
  /\ \A i \in 2..k : net[c][i].kind # "type"
  /\ k < Len(net[c]) => net[c][k + 1].kind = "type"

(* A read returns a non-empty part of what has arrived: k whole cells, and,   *)
(* if cut, the first bytes of the next one.  A cell is cut at most once       *)
(* (bound) and a type, being one byte, never.                                 *)
Readable(c, k, cut) ==
  /\ k + (IF cut THEN 1 ELSE 0) \in 1 .. Len(net[c])
  /\ cut => net[c][k + 1].kind \notin {"type", "frag"}
  /\ Framed => OneMessage(c, k, cut)

Chunk(c, k, cut) ==
  SubSeq(net[c], 1, k) \o (IF cut THEN << Frag >> ELSE << >>)

Remainder_Dropped(c, k, cut) == << >>
Remainder(c, k, cut) ==
  IF cut THEN << Frag >> \o SubSeq(net[c], k + 2, Len(net[c]))
         ELSE SubSeq(net[c], k + 1, Len(net[c]))

(* The chat texts of which a read takes bytes.                                *)
Taken(c, k, cut) ==
  {net[c][i].text : i \in {j \in 1 .. IF cut THEN k + 1 ELSE k :
                             net[c][j].kind = "text"}}

(* onMsg: a chat request posts its text.  A login request only consults the   *)
(* database (LoginCheck, see module SqlHelper) and, as a registration, changes*)
(* nothing here; the response is built and never written.                     *)
onMsg(c, msg) ==
  IF msg.body /\ msg.type = "REQ_CHAT"
    THEN PostMsg(Line("chat", c, msg.text))
    ELSE UNCHANGED postedEvents

OnRead(c, k, cut) ==
  /\ Polled(c)
  /\ Readable(c, k, cut)
  /\ \E msg \in DeSerrialize(Chunk(c, k, cut)) : onMsg(c, msg)
  /\ net' = [net EXCEPT ![c] = Remainder(c, k, cut)]
  /\ mixed' = IF OneMessage(c, k, cut) THEN mixed
               ELSE [mixed EXCEPT ![c] = @ \union Taken(c, k, cut)]
  /\ UNCHANGED << guiVars, threadVars, connVars, peer, written, chatEdit >>

(* --worker_loop->connectionNum of the worker that runs the handler.          *)
CountDown_LastAccepted(c) ==
  connectionNum' = [connectionNum EXCEPT ![nextLoopIdx] = @ - 1]
CountDown(c) == connectionNum' = [connectionNum EXCEPT ![owner[c]] = @ - 1]

(* onclose: the count goes down, onConnection posts "disconnected",           *)
(* removeChannel forgets the channel.                                         *)
OnClose(c) ==
  /\ chan[c] = "open"
  /\ chan' = [chan EXCEPT ![c] = "closed"]
  /\ CountDown(c)
  /\ onConnection(c, "closed")
  /\ UNCHANGED << guiVars, threadVars, customEvents, nextLoopIdx, owner,
                  peerVars, chatEdit >>

(* The peer closed and everything it wrote has been read.                     *)
OnEof(c) ==
  /\ Polled(c)
  /\ peer[c] = "eof" /\ net[c] = << >>
  /\ OnClose(c)

(* A reset, or 1500 ms without traffic (setKeepaliveTimeout), at any time.    *)
OnTimeout(c) ==
  /\ Polled(c)
  /\ OnClose(c)

(* The loop is left: hloop_run closes the connections of the worker, then     *)
(* the thread ends.  Connections still queued are never attached.             *)
LeaveLoop_NoCleanup(w) ==
  /\ worker[w] = "stopping"
  /\ worker' = [worker EXCEPT ![w] = "stopped"]
  /\ UNCHANGED << guiVars, acceptor, connVars, peerVars, lineVars >>

LeaveLoop(w) ==
  /\ worker[w] = "stopping"
  /\ worker' = [worker EXCEPT ![w] = "draining"]
  /\ UNCHANGED << guiVars, acceptor, connVars, peerVars, lineVars >>

OnCleanup(c) ==
  /\ chan[c] = "open"
  /\ worker[owner[c]] = "draining"
  /\ OnClose(c)

WorkerExit(w) ==
  /\ worker[w] = "draining"
  /\ \A c \in Conns : owner[c] = w => chan[c] # "open"
  /\ worker' = [worker EXCEPT ![w] = "stopped"]
  /\ UNCHANGED << guiVars, acceptor, connVars, peerVars, lineVars >>

-----------------------------------------------------------------------------
(* The peers.                                                                 *)

PeerWrite(c, type) ==
  /\ chan[c] \in {"queued", "open"}
  /\ peer[c] = "up"
  /\ Len(written[c]) < MaxWrites
  /\ written' = [written EXCEPT ![c] = Append(@, type)]
  /\ net' = [net EXCEPT ![c] = @ \o Serrialize(type, Len(written[c]) + 1)]
  /\ UNCHANGED << guiVars, threadVars, connVars, peer, mixed, lineVars >>

PeerClose(c) ==
  /\ chan[c] \in {"queued", "open"}
  /\ peer[c] = "up"
  /\ peer' = [peer EXCEPT ![c] = "eof"]
  /\ UNCHANGED << guiVars, threadVars, connVars, written, net, mixed, lineVars >>

-----------------------------------------------------------------------------
Gui == \/ StartServerFails \/ StartServer \/ OverWriteMsg \/ customEvent
       \/ StopAcceptor \/ AcceptorStopped \/ StopWorker \/ Destroy

Conn(c) == \/ \E k \in 0 .. Len(net[c]), cut \in BOOLEAN : OnRead(c, k, cut)
           \/ OnEof(c) \/ OnTimeout(c) \/ OnCleanup(c)

Worker(w) == NewConnEvent(w) \/ LeaveLoop(w) \/ WorkerExit(w)

Peer(c) == PeerClose(c) \/ \E type \in Requests : PeerWrite(c, type)

Next ==
  /\ ~ crashed
  /\ \/ \E w \in Workers : NewConnEventNoLoop(w)
     \/ /\ \/ Gui
           \/ AcceptorExit
           \/ \E w \in Workers : Worker(w)
           \/ \E c \in Conns : OnAccept(c) \/ Conn(c) \/ Peer(c)
        /\ UNCHANGED crashed

Spec == Init /\ [][Next]_vars

(* The operating system schedules every thread that can run, the GUI thread   *)
(* handles its events and finishes what it began; the user need not quit,     *)
(* nor a peer connect, write or close, nor a timeout fire.                    *)
Step(A) == ~ crashed /\ A /\ UNCHANGED crashed

Fairness ==
  /\ WF_vars(Step(StartServer \/ StartServerFails))
  /\ WF_vars(Step(OverWriteMsg))
  /\ WF_vars(Step(customEvent))
  /\ WF_vars(Step(AcceptorStopped \/ StopWorker \/ Destroy))
  /\ WF_vars(Step(AcceptorExit))
  /\ \A w \in Workers : /\ WF_vars(Step(NewConnEvent(w)))
                        /\ WF_vars(Step(LeaveLoop(w)))
                        /\ WF_vars(Step(WorkerExit(w)))
  /\ \A c \in Conns :
       /\ WF_vars(Step(\E k \in 0 .. Len(net[c]), cut \in BOOLEAN : OnRead(c, k, cut)))
       /\ WF_vars(Step(OnEof(c)))
       /\ WF_vars(Step(OnCleanup(c)))

FairSpec == Spec /\ Fairness

-----------------------------------------------------------------------------
TypeOK ==
  /\ gui \in {"ctor", "started", "loop", "stopAcceptor", "stopWorkers", "destroyed"}
  /\ title \in {"", "Port is empty!", "Create socket failed!", "Listening"}
  /\ stopping \in 0 .. NumWorkers
  /\ acceptor \in {"idle", "running", "stopping", "stopped"}
  /\ worker \in [Workers -> {"idle", "running", "stopping", "draining", "stopped"}]
  /\ customEvents \in [Workers -> Seq(Conns)]
  /\ nextLoopIdx \in Workers
  /\ connectionNum \in [Workers -> Int]
  /\ chan \in [Conns -> {"none", "queued", "open", "closed"}]
  /\ owner \in [Conns -> Workers \union {NoOne}]
  /\ peer \in [Conns -> {"up", "eof"}]
  /\ written \in [Conns -> Seq(RequestType)]
  /\ net \in [Conns -> Seq(Cell)]
  /\ mixed \in [Conns -> SUBSET Text]
  /\ postedEvents \in Seq(Lines)
  /\ chatEdit \in Seq(Lines)
  /\ crashed \in BOOLEAN

-----------------------------------------------------------------------------
(* Safety.                                                                    *)

(* A worker's connectionNum, written by the acceptor (onAccept) and by the    *)
(* worker (onclose), is the number of connections queued on it or open.       *)
ConnectionNumExact ==
  \A w \in Workers :
    connectionNum[w] =
      Cardinality({c \in Conns : owner[c] = w /\ chan[c] \in {"queued", "open"}})

(* Round robin (nextLoop) deals connections so that no worker ever got two    *)
(* more than another.                                                         *)
Balanced ==
  LET Dealt(w) == Cardinality({c \in Conns : owner[c] = w})
  IN  \A v, w \in Workers : Dealt(v) <= Dealt(w) + 1

(* A connection waits in exactly one place of one queue, the one of its own   *)
(* worker, exactly as long as newConnEvent has not run for it.                *)
QueuedOnce ==
  \A w \in Workers, c \in Conns :
    Cardinality({i \in 1 .. Len(customEvents[w]) : customEvents[w][i] = c})
      = IF chan[c] = "queued" /\ owner[c] = w THEN 1 ELSE 0

(* Start and stop are two ladders: the workers run before the acceptor and    *)
(* before the window handles events; the acceptor ends before the first       *)
(* worker is told to stop, and every worker before the window is gone.        *)
All(states) == \A w \in Workers : worker[w] \in states
ShutdownOrder ==
  /\ gui \notin {"stopWorkers", "destroyed"} => stopping = 0
  /\ gui = "ctor" => acceptor = "idle" /\ All({"idle"})
  /\ gui = "started" => acceptor = "running" /\ All({"running"})
  /\ gui = "loop" => \/ acceptor = "idle" /\ All({"idle"})
                     \/ acceptor = "running" /\ All({"running"})
  /\ gui = "stopAcceptor" => acceptor \in {"stopping", "stopped"} /\ All({"running"})
  /\ gui = "stopWorkers" =>
       /\ acceptor = "stopped"
       /\ \A w \in Workers : IF w < stopping
                              THEN worker[w] \in {"stopping", "draining", "stopped"}
                              ELSE worker[w] = "running"
  /\ gui = "destroyed" => \/ acceptor = "idle" /\ All({"idle"})
                          \/ acceptor = "stopped" /\ All({"stopped"})

(* A connection has a worker from onAccept on, and one that is open has a     *)
(* worker that still runs its loop.                                           *)
OwnerAlive ==
  \A c \in Conns :
    /\ chan[c] = "none" <=> owner[c] = NoOne
    /\ chan[c] = "open" => Alive(owner[c])

(* ~mainwindow frees what the handlers capture (this, m_server): when it is   *)
(* done no thread is left that could call onConnection or onMsg.              *)
NoCallbackAfterDestroy ==
  gui = "destroyed" => /\ acceptor \in {"idle", "stopped"}
                       /\ \A w \in Workers : ~ Alive(w)

(* stop() ends the acceptor before it touches a worker, so onAccept never     *)
(* hands a connection to a worker that was told to stop.                      *)
AcceptOntoRunning ==
  [][\A c \in Conns : chan[c] = "none" /\ chan'[c] = "queued"
       => worker[owner'[c]] = "running"]_vars

(* newConnEvent always finds the loop of its thread ("NOTE: attach to worker  *)
(* loop", TcpServer.h:200).  The code does not keep this: see README.         *)
LoopNeverNull == ~ crashed

(* What it does keep: newConnEvent only misses the loop while the window      *)
(* closes, after the acceptor has ended, for a connection that was accepted   *)
(* before and that its worker had not attached when it was told to stop.      *)
NullLoopOnlyWhenClosing ==
  crashed =>
    /\ gui = "stopWorkers" /\ acceptor = "stopped"
    /\ \E c \in Conns : chan[c] = "queued" /\ worker[owner[c]] = "stopping"

(* The chat log of the window is one that ChatLog allows: lines of a          *)
(* connection in order, between its "connected" and its "disconnected", none  *)
(* twice, none erased (OverWriteMsg), whatever the threads interleave.        *)
Log == INSTANCE ChatLog WITH log <- chatEdit, Text <- Garbled .. MaxWrites
LogSpec == Log!Spec

(* Why the log is one: the lines shown and posted are, taken together, a      *)
(* legal log at any time.                                                     *)
Whole == chatEdit \o postedEvents

LegalAt(lines, i) ==
  LET OfSame(j)     == lines[j].conn = lines[i].conn
      Earlier(kind) == \E j \in 1 .. i - 1 : OfSame(j) /\ lines[j].kind = kind
  IN  /\ lines[i].text \in Garbled .. MaxWrites
      /\ lines[i].kind # "chat" => lines[i].text = NoText
      /\ lines[i].kind = "connected" => \A j \in 1 .. i - 1 : ~ OfSame(j)
      /\ lines[i].kind # "connected" => Earlier("connected") /\ ~ Earlier("disconnected")
      /\ lines[i].text > 0 =>
           \A j \in 1 .. i - 1 : OfSame(j) => lines[j].text < lines[i].text

Legal(lines) == \A i \in 1 .. Len(lines) : LegalAt(lines, i)

(* The queues hold connections that wait for their worker, each once.         *)
QueueInv ==
  \A w \in Workers :
    \A i \in 1 .. Len(customEvents[w]) :
      /\ chan[customEvents[w][i]] = "queued" /\ owner[customEvents[w][i]] = w
      /\ \A j \in 1 .. i - 1 : customEvents[w][j] # customEvents[w][i]

(* What has been reported of a connection follows from where it is.           *)
Reported(c, kind) == \E i \in 1 .. Len(Whole) : Whole[i].conn = c /\ Whole[i].kind = kind
ReportInv ==
  \A c \in Conns :
    /\ chan[c] \in {"none", "queued"} => \A i \in 1 .. Len(Whole) : Whole[i].conn # c
    /\ chan[c] = "open" => Reported(c, "connected") /\ ~ Reported(c, "disconnected")

(* The texts of a connection that are still unread come after those in the    *)
(* log, and in the order in which they were written.                          *)
TextInv ==
  \A c \in Conns :
    /\ Len(written[c]) <= MaxWrites
    /\ \A i \in 1 .. Len(Whole) : Whole[i].conn = c => Whole[i].text <= Len(written[c])
    /\ \A j \in 1 .. Len(net[c]) :
         /\ net[c][j].text \in 0 .. Len(written[c])
         /\ net[c][j].text > 0 =>
              /\ \A i \in 1 .. j - 1 : net[c][i].text < net[c][j].text
              /\ \A i \in 1 .. Len(Whole) :
                   Whole[i].conn = c => Whole[i].text < net[c][j].text

LogInv ==
  /\ Legal(Whole)
  /\ gui \in {"ctor", "started"} => chatEdit = << >>
  /\ QueueInv
  /\ OwnerAlive
  /\ ReportInv
  /\ TextInv

(* What a peer of an open connection said is what is shown, posted, still     *)
(* unread, or was taken by a read that cut or joined messages: onMsg loses a  *)
(* chat request to no other cause, and the texts it posts, but for those that *)
(* such a read leaves empty or garbled, are texts the peer wrote.             *)
Said(c)   == {n \in 1 .. Len(written[c]) : written[c][n] = "REQ_CHAT"}
Posted(c) == {Whole[i].text : i \in {j \in 1 .. Len(Whole) :
                                       Whole[j].kind = "chat" /\ Whole[j].conn = c}}
Unread(c) == {net[c][i].text : i \in {j \in 1 .. Len(net[c]) : net[c][j].kind = "text"}}
NothingLost ==
  \A c \in Conns : chan[c] \in {"queued", "open"} =>
    Said(c) = (Posted(c) \ {NoText, Garbled}) \union Unread(c) \union mixed[c]

-----------------------------------------------------------------------------
(* Liveness, under FairSpec.                                                  *)

(* Closing the window ends: the GUI thread waits for the acceptor and the     *)
(* workers, and none of them waits for the GUI thread.                        *)
ShutdownTerminates == gui = "stopAcceptor" ~> gui = "destroyed" \/ crashed

(* A posted line is shown, unless the window is closed first.                 *)
InLines(line, lines) == \E i \in 1 .. Len(lines) : lines[i] = line
PostedIsShown ==
  \A c \in Conns :
    \A line \in {Line("connected", c, NoText), Line("disconnected", c, NoText)}
                  \union {Line("chat", c, n) : n \in 1 .. MaxWrites} :
      InLines(line, postedEvents)
        ~> InLines(line, chatEdit) \/ gui \notin {"started", "loop"}

(* A peer that closes is reported as disconnected, even if it closed before   *)
(* its worker had attached the connection.                                    *)
EofIsReported ==
  \A c \in Conns :
    chan[c] \in {"queued", "open"} /\ peer[c] = "eof"
      ~> InLines(Line("disconnected", c, NoText), chatEdit) \/ gui \notin {"started", "loop"}
=============================================================================
