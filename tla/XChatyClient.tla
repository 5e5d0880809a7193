---------------------------- MODULE XChatyClient ----------------------------
(* The chat window of the client (XChatyClient/xchatyclient.cpp): one after   *)
(* the other, it owns several TcpClients, each with a loop thread that calls  *)
(* back into the window.  Every change of the connection starts a heartbeat   *)
(* timer on that thread (EventLoop.h: setTimer, killTimer, onTimer); SendMsg  *)
(* replaces the client when it is not connected.  The build is one with       *)
(* NDEBUG: the assertions of EventLoop.h do nothing.                          *)
EXTENDS TcpClient

CONSTANTS
  MaxClients,  \* bound: TcpClients of one window
  MaxTexts,    \* bound: texts sent on one connection
  MaxLines     \* bound: lines in the log before a message arrives

ASSUME BoundsAssumption ==
  MaxClients \in Nat \ {0} /\ MaxTexts \in Nat /\ MaxLines \in Nat

VARIABLES
  gui,           \* where the GUI thread is
  clients,       \* TcpClients made; the last one is m_client
  timers,        \* EventLoop::timers of its loop: heartbeat timers
  sent,          \* texts written on its connection
  postedEvents,  \* lines posted to the window, not handled yet
  chatEdit       \* lines shown in the window

lineVars == << postedEvents, chatEdit >>
vars == << clientVars, gui, clients, timers, sent, lineVars >>

Lines == [kind : {"connected", "chat", "disconnected"}, client : 1 .. MaxClients]
Line(kind) == [kind |-> kind, client |-> clients]
Whole == chatEdit \o postedEvents

Init ==
  /\ NoClient
  /\ gui = "ctor" /\ clients = 0
  /\ timers = 0 /\ sent = 0
  /\ postedEvents = << >> /\ chatEdit = << >>

-----------------------------------------------------------------------------
(* GUI thread: InitConnect, called by the constructor and by SendMsg.         *)
InInitConnect == gui \in {"ctor", "init"}

(* new hv::TcpClient, with a loop and a timer table of its own.               *)
NewClient_SharedLoop ==
  /\ InInitConnect
  /\ Create
  /\ clients' = clients + 1
  /\ sent' = 0
  /\ UNCHANGED << gui, timers, lineVars >>

NewClient ==
  /\ InInitConnect
  /\ Create
  /\ clients' = clients + 1
  /\ timers' = 0 /\ sent' = 0
  /\ UNCHANGED << gui, lineVars >>

(* InitConnect is done.  SendMsg ignores what it returns; the constructor     *)
(* ends with OverWriteMsg("connect success!"), which clears the window.       *)
InitConnectReturns ==
  /\ gui' = "loop"
  /\ chatEdit' = IF gui = "ctor" THEN << >> ELSE chatEdit
  /\ UNCHANGED << clients, timers, sent, postedEvents >>

(* Host or port is empty, or createsocket < 0: the client stays, without a    *)
(* socket and without a thread.                                               *)
InitConnectFails ==
  /\ InInitConnect
  /\ client = "created"
  /\ InitConnectReturns
  /\ UNCHANGED clientVars

InitConnectDone == InInitConnect /\ Started /\ InitConnectReturns

StartClient ==
  /\ InInitConnect
  /\ CreateSocket \/ StartThread
  /\ UNCHANGED << gui, clients, timers, sent, lineVars >>

InitConnect == NewClient \/ InitConnectFails \/ StartClient \/ InitConnectDone

-----------------------------------------------------------------------------
(* GUI thread: the event loop.                                                *)

customEvent ==
  /\ gui = "loop"
  /\ postedEvents # << >>
  /\ chatEdit' = Append(chatEdit, Head(postedEvents))
  /\ postedEvents' = Tail(postedEvents)
  /\ UNCHANGED << clientVars, gui, clients, timers, sent >>

(* SAFE_DELETE(m_client): a client without a thread is gone at once, for the  *)
(* other one ~TcpClientTmpl begins with stop(true).                           *)
DeleteClient(next) ==
  \/ CreateSocketFails /\ gui' = next
  \/ /\ client = "started"
     /\ client' = "closing"
     /\ gui' = IF next = "init" THEN "delete" ELSE "dtor"
     /\ UNCHANGED << thread, loopStatus, threadStatus, loopPtr, stopFlag,
                     customEvents, channel >>

(* SendMsg of a client that isConnected() ...                                 *)
SendMsg ==
  /\ gui = "loop"
  /\ client = "started" /\ channel = "connected"
  /\ sent < MaxTexts
  /\ gui' = "send"
  /\ UNCHANGED << clientVars, clients, timers, sent, lineVars >>

(* ... calls send(), which asks again and drops the text if it no longer is.  *)
SendText ==
  /\ gui = "send"
  /\ gui' = "loop"
  /\ sent' = IF CanSend THEN sent + 1 ELSE sent
  /\ UNCHANGED << clientVars, clients, timers, lineVars >>

(* SendMsg of one that is not: delete it, make another, drop the text.        *)
SendMsgReconnect ==
  /\ gui = "loop"
  /\ channel # "connected"
  /\ clients < MaxClients
  /\ DeleteClient("init")
  /\ UNCHANGED << clients, timers, sent, lineVars >>

(* ~XChatyClient: stop() if connected, then delete; the second stop() finds   *)
(* nothing to do.  ~QObject drops the posted lines.                           *)
Close ==
  /\ gui = "loop"
  /\ DeleteClient("gone")
  /\ postedEvents' = IF gui' = "gone" THEN << >> ELSE postedEvents
  /\ UNCHANGED << clients, timers, sent, chatEdit >>

(* ~TcpClientTmpl up to the wait for the loop thread ...                      *)
StopClient ==
  /\ CloseSocket \/ StopLoop \/ NullLoop
  /\ UNCHANGED << gui, clients, timers, sent, lineVars >>

(* ... and its end.                                                           *)
ClientDeleted ==
  /\ Destroyed
  /\ gui' = IF gui = "delete" THEN "init" ELSE "gone"
  /\ postedEvents' = IF gui = "delete" THEN postedEvents ELSE << >>
  /\ UNCHANGED << clients, timers, sent, chatEdit >>

-----------------------------------------------------------------------------
(* The loop thread.                                                           *)

PostMsg_HighPriority(line) == postedEvents' = << line >> \o postedEvents
PostMsg(line) == postedEvents' = Append(postedEvents, line)

(* hv::setInterval, EventLoop::setTimer: nothing without a loop.              *)
setInterval == timers' = IF loopPtr = "null" THEN timers ELSE timers + 1

(* The lambda onConnection, called by onconnect and by onclose.               *)
onConnection ==
  /\ PostMsg(Line(IF channel' = "connected" THEN "connected" ELSE "disconnected"))
  /\ setInterval

(* A step of the thread calls it when the attempt to connect or the           *)
(* connection ends; a channel that was never told to connect has no onclose.  *)
CallsBack_OnEveryClose == channel' \in {"connected", "closed"} /\ channel # "opened"
CallsBack == channel' # channel /\ channel' \in {"connected", "closed"} /\ channel # "opened"

ClientLoop ==
  /\ LoopThread
  /\ IF CallsBack THEN onConnection ELSE UNCHANGED << timers, postedEvents >>
  /\ UNCHANGED << gui, clients, sent, chatEdit >>

(* killTimer, runInLoop: in place while the loop is running, else queued      *)
(* (bound: one at a time), unless loop_ is NULL.                              *)
killTimer ==
  IF loopStatus = kRunning
    THEN timers' = timers - 1 /\ UNCHANGED customEvents
    ELSE /\ UNCHANGED timers
         /\ "kill" \notin {customEvents[i] : i \in 1 .. Len(customEvents)}
         /\ customEvents' = IF loopPtr = "null" THEN customEvents
                                                ELSE Append(customEvents, "kill")

(* Its functor comes off the queue.                                           *)
KillEvent ==
  /\ thread = "polling"
  /\ customEvents # << >> /\ Head(customEvents) = "kill"
  /\ customEvents' = Tail(customEvents)
  /\ timers' = timers - 1
  /\ UNCHANGED << client, thread, loopStatus, threadStatus, loopPtr, stopFlag, channel,
                  gui, clients, sent, lineVars >>

(* onTimer of one heartbeat timer: a heartbeat, or the end of the timer.      *)
TimerStep ==
  /\ thread = "polling"
  /\ timers > 0
  /\ UNCHANGED << client, thread, loopStatus, threadStatus, loopPtr, stopFlag, channel,
                  gui, clients, sent, lineVars >>

OnTimer_NoKill == TimerStep /\ UNCHANGED << timers, customEvents >>
OnTimer_NoCheck == TimerStep /\ killTimer
OnTimer ==
  /\ TimerStep
  /\ IF channel = "connected" THEN UNCHANGED << timers, customEvents >> ELSE killTimer

(* A chat message from the server: onMessage posts its text.                  *)
OnMessage ==
  /\ thread = "polling"
  /\ channel = "connected"
  /\ Len(Whole) < MaxLines
  /\ PostMsg(Line("chat"))
  /\ UNCHANGED << clientVars, gui, clients, timers, sent, chatEdit >>

(* The server closes the connection, or it breaks.                            *)
OnClose ==
  /\ thread = "polling"
  /\ channel = "connected"
  /\ channel' = "closed"
  /\ onConnection
  /\ UNCHANGED << client, thread, loopStatus, threadStatus, loopPtr, stopFlag,
                  customEvents, gui, clients, sent, chatEdit >>

-----------------------------------------------------------------------------
Gui == InitConnect \/ SendText \/ StopClient \/ ClientDeleted
User == SendMsg \/ SendMsgReconnect \/ Close
Loop == ClientLoop \/ KillEvent \/ OnTimer
Server == OnMessage \/ OnClose

Next == Gui \/ customEvent \/ User \/ Loop \/ Server

Spec == Init /\ [][Next]_vars

(* Both threads run whenever they can and an attempt to connect ends; the     *)
(* user and the server need not do anything.                                  *)
Fairness == WF_vars(Gui) /\ WF_vars(customEvent) /\ WF_vars(Loop)
FairSpec == Spec /\ Fairness

-----------------------------------------------------------------------------
TypeOK ==
  /\ ClientTypeOK
  /\ gui \in {"ctor", "init", "loop", "send", "delete", "dtor", "gone"}
  /\ clients \in 0 .. MaxClients
  /\ timers \in 0 .. 2
  /\ sent \in 0 .. MaxTexts
  /\ postedEvents \in Seq(Lines) /\ chatEdit \in Seq(Lines)

(* A channel that is connected sends its heartbeats from one timer, the timer *)
(* of an earlier client or of an earlier change of status never among them,   *)
(* and nothing is written before it is connected.                             *)
OneHeartbeat ==
  /\ channel = "connected" => timers = 1 \/ loopPtr = "null"
  /\ channel \in {"none", "opened", "connecting"} => timers = 0 /\ sent = 0

(* When the window is gone no thread is left that could post to it.           *)
NoPostAfterClose == gui = "gone" => thread = "none" /\ postedEvents = << >>

(* "WARN: Forbid to call hloop_free if HLOOP_FLAG_AUTO_FREE set" (hloop.h:131)*)
(* ~EventLoop still calls it when loop_ is set: only ever for a loop that no  *)
(* thread has run, so that hloop_run does not free it a second time.          *)
HloopFreedOnce ==
  [][client # "none" /\ client' = "none" /\ loopPtr = "set"
       => loopStatus = kInitialized /\ thread = "none"]_vars

(* The window shows the log that ClientLog allows, whichever clients SendMsg  *)
(* deleted while they were connecting, connected or closing.                  *)
Log == INSTANCE ClientLog WITH log <- chatEdit
LogSpec == Log!Spec

(* Why: the lines shown and posted are such a log at any time, none is of a   *)
(* client that has not come to its connection, and the last one says whether  *)
(* the current client has.                                                    *)
LogInv ==
  /\ \A i \in 1 .. Len(Whole) - 1 : Log!Follows(Whole[i + 1], Whole[i])
  /\ Whole # << >> => Log!Follows(Whole[1], Log!Nothing)
  /\ \A i \in 1 .. Len(Whole) :
       IF channel \in {"none", "opened", "connecting"} THEN Whole[i].client < clients
                                                      ELSE Whole[i].client <= clients
  /\ channel = "connected" =>
       /\ Whole # << >>
       /\ Whole[Len(Whole)].client = clients /\ Whole[Len(Whole)].kind # "disconnected"
  /\ gui = "ctor" => chatEdit = << >>

-----------------------------------------------------------------------------
(* A loop thread that polls has a timer to end, besides its events.           *)
TimerDue == thread = "polling" /\ timers > 0 /\ channel # "connected" /\ loopStatus = kRunning

(* The GUI thread waits for the loop thread in InitConnect and in SAFE_DELETE *)
(* (start and stop of TcpClient.h), the loop thread for events and timers: in *)
(* every handler of the window one of the two has a step to take, and can take*)
(* it, whichever client is made, lost or deleted, except where the stop was   *)
(* lost and the connection it closed leaves nothing to poll for.              *)
GuiReady ==
  \/ gui = "send"
  \/ InInitConnect /\ client = "none"
  \/ gui # "loop" /\ ClientReady
LoopReady == ThreadReady(Functors) \/ TimerDue
NoDeadlock == gui \notin {"loop", "gone"} => GuiReady \/ LoopReady \/ HungStop
ReadyIsEnabled ==
  /\ GuiReady => ENABLED << Gui >>_vars
  /\ LoopReady => ENABLED << Loop >>_vars
NeverStuck == NoDeadlock /\ ReadyIsEnabled

(* Liveness, under FairSpec.                                                  *)

(* The timers of a connection that is lost end, unless the client does.       *)
HeartbeatsEnd == channel = "closed" /\ client = "started" ~> timers = 0 \/ client # "started"

(* The GUI thread waits for the loop thread to start and to end; it always    *)
(* comes back to its event loop, or is done, unless the stop was lost.        *)
GuiReturns == gui # "loop" ~> gui \in {"loop", "gone"} \/ StopLost
=============================================================================
