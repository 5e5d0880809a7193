----------------------------- MODULE TcpClient -----------------------------
(* hv::TcpClient as XChatyClient uses it (TcpClient.h, EventLoopThread.h,     *)
(* EventLoop.h): an object of the GUI thread that owns a loop thread.  The    *)
(* two threads share the status of the loop and of the thread, the pointer    *)
(* loop_, the queue of events and the channel; each access the other thread   *)
(* could observe is a step of its own.                                        *)
EXTENDS Integers, Sequences

CONSTANT ServerUp   \* FALSE: a connection attempt may also fail

ASSUME ServerUpAssumption == ServerUp \in BOOLEAN

(* Status.h *)
kInitialized == 2
kStarting    == 3
kStarted     == 4
kRunning     == 5
kStopping    == 7
kStopped     == 8

VARIABLES
  client,        \* how far the GUI thread is with the client object
  thread,        \* where the loop thread is
  loopStatus,    \* Status of EventLoop
  threadStatus,  \* Status of EventLoopThread
  loopPtr,       \* EventLoop::loop_
  stopFlag,      \* hloop_stop has told hloop_run to return
  customEvents,  \* EventLoop::customEvents
  channel        \* the channel: its status, or "none"

clientVars == << client, thread, loopStatus, threadStatus, loopPtr, stopFlag,
                 customEvents, channel >>

NoClient ==
  /\ client = "none" /\ thread = "none"
  /\ loopStatus = kInitialized /\ threadStatus = kInitialized
  /\ loopPtr = "set" /\ stopFlag = FALSE
  /\ customEvents = << >> /\ channel = "none"

-----------------------------------------------------------------------------
(* The GUI thread.                                                            *)

(* The constructor makes the EventLoop and the EventLoopThread.               *)
Create ==
  /\ client = "none"
  /\ client' = "created"
  /\ thread' = "none"
  /\ loopStatus' = kInitialized /\ threadStatus' = kInitialized
  /\ loopPtr' = "set" /\ stopFlag' = FALSE
  /\ customEvents' = << >> /\ channel' = "none"

CreateSocket ==
  /\ client = "created"
  /\ client' = "socket"
  /\ channel' = "opened"
  /\ UNCHANGED << thread, loopStatus, threadStatus, loopPtr, stopFlag, customEvents >>

(* createsocket < 0: the destructor finds nothing to stop.                    *)
CreateSocketFails ==
  /\ client = "created"
  /\ client' = "none"
  /\ UNCHANGED << thread, loopStatus, threadStatus, loopPtr, stopFlag,
                  customEvents, channel >>

(* start(): a new thread, then wait while loop_->status() < kRunning.         *)
StartThread ==
  /\ client = "socket"
  /\ client' = "starting"
  /\ threadStatus' = kStarting
  /\ thread' = "begin"
  /\ UNCHANGED << loopStatus, loopPtr, stopFlag, customEvents, channel >>

LoopUp_NoWait == TRUE
LoopUp_OffByOne == loopStatus > kRunning
LoopUp == loopStatus >= kRunning

Started ==
  /\ client = "starting"
  /\ LoopUp
  /\ client' = "started"
  /\ UNCHANGED << thread, loopStatus, threadStatus, loopPtr, stopFlag,
                  customEvents, channel >>

(* send() writes only if the channel is connected by now.                     *)
CanSend == channel = "connected"
Send ==
  /\ client = "started"
  /\ client' = "closing"
  /\ UNCHANGED << thread, loopStatus, threadStatus, loopPtr, stopFlag,
                  customEvents, channel >>

(* The destructor, stop(true): closesocket() queues the closing of the channel*)
CloseSocket ==
  /\ client = "closing"
  /\ client' = "stopping"
  /\ customEvents' = IF loopPtr = "set" THEN Append(customEvents, "close")
                                        ELSE customEvents
  /\ UNCHANGED << thread, loopStatus, threadStatus, loopPtr, stopFlag, channel >>

(* EventLoopThread::stop, EventLoop::stop: setStatus(kStopping), hloop_stop...*)
StopLoop ==
  /\ client = "stopping"
  /\ client' = "nulling"
  /\ threadStatus' = kStopping
  /\ loopStatus' = IF loopStatus < kRunning THEN loopStatus ELSE kStopping
  /\ stopFlag' = (loopStatus >= kRunning)
  /\ UNCHANGED << thread, loopPtr, customEvents, channel >>

(* ... and loop_ = NULL.                                                      *)
NullLoop_Forgotten ==
  /\ client = "nulling"
  /\ client' = "waiting"
  /\ UNCHANGED << thread, loopStatus, threadStatus, loopPtr, stopFlag, customEvents, channel >>

NullLoop ==
  /\ client = "nulling"
  /\ client' = "waiting"
  /\ loopPtr' = "null"
  /\ UNCHANGED << thread, loopStatus, threadStatus, stopFlag, customEvents, channel >>

(* while (!isStopped()) hv_delay(1); then the members are destroyed.          *)
ThreadGone_NoWait == TRUE
ThreadGone == threadStatus = kStopped

Destroyed ==
  /\ client = "waiting"
  /\ ThreadGone
  /\ client' = "none"
  /\ UNCHANGED << thread, loopStatus, threadStatus, loopPtr, stopFlag,
                  customEvents, channel >>

-----------------------------------------------------------------------------
(* The loop thread.                                                           *)

(* loop_thread: setStatus(kStarted), queue the functor that will connect.     *)
ThreadBegin ==
  /\ thread = "begin"
  /\ thread' = "run"
  /\ threadStatus' = kStarted
  /\ customEvents' = IF loopPtr = "set" THEN Append(customEvents, "connect")
                                        ELSE customEvents
  /\ UNCHANGED << client, loopStatus, loopPtr, stopFlag, channel >>

(* EventLoop::run: return if loop_ is NULL, else setStatus(kRunning).         *)
Run ==
  /\ thread = "run"
  /\ thread' = IF loopPtr = "null" THEN "asserting" ELSE "calling"
  /\ loopStatus' = IF loopPtr = "null" THEN loopStatus ELSE kRunning
  /\ UNCHANGED << client, threadStatus, loopPtr, stopFlag, customEvents, channel >>

(* hloop_run(loop_): the argument is read here ...                            *)
CallHloopRun ==
  /\ thread = "calling"
  /\ thread' = IF loopPtr = "null" THEN "returned" ELSE "entering"
  /\ UNCHANGED << client, loopStatus, threadStatus, loopPtr, stopFlag,
                  customEvents, channel >>

(* ... and hloop_run begins by marking the loop as running.                   *)
EnterHloopRun ==
  /\ thread = "entering"
  /\ thread' = "polling"
  /\ stopFlag' = FALSE
  /\ UNCHANGED << client, loopStatus, threadStatus, loopPtr, customEvents, channel >>

(* onCustomEvent: startConnect, or closesocket's functor.                     *)
CustomEvent ==
  /\ thread = "polling"
  /\ customEvents # << >>
  /\ Head(customEvents) \in {"connect", "close"}
  /\ customEvents' = Tail(customEvents)
  /\ channel' = IF Head(customEvents) = "close" THEN "closed"
                ELSE IF channel = "opened" THEN "connecting" ELSE channel
  /\ UNCHANGED << client, thread, loopStatus, threadStatus, loopPtr, stopFlag >>

(* The connection attempt ends: onconnect, or onclose.                        *)
ConnectDone ==
  /\ thread = "polling"
  /\ channel = "connecting"
  /\ channel' \in {"connected"} \union (IF ServerUp THEN {} ELSE {"closed"})
  /\ UNCHANGED << client, thread, loopStatus, threadStatus, loopPtr, stopFlag,
                  customEvents >>

(* hloop_run returns: the loop is freed and what is open is closed.           *)
LeaveHloopRun_LeavesOpen ==
  /\ thread = "polling"
  /\ stopFlag
  /\ thread' = "returned"
  /\ UNCHANGED << client, loopStatus, threadStatus, loopPtr, stopFlag, customEvents, channel >>

LeaveHloopRun ==
  /\ thread = "polling"
  /\ stopFlag
  /\ thread' = "returned"
  /\ channel' = "closed"
  /\ UNCHANGED << client, loopStatus, threadStatus, loopPtr, stopFlag, customEvents >>

(* EventLoop::run ends with setStatus(kStopped); loop_thread asserts it ...   *)
RunReturns ==
  /\ thread = "returned"
  /\ thread' = "asserting"
  /\ loopStatus' = kStopped
  /\ UNCHANGED << client, threadStatus, loopPtr, stopFlag, customEvents, channel >>

(* ... and ends with the thread's own setStatus(kStopped).                    *)
ThreadEnds_StatusKept ==
  /\ thread = "asserting"
  /\ thread' = "none"
  /\ UNCHANGED << client, loopStatus, threadStatus, loopPtr, stopFlag, customEvents, channel >>

ThreadEnds ==
  /\ thread = "asserting"
  /\ thread' = "none"
  /\ threadStatus' = kStopped
  /\ UNCHANGED << client, loopStatus, loopPtr, stopFlag, customEvents, channel >>

LoopThread == \/ ThreadBegin \/ Run \/ CallHloopRun \/ EnterHloopRun
              \/ CustomEvent \/ ConnectDone \/ LeaveHloopRun
              \/ RunReturns \/ ThreadEnds

-----------------------------------------------------------------------------
Functors == {"connect", "close", "kill"}   \* killTimer's: see XChatyClient
ClientTypeOK ==
  /\ client \in {"none", "created", "socket", "starting", "started", "closing",
                 "stopping", "nulling", "waiting"}
  /\ thread \in {"none", "begin", "run", "calling", "entering", "polling",
                 "returned", "asserting"}
  /\ loopStatus \in {kInitialized, kRunning, kStopping, kStopped}
  /\ threadStatus \in {kInitialized, kStarting, kStarted, kStopping, kStopped}
  /\ loopPtr \in {"set", "null"}
  /\ stopFlag \in BOOLEAN
  /\ customEvents \in Seq(Functors)
  /\ channel \in {"none", "opened", "connecting", "connected", "closed"}

(* What a thread may wait for: the GUI thread for the loop thread to run or   *)
(* to end, the loop thread for an event.                                      *)
GuiWaits ==
  \/ client = "starting" /\ ~ LoopUp
  \/ client = "waiting" /\ ~ ThreadGone
LoopWaits ==
  \/ thread = "none"
  \/ /\ thread = "polling"
     /\ ~ stopFlag /\ customEvents = << >> /\ channel # "connecting"

(* Where a step of either is: of the owner inside an operation of the client, *)
(* of the loop thread with the functors its owner lets it handle.             *)
ClientReady ==
  \/ client \in {"created", "socket", "closing", "stopping", "nulling"}
  \/ client = "starting" /\ LoopUp
  \/ client = "waiting" /\ ThreadGone
ThreadReady(functors) ==
  \/ thread \in {"begin", "run", "calling", "entering", "returned", "asserting"}
  \/ /\ thread = "polling"
     /\ \/ stopFlag \/ channel = "connecting"
        \/ customEvents # << >> /\ Head(customEvents) \in functors

(* The stop of ~TcpClientTmpl came between kRunning and hloop_run and was     *)
(* overwritten by EnterHloopRun: the loop polls on and is waited for.         *)
StopLost == client = "waiting" /\ thread = "polling" /\ stopFlag = FALSE

(* Then both threads come to wait for each other: the close that the          *)
(* destructor queued is done, and hloop_run has nothing left to poll for.     *)
HungStop == StopLost /\ customEvents = << >> /\ channel = "closed"

(* assert(loop_->isStopped()) in loop_thread (EventLoopThread.h:98).          *)
AssertIsStopped == thread = "asserting" => loopStatus = kStopped

(* The client seen from the window: ClientLife, whatever its two threads do.  *)
LifeOf == CASE client = "none"                    -> "none"
            [] client \in {"created", "socket"}   -> "made"
            [] client \in {"starting", "started"} -> "live"
            [] OTHER                              -> "ending"
LinkOf == IF channel \in {"none", "opened"} THEN "idle" ELSE channel
Life == INSTANCE ClientLife WITH life <- LifeOf, link <- LinkOf
LifeSpec == Life!Spec

(* When the client object is gone its loop thread is gone too: no callback    *)
(* can touch the members or the window they captured.                         *)
NoThreadWithoutClient == client \in {"none", "created", "socket"} => thread = "none"
=============================================================================
