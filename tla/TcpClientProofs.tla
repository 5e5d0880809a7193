-------------------------- MODULE TcpClientProofs --------------------------
(* What holds of a TcpClient in whatever window owns it: its types, and how   *)
(* far its loop thread can be for each step of the GUI thread.                *)
EXTENDS TcpClient, SequenceTheorems, TLAPS

(* How far the loop thread can be for each step of the GUI thread: it is made *)
(* by start(), start() waits until it runs, and only stop() lets it go on     *)
(* from there to its end.                                                     *)
Running == thread \in {"calling", "entering", "polling"}
ThreadInv ==
  /\ client \in {"none", "created", "socket"} => thread = "none"
  /\ client \in {"created", "socket"} => loopStatus = kInitialized
  /\ client = "starting" => \/ thread \in {"begin", "run"} /\ loopStatus = kInitialized
                            \/ Running
  /\ client \in {"started", "closing", "stopping"} => Running
  /\ client \in {"nulling", "waiting"} => thread \notin {"begin", "run"}
  /\ client \in {"created", "socket", "starting", "started", "closing", "stopping"}
       => loopPtr = "set" /\ stopFlag = FALSE
  /\ threadStatus = kStopped => thread = "none"
  /\ AssertIsStopped

(* The steps of the GUI thread inside the client and those of the loop thread.*)
ClientStep ==
  \/ Create \/ CreateSocket \/ CreateSocketFails \/ StartThread \/ Started \/ Send
  \/ CloseSocket \/ StopLoop \/ NullLoop \/ Destroyed \/ LoopThread

LEMMA ThreadInvInit ==
  ASSUME NoClient
  PROVE  ClientTypeOK /\ ThreadInv
<1>1. stopFlag \in BOOLEAN
  BY DEF NoClient
<1>2. ClientTypeOK
  BY <1>1 DEF NoClient, ClientTypeOK
<1>3. ThreadInv
  BY DEF NoClient, ThreadInv, AssertIsStopped, Running,
     kInitialized, kStarting, kStarted, kRunning, kStopping, kStopped
<1> QED
  BY <1>2, <1>3

LEMMA CreateType ==
  ASSUME Create
  PROVE  ClientTypeOK'
<1>1. stopFlag' \in BOOLEAN
  BY DEF Create
<1> QED
  BY <1>1 DEF Create, ClientTypeOK

(* The steps of the client object and of its thread.                          *)
LEMMA ClientType ==
  ASSUME ClientTypeOK,
         ClientStep
  PROVE  ClientTypeOK'
<1> USE DEF ClientTypeOK, Functors
<1>1. CASE CreateSocket \/ CreateSocketFails \/ StartThread \/ Started \/ Send
  BY <1>1 DEF CreateSocket, CreateSocketFails, StartThread, Started, Send
<1>2. CASE CloseSocket
  <2>1. Append(customEvents, "close") \in Seq(Functors)
    BY AppendProperties
  <2> QED
    BY <1>2, <2>1 DEF CloseSocket
<1>3. CASE StopLoop
  <2>1. stopFlag' \in BOOLEAN
    BY <1>3 DEF StopLoop
  <2> QED
    BY <1>3, <2>1 DEF StopLoop
<1>4. CASE NullLoop \/ Destroyed
  BY <1>4 DEF NullLoop, Destroyed
<1>5. CASE LoopThread
  <2>1. Append(customEvents, "connect") \in Seq(Functors)
    BY AppendProperties
  <2>2. customEvents # << >> => Tail(customEvents) \in Seq(Functors)
    BY HeadTailProperties
  <2>3. stopFlag' \in BOOLEAN
    BY <1>5 DEF LoopThread, ThreadBegin, Run, CallHloopRun, EnterHloopRun, CustomEvent,
       ConnectDone, LeaveHloopRun, RunReturns, ThreadEnds
  <2>4. CASE ThreadBegin \/ Run \/ CallHloopRun \/ EnterHloopRun
    BY <2>1, <2>3, <2>4 DEF ThreadBegin, Run, CallHloopRun, EnterHloopRun
  <2>5. CASE CustomEvent \/ ConnectDone \/ LeaveHloopRun \/ RunReturns \/ ThreadEnds
    BY <2>2, <2>3, <2>5 DEF CustomEvent, ConnectDone, LeaveHloopRun, RunReturns, ThreadEnds
  <2> QED
    BY <1>5, <2>4, <2>5 DEF LoopThread
<1> QED
  BY <1>1, <1>2, <1>3, <1>4, <1>5, CreateType DEF ClientStep

LEMMA ClientThread ==
  ASSUME ClientTypeOK, ThreadInv, ClientStep
  PROVE  ThreadInv'
<1> USE DEF ThreadInv, AssertIsStopped, Running,
            kInitialized, kStarting, kStarted, kRunning, kStopping, kStopped
<1>1. CASE \/ Create \/ CreateSocket \/ CreateSocketFails \/ StartThread \/ Started
           \/ Send \/ CloseSocket \/ StopLoop \/ NullLoop \/ Destroyed
  BY <1>1 DEF ClientTypeOK, Create, CreateSocket, CreateSocketFails, StartThread,
     Started, LoopUp, Send, CloseSocket, StopLoop, NullLoop, Destroyed, ThreadGone
<1>2. CASE LoopThread
  BY <1>2 DEF ClientTypeOK, LoopThread, ThreadBegin, Run, CallHloopRun,
     EnterHloopRun, CustomEvent, ConnectDone, LeaveHloopRun, RunReturns, ThreadEnds
<1> QED
  BY <1>1, <1>2 DEF ClientStep

-----------------------------------------------------------------------------
(* How far the channel is for each place of the two threads: it is told to    *)
(* connect by the loop thread alone, and while it is connecting or connected  *)
(* that thread polls it.                                                      *)
ChanInv ==
  /\ client = "created" => channel = "none"
  /\ client = "socket" => channel = "opened"
  /\ thread \in {"begin", "run", "calling", "entering"} => channel = "opened"
  /\ thread = "polling" => channel # "none"
  /\ channel \in {"connecting", "connected"} => thread = "polling"
  /\ client = "waiting" => loopPtr = "null"

LEMMA ClientChan ==
  ASSUME ClientTypeOK, ThreadInv, ChanInv, ClientStep
  PROVE  ChanInv'
<1> USE DEF ChanInv
<1>1. CASE Create
  BY <1>1 DEF Create
<1>2. CASE CreateSocket \/ CreateSocketFails \/ StartThread \/ Started \/ Send
  BY <1>2 DEF CreateSocket, CreateSocketFails, StartThread, Started, Send, ThreadInv, Running
<1>3. CASE CloseSocket \/ StopLoop \/ NullLoop \/ Destroyed
  BY <1>3 DEF CloseSocket, StopLoop, NullLoop, Destroyed
<1>4. CASE LoopThread
  <2>1. client \notin {"none", "created", "socket"}
    BY <1>4 DEF ThreadInv, LoopThread, ThreadBegin, Run, CallHloopRun, EnterHloopRun,
       CustomEvent, ConnectDone, LeaveHloopRun, RunReturns, ThreadEnds
  <2>2. CASE ThreadBegin \/ Run \/ CallHloopRun \/ EnterHloopRun \/ RunReturns \/ ThreadEnds
    BY <2>1, <2>2 DEF ThreadBegin, Run, CallHloopRun, EnterHloopRun, RunReturns, ThreadEnds
  <2>3. CASE CustomEvent \/ ConnectDone \/ LeaveHloopRun
    BY <2>1, <2>3 DEF CustomEvent, ConnectDone, LeaveHloopRun
  <2> QED
    BY <1>4, <2>2, <2>3 DEF LoopThread
<1> QED
  BY <1>1, <1>2, <1>3, <1>4 DEF ClientStep

(* Seen from the window, each step of the two threads is one of ClientLife,   *)
(* or none: the object is only destroyed after the loop thread has ended, and *)
(* a thread that has ended has closed what it polled.                         *)
LEMMA ClientLifeStep ==
  ASSUME ClientTypeOK, ThreadInv, ChanInv, ClientStep
  PROVE  [Life!Next]_<< LifeOf, LinkOf >>
<1> USE DEF Life!Next, LifeOf, LinkOf
<1>1. CASE Create
  BY <1>1 DEF Create, Life!Make
<1>2. CASE CreateSocket \/ Started \/ CloseSocket \/ StopLoop \/ NullLoop
  BY <1>2 DEF ChanInv, CreateSocket, Started, CloseSocket, StopLoop, NullLoop
<1>3. CASE CreateSocketFails
  BY <1>3 DEF CreateSocketFails, Life!Drop
<1>4. CASE StartThread
  BY <1>4 DEF StartThread, Life!Start
<1>5. CASE Send
  BY <1>5 DEF Send, Life!End
<1>6. CASE Destroyed
  <2>1. channel \notin {"connecting", "connected"}
    BY <1>6 DEF Destroyed, ThreadGone, ThreadInv, ChanInv
  <2> QED
    BY <1>6, <2>1 DEF Destroyed, ClientTypeOK, Life!Gone
<1>7. CASE LoopThread
  <2>1. LifeOf \in {"live", "ending"} /\ UNCHANGED client
    BY <1>7 DEF ClientTypeOK, ThreadInv, LoopThread, ThreadBegin, Run, CallHloopRun,
       EnterHloopRun, CustomEvent, ConnectDone, LeaveHloopRun, RunReturns, ThreadEnds
  <2>2. CASE UNCHANGED channel
    BY <2>1, <2>2
  <2>3. CASE channel' # channel
    <3>1. \/ channel = "opened" /\ channel' = "connecting"
          \/ channel = "connecting" /\ channel' = "connected"
          \/ channel \in {"opened", "connecting", "connected"} /\ channel' = "closed"
      BY <1>7, <2>3 DEF ClientTypeOK, ChanInv, LoopThread, ThreadBegin, Run, CallHloopRun,
         EnterHloopRun, CustomEvent, ConnectDone, LeaveHloopRun, RunReturns, ThreadEnds
    <3>2. UNCHANGED LifeOf
      BY <2>1
    <3> QED
      BY <2>1, <3>1, <3>2 DEF Life!Connect, Life!Connected, Life!Close, Life!Live
  <2> QED
    BY <2>2, <2>3
<1> QED
  BY <1>1, <1>2, <1>3, <1>4, <1>5, <1>6, <1>7 DEF ClientStep

-----------------------------------------------------------------------------
(* The destructor leaves the closing of the channel behind: it is queued      *)
(* until the loop thread has done it, and a closed channel stays closed.      *)
ClosePending == \E i \in 1 .. Len(customEvents) : customEvents[i] = "close"
CloseInv == client \in {"stopping", "nulling", "waiting"} => ClosePending \/ channel = "closed"

LEMMA ClientClose ==
  ASSUME ClientTypeOK, ThreadInv, CloseInv, ClientStep
  PROVE  CloseInv'
<1> DEFINE q == customEvents
<1>0. q \in Seq(Functors) /\ Len(q) \in Nat
  BY LenProperties DEF ClientTypeOK
<1>1. CASE \/ Create \/ CreateSocket \/ CreateSocketFails \/ StartThread \/ Started \/ Send
           \/ Destroyed
  BY <1>1 DEF Create, CreateSocket, CreateSocketFails, StartThread, Started, Send, Destroyed,
     CloseInv
<1>2. CASE CloseSocket
  <2>1. q' = Append(q, "close")
    BY <1>2 DEF CloseSocket, ThreadInv
  <2>2. Len(q') = Len(q) + 1 /\ q'[Len(q) + 1] = "close"
    BY <1>0, <2>1, AppendProperties DEF Functors
  <2>3. ClosePending'
    BY <1>0, <2>2 DEF ClosePending
  <2> QED
    BY <2>3 DEF CloseInv
<1>3. CASE CustomEvent
  <2>1. /\ q # << >> /\ Len(q') = Len(q) - 1
        /\ \A j \in 1 .. Len(q') : q'[j] = q[j + 1]
    BY <1>0, <1>3, HeadTailProperties DEF CustomEvent
  <2>2. channel = "closed" => channel' = "closed"
    BY <1>3 DEF CustomEvent
  <2>3. ASSUME NEW i \in 1 .. Len(q), q[i] = "close" PROVE ClosePending' \/ channel' = "closed"
    <3>1. CASE i = 1
      BY <1>3, <2>3, <3>1 DEF CustomEvent
    <3>2. CASE i # 1
      <4>1. i - 1 \in 1 .. Len(q') /\ (i - 1) + 1 = i
        BY <1>0, <2>1, <3>2
      <4>2. q'[i - 1] = "close"
        BY <2>1, <2>3, <4>1
      <4> QED
        BY <4>1, <4>2 DEF ClosePending
    <3> QED
      BY <3>1, <3>2
  <2>4. UNCHANGED client
    BY <1>3 DEF CustomEvent
  <2> QED
    BY <2>2, <2>3, <2>4 DEF CloseInv, ClosePending
<1>4. CASE ThreadBegin
  BY <1>4 DEF ThreadBegin, ThreadInv, CloseInv, Running
<1>5. CASE \/ StopLoop \/ NullLoop \/ Run \/ CallHloopRun \/ EnterHloopRun \/ ConnectDone
           \/ LeaveHloopRun \/ RunReturns \/ ThreadEnds
  <2>1. /\ UNCHANGED q /\ (channel = "closed" => channel' = "closed")
        /\ client' \in {"stopping", "nulling", "waiting"}
             => client \in {"stopping", "nulling", "waiting"}
    BY <1>5 DEF StopLoop, NullLoop, Run, CallHloopRun, EnterHloopRun, ConnectDone,
       LeaveHloopRun, RunReturns, ThreadEnds
  <2> QED
    BY <2>1 DEF CloseInv, ClosePending
<1> QED
  BY <1>1, <1>2, <1>3, <1>4, <1>5 DEF ClientStep, LoopThread

-----------------------------------------------------------------------------
(* The end of the client: what stop() leaves behind for the loop thread, and  *)
(* how many events can wait for it.  "connect" and "close" are queued once    *)
(* each in the life of a client, and at most one end of a timer.              *)
HasKill == \E i \in 1 .. Len(customEvents) : customEvents[i] = "kill"
Queued ==
  CASE client \in {"created", "socket"}           -> 0
    [] client = "starting" /\ thread = "begin"     -> 0
    [] client = "starting" /\ thread # "begin"     -> 1
    [] client \in {"started", "closing"}           -> 1
    [] OTHER                                      -> 2

StopInv ==
  /\ client \notin {"nulling", "waiting"} /\ Running => loopStatus = kRunning
  /\ client \in {"nulling", "waiting"} => loopStatus # kRunning
  /\ client = "waiting" => loopPtr = "null"
  /\ client \in {"nulling", "waiting"} /\ thread = "none" => threadStatus = kStopped
  /\ client # "none" => Len(customEvents) <= Queued + (IF HasKill THEN 1 ELSE 0)

(* Adding or removing a functor that is not killTimer's keeps killTimer's.    *)
LEMMA KillKept ==
  ASSUME customEvents \in Seq(Functors),
         \/ customEvents' = customEvents
         \/ \E f \in {"connect", "close"} : customEvents' = Append(customEvents, f)
         \/ /\ customEvents # << >> /\ Head(customEvents) # "kill"
            /\ customEvents' = Tail(customEvents)
  PROVE  HasKill => HasKill'
<1> DEFINE q == customEvents
<1> SUFFICES ASSUME NEW i \in 1 .. Len(q), q[i] = "kill"
             PROVE  \E j \in 1 .. Len(q') : q'[j] = "kill"
  BY DEF HasKill
<1>0. Len(q) \in Nat
  BY LenProperties
<1>1. CASE q' = q
  BY <1>1
<1>2. ASSUME NEW f \in {"connect", "close"}, q' = Append(q, f)
      PROVE  \E j \in 1 .. Len(q') : q'[j] = "kill"
  <2>1. Len(q') = Len(q) + 1 /\ q'[i] = q[i]
    BY <1>2, AppendProperties DEF Functors
  <2> QED
    BY <1>0, <2>1
<1>3. CASE q # << >> /\ Head(q) # "kill" /\ q' = Tail(q)
  <2>1. Len(q') = Len(q) - 1 /\ \A j \in 1 .. Len(q') : q'[j] = q[j + 1]
    BY <1>3, HeadTailProperties
  <2>2. q[1] # "kill"
    BY <1>3
  <2>3. i - 1 \in 1 .. Len(q')
    BY <1>0, <2>1, <2>2
  <2>4. q'[i - 1] = q[(i - 1) + 1]
    BY <2>1, <2>3
  <2> QED
    BY <2>3, <2>4
<1> QED
  BY <1>1, <1>2, <1>3

LEMMA ClientStop ==
  ASSUME ClientTypeOK, ThreadInv, StopInv, ClientStep
  PROVE  StopInv'
<1> DEFINE q == customEvents
           kill == IF HasKill THEN 1 ELSE 0
<1>0. q \in Seq(Functors) /\ Len(q) \in Nat
  BY LenProperties DEF ClientTypeOK
<1>1. CASE Create
  <2>1. q' = << >> /\ Len(q') = 0 /\ client' = "created" /\ thread' = "none"
    BY <1>1 DEF Create
  <2> QED
    BY <2>1 DEF StopInv, Queued, Running
<1>2. CASE ~ Create
  <2>1. \/ q' = q
        \/ \E f \in {"connect", "close"} : q' = Append(q, f)
        \/ q # << >> /\ Head(q) # "kill" /\ q' = Tail(q)
    BY <1>2 DEF ClientStep, CreateSocket, CreateSocketFails, StartThread, Started, Send,
       CloseSocket, StopLoop, NullLoop, Destroyed, LoopThread, ThreadBegin, Run, CallHloopRun,
       EnterHloopRun, CustomEvent, ConnectDone, LeaveHloopRun, RunReturns, ThreadEnds
  <2>2. HasKill => HasKill'
    BY <1>0, <2>1, KillKept
  <2>3. ASSUME NEW f \in {"connect", "close"}, q' = Append(q, f) PROVE Len(q') = Len(q) + 1
    BY <1>0, <2>3, AppendProperties DEF Functors
  <2>4. ASSUME q # << >>, q' = Tail(q) PROVE Len(q') = Len(q) - 1
    BY <1>0, <2>4, HeadTailProperties
  <2> USE DEF StopInv, ThreadInv, Running, kInitialized, kStarting, kStarted, kRunning,
              kStopping, kStopped
  <2>5. /\ client' \notin {"nulling", "waiting"} /\ Running' => loopStatus' = kRunning
        /\ client' \in {"nulling", "waiting"} => loopStatus' # kRunning
        /\ client' = "waiting" => loopPtr' = "null"
        /\ client' \in {"nulling", "waiting"} /\ thread' = "none" => threadStatus' = kStopped
    BY <1>2 DEF ClientTypeOK, ClientStep, LoopUp, ThreadGone, CreateSocket, CreateSocketFails,
       StartThread, Started, Send, CloseSocket, StopLoop, NullLoop, Destroyed, LoopThread,
       ThreadBegin, Run, CallHloopRun, EnterHloopRun, CustomEvent, ConnectDone, LeaveHloopRun,
       RunReturns, ThreadEnds
  <2>6. ASSUME client' # "none" PROVE Len(q') <= Queued' + kill'
    <3>1. client # "none" /\ Len(q) <= Queued + kill
      BY <1>2, <2>6 DEF ClientStep, CreateSocket, CreateSocketFails, StartThread, Started, Send,
         CloseSocket, StopLoop, NullLoop, Destroyed, LoopThread, ThreadBegin, Run, CallHloopRun,
         EnterHloopRun, CustomEvent, ConnectDone, LeaveHloopRun, RunReturns, ThreadEnds
    <3>2. kill \in {0, 1} /\ kill' \in {0, 1} /\ kill <= kill'
      BY <2>2
    <3> HIDE DEF kill
    <3>3. CASE CloseSocket
      <4>1. Queued = 1 /\ Queued' = 2
        BY <3>3 DEF CloseSocket, Queued
      <4>2. q' = q \/ Len(q') = Len(q) + 1
        BY <2>3, <3>3 DEF CloseSocket
      <4> QED
        BY <1>0, <3>1, <3>2, <4>1, <4>2
    <3>4. CASE ThreadBegin
      <4>1. Queued = 0 /\ Queued' = 1
        BY <2>6, <3>1, <3>4 DEF ClientTypeOK, ThreadBegin, Queued
      <4>2. q' = q \/ Len(q') = Len(q) + 1
        BY <2>3, <3>4 DEF ThreadBegin
      <4> QED
        BY <1>0, <3>1, <3>2, <4>1, <4>2
    <3>5. CASE CustomEvent
      <4>1. Queued' = Queued /\ Queued \in Nat
        BY <3>5 DEF CustomEvent, Queued
      <4>2. Len(q') = Len(q) - 1
        BY <2>4, <3>5 DEF CustomEvent
      <4> QED
        BY <1>0, <3>1, <3>2, <4>1, <4>2
    <3>6. CASE \/ CreateSocket \/ CreateSocketFails \/ StartThread \/ Started \/ Send \/ StopLoop
               \/ NullLoop \/ Destroyed \/ Run \/ CallHloopRun \/ EnterHloopRun \/ ConnectDone
               \/ LeaveHloopRun \/ RunReturns \/ ThreadEnds
      <4>1. q' = q
        BY <3>6 DEF CreateSocket, CreateSocketFails, StartThread, Started, Send, StopLoop,
           NullLoop, Destroyed, Run, CallHloopRun, EnterHloopRun, ConnectDone, LeaveHloopRun,
           RunReturns, ThreadEnds
      <4>2. Queued \in Nat /\ Queued' \in Nat /\ Queued <= Queued'
        BY <2>6, <3>1, <3>6 DEF Queued, LoopUp, CreateSocket, CreateSocketFails, StartThread,
           Started, Send, StopLoop, NullLoop, Destroyed, Run, CallHloopRun, EnterHloopRun,
           ConnectDone, LeaveHloopRun, RunReturns, ThreadEnds
      <4> QED
        BY <1>0, <3>1, <3>2, <4>1, <4>2
    <3> QED
      BY <1>2, <3>3, <3>4, <3>5, <3>6 DEF ClientStep, LoopThread
  <2> QED
    BY <2>5, <2>6
<1> QED
  BY <1>1, <1>2

(* The client waits for a thread that was told to stop and has at most k more *)
(* steps in its loop: an event costs one and may begin an attempt to connect, *)
(* whose end costs another.                                                   *)
Work == 2 * Len(customEvents) + (IF channel = "connecting" THEN 1 ELSE 0)
Ending(k) == client = "waiting" /\ thread = "polling" /\ stopFlag = TRUE /\ Work <= k
Waiting(t) == client = "waiting" /\ thread = t

LEMMA WorkType ==
  ASSUME ClientTypeOK, StopInv, client = "waiting"
  PROVE  Work \in Nat /\ Work <= 7
<1>1. Len(customEvents) \in Nat
  BY LenProperties DEF ClientTypeOK
<1>2. Queued = 2
  BY DEF Queued
<1> QED
  BY <1>1, <1>2 DEF StopInv, Work

(* While the client waits, the thread goes on from place to place, never back.*)
LEMMA WaitingStep ==
  ASSUME ClientTypeOK, ThreadInv, StopInv, client = "waiting", LoopThread
  PROVE  /\ client' = "waiting"
         /\ thread = "calling" => thread' = "returned"
         /\ thread = "entering" => StopLost'
         /\ thread = "polling" => \/ thread' = "returned"
                                  \/ thread' = "polling" /\ stopFlag' = stopFlag /\ Work' < Work
         /\ thread = "returned" => thread' = "asserting"
         /\ thread = "asserting" => thread' = "none"
         /\ thread # "none"
<1> USE DEF LoopThread, ThreadBegin, Run, CallHloopRun, EnterHloopRun, CustomEvent, ConnectDone,
            LeaveHloopRun, RunReturns, ThreadEnds
<1>1. client' = "waiting" /\ thread # "none"
  OBVIOUS
<1>2. loopPtr = "null"
  BY DEF StopInv
<1>3. /\ thread = "calling" => thread' = "returned"
      /\ thread = "returned" => thread' = "asserting"
      /\ thread = "asserting" => thread' = "none"
  BY <1>2
<1>4. thread = "entering" => thread' = "polling" /\ stopFlag' = FALSE
  OBVIOUS
<1>5. CASE thread = "polling"
  <2>1. customEvents \in Seq(Functors) /\ Len(customEvents) \in Nat
    BY LenProperties DEF ClientTypeOK
  <2>2. CASE CustomEvent
    <3>1. Len(customEvents') = Len(customEvents) - 1
      BY <2>1, <2>2, HeadTailProperties
    <3>2. thread' = "polling" /\ stopFlag' = stopFlag
      BY <1>5, <2>2
    <3> QED
      BY <1>1, <1>5, <2>1, <3>1, <3>2 DEF Work
  <2>3. CASE ConnectDone
    <3>1. /\ thread' = "polling" /\ stopFlag' = stopFlag /\ customEvents' = customEvents
          /\ channel = "connecting" /\ channel' # "connecting"
      BY <1>5, <2>3
    <3> QED
      BY <1>1, <1>5, <2>1, <3>1 DEF Work
  <2>4. CASE LeaveHloopRun
    BY <1>1, <1>5, <2>4
  <2> QED
    BY <1>5, <2>2, <2>3, <2>4
<1> QED
  BY <1>1, <1>3, <1>4, <1>5 DEF StopLost

(* The GUI thread waits for the loop thread to run or to end: the loop thread *)
(* has a step to take, but for the stop that was lost.                        *)
LEMMA WaitsForStep ==
  ASSUME ClientTypeOK, ThreadInv, StopInv, CloseInv, GuiWaits,
         NEW functors, customEvents # << >> => Head(customEvents) \in functors
  PROVE  ThreadReady(functors) \/ HungStop
<1>1. CASE client = "starting" /\ ~ LoopUp
  <2>1. thread \in {"begin", "run"}
    BY <1>1 DEF ThreadInv, StopInv, Running, LoopUp, kRunning, kInitialized
  <2> QED
    BY <2>1 DEF ThreadReady
<1>2. CASE client = "waiting" /\ threadStatus # kStopped
  <2>1. thread \in {"calling", "entering", "polling", "returned", "asserting"}
    BY <1>2 DEF ClientTypeOK, ThreadInv, StopInv
  <2>2. CASE thread # "polling"
    BY <2>1, <2>2 DEF ThreadReady
  <2>3. CASE thread = "polling" /\ ~ ThreadReady(functors)
    <3>1. stopFlag = FALSE /\ channel # "connecting" /\ customEvents = << >>
      BY <2>3 DEF ThreadReady, ClientTypeOK
    <3>2. ~ ClosePending
      BY <3>1, EmptySeq DEF ClosePending
    <3>3. channel = "closed"
      BY <1>2, <3>2 DEF CloseInv
    <3> QED
      BY <1>2, <2>3, <3>1, <3>3 DEF HungStop, StopLost
  <2> QED
    BY <2>2, <2>3
<1> QED
  BY <1>1, <1>2 DEF GuiWaits, ThreadGone
=============================================================================
