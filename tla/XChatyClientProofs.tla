------------------------- MODULE XChatyClientProofs -------------------------
(* The chat window of the client, for any number of TcpClients, texts and     *)
(* lines: its types, its heartbeat timers, the end of its threads and the log *)
(* it shows.                                                                  *)
EXTENDS XChatyClient, TcpClientProofs

(* Where the client object is for each place of the GUI thread.               *)
GuiInv ==
  /\ gui \in {"ctor", "init"} => client \in {"none", "created", "socket", "starting"}
  /\ gui = "loop" => client \in {"created", "started"}
  /\ gui = "send" => client = "started" /\ sent < MaxTexts
  /\ gui \in {"delete", "dtor"} => client \in {"closing", "stopping", "nulling", "waiting"}
  /\ gui = "gone" => client = "none" /\ postedEvents = << >>
  /\ client # "none" => clients > 0
  /\ gui = "ctor" /\ client = "none" => clients = 0
  /\ gui = "init" /\ client = "none" => clients < MaxClients
  /\ gui = "delete" => clients < MaxClients

(* The timers and the queued ends of timers: a timer is only ended when the   *)
(* channel is closed, which it stays, and one is queued only after the loop   *)
(* was told to stop.                                                          *)
TimerInv ==
  /\ channel \in {"none", "opened", "connecting"} => timers = 0 /\ sent = 0
  /\ channel = "connected" => timers = 1 \/ (timers = 0 /\ loopPtr = "null")

Kill(i) == customEvents[i] = "kill"
QueueInv ==
  /\ \A i, j \in 1 .. Len(customEvents) : Kill(i) /\ Kill(j) => i = j
  /\ \A i \in 1 .. Len(customEvents) :
       Kill(i) => timers > 0 /\ channel = "closed" /\ loopStatus # kRunning

(* All of it but the log, and the inductive invariant.                        *)
ClientInv == TypeOK /\ ThreadInv /\ GuiInv /\ ChanInv /\ TimerInv /\ QueueInv
Inv == ClientInv /\ LogInv

LEMMA LineType ==
  ASSUME clients \in 1 .. MaxClients, NEW kind \in {"connected", "chat", "disconnected"}
  PROVE  Line(kind) \in Lines
BY DEF Line, Lines

LEMMA InitInv == Init => Inv
<1> SUFFICES ASSUME Init PROVE Inv
  OBVIOUS
<1> USE BoundsAssumption
<1>1. ClientTypeOK /\ ThreadInv
  BY ThreadInvInit DEF Init
<1>2. TypeOK
  BY <1>1 DEF Init, TypeOK
<1>3. GuiInv /\ ChanInv /\ TimerInv
  BY DEF Init, NoClient, GuiInv, ChanInv, TimerInv
<1>4. QueueInv
  BY DEF Init, NoClient, QueueInv
<1>5. LogInv
  <2>1. Whole = << >> /\ Len(Whole) = 0
    BY ConcatEmptySeq DEF Whole, Init
  <2> QED
    BY <2>1 DEF LogInv, Init, NoClient
<1> QED
  BY <1>1, <1>2, <1>3, <1>4, <1>5 DEF Inv, ClientInv

-----------------------------------------------------------------------------
(* What the steps that are not of TcpClient leave of it.                      *)
Kept == << client, thread, loopStatus, threadStatus, loopPtr, stopFlag >>

LEMMA KeptThread ==
  ASSUME ClientTypeOK, ThreadInv, UNCHANGED Kept
  PROVE  ThreadInv' /\ stopFlag' \in BOOLEAN
BY DEF Kept, ClientTypeOK, ThreadInv, AssertIsStopped, Running

(* A step of the loop thread that calls back was connecting or connected and  *)
(* is now connected or closed; one that does not leaves the channel, opens    *)
(* the attempt, or closes what was never told to connect.                     *)
LEMMA CallbackSteps ==
  ASSUME ClientInv, ClientLoop
  PROVE  /\ LoopThread /\ UNCHANGED << gui, clients, sent, chatEdit, client, loopPtr >>
         /\ client # "none"
         /\ IF CallsBack
              THEN /\ onConnection
                   /\ \/ channel = "connecting" /\ channel' \in {"connected", "closed"}
                      \/ channel = "connected" /\ channel' = "closed"
              ELSE /\ UNCHANGED << timers, postedEvents >>
                   /\ \/ channel' = channel
                      \/ channel = "opened" /\ channel' \in {"connecting", "closed"}
<1> USE DEF LoopThread, ThreadBegin, Run, CallHloopRun, EnterHloopRun,
            CustomEvent, ConnectDone, LeaveHloopRun, RunReturns, ThreadEnds
<1>1. LoopThread /\ UNCHANGED << gui, clients, sent, chatEdit, client, loopPtr >>
  BY DEF ClientLoop
<1>2. client # "none"
  BY DEF ClientLoop, ClientInv, ThreadInv
<1>3. /\ channel' # channel => channel' \in {"connecting", "connected", "closed"}
      /\ channel' = "connecting" => channel \in {"opened", "connecting"}
      /\ channel' = "connected" => channel \in {"connected", "connecting"}
      /\ channel \in {"opened", "connecting", "connected", "closed", "none"}
      /\ channel = "none" => channel' = channel
      /\ channel' \in {"none", "opened", "connecting", "connected", "closed"}
  BY DEF ClientLoop, ClientInv, TypeOK, ClientTypeOK, ChanInv
<1>4. CASE CallsBack
  BY <1>1, <1>2, <1>3, <1>4 DEF ClientLoop, CallsBack
<1>5. CASE ~ CallsBack
  <2>1. UNCHANGED << timers, postedEvents >>
    BY <1>5 DEF ClientLoop
  <2>2. \/ channel' = channel
        \/ channel = "opened" /\ channel' \in {"connecting", "closed"}
    BY <1>3, <1>5 DEF CallsBack
  <2> QED
    BY <1>1, <1>2, <1>5, <2>1, <2>2
<1> QED
  BY <1>4, <1>5

(* SendMsg of a client that is not connected, and the end of the window.      *)
Deletes == SendMsgReconnect \/ Close

LEMMA DeleteSteps ==
  ASSUME Deletes
  PROVE  /\ gui = "loop" /\ UNCHANGED << clients, timers, sent, chatEdit >>
         /\ UNCHANGED << thread, loopPtr, loopStatus, threadStatus, stopFlag,
                         customEvents, channel >>
         /\ \/ client = "created" /\ client' = "none" /\ gui' \in {"init", "gone"}
            \/ client = "started" /\ client' = "closing" /\ gui' \in {"delete", "dtor"}
         /\ gui' \in {"init", "delete"} => clients < MaxClients
         /\ postedEvents' = IF gui' = "gone" THEN << >> ELSE postedEvents
<1>1. CASE SendMsgReconnect
  BY <1>1 DEF SendMsgReconnect, DeleteClient, CreateSocketFails, lineVars
<1>2. CASE Close
  BY <1>2 DEF Close, DeleteClient, CreateSocketFails
<1> QED
  BY <1>1, <1>2 DEF Deletes

-----------------------------------------------------------------------------
(* Types.                                                                     *)
LEMMA TypeNext ==
  ASSUME ClientInv, [Next]_vars
  PROVE  TypeOK' /\ ThreadInv'
<1> USE DEF ClientInv, TypeOK
<1> USE BoundsAssumption
<1>1. CASE UNCHANGED vars
  BY <1>1 DEF vars, clientVars, lineVars, ClientTypeOK, ThreadInv, AssertIsStopped, Running
<1>2. CASE NewClient
  <2>1. ClientTypeOK' /\ ThreadInv'
    BY <1>2, ClientType, ClientThread DEF NewClient, ClientStep
  <2>2. clients' \in 0 .. MaxClients
    BY <1>2 DEF NewClient, InInitConnect, Create, GuiInv
  <2> QED
    BY <1>2, <2>1, <2>2 DEF NewClient, lineVars
<1>3. CASE InitConnectFails \/ customEvent \/ SendMsg \/ SendText \/ OnMessage
  <2>1. UNCHANGED clientVars
    BY <1>3 DEF InitConnectFails, customEvent, SendMsg, SendText, OnMessage
  <2>2. ClientTypeOK' /\ ThreadInv'
    BY <2>1, KeptThread DEF clientVars, Kept, ClientTypeOK
  <2>3. postedEvents' \in Seq(Lines) /\ chatEdit' \in Seq(Lines)
    <3>1. CASE customEvent
      BY <3>1, HeadTailProperties, AppendProperties DEF customEvent
    <3>2. CASE OnMessage
      <4>1. Line("chat") \in Lines
        BY <3>2, LineType DEF OnMessage, GuiInv, ThreadInv
      <4> QED
        BY <3>2, <4>1, AppendProperties DEF OnMessage, PostMsg
    <3>3. << >> \in Seq(Lines)
      OBVIOUS
    <3>4. CASE InitConnectFails \/ SendMsg \/ SendText
      BY <3>3, <3>4 DEF InitConnectFails, InitConnectReturns, SendMsg, SendText, lineVars
    <3> QED
      BY <1>3, <3>1, <3>2, <3>4
  <2>4. UNCHANGED << clients, timers >> /\ sent' \in 0 .. MaxTexts
        /\ gui' \in {"loop", "send"} \union {gui}
    BY <1>3 DEF InitConnectFails, InitConnectReturns, customEvent, SendMsg, SendText,
       OnMessage, GuiInv
  <2> QED
    BY <2>2, <2>3, <2>4
<1>4. CASE InitConnectDone \/ StartClient
  <2>1. ClientTypeOK' /\ ThreadInv'
    BY <1>4, ClientType, ClientThread DEF InitConnectDone, StartClient, ClientStep
  <2>2. << >> \in Seq(Lines)
    OBVIOUS
  <2> QED
    BY <1>4, <2>1, <2>2 DEF InitConnectDone, InitConnectReturns, StartClient, lineVars
<1>5. CASE Deletes
  <2>1. stopFlag' \in BOOLEAN
    BY <1>5, DeleteSteps DEF ClientTypeOK
  <2>2. ClientTypeOK'
    BY <1>5, <2>1, DeleteSteps DEF ClientTypeOK
  <2>3. ThreadInv'
    BY <1>5, DeleteSteps DEF ThreadInv, AssertIsStopped, Running
  <2>4. << >> \in Seq(Lines)
    OBVIOUS
  <2>5. /\ UNCHANGED << clients, timers, sent, chatEdit >>
        /\ gui' \in {"init", "delete", "dtor", "gone"}
        /\ postedEvents' \in {<< >>, postedEvents}
    BY <1>5, DeleteSteps
  <2> QED
    BY <2>2, <2>3, <2>4, <2>5
<1>6. CASE StopClient
  <2>1. ClientTypeOK' /\ ThreadInv'
    BY <1>6, ClientType, ClientThread DEF StopClient, ClientStep
  <2> QED
    BY <1>6, <2>1 DEF StopClient, lineVars
<1>7. CASE ClientDeleted
  <2>1. ClientTypeOK' /\ ThreadInv'
    BY <1>7, ClientType, ClientThread DEF ClientDeleted, ClientStep
  <2>2. << >> \in Seq(Lines)
    OBVIOUS
  <2> QED
    BY <1>7, <2>1, <2>2 DEF ClientDeleted
<1>8. CASE ClientLoop \/ OnClose
  <2>1. ClientTypeOK' /\ ThreadInv'
    <3>1. CASE ClientLoop
      BY <3>1, ClientType, ClientThread DEF ClientLoop, ClientStep
    <3>2. CASE OnClose
      <4>1. UNCHANGED Kept
        BY <3>2 DEF OnClose, Kept
      <4>2. ThreadInv' /\ stopFlag' \in BOOLEAN
        BY <4>1, KeptThread
      <4> QED
        BY <3>2, <4>2 DEF OnClose, ClientTypeOK
    <3> QED
      BY <1>8, <3>1, <3>2
  <2>2. UNCHANGED << gui, clients, sent, chatEdit >>
    BY <1>8 DEF ClientLoop, OnClose
  <2>3. \/ UNCHANGED << timers, postedEvents >>
        \/ onConnection /\ channel \in {"connecting", "connected"} /\ clients > 0
    BY <1>8, CallbackSteps DEF OnClose, GuiInv, ThreadInv
  <2>4. CASE onConnection /\ channel \in {"connecting", "connected"} /\ clients > 0
    <3>1. timers' \in 0 .. 2
      BY <2>4 DEF onConnection, setInterval, TimerInv
    <3>2. clients \in 1 .. MaxClients
      BY <2>4
    <3>3. postedEvents' \in Seq(Lines)
      BY <2>4, <3>2, LineType, AppendProperties DEF onConnection, PostMsg
    <3> QED
      BY <2>1, <2>2, <3>1, <3>3
  <2> QED
    BY <2>1, <2>2, <2>3, <2>4
<1>9. CASE KillEvent \/ OnTimer
  <2>1. UNCHANGED Kept /\ UNCHANGED << channel, gui, clients, sent, lineVars >>
    BY <1>9 DEF KillEvent, OnTimer, TimerStep, Kept
  <2>2. ThreadInv' /\ stopFlag' \in BOOLEAN
    BY <2>1, KeptThread
  <2>3. timers' \in 0 .. 2
    <3>1. CASE OnTimer
      BY <3>1 DEF OnTimer, TimerStep, killTimer
    <3>2. CASE KillEvent
      <4>1. customEvents \in Seq(Functors) /\ customEvents # << >> /\ timers' = timers - 1
            /\ Head(customEvents) = "kill"
        BY <3>2 DEF KillEvent, ClientTypeOK
      <4>2. 1 \in 1 .. Len(customEvents) /\ Kill(1)
        BY <4>1 DEF Kill
      <4> QED
        BY <4>1, <4>2 DEF QueueInv
    <3> QED
      BY <1>9, <3>1, <3>2
  <2>4. customEvents' \in Seq(Functors)
    <3>1. "kill" \in Functors
      BY DEF Functors
    <3>2. CASE OnTimer
      <4>1. customEvents' = customEvents \/ customEvents' = Append(customEvents, "kill")
        BY <3>2 DEF OnTimer, killTimer
      <4> QED
        BY <3>1, <4>1, AppendProperties DEF ClientTypeOK
    <3>3. CASE KillEvent
      BY <3>3, HeadTailProperties DEF KillEvent, ClientTypeOK
    <3> QED
      BY <1>9, <3>2, <3>3
  <2>5. ClientTypeOK'
    BY <2>1, <2>2, <2>4 DEF Kept, ClientTypeOK
  <2> QED
    BY <2>1, <2>2, <2>3, <2>5 DEF lineVars
<1> QED
  BY <1>1, <1>2, <1>3, <1>4, <1>5, <1>6, <1>7, <1>8, <1>9
     DEF Next, Gui, User, Loop, Server, InitConnect, Deletes

-----------------------------------------------------------------------------
(* The places of the GUI thread and of the channel.                           *)
LEMMA GuiNext ==
  ASSUME ClientInv, [Next]_vars
  PROVE  GuiInv'
<1> USE DEF GuiInv
<1> USE BoundsAssumption
<1>1. clients \in Nat /\ MaxClients \in Nat /\ sent \in Nat
  BY DEF ClientInv, TypeOK
<1>2. GuiInv /\ ThreadInv
  BY DEF ClientInv
<1>3. CASE UNCHANGED vars
  BY <1>2, <1>3 DEF vars, clientVars, lineVars
<1>4. CASE NewClient
  BY <1>1, <1>2, <1>4 DEF NewClient, InInitConnect, Create, lineVars
<1>5. CASE InitConnectFails \/ InitConnectDone
  BY <1>2, <1>5 DEF InitConnectFails, InitConnectDone, InInitConnect, InitConnectReturns,
     Started, clientVars
<1>6. CASE StartClient
  BY <1>2, <1>6 DEF StartClient, InInitConnect, CreateSocket, StartThread, lineVars
<1>7. CASE customEvent \/ SendMsg \/ SendText
  BY <1>2, <1>7 DEF customEvent, SendMsg, SendText, clientVars, lineVars
<1>8. CASE Deletes
  BY <1>2, <1>8, DeleteSteps
<1>9. CASE StopClient
  BY <1>2, <1>9 DEF StopClient, CloseSocket, StopLoop, NullLoop, lineVars
<1>10. CASE ClientDeleted
  BY <1>2, <1>10 DEF ClientDeleted, Destroyed
<1>11. CASE ClientLoop
  BY <1>2, <1>11, CallbackSteps
<1>12. CASE KillEvent \/ OnTimer \/ OnMessage \/ OnClose
  <2>1. client # "none" /\ UNCHANGED << gui, client, clients, sent >>
    BY <1>2, <1>12 DEF KillEvent, OnTimer, TimerStep, OnMessage, OnClose, clientVars, ThreadInv
  <2> QED
    BY <1>2, <2>1
<1> QED
  BY <1>3, <1>4, <1>5, <1>6, <1>7, <1>8, <1>9, <1>10, <1>11, <1>12
     DEF Next, Gui, User, Loop, Server, InitConnect, Deletes

(* A step of the window is one of its client, leaves the client, or ends a    *)
(* timer or the connection.                                                   *)
ClientVarsStep ==
  \/ ClientStep
  \/ UNCHANGED << client, thread, loopPtr, channel >>
  \/ OnClose

LEMMA StepCases ==
  ASSUME [Next]_vars
  PROVE  ClientVarsStep
<1>1. CASE NewClient \/ StartClient \/ InitConnectDone \/ StopClient \/ ClientDeleted \/ ClientLoop
  BY <1>1 DEF ClientVarsStep, ClientStep, NewClient, StartClient, InitConnectDone, StopClient,
     ClientDeleted, ClientLoop
<1>2. CASE SendMsgReconnect \/ Close
  <2>1. CreateSocketFails \/ Send
    BY <1>2 DEF SendMsgReconnect, Close, DeleteClient, Send
  <2> QED
    BY <2>1 DEF ClientVarsStep, ClientStep
<1>3. CASE \/ UNCHANGED vars \/ InitConnectFails \/ customEvent \/ SendMsg \/ SendText
           \/ OnMessage \/ KillEvent \/ OnTimer
  BY <1>3 DEF ClientVarsStep, vars, clientVars, InitConnectFails, customEvent, SendMsg, SendText,
     OnMessage, KillEvent, OnTimer, TimerStep
<1> QED
  BY <1>1, <1>2, <1>3 DEF ClientVarsStep, Next, Gui, User, Loop, Server, InitConnect

LEMMA ChanNext ==
  ASSUME ClientInv, [Next]_vars
  PROVE  ChanInv'
<1>1. ChanInv /\ ThreadInv /\ ClientTypeOK
  BY DEF ClientInv, TypeOK
<1>2. CASE ClientStep
  BY <1>1, <1>2, ClientChan
<1>3. CASE UNCHANGED << client, thread, loopPtr, channel >> \/ OnClose
  BY <1>1, <1>3 DEF ChanInv, OnClose
<1> QED
  BY <1>2, <1>3, StepCases DEF ClientVarsStep

LEMMA TimerNext ==
  ASSUME ClientInv, [Next]_vars
  PROVE  TimerInv'
<1> USE DEF TimerInv
<1>1. TimerInv /\ ChanInv /\ timers \in Nat /\ sent \in Nat
  BY DEF ClientInv, TypeOK
<1>2. CASE NewClient
  BY <1>2 DEF NewClient, Create
<1>3. CASE \/ UNCHANGED vars \/ InitConnectFails \/ customEvent \/ SendMsg \/ OnMessage
  BY <1>1, <1>3 DEF vars, clientVars, InitConnectFails, InitConnectReturns, customEvent, SendMsg,
     OnMessage
<1>4. CASE InitConnectDone \/ StartClient \/ StopClient \/ ClientDeleted
  BY <1>1, <1>4 DEF ChanInv, InitConnectDone, InitConnectReturns, Started, StartClient,
     CreateSocket, StartThread, StopClient, CloseSocket, StopLoop, NullLoop, ClientDeleted,
     Destroyed
<1>5. CASE SendText
  BY <1>1, <1>5 DEF SendText, CanSend, clientVars
<1>6. CASE Deletes
  BY <1>1, <1>6, DeleteSteps
<1>7. CASE ClientLoop
  BY <1>1, <1>7, CallbackSteps DEF onConnection, setInterval
<1>8. CASE OnClose
  BY <1>1, <1>8 DEF OnClose, onConnection, setInterval
<1>9. CASE OnTimer
  BY <1>1, <1>9 DEF OnTimer, TimerStep, killTimer
<1>10. CASE KillEvent
  <2>1. customEvents \in Seq(Functors) /\ customEvents # << >> /\ channel' = channel
        /\ Head(customEvents) = "kill"
    BY <1>10 DEF KillEvent, ClientInv, TypeOK, ClientTypeOK
  <2>2. 1 \in 1 .. Len(customEvents) /\ Kill(1)
    BY <2>1 DEF Kill
  <2> QED
    BY <2>1, <2>2 DEF QueueInv, ClientInv
<1> QED
  BY <1>2, <1>3, <1>4, <1>5, <1>6, <1>7, <1>8, <1>9, <1>10
     DEF Next, Gui, User, Loop, Server, InitConnect, Deletes

(* The queue: what a step appends, removes, or what it changes besides.       *)
LEMMA QueueNext ==
  ASSUME ClientInv, [Next]_vars
  PROVE  QueueInv'
<1> DEFINE q == customEvents
<1>1. /\ q \in Seq(Functors) /\ Len(q) \in Nat /\ timers \in Nat
      /\ QueueInv /\ ChanInv /\ TimerInv /\ ThreadInv
  BY LenProperties DEF ClientInv, TypeOK, ClientTypeOK
<1>2. ASSUME q' = q, loopStatus' = loopStatus \/ loopStatus' # kRunning,
             channel = "closed" => channel' = "closed" /\ timers' >= timers
      PROVE  QueueInv'
  <2>1. \A i \in 1 .. Len(q) : Kill(i) => channel = "closed" /\ timers' > 0
    <3>1. \A i \in 1 .. Len(q) : Kill(i) => channel = "closed" /\ timers > 0 /\ timers' >= timers
      BY <1>1, <1>2 DEF QueueInv
    <3>2. timers' \in Nat
      BY TypeNext DEF TypeOK
    <3> QED
      BY <1>1, <3>1, <3>2
  <2> QED
    BY <1>1, <1>2, <2>1 DEF QueueInv, Kill
<1>3. ASSUME NEW f \in Functors, f # "kill", q' = Append(q, f),
             UNCHANGED << loopStatus, channel, timers >>
      PROVE  QueueInv'
  <2>1. /\ Len(q') = Len(q) + 1 /\ q'[Len(q) + 1] = f
        /\ \A i \in 1 .. Len(q) : q'[i] = q[i]
    BY <1>1, <1>3, AppendProperties
  <2>2. \A i \in 1 .. Len(q') : q'[i] = "kill" => i \in 1 .. Len(q) /\ q[i] = "kill"
    BY <1>1, <1>3, <2>1
  <2> QED
    BY <1>1, <1>3, <2>2 DEF QueueInv, Kill
<1>4. ASSUME q # << >>, q' = Tail(q), Head(q) # "kill", loopStatus' = loopStatus,
             channel = "closed" => channel' = "closed" /\ timers' >= timers
      PROVE  QueueInv'
  <2>1. /\ Len(q') = Len(q) - 1 /\ \A i \in 1 .. Len(q') : q'[i] = q[i + 1]
    BY <1>1, <1>4, HeadTailProperties
  <2>2. \A i \in 1 .. Len(q') : i + 1 \in 1 .. Len(q)
    BY <1>1, <2>1
  <2>3. timers' \in Nat
    BY TypeNext DEF TypeOK
  <2> QED
    BY <1>1, <1>4, <2>1, <2>2, <2>3 DEF QueueInv, Kill
<1>5. CASE NewClient
  <2>1. q' = << >> /\ Len(q') = 0
    BY <1>5 DEF NewClient, Create
  <2> QED
    BY <2>1 DEF QueueInv
<1>6. CASE \/ UNCHANGED vars \/ InitConnectFails \/ customEvent \/ SendMsg \/ SendText \/ OnMessage
  BY <1>1, <1>2, <1>6 DEF vars, clientVars, InitConnectFails, InitConnectReturns, customEvent,
     SendMsg, SendText, OnMessage
<1>7. CASE InitConnectDone \/ StartClient \/ ClientDeleted
  BY <1>1, <1>2, <1>7 DEF InitConnectDone, InitConnectReturns, Started, StartClient, CreateSocket,
     StartThread, ClientDeleted, Destroyed, ChanInv
<1>8. CASE Deletes
  BY <1>1, <1>2, <1>8, DeleteSteps
<1>9. CASE StopClient
  <2>1. CASE StopLoop \/ NullLoop
    BY <1>1, <1>2, <1>9, <2>1 DEF StopClient, StopLoop, NullLoop, kRunning, kStopping
  <2>2. CASE CloseSocket
    <3>1. UNCHANGED << loopStatus, channel, timers >>
      BY <1>9, <2>2 DEF StopClient, CloseSocket
    <3>2. q' = q \/ q' = Append(q, "close")
      BY <2>2 DEF CloseSocket
    <3> QED
      BY <1>1, <1>2, <1>3, <3>1, <3>2 DEF Functors
  <2> QED
    BY <1>9, <2>1, <2>2 DEF StopClient
<1>10. CASE ClientLoop
  <2>1. LoopThread /\ channel = "closed" => channel' = "closed" /\ timers' = timers
    BY <1>10, CallbackSteps
  <2>2. CASE ThreadBegin
    <3>1. UNCHANGED << loopStatus, channel, timers >>
      BY <1>10, <2>2, CallbackSteps DEF ThreadBegin, CallsBack
    <3>2. q' = q \/ q' = Append(q, "connect")
      BY <2>2 DEF ThreadBegin
    <3> QED
      BY <1>1, <1>2, <1>3, <3>1, <3>2 DEF Functors
  <2>3. CASE Run
    <3>1. q' = q /\ channel = "opened"
      BY <1>1, <2>3 DEF Run, ChanInv
    <3>2. channel' = "opened"
      BY <2>3, <3>1 DEF Run
    <3> QED
      BY <1>1, <3>1, <3>2 DEF QueueInv, Kill
  <2>4. CASE CustomEvent
    <3>1. q # << >> /\ q' = Tail(q) /\ Head(q) # "kill" /\ loopStatus' = loopStatus
      BY <2>4 DEF CustomEvent
    <3>2. channel = "closed" => channel' = "closed" /\ timers' = timers
      BY <1>10, CallbackSteps
    <3> QED
      BY <1>1, <1>4, <3>1, <3>2
  <2>5. CASE \/ CallHloopRun \/ EnterHloopRun \/ ConnectDone
             \/ LeaveHloopRun \/ RunReturns \/ ThreadEnds
    <3>1. q' = q /\ (loopStatus' = loopStatus \/ loopStatus' # kRunning)
      BY <2>5 DEF CallHloopRun, EnterHloopRun, ConnectDone, LeaveHloopRun, RunReturns, ThreadEnds,
         kRunning, kStopped
    <3>2. channel = "closed" => channel' = "closed" /\ timers' = timers
      BY <1>10, CallbackSteps
    <3> QED
      BY <1>1, <1>2, <3>1, <3>2
  <2> QED
    BY <1>10, <2>2, <2>3, <2>4, <2>5, CallbackSteps DEF LoopThread
<1>11. CASE OnClose
  <2>1. q' = q /\ loopStatus' = loopStatus /\ channel = "connected"
    BY <1>11 DEF OnClose
  <2> QED
    BY <1>1, <1>2, <2>1
<1>12. CASE OnTimer
  <2>1. CASE channel = "connected" \/ loopStatus = kRunning
    <3>1. q' = q /\ UNCHANGED << channel, loopStatus >>
      BY <1>12, <2>1 DEF OnTimer, TimerStep, killTimer
    <3>2. \A i \in 1 .. Len(q) : ~ Kill(i)
      BY <1>1, <2>1 DEF QueueInv
    <3> QED
      BY <3>1, <3>2 DEF QueueInv, Kill
  <2>2. CASE channel # "connected" /\ loopStatus # kRunning
    <3>1. /\ timers' = timers /\ timers > 0 /\ UNCHANGED << channel, loopStatus >>
          /\ \A i \in 1 .. Len(q) : q[i] # "kill"
          /\ q' = q \/ q' = Append(q, "kill")
      BY <1>12, <2>2 DEF OnTimer, TimerStep, killTimer
    <3>2. channel = "closed"
      BY <1>1, <2>2, <3>1 DEF TimerInv, ClientInv, TypeOK, ClientTypeOK
    <3>3. CASE q' = Append(q, "kill")
      <4>1. /\ Len(q') = Len(q) + 1
            /\ \A i \in 1 .. Len(q) : q'[i] = q[i]
        BY <1>1, <3>3, AppendProperties DEF Functors
      <4>2. \A i \in 1 .. Len(q') : q'[i] = "kill" => i = Len(q) + 1
        BY <1>1, <3>1, <4>1
      <4> QED
        BY <1>1, <2>2, <3>1, <3>2, <4>2 DEF QueueInv, Kill
    <3> QED
      BY <1>1, <1>2, <3>1, <3>3
  <2> QED
    BY <2>1, <2>2
<1>13. CASE KillEvent
  <2>1. q # << >> /\ Head(q) = "kill" /\ q' = Tail(q)
    BY <1>13 DEF KillEvent
  <2>2. 1 \in 1 .. Len(q) /\ q[1] = "kill"
    BY <1>1, <2>1
  <2>3. \A i \in 1 .. Len(q') : q'[i] = q[i + 1] /\ i + 1 \in 1 .. Len(q)
    BY <1>1, <2>1, HeadTailProperties
  <2>4. \A i \in 1 .. Len(q') : q'[i] # "kill"
    BY <1>1, <2>2, <2>3 DEF QueueInv, Kill
  <2> QED
    BY <2>4 DEF QueueInv, Kill
<1> QED
  BY <1>5, <1>6, <1>7, <1>8, <1>9, <1>10, <1>11, <1>12, <1>13
     DEF Next, Gui, User, Loop, Server, InitConnect, Deletes

LEMMA ClientNext == ClientInv /\ [Next]_vars => ClientInv'
BY TypeNext, GuiNext, ChanNext, TimerNext, QueueNext DEF ClientInv

-----------------------------------------------------------------------------
(* The lines shown and posted, taken together.                                *)
LEMMA WholeType ==
  ASSUME TypeOK
  PROVE  /\ Whole \in Seq(Lines) /\ chatEdit \in Seq(Lines) /\ postedEvents \in Seq(Lines)
         /\ Len(Whole) = Len(chatEdit) + Len(postedEvents)
         /\ Len(Whole) \in Nat /\ Len(chatEdit) \in Nat /\ Len(postedEvents) \in Nat
         /\ \A i \in 1 .. Len(chatEdit) : Whole[i] = chatEdit[i]
         /\ \A i \in 1 .. Len(postedEvents) : Whole[Len(chatEdit) + i] = postedEvents[i]
<1>1. chatEdit \in Seq(Lines) /\ postedEvents \in Seq(Lines)
  BY DEF TypeOK
<1>2. Len(chatEdit) \in Nat /\ Len(postedEvents) \in Nat
  BY <1>1, LenProperties
<1>3. /\ Whole \in Seq(Lines) /\ Len(Whole) = Len(chatEdit) + Len(postedEvents)
      /\ \A i \in 1 .. Len(Whole) : Whole[i] = IF i <= Len(chatEdit) THEN chatEdit[i]
                                               ELSE postedEvents[i - Len(chatEdit)]
  BY <1>1, ConcatProperties DEF Whole
<1>4. ASSUME NEW i \in 1 .. Len(postedEvents)
      PROVE  Whole[Len(chatEdit) + i] = postedEvents[i]
  <2>1. /\ Len(chatEdit) + i \in 1 .. Len(Whole) /\ ~ (Len(chatEdit) + i <= Len(chatEdit))
        /\ (Len(chatEdit) + i) - Len(chatEdit) = i
    BY <1>2, <1>3
  <2> QED
    BY <1>3, <2>1
<1> QED
  BY <1>1, <1>2, <1>3, <1>4

(* Posting a line appends it to the whole; showing one leaves the whole.      *)
LEMMA WholePost ==
  ASSUME TypeOK, NEW line \in Lines, PostMsg(line), chatEdit' = chatEdit
  PROVE  Whole' = Append(Whole, line)
<1>1. chatEdit \in Seq(Lines) /\ postedEvents \in Seq(Lines) /\ << line >> \in Seq(Lines)
  BY WholeType
<1>2. postedEvents' = postedEvents \o << line >>
  BY <1>1, AppendIsConcat DEF PostMsg
<1>3. Whole' = (chatEdit \o postedEvents) \o << line >>
  BY <1>1, <1>2, ConcatAssociative DEF Whole
<1> QED
  BY <1>1, <1>3, WholeType, AppendIsConcat DEF Whole

LEMMA WholeShow ==
  ASSUME TypeOK, customEvent
  PROVE  Whole' = Whole
<1>1. chatEdit \in Seq(Lines) /\ postedEvents \in Seq(Lines) /\ postedEvents # << >>
  BY WholeType DEF customEvent
<1> DEFINE h == Head(postedEvents)
           t == Tail(postedEvents)
<1>2. h \in Lines /\ t \in Seq(Lines) /\ << h >> \in Seq(Lines)
  BY <1>1, HeadTailProperties
<1>3. postedEvents = << h >> \o t
  <2>1. << h >> \o t \in Seq(Lines) /\ Len(<< h >> \o t) = Len(postedEvents)
    BY <1>1, <1>2, HeadTailProperties, ConcatProperties, LenProperties
  <2>2. \A i \in 1 .. Len(postedEvents) : postedEvents[i] = (<< h >> \o t)[i]
    BY <1>1, <1>2, HeadTailProperties, ConcatProperties, LenProperties
  <2> QED
    BY <1>1, <2>1, <2>2, SeqEqual
<1>4. Whole' = (chatEdit \o << h >>) \o t
  BY <1>1, <1>2, AppendIsConcat DEF customEvent, Whole
<1> HIDE DEF h, t
<1>5. (chatEdit \o << h >>) \o t = chatEdit \o (<< h >> \o t)
  BY ONLY <1>1, <1>2, ConcatAssociative
<1> QED
  BY ONLY <1>3, <1>4, <1>5 DEF Whole

(* A line that may follow the last one keeps the log in order.                *)
Unconnected == channel \in {"none", "opened", "connecting"}

LEMMA LogPost ==
  ASSUME Inv, clients > 0, clients' = clients, chatEdit' = chatEdit, gui' = gui,
         NEW kind \in {"connected", "chat", "disconnected"}, PostMsg(Line(kind)),
         \/ /\ channel = "connecting" /\ kind # "chat"
            /\ channel' = IF kind = "connected" THEN "connected" ELSE "closed"
         \/ /\ channel = "connected" /\ kind # "connected"
            /\ channel' = IF kind = "chat" THEN "connected" ELSE "closed"
  PROVE  LogInv'
<1> DEFINE W == Whole
           line == Line(kind)
<1>1. LogInv /\ TypeOK
  BY DEF Inv, ClientInv
<1>2. line \in Lines /\ line.kind = kind /\ line.client = clients /\ clients \in Nat
  BY <1>1, LineType DEF TypeOK, Line
<1>3. W \in Seq(Lines) /\ Len(W) \in Nat /\ (W = << >> <=> Len(W) = 0)
  BY <1>1, WholeType, EmptySeq
<1>4. Whole' = Append(W, line)
  BY <1>1, <1>2, WholePost
<1>5. /\ Len(Whole') = Len(W) + 1 /\ Whole'[Len(W) + 1] = line /\ Whole' # << >>
      /\ \A i \in 1 .. Len(W) : Whole'[i] = W[i]
  BY <1>2, <1>3, <1>4, AppendProperties
<1>6. \A i \in 1 .. Len(W) : W[i].client \in Nat
  <2> TAKE i \in 1 .. Len(W)
  <2>1. W[i] \in Lines
    BY <1>3, ElementOfSeq
  <2> QED
    BY <2>1, BoundsAssumption DEF Lines
<1>7. Len(W) > 0 => Log!Follows(line, W[Len(W)])
  <2> SUFFICES ASSUME Len(W) > 0 PROVE Log!Follows(line, W[Len(W)])
    OBVIOUS
  <2>1. Len(W) \in 1 .. Len(W)
    BY <1>3
  <2>2. CASE channel = "connecting"
    <3>1. W[Len(W)].client < clients
      BY <1>1, <2>1, <2>2 DEF LogInv
    <3> QED
      BY <1>2, <1>6, <2>1, <2>2, <3>1 DEF Log!Follows
  <2>3. CASE channel = "connected"
    <3>1. W[Len(W)].client = clients /\ W[Len(W)].kind # "disconnected"
      BY <1>1, <2>3 DEF LogInv
    <3> QED
      BY <1>2, <2>3, <3>1 DEF Log!Follows
  <2> QED
    BY <2>2, <2>3
<1>8. Len(W) = 0 => Log!Follows(line, Log!Nothing)
  BY <1>1, <1>2, <1>3 DEF LogInv, Log!Follows, Log!Nothing
<1> HIDE DEF W, line
<1>9. \A i \in 1 .. Len(Whole') - 1 : Log!Follows(Whole'[i + 1], Whole'[i])
  <2>1. \A i \in 1 .. Len(W) - 1 : Log!Follows(W[i + 1], W[i])
    BY <1>1 DEF LogInv, W
  <2> TAKE i \in 1 .. Len(Whole') - 1
  <2>2. CASE i = Len(W)
    BY <1>3, <1>5, <1>7, <2>2
  <2>3. CASE i # Len(W)
    <3>1. i \in 1 .. Len(W) - 1 /\ i + 1 \in 1 .. Len(W) /\ i \in 1 .. Len(W)
      BY <1>3, <1>5, <2>3
    <3> QED
      BY <1>5, <2>1, <3>1
  <2> QED
    BY <2>2, <2>3
<1>10. Log!Follows(Whole'[1], Log!Nothing)
  <2>1. CASE Len(W) = 0
    BY <1>5, <1>8, <2>1
  <2>2. CASE Len(W) # 0
    <3>1. 1 \in 1 .. Len(W) /\ W # << >>
      BY <1>3, <2>2
    <3> QED
      BY <1>1, <1>5, <3>1 DEF LogInv, W
  <2> QED
    BY <2>1, <2>2
<1>11. \A i \in 1 .. Len(Whole') : Whole'[i].client <= clients
  <2>1. \A i \in 1 .. Len(W) : W[i].client <= clients
    BY <1>1, <1>2, <1>6 DEF LogInv, W
  <2> QED
    BY <1>2, <1>3, <1>5, <2>1
<1>12. channel' = "connected" =>
         /\ Whole' # << >> /\ Whole'[Len(Whole')].client = clients
         /\ Whole'[Len(Whole')].kind # "disconnected"
  BY <1>2, <1>5
<1>13. gui' = "ctor" => chatEdit' = << >>
  BY <1>1 DEF LogInv
<1>14. channel' \notin {"none", "opened", "connecting"}
  OBVIOUS
<1> QED
  BY <1>9, <1>10, <1>11, <1>12, <1>13, <1>14 DEF LogInv

(* A step that posts nothing: the lines stay, and no channel gets connected.  *)
LEMMA LogFrame ==
  ASSUME Inv, Whole' = Whole, clients' \in Nat, clients' >= clients,
         channel' \in {"none", "opened", "connecting"} => Unconnected \/ clients' > clients,
         channel' = "connected" => channel = "connected" /\ clients' = clients,
         gui' = "ctor" => chatEdit' = << >>
  PROVE  LogInv'
<1>1. LogInv /\ Whole \in Seq(Lines) /\ clients \in Nat
  BY WholeType DEF Inv, ClientInv, TypeOK
<1>2. \A i \in 1 .. Len(Whole) : Whole[i].client \in Nat
  <2> TAKE i \in 1 .. Len(Whole)
  <2>1. Whole[i] \in Lines
    BY <1>1, ElementOfSeq
  <2> QED
    BY <2>1, BoundsAssumption DEF Lines
<1>3. \A i \in 1 .. Len(Whole) : /\ Whole[i].client <= clients
                                 /\ Unconnected => Whole[i].client < clients
  BY <1>1, <1>2 DEF LogInv, Unconnected
<1>4. \A i \in 1 .. Len(Whole) :
        IF channel' \in {"none", "opened", "connecting"} THEN Whole[i].client < clients'
                                                        ELSE Whole[i].client <= clients'
  BY <1>1, <1>2, <1>3
<1> QED
  BY <1>1, <1>4 DEF LogInv

(* The posted lines are dropped: those shown are still such a log.            *)
LEMMA LogDrop ==
  ASSUME Inv, postedEvents' = << >>, channel # "connected", gui' # "ctor",
         UNCHANGED << chatEdit, clients, channel >>
  PROVE  LogInv'
<1>1. LogInv /\ TypeOK
  BY DEF Inv, ClientInv
<1>2. Whole' = chatEdit
  BY <1>1, ConcatEmptySeq, WholeType DEF Whole
<1>3. /\ Len(chatEdit) \in Nat /\ Len(Whole) \in Nat /\ Len(chatEdit) <= Len(Whole)
      /\ \A i \in 1 .. Len(chatEdit) : chatEdit[i] = Whole[i]
  BY <1>1, WholeType
<1>4. \A i \in 1 .. Len(chatEdit) - 1 : Log!Follows(chatEdit[i + 1], chatEdit[i])
  <2> TAKE i \in 1 .. Len(chatEdit) - 1
  <2>1. i \in 1 .. Len(Whole) - 1 /\ i \in 1 .. Len(chatEdit) /\ i + 1 \in 1 .. Len(chatEdit)
    BY <1>3
  <2>2. Log!Follows(Whole[i + 1], Whole[i])
    BY <1>1, <2>1 DEF LogInv
  <2> QED
    BY <1>3, <2>1, <2>2
<1>5. chatEdit # << >> => Log!Follows(chatEdit[1], Log!Nothing)
  <2> SUFFICES ASSUME chatEdit # << >> PROVE Log!Follows(chatEdit[1], Log!Nothing)
    OBVIOUS
  <2>1. chatEdit \in Seq(Lines) /\ Whole \in Seq(Lines)
    BY <1>1, WholeType
  <2>2. 1 \in 1 .. Len(chatEdit)
    BY <1>3, <2>1, EmptySeq
  <2>3. Whole # << >>
    BY <1>3, <2>1, <2>2, EmptySeq
  <2> QED
    BY <1>1, <1>3, <2>2, <2>3 DEF LogInv
<1>6. \A i \in 1 .. Len(chatEdit) :
        IF channel' \in {"none", "opened", "connecting"} THEN chatEdit[i].client < clients'
                                                        ELSE chatEdit[i].client <= clients'
  <2> TAKE i \in 1 .. Len(chatEdit)
  <2>1. i \in 1 .. Len(Whole)
    BY <1>3
  <2> QED
    BY <1>1, <1>3, <2>1 DEF LogInv
<1> QED
  BY <1>2, <1>4, <1>5, <1>6 DEF LogInv

LEMMA LogNext ==
  ASSUME Inv, [Next]_vars
  PROVE  LogInv'
<1>1. /\ ClientInv /\ TypeOK /\ LogInv /\ ThreadInv /\ GuiInv /\ ChanInv
      /\ clients \in Nat /\ clients' \in Nat
  BY TypeNext DEF Inv, ClientInv, TypeOK
<1>2. CASE NewClient
  BY <1>1, <1>2, LogFrame DEF NewClient, Create, lineVars, Whole, LogInv
<1>3. CASE InitConnectFails \/ InitConnectDone
  <2>1. UNCHANGED << clients, channel, postedEvents, chatEdit >> /\ gui' = "loop"
    BY <1>1, <1>3 DEF InitConnectFails, InitConnectDone, InitConnectReturns, Started, LogInv,
       clientVars
  <2> QED
    BY <1>1, <2>1, LogFrame DEF Whole, Unconnected
<1>4. CASE StartClient
  BY <1>1, <1>4, LogFrame DEF StartClient, CreateSocket, StartThread, lineVars, Whole, LogInv,
     ChanInv, Unconnected
<1>5. CASE customEvent
  <2>1. Whole' = Whole
    BY <1>1, <1>5, WholeShow
  <2>2. UNCHANGED << clients, channel >> /\ gui' = "loop"
    BY <1>5 DEF customEvent, clientVars
  <2> QED
    BY <1>1, <2>1, <2>2, LogFrame DEF Unconnected
<1>6. CASE UNCHANGED vars \/ SendMsg \/ SendText \/ StopClient \/ KillEvent \/ OnTimer
  <2>1. UNCHANGED << clients, channel, postedEvents, chatEdit >> /\ (gui' = "ctor" => gui = "ctor")
    BY <1>6 DEF vars, clientVars, lineVars, SendMsg, SendText, StopClient, CloseSocket,
       StopLoop, NullLoop, KillEvent, OnTimer, TimerStep
  <2> QED
    BY <1>1, <2>1, LogFrame DEF Whole, Unconnected, LogInv
<1>7. CASE Deletes \/ ClientDeleted
  <2>1. UNCHANGED << clients, channel, chatEdit >> /\ gui' # "ctor"
    BY <1>7, DeleteSteps DEF ClientDeleted, Destroyed
  <2>2. CASE postedEvents' = postedEvents
    BY <1>1, <2>1, <2>2, LogFrame DEF Whole, Unconnected
  <2>3. CASE postedEvents' # postedEvents
    <3>1. postedEvents' = << >>
      BY <1>7, <2>3, DeleteSteps DEF ClientDeleted
    <3>2. channel # "connected"
      <4>1. CASE ClientDeleted
        BY <1>1, <4>1 DEF ClientDeleted, Destroyed, ThreadGone, ThreadInv, ChanInv
      <4>2. CASE Deletes
        <5>1. client = "created" \/ gui' # "gone"
          BY <4>2, DeleteSteps
        <5> QED
          BY <1>1, <2>3, <4>2, <5>1, DeleteSteps DEF ChanInv, GuiInv
      <4> QED
        BY <1>7, <4>1, <4>2
    <3> QED
      BY <2>1, <3>1, <3>2, LogDrop
  <2> QED
    BY <2>2, <2>3
<1>8. CASE ClientLoop
  <2>1. UNCHANGED << gui, clients, chatEdit >> /\ clients > 0
    BY <1>1, <1>8, CallbackSteps DEF GuiInv
  <2>2. CASE CallsBack
    <3>1. /\ PostMsg(Line(IF channel' = "connected" THEN "connected" ELSE "disconnected"))
          /\ \/ channel = "connecting" /\ channel' \in {"connected", "closed"}
             \/ channel = "connected" /\ channel' = "closed"
      BY <1>1, <1>8, <2>2, CallbackSteps DEF onConnection
    <3>2. CASE channel' = "connected"
      <4>1. PostMsg(Line("connected")) /\ channel = "connecting"
        BY <3>1, <3>2
      <4> QED
        BY <2>1, <3>2, <4>1, LogPost
    <3>3. CASE channel' = "closed"
      <4>1. PostMsg(Line("disconnected")) /\ channel \in {"connecting", "connected"}
        BY <3>1, <3>3
      <4> QED
        BY <2>1, <3>3, <4>1, LogPost
    <3> QED
      BY <3>1, <3>2, <3>3
  <2>3. CASE ~ CallsBack
    <3>1. /\ postedEvents' = postedEvents
          /\ \/ channel' = channel
             \/ channel = "opened" /\ channel' \in {"connecting", "closed"}
      BY <1>1, <1>8, <2>3, CallbackSteps
    <3> QED
      BY <1>1, <2>1, <3>1, LogFrame DEF Whole, Unconnected, LogInv
  <2> QED
    BY <2>2, <2>3
<1>9. CASE OnMessage
  <2>1. /\ UNCHANGED << gui, clients, chatEdit, channel >> /\ clients > 0
        /\ channel = "connected" /\ PostMsg(Line("chat"))
    BY <1>1, <1>9 DEF OnMessage, clientVars, ThreadInv, GuiInv
  <2> QED
    BY <2>1, LogPost
<1>10. CASE OnClose
  <2>1. /\ UNCHANGED << gui, clients, chatEdit >> /\ clients > 0
        /\ channel = "connected" /\ channel' = "closed" /\ PostMsg(Line("disconnected"))
    BY <1>1, <1>10 DEF OnClose, onConnection, ThreadInv, GuiInv
  <2> QED
    BY <2>1, LogPost
<1> QED
  BY <1>2, <1>3, <1>4, <1>5, <1>6, <1>7, <1>8, <1>9, <1>10
     DEF Next, Gui, User, Loop, Server, InitConnect, Deletes

LEMMA InvNext == Inv /\ [Next]_vars => Inv'
BY ClientNext, LogNext DEF Inv

-----------------------------------------------------------------------------
(* The window, its client and the lines it posts and shows stay in the        *)
(* inductive invariant.                                                       *)
THEOREM InvCorrect == Spec => []Inv
<1> QED
  BY InitInv, InvNext, PTL DEF Spec

(* Every variable is well typed: a client never has more than two timers.     *)
THEOREM TypeCorrect == Spec => []TypeOK
<1>1. Inv => TypeOK
  BY DEF Inv, ClientInv
<1> QED
  BY <1>1, InvCorrect, PTL

(* A connected channel has one heartbeat timer.                               *)
THEOREM HeartbeatCorrect == Spec => []OneHeartbeat
<1>1. Inv => OneHeartbeat
  BY DEF Inv, ClientInv, TimerInv, OneHeartbeat
<1> QED
  BY <1>1, InvCorrect, PTL

(* The destructor of the window leaves no thread behind.                      *)
THEOREM CloseCorrect == Spec => []NoPostAfterClose
<1>1. Inv => NoPostAfterClose
  BY DEF Inv, ClientInv, GuiInv, ThreadInv, NoPostAfterClose
<1> QED
  BY <1>1, InvCorrect, PTL

(* The log of lines shown and posted is in order.                             *)
THEOREM LogInvCorrect == Spec => []LogInv
<1>1. Inv => LogInv
  BY DEF Inv
<1> QED
  BY <1>1, InvCorrect, PTL

(* ~EventLoop frees a loop itself only if no thread has run it.               *)
LEMMA FreedStep ==
  ASSUME Inv, [Next]_vars, client # "none", client' = "none", loopPtr = "set"
  PROVE  loopStatus = kInitialized /\ thread = "none"
<1>1. ThreadInv /\ ChanInv
  BY DEF Inv, ClientInv
<1>2. client \in {"created", "waiting"}
  <2>1. CASE Deletes
    BY <2>1, DeleteSteps
  <2>2. CASE ClientLoop
    <3>1. client' = client
      BY <2>2, CallbackSteps DEF Inv
    <3> QED
      BY <3>1
  <2> QED
    BY <2>1, <2>2 DEF Next, Gui, User, Loop, Server, InitConnect, Deletes, vars, clientVars,
       NewClient, Create, InitConnectFails, InitConnectDone, Started, StartClient, CreateSocket,
       StartThread, customEvent, SendMsg, SendText, StopClient, CloseSocket, StopLoop,
       NullLoop, ClientDeleted, Destroyed, KillEvent, OnTimer, TimerStep, OnMessage, OnClose
<1> QED
  BY <1>1, <1>2 DEF ThreadInv, ChanInv

THEOREM FreedOnce == Spec => HloopFreedOnce
<1>1. Inv /\ [Next]_vars =>
        [client # "none" /\ client' = "none" /\ loopPtr = "set"
           => loopStatus = kInitialized /\ thread = "none"]_vars
  BY FreedStep
<1> QED
  BY <1>1, InvCorrect, PTL DEF Spec, HloopFreedOnce

-----------------------------------------------------------------------------
(* Showing a line is a step of the log.                                       *)
LEMMA ShowStep ==
  ASSUME Inv, customEvent
  PROVE  Log!Next
<1> DEFINE n == Len(chatEdit)
           line == Head(postedEvents)
<1>1. /\ chatEdit \in Seq(Lines) /\ postedEvents \in Seq(Lines) /\ postedEvents # << >>
      /\ chatEdit' = Append(chatEdit, line) /\ LogInv /\ TypeOK
  BY WholeType DEF customEvent, Inv, ClientInv
<1>2. line \in Lines /\ line = postedEvents[1] /\ Len(postedEvents) >= 1
  BY <1>1, HeadTailProperties, LenProperties
<1>3. /\ n \in Nat /\ Len(postedEvents) \in Nat /\ Len(Whole) = n + Len(postedEvents)
      /\ \A i \in 1 .. n : Whole[i] = chatEdit[i]
  BY <1>1, WholeType
<1>4. Whole[n + 1] = line
  <2>1. 1 \in 1 .. Len(postedEvents)
    BY <1>2, <1>3
  <2> QED
    BY <1>1, <1>2, <2>1, WholeType
<1> HIDE DEF line
<1>5. line \in Log!Line
  BY <1>2 DEF Lines, Log!Line
<1>6. Log!Follows(line, Log!LastOf(chatEdit))
  <2>1. CASE chatEdit = << >>
    <3>1. Whole[1] = line /\ Len(Whole) >= 1 /\ Whole \in Seq(Lines)
      BY <1>1, <1>2, <1>3, <1>4, <2>1, WholeType, EmptySeq
    <3>2. Whole # << >>
      BY <3>1, EmptySeq
    <3> QED
      BY <1>1, <2>1, <3>1, <3>2 DEF LogInv, Log!LastOf
  <2>2. CASE chatEdit # << >>
    <3>1. n \in 1 .. Len(Whole) - 1 /\ n \in 1 .. n
      BY <1>1, <1>2, <1>3, <2>2, EmptySeq
    <3>2. Log!Follows(Whole[n + 1], Whole[n])
      BY <1>1, <3>1 DEF LogInv
    <3> QED
      BY <1>3, <1>4, <2>2, <3>1, <3>2 DEF Log!LastOf
  <2> QED
    BY <2>1, <2>2
<1> QED
  BY <1>1, <1>5, <1>6 DEF Log!Next

(* The window implements ClientLog: whichever of its clients are deleted, and *)
(* whenever, what it shows is such a log.                                     *)
THEOREM LogCorrect == Spec => LogSpec
<1>1. Init => Log!Init
  BY DEF Init, Log!Init
<1>2. ASSUME Inv, [Next]_vars PROVE [Log!Next]_chatEdit
  <2>1. CASE customEvent
    BY <1>2, <2>1, ShowStep
  <2>2. CASE InitConnectFails \/ InitConnectDone
    BY <1>2, <2>2 DEF InitConnectFails, InitConnectDone, InitConnectReturns, Inv, LogInv
  <2>3. CASE Deletes \/ ClientLoop
    BY <1>2, <2>3, DeleteSteps, CallbackSteps DEF Inv
  <2>4. CASE chatEdit' = chatEdit
    BY <2>4
  <2> QED
    BY <1>2, <2>1, <2>2, <2>3, <2>4
    DEF Next, Gui, User, Loop, Server, InitConnect, Deletes, NewClient, StartClient, SendMsg,
        SendText, StopClient, ClientDeleted, KillEvent, OnTimer, TimerStep, OnMessage, OnClose,
        vars, lineVars
<1>3. Inv /\ [Next]_vars => [Log!Next]_chatEdit
  BY <1>2
<1> QED
  BY <1>1, <1>3, InvCorrect, PTL DEF Spec, LogSpec, Log!Spec

-----------------------------------------------------------------------------
(* The window sees each of its clients live as ClientLife says: one           *)
(* connection each, never again connected once it is closed, and none         *)
(* destroyed while its connection is on.                                      *)
THEOREM ClientLives == Spec => LifeSpec
<1>1. Init => Life!Init
  BY DEF Init, NoClient, Life!Init, LifeOf, LinkOf
<1>2. ASSUME Inv, [Next]_vars PROVE [Life!Next]_<< LifeOf, LinkOf >>
  <2>1. ClientTypeOK /\ ThreadInv /\ ChanInv
    BY <1>2 DEF Inv, ClientInv, TypeOK
  <2>2. CASE ClientStep
    BY <2>1, <2>2, ClientLifeStep
  <2>3. CASE UNCHANGED << client, thread, loopPtr, channel >>
    BY <2>3 DEF LifeOf, LinkOf
  <2>4. CASE OnClose
    <3>1. UNCHANGED LifeOf
      BY <2>4 DEF OnClose, LifeOf
    <3>2. LinkOf = "connected" /\ LinkOf' = "closed"
      BY <2>4 DEF OnClose, LinkOf
    <3>3. client \notin {"none", "created", "socket"}
      BY <2>1, <2>4 DEF OnClose, ThreadInv
    <3>4. LifeOf \in {"live", "ending"}
      BY <2>1, <3>3 DEF ClientTypeOK, LifeOf
    <3> QED
      BY <3>1, <3>2, <3>4 DEF Life!Next, Life!Close, Life!Live
  <2> QED
    BY <1>2, <2>2, <2>3, <2>4, StepCases DEF ClientVarsStep
<1>3. Inv /\ [Next]_vars => [Life!Next]_<< LifeOf, LinkOf >>
  BY <1>2
<1> QED
  BY <1>1, <1>3, InvCorrect, PTL DEF Spec, LifeSpec, Life!Spec

-----------------------------------------------------------------------------
(* Liveness: the end of a client leaves the loop thread a bounded number of   *)
(* events, among them the end of at most one timer.                           *)
LiveInv == ClientInv /\ StopInv

LEMMA StopNext ==
  ASSUME LiveInv, [Next]_vars
  PROVE  StopInv'
<1> DEFINE q == customEvents
<1>0. q \in Seq(Functors) /\ Len(q) \in Nat
  BY LenProperties DEF LiveInv, ClientInv, TypeOK, ClientTypeOK
<1>1. CASE ClientStep
  BY <1>1, ClientStop DEF LiveInv, ClientInv, TypeOK
<1>2. CASE UNCHANGED << client, thread, loopStatus, threadStatus, loopPtr, customEvents >>
  BY <1>2 DEF LiveInv, StopInv, Running, Queued, HasKill
<1>3. ASSUME UNCHANGED Kept, \/ Len(q') = Len(q) - 1 /\ Len(q) > 0
                             \/ ~ HasKill /\ HasKill' /\ Len(q') = Len(q) + 1
      PROVE  StopInv'
  <2>1. Queued' = Queued /\ Queued \in Nat
    BY <1>3 DEF Kept, Queued
  <2>2. ASSUME client # "none" PROVE Len(q') <= Queued' + (IF HasKill' THEN 1 ELSE 0)
    BY <1>0, <1>3, <2>1, <2>2 DEF LiveInv, StopInv
  <2> QED
    BY <1>3, <2>2 DEF LiveInv, StopInv, Running, Kept
<1>4. CASE KillEvent
  <2>1. Len(q') = Len(q) - 1 /\ Len(q) > 0
    BY <1>0, <1>4, HeadTailProperties DEF KillEvent
  <2> QED
    BY <1>3, <1>4, <2>1 DEF KillEvent, Kept
<1>5. CASE OnTimer
  <2>1. UNCHANGED Kept /\ (q' = q \/ (q' = Append(q, "kill") /\ ~ HasKill))
    BY <1>5 DEF OnTimer, TimerStep, killTimer, Kept, HasKill
  <2>2. CASE q' = q
    BY <1>2, <2>1, <2>2 DEF Kept
  <2>3. CASE q' = Append(q, "kill") /\ ~ HasKill
    <3>1. Len(q') = Len(q) + 1 /\ q'[Len(q) + 1] = "kill"
      BY <1>0, <2>3, AppendProperties DEF Functors
    <3>2. HasKill'
      BY <1>0, <3>1 DEF HasKill
    <3> QED
      BY <1>3, <2>1, <2>3, <3>1, <3>2
  <2> QED
    BY <2>1, <2>2, <2>3
<1>6. CASE NewClient \/ StartClient \/ InitConnectDone \/ StopClient \/ ClientDeleted \/ ClientLoop
  BY <1>1, <1>6 DEF ClientStep, NewClient, StartClient, InitConnectDone, StopClient, ClientDeleted,
     ClientLoop
<1>7. CASE SendMsgReconnect \/ Close
  <2>1. CreateSocketFails \/ Send
    BY <1>7 DEF SendMsgReconnect, Close, DeleteClient, Send
  <2> QED
    BY <1>1, <2>1 DEF ClientStep
<1>8. CASE \/ UNCHANGED vars \/ InitConnectFails \/ customEvent \/ SendMsg \/ SendText
           \/ OnMessage \/ OnClose
  BY <1>2, <1>8 DEF vars, clientVars, InitConnectFails, customEvent, SendMsg, SendText,
     OnMessage, OnClose
<1> QED
  BY <1>4, <1>5, <1>6, <1>7, <1>8 DEF Next, Gui, User, Loop, Server, InitConnect

THEOREM LiveInvCorrect == Spec => []LiveInv
<1>1. Init => LiveInv
  BY InitInv DEF Init, NoClient, Inv, LiveInv, StopInv, Running
<1>2. LiveInv /\ [Next]_vars => LiveInv'
  BY ClientNext, StopNext DEF LiveInv
<1> QED
  BY <1>1, <1>2, PTL DEF Spec

(* Every place of the two threads but their waits has a step that leaves it.  *)
HasTurn ==
  /\ gui \notin {"loop", "gone"} /\ ~ GuiWaits => GuiReady
  /\ ~ LoopWaits \/ TimerDue => LoopReady

LEMMA TurnCorrect == Spec => []HasTurn
<1>1. LiveInv => HasTurn
  <2> SUFFICES ASSUME LiveInv PROVE HasTurn
    OBVIOUS
  <2>1. gui \notin {"loop", "gone"} /\ ~ GuiWaits => GuiReady
    BY DEF LiveInv, ClientInv, TypeOK, GuiInv, GuiWaits, GuiReady, ClientReady, InInitConnect
  <2>2. customEvents # << >> => Head(customEvents) \in Functors
    BY HeadTailProperties DEF LiveInv, ClientInv, TypeOK, ClientTypeOK
  <2>3. ~ LoopWaits \/ TimerDue => LoopReady
    BY <2>2 DEF LiveInv, ClientInv, TypeOK, ClientTypeOK, LoopWaits, LoopReady, ThreadReady
  <2> QED
    BY <2>1, <2>3 DEF HasTurn
<1> QED
  BY <1>1, LiveInvCorrect, PTL

(* Ending a timer leaves the queued close where it is, or moves it up.        *)
LEMMA CloseNext ==
  ASSUME LiveInv, CloseInv, [Next]_vars
  PROVE  CloseInv'
<1> DEFINE q == customEvents
<1>0. q \in Seq(Functors) /\ Len(q) \in Nat
  BY LenProperties DEF LiveInv, ClientInv, TypeOK, ClientTypeOK
<1>1. CASE ClientStep
  BY <1>1, ClientClose DEF LiveInv, ClientInv, TypeOK
<1>2. CASE UNCHANGED << client, channel, customEvents >> \/ OnClose
  BY <1>2 DEF CloseInv, ClosePending, OnClose
<1>3. ASSUME UNCHANGED << client, channel >>, ClosePending => ClosePending' PROVE CloseInv'
  BY <1>3 DEF CloseInv
<1>4. CASE KillEvent
  <2>1. /\ q # << >> /\ q[1] = "kill" /\ Len(q') = Len(q) - 1
        /\ \A j \in 1 .. Len(q') : q'[j] = q[j + 1]
    BY <1>0, <1>4, HeadTailProperties DEF KillEvent
  <2>2. ASSUME NEW i \in 1 .. Len(q), q[i] = "close" PROVE ClosePending'
    <3>1. i # 1
      BY <2>1, <2>2
    <3>2. i - 1 \in 1 .. Len(q') /\ (i - 1) + 1 = i
      BY <1>0, <2>1, <3>1
    <3>3. q'[i - 1] = "close"
      BY <2>1, <2>2, <3>2
    <3> QED
      BY <3>2, <3>3 DEF ClosePending
  <2> QED
    BY <1>3, <1>4, <2>2 DEF KillEvent, ClosePending
<1>5. CASE OnTimer
  <2>1. UNCHANGED << client, channel >> /\ (q' = q \/ q' = Append(q, "kill"))
    BY <1>5 DEF OnTimer, TimerStep, killTimer
  <2>2. ASSUME q' = Append(q, "kill") PROVE ClosePending => ClosePending'
    <3>1. Len(q') = Len(q) + 1 /\ \A i \in 1 .. Len(q) : q'[i] = q[i]
      BY <1>0, <2>2, AppendProperties DEF Functors
    <3>2. \A i \in 1 .. Len(q) : i \in 1 .. Len(q')
      BY <1>0, <3>1
    <3> QED
      BY <3>1, <3>2 DEF ClosePending
  <2> QED
    BY <1>2, <1>3, <2>1, <2>2
<1>6. CASE NewClient \/ StartClient \/ InitConnectDone \/ StopClient \/ ClientDeleted \/ ClientLoop
  BY <1>1, <1>6 DEF ClientStep, NewClient, StartClient, InitConnectDone, StopClient, ClientDeleted,
     ClientLoop
<1>7. CASE SendMsgReconnect \/ Close
  <2>1. CreateSocketFails \/ Send
    BY <1>7 DEF SendMsgReconnect, Close, DeleteClient, Send
  <2> QED
    BY <1>1, <2>1 DEF ClientStep
<1>8. CASE \/ UNCHANGED vars \/ InitConnectFails \/ customEvent \/ SendMsg \/ SendText
           \/ OnMessage \/ OnClose
  BY <1>2, <1>8 DEF vars, clientVars, InitConnectFails, customEvent, SendMsg, SendText, OnMessage
<1> QED
  BY <1>4, <1>5, <1>6, <1>7, <1>8 DEF Next, Gui, User, Loop, Server, InitConnect

(* The window and the loop thread of its client never wait for each other,    *)
(* but for the one state in which the stop was lost: whichever client is      *)
(* made, loses its connection or is deleted, where the GUI thread waits the   *)
(* loop thread has a step to take.                                            *)
THEOREM DeadlockFree == Spec => []NoDeadlock
<1>1. Init => CloseInv
  BY DEF Init, NoClient, CloseInv
<1>2. LiveInv /\ CloseInv /\ [Next]_vars => CloseInv'
  BY CloseNext
<1>3. ASSUME LiveInv, CloseInv, HasTurn PROVE NoDeadlock
  <2>1. customEvents # << >> => Head(customEvents) \in Functors
    BY <1>3, HeadTailProperties DEF LiveInv, ClientInv, TypeOK, ClientTypeOK
  <2>2. GuiWaits => LoopReady \/ HungStop
    BY <1>3, <2>1, WaitsForStep DEF LiveInv, ClientInv, TypeOK, LoopReady
  <2>3. gui \notin {"loop", "gone"} /\ ~ GuiWaits => GuiReady
    BY <1>3 DEF HasTurn
  <2> QED
    BY <2>2, <2>3 DEF NoDeadlock
<1>4. LiveInv /\ CloseInv /\ HasTurn => NoDeadlock
  BY <1>3
<1> QED
  BY <1>1, <1>2, <1>4, LiveInvCorrect, TurnCorrect, PTL DEF Spec

-----------------------------------------------------------------------------
(* The timers of a connection that is lost: a timer or an event at a time.    *)
Beating(k) ==
  /\ client = "started" /\ channel = "closed" /\ thread = "polling"
  /\ timers + Len(customEvents) <= k

Done == timers = 0 \/ client # "started"

LEMMA BeatingMoves ==
  ASSUME LiveInv, NEW k \in Nat, Beating(k)
  PROVE  /\ [Next]_vars => Beating(k)' \/ client' # "started"
         /\ << Loop >>_vars => k > 0 /\ Beating(k - 1)'
<1> DEFINE q == customEvents
<1>1. /\ q \in Seq(Functors) /\ Len(q) \in Nat /\ timers \in Nat /\ timers + Len(q) <= k
      /\ client = "started" /\ channel = "closed" /\ thread = "polling"
      /\ loopStatus = kRunning /\ stopFlag = FALSE
  BY LenProperties DEF LiveInv, ClientInv, TypeOK, ClientTypeOK, ThreadInv, StopInv, Running,
     Beating
<1>2. ASSUME << Loop >>_vars PROVE k > 0 /\ Beating(k - 1)'
  <2>1. CASE ClientLoop
    <3>1. CustomEvent
      BY <1>1, <2>1 DEF ClientLoop, LoopThread, ThreadBegin, Run, CallHloopRun, EnterHloopRun,
         ConnectDone, LeaveHloopRun, RunReturns, ThreadEnds
    <3>2. channel' = "closed" /\ UNCHANGED << client, thread >>
      BY <1>1, <3>1 DEF CustomEvent
    <3>3. timers' = timers
      BY <1>1, <2>1, <3>2 DEF ClientLoop, CallsBack
    <3>4. Len(q') = Len(q) - 1 /\ Len(q) > 0
      BY <1>1, <3>1, HeadTailProperties DEF CustomEvent
    <3> QED
      BY <1>1, <3>2, <3>3, <3>4 DEF Beating
  <2>2. CASE KillEvent
    <3>1. Len(q') = Len(q) - 1 /\ Len(q) > 0
      BY <1>1, <2>2, HeadTailProperties DEF KillEvent
    <3>2. timers' = timers - 1 /\ UNCHANGED << client, thread, channel >>
      BY <2>2 DEF KillEvent
    <3> QED
      BY <1>1, <3>1, <3>2 DEF Beating
  <2>3. CASE OnTimer
    <3>1. timers' = timers - 1 /\ timers > 0 /\ UNCHANGED << client, thread, channel, q >>
      BY <1>1, <2>3 DEF OnTimer, TimerStep, killTimer
    <3> QED
      BY <1>1, <3>1 DEF Beating
  <2> QED
    BY <1>2, <2>1, <2>2, <2>3 DEF Loop
<1>3. ASSUME [Next]_vars, ~ Loop PROVE Beating(k)' \/ client' # "started"
  <2>1. \/ UNCHANGED << client, channel, thread, timers, customEvents >>
        \/ client' # "started"
    BY <1>1, <1>3 DEF Next, vars, clientVars, customEvent, Gui, User, Server, InitConnect,
       NewClient, Create, InitConnectFails, StartClient, CreateSocket, StartThread,
       InitConnectDone, Started, SendText, StopClient, CloseSocket, StopLoop, NullLoop,
       ClientDeleted, Destroyed, SendMsg, SendMsgReconnect, Close, DeleteClient,
       CreateSocketFails, OnMessage, OnClose
  <2> QED
    BY <1>1, <2>1 DEF Beating
<1>4. CASE UNCHANGED vars
  BY <1>4 DEF vars, clientVars, Beating
<1>5. ASSUME [Next]_vars, Beating(k - 1)' PROVE Beating(k)'
  <2>1. TypeOK'
    BY <1>5, TypeNext DEF LiveInv
  <2>2. Len(q') \in Nat /\ timers' \in Nat
    BY <2>1, LenProperties DEF TypeOK, ClientTypeOK
  <2> QED
    BY <1>5, <2>2 DEF Beating
<1>6. << Loop >>_vars => [Next]_vars
  BY DEF Next
<1> QED
  BY <1>2, <1>3, <1>4, <1>5, <1>6

(* Heartbeats of a lost connection end, whatever else the threads do: from    *)
(* the fairness of the loop thread, which can go on where it has a turn.      *)
THEOREM HeartbeatsStop == FairSpec /\ []ReadyIsEnabled => HeartbeatsEnd
<1>1. LiveInv /\ [Next]_vars =>
         /\ Beating(4) => Beating(4)' \/ Done'
         /\ Beating(3) => Beating(3)' \/ Done'
         /\ Beating(2) => Beating(2)' \/ Done'
         /\ Beating(1) => Beating(1)' \/ Done'
  BY BeatingMoves DEF Done
<1>2. LiveInv /\ << Loop >>_vars =>
         /\ Beating(4) => Beating(3)'
         /\ Beating(3) => Beating(2)'
         /\ Beating(2) => Beating(1)'
         /\ Beating(1) => Beating(0)'
  <2>1. \A k \in Nat : LiveInv /\ << Loop >>_vars /\ Beating(k) => Beating(k - 1)'
    BY BeatingMoves
  <2>2. 1 - 1 = 0 /\ 2 - 1 = 1 /\ 3 - 1 = 2 /\ 4 - 1 = 3
    OBVIOUS
  <2> QED
    BY <2>1, <2>2
<1>3. LiveInv /\ Beating(0) => Done
  BY LenProperties DEF LiveInv, ClientInv, TypeOK, ClientTypeOK, Beating, Done
<1>4. LiveInv /\ HasTurn /\ ReadyIsEnabled /\ (Beating(4) \/ Beating(3) \/ Beating(2) \/ Beating(1)) =>
        Done \/ ENABLED << Loop >>_vars
  <2>1. LiveInv /\ (Beating(4) \/ Beating(3) \/ Beating(2) \/ Beating(1)) => Done \/ TimerDue
    BY DEF LiveInv, StopInv, ClientInv, TypeOK, Running, Beating, TimerDue, Done
  <2> QED
    BY <2>1 DEF HasTurn, ReadyIsEnabled
<1>5. LiveInv /\ channel = "closed" /\ client = "started" => Beating(4)
  <2> SUFFICES ASSUME LiveInv, channel = "closed", client = "started" PROVE Beating(4)
    OBVIOUS
  <2>1. thread = "polling" /\ loopStatus = kRunning
    BY DEF LiveInv, StopInv, ClientInv, ThreadInv, ChanInv, Running
  <2>2. Len(customEvents) <= 2
    <3>1. Len(customEvents) \in Nat /\ Queued = 1
      BY LenProperties DEF LiveInv, ClientInv, TypeOK, ClientTypeOK, Queued
    <3> QED
      BY <3>1 DEF LiveInv, StopInv
  <2>3. timers \in 0 .. 2 /\ Len(customEvents) \in Nat
    BY LenProperties DEF LiveInv, ClientInv, TypeOK, ClientTypeOK
  <2> QED
    BY <2>1, <2>2, <2>3 DEF Beating
<1>6. << Loop >>_vars => [Next]_vars
  BY DEF Next
<1>7. Done <=> timers = 0 \/ client # "started"
  BY DEF Done
<1> QED
  BY <1>1, <1>2, <1>3, <1>4, <1>5, <1>6, <1>7, LiveInvCorrect, TurnCorrect, PTL
  DEF FairSpec, Fairness, Spec, HeartbeatsEnd

-----------------------------------------------------------------------------
(* The GUI thread comes back from InitConnect, from send() and from the       *)
(* deletion of a client: where it is, and what it waits for.                  *)
Connecting(place) == gui \in {"ctor", "init"} /\ client = place
Starting(t)       == Connecting("starting") /\ thread = t /\ ~ LoopUp
Up                == Connecting("starting") /\ LoopUp
Deleting(place)   == gui \in {"delete", "dtor"} /\ client = place
Sending           == gui = "send"
Back              == gui \in {"loop", "gone"}

LEMMA Onward ==
  ASSUME LiveInv, [Next]_vars
  PROVE  /\ Sending => Sending' \/ Back'
         /\ Connecting("none") => Connecting("none")' \/ Connecting("created")'
         /\ Connecting("created") => Connecting("created")' \/ Connecting("socket")' \/ Back'
         /\ Connecting("socket") => Connecting("socket")' \/ Starting("begin")'
         /\ Starting("begin") => Starting("begin")' \/ Starting("run")'
         /\ Starting("run") => Starting("run")' \/ Up'
         /\ Up => Up' \/ Back'
         /\ Deleting("closing") => Deleting("closing")' \/ Deleting("stopping")'
         /\ Deleting("stopping") => Deleting("stopping")' \/ Deleting("nulling")'
         /\ Deleting("nulling") => Deleting("nulling")' \/ Deleting("waiting")'
<1> USE DEF Connecting, Starting, Up, Deleting, Sending, Back, LoopUp, kInitialized, kRunning,
            kStopping, kStopped
<1>1. CASE UNCHANGED << clientVars, gui >> \/ User
  BY <1>1 DEF clientVars, User, SendMsg, SendMsgReconnect, Close, DeleteClient, CreateSocketFails
<1>2. CASE Gui
  BY <1>2 DEF Gui, InitConnect, NewClient, Create, InitConnectFails, InitConnectReturns,
     StartClient, CreateSocket, StartThread, InitConnectDone, Started, SendText, StopClient,
     CloseSocket, StopLoop, NullLoop, ClientDeleted, Destroyed, clientVars, InInitConnect,
     LiveInv, ClientInv, ThreadInv, GuiInv, AssertIsStopped
<1>3. CASE ClientLoop
  BY <1>3 DEF ClientLoop, LoopThread, ThreadBegin, Run, CallHloopRun, EnterHloopRun, CustomEvent,
     ConnectDone, LeaveHloopRun, RunReturns, ThreadEnds, LiveInv, ClientInv, ThreadInv, Running
<1>4. CASE UNCHANGED << client, thread, loopStatus, gui >>
  BY <1>4
<1> QED
  BY <1>1, <1>2, <1>3, <1>4
  DEF Next, vars, customEvent, Loop, KillEvent, OnTimer, TimerStep, Server, OnMessage, OnClose

LEMMA GuiMoves ==
  ASSUME LiveInv, Gui
  PROVE  /\ ~ Sending' /\ ~ Up'
         /\ Connecting("none") => ~ Connecting("none")'
         /\ Connecting("created") => ~ Connecting("created")'
         /\ Connecting("socket") => ~ Connecting("socket")'
         /\ Deleting("closing") => ~ Deleting("closing")'
         /\ Deleting("stopping") => ~ Deleting("stopping")'
         /\ Deleting("nulling") => ~ Deleting("nulling")'
         /\ Waiting("none") => Connecting("none")' \/ Back'
BY DEF Connecting, Up, Deleting, Sending, Back, LoopUp, Waiting, Gui, InitConnect, NewClient,
   Create, InitConnectFails, InitConnectReturns, StartClient, CreateSocket, StartThread,
   InitConnectDone, Started, SendText, StopClient, CloseSocket, StopLoop, NullLoop,
   ClientDeleted, Destroyed, clientVars, InInitConnect, LiveInv, ClientInv, ThreadInv, GuiInv,
   kInitialized, kRunning

LEMMA LoopMoves ==
  ASSUME LiveInv, << Loop >>_vars
  PROVE  /\ Starting("begin") => ~ Starting("begin")'
         /\ Starting("run") => ~ Starting("run")'
BY DEF Starting, Connecting, LoopUp, LiveInv, ClientInv, ThreadInv, Loop, ClientLoop, KillEvent,
   OnTimer, TimerStep, LoopThread, ThreadBegin, Run, CallHloopRun, EnterHloopRun, CustomEvent,
   ConnectDone, LeaveHloopRun, RunReturns, ThreadEnds, Running, kInitialized, kRunning, kStopped

(* What can happen while the client waits for its thread: a step of the       *)
(* thread, which takes it on or works off an event, or one that leaves both.  *)
LEMMA WaitingOnward ==
  ASSUME LiveInv, [Next]_vars, client = "waiting"
  PROVE  \/ LoopThread
         \/ KillEvent
         \/ /\ UNCHANGED << client, thread, stopFlag, customEvents >>
            /\ channel' = "connecting" => channel = "connecting"
         \/ thread = "none" /\ (Connecting("none")' \/ Back')
<1>1. loopPtr = "null" /\ loopStatus # kRunning /\ gui \in {"delete", "dtor"}
  BY DEF LiveInv, StopInv, ClientInv, TypeOK, GuiInv
<1>2. CASE Gui
  BY <1>1, <1>2 DEF Gui, InitConnect, NewClient, Create, InitConnectFails, InInitConnect,
     StartClient, InitConnectDone, SendText, StopClient, CloseSocket, StopLoop, NullLoop,
     ClientDeleted, Destroyed, ThreadGone, LiveInv, ClientInv, ThreadInv, Connecting, Back
<1>3. CASE customEvent \/ User
  BY <1>1, <1>3 DEF customEvent, User, SendMsg, SendMsgReconnect, Close
<1>4. CASE ClientLoop \/ KillEvent
  BY <1>4 DEF ClientLoop
<1>5. CASE OnTimer
  BY <1>1, <1>5 DEF OnTimer, TimerStep, killTimer
<1>6. CASE Server
  BY <1>6 DEF Server, OnMessage, OnClose, clientVars
<1>7. CASE UNCHANGED vars
  BY <1>7 DEF vars, clientVars
<1> QED
  BY <1>2, <1>3, <1>4, <1>5, <1>6, <1>7 DEF Next, Loop

(* A timer that is due then leaves everything as it is.                       *)
LEMMA WaitingLoop ==
  ASSUME LiveInv, << Loop >>_vars, client = "waiting"
  PROVE  LoopThread \/ KillEvent
<1>1. loopPtr = "null" /\ loopStatus # kRunning
  BY DEF LiveInv, StopInv
<1>2. ~ OnTimer
  BY <1>1 DEF OnTimer, TimerStep, killTimer, vars, clientVars, lineVars
<1> QED
  BY <1>2 DEF Loop, ClientLoop

LEMMA WaitingMoves ==
  ASSUME LiveInv, [Next]_vars
  PROVE  /\ Waiting("none") => Waiting("none")' \/ Connecting("none")' \/ Back'
         /\ Waiting("calling") => Waiting("calling")' \/ Waiting("returned")'
         /\ Waiting("entering") => Waiting("entering")' \/ StopLost'
         /\ Waiting("returned") => Waiting("returned")' \/ Waiting("asserting")'
         /\ Waiting("asserting") => Waiting("asserting")' \/ Waiting("none")'
         /\ << Loop >>_vars =>
               /\ Waiting("calling") => Waiting("returned")'
               /\ Waiting("entering") => StopLost'
               /\ Waiting("returned") => Waiting("asserting")'
               /\ Waiting("asserting") => Waiting("none")'
<1>1. ClientTypeOK /\ ThreadInv /\ StopInv
  BY DEF LiveInv, ClientInv, TypeOK
<1>2. CASE LoopThread
  BY <1>1, <1>2, WaitingStep DEF Waiting
<1>3. CASE ~ LoopThread
  <2>1. ASSUME \/ Waiting("calling") \/ Waiting("entering")
               \/ Waiting("returned") \/ Waiting("asserting")
        PROVE  ~ << Loop >>_vars /\ UNCHANGED << client, thread >>
    BY <1>3, <2>1, WaitingOnward, WaitingLoop DEF Waiting, KillEvent
  <2>2. Waiting("none") => Waiting("none")' \/ Connecting("none")' \/ Back'
    BY <1>3, WaitingOnward DEF Waiting, KillEvent
  <2> QED
    BY <2>1, <2>2 DEF Waiting
<1> QED
  BY <1>2, <1>3

LEMMA EndingMoves ==
  ASSUME LiveInv, NEW k \in Nat, Ending(k)
  PROVE  /\ [Next]_vars => Ending(k)' \/ Waiting("returned")'
         /\ << Loop >>_vars => Waiting("returned")' \/ (k > 0 /\ Ending(k - 1)')
<1> DEFINE q == customEvents
<1>1. /\ ClientTypeOK /\ ThreadInv /\ StopInv /\ Work \in Nat /\ Work <= k
      /\ q \in Seq(Functors) /\ Len(q) \in Nat
      /\ client = "waiting" /\ thread = "polling" /\ stopFlag = TRUE
  BY WorkType, LenProperties DEF LiveInv, ClientInv, TypeOK, ClientTypeOK, Ending
<1>2. ASSUME [Next]_vars PROVE Work' \in Nat
  <2>1. Len(q') \in Nat
    BY <1>2, TypeNext, LenProperties DEF LiveInv, TypeOK, ClientTypeOK
  <2> QED
    BY <2>1 DEF Work
<1>3. ASSUME [Next]_vars, LoopThread \/ KillEvent
      PROVE  Waiting("returned")' \/ (k > 0 /\ Ending(k - 1)' /\ Ending(k)')
  <2>1. CASE LoopThread
    <3>1. /\ client' = "waiting"
          /\ \/ thread' = "returned"
             \/ thread' = "polling" /\ stopFlag' = stopFlag /\ Work' < Work
      BY <1>1, <2>1, WaitingStep
    <3>2. Work' < Work => Work' <= k /\ k > 0 /\ Work' <= k - 1
      BY <1>1, <1>2, <1>3
    <3> QED
      BY <1>1, <3>1, <3>2 DEF Waiting, Ending
  <2>2. CASE KillEvent
    <3>1. Len(q') = Len(q) - 1
      BY <1>1, <2>2, HeadTailProperties DEF KillEvent
    <3>2. UNCHANGED << client, thread, stopFlag, channel >>
      BY <2>2 DEF KillEvent
    <3>3. Work' = Work - 2
      BY <1>1, <3>1, <3>2 DEF Work
    <3>4. Work' <= k /\ k > 0 /\ Work' <= k - 1
      BY <1>1, <1>2, <1>3, <3>3
    <3> QED
      BY <1>1, <3>2, <3>4 DEF Ending
  <2> QED
    BY <1>3, <2>1, <2>2
<1>4. ASSUME [Next]_vars, ~ (LoopThread \/ KillEvent) PROVE Ending(k)'
  <2>1. /\ UNCHANGED << client, thread, stopFlag, customEvents >>
        /\ channel' = "connecting" => channel = "connecting"
    BY <1>1, <1>4, WaitingOnward
  <2>2. Work' <= Work
    BY <1>1, <2>1 DEF Work
  <2>3. Work' <= k
    BY <1>1, <1>2, <1>4, <2>2
  <2> QED
    BY <1>1, <2>1, <2>3 DEF Ending
<1>5. << Loop >>_vars => [Next]_vars /\ (LoopThread \/ KillEvent)
  BY <1>1, WaitingLoop DEF Next
<1> QED
  BY <1>3, <1>4, <1>5

(* The GUI thread always comes back to its event loop, or is done, unless the *)
(* stop is lost: it waits for the loop thread and never the other way round.  *)
THEOREM GuiComesBack == FairSpec /\ []ReadyIsEnabled => GuiReturns
<1>1. LiveInv /\ [Next]_vars =>
         /\ Sending => Sending' \/ Back'
         /\ Connecting("none") => Connecting("none")' \/ Connecting("created")'
         /\ Connecting("created") => Connecting("created")' \/ Connecting("socket")' \/ Back'
         /\ Connecting("socket") => Connecting("socket")' \/ Starting("begin")'
         /\ Starting("begin") => Starting("begin")' \/ Starting("run")'
         /\ Starting("run") => Starting("run")' \/ Up'
         /\ Up => Up' \/ Back'
         /\ Deleting("closing") => Deleting("closing")' \/ Deleting("stopping")'
         /\ Deleting("stopping") => Deleting("stopping")' \/ Deleting("nulling")'
         /\ Deleting("nulling") => Deleting("nulling")' \/ Deleting("waiting")'
  BY Onward
<1>2. LiveInv /\ << Gui >>_vars =>
         /\ ~ Sending' /\ ~ Up'
         /\ Connecting("none") => ~ Connecting("none")'
         /\ Connecting("created") => ~ Connecting("created")'
         /\ Connecting("socket") => ~ Connecting("socket")'
         /\ Deleting("closing") => ~ Deleting("closing")'
         /\ Deleting("stopping") => ~ Deleting("stopping")'
         /\ Deleting("nulling") => ~ Deleting("nulling")'
         /\ Waiting("none") => Connecting("none")' \/ Back'
  BY GuiMoves
<1>3. LiveInv /\ << Loop >>_vars =>
         /\ Starting("begin") => ~ Starting("begin")'
         /\ Starting("run") => ~ Starting("run")'
         /\ Waiting("calling") => Waiting("returned")'
         /\ Waiting("entering") => StopLost'
         /\ Waiting("returned") => Waiting("asserting")'
         /\ Waiting("asserting") => Waiting("none")'
  BY LoopMoves, WaitingMoves DEF Next
<1>4. LiveInv /\ [Next]_vars =>
         /\ Waiting("none") => Waiting("none")' \/ Connecting("none")' \/ Back'
         /\ Waiting("calling") => Waiting("calling")' \/ Waiting("returned")'
         /\ Waiting("entering") => Waiting("entering")' \/ StopLost'
         /\ Waiting("returned") => Waiting("returned")' \/ Waiting("asserting")'
         /\ Waiting("asserting") => Waiting("asserting")' \/ Waiting("none")'
  BY WaitingMoves
<1>5. LiveInv /\ [Next]_vars =>
         /\ Ending(7) => Ending(7)' \/ Waiting("returned")'
         /\ Ending(6) => Ending(6)' \/ Waiting("returned")'
         /\ Ending(5) => Ending(5)' \/ Waiting("returned")'
         /\ Ending(4) => Ending(4)' \/ Waiting("returned")'
         /\ Ending(3) => Ending(3)' \/ Waiting("returned")'
         /\ Ending(2) => Ending(2)' \/ Waiting("returned")'
         /\ Ending(1) => Ending(1)' \/ Waiting("returned")'
         /\ Ending(0) => Ending(0)' \/ Waiting("returned")'
  BY EndingMoves
<1>6. LiveInv /\ << Loop >>_vars =>
         /\ Ending(7) => Ending(6)' \/ Waiting("returned")'
         /\ Ending(6) => Ending(5)' \/ Waiting("returned")'
         /\ Ending(5) => Ending(4)' \/ Waiting("returned")'
         /\ Ending(4) => Ending(3)' \/ Waiting("returned")'
         /\ Ending(3) => Ending(2)' \/ Waiting("returned")'
         /\ Ending(2) => Ending(1)' \/ Waiting("returned")'
         /\ Ending(1) => Ending(0)' \/ Waiting("returned")'
         /\ Ending(0) => Waiting("returned")'
  <2>1. \A k \in Nat : LiveInv /\ << Loop >>_vars /\ Ending(k) =>
           Waiting("returned")' \/ (k > 0 /\ Ending(k - 1)')
    BY EndingMoves
  <2>2. ~ (0 > 0) /\ 1 - 1 = 0 /\ 2 - 1 = 1 /\ 3 - 1 = 2 /\ 4 - 1 = 3
        /\ 5 - 1 = 4 /\ 6 - 1 = 5 /\ 7 - 1 = 6
    OBVIOUS
  <2> QED
    BY <2>1, <2>2
<1>7. LiveInv /\ HasTurn /\ ReadyIsEnabled =>
         /\ (Sending \/ Connecting("none") \/ Connecting("created") \/ Connecting("socket")
                \/ Up \/ Deleting("closing") \/ Deleting("stopping") \/ Deleting("nulling")
                \/ Waiting("none"))
              => ENABLED << Gui >>_vars
         /\ (Starting("begin") \/ Starting("run") \/ Waiting("calling") \/ Waiting("entering")
                \/ Waiting("returned") \/ Waiting("asserting")
                \/ Ending(7) \/ Ending(6) \/ Ending(5) \/ Ending(4)
                \/ Ending(3) \/ Ending(2) \/ Ending(1) \/ Ending(0))
              => ENABLED << Loop >>_vars
  <2>1. LiveInv =>
          ((Sending \/ Connecting("none") \/ Connecting("created") \/ Connecting("socket")
              \/ Up \/ Deleting("closing") \/ Deleting("stopping") \/ Deleting("nulling")
              \/ Waiting("none"))
            => gui \notin {"loop", "gone"} /\ ~ GuiWaits)
    BY DEF Sending, Connecting, Up, Deleting, Waiting, GuiWaits, ThreadGone, LiveInv, StopInv,
       ClientInv, GuiInv, TypeOK
  <2>2. Starting("begin") \/ Starting("run") \/ Waiting("calling") \/ Waiting("entering")
          \/ Waiting("returned") \/ Waiting("asserting")
          => ~ LoopWaits
    BY DEF Starting, Waiting, LoopWaits
  <2>3. ASSUME NEW k, Ending(k) PROVE ~ LoopWaits
    <3>1. thread = "polling" /\ stopFlag = TRUE
      BY <2>3 DEF Ending
    <3>2. thread # "none" /\ stopFlag
      BY <3>1
    <3> QED
      BY <3>2, Zenon DEF LoopWaits
  <2> QED
    BY <2>1, <2>2, <2>3, Zenon DEF HasTurn, ReadyIsEnabled
<1>8. LiveInv /\ Deleting("waiting") =>
         \/ Waiting("calling") \/ Waiting("entering") \/ StopLost \/ Ending(7)
         \/ Waiting("returned") \/ Waiting("asserting") \/ Waiting("none")
  <2> SUFFICES ASSUME LiveInv, Deleting("waiting")
               PROVE  \/ Waiting("calling") \/ Waiting("entering") \/ StopLost \/ Ending(7)
                      \/ Waiting("returned") \/ Waiting("asserting") \/ Waiting("none")
    OBVIOUS
  <2>1. /\ client = "waiting" /\ (stopFlag = TRUE \/ stopFlag = FALSE)
        /\ thread \in {"none", "calling", "entering", "polling", "returned", "asserting"}
    BY DEF Deleting, LiveInv, ClientInv, TypeOK, ClientTypeOK, ThreadInv
  <2>2. Work <= 7
    BY <2>1, WorkType DEF LiveInv, ClientInv, TypeOK
  <2> QED
    BY <2>1, <2>2 DEF Waiting, StopLost, Ending
<1>9. LiveInv /\ gui # "loop" =>
         \/ Back \/ Sending \/ Connecting("none") \/ Connecting("created") \/ Connecting("socket")
         \/ Starting("begin") \/ Starting("run") \/ Up \/ Deleting("closing")
         \/ Deleting("stopping") \/ Deleting("nulling") \/ Deleting("waiting")
  BY DEF Back, Sending, Connecting, Starting, Up, Deleting, LoopUp, LiveInv, StopInv, ClientInv,
     TypeOK, GuiInv, ThreadInv, Running, kRunning
<1>10. Back => gui \in {"loop", "gone"}
  BY DEF Back
<1>11. (<< Gui >>_vars => [Next]_vars) /\ (<< Loop >>_vars => [Next]_vars)
  BY DEF Next
<1> QED
  BY <1>1, <1>2, <1>3, <1>4, <1>5, <1>6, <1>7, <1>8, <1>9, <1>10, <1>11,
     LiveInvCorrect, TurnCorrect, PTL
  DEF FairSpec, Fairness, Spec, GuiReturns
=============================================================================
