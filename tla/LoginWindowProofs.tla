------------------------- MODULE LoginWindowProofs -------------------------
(* The login window and the loop thread of its client: types, the assertion   *)
(* of the loop thread, and the order in which thread and client end.          *)
EXTENDS LoginWindow, TcpClientProofs

(* The inductive invariant.                                                   *)
Inv == TypeOK /\ ThreadInv

LEMMA InvInit == Init => Inv
<1> SUFFICES ASSUME Init PROVE Inv
  OBVIOUS
<1>1. ClientTypeOK /\ ThreadInv
  BY ThreadInvInit DEF Init
<1>2. enabled \in BOOLEAN
  BY DEF Init
<1>3. TypeOK
  BY <1>1, <1>2 DEF Init, TypeOK, NoUser, NoData, NoRequest
<1> QED
  BY <1>1, <1>3 DEF Inv

(* The slots of the windows: m_user and the registration window's user are    *)
(* objects that exist.                                                        *)
LEMMA UserType ==
  ASSUME Inv, User
  PROVE  TypeOK'
<1> USE DEF Inv, TypeOK
<1>1. CASE RegBtn
  <2>1. UNCHANGED << clientVars, confirmed, enabled, request >> /\ regWindow' = "shown"
    BY <1>1 DEF RegBtn
  <2>2. CASE regWindow = "none" /\ m_user = NoUser
    <3>1. users' = Append(users, NoData) /\ m_user' = Len(users) + 1 /\ regUser' = m_user'
      BY <1>1, <2>2 DEF RegBtn
    <3>2. users' \in Seq(Names \union {NoData}) /\ Len(users') = Len(users) + 1
      BY <3>1, AppendProperties
    <3> QED
      BY <2>1, <3>1, <3>2 DEF clientVars, ClientTypeOK
  <2>3. CASE ~ (regWindow = "none" /\ m_user = NoUser)
    <3>1. users' = users /\ m_user' = m_user
          /\ regUser' = IF regWindow = "none" THEN m_user ELSE regUser
      BY <1>1, <2>3 DEF RegBtn
    <3> QED
      BY <2>1, <2>3, <3>1 DEF clientVars, ClientTypeOK, NoUser
  <2> QED
    BY <2>2, <2>3
<1>2. CASE CloseRegWindow
  BY <1>2 DEF CloseRegWindow, clientVars, ClientTypeOK
<1>3. ASSUME NEW n \in Names, OnConfirm(n) PROVE TypeOK'
  <2>1. users' \in Seq(Names \union {NoData}) /\ Len(users') = Len(users)
    BY <1>3, ExceptSeq DEF OnConfirm
  <2>2. ClientTypeOK'
    BY <1>3, CreateType DEF OnConfirm, PostUserInfo
  <2> QED
    BY <1>3, <2>1, <2>2 DEF OnConfirm, PostUserInfo
<1>4. ASSUME NEW n \in Names, OnLogin(n) PROVE TypeOK'
  <2>1. users' \in Seq(Names \union {NoData}) /\ Len(users') = Len(users) + 1
    BY <1>4, AppendProperties DEF OnLogin
  <2>2. ClientTypeOK'
    BY <1>4, CreateType DEF OnLogin, PostUserInfo
  <2> QED
    BY <1>4, <2>1, <2>2 DEF OnLogin, PostUserInfo
<1> QED
  BY <1>1, <1>2, <1>3, <1>4 DEF User

LEMMA PostingType ==
  ASSUME Inv, Posting
  PROVE  TypeOK'
<1>1. ClientTypeOK'
  BY ClientType DEF ClientStep, Inv, TypeOK, Posting, PostFails, PostSend, PostReturns
<1>2. /\ UNCHANGED << m_user, users, regUser, confirmed >>
      /\ regWindow' \in {regWindow, "none"}
      /\ request' \in {request, NoRequest}
  BY DEF Posting, PostFails, PostSend, PostReturns, SlotEnds, DisableButtons, windowVars
<1>3. enabled' \in BOOLEAN
  BY DEF Inv, TypeOK, Posting, PostFails, PostSend, PostReturns, DisableButtons, windowVars
<1> QED
  BY <1>1, <1>2, <1>3 DEF Inv, TypeOK, NoRequest

LEMMA LoopType ==
  ASSUME Inv, Loop
  PROVE  TypeOK'
<1>1. ClientTypeOK'
  BY ClientType DEF ClientStep, Inv, TypeOK, Loop
<1> QED
  BY <1>1 DEF Inv, TypeOK, Loop, windowVars

LEMMA InvNext ==
  ASSUME Inv, [Next]_vars
  PROVE  Inv'
<1>1. CASE UNCHANGED vars
  BY <1>1 DEF Inv, ThreadInv, AssertIsStopped, Running, vars, clientVars, windowVars,
     TypeOK, ClientTypeOK
<1>2. CASE User
  <2>1. UNCHANGED clientVars \/ Create
    BY <1>2 DEF User, RegBtn, CloseRegWindow, OnConfirm, OnLogin, PostUserInfo
  <2>2. CASE UNCHANGED clientVars
    BY <1>2, <2>2, UserType DEF Inv, clientVars, ThreadInv, AssertIsStopped, Running
  <2>3. CASE Create
    BY <1>2, <2>3, UserType, ClientThread DEF Inv, TypeOK, ClientStep
  <2> QED
    BY <2>1, <2>2, <2>3
<1>3. CASE Posting
  <2>1. ClientStep
    BY <1>3 DEF ClientStep, Posting, PostFails, PostSend, PostReturns
  <2> QED
    BY <1>3, <2>1, PostingType, ClientThread DEF Inv, TypeOK
<1>4. CASE Loop
  <2>1. ClientStep
    BY <1>4 DEF ClientStep, Loop
  <2> QED
    BY <1>4, <2>1, LoopType, ClientThread DEF Inv, TypeOK
<1> QED
  BY <1>1, <1>2, <1>3, <1>4 DEF Next

(* The loop thread is never further than the GUI thread allows.               *)
THEOREM InvCorrect == Spec => []Inv
<1>1. Init => Inv
  BY InvInit
<1>2. Inv /\ [Next]_vars => Inv'
  BY InvNext
<1> QED
  BY <1>1, <1>2, PTL DEF Spec

(* The windows and the client are well typed: every user object the windows   *)
(* point to exists.                                                           *)
THEOREM WindowTypes == Spec => []TypeOK
<1>1. Inv => TypeOK
  BY DEF Inv
<1> QED
  BY <1>1, InvCorrect, PTL

(* assert(loop_->isStopped()) never fails.                                    *)
THEOREM AssertHolds == Spec => []AssertIsStopped
<1>1. Inv => AssertIsStopped
  BY DEF Inv, ThreadInv
<1> QED
  BY <1>1, InvCorrect, PTL

(* The destructor of the client only returns after its thread has ended.      *)
THEOREM ThreadEndsFirst == Spec => []NoThreadWithoutClient
<1>1. Inv => NoThreadWithoutClient
  BY DEF Inv, ThreadInv, NoThreadWithoutClient
<1> QED
  BY <1>1, InvCorrect, PTL

-----------------------------------------------------------------------------
(* Which messages PostUserInfo can still be given: the buttons are disabled   *)
(* after the first one, and a registration closes the window it came from.    *)
Data == Names \union {NoData}
Post == [type : {"REQ_LOGIN", "REQ_REGIST"}, data : Data, meant : Data, sent : BOOLEAN]

Unsent == {"created", "socket", "starting", "started"}
NoneOrLogin == Len(posts) = 0 \/ (Len(posts) = 1 /\ posts[1].type = "REQ_LOGIN")

OrderTypes ==
  /\ posts \in Seq(Post)
  /\ request \in [type : {"none", "REQ_LOGIN", "REQ_REGIST"}, data : Data]
  /\ regWindow # "none" => m_user # NoUser

OrderInv ==
  /\ request.type = "none" <=> client = "none"
  /\ request.type = "REQ_REGIST" => regWindow = "shown"
  /\ Len(posts) > 0 => enabled = FALSE
  /\ Len(posts) \in {0, 1, 2}
  /\ Len(posts) = 2 => posts[1].type = "REQ_LOGIN" /\ posts[2].type = "REQ_REGIST"
  /\ client \in Unsent => \/ request.type = "REQ_LOGIN" /\ Len(posts) = 0
                          \/ request.type = "REQ_REGIST" /\ NoneOrLogin
  /\ client \notin Unsent \union {"none"} =>
       Len(posts) > 0 /\ posts[Len(posts)].type = request.type
  /\ client = "none" /\ regWindow = "shown" => NoneOrLogin

LEMMA PostSendAppends ==
  ASSUME Inv, OrderTypes, OrderInv, PostSend
  PROVE  \E p \in Post : p.type = request.type /\ posts' = Append(posts, p)
<1> DEFINE p == [type |-> request.type, data |-> request.data,
                 meant |-> IF request.type = "REQ_REGIST" THEN confirmed ELSE request.data,
                 sent |-> CanSend]
<1>1. request.type # "none"
  BY DEF PostSend, Send, OrderInv
<1>2. CanSend \in BOOLEAN
  BY DEF CanSend
<1>3. p \in Post
  BY <1>1, <1>2 DEF Post, OrderTypes, Data, Inv, TypeOK, NoData
<1>4. p.type = request.type /\ posts' = Append(posts, p)
  BY DEF PostSend
<1> QED
  BY <1>3, <1>4

LEMMA OrderTypesNext ==
  ASSUME Inv, OrderTypes, OrderInv, [Next]_vars
  PROVE  OrderTypes'
<1> USE DEF OrderTypes, Inv, TypeOK, Data, NoData, NoRequest, NoUser
<1>1. CASE UNCHANGED << request, posts, m_user, regWindow >>
  BY <1>1
<1>2. ASSUME NEW n \in Names, OnConfirm(n) PROVE OrderTypes'
  <2>1. users' \in Seq(Data) /\ Len(users') = Len(users)
    BY <1>2, ExceptSeq DEF OnConfirm
  <2>2. m_user' \in 1 .. Len(users') /\ posts' = posts /\ m_user' # 0
    BY <1>2, <2>1 DEF OnConfirm
  <2>3. request' = [type |-> "REQ_REGIST", data |-> users'[m_user']]
    BY <1>2 DEF OnConfirm, PostUserInfo
  <2>4. users'[m_user'] \in Data
    BY <2>1, <2>2, ElementOfSeq
  <2> QED
    BY <2>2, <2>3, <2>4
<1>3. ASSUME NEW n \in Names, OnLogin(n) PROVE OrderTypes'
  <2>1. users' \in Seq(Data) /\ users'[Len(users) + 1] = n /\ Len(users) + 1 # 0
    BY <1>3, AppendProperties DEF OnLogin
  <2>2. posts' = posts /\ request' = [type |-> "REQ_LOGIN", data |-> n]
    BY <1>3, <2>1 DEF OnLogin, PostUserInfo
  <2>3. m_user' # 0
    BY <1>3, <2>1 DEF OnLogin
  <2> QED
    BY <2>2, <2>3
<1>4. CASE PostFails \/ PostReturns
  BY <1>4 DEF PostFails, PostReturns, SlotEnds
<1>5. CASE PostSend
  <2>1. UNCHANGED << request, m_user, regWindow >>
    BY <1>5 DEF PostSend
  <2>2. PICK p \in Post : posts' = Append(posts, p)
    BY <1>5, PostSendAppends
  <2>3. posts' \in Seq(Post)
    BY <2>2, AppendProperties
  <2> QED
    BY <2>1, <2>3
<1>6. CASE RegBtn
  <2>1. UNCHANGED << request, posts >> /\ m_user' # 0
    BY <1>6 DEF RegBtn
  <2> QED
    BY <2>1
<1> QED
  BY <1>1, <1>2, <1>3, <1>4, <1>5, <1>6
     DEF Next, User, Posting, Loop, CloseRegWindow, vars, windowVars

LEMMA OrderInvNext ==
  ASSUME Inv, OrderTypes, OrderInv, [Next]_vars
  PROVE  OrderInv'
<1> USE DEF OrderInv, NoneOrLogin, Unsent
<1> Len(posts) \in Nat
  BY LenProperties DEF OrderTypes
<1>1. CASE UNCHANGED vars
  BY <1>1 DEF vars, clientVars, windowVars
<1>2. CASE RegBtn
  <2>1. UNCHANGED << client, request, posts >> /\ client = "none" /\ regWindow' = "shown"
    BY <1>2 DEF RegBtn, clientVars
  <2>2. enabled # FALSE /\ enabled' = enabled
    BY <1>2 DEF RegBtn
  <2>3. ~ (Len(posts) > 0)
    BY <2>2, Zenon
  <2>4. Len(posts) = 0 /\ Len(posts') = 0
    BY <2>1, <2>3
  <2>5. Len(posts') > 0 => enabled' = FALSE
    BY <2>4
  <2> QED
    BY <2>1, <2>4, <2>5
<1>3. CASE CloseRegWindow
  BY <1>3 DEF CloseRegWindow, clientVars
<1>4. ASSUME NEW n \in Names, OnConfirm(n) PROVE OrderInv'
  BY <1>4 DEF OnConfirm, PostUserInfo, Create
<1>5. ASSUME NEW n \in Names, OnLogin(n) PROVE OrderInv'
  BY <1>5 DEF OnLogin, PostUserInfo, Create
<1>6. CASE PostFails
  BY <1>6 DEF PostFails, CreateSocketFails, SlotEnds, NoRequest
<1>7. CASE PostSend
  <2>1. UNCHANGED << request, regWindow >> /\ client = "started" /\ client' = "closing"
    BY <1>7 DEF PostSend, Send
  <2>2. PICK p \in Post : p.type = request.type /\ posts' = Append(posts, p)
    BY <1>7, PostSendAppends
  <2>3. enabled' = FALSE
    BY <1>7 DEF PostSend, DisableButtons
  <2>4. /\ Len(posts') = Len(posts) + 1 /\ posts'[Len(posts')] = p
        /\ \A i \in 1 .. Len(posts) : posts'[i] = posts[i]
    BY <2>2, AppendProperties DEF OrderTypes
  <2>5. Len(posts') > 0 => enabled' = FALSE
    BY <2>3
  <2>6. Len(posts') \in {1, 2}
    <3>1. Len(posts) = 0 \/ Len(posts) = 1
      BY <2>1, Zenon
    <3>2. Len(posts') = Len(posts) + 1
      BY <2>4
    <3>3. 0 + 1 = 1 /\ 1 + 1 = 2
      OBVIOUS
    <3> QED
      BY <3>1, <3>2, <3>3, Zenon
  <2>7. Len(posts') = 2 => posts'[1].type = "REQ_LOGIN" /\ posts'[2].type = "REQ_REGIST"
    BY <2>1, <2>2, <2>4
  <2> QED
    BY <2>1, <2>2, <2>4, <2>5, <2>6, <2>7
<1>8. CASE PostReturns
  BY <1>8 DEF PostReturns, Destroyed, SlotEnds, NoRequest, OrderTypes
<1>9. CASE /\ CreateSocket \/ StartThread \/ Started \/ CloseSocket \/ StopLoop \/ NullLoop
           /\ UNCHANGED << windowVars, request, posts >>
  BY <1>9 DEF windowVars, CreateSocket, StartThread, Started, CloseSocket, StopLoop, NullLoop
<1>10. CASE Loop
  BY <1>10 DEF Loop, windowVars, LoopThread, ThreadBegin, Run, CallHloopRun, EnterHloopRun,
     CustomEvent, ConnectDone, LeaveHloopRun, RunReturns, ThreadEnds
<1> QED
  BY <1>1, <1>2, <1>3, <1>4, <1>5, <1>6, <1>7, <1>8, <1>9, <1>10 DEF Next, User, Posting

(* The buttons and the registration window let the user send one message, or  *)
(* a login and then one registration.                                         *)
THEOREM PostsOrdered == Spec => []PostsInOrder
<1>1. Init => Inv /\ OrderTypes /\ OrderInv
  <2> SUFFICES ASSUME Init PROVE Inv /\ OrderTypes /\ OrderInv
    OBVIOUS
  <2>1. posts = << >> /\ Len(posts) = 0 /\ posts \in Seq(Post)
    BY DEF Init
  <2> QED
    BY <2>1, InvInit DEF Init, NoClient, OrderTypes, OrderInv, NoneOrLogin, Unsent,
       NoRequest, NoData, Data
<1>2. (Inv /\ OrderTypes /\ OrderInv) /\ [Next]_vars => (Inv /\ OrderTypes /\ OrderInv)'
  BY InvNext, OrderTypesNext, OrderInvNext
<1>3. OrderTypes /\ OrderInv => PostsInOrder
  <2> SUFFICES ASSUME OrderTypes, OrderInv PROVE PostsInOrder
    OBVIOUS
  <2> DEFINE Types == [i \in 1 .. Len(posts) |-> posts[i].type]
  <2>1. CASE Len(posts) = 0
    <3>1. Types = << >>
      BY <2>1
    <3> QED
      BY <3>1 DEF PostsInOrder
  <2>2. CASE Len(posts) = 1
    <3>1. posts \in Seq(Post) /\ 1 \in 1 .. Len(posts)
      BY <2>2 DEF OrderTypes
    <3>2. posts[1] \in Post
      BY <3>1, ElementOfSeq
    <3>3. posts[1].type \in {"REQ_LOGIN", "REQ_REGIST"}
      BY <3>2 DEF Post
    <3>4. Types = << posts[1].type >>
      BY <2>2
    <3> QED
      BY <3>3, <3>4 DEF PostsInOrder
  <2>3. CASE Len(posts) = 2
    <3>1. Types = << "REQ_LOGIN", "REQ_REGIST" >>
      BY <2>3 DEF OrderInv
    <3> QED
      BY <3>1 DEF PostsInOrder
  <2> QED
    BY <2>1, <2>2, <2>3 DEF OrderInv
<1> QED
  BY <1>1, <1>2, <1>3, PTL DEF Spec

-----------------------------------------------------------------------------
(* A step of the windows is one of the client, or leaves it.                  *)
LEMMA StepCases ==
  ASSUME [Next]_vars
  PROVE  UNCHANGED clientVars \/ ClientStep
BY DEF Next, vars, User, RegBtn, CloseRegWindow, OnConfirm, OnLogin, PostUserInfo, Posting,
   PostFails, PostSend, PostReturns, Loop, ClientStep

(* PostUserInfo sees its client live as ClientLife says, from one message to  *)
(* the next: it is never destroyed while its connection is on.                *)
THEOREM ClientLives == Spec => LifeSpec
<1>1. Init => Life!Init /\ ChanInv
  BY DEF Init, NoClient, Life!Init, LifeOf, LinkOf, ChanInv
<1>2. ASSUME Inv, ChanInv, [Next]_vars PROVE ChanInv' /\ [Life!Next]_<< LifeOf, LinkOf >>
  <2>1. CASE ClientStep
    BY <1>2, <2>1, ClientChan, ClientLifeStep DEF Inv, TypeOK
  <2>2. CASE UNCHANGED clientVars
    BY <1>2, <2>2 DEF clientVars, ChanInv, LifeOf, LinkOf
  <2> QED
    BY <1>2, <2>1, <2>2, StepCases
<1>3. Inv /\ ChanInv /\ [Next]_vars => ChanInv' /\ [Life!Next]_<< LifeOf, LinkOf >>
  BY <1>2
<1> QED
  BY <1>1, <1>3, InvCorrect, PTL DEF Spec, LifeSpec, Life!Spec

-----------------------------------------------------------------------------
(* PostUserInfo comes back.  The client goes through its places in one order; *)
(* in each it is the turn of one of the threads, which is fair and not stuck. *)
LiveInv == Inv /\ StopInv

LEMMA LiveInvNext ==
  ASSUME LiveInv, [Next]_vars
  PROVE  LiveInv'
<1>1. Inv'
  BY InvNext DEF LiveInv
<1>2. CASE UNCHANGED clientVars
  BY <1>1, <1>2 DEF LiveInv, StopInv, clientVars, Queued, HasKill, Running
<1>3. CASE ClientStep
  BY <1>1, <1>3, ClientStop DEF LiveInv, Inv, TypeOK
<1> QED
  BY <1>2, <1>3, StepCases

THEOREM LiveInvCorrect == Spec => []LiveInv
<1>1. Init => LiveInv
  BY InvInit DEF Init, NoClient, LiveInv, StopInv, Running
<1>2. LiveInv /\ [Next]_vars => LiveInv'
  BY LiveInvNext
<1> QED
  BY <1>1, <1>2, PTL DEF Spec

(* No timer is ever ended on the thread of a login.                           *)
NoKill == customEvents \in Seq({"connect", "close"})

LEMMA NoKillNext ==
  ASSUME NoKill, [Next]_vars
  PROVE  NoKill'
<1>1. CASE UNCHANGED customEvents
  BY <1>1 DEF NoKill
<1>2. CASE customEvents' = << >>
  BY <1>2 DEF NoKill
<1>3. CASE customEvents # << >> /\ customEvents' = Tail(customEvents)
  BY <1>3, HeadTailProperties DEF NoKill
<1>4. CASE customEvents' = Append(customEvents, "connect")
  BY <1>4, AppendProperties DEF NoKill
<1>5. CASE customEvents' = Append(customEvents, "close")
  BY <1>5, AppendProperties DEF NoKill
<1>6. \/ UNCHANGED customEvents
      \/ customEvents' = << >>
      \/ customEvents # << >> /\ customEvents' = Tail(customEvents)
      \/ customEvents' = Append(customEvents, "connect")
      \/ customEvents' = Append(customEvents, "close")
  <2>1. CASE UNCHANGED vars \/ User
    BY <2>1 DEF vars, clientVars, User, RegBtn, CloseRegWindow, OnConfirm, OnLogin,
       PostUserInfo, Create
  <2>2. CASE Posting
    BY <2>2 DEF Posting, PostFails, PostSend, PostReturns, CreateSocketFails, Send, Destroyed,
       CreateSocket, StartThread, Started, CloseSocket, StopLoop, NullLoop
  <2>3. CASE Loop
    BY <2>3 DEF Loop, LoopThread, ThreadBegin, Run, CallHloopRun, EnterHloopRun, CustomEvent,
       ConnectDone, LeaveHloopRun, RunReturns, ThreadEnds
  <2> QED
    BY <2>1, <2>2, <2>3 DEF Next
<1> QED
  BY <1>1, <1>2, <1>3, <1>4, <1>5, <1>6

LEMMA NoKillCorrect == Spec => []NoKill
<1>1. Init => NoKill
  BY DEF Init, NoClient, NoKill
<1>2. NoKill /\ [Next]_vars => NoKill'
  BY NoKillNext
<1> QED
  BY <1>1, <1>2, PTL DEF Spec

(* Every place of the two threads but their waits has a step that leaves it.  *)
HasTurn ==
  /\ client # "none" /\ ~ GuiWaits => GuiReady
  /\ ~ LoopWaits => LoopReady

LEMMA TurnCorrect == Spec => []HasTurn
<1>1. TypeOK /\ NoKill => HasTurn
  <2> SUFFICES ASSUME TypeOK, NoKill PROVE HasTurn
    OBVIOUS
  <2>1. client # "none" /\ ~ GuiWaits => GuiReady
    BY DEF TypeOK, ClientTypeOK, GuiWaits, GuiReady, ClientReady
  <2>2. customEvents # << >> => Head(customEvents) \in {"connect", "close"}
    BY HeadTailProperties DEF NoKill
  <2>3. ~ LoopWaits => LoopReady
    BY <2>2 DEF TypeOK, ClientTypeOK, LoopWaits, LoopReady, ThreadReady
  <2> QED
    BY <2>1, <2>3 DEF HasTurn
<1> QED
  BY <1>1, WindowTypes, NoKillCorrect, PTL

LEMMA CloseInvCorrect == Spec => []CloseInv
<1>1. Init => CloseInv
  BY DEF Init, NoClient, CloseInv
<1>2. ASSUME Inv, CloseInv, [Next]_vars PROVE CloseInv'
  <2>1. CASE UNCHANGED clientVars
    BY <1>2, <2>1 DEF clientVars, CloseInv, ClosePending
  <2>2. CASE ClientStep
    BY <1>2, <2>2, ClientClose DEF Inv, TypeOK
  <2> QED
    BY <1>2, <2>1, <2>2, StepCases
<1>3. Inv /\ CloseInv /\ [Next]_vars => CloseInv'
  BY <1>2
<1> QED
  BY <1>1, <1>3, InvCorrect, PTL DEF Spec

(* PostUserInfo and its loop thread never wait for each other, but for the    *)
(* one state in which the stop was lost: where the GUI thread waits the loop  *)
(* thread is on its way to hloop_run, or told to leave it, or it has the      *)
(* close of the destructor to do.                                             *)
THEOREM DeadlockFree == Spec => []NoDeadlock
<1>1. ASSUME LiveInv, CloseInv, NoKill, HasTurn PROVE NoDeadlock
  <2>1. customEvents # << >> => Head(customEvents) \in {"connect", "close"}
    BY <1>1, HeadTailProperties DEF NoKill
  <2>2. GuiWaits => LoopReady \/ HungStop
    BY <1>1, <2>1, WaitsForStep DEF LiveInv, Inv, TypeOK, LoopReady
  <2>3. client # "none" /\ ~ GuiWaits => GuiReady
    BY <1>1 DEF HasTurn
  <2> QED
    BY <2>2, <2>3 DEF NoDeadlock
<1>2. LiveInv /\ CloseInv /\ NoKill /\ HasTurn => NoDeadlock
  BY <1>1
<1> QED
  BY <1>2, LiveInvCorrect, CloseInvCorrect, NoKillCorrect, TurnCorrect, PTL

At(place)   == client = place
Starting(t) == client = "starting" /\ thread = t /\ ~ LoopUp
Up          == client = "starting" /\ LoopUp

(* A step of either thread leaves the client where it is or moves it on.      *)
LEMMA Onward ==
  ASSUME LiveInv, [Next]_vars
  PROVE  /\ At("created") => At("created")' \/ At("socket")' \/ At("none")'
         /\ At("socket") => At("socket")' \/ Starting("begin")'
         /\ Starting("begin") => Starting("begin")' \/ Starting("run")'
         /\ Starting("run") => Starting("run")' \/ Up'
         /\ Up => Up' \/ At("started")'
         /\ At("started") => At("started")' \/ At("closing")'
         /\ At("closing") => At("closing")' \/ At("stopping")'
         /\ At("stopping") => At("stopping")' \/ At("nulling")'
         /\ At("nulling") => At("nulling")' \/ At("waiting")'
<1> USE DEF At, Starting, Up, LoopUp, LiveInv, Inv, ThreadInv, Running, AssertIsStopped,
            kInitialized, kRunning, kStopping, kStopped
<1>1. CASE UNCHANGED vars \/ User
  BY <1>1 DEF vars, clientVars, User, RegBtn, CloseRegWindow, OnConfirm, OnLogin, PostUserInfo,
     Create
<1>2. CASE Posting
  BY <1>2 DEF Posting, PostFails, PostSend, PostReturns, CreateSocketFails, Send, Destroyed,
     CreateSocket, StartThread, Started, CloseSocket, StopLoop, NullLoop
<1>3. CASE Loop
  BY <1>3 DEF Loop, LoopThread, ThreadBegin, Run, CallHloopRun, EnterHloopRun, CustomEvent,
     ConnectDone, LeaveHloopRun, RunReturns, ThreadEnds
<1> QED
  BY <1>1, <1>2, <1>3 DEF Next

(* A step of the GUI thread moves it on where it is the GUI thread's turn ... *)
LEMMA GuiMoves ==
  ASSUME LiveInv, Posting
  PROVE  /\ ~ At("created")' /\ ~ Up'
         /\ At("socket") => ~ At("socket")'
         /\ At("started") => ~ At("started")'
         /\ At("closing") => ~ At("closing")'
         /\ At("stopping") => ~ At("stopping")'
         /\ At("nulling") => ~ At("nulling")'
         /\ Waiting("none") => At("none")'
BY DEF At, Up, LoopUp, Waiting, LiveInv, Inv, ThreadInv, Posting, PostFails, PostSend, PostReturns,
   CreateSocketFails, Send, Destroyed, CreateSocket, StartThread, Started, CloseSocket, StopLoop,
   NullLoop, kInitialized, kRunning

(* ... and one of the loop thread where the GUI thread waits for it to run.   *)
LEMMA LoopMoves ==
  ASSUME LiveInv, Loop
  PROVE  /\ Starting("begin") => ~ Starting("begin")'
         /\ Starting("run") => ~ Starting("run")'
BY DEF Starting, LoopUp, LiveInv, Inv, ThreadInv, Loop, LoopThread, ThreadBegin, Run, CallHloopRun,
   EnterHloopRun, CustomEvent, ConnectDone, LeaveHloopRun, RunReturns, ThreadEnds, Running,
   kInitialized, kRunning, kStopped

(* While the client waits for its thread nothing else happens.                *)
LEMMA WaitingOnward ==
  ASSUME LiveInv, [Next]_vars, NEW t, Waiting(t)
  PROVE  Loop \/ UNCHANGED vars \/ (t = "none" /\ At("none")')
BY DEF Waiting, At, Next, User, RegBtn, CloseRegWindow, OnConfirm, OnLogin, PostUserInfo, Create,
   Posting, PostFails, PostSend, PostReturns, CreateSocketFails, Send, Destroyed, ThreadGone,
   CreateSocket, StartThread, Started, CloseSocket, StopLoop, NullLoop, LiveInv, Inv, ThreadInv

LEMMA WaitingMoves ==
  ASSUME LiveInv, Loop
  PROVE  /\ Waiting("calling") => Waiting("returned")'
         /\ Waiting("entering") => StopLost'
         /\ Waiting("returned") => Waiting("asserting")'
         /\ Waiting("asserting") => Waiting("none")'
BY WaitingStep DEF Waiting, LiveInv, Inv, TypeOK, Loop

LEMMA EndingMoves ==
  ASSUME LiveInv, NEW k \in Nat, Ending(k)
  PROVE  /\ [Next]_vars => Ending(k)' \/ Waiting("returned")'
         /\ Loop => Waiting("returned")' \/ (k > 0 /\ Ending(k - 1)')
<1>1. Work \in Nat /\ Work <= k /\ Waiting("polling") /\ thread # "none"
  BY WorkType DEF LiveInv, Inv, TypeOK, Ending, Waiting
<1>2. ASSUME Loop PROVE Waiting("returned")' \/ (k > 0 /\ Ending(k - 1)' /\ Ending(k)')
  <2>1. ClientTypeOK' /\ StopInv' /\ client' = "waiting"
        /\ \/ thread' = "returned"
           \/ thread' = "polling" /\ stopFlag' = stopFlag /\ Work' < Work
    BY <1>1, <1>2, WaitingStep, LiveInvNext DEF Waiting, LiveInv, Inv, TypeOK, Loop, Next
  <2>2. Len(customEvents') \in Nat
    BY <2>1, LenProperties DEF ClientTypeOK
  <2>3. Work' \in Nat
    BY <2>2 DEF Work
  <2>4. Work' < Work => Work' <= k /\ k > 0 /\ Work' <= k - 1
    BY <1>1, <2>3
  <2>5. stopFlag = TRUE
    BY DEF Ending
  <2> QED
    BY <2>1, <2>4, <2>5 DEF Waiting, Ending
<1>3. ASSUME UNCHANGED vars PROVE Ending(k)'
  BY <1>3 DEF Ending, vars, clientVars, Work
<1>4. [Next]_vars => Loop \/ UNCHANGED vars
  BY <1>1, WaitingOnward
<1> QED
  BY <1>2, <1>3, <1>4

(* Where the loop thread can be when the client begins to wait for it.        *)
LEMMA WaitingCases ==
  ASSUME LiveInv, At("waiting")
  PROVE  \/ Waiting("calling") \/ Waiting("entering") \/ StopLost \/ Ending(7)
         \/ Waiting("returned") \/ Waiting("asserting") \/ Waiting("none")
<1>1. thread \in {"none", "calling", "entering", "polling", "returned", "asserting"}
  BY DEF At, LiveInv, Inv, TypeOK, ClientTypeOK, ThreadInv
<1>2. Work <= 7 /\ (stopFlag = TRUE \/ stopFlag = FALSE)
  BY WorkType DEF At, LiveInv, Inv, TypeOK, ClientTypeOK
<1> QED
  BY <1>1, <1>2 DEF At, Waiting, StopLost, Ending

(* PostUserInfo returns, whatever the threads do, unless the stop is lost:    *)
(* from the fairness of the two threads, where a thread that has a step to    *)
(* take can take it.                                                          *)
THEOREM PostUserInfoReturns == FairSpec /\ []ReadyIsEnabled => DestructorReturns
<1>1. LiveInv /\ [Next]_vars =>
         /\ At("created") => At("created")' \/ At("socket")' \/ At("none")'
         /\ At("socket") => At("socket")' \/ Starting("begin")'
         /\ Starting("begin") => Starting("begin")' \/ Starting("run")'
         /\ Starting("run") => Starting("run")' \/ Up'
         /\ Up => Up' \/ At("started")'
         /\ At("started") => At("started")' \/ At("closing")'
         /\ At("closing") => At("closing")' \/ At("stopping")'
         /\ At("stopping") => At("stopping")' \/ At("nulling")'
         /\ At("nulling") => At("nulling")' \/ At("waiting")'
  BY Onward
<1>2. LiveInv /\ << Posting >>_vars =>
         /\ ~ At("created")' /\ ~ Up'
         /\ At("socket") => ~ At("socket")'
         /\ At("started") => ~ At("started")'
         /\ At("closing") => ~ At("closing")'
         /\ At("stopping") => ~ At("stopping")'
         /\ At("nulling") => ~ At("nulling")'
         /\ Waiting("none") => At("none")'
  BY GuiMoves
<1>3. LiveInv /\ << Loop >>_vars =>
         /\ Starting("begin") => ~ Starting("begin")'
         /\ Starting("run") => ~ Starting("run")'
         /\ Waiting("calling") => Waiting("returned")'
         /\ Waiting("entering") => StopLost'
         /\ Waiting("returned") => Waiting("asserting")'
         /\ Waiting("asserting") => Waiting("none")'
  BY LoopMoves, WaitingMoves
<1>4. LiveInv /\ [Next]_vars =>
         /\ Waiting("none") => Waiting("none")' \/ At("none")'
         /\ Waiting("calling") => Waiting("calling")' \/ Waiting("returned")'
         /\ Waiting("entering") => Waiting("entering")' \/ StopLost'
         /\ Waiting("returned") => Waiting("returned")' \/ Waiting("asserting")'
         /\ Waiting("asserting") => Waiting("asserting")' \/ Waiting("none")'
  <2>1. ASSUME NEW t, Waiting(t), UNCHANGED vars PROVE Waiting(t)'
    BY <2>1 DEF Waiting, vars, clientVars
  <2>2. Waiting("none") => ~ Loop
    BY DEF Waiting, Loop, LoopThread, ThreadBegin, Run, CallHloopRun, EnterHloopRun, CustomEvent,
       ConnectDone, LeaveHloopRun, RunReturns, ThreadEnds
  <2> QED
    BY <2>1, <2>2, WaitingOnward, WaitingMoves
<1>5. LiveInv /\ [Next]_vars => /\ (Ending(7) => Ending(7)' \/ Waiting("returned")')
                                /\ (Ending(6) => Ending(6)' \/ Waiting("returned")')
                                /\ (Ending(5) => Ending(5)' \/ Waiting("returned")')
                                /\ (Ending(4) => Ending(4)' \/ Waiting("returned")')
                                /\ (Ending(3) => Ending(3)' \/ Waiting("returned")')
                                /\ (Ending(2) => Ending(2)' \/ Waiting("returned")')
                                /\ (Ending(1) => Ending(1)' \/ Waiting("returned")')
                                /\ (Ending(0) => Ending(0)' \/ Waiting("returned")')
  BY EndingMoves
<1>6. LiveInv /\ << Loop >>_vars => /\ (Ending(7) => Ending(6)' \/ Waiting("returned")')
                                    /\ (Ending(6) => Ending(5)' \/ Waiting("returned")')
                                    /\ (Ending(5) => Ending(4)' \/ Waiting("returned")')
                                    /\ (Ending(4) => Ending(3)' \/ Waiting("returned")')
                                    /\ (Ending(3) => Ending(2)' \/ Waiting("returned")')
                                    /\ (Ending(2) => Ending(1)' \/ Waiting("returned")')
                                    /\ (Ending(1) => Ending(0)' \/ Waiting("returned")')
                                    /\ (Ending(0) => Waiting("returned")')
  <2>1. \A k \in Nat : LiveInv /\ Loop /\ Ending(k) =>
           Waiting("returned")' \/ (k > 0 /\ Ending(k - 1)')
    BY EndingMoves
  <2>2. ~ (0 > 0) /\ 1 - 1 = 0 /\ 2 - 1 = 1 /\ 3 - 1 = 2 /\ 4 - 1 = 3
        /\ 5 - 1 = 4 /\ 6 - 1 = 5 /\ 7 - 1 = 6
    OBVIOUS
  <2> QED
    BY <2>1, <2>2
<1>7. LiveInv /\ HasTurn /\ ReadyIsEnabled =>
         /\ (At("created") \/ At("socket") \/ Up \/ At("started") \/ At("closing")
                \/ At("stopping") \/ At("nulling") \/ Waiting("none"))
              => ENABLED << Posting >>_vars
         /\ (Starting("begin") \/ Starting("run") \/ Waiting("calling") \/ Waiting("entering")
                \/ Waiting("returned") \/ Waiting("asserting")
                \/ Ending(7) \/ Ending(6) \/ Ending(5) \/ Ending(4)
                \/ Ending(3) \/ Ending(2) \/ Ending(1) \/ Ending(0))
              => ENABLED << Loop >>_vars
  <2>1. /\ At("created") \/ At("socket") \/ Up \/ At("started") \/ At("closing")
             \/ At("stopping") \/ At("nulling")
             => client # "none" /\ ~ GuiWaits
        /\ LiveInv /\ Waiting("none") => client # "none" /\ ~ GuiWaits
    BY DEF At, Up, Waiting, GuiWaits, ThreadGone, LiveInv, StopInv
  <2>2. Starting("begin") \/ Starting("run") \/ Waiting("calling") \/ Waiting("entering")
          \/ Waiting("returned") \/ Waiting("asserting")
          => ~ LoopWaits
    BY DEF Starting, Waiting, LoopWaits
  <2>3. ASSUME NEW k, Ending(k) PROVE ~ LoopWaits
    <3>1. thread = "polling" /\ stopFlag = TRUE
      BY <2>3 DEF Ending
    <3>2. thread # "none" /\ stopFlag
      BY <3>1
    <3> QED
      BY <3>2, Zenon DEF LoopWaits
  <2> QED
    BY <2>1, <2>2, <2>3, Zenon DEF HasTurn, ReadyIsEnabled
<1>8. LiveInv /\ At("waiting") =>
         \/ Waiting("calling") \/ Waiting("entering") \/ StopLost \/ Ending(7)
         \/ Waiting("returned") \/ Waiting("asserting") \/ Waiting("none")
  BY WaitingCases
<1>9. LiveInv /\ client # "none" =>
         \/ At("created") \/ At("socket") \/ Starting("begin") \/ Starting("run") \/ Up
         \/ At("started") \/ At("closing") \/ At("stopping") \/ At("nulling") \/ At("waiting")
  BY DEF At, Starting, Up, LoopUp, LiveInv, StopInv, Inv, TypeOK, ClientTypeOK, ThreadInv, Running,
     kInitialized, kRunning, kStopping, kStopped
<1>10. At("none") => client = "none"
  BY DEF At
<1>11. (<< Posting >>_vars => [Next]_vars) /\ (<< Loop >>_vars => [Next]_vars)
  BY DEF Next
<1> QED
  BY <1>1, <1>2, <1>3, <1>4, <1>5, <1>6, <1>7, <1>8, <1>9, <1>10, <1>11,
     LiveInvCorrect, TurnCorrect, PTL
  DEF FairSpec, Spec, DestructorReturns
=============================================================================
