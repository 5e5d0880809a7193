---------------------------- MODULE LoginWindow ----------------------------
(* The login window of the client (XChatyClient/loginwindow.cpp) and its      *)
(* registration window (regwindow.cpp).  PostUserInfo runs on the GUI thread  *)
(* from its first line to the end of the destructor of the TcpClient on its   *)
(* stack; no other event is handled meanwhile.                                *)
EXTENDS TcpClient

CONSTANTS
  Names,    \* what a user can type (name and password together)
  MaxUsers  \* bound: chaty::User objects allocated

ASSUME MaxUsersAssumption == MaxUsers \in Nat

NoUser == 0
NoData == "blank"   \* a new chaty::User

VARIABLES
  m_user,     \* the object LoginWindow::m_user points to
  users,      \* the objects allocated, in order, with what they hold
  regWindow,  \* "none" (m_regWindow is null), "shown" or "hidden"
  regUser,    \* the object RegWindow::m_user points to
  confirmed,  \* what the user last confirmed in the registration window
  enabled,    \* logBtn and regBtn
  request,    \* the message PostUserInfo is sending
  posts       \* the messages PostUserInfo was done with

windowVars == << m_user, users, regWindow, regUser, confirmed, enabled >>
vars == << clientVars, windowVars, request, posts >>

NoRequest == [type |-> "none", data |-> NoData]

Init ==
  /\ NoClient
  /\ m_user = NoUser /\ users = << >>
  /\ regWindow = "none" /\ regUser = NoUser /\ confirmed = NoData
  /\ enabled = TRUE
  /\ request = NoRequest
  /\ posts = << >>

-----------------------------------------------------------------------------
(* regBtn: the registration window shares the user object there is now.       *)
RegBtn_NoUser ==
  /\ client = "none" /\ enabled
  /\ regUser' = IF regWindow = "none" THEN m_user ELSE regUser
  /\ regWindow' = "shown"
  /\ UNCHANGED << clientVars, m_user, users, confirmed, enabled, request, posts >>

RegBtn ==
  /\ client = "none" /\ enabled
  /\ LET new == regWindow = "none" /\ m_user = NoUser
     IN  /\ new => Len(users) < MaxUsers
         /\ users' = IF new THEN Append(users, NoData) ELSE users
         /\ m_user' = IF new THEN Len(users) + 1 ELSE m_user
         /\ regUser' = IF regWindow = "none" THEN m_user' ELSE regUser
  /\ regWindow' = "shown"
  /\ UNCHANGED << clientVars, confirmed, enabled, request, posts >>

(* RegWindow: cancelBtn, or the close button.                                 *)
CloseRegWindow ==
  /\ client = "none"
  /\ regWindow = "shown"
  /\ regWindow' = "hidden"
  /\ UNCHANGED << clientVars, m_user, users, regUser, confirmed, enabled, request, posts >>

(* PostUserInfo serializes *m_user into the message.                          *)
PostUserInfo(type) ==
  /\ Create
  /\ request' = [type |-> type, data |-> users'[m_user']]

(* onConfirmBtnClicked with complete input, RegisterSuccess, PostUserInfo.    *)
OnConfirm(n) ==
  /\ client = "none"
  /\ regWindow = "shown"
  /\ users' = [users EXCEPT ![regUser] = n]
  /\ confirmed' = n
  /\ m_user' = m_user
  /\ PostUserInfo("REQ_REGIST")
  /\ UNCHANGED << regWindow, regUser, enabled, posts >>

(* OnLogin with complete input: a new user object, PostUserInfo.              *)
OnLogin(n) ==
  /\ client = "none" /\ enabled
  /\ Len(users) < MaxUsers
  /\ users' = Append(users, n)
  /\ m_user' = Len(users) + 1
  /\ PostUserInfo("REQ_LOGIN")
  /\ UNCHANGED << regWindow, regUser, confirmed, enabled, posts >>

(* The slot of RegisterSuccess closes the registration window at its end.     *)
SlotEnds ==
  regWindow' = IF request.type = "REQ_REGIST" THEN "none" ELSE regWindow

(* createsocket failed: a warning, and PostUserInfo returns early.            *)
PostFails ==
  /\ CreateSocketFails
  /\ SlotEnds
  /\ request' = NoRequest
  /\ UNCHANGED << m_user, users, regUser, confirmed, enabled, posts >>

(* send(), then both buttons are disabled.                                    *)
DisableButtons_Skipped == enabled' = enabled
DisableButtons == enabled' = FALSE

PostSend ==
  /\ Send
  /\ posts' = Append(posts, [type |-> request.type, data |-> request.data,
                             meant |-> IF request.type = "REQ_REGIST" THEN confirmed
                                                                      ELSE request.data,
                             sent |-> CanSend])
  /\ DisableButtons
  /\ UNCHANGED << m_user, users, regWindow, regUser, confirmed, request >>

PostReturns ==
  /\ Destroyed
  /\ SlotEnds
  /\ request' = NoRequest
  /\ UNCHANGED << m_user, users, regUser, confirmed, enabled, posts >>

Posting ==
  \/ PostFails \/ PostSend \/ PostReturns
  \/ /\ CreateSocket \/ StartThread \/ Started \/ CloseSocket \/ StopLoop \/ NullLoop
     /\ UNCHANGED << windowVars, request, posts >>

User == RegBtn \/ CloseRegWindow \/ \E n \in Names : OnConfirm(n) \/ OnLogin(n)

Loop == LoopThread /\ UNCHANGED << windowVars, request, posts >>

Next == User \/ Posting \/ Loop

Spec == Init /\ [][Next]_vars

(* Both threads run whenever they can; the user need not do anything.         *)
FairSpec == Spec /\ WF_vars(Posting) /\ WF_vars(Loop)

-----------------------------------------------------------------------------
TypeOK ==
  /\ ClientTypeOK
  /\ users \in Seq(Names \union {NoData})
  /\ m_user \in 0 .. Len(users)
  /\ regWindow \in {"none", "shown", "hidden"}
  /\ regWindow # "none" => regUser \in 1 .. Len(users)
  /\ confirmed \in Names \union {NoData}
  /\ enabled \in BOOLEAN
  /\ request.type \in {"none", "REQ_LOGIN", "REQ_REGIST"}

(* The disabled buttons and the closed registration window leave room for one *)
(* message, or for a login and then one registration from a window that was   *)
(* opened before: never a second login, never anything after a registration.  *)
PostsInOrder ==
  LET Types == [i \in 1 .. Len(posts) |-> posts[i].type]
  IN  Types \in { << >>, << "REQ_LOGIN" >>, << "REQ_REGIST" >>,
                  << "REQ_LOGIN", "REQ_REGIST" >> }

(* "2. send user info to server" (loginwindow.h:10, 18): a message that       *)
(* PostUserInfo was done with has been sent.  The code does not keep this.    *)
UserInfoSent == \A i \in 1 .. Len(posts) : posts[i].sent

(* "2. send user info to server" (loginwindow.h:18): a registration carries   *)
(* what was confirmed in the registration window.  The code does not keep     *)
(* this after a login from the window behind it.                              *)
RegistAsConfirmed == \A i \in 1 .. Len(posts) : posts[i].data = posts[i].meant

(* The waits of PostUserInfo for the loop thread (while status < kRunning in  *)
(* TcpClient.h start, while !isStopped in EventLoopThread.h stop) and the poll*)
(* of hloop_run for events never meet: while PostUserInfo runs one of the two *)
(* threads has a step to take, and can take it, except in one state.  There   *)
(* the stop was lost and the closed connection leaves nothing to poll for.    *)
GuiReady  == ClientReady \/ client = "started"
LoopReady == ThreadReady({"connect", "close"})
NoDeadlock == client # "none" => GuiReady \/ LoopReady \/ HungStop
ReadyIsEnabled ==
  /\ GuiReady => ENABLED << Posting >>_vars
  /\ LoopReady => ENABLED << Loop >>_vars
NeverStuck == NoDeadlock /\ ReadyIsEnabled

(* PostUserInfo comes back to the event loop of the window, whichever thread  *)
(* is ahead in start() and in stop(), in every case but the one of StopLost.  *)
DestructorReturns == client # "none" ~> client = "none" \/ StopLost

(* "stop thread-safe" (TcpClient.h:285, EventLoop.h:58): the destructor       *)
(* returns.  The code does not keep this: see README.                         *)
PostTerminates == client # "none" ~> client = "none"
=============================================================================
