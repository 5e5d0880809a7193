-------------------------- MODULE EventLoopProofs --------------------------
(* The queue of an event loop hands over every event once and in order, for   *)
(* any number of posters and of events, wherever the owner stops the loop.    *)
EXTENDS EventLoop, FiniteSetTheorems, SequenceTheorems, TLAPS

(* What keeps a joined poster away from a loop that is gone: once stop() has  *)
(* begun no poster is in postEvent, and the loop is only left after that.     *)
StopInv ==
  /\ loop = "left" => stop # "no"
  /\ joined /\ stop # "no" => \A p \in Posters : place[p] = "idle"

(* An event exists before it is pushed or called back.                        *)
EventInv ==
  /\ \A p \in Posters : place[p] # "idle" => made[p] > 0
  /\ loop = "callback" => ev \in Events

LoopInv == PostInv /\ StopInv /\ EventInv

LEMMA EventIs ==
  ASSUME NEW p \in Posters, NEW n \in 1 .. MaxPosts
  PROVE  Event(p, n) \in Events /\ Event(p, n).by = p /\ Event(p, n).no = n
  BY DEF Event, Events

LEMMA EventHas ==
  ASSUME NEW e \in Events
  PROVE  e.no \in Nat /\ e \in [by : Posters, no : 0 .. MaxPosts]
  BY PosterAssumption DEF Events

(* The event that a poster pushes.                                            *)
LEMMA PostedIs ==
  ASSUME NEW p \in Posters, made \in [Posters -> 0 .. MaxPosts],
         EventInv, place[p] # "idle"
  PROVE  made[p] \in 1 .. MaxPosts /\ Event(p, made[p]) \in Events
<1>1. made[p] > 0 /\ made[p] \in 0 .. MaxPosts
  BY DEF EventInv
<1>2. made[p] \in 1 .. MaxPosts
  BY <1>1, PosterAssumption
<1> QED
  BY <1>2, EventIs

(* The constructor.                                                           *)
LEMMA LoopInvInit == LoopInit => LoopInv
<1> SUFFICES ASSUME LoopInit PROVE LoopInv
  OBVIOUS
<1>1. LoopTypeOK
  BY PosterAssumption DEF LoopInit, LoopTypeOK, Event, Events
<1>2. MutexInv /\ StopInv /\ EventInv /\ JoinedIsSafe /\ failure # "empty"
  BY DEF LoopInit, MutexInv, StopInv, EventInv, JoinedIsSafe, InLock, LoopInLock
<1>3. Announced
  <2>1. {p \in Posters : place[p] = "pushed"} = {}
    BY DEF LoopInit
  <2>2. customEvents = << >> /\ announced = 0 /\ ~ LoopInLock
    BY DEF LoopInit, LoopInLock
  <2> QED
    BY <2>1, <2>2, FS_EmptySet DEF Announced
<1> QED
  BY <1>1, <1>2, <1>3 DEF LoopInv, PostInv

(* The step that a poster or the loop takes, for the proofs by cases.         *)
LEMMA LoopSteps ==
  ASSUME LoopNext
  PROVE  \/ \E p \in Posters : Test(p)
         \/ \E p \in Posters : Lock(p)
         \/ \E p \in Posters : Push(p)
         \/ \E p \in Posters : Announce(p)
         \/ \E p \in Posters : AnnounceFails(p)
         \/ TakeLock \/ Front \/ Pop \/ Callback \/ Leave \/ Stop \/ StopEnds
  BY DEF LoopNext, Poster, LoopThread

(* Every step keeps the types.                                                *)
LEMMA LoopTypeNext ==
  ASSUME LoopTypeOK, MutexInv, EventInv, LoopNext
  PROVE  LoopTypeOK'
<1> USE PosterAssumption DEF LoopTypeOK, At, LoopAt
<1>1. ASSUME NEW p \in Posters, Test(p) PROVE LoopTypeOK'
  BY <1>1 DEF Test
<1>2. ASSUME NEW p \in Posters, Lock(p) PROVE LoopTypeOK'
  BY <1>2 DEF Lock
<1>3. ASSUME NEW p \in Posters, Push(p) PROVE LoopTypeOK'
  <2>1. Event(p, made[p]) \in Events
    BY <1>3, PostedIs DEF Push
  <2>2. customEvents' \in Seq(Events)
    BY <1>3, <2>1, AppendProperties DEF Push
  <2> QED
    BY <1>3, <2>2 DEF Push
<1>4. ASSUME NEW p \in Posters, Announce(p) PROVE LoopTypeOK'
  BY <1>4 DEF Announce
<1>5. ASSUME NEW p \in Posters, AnnounceFails(p) PROVE LoopTypeOK'
  BY <1>5 DEF AnnounceFails
<1>6. CASE TakeLock
  BY <1>6 DEF TakeLock
<1>7. CASE Front
  <2>1. customEvents # << >> => Head(customEvents) \in [by : Posters, no : 0 .. MaxPosts]
    BY HeadTailProperties, EventHas
  <2> QED
    BY <1>7, <2>1 DEF Front
<1>8. CASE Pop
  <2>1. customEvents # << >>
    BY <1>8 DEF Pop, MutexInv
  <2>2. Tail(customEvents) \in Seq(Events)
    BY <2>1, HeadTailProperties
  <2> QED
    BY <1>8, <2>2 DEF Pop
<1>9. CASE Callback
  <2>1. Append(handled, ev) \in Seq(Events)
    BY <1>9, AppendProperties DEF Callback, EventInv
  <2> QED
    BY <1>9, <2>1 DEF Callback
<1>10. CASE Leave
  BY <1>10 DEF Leave
<1>11. CASE Stop
  BY <1>11 DEF Stop
<1>12. CASE StopEnds
  BY <1>12 DEF StopEnds
<1> QED
  BY <1>1, <1>2, <1>3, <1>4, <1>5, <1>6, <1>7, <1>8, <1>9, <1>10, <1>11, <1>12, LoopSteps

(* Every step keeps the lock with one thread, which finds the queue as it     *)
(* read it.                                                                   *)
LEMMA MutexNext ==
  ASSUME LoopTypeOK, MutexInv, LoopNext
  PROVE  MutexInv'
<1> USE DEF LoopTypeOK, MutexInv, InLock, LoopInLock, At, LoopAt
<1>1. ASSUME NEW p \in Posters, Test(p) PROVE MutexInv'
  BY <1>1 DEF Test
<1>2. ASSUME NEW p \in Posters, Lock(p) PROVE MutexInv'
  BY <1>2 DEF Lock
<1>3. ASSUME NEW p \in Posters, Push(p) PROVE MutexInv'
  <2>1. ~ LoopInLock /\ \A q \in Posters : InLock(q) => q = p
    BY <1>3 DEF Push
  <2>2. \A q \in Posters : ~ InLock(q)'
    BY <1>3, <2>1 DEF Push
  <2> QED
    BY <1>3, <2>1, <2>2 DEF Push
<1>4. ASSUME NEW p \in Posters, Announce(p) PROVE MutexInv'
  BY <1>4 DEF Announce
<1>5. ASSUME NEW p \in Posters, AnnounceFails(p) PROVE MutexInv'
  BY <1>5 DEF AnnounceFails
<1>6. CASE TakeLock
  BY <1>6 DEF TakeLock
<1>7. CASE Front
  BY <1>7 DEF Front
<1>8. CASE Pop
  BY <1>8 DEF Pop
<1>9. CASE Callback
  BY <1>9 DEF Callback
<1>10. CASE Leave
  BY <1>10 DEF Leave
<1>11. CASE Stop
  BY <1>11 DEF Stop
<1>12. CASE StopEnds
  BY <1>12 DEF StopEnds
<1> QED
  BY <1>1, <1>2, <1>3, <1>4, <1>5, <1>6, <1>7, <1>8, <1>9, <1>10, <1>11, <1>12, LoopSteps

(* Every step keeps what stop() relies on, and what an event needs.           *)
LEMMA StopNext ==
  ASSUME LoopTypeOK, MutexInv, StopInv, EventInv, LoopNext
  PROVE  StopInv' /\ EventInv'
<1> USE DEF LoopTypeOK, StopInv, EventInv, At, LoopAt
<1>1. ASSUME NEW p \in Posters, Test(p) PROVE StopInv' /\ EventInv'
  BY <1>1 DEF Test
<1>2. ASSUME NEW p \in Posters, Lock(p) PROVE StopInv' /\ EventInv'
  BY <1>2 DEF Lock
<1>3. ASSUME NEW p \in Posters, Push(p) PROVE StopInv' /\ EventInv'
  BY <1>3 DEF Push
<1>4. ASSUME NEW p \in Posters, Announce(p) PROVE StopInv' /\ EventInv'
  BY <1>4 DEF Announce
<1>5. ASSUME NEW p \in Posters, AnnounceFails(p) PROVE StopInv' /\ EventInv'
  BY <1>5 DEF AnnounceFails
<1>6. CASE TakeLock
  BY <1>6 DEF TakeLock
<1>7. CASE Front
  BY <1>7 DEF Front
<1>8. CASE Pop
  <2>1. ev \in Events
    BY <1>8, HeadTailProperties DEF Pop, MutexInv
  <2> QED
    BY <1>8, <2>1 DEF Pop
<1>9. CASE Callback
  BY <1>9 DEF Callback
<1>10. CASE Leave
  BY <1>10 DEF Leave
<1>11. CASE Stop
  BY <1>11 DEF Stop
<1>12. CASE StopEnds
  BY <1>12 DEF StopEnds
<1> QED
  BY <1>1, <1>2, <1>3, <1>4, <1>5, <1>6, <1>7, <1>8, <1>9, <1>10, <1>11, <1>12, LoopSteps

(* The posters that have pushed an event and not announced it, and their      *)
(* number when one more has pushed or announced.                              *)
Pushed == {p \in Posters : place[p] = "pushed"}

LEMMA PushedFinite == IsFiniteSet(Pushed) /\ Cardinality(Pushed) \in Nat
  BY PosterAssumption, FS_Subset, FS_CardinalityType DEF Pushed

LEMMA PushedGrows ==
  ASSUME LoopTypeOK, NEW p \in Posters, place[p] = "locked",
         place' = [place EXCEPT ![p] = "pushed"]
  PROVE  Cardinality(Pushed') = Cardinality(Pushed) + 1
<1>1. Pushed' = Pushed \union {p} /\ p \notin Pushed
  BY DEF LoopTypeOK, Pushed
<1> QED
  BY <1>1, PushedFinite, FS_AddElement

LEMMA PushedShrinks ==
  ASSUME LoopTypeOK, NEW p \in Posters, place[p] = "pushed",
         place' = [place EXCEPT ![p] = "idle"]
  PROVE  Cardinality(Pushed') = Cardinality(Pushed) - 1
<1>1. Pushed' = Pushed \ {p} /\ p \in Pushed
  BY DEF LoopTypeOK, Pushed
<1> QED
  BY <1>1, PushedFinite, FS_RemoveElement

LEMMA PushedStays ==
  ASSUME LoopTypeOK, NEW p \in Posters, NEW to,
         place[p] # "pushed", to # "pushed", place' = [place EXCEPT ![p] = to]
  PROVE  Pushed' = Pushed
  BY DEF LoopTypeOK, Pushed

(* Every step keeps queue and wake-ups in agreement ...                       *)
LEMMA AnnouncedNext ==
  ASSUME LoopTypeOK, MutexInv, EventInv, Announced, LoopNext
  PROVE  Announced'
<1>0. Announced <=> Len(customEvents) = announced + Cardinality(Pushed)
                                         + (IF LoopInLock THEN 1 ELSE 0)
  BY DEF Announced, Pushed
<1>a. Announced' <=> Len(customEvents') = announced' + Cardinality(Pushed')
                                         + (IF LoopInLock' THEN 1 ELSE 0)
  BY DEF Announced, Pushed
<1>b. Len(customEvents) \in Nat /\ announced \in Nat /\ Cardinality(Pushed) \in Nat
  BY PushedFinite, LenProperties DEF LoopTypeOK
<1>c. place' = place => Pushed' = Pushed
  BY DEF Pushed
<1> USE DEF At, LoopAt
<1>1. ASSUME NEW p \in Posters, Test(p) PROVE Announced'
  <2>1. Pushed' = Pushed
    BY <1>1, PushedStays DEF Test
  <2> QED
    BY <1>0, <1>a, <1>1, <2>1 DEF Test, LoopInLock
<1>2. ASSUME NEW p \in Posters, Lock(p) PROVE Announced'
  <2>1. Pushed' = Pushed
    BY <1>2, PushedStays DEF Lock
  <2> QED
    BY <1>0, <1>a, <1>2, <2>1 DEF Lock, LoopInLock
<1>3. ASSUME NEW p \in Posters, Push(p) PROVE Announced'
  <2>a. Event(p, made[p]) \in Events
    BY <1>3, PostedIs DEF Push, LoopTypeOK
  <2>1. Cardinality(Pushed') = Cardinality(Pushed) + 1
    BY <1>3, PushedGrows DEF Push
  <2>2. seen[p] = customEvents
    BY <1>3 DEF Push, MutexInv, InLock
  <2>3. Len(customEvents') = Len(customEvents) + 1
    BY <1>3, <2>a, <2>2, AppendProperties DEF Push, LoopTypeOK
  <2>4. LoopInLock' = LoopInLock /\ announced' = announced
    BY <1>3 DEF Push, LoopInLock
  <2> HIDE DEF At, LoopAt
  <2> QED
    BY <1>0, <1>a, <1>b, <2>1, <2>3, <2>4
<1>4. ASSUME NEW p \in Posters, Announce(p) PROVE Announced'
  <2>1. Cardinality(Pushed') = Cardinality(Pushed) - 1
    BY <1>4, PushedShrinks DEF Announce
  <2> QED
    BY <1>0, <1>a, <1>b, <1>4, <2>1 DEF Announce, LoopInLock
<1>5. ASSUME NEW p \in Posters, AnnounceFails(p) PROVE Announced'
  BY <1>0, <1>a, <1>c, <1>5 DEF AnnounceFails, LoopInLock
<1>6. CASE TakeLock
  BY <1>0, <1>a, <1>b, <1>c, <1>6 DEF TakeLock, LoopInLock
<1>7. CASE Front
  BY <1>0, <1>a, <1>c, <1>7 DEF Front, LoopInLock
<1>8. CASE Pop
  <2>1. customEvents # << >>
    BY <1>8 DEF Pop, MutexInv
  <2>2. Len(customEvents') = Len(customEvents) - 1
    BY <1>8, <2>1, HeadTailProperties DEF Pop, LoopTypeOK
  <2> QED
    BY <1>0, <1>a, <1>b, <1>c, <1>8, <2>2 DEF Pop, LoopInLock
<1>9. CASE Callback
  BY <1>0, <1>a, <1>c, <1>9 DEF Callback, LoopInLock
<1>10. CASE Leave
  BY <1>0, <1>a, <1>c, <1>10 DEF Leave, LoopInLock
<1>11. CASE Stop
  BY <1>0, <1>a, <1>c, <1>11 DEF Stop, LoopInLock
<1>12. CASE StopEnds
  BY <1>0, <1>a, <1>c, <1>12 DEF StopEnds, LoopInLock
<1> QED
  BY <1>1, <1>2, <1>3, <1>4, <1>5, <1>6, <1>7, <1>8, <1>9, <1>10, <1>11, <1>12, LoopSteps

(* ... so that front() finds an event, as the wake-up it answers was asked    *)
(* for after its push; and a poster meets a loop that is gone only if nobody  *)
(* waited for it.                                                             *)
LEMMA FailureNext ==
  ASSUME LoopInv, LoopNext
  PROVE  failure' # "empty" /\ JoinedIsSafe'
<1> USE DEF LoopInv, PostInv, JoinedIsSafe, LoopNext
<1>1. ASSUME NEW p \in Posters, Test(p) PROVE failure' # "empty" /\ JoinedIsSafe'
  BY <1>1 DEF Test
<1>2. ASSUME NEW p \in Posters, Lock(p) PROVE failure' # "empty" /\ JoinedIsSafe'
  BY <1>2 DEF Lock
<1>3. ASSUME NEW p \in Posters, Push(p) PROVE failure' # "empty" /\ JoinedIsSafe'
  BY <1>3 DEF Push
<1>4. ASSUME NEW p \in Posters, Announce(p) PROVE failure' # "empty" /\ JoinedIsSafe'
  BY <1>4 DEF Announce
<1>5. ASSUME NEW p \in Posters, AnnounceFails(p) PROVE failure' # "empty" /\ JoinedIsSafe'
  <2>1. stop # "no" /\ place[p] # "idle"
    BY <1>5 DEF AnnounceFails, StopInv
  <2>2. joined = FALSE
    BY <2>1 DEF StopInv, LoopTypeOK
  <2> QED
    BY <1>5, <2>2 DEF AnnounceFails
<1>6. CASE TakeLock
  BY <1>6 DEF TakeLock
<1>7. CASE Front
  <2>1. LoopInLock /\ announced \in Nat /\ Cardinality(Pushed) \in Nat
    BY <1>7, PushedFinite DEF Front, LoopInLock, LoopTypeOK
  <2>2. Len(customEvents) > 0
    BY <2>1 DEF Announced, Pushed
  <2>3. customEvents # << >>
    BY <2>2
  <2> QED
    BY <1>7, <2>3 DEF Front
<1>8. CASE Pop
  BY <1>8 DEF Pop
<1>9. CASE Callback
  BY <1>9 DEF Callback
<1>10. CASE Leave
  BY <1>10 DEF Leave
<1>11. CASE Stop
  BY <1>11 DEF Stop
<1>12. CASE StopEnds
  BY <1>12 DEF StopEnds
<1> QED
  BY <1>1, <1>2, <1>3, <1>4, <1>5, <1>6, <1>7, <1>8, <1>9, <1>10, <1>11, <1>12, LoopSteps

(* All of it together.                                                        *)
LEMMA LoopInvNext == LoopInv /\ [LoopNext]_loopVars => LoopInv'
<1> SUFFICES ASSUME LoopInv, [LoopNext]_loopVars PROVE LoopInv'
  OBVIOUS
<1>1. CASE UNCHANGED loopVars
  BY <1>1 DEF loopVars, LoopInv, PostInv, StopInv, EventInv, LoopTypeOK, MutexInv, InLock,
              LoopInLock, Announced, JoinedIsSafe
<1>2. CASE LoopNext
  BY <1>2, LoopTypeNext, MutexNext, StopNext, AnnouncedNext, FailureNext DEF LoopInv, PostInv
<1> QED
  BY <1>1, <1>2

(* The inductive invariant of posters, loop and owner.                        *)
THEOREM LoopCorrect == LoopSpec => []LoopInv
  BY LoopInvInit, LoopInvNext, PTL DEF LoopSpec

(* postEvent against onCustomEvent against stop(): whatever the posters, the  *)
(* loop and its owner interleave, the lock is one thread's, the queue has an  *)
(* event for every wake-up, and posters that are joined never meet a loop that*)
(* is gone.                                                                   *)
THEOREM PostingCorrect == LoopSpec => []PostInv
<1>1. LoopInv => PostInv
  BY DEF LoopInv
<1> QED
  BY <1>1, LoopCorrect, PTL

-----------------------------------------------------------------------------
(* The refinement.  The events of a poster, wherever they are, are not newer  *)
(* than the last one it pushed.                                               *)
UpTo(s, p, n) == \A i \in 1 .. Len(s) : s[i].by = p => s[i].no <= n

Newest(p) == IF place[p] \in {"tested", "locked"} THEN made[p] - 1 ELSE made[p]

NumberInv ==
  \A p \in Posters :
    /\ UpTo(customEvents, p, Newest(p))
    /\ UpTo(handled, p, Newest(p))
    /\ loop \in {"front", "callback"} /\ ev.by = p => ev.no <= Newest(p)

LEMMA UpToAppend ==
  ASSUME NEW s \in Seq(Events), NEW e \in Events, NEW p, NEW n \in Int,
         UpTo(s, p, n), e.by = p => e.no <= n
  PROVE  UpTo(Append(s, e), p, n)
  BY AppendProperties DEF UpTo

LEMMA UpToTail ==
  ASSUME NEW s \in Seq(Events), s # << >>, NEW p, NEW n \in Int, UpTo(s, p, n)
  PROVE  UpTo(Tail(s), p, n) /\ (Head(s).by = p => Head(s).no <= n)
<1>1. Len(s) \in Nat /\ Len(s) > 0
  BY LenProperties, EmptySeq
<1>2. Head(s) = s[1] /\ Len(Tail(s)) = Len(s) - 1
  BY HeadTailProperties
<1>3. \A i \in 1 .. Len(Tail(s)) : Tail(s)[i] = s[i + 1]
  BY HeadTailProperties
<1> QED
  BY <1>1, <1>2, <1>3 DEF UpTo

LEMMA UpToMore ==
  ASSUME NEW s \in Seq(Events), NEW p, NEW n \in Int, NEW m \in Int, n <= m, UpTo(s, p, n)
  PROVE  UpTo(s, p, m)
<1> SUFFICES ASSUME NEW i \in 1 .. Len(s), s[i].by = p PROVE s[i].no <= m
  BY DEF UpTo
<1>1. s[i] \in Events
  BY ElementOfSeq
<1>2. s[i].no \in Nat /\ s[i].no <= n
  BY <1>1, EventHas DEF UpTo
<1> QED
  BY <1>2

LEMMA NewestIs ==
  ASSUME LoopTypeOK, NEW p \in Posters
  PROVE  Newest(p) \in Int
<1>1. made[p] \in Int
  BY PosterAssumption DEF LoopTypeOK
<1> QED
  BY <1>1 DEF Newest

(* Making an event and pushing it only raises the number.                     *)
LEMMA NewestGrows ==
  ASSUME LoopTypeOK, LoopTypeOK', LoopNext, NEW p \in Posters
  PROVE  Newest(p)' \in Int /\ Newest(p) <= Newest(p)'
<1>1. made[p] \in Int /\ made'[p] \in Int
  BY PosterAssumption DEF LoopTypeOK
<1>2. \/ place'[p] = place[p] /\ made'[p] = made[p]
      \/ place[p] = "idle" /\ place'[p] = "tested" /\ made'[p] = made[p] + 1
      \/ place[p] = "tested" /\ place'[p] = "locked" /\ made'[p] = made[p]
      \/ place[p] = "locked" /\ place'[p] = "pushed" /\ made'[p] = made[p]
      \/ place[p] = "pushed" /\ place'[p] = "idle" /\ made'[p] = made[p]
  <2> USE DEF LoopTypeOK, At
  <2>1. CASE \E q \in Posters : Test(q)
    BY <2>1 DEF Test
  <2>2. CASE \E q \in Posters : Lock(q)
    BY <2>2 DEF Lock
  <2>3. CASE \E q \in Posters : Push(q)
    BY <2>3 DEF Push
  <2>4. CASE \E q \in Posters : Announce(q)
    BY <2>4 DEF Announce
  <2>5. CASE UNCHANGED << place, made >>
    BY <2>5
  <2> QED
    BY <2>1, <2>2, <2>3, <2>4, <2>5, LoopSteps
    DEF AnnounceFails, TakeLock, Front, Pop, Callback, Leave, Stop, StopEnds
<1>3. Newest(p)' = IF place'[p] \in {"tested", "locked"} THEN made'[p] - 1 ELSE made'[p]
  BY DEF Newest
<1> QED
  BY <1>1, <1>2, <1>3 DEF Newest

LEMMA NumberInit == LoopInit => NumberInv
<1> SUFFICES ASSUME LoopInit PROVE NumberInv
  OBVIOUS
<1>1. Len(customEvents) = 0 /\ Len(handled) = 0 /\ loop = "polling"
  BY DEF LoopInit
<1> QED
  BY <1>1 DEF NumberInv, UpTo

(* A sequence that stays keeps its bound.                                     *)
LEMMA NumberKept ==
  ASSUME LoopInv, LoopInv', NumberInv, LoopNext, NEW p \in Posters
  PROVE  /\ UpTo(customEvents, p, Newest(p)')
         /\ UpTo(handled, p, Newest(p)')
         /\ loop \in {"front", "callback"} /\ ev.by = p => ev.no <= Newest(p)'
<1>1. LoopTypeOK /\ LoopTypeOK' /\ customEvents \in Seq(Events) /\ handled \in Seq(Events)
  BY DEF LoopInv, PostInv, LoopTypeOK
<1>2. Newest(p) \in Int /\ Newest(p)' \in Int /\ Newest(p) <= Newest(p)'
  BY <1>1, NewestIs, NewestGrows
<1>3. UpTo(customEvents, p, Newest(p)) /\ UpTo(handled, p, Newest(p))
  BY DEF NumberInv
<1>4. ev.no \in Int
  BY <1>1, PosterAssumption DEF LoopTypeOK
<1> QED
  BY <1>1, <1>2, <1>3, <1>4, UpToMore DEF NumberInv

(* Push puts the newest event of its poster at the end, pop takes the first,  *)
(* and onCustomEvent appends it to what was handled.                          *)
LEMMA NumberNext ==
  ASSUME LoopInv, LoopInv', NumberInv, LoopNext
  PROVE  NumberInv'
<1> SUFFICES ASSUME NEW p \in Posters
             PROVE  /\ UpTo(customEvents', p, Newest(p)')
                    /\ UpTo(handled', p, Newest(p)')
                    /\ loop' \in {"front", "callback"} /\ ev'.by = p => ev'.no <= Newest(p)'
  BY DEF NumberInv
<1>0. LoopTypeOK /\ MutexInv /\ EventInv /\ LoopTypeOK'
  BY DEF LoopInv, PostInv
<1>a. customEvents \in Seq(Events) /\ handled \in Seq(Events)
  BY <1>0 DEF LoopTypeOK
<1>b. Newest(p)' \in Int
  BY <1>0, NewestGrows
<1>c. /\ UpTo(customEvents, p, Newest(p)')
      /\ UpTo(handled, p, Newest(p)')
      /\ loop \in {"front", "callback"} /\ ev.by = p => ev.no <= Newest(p)'
  BY NumberKept
<1>1. CASE \E q \in Posters : Push(q)
  <2>1. PICK q \in Posters : Push(q)
    BY <1>1
  <2>2. place[q] = "locked" /\ place' = [place EXCEPT ![q] = "pushed"]
        /\ UNCHANGED << made, handled, loop, ev >>
    BY <2>1 DEF Push, At
  <2>3. Event(q, made[q]) \in Events /\ made[q] \in 1 .. MaxPosts
    BY <1>0, <2>2, PostedIs DEF LoopTypeOK
  <2>4. customEvents' = Append(customEvents, Event(q, made[q]))
    BY <1>0, <2>1, <2>2 DEF Push, MutexInv, InLock
  <2>5. Newest(q)' = made[q]
    BY <1>0, <2>2 DEF Newest, LoopTypeOK
  <2>6. Event(q, made[q]).by = p => Event(q, made[q]).no <= Newest(p)'
    BY <2>3, <2>5, EventIs, PosterAssumption
  <2>7. UpTo(customEvents', p, Newest(p)')
    BY <1>a, <1>b, <1>c, <2>3, <2>4, <2>6, UpToAppend
  <2> QED
    BY <1>c, <2>2, <2>7
<1>2. CASE Front
  <2>1. UNCHANGED << customEvents, handled >>
    BY <1>2 DEF Front
  <2>2. CASE customEvents = << >>
    BY <1>2, <1>c, <2>1, <2>2 DEF Front
  <2>3. CASE customEvents # << >>
    <3>1. ev' = Head(customEvents)
      BY <1>2, <2>3 DEF Front
    <3>2. Head(customEvents).by = p => Head(customEvents).no <= Newest(p)'
      BY <1>a, <1>b, <1>c, <2>3, UpToTail
    <3> QED
      BY <1>c, <2>1, <3>1, <3>2
  <2> QED
    BY <2>2, <2>3
<1>3. CASE Pop
  <2>1. customEvents # << >> /\ customEvents' = Tail(customEvents)
        /\ UNCHANGED << handled, ev >> /\ loop = "front"
    BY <1>0, <1>3 DEF Pop, MutexInv, LoopAt
  <2>2. UpTo(customEvents', p, Newest(p)')
    BY <1>a, <1>b, <1>c, <2>1, UpToTail
  <2> QED
    BY <1>c, <2>1, <2>2
<1>4. CASE Callback
  <2>1. handled' = Append(handled, ev) /\ UNCHANGED << customEvents, ev >>
        /\ loop = "callback" /\ loop' = "polling"
    BY <1>4 DEF Callback, LoopAt
  <2>2. ev \in Events
    BY <1>0, <2>1 DEF EventInv
  <2>3. UpTo(handled', p, Newest(p)')
    BY <1>a, <1>b, <1>c, <2>1, <2>2, UpToAppend
  <2> QED
    BY <1>c, <2>1, <2>3
<1>5. CASE ~ (\E q \in Posters : Push(q)) /\ ~ Front /\ ~ Pop /\ ~ Callback
  <2>1. UNCHANGED << customEvents, handled, ev >>
        /\ (loop' = loop \/ loop' \in {"locked", "left"})
    BY <1>5, LoopSteps
    DEF Test, Lock, Announce, AnnounceFails, TakeLock, Leave, Stop, StopEnds, LoopAt
  <2> QED
    BY <1>c, <2>1
<1> QED
  BY <1>1, <1>2, <1>3, <1>4, <1>5

LEMMA NumberCorrect == LoopSpec => [](LoopInv /\ NumberInv)
<1>1. LoopInit => LoopInv /\ NumberInv
  BY LoopInvInit, NumberInit
<1>2. LoopInv /\ NumberInv /\ [LoopNext]_loopVars => (LoopInv /\ NumberInv)'
  <2> SUFFICES ASSUME LoopInv, NumberInv, [LoopNext]_loopVars
               PROVE  (LoopInv /\ NumberInv)'
    OBVIOUS
  <2>1. LoopInv'
    BY LoopInvNext
  <2>2. CASE LoopNext
    BY <2>1, <2>2, NumberNext
  <2>3. CASE UNCHANGED loopVars
    BY <2>1, <2>3 DEF loopVars, NumberInv, UpTo, Newest
  <2> QED
    BY <2>2, <2>3
<1> QED
  BY <1>1, <1>2, PTL DEF LoopSpec

(* What a poster pushes is newer than all it has pushed before.               *)
LEMMA NewerThanUpTo ==
  ASSUME NEW s \in Seq(Events), NEW p \in Posters, NEW n \in Int, UpTo(s, p, n - 1)
  PROVE  Mail!NewerThan(Event(p, n), s)
<1> SUFFICES ASSUME NEW i \in 1 .. Len(s), s[i].by = Event(p, n).by
             PROVE  s[i].no < Event(p, n).no
  BY DEF Mail!NewerThan
<1>1. s[i].by = p /\ Event(p, n).no = n
  BY DEF Event
<1>2. s[i].no \in Nat
  BY ElementOfSeq, EventHas
<1> QED
  BY <1>1, <1>2 DEF UpTo

(* push is a Put ...                                                          *)
LEMMA PushPuts ==
  ASSUME LoopInv, NumberInv, NEW p \in Posters, Push(p)
  PROVE  Mail!Next
<1>0. LoopTypeOK /\ MutexInv /\ EventInv
  BY DEF LoopInv, PostInv
<1>1. place[p] = "locked" /\ UNCHANGED << loop, handled, ev >>
  BY DEF Push, At
<1>2. made[p] \in 1 .. MaxPosts /\ Event(p, made[p]) \in Events
  BY <1>0, <1>1, PostedIs DEF LoopTypeOK
<1>3. customEvents' = Append(customEvents, Event(p, made[p]))
  BY <1>0, <1>1 DEF Push, MutexInv, InLock
<1>4. made[p] \in Int /\ Newest(p) = made[p] - 1
  BY <1>1, <1>2, PosterAssumption DEF Newest
<1>5. Mail!NewerThan(Event(p, made[p]), customEvents)
  BY <1>0, <1>4, NewerThanUpTo DEF NumberInv, LoopTypeOK
<1>6. Mail!NewerThan(Event(p, made[p]), Taken)
  <2>1. UpTo(handled, p, made[p] - 1) /\ handled \in Seq(Events)
    BY <1>0, <1>4 DEF NumberInv, LoopTypeOK
  <2>2. CASE loop = "callback"
    <3>1. ev \in Events /\ (ev.by = p => ev.no <= made[p] - 1)
      BY <1>0, <1>4, <2>2 DEF EventInv, NumberInv
    <3>2. Taken \in Seq(Events) /\ UpTo(Taken, p, made[p] - 1)
      BY <1>4, <2>1, <2>2, <3>1, UpToAppend, AppendProperties DEF Taken
    <3> QED
      BY <1>4, <3>2, NewerThanUpTo
  <2>3. CASE loop # "callback"
    BY <1>4, <2>1, <2>3, NewerThanUpTo DEF Taken
  <2> QED
    BY <2>2, <2>3
<1>7. UNCHANGED Taken
  BY <1>1 DEF Taken
<1>8. Mail!Put(Event(p, made[p]))
  BY <1>3, <1>5, <1>6, <1>7 DEF Mail!Put
<1> QED
  BY <1>2, <1>8 DEF Mail!Next

(* ... pop is the Take ...                                                    *)
LEMMA PopTakes ==
  ASSUME LoopInv, Pop
  PROVE  Mail!Next
<1>1. customEvents # << >> /\ ev = Head(customEvents)
  BY DEF LoopInv, PostInv, MutexInv, Pop, LoopAt
<1>2. customEvents' = Tail(customEvents)
  BY DEF Pop
<1>3. Taken = handled /\ Taken' = Append(handled, Head(customEvents))
  BY <1>1 DEF Pop, LoopAt, Taken
<1> QED
  BY <1>1, <1>2, <1>3 DEF Mail!Next, Mail!Take

(* ... and every other step of posters, loop and owner is none of Mailbox.    *)
LEMMA MailStep ==
  ASSUME LoopInv, NumberInv, [LoopNext]_loopVars
  PROVE  [Mail!Next]_(Mail!mailVars)
<1>1. CASE UNCHANGED loopVars
  BY <1>1 DEF loopVars, Mail!mailVars, Taken
<1>2. CASE \E p \in Posters : Push(p)
  BY <1>2, PushPuts
<1>3. CASE Pop
  BY <1>3, PopTakes
<1>4. CASE LoopNext /\ ~ (\E p \in Posters : Push(p)) /\ ~ Pop
  <2>1. UNCHANGED customEvents
    BY <1>4, LoopSteps
    DEF Test, Lock, Announce, AnnounceFails, TakeLock, Front, Callback, Leave, Stop, StopEnds
  <2>2. \/ UNCHANGED << handled, ev, loop >>
        \/ UNCHANGED handled /\ loop # "callback" /\ loop' # "callback"
        \/ Callback
    BY <1>4, LoopSteps
    DEF Test, Lock, Announce, AnnounceFails, TakeLock, Front, Leave, Stop, StopEnds, LoopAt
  <2>3. UNCHANGED Taken
    BY <2>2 DEF Taken, Callback, LoopAt
  <2> QED
    BY <2>1, <2>3 DEF Mail!mailVars
<1> QED
  BY <1>1, <1>2, <1>3, <1>4

(* postEvent and onCustomEvent, in their steps and with their lock, hand over *)
(* every event once and each thread's events in order: a loop's queue is a    *)
(* Mailbox, which is what ChatServer, TcpClient and XChatyClient take it for. *)
THEOREM HandOverCorrect == LoopSpec => HandOver
<1>1. LoopInit => Mail!Init
  BY DEF LoopInit, Mail!Init, Taken
<1>2. LoopInv /\ NumberInv /\ [LoopNext]_loopVars => [Mail!Next]_(Mail!mailVars)
  BY MailStep
<1> QED
  BY <1>1, <1>2, NumberCorrect, PTL DEF LoopSpec, HandOver, Mail!Spec
=============================================================================
