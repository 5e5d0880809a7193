----------------------------- MODULE EventLoop -----------------------------
(* The queue of one hv::EventLoop (EventLoop.h): postEvent of several threads *)
(* and onCustomEvent of the loop's thread, with the test of loop_, the lock,  *)
(* the change of the queue and the wake-up as separate steps, while the owner *)
(* of the loop stops it.  ChatServer, TcpClient and XChatyClient take each of *)
(* the two operations in one step.                                            *)
(*                                                                            *)
(* hloop_post_event and the loop that calls onCustomEvent once for each event *)
(* announced to it are libhv's C core.                                        *)
EXTENDS Integers, Sequences, FiniteSets

CONSTANTS
  Posters,   \* threads that post
  Self,      \* one of them: the thread of the loop, from its other callbacks
  MaxPosts   \* bound: events of one poster

ASSUME PosterAssumption ==
  IsFiniteSet(Posters) /\ Self \in Posters /\ MaxPosts \in Nat

Event(p, n) == [by |-> p, no |-> n]
Events == [by : Posters, no : 1 .. MaxPosts]

VARIABLES
  place,        \* where each poster is in postEvent
  made,         \* events each poster has made
  seen,         \* the queue as a poster found it when it had the lock
  mutex,        \* mutex_
  customEvents, \* customEvents
  announced,    \* calls of onCustomEvent that hloop_post_event has asked for
  loop,         \* where the thread of the loop is
  ev,           \* the event onCustomEvent has taken
  handled,      \* events whose callback was called, in order
  stop,         \* the owner in EventLoop::stop: hloop_stop done, loop_ = NULL done
  failure,      \* what a step was given that it must not be given
  joined        \* the owner waits for the posters before it calls stop

loopVars == << place, made, seen, mutex, customEvents, announced, loop, ev,
               handled, stop, failure, joined >>

LoopInit ==
  /\ place = [p \in Posters |-> "idle"]
  /\ made = [p \in Posters |-> 0]
  /\ seen = [p \in Posters |-> << >>]
  /\ mutex = "free" /\ customEvents = << >> /\ announced = 0
  /\ loop = "polling" /\ ev = Event(Self, 0) /\ handled = << >>
  /\ stop = "no" /\ failure = "no"
  /\ joined \in BOOLEAN

At(p, from, to) == place[p] = from /\ place' = [place EXCEPT ![p] = to]
LoopAt(from, to) == loop = from /\ loop' = to

-----------------------------------------------------------------------------
(* postEvent.                                                                 *)

(* if (loop_ == NULL) return; a new event is made.  The loop's own thread     *)
(* posts from its callbacks; posters that have been joined post no more.      *)
Test(p) ==
  /\ stop # "stopped"
  /\ p = Self => loop \in {"polling", "callback"}
  /\ joined => stop = "no"
  /\ made[p] < MaxPosts
  /\ At(p, "idle", "tested")
  /\ made' = [made EXCEPT ![p] = @ + 1]
  /\ UNCHANGED << seen, mutex, customEvents, announced, loop, ev, handled,
                  stop, failure, joined >>

(* mutex_.lock(), and the queue as push finds it ...                          *)
Lock_NotTaken(p) ==
  /\ At(p, "tested", "locked")
  /\ mutex' = "held"
  /\ seen' = [seen EXCEPT ![p] = customEvents]
  /\ UNCHANGED << made, customEvents, announced, loop, ev, handled, stop,
                  failure, joined >>

Lock(p) ==
  /\ At(p, "tested", "locked")
  /\ mutex = "free" /\ mutex' = "held"
  /\ seen' = [seen EXCEPT ![p] = customEvents]
  /\ UNCHANGED << made, customEvents, announced, loop, ev, handled, stop,
                  failure, joined >>

(* ... and as it leaves it; mutex_.unlock().                                  *)
Push(p) ==
  /\ At(p, "locked", "pushed")
  /\ customEvents' = Append(seen[p], Event(p, made[p]))
  /\ mutex' = "free"
  /\ UNCHANGED << made, seen, announced, loop, ev, handled, stop, failure, joined >>

(* hloop_post_event(loop_, &ev->event): loop_ is read again.                  *)
Announce(p) ==
  /\ stop # "stopped" /\ loop # "left"
  /\ At(p, "pushed", "idle")
  /\ announced' = announced + 1
  /\ UNCHANGED << made, seen, mutex, customEvents, loop, ev, handled, stop,
                  failure, joined >>

(* The loop is gone by now: the argument is NULL, or a loop that has freed    *)
(* itself (HLOOP_FLAG_AUTO_FREE) when its thread left it.                     *)
AnnounceFails(p) ==
  /\ place[p] = "pushed"
  /\ stop = "stopped" \/ loop = "left"
  /\ failure' = IF stop = "stopped" THEN "null" ELSE "freed"
  /\ UNCHANGED << place, made, seen, mutex, customEvents, announced, loop, ev,
                  handled, stop, joined >>

-----------------------------------------------------------------------------
(* onCustomEvent, on the thread of the loop; not while one of its callbacks   *)
(* is in postEvent.                                                           *)
CallbackDone == place[Self] = "idle"

(* mutex_.lock() ...                                                          *)
TakeLock ==
  /\ LoopAt("polling", "locked")
  /\ CallbackDone
  /\ announced > 0 /\ announced' = announced - 1
  /\ mutex = "free" /\ mutex' = "held"
  /\ UNCHANGED << place, made, seen, customEvents, ev, handled, stop, failure, joined >>

(* ... customEvents.front(), which needs a queue that is not empty ...        *)
Front ==
  /\ loop = "locked"
  /\ IF customEvents = << >>
       THEN failure' = "empty" /\ UNCHANGED << loop, ev >>
       ELSE loop' = "front" /\ ev' = Head(customEvents) /\ UNCHANGED failure
  /\ UNCHANGED << place, made, seen, mutex, customEvents, announced, handled,
                  stop, joined >>

(* ... customEvents.pop(), mutex_.unlock() ...                                *)
Pop_Forgotten ==
  /\ LoopAt("front", "callback")
  /\ mutex' = "free"
  /\ UNCHANGED << place, made, seen, customEvents, announced, ev, handled,
                  stop, failure, joined >>

Pop ==
  /\ LoopAt("front", "callback")
  /\ customEvents' = Tail(customEvents)
  /\ mutex' = "free"
  /\ UNCHANGED << place, made, seen, announced, ev, handled, stop, failure, joined >>

(* ... ev->cb(ev.get()).                                                      *)
Callback ==
  /\ LoopAt("callback", "polling")
  /\ CallbackDone
  /\ handled' = Append(handled, ev)
  /\ UNCHANGED << place, made, seen, mutex, customEvents, announced, ev, stop,
                  failure, joined >>

(* hloop_run returns once it was told to stop; what is still announced is     *)
(* dropped with the loop.                                                     *)
Leave ==
  /\ stop # "no"
  /\ LoopAt("polling", "left")
  /\ CallbackDone
  /\ UNCHANGED << place, made, seen, mutex, customEvents, announced, ev,
                  handled, stop, failure, joined >>

-----------------------------------------------------------------------------
(* EventLoop::stop, called by the owner: hloop_stop(loop_) ...                *)
Stop_NotJoined ==
  /\ stop = "no" /\ stop' = "stopping"
  /\ UNCHANGED << place, made, seen, mutex, customEvents, announced, loop, ev,
                  handled, failure, joined >>

Stop ==
  /\ stop = "no" /\ stop' = "stopping"
  /\ joined => \A p \in Posters : place[p] = "idle"
  /\ UNCHANGED << place, made, seen, mutex, customEvents, announced, loop, ev,
                  handled, failure, joined >>

(* ... loop_ = NULL.                                                          *)
StopEnds ==
  /\ stop = "stopping" /\ stop' = "stopped"
  /\ UNCHANGED << place, made, seen, mutex, customEvents, announced, loop, ev,
                  handled, failure, joined >>

-----------------------------------------------------------------------------
Poster(p) == Test(p) \/ Lock(p) \/ Push(p) \/ Announce(p) \/ AnnounceFails(p)
LoopThread == TakeLock \/ Front \/ Pop \/ Callback \/ Leave

LoopNext ==
  /\ failure = "no"
  /\ (\E p \in Posters : Poster(p)) \/ LoopThread \/ Stop \/ StopEnds

LoopSpec == LoopInit /\ [][LoopNext]_loopVars

-----------------------------------------------------------------------------
LoopTypeOK ==
  /\ place \in [Posters -> {"idle", "tested", "locked", "pushed"}]
  /\ made \in [Posters -> 0 .. MaxPosts]
  /\ seen \in [Posters -> Seq(Events)]
  /\ mutex \in {"free", "held"}
  /\ customEvents \in Seq(Events)
  /\ announced \in Nat
  /\ loop \in {"polling", "locked", "front", "callback", "left"}
  /\ ev \in [by : Posters, no : 0 .. MaxPosts]
  /\ handled \in Seq(Events)
  /\ stop \in {"no", "stopping", "stopped"}
  /\ failure \in {"no", "null", "freed", "empty"}
  /\ joined \in BOOLEAN

(* Where the lock is held one thread is between lock and unlock, and a queue  *)
(* that was read under the lock is still the queue when it is changed.        *)
InLock(p) == place[p] = "locked"
LoopInLock == loop \in {"locked", "front"}
MutexInv ==
  /\ mutex = "free" => ~ LoopInLock /\ \A p \in Posters : ~ InLock(p)
  /\ LoopInLock => \A p \in Posters : ~ InLock(p)
  /\ \A p, q \in Posters : InLock(p) /\ InLock(q) => p = q
  /\ \A p \in Posters : InLock(p) => seen[p] = customEvents
  /\ loop = "front" => customEvents # << >> /\ ev = Head(customEvents)

(* The queue holds one event for each call of onCustomEvent that was asked    *)
(* for and has not reached pop, and one for each poster that has not asked    *)
(* yet: the queue and the wake-ups are changed by different steps and never   *)
(* disagree in number.                                                        *)
Announced ==
  Len(customEvents) =
    announced + Cardinality({p \in Posters : place[p] = "pushed"})
              + (IF LoopInLock THEN 1 ELSE 0)

(* The test of loop_ and its use are apart, and stop() may come in between.   *)
(* An owner that waits for the posters first (TcpServer: the acceptor ends    *)
(* before the workers are stopped) never lets one meet a loop that is gone.   *)
JoinedIsSafe == joined => failure = "no"

(* postEvent against onCustomEvent against stop: the lock is held by one      *)
(* thread, wake-ups and events agree, hence front() is only called on a queue *)
(* that holds an event, and a joined poster never meets a loop that is gone.  *)
PostInv == LoopTypeOK /\ MutexInv /\ Announced /\ failure # "empty" /\ JoinedIsSafe

(* The steps taken together do what Mailbox promises: push is its Put, pop    *)
(* its Take.  Wake-ups may be announced in another order than the events were *)
(* pushed, and each one takes what is first in the queue by then.             *)
Taken == IF loop = "callback" THEN Append(handled, ev) ELSE handled
Mail == INSTANCE Mailbox WITH box <- customEvents, taken <- Taken
HandOver == Mail!Spec
=============================================================================
