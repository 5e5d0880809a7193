# XChaty in TLA+

XChaty is a chat program for Windows: a server with one window
(`src/XChatyServer`), a client with a login, a registration and a chat window
(`src/XChatyClient`) and a shared library (`src/XChatyUtilty`), written in C++
with Qt for the windows, libhv for TCP and SQLite for the users. This directory
models the parts whose correctness depends on what several threads, sockets and
callbacks do to each other, checks them with TLC on small instances and proves
the most important statements with TLAPS for all instances.

The project's own code is about 1500 lines. Everything under
`src/dependency/Win32/include` is vendored (libhv 1.3.1, `json.hpp`,
`sqlite3.h`). The libhv **header templates** (`TcpServer.h`, `TcpClient.h`,
`EventLoop.h`, `EventLoopThread.h`, `EventLoopThreadPool.h`, `Channel.h`,
`Status.h`) are compiled into the two programs and decide how their threads
behave, so they are modelled. The libhv C core, Qt and SQLite are not in the
repository: what is assumed of them is listed under *Assumptions*.

## Inventory

| Component | State | Operations | Interacts through |
|---|---|---|---|
| Server window, `mainwindow.cpp` | what the GUI thread is doing, title, the chat log | constructor (`StartServer`, `OverWriteMsg`), `customEvent`, `onConnection`, `onMsg`, `LoginCheck`, destructor | callbacks on worker threads, Qt events to the GUI thread, `SqlHelper` |
| `hv::TcpServer`, its acceptor and worker loops | thread statuses, `loop_`, `customEvents`, `next_loop_idx_`, `connectionNum`, channels | `start`, `onAccept`, `nextLoop`, `newConnEvent`, read, `onclose`, `stop` | a locked queue per loop, atomics, the pointer `loop_` |
| The queue of an `hv::EventLoop`, part of the server's and the client's loops | `mutex_`, `customEvents`, `loop_`, wake-ups asked for | `postEvent`, `onCustomEvent`, `stop` | posters on any thread, `hloop_post_event` of the C core |
| Wire format, `Protoc.h` | none | `Serrialize`, `DeSerrialize` | bytes of a TCP stream, without any framing |
| Chat window helper, `ChatWindowUtilty`, `customevent.h` | posted events, text of the chat log | `PostMsg`, `AppendMsg`, `OverWriteMsg` | Qt's event queue |
| Database helper, `SqlHelper.h`, `UserTableDAO.cpp` | `m_db`, `m_errmsg` | `Open`, `Query`/`Exec`, `Close` | one instance used by all workers |
| Login and registration windows | `m_user` of each window, `m_regWindow`, enabled buttons | slots of the buttons, `OnLogin`, `onConfirmBtnClicked`, `PostUserInfo` | signals, a `TcpClient` on the stack |
| `hv::TcpClient` | loop and thread status, `loop_`, events, channel | `createsocket`, `start`, `send`, destructor; `loop_thread`, `EventLoop::run` | two threads on the same fields |
| Client chat window, `xchatyclient.cpp` | `m_client`, heartbeat timers, the chat log | constructor, `InitConnect`, `SendMsg`, `onConnection`, `onMessage`, `customEvent`, destructor | callbacks on the loop thread of a `TcpClient`, Qt events; its instantiation is commented out |
| File transport, `FileTransportUtilty.cpp` | package size, the loop of `PackFile` | `PackFile`, `UnPackFile` | the file system; no caller |
| `ConnectInfo`, `SqliteRunnable`, logging, forms | - | - | - |

What is hard about it: every handler of the server runs on a worker thread and
captures `this`; the window's destructor has to end up to five threads in the
right order while they still post to it; connections are accepted on one thread
and attached, read and closed on another; messages have no length on the wire,
so where a read ends decides what is decoded; the database helper is shared by
the workers without a lock; the client creates, starts, uses and destroys a
whole event loop with its thread inside one button handler; the client's chat
window deletes and replaces such a client in whatever state it is, and every change
of its connection starts another repeating timer. `PROJECT.json` lists
each hazard at its line, with the properties that look for it.

What makes each part correct:

* *server window and TcpServer*: each connection is queued once, on one worker,
  attached by that worker and counted exactly until it is closed; the threads
  start and stop in an order in which no handler runs after the window is gone
  and no connection is handed to a loop that was told to stop; closing the window
  terminates;
* *queue of an event loop*: events of several posters go through it as through a
  mailbox, although its lock protects the push and not the wake-up; the loop never takes
  from an empty queue; a poster that the owner has waited for never meets a loop that is
  gone;
* *chat log*: what the operator sees is the abstract log of module `ChatLog`;
* *database helper*: no SQLite call gets a pointer it must not get and no open handle
  is lost, except by login checks that overlap, which the code does not prevent; when
  the last check has ended the helper is as it began;
* *TcpClient*: for its window a client is what module `ClientLife` says, whatever its
  two threads do; they never wait for each other, and the destructor returns, unless its
  stop is lost;
* *login*: at most a login followed by one registration is sent, the loop thread
  never outlives its client, its assertion holds;
* *client chat window*: a connected channel beats from exactly one timer, timers of
  lost connections end, the window always comes back from replacing its client,
  nothing reaches it after it is gone, and its log is that of module `ClientLog`;
* *file transport*: the loop of `PackFile` cuts a size into full packages and a rest;
  `UnPackFile` is meant to keep a file that exists (it does not, see below).

## Modules

| Module | Role |
|---|---|
| `Protoc` | cells of the wire format, `Serrialize`, `DeSerrialize` on a whole, cut or joined message |
| `ChatLog` | abstract specification of the chat log |
| `ChatServer` (extends `Protoc`) | window, acceptor, workers, connections, peers, Qt events; implements `ChatLog` |
| `ChatServerProofs`, `ChatCountProofs` | theorems about `ChatServer`: types, start and stop, the refinement; what is counted, queued and kept, and how closing goes on |
| `Mailbox` | abstract specification of an event loop's queue |
| `EventLoop`, `EventLoopProofs` | `postEvent`, `onCustomEvent` and `stop` with the test of `loop_`, lock, push, wake-up, front and pop as steps; implements `Mailbox` |
| `SqlHelper`, `SqlHelperProofs` | the shared database helper |
| `ClientLife` | abstract specification of a client: the life of the object and of its one connection |
| `TcpClient`, `TcpClientProofs` | the client object and its loop thread; where the two threads can be, and that each of their steps is one of `ClientLife` or none |
| `LoginWindow` (extends `TcpClient`), `LoginWindowProofs` | the login and registration windows around it |
| `ClientLog` | abstract specification of the log of the client's chat window |
| `XChatyClient` (extends `TcpClient`), `XChatyClientProofs` | the client's chat window around its clients; implements `ClientLog` |
| `FileTransport`, `FileTransportProofs` | packing and unpacking files |
| `MCSqlHelper`, `MCShared`, `MCLoginWindow`, `MCXChatyClient` | instances for TLC: compositions, symmetry, definitions for constants |

### ChatServer

`gui` is the place of the GUI thread: constructor, event loop, the waits of the
destructor. `StartServer`, `StartServerFails` and `OverWriteMsg` are the
constructor, `customEvent` one turn of Qt's loop, `StopAcceptor` to `Destroy`
the destructor, which is `TcpServerTmpl::stop(true)`, one action per place where
it waits. `OnAccept` is the acceptor's handler: the next worker is chosen
(`nextLoop`), its `connectionNum` goes up, the connection is appended to its
`customEvents`. `NewConnEvent` is the functor on the worker: attach, and the
window's `onConnection` posts "connected". `OnRead` is one read of a channel with
its decoding and the window's `onMsg`; `OnClose` (under `OnEof`, `OnTimeout` or
`OnCleanup`) is `onclose` with the "disconnected" line. A worker that is told to
stop may finish the iteration it is in (`worker = "stopping"`: `loop_` is NULL by
then), closes its connections (`"draining"`) and ends (`"stopped"`).

A message is a sequence of cells (type, strings, text, integer) and a text is the
number of the write it belongs to. `OnRead` takes any non-empty prefix of what
has arrived, also one that ends inside a cell. A chunk that does not begin with a
message decodes as any of the messages its first byte allows, with a garbled text
(a non-positive number). `mixed` is history: the texts of chat requests of which a read
that was not exactly one message has taken a part; such a text may be shown or lost.

`ChatLog` has four clauses: the log only grows; a connection appears as
"connected" once, then with chat lines, then at most once as "disconnected"; the
texts of one connection appear in the order they were written, none twice. The
refinement maps `log` to the text of the window (`chatEdit`). `OverWriteMsg`
clears the window after the server was started, which is a step that `ChatLog`
only allows because nothing can have been shown by then.

### EventLoop

`ChatServer`, `TcpClient` and `XChatyClient` take `postEvent` and `onCustomEvent` in one
step each. `EventLoop` takes them apart. `place[p]` is where poster `p` is in
`postEvent`: it has tested `loop_` and made an event (`Test`), has the lock (`Lock`), has
pushed and unlocked (`Push`), and asks the C core for a call of `onCustomEvent`
(`Announce`). A push is a read of the queue at `Lock` (`seen`) and a write at `Push`, so
that the lock has something to protect. `loop` is where the loop's own thread is: polling,
in `onCustomEvent` with the lock (`TakeLock`, `Front`, `Pop`), in the event's callback, or
out of `hloop_run`. One of the posters, `Self`, is that thread: it posts from callbacks and
then does nothing else. `stop` is the owner in `EventLoop::stop`.

`announced` counts the calls of `onCustomEvent` that were asked for. A call does not know
which event it was asked for; it takes what is first. `failure` is what a call was given
and must not be: a NULL `loop_`, a loop that has freed itself, the front of an empty queue.
The model stops there.

`joined` says whether the owner waits for its posters before it calls `stop`. `TcpServer`
does: the acceptor has ended before the first worker is told to stop. The owner of a
client does not wait for the client's own loop thread, so both values are modelled.

`Mailbox` has two actions: `Put` of an event that is newer than all of its poster in the box
or taken, and `Take` of the first. The refinement maps `box` to `customEvents` and
`taken` to the events handled, with the one that has been popped and is in its callback;
`Push` is `Put`, `Pop` is `Take`, and everything else a stutter.

### SqlHelper

One worker's login check is `Open`, `ExecBegin`, `ExecOk` or `ExecError` (then
`Report`, `Free`), `CloseCheck`, `CloseDb`, `Forget`: each access to `m_db` or
`m_errmsg` is a step, because other workers use the same members. Handles and
messages are numbers, with the sets of those that were opened, closed, allocated
and freed. Nothing keeps two checks apart, in the code or in the model.

Two variables are history and decide nothing: `shared` says that two checks have
overlapped since the helper was last idle, `misuse` which calls were given a closed
handle or a freed message since then. `Forgotten` resets both when the last check ends,
because by then nothing of it is left in the two members.

### TcpClient and LoginWindow

`client` is the place of the GUI thread in `PostUserInfo`, from the constructor of
the `TcpClient` on its stack to the end of that object's destructor; `thread` is
the place of the loop thread in `loop_thread`, `EventLoop::run` and `hloop_run`.
`LoginWindow` adds the buttons, the two windows and the user objects they point
to. `posts` records each message `PostUserInfo` was done with: what it held, what
the user had meant, and whether `send()` found a connected channel.

`ClientLife` is the client without threads: made, started (`"live"`), in its
destructor (`"ending"`), gone; with one connection that goes from idle over connecting
to connected and closed, never back, that only moves between `start()` and the end of the
destructor, and that is not on when the object is gone. `LifeOf` and `LinkOf` are the
refinement mapping, from the places of the GUI thread and the status of the channel;
both windows implement it, with different owners of the object.

### XChatyClient

`gui` is the place of the GUI thread: `"ctor"` and `"init"` are in `InitConnect`,
called by the constructor and by `SendMsg`; `"loop"` is Qt's event loop; `"send"`
is between the two times `SendMsg` and `send()` ask whether the channel is
connected; `"delete"` and `"dtor"` are in `~TcpClientTmpl`, called by `SendMsg`
and by the window's destructor. `clients` counts the `TcpClient`s, of which one
exists at a time: `NewClient` is `new hv::TcpClient` and begins with an empty
timer table, because the table belongs to the client's own `EventLoop`. All steps
of the object and its thread are those of `TcpClient`; `ClientLoop` adds to them
what `onconnect` and `onclose` do when the attempt to connect or the connection
ends: the window's `onConnection` posts a line and `setInterval` adds a heartbeat
timer, after a disconnect as well as after a connect. `OnTimer` is one tick of one
timer: a heartbeat on a connected channel, else `killTimer`, which acts at once
while the loop's status is `kRunning` and is queued (as `"kill"`, `KillEvent`)
when a stop has been announced. `timers` is a number, as the timers of one loop
differ in nothing but their ids.

`ClientLog` says of the log: it only grows; lines of one client stand together and
in the order the clients were made; "connected" is the first line of a client and
"disconnected" its last; chat lines only stand between the two. A line holds its
kind and its client; the code's line shows a socket number, which the system may
give out again. Lines the GUI thread writes itself ("host or port is empty!",
"connect failed!") are left out, except that the constructor's `OverWriteMsg`
clears the window.

### FileTransport

`PackFile` is a loop over `fileInfo.size()`; `PackBegin`, `PackNext` and `PackEnd`
are its steps, since other programs may change files meanwhile. Both functions
test `!file.open(...)`: a file that can be opened is not packed (`PackOpened`), and
`UnPackFile` writes packages only to a file it could not open, which has no effect.
What `open(WriteOnly)` itself does stays: it creates the file or empties it. A
file is its size and what `open` may do with it, because no byte is ever read or
written; `subPackList` keeps the sizes that were asked for. A file that does not
exist gives a head with `packCount = m_PakSize + 1` and no package, and such a head
makes `UnPackFile` empty the file of that name.

## Runs

| Run | Instance | Result |
|---|---|---|
| `server_threads` | 2 connections, 2 workers, 1 chat line each, whole messages, all interleavings, fairness | nine invariants (one of them the type invariant), an action property and the refinement of `ChatLog` hold; closing terminates, lines are shown, closed peers are reported (130 000 states) |
| `server_stream` | 1 connection, 1 worker, 2 writes (login or chat), reads cut and join messages anywhere | `LogInv`, `LogSpec`, `NothingLost` hold (498 000 states) |
| `server_nullloop` | 1 connection | *violated*: `LoopNeverNull` |
| `shared_state` | 2 workers, 3 logins, overlapping or not; or an event loop with 3 posters, 2 events each | `SerialInv`, `DamageNeedsOverlap` hold; `PostInv` and the refinement of `Mailbox` hold (939 000 states up to symmetry) |
| `sql_race` | 2 workers, 2 logins | *violated*: `NotClosedWhileRunning` |
| `sql_errmsg` | 2 logins, one after the other | *violated*: `ErrmsgDeletable` |
| `login_safety` | 2 names, 3 user objects, connections that may fail, fairness | five invariants and the refinement of `ClientLife` hold, and `DestructorReturns` (21 000 states) |
| `login_hang` | 1 login, fairness | *violated*: `PostTerminates` |
| `login_unsent` | 1 login | *violated*: `UserInfoSent` |
| `login_stale` | 3 user objects | *violated*: `RegistAsConfirmed` |
| `client_window` | 3 clients in one window, 1 text each, up to 4 lines before a message; 2 files of size 0 to 4, package size 2 | six invariants, an action property, the refinements of `ClientLog` and `ClientLife` and two liveness properties hold (114 000 states) |
| `file_exists` | 1 file of size 0 or 1 | *violated*: `ExistingKept` |

`client_window` checks the window and the file transport in one instance, as they
share no variable: `part` of `MCXChatyClient` says which of the two a behaviour is
about. `shared_state` does the same with the database helper and the event loop.

Every cfg says `CHECK_DEADLOCK FALSE`: each system really may stop, when the
window is closed, when the bounded logins are done, or when a pointer was
misused. Termination is checked where the code promises it, and `NeverStuck` is the
deadlock check of a client. Its part `NoDeadlock` says that while the GUI thread is in
`PostUserInfo` or in a handler of the chat window, it or the loop thread has a step to
take: where the GUI thread waits in `start()` the loop thread is still on its way to
`kRunning`, and where it waits in `stop()` the loop thread has been told to end or has
something left to do. The one exception, `HungStop`, is a real deadlock, the one that
`login_hang` runs into: the stop was lost, the close that the destructor queued is done,
the loop polls for nothing and the GUI thread waits for it. `NoDeadlock` says that there
is no other. The second part, `ReadyIsEnabled`, says that a thread with such a step can
take it, in terms of `ENABLED`.

### Why the bounds are enough

* Two connections and two workers: the round robin wraps, the two connections
  sit on different workers or in different phases, and the shutdown meets a
  worker with and one without a connection. What one worker does does not depend
  on a third; three connections give no new kind of interleaving and
  take TLC far longer. The theorems hold for any number.
* One message per connection is enough where threads race; two messages (of two
  types) are needed where reads join and cut them: a cut message, the rest of one,
  two messages at once, the end of one with the start of the next all occur.
  A cell is cut at most once and the one-byte type never.
* `server_threads` checks liveness too and uses no symmetry, which liveness does not
  allow.
* Three logins reuse the helper after a success and after a failure, after a check that
  was alone and after two that overlapped; two workers overlap in every way two steps can.
* Three posters: the loop's own thread and two others, so that a push can meet a push, a
  pop and the loop's own push; two events each, so that the order of one poster's events
  can go wrong, and up to six events wait at once. Both values of `joined`.
* Three user objects: one of a registration window, one of a login, and one for a
  second login, which `PostsInOrder` says cannot happen. With two names a stale
  user object differs from the one meant.
* Three clients: one whose connection comes about, one that replaces it, and one
  that replaces a replacement; a line of the first can still wait while the third
  is made. Four lines hold both lines of one client, one chat line and the first of
  the next; the connection lines of three clients are added to them without a
  bound. The functor of `killTimer` is bounded to one at a time in the queue: while
  a stop is pending every further tick would queue another one that finds its timer
  gone.
* Package size 2 and sizes 0 to 4: no package, less than one, exactly one, one and a
  rest, two.

### Fairness

`ChatServer`'s `FairSpec` has weak fairness for each step of each thread: the
operating system schedules a runnable thread, and each step stays enabled until it
is taken. There is none on the user closing the window, on peers (accept, write,
close) and on the idle timeout. `LoginWindow`'s `FairSpec` has weak fairness on
the GUI thread while it posts and on the loop thread; a connection attempt ends,
as the system's connect does. `XChatyClient`'s `FairSpec` has weak fairness on the
GUI thread's own steps (`Gui`), on its delivery of posted lines (`customEvent`) and on
the loop thread (`Loop`, timers included: `hloop_run` goes on to poll). There is
none on the user (`SendMsg`, closing the window) and none on the server (messages,
closing the connection).

## What the violated properties show

* `LoopNeverNull`. `EventLoop::stop`, called by the GUI thread, sets `loop_` to
  NULL (`EventLoop.h:59-71`) while the worker may still be in one iteration of
  `hloop_run`; a connection queued on it is then attached with
  `hio_attach(NULL, connio)` (`TcpServer.h:203`). It takes an accept just before the
  window is closed: `NullLoopOnlyWhenClosing`, which is checked and proved, says that
  it can only be a connection accepted before the acceptor ended and still waiting
  when its worker was told to stop. A server that goes on running never gets there.
* `NotClosedWhileRunning`. Two workers check a login at once: the `Close` of one
  calls `sqlite3_close` on the handle on which the other is in `sqlite3_exec`.
* `ErrmsgDeletable`. After a failed statement `m_errmsg` points to memory
  released by `sqlite3_free`, and `~SqlHelper` deletes it.
* `PostTerminates`. `EventLoop::run` announces `kRunning` before `hloop_run` marks
  the loop as running; `start()` only waits for the former. A stop in between is
  lost and the destructor of the client waits for ever. `PostUserInfo` destroys
  its client immediately after `start` and `send`. That is the only way in which
  `PostUserInfo` can fail to return: `DestructorReturns` is `PostTerminates` with the
  exception of `StopLost`.
* `UserInfoSent`. `send()` comes before the connection is made, writes nothing
  and its result is not read.
* `RegistAsConfirmed`. A login made while the registration window is open replaces
  `m_user`; the registration then sends the login's object.
* `ExistingKept`. `UnPackFile` asks whether the file exists and makes the name `"%1(1)"`
  for it if so (`FileTransportUtilty.cpp:37-41`, "file already exist"), but it opens the
  file of the first name with `WriteOnly`, which empties it.

`NothingLost` says of a connection that waits or is open, however its reads cut and join
messages: the texts of the chat requests its peer wrote are exactly those that are shown,
posted, unread, or in `mixed`, taken by a read that was not one whole message.
`DeSerrialize` decodes the first message of a read and drops the rest, so two messages in
one read do lose the second; the unpack settings that would prevent it are built
(`m_unpackCfg`) and never applied. What the property excludes is every other loss: between worker and window, in the shutdown, in the constructor's `OverWriteMsg`, of
the part of the stream that a read leaves. With `Framed` (`server_threads`) `mixed` stays
empty and nothing is lost at all.

`SerialInv` speaks of any overlap: until two checks have met, handle and message are
where the step of the one check under way says, and an idle helper is as it began.
`DamageNeedsOverlap` is its other half, an action property: a step that gives SQLite a
wrong pointer or loses an open handle belongs to checks that have met. That they do meet,
and what happens then, is `sql_race`.

`GuiReturns` has the exception `StopLost`: a stop that comes between `kRunning` and
`hloop_run` is overwritten, and the GUI thread then waits for ever, as `login_hang`
shows. Without that exception it is violated in the same way.

## Proofs

All theorems hold for every value of the constants that satisfies the named
assumptions in the modules (at least one worker, request types of `Protoc`, a
natural number of writes).

* `TypeCorrect`: `[]TypeOK`, with lemmas on what `Serrialize`, the cutting of a
  read and `DeSerrialize` return, and that `nextLoop` is a worker.
* `StartStopOrder`: `[]ShutdownOrder`. `ShutdownOrder` is inductive together with
  `TypeOK`: it says for each place of the GUI thread where every other thread can
  be. `CallbacksEndFirst` (`[]NoCallbackAfterDestroy`) and `AcceptIsSafe`
  (`AcceptOntoRunning`) follow from it: the acceptor accepts only while
  all workers run, and `destroyed` is only reached when all are stopped.
  `NullLoopWhenClosing` (`[]NullLoopOnlyWhenClosing`) takes it together with the
  `QueueInv` of `LogInv`: a worker is only told to stop after the acceptor has ended,
  and what is in its queue are connections that wait.
* `LogCorrect`: `Spec => LogSpec`, the refinement of `ChatLog`. The window's text
  alone says too little to be inductive. `LogInv` speaks of `Whole`, the lines
  shown followed by those posted: (1) `Legal(Whole)`, each line is one that
  `ChatLog` allows after those before it; (2) nothing is shown before the
  constructor has ended; (3) `QueueInv`, a queue holds connections of its worker
  that wait, each once, so "connected" is posted once; (4) `OwnerAlive`, an open
  connection has a worker that still runs, so no line of it follows the destructor,
  which drops the lines that are posted; (5) `ReportInv`, a connection that is not
  yet open has no line, one that is open is "connected" and not "disconnected";
  (6) `TextInv`, the texts still in the stream are in order and newer than those in
  `Whole`. `LogInvCorrect` proves it (one lemma per action that
  disturbs lines, stream or queues), `ShowStep` that `customEvent` is a step of
  `ChatLog`; every other action is a stutter.
* `ClosingIsSomeonesTurn` and `ClosingGoesOn`: what `ShutdownTerminates` rests on, for any
  number of workers and connections. The first is an invariant that follows from
  `ShutdownOrder`: as long as the window closes, one of the steps by which threads end
  has its guard true (the acceptor leaves, the GUI thread goes on, a worker leaves its
  loop, closes a connection, or ends). The second is an action property: what is left of
  the shutdown (`Left`: threads that have not ended, workers not yet told to stop,
  connections not closed) is never added to, each of those steps takes something off it,
  and a step that takes nothing off leaves every such guard true that was. That a worker
  about to end is not given a connection again takes `LogInv`.
* `PostingCorrect`: `LoopSpec => []PostInv`. `Announced`, a part of `PostInv`, counts:
  the queue is as long as the calls of `onCustomEvent` that were asked for, plus one for
  each poster between push and `Announce`, plus one while the loop has the lock. A push
  and its announcement are apart, and two posters may announce in the other order, so no
  announcement can be tied to its event; the count is what survives, and it is what
  `front()` needs. It rests on `MutexInv`, another part: a queue read under the lock is
  still the queue when it is written. To be inductive `PostInv` takes `StopInv` (the loop
  is left only after `stop` was called, and no joined poster is in `postEvent` from then
  on) and `EventInv` (a poster has made its event before it pushes it, and what is called
  back is one).
* `HandOverCorrect`: `LoopSpec => HandOver`, the refinement of `Mailbox`. `Put` wants an
  event that is newer than all of its poster: `NumberInv` says that numbers in the queue
  and among those taken are at most `made[p]`, and below it while `p` has its newest event
  still in its hands.
* `SerialCorrect` and `DamageIsTheOverlap`: `[]SerialInv` and `DamageNeedsOverlap` for any
  number of workers, whose checks may overlap. `SerialInv` is inductive: it says who owns
  handle and message at each place of the one check under way as long as `shared` is
  false, and that the helper is as it began when no check is under way, which is where
  the next check starts from after any overlap.
* `OwnerAliveCorrect` is a part of `LogInv`. `CountsExact`: `CountInv` says that
  the counter of a worker is the cardinality of its queued and open connections,
  a finite set that grows with `OnAccept` and shrinks with `OnClose`.
  `DealtEvenly`: `DealtInv` says that there is a number of whole rounds such that
  the workers from 1 up to the last that was dealt to have one connection more;
  worker 0 comes last, as the index is incremented before it is used.
  `QueuedInOnePlace`: `QueueInv` says that a queue holds waiting connections, each
  once; `WaitInv` adds that each waiting connection stands in one.
* `NothingIsLost`: `[]NothingLost`, whether reads are framed or not. `KeptInv` says of
  each connection that its stream is the rest of a sequence of whole messages (`Shape`)
  and that a text was written in a chat request exactly if it is in `Whole`, in the
  stream or in `mixed`; a read of one whole message takes a text off the stream
  exactly if it decodes a chat request with it, any other read puts what it takes into
  `mixed`. Lines are only dropped when no connection is open, which takes
  `ShutdownOrder` and `OwnerAlive`; that waiting connections have none is `ReportInv`.
* `InvCorrect` of `LoginWindowProofs` and its consequences `WindowTypes`,
  `AssertHolds`, `ThreadEndsFirst`: `ThreadInv` (in `TcpClientProofs`, for every
  user of the module) bounds, for each place of the GUI thread, how far
  the loop thread can be: created by `start`, at least at `hloop_run` when `start`
  returns, past it only after `stop`.
* `PostsOrdered`: `OrderInv` ties what was posted to the buttons and windows that
  can still post.
* `HeartbeatCorrect`, `CloseCorrect`, `FreedOnce` and `TypeCorrect` of
  `XChatyClientProofs` need one invariant: `GuiInv` (which place of the GUI thread
  goes with which place of the client), `ChanInv` (what the channel can be at each
  place of the loop thread), `TimerInv` (no timer until the attempt to connect has
  ended, exactly one while connected unless `loop_` was NULL by then), `QueueInv`
  (a queued end of a timer is for a timer that exists, of a channel that is closed
  for good, after a stop was announced) and `ThreadInv`. That a timer is never ended
  while its channel is connected rests on a closed channel staying closed.
* `LogCorrect` of `XChatyClientProofs`: `LogInv` speaks of the lines shown and posted
  together and of the current client's last line, so that whatever the loop thread
  posts is a line that `ClientLog` allows; `customEvent` is its step, everything else
  a stutter.
* `ClientLives` of `LoginWindowProofs` and of `XChatyClientProofs`: `Spec => LifeSpec`,
  the refinement of `ClientLife`. The step that needs an argument is the end of the
  destructor: the object may only go when the connection is not on. `ChanInv` says that a
  channel that is connecting or connected is polled, `ThreadInv` that the thread is gone
  when its status is `kStopped`; a thread that has left `hloop_run` has closed its
  channel. `ClientLifeStep` maps the steps of the client, and the windows add theirs (the
  server closing the connection is the only one that moves it).
* `DeadlockFree` of `LoginWindowProofs` and of `XChatyClientProofs`: `Spec => []NoDeadlock`,
  without any hypothesis. `ThreadInv` and `StopInv` say where the loop thread can be for
  each wait of the GUI thread: before `kRunning` in the wait of `start()`, not gone while
  its status is not `kStopped` in the wait of `stop()`. What is left is a loop that polls
  without a stop, which is `StopLost`, and there `CloseInv` is needed: from the
  destructor's `closesocket()` on, the functor that closes the channel is in the queue or
  the channel is closed, and stays so whatever is queued or taken besides (`ClientClose`,
  and `CloseNext` for the ends of timers). So a loop without a step has closed its
  connection (`WaitsForStep`).
* `PostUserInfoReturns`, `HeartbeatsStop` and `GuiComesBack`: the liveness properties
  `DestructorReturns`, `HeartbeatsEnd` and `GuiReturns`, each from `FairSpec` and
  `[]ReadyIsEnabled`. A fair thread takes its step if that step is enabled; that it has
  one at every place but the waits is the lemma `TurnCorrect` (`HasTurn`, from the types
  and from which functors can stand in the queue), and that one it has is enabled is the
  hypothesis, which TLC checks in `login_safety` and `client_window`.
  From there the proofs are complete. Client and loop thread go through their places in
  one order; in each place it is the turn of one of them (`Onward`, `GuiMoves`,
  `LoopMoves`, `WaitingMoves`), and PTL joins the rungs. The one place where a
  thread may take several steps is `hloop_run` after the stop, where events are left to
  handle: `Work` counts them (twice, as one may begin an attempt to connect, whose end
  is a step too), `EndingMoves` shows that each step of the thread makes it smaller, and
  `StopInv` bounds it by 7: `connect` and `close` are queued once in the life of a client
  and at most one end of a timer is. `HeartbeatsStop` counts timers and events in the
  same way. Leaving `StopLost` out makes the step from `"entering"` unprovable, which is
  the behaviour of `login_hang`.
* `PackLoopCorrect`: `PackLoopInv` is inductive as it stands.

Only model-checked: `ReadyIsEnabled`, the part of `NeverStuck` that speaks of `ENABLED`,
and the liveness of the server (`ShutdownTerminates`, `PostedIsShown`, `EofIsReported`). The number of
rungs of the latter is a constant or grows with the behaviour (workers to be stopped,
connections to be closed, places in a queue), so each needs an induction over a
leads-to, which the installed provers cannot instantiate; for `ShutdownTerminates` the
rungs themselves are proved (`ClosingIsSomeonesTurn`, `ClosingGoesOn`). What a recursively defined
operator computes for every input is out of their reach for the same reason.

## Assumptions

* `hloop_run` marks its loop as running when it is entered, so that a stop before
  is lost; when it is left it closes the connections that are left
  (`HLOOP_FLAG_AUTO_FREE`).
* A loop does not carry the id of the GUI thread before `hloop_run` sets it. Two branches
  of the code ask whether the caller is the loop's own thread: `EventLoopThread::stop`
  returns without waiting if `hv_gettid() == loop_tid` (`EventLoopThread.h:64-68`), and
  `runInLoop` runs its functor in place if the loop is running and `isInLoopThread()`
  (`EventLoop.h:163`). For the GUI thread, which makes the loops and stops them, both are
  left out: `CloseSocket` always queues, `ThreadGone` always waits. That is right once
  `hloop_run` has stored the id of its thread, and before that only if `hloop_tid` is not
  the GUI thread's; the C core that decides it is not in the repository.
  `NoThreadWithoutClient`, `LifeSpec` and the action of the wait itself rest on this. With
  the early return the thread would still not outlive its client: `~EventLoopThread`
  joins it (`EventLoopThread.h:23-26`), but only after the members that `TcpClientTmpl`'s
  other base owns are gone, and the callbacks of the loop thread use those.
* A worker's `EventLoop::stop` is one step in `ChatServer` (the worker only
  observes that `loop_` is NULL); in `TcpClient`, where it matters, it is two.
  Workers cannot lose a stop as the client can, because the pool's `start` waits for
  a functor that runs inside each loop; for the acceptor `ChatServer` assumes that
  the user closes the window after the acceptor has entered its loop.
* `hloop_post_event` may be called from any thread, and the loop calls `onCustomEvent`
  once for each call of it. That `postEvent` and `onCustomEvent` can then be one step
  each in `ChatServer`, `TcpClient` and `XChatyClient` is no assumption: it is
  `HandOver`.
* `postEvent`, `setTimer` and `runInLoop` test `loop_` or the status and use it in one
  step in these modules. In the code a `stop()` may come between the two, as in module
  `EventLoop`: `PostInv` says that a poster is safe if the owner of the loop has waited
  for it, which holds for the acceptor. It does not hold for the loop thread of a client
  that ends a heartbeat timer while the GUI thread deletes the client; there the null
  pointer can be met, as in `LoopNeverNull` at another place.
* The client program is built with NDEBUG: `assertInLoopThread` does nothing. A build
  with assertions would abort in `setTimer` when a connection ends after `loop_` is
  NULL.
* The server that `XChatyClient` talks to sends chat messages only, one per read.
* The number of connections stays below `max_connections`.
* `setKeepaliveTimeout(1500)` is a timeout that can fire at any time.
* Qt delivers posted events of equal priority in order, each once, and drops those
  of an object that is destroyed.
* `sqlite3_open`, `sqlite3_exec`, `sqlite3_close` and `sqlite3_free` do what
  `sqlite3.h` says of them.
* The message boxes are modal: while one is shown, nothing else is clicked.

## Not modelled

* Responses: the server builds them and never writes them.
* `InsertUser`, `CreateTable`, `InsertData`, `isOpen` of the database classes (no
  caller) and the rows of the user table (no statement of this program finds one).
* Of libhv what the two programs do not use: TLS, unpacking, broadcast,
  reconnection, `max_connections`, the other load balancers, UDP, HTTP, WebSocket.
* Real time: 1000 ms between heartbeats and the 1500 ms after which the server closes
  are "at some time".
* Contents of files, since the file transport never reads or writes a byte, and
  their MD5 sums.
* `ConnectInfo` and `SqliteRunnable` (no behaviour), logging, forms, build files.
* `json.hpp` (25 000 lines) and `sqlite3.h` (13 000 lines of declarations) are most of
  the repository; the programs include them, do not call the one, and call four
  functions of the other, which are modelled from their use. The same holds for the
  headers of libhv's C core, HTTP and utilities: what is modelled is the project's
  own code and the templates that run its threads.

`PROJECT.json` says why for each component.

## Order of the work

The modules were written in this order, each with its runs and then its theorems:
`Protoc`, `ChatLog`, `ChatServer`, `SqlHelper`, `TcpClient`, `LoginWindow`,
`ClientLog`, `XChatyClient`, `FileTransport`, `ChatCountProofs`, then the liveness of
the two windows, `ClientLife`, and `EventLoop` with `Mailbox`. What it posts to, the
wake-up of a polling loop, is in libhv's C core, which the repository does not have.
