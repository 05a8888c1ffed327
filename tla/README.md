# A TLA+ verification of youth

youth is a network library for Linux in the style of a reactor: an event loop per
thread, callbacks for timers and sockets, TCP servers and clients on top of them,
HTTP and RPC on top of those, and a thread pool and an asynchronous log beside them.
This directory holds TLA+ modules that model it, TLC configurations that check them on
small instances, and proofs checked by TLAPS for the properties that matter most.

The models are written from the code under `src/`. The default build defines `NDEBUG`
(`RelWithDebInfo`), so an `assert` does nothing there: in the models an assertion is
never a guard, it is a property the code's author states.

Contents: [the system](#the-system), [modules](#modules),
[properties and runs](#properties-and-runs), [disagreements](#disagreements),
[fairness](#fairness), [bounds](#bounds), [proofs](#proofs),
[what is not modelled](#what-is-not-modelled), [plan](#plan),
[how to run](#how-to-run).

## The system

| part | state | operations | who it interacts with |
|---|---|---|---|
| `EventLoop` | pending functors, quit flag, eventfd, active channels | `loop`, `runInLoop`, `queueInLoop`, `doPendingFunctors`, `wakeup`, `quit` | every thread |
| `EventLoopThread`, `EventLoopThreadPool` | the published loop, mutex and condition; the index of the next loop | `startLoop`, `threadFunc`, destructor; `start`, `getNextLoop` | their owner, `TcpServer` |
| `TimerQueue`, `Timer` | two ordered sets of timers, the timerfd, the set of cancelled ones | `addTimer`, `cancel`, `handleRead`, `reset` | callbacks, other threads, the clock |
| `Channel`, `Epoll` | interest and index of each channel, the channel map, the event vector, the kernel's list | `enable...`, `disable...`, `updateChannel`, `removeChannel`, `poll`, `handleEvent` | the kernel, the owner of the channel |
| `TcpConnection` | state, output buffer, channel | `send`, `shutdown`, `forceClose`, `startRead`, `stopRead`, the handlers | its loop, other threads, its owner, the peer |
| `TcpServer`, `Acceptor` | the connection map, the reserve descriptor | `start`, `newConnection`, `removeConnection`, destructor | base loop, io loops, peers, the descriptor table |
| `TcpClient`, `Connector` | the wanted flags, the connecting channel, the retry delay | `connect`, `disconnect`, `stop`, `retry`, `restart`, destructor | a loop, another thread, timers, the peer |
| `Buffer` | a vector and two indices | append, retrieve, prepend, grow, move, shrink, `readFd` | everything that reads or writes |
| `ThreadPool` | a bounded queue, two conditions | `run`, `take`, `waitForAllDone`, `stop` | workers and clients |
| `LogAsync`, `LogBuffer` | a current and a next buffer, full buffers, two spares | `append`, `threadFunc`, `stop` | logging threads, `LogFile` |
| `LogFile` | the current file, the start of its day, the count of rolls | `outputLogFile`, `rollFile`, `delLogFile` | the disk, the clock, other programs in the same directory |
| `Logging`, `LogStream`, `LogOut` | the line of each thread, the level, the output function | `operator<<`, `setOutputMode`, destructor | logging threads, `LogFile`, the terminal |
| `HttpServer`, `HttpContext`, `HttpRequest`, `HttpMethod` | the parser's state, the request, the registered methods, the file of a PUT or GET | `onMessage`, `parseRequest`, `registerMethod`, `onRequest`, `writeCompleteCallback` | a connection, the disk |
| `RpcChannel`, `RpcServer`, `ProtobufCodecLite` | the next id, the outstanding calls, the input | `CallMethod`, `onMessage`, `onRpcMessage`, `doneCallback` | calling threads, services, the byte stream |
| `DateTime` | a point in time | `addSeconds` ... `addWeeks`, `addMonths`, `addYears` | timers, the log |
| `StringFunction` | none | `split`, `remove`, `replace`, `trimmed`, `startsWith`, `endsWith`, ... | its callers |

What makes it hard: a thread other than the loop's can do nothing but queue a functor and
write the eventfd, in two steps; `m_state` of a connection is a plain variable which
several threads test and set; functors bind sometimes a reference and sometimes a raw
`this`; closing a connection takes a round trip between two loops while the server may
be destroyed; timers are cancelled by callbacks of the batch that is running; bytes arrive
in pieces of any size; descriptors run out; and clocks are set back. `PROJECT.json` lists
these under "hazards", each with its line and the properties that would notice.

## Modules

Each module names the source files it stands for in its header, and `PROJECT.json` maps
each definition to its lines. An `MC*` module instantiates a module for TLC. Two of them
join modules that have nothing to do with each other, and a behaviour is about one of them:
MCData has BufferInt, DateTime, Logging, LogFile and HttpMethod, of which only safety is
asked, and MCEpoll has Epoll and StringFunction.

* **Executor** is the promise of the event loop, as an abstract specification: a queue of
  functors that are run one at a time, first in first out, each once.
* **EventLoop** models `loop` as the steps poll, dispatch, swap, run. A caller's push and
  its wakeup are two steps. The loop thread's own `queueInLoop` is one step, since no
  other thread reads what it writes. `ran`, `submitted`, `early` and `direct` are history.
* **EventLoopThread** extends EventLoop with the thread that owns the loop, and the owner
  that starts and destroys it. The destructor's unlocked read of `m_loop`, its `quit` and
  its `join` are steps of their own.
* **Epoll** has the channels of one loop with their owners: the map, the kernel's list with
  the raw pointers it keeps, the event vector, the active list, and `handleEvent` callback by
  callback. Callbacks and functors make, change, remove and free channels and close their
  descriptors; a descriptor and an address may be given again at once. An owner acts as the
  owners in the library do: it does not remove a channel whose turn is still to come, and
  frees one only when it is removed and not in its own handler, which the tie of a connection
  and the queued reset of a connector see to.
* **TimerQueue** has the two sets, a heap of addresses that are reused, and the timerfd.
  A batch of expired timers is run callback by callback, so that each callback may add and
  cancel. `addTimer` from another thread is two steps, as in the code: hand over the
  timer, then read its sequence. Time is counted in half seconds, so that a conversion to
  whole seconds can be seen. The wall clock may be set back; the timerfd is monotonic.
* **TcpConnection** has one connection with its channel, its loop's functors, the owner
  (the server's map, in the same or in another loop), other threads and a peer. Bytes are
  numbered as they are accepted, which is all that order needs. A functor is the name of
  what it calls, and `Shared` says which functors hold a reference; the connection exists
  while `Alive` holds. A write takes any number of bytes or fails.
* **TcpServer** has many connections in less detail: a base loop that accepts, io loops,
  the map, the round trip of a close through both loops, the limit of descriptors with the acceptor's
  reserve, and the destructor with the joining of the io threads.
* **TcpClient** has the connector with its channel, retry timer and two wanted flags
  (the client's and the connector's), a loop, and a thread that connects, stops and
  disconnects. The destructor runs in the loop or in the other thread, with its three cases:
  a connection held by others, one held by nobody else, and none.
* **Buffer** is the vector with its two indices under each operation; `expected` is what
  the bytes should be. **BufferInt** adds integers in network byte order, as digits.
* **ThreadPool** takes as a step what happens from taking the mutex to releasing it. A
  thread in `wait` is "waiting", and "woken" once it is notified or wakes by itself.
* **LogAsync** has a buffer as the numbers of its messages and its length, and the condition
  variable that `stop` and the log thread share. **LogFile** has days of a few seconds,
  files with the time of their last change, data that reaches the disk later, and several
  programs that write and sweep in one directory. **Logging** has what threads insert into
  their lines as items that become characters by `convert`, `convertHex` and `snprintf`, the
  output function and its flush, and the abort of a FATAL line.
* **DateTime** has the additions, on a day, a second and a microsecond; `localtime` and
  `mktime` count days by the calendar. **StringFunction** has the searching loops round by
  round, over short texts of a few characters.
* **HttpMethod** has the lists of registered methods with weak pointers to the factories.
* **HttpServer** has the input as tokens (request line, header, end of line, byte of a
  body) cut at any place, the parser, the request with its two counters, the handlers,
  the application's callbacks, and a file in blocks, each text or with a zero byte.
* **Rpc** has both ends of a connection, frames of several units cut at any place, calling
  threads, and services that answer at once or later; the codec's raw callback, which
  RpcChannel does not set, is left out.
* **LoopProofs** (EventLoop, EventLoopThread and Epoll), **TimerQueueProofs**,
  **TcpConnectionProofs**, **TcpServerProofs**, **TcpClientProofs**, **ThreadPoolProofs**,
  **BufferProofs** and **LogProofs** (LogAsync and LogFile) hold the theorems.

EventLoopThread extends EventLoop, and BufferInt extends Buffer; EventLoop is shown to
implement Executor. The modules above the loop take from it what its proofs establish:
functors run once, in the order they were queued. They model their own pending and current
batch, so that references held by a batch live as long as they do in the code. HttpServer
and Rpc take from TcpConnection what OutputThenFin says: bytes accepted while connected arrive in
order, in pieces.

## Properties and runs

What each property says, and of which code, is in the comment before its definition.
These runs pass:

| run | configuration | properties | what it shows |
|---|---|---|---|
| eventloop | `EventLoopThread.cfg` | NoLostWakeup, CleanShutdown, IsExecutor, WakeupRunsFunctor, OwnerReturns | An EventLoopThread is started, used by another thread and by its own functors, quit and destroyed in every order, spurious wakeups included: the loop never sleeps on a functor it was told of, runs what was queued once and in order as the abstract executor does, startLoop returns, and the destructor joins the thread without touching a loop that is gone, when only the destructor quits a running loop. |
| timers | `TimerQueue.cfg` | OneOwner, NoMissedTimer, CancelledStaysSilent, TimerFires | Another thread, callbacks, handlers and functors add and cancel timers at reused addresses while batches are run and the clock is set back once: each timer has one owner, the timerfd is armed in time, a cancelled timer does not stay or come back, unless it was cancelled before its queued addition ran, and every timer that falls due runs unless it was cancelled, by its own TimerId or by one that addTimer read from it by mistake. |
| connection | `TcpConnection.cfg` | OutputThenFin, UpThenDown, RegisteredMeansAlive, CloseCompletes | The loop, another thread, the peer and the destruction of the server act on one connection in every order, with and without an io thread of its own: output stays in order and the write side closes after it, the close is reported once and completes, and the connection outlives its registration, but for what is recorded in upset: the races on m_state, startRead after the close, an owner that goes while the connection shuts down, and an io loop that the destructor ends before its functors. |
| server | `TcpServer.cfg` | FreedDisconnected, RemovalFindsConnection, BacklogDrains, Released | Peers connect and close while none or two io threads serve them, descriptors run out, other threads take them, and the server is destroyed: a connection is removed once and freed disconnected, that of a peer that closed is freed, and every waiting peer is accepted or refused. |
| client | `TcpClient.cfg` | OneSafeAttempt, StopIsFinal, GetsConnected | connect, stop and disconnect in any order from another thread, and the destruction of the client in its loop or elsewhere, with every return of connect(2) and every end of an attempt, for clients that reconnect and that do not: one attempt or connection at a time, channels are freed only when epoll has let them go, a client that was destroyed in its loop, connected or at rest, is not touched again, stop is final unless a restart overrules it, and while it is wanted the client gets connected; but for a connect that is called while something of an earlier one is left, whose retry timer above all stop does not cancel. |
| pool | `ThreadPool.cfg` | NotifyOneSuffices, AllDone, StopReturns | Up to two workers (or none) and two clients share a queue of two places, with spurious wakeups and stop at any time: one notification per task and per place strands no worker, and no client until stop is over, waitForAllDone returns only when the tasks before it are done or running, and stop joins every worker. |
| log | `LogAsync.cfg` | OnceInOrder, WrittenInTime, StopReturns | Messages of two lengths, buffers that fill up, too many buffers, and stop at any time: the file gets every message once and in order but for those the code drops, the timeout of the log thread brings every message out in time, and stop returns unless the notification came before its wait. |
| data | `Data.cfg` | ContentsKept, ReadsAsPut, CalendarRight, LinesComeOut, Retention, FirstRegisteredAnswers | Parts that promise nothing about time, each by itself: a buffer that grows, moves its data and overflows into extrabuf keeps its bytes and its integers; additions to dates agree with the calendar; log lines of two threads come out as they were inserted, where LogStream can write what was, a FATAL one before the abort; of two programs that log into one directory, roll, flush and sweep old files while the other does, with the clock set back once, no message is lost a day before its time and no file is kept past it; and an HTTP request finds the first factory that is registered for it and still exists. |
| channels | `Epoll.cfg` | ChannelsAgree, CallsReturn, DataIsRead | Two channels of one loop are made, updated, removed and freed by callbacks and functors, at descriptors that are closed and opened again, while events come that do not fit into the vector: map, index and kernel agree, no freed channel gets its turn, and all data is read, until an owner updates a channel that it has removed. Beside it, the string functions return, with what they should, but for empty arguments and replacements that bring back what they replace. |
| http | `HttpServer.cfg` | RequestsAsSent, EveryBlockIsSent, GetsResponse | A peer sends two requests of every kind, cut into pieces in every way, pipelined or one at a time, to registered methods or to the callbacks of an application: requests reach the handlers in order with their own bodies, every block of a file goes out, up to a zero byte, before the connection is shut down, and the peer gets its responses, but for the requests that end the server. |
| rpc | `Rpc.cfg` | RightResponse, CallsComplete | Two threads call over a stream cut in every way, from every start of the uninitialised m_id, with messages too long or that do not parse, and services that answer at once or later in any order: each done runs once with its own response, messages come out whole and in order, and while the connection is up every call completes. |

## Disagreements

In this run TLC finds a behaviour of the code that a comment, an assertion, a test or
the interface of the repository excludes. The text that is contradicted is quoted in
`PROJECT.json` under "findings", with its line.

| run | configuration | property | what happens | where |
|---|---|---|---|---|
| log_output | `LogAsync_output.cfg` | AllOutput | stop returns with messages left in the buffers. | `src/youth/utils/LogAsync.cpp:87` |

Some of what one would like to say is false of the code, or false in some order of events
that the code does not handle. A property then says exactly when it holds, in terms of
history variables that record the event, and the model keeps the behaviour:

* EventLoopThread: a `quit()` between the publication of `m_loop` and the start of `loop()`
  is lost, and the destructor then waits for ever (`EventLoop.cpp:70`); when somebody other
  than the destructor quits the loop, `startLoop` may wait for ever and the destructor may
  use a loop that is gone (`otherQuit`).
* TimerQueue: a timer cancelled by a callback of its own batch still runs once
  (`TimerQueue.cpp:130`); a cancel in the loop of a timer whose addition another thread has
  only queued does nothing (`early`, `TimerQueue.cpp:124`); the fraction of a delay is dropped
  (`EventLoop.cpp:122`); `addTimer` in another thread reads a timer that may be deleted
  (`TimerQueue.cpp:100`), and if its address was given again, the TimerId is that of another
  timer, which a cancel then hits: TimerFires excepts the timer that was hit.
* Epoll: `disableAll` on a channel that has no interest adds it again with
  `EPOLL_CTL_ADD` (`Epoll.cpp:66`), harmless as long as its owner then removes it. An update
  *after* the removal registers the channel for good, or, if its descriptor is closed, fails,
  which is `LOG_FATAL` (`Epoll.cpp:162`): `Connector::handleWrite` after `handleError` does so
  (`Connector.cpp:146`), and `startRead` after the close (`TcpConnection.cpp:322`). It is
  recorded in `late`, and ChannelsAgree and DataIsRead claim nothing afterwards. A
  destructor of a server or an acceptor inside a handler may remove a channel whose turn is
  still to come, which `EventLoop.cpp:167` asserts against; the owners in the model do not.
* TcpConnection: `upset` records the four ways in which a close goes wrong: `m_state`
  overwritten by `shutdown` or `forceClose` of another thread (revived), `startRead` after the
  close (reenabled), `connectDestroyed` in `kDisconnecting` (dropped), and an io loop that
  `~TcpServer` ends before it has run what was queued on it (abandoned, `TcpServer.cpp:44`).
  UpThenDown and RegisteredMeansAlive except all four, CloseCompletes the last. `misuse` has the
  use of a freed connection or server, and the state "overflow" is that of `stopRead`, which
  calls itself without end (`TcpConnection.cpp:330`).
* TcpServer with io threads: a removal queued before the destructor may run after it
  (`TcpServer.cpp:92`), an io loop past its last swap never runs `connectDestroyed`
  (`TcpServer.cpp:44`), and another thread may take the acceptor's reserve (`Acceptor.cpp:72`).
* TcpClient: a refused attempt ends the process (`Connector.cpp:138`), a restart overrules a
  stop (`TcpClient.cpp:133`), and some errors of `connect` are not retried. `stop` leaves the
  retry timer set (the FIXME at `Connector.cpp:50`), so that a `connect` after it, which passes
  the assertion of `startInLoop`, makes a second attempt beside the timer's: `crossed` records
  a `connect` that comes while something of an earlier one is left, and OneSafeAttempt and
  StopIsFinal claim nothing afterwards. A client is destroyed safely only in its
  loop, connected or at rest: in another thread, during an attempt or with a `resetChannel`
  queued, what is bound to it may be called later (`TcpClient.cpp:55`).
* ThreadPool: `waitForAllDone` with several workers does not wait for what another worker is
  still running (`ThreadPool.cpp:61`). `run` does not look at `m_running`, and `stop` clears the
  queue without a notification (`ThreadPool.cpp:55`): once `stop` is over, a client may sleep in
  `run` for ever beside free places, which NotifyOneSuffices excepts.
* LogAsync: `append` loses a message when `avail()` is just one more than its length
  (`refused`, `LogBuffer.h:42`); a notification before `stop` waits leaves it there (`missed`).
* LogFile: a roll by size deletes no old files, even when it begins a new day. What is sure to
  be kept is what is a day younger than `m_delLogFileDays`, since the time of a file is that of
  its last write to the disk. When two programs sweep at once, `lastModified` throws for a
  file the other has just removed, and the program ends (`FileInfo.cc:39`).
* Logging: a string is cut at a terminator in it (`LogStream.cpp:177`), a float with a negative
  fraction is printed with two signs ("-1.-500000") and a long one is cut (`LogStream.cpp:137`);
  LinesComeOut excepts lines with one of these. A line longer than its `LogBuffer` is written
  past its end (`LogBuffer.h:54`): the module has none so long. A FATAL line that goes to LogAsync is not flushed
  before the abort, since only the mode replaces the flush function (`Logging.cpp:45`).
* DateTime: `addYears` puts the fraction of a second back with `% 100000` (`DateTime.cc:84`).
* StringFunction: `split`, `remove` and `replace` never end with an empty argument, nor does a
  replacement that is the same as what it replaces or that brings it back
  (`StringFunction.cc:18`, `:30`, `:38`). CallsReturn excepts these, and of replacements that
  are longer claims only those for a single character that they do not contain. And `endsWith` is
  true of a text one shorter than the end that is asked for (`StringFunction.cc:82`).
* HttpMethod: `registerMethod` compares the path of an entry with the new *method*
  (`HttpMethod.cc:77`), so a duplicate is accepted, and the first one registered answers.
* HttpServer: a body that arrives with its headers is not looked at until more arrives
  (`peer`), a request after one with a body on the same connection is not understood
  (`FirstBody`), and a file is not sent on a connection that is to be closed or that carries
  another request meanwhile (`FileDisturbed`). The server ends with an exception that nobody
  catches for a Content-Length that is no number (`HttpRequest.cpp:104`), and for a PUT whose
  path cannot be opened (`HttpMethod.cc:191`) or, where the application has its own ready-read
  callback, for any PUT: GetsResponse excepts them (`PutFails`). What is sent of a file is not
  the file: `File::readMaxSize` makes a string of an array without a terminator
  (`File.cc:44`), so that a block ends at a zero byte, or goes on with what is on the
  stack. EveryBlockIsSent is about which blocks are sent, and when, not about their bytes.

## Fairness

Fairness matters only to the properties that say something must happen. It assumes that
threads which can run do run, and no more:

* *Event loop.* Weak fairness of the loop's own steps (handlers and functors return), of a
  poll whose eventfd is readable, and of a caller between its push and its wakeup.
  WakeupRunsFunctor needs no timeout and no I/O. The part of OwnerReturns about the destructor assumes in addition
  `PollTimesOut`, weak fairness of the poll timeout, because `epoll_wait` is called with
  `kPollTimeMs` and `quit()` does not wake the loop.
  Nobody has to start the loop, to queue anything or to quit.
* *EventLoopThread.* Owner and thread go on, and polls return. Other users of the loop are
  not fair.
* *TimerQueue.* Time passes, and the loop goes round. Strong fairness of running a functor
  stands for what WakeupRunsFunctor shows of the loop.
* *TcpConnection.* Both loops run, and a poll returns what the kernel must report: a close
  or a reset. Data and room for output come when they come, so they are not fair.
* *TcpServer.* Each loop runs. A poll returns all the events that are ready, so a ready
  close or a waiting peer cannot be passed over for ever. This is weak fairness of the whole
  of a loop, which is never without a next step while something is ready. Peers and other
  threads are not fair.
* *Epoll.* The loop goes round: `epoll_wait` returns when something is ready and callbacks
  return. Owners and peers are not fair. *StringFunction.* A call goes on.
* *TcpClient.* The loop, the caller inside a call, the retry timer and the end of an
  attempt. GetsConnected excludes the behaviours that use up the bound on attempts.
* *ThreadPool, LogAsync.* A thread goes on when it can take the mutex. Being notified is
  not assumed. Calling `run` or `stop` is not fair. The log thread's timed wait ends.
* *HttpServer, Rpc.* The loops read what has arrived and write while there is room, and
  services run the closures they keep. Peers need not make requests.

## Bounds

Every bound is a constant named in its module. They were chosen so that the case in
question happens, which the mutants confirm: for each property of each passing run a
plausible error in a mapped definition (the operators marked "Mutant") makes TLC report
that property under that run's configuration.

* EventLoop with EventLoopThread: the owner, another caller and three functors, so that a push meets the swap of another
  batch, and a functor queues a functor. The proofs remove the bound.
* TimerQueue: two timers at two addresses, either of which may be freed and given again; a
  delay of a second and a half, and a time that has passed; the clock is set back once.
* TcpConnection: two calls and one arrival, besides the peer's close, are enough for a test, a close and an
  assignment to interleave. Messages have two bytes, so that a write can be partial.
* TcpServer: none or two io threads and two connections; `FdLimit` leaves too few
  descriptors for both and for another thread, so that `EMFILE` happens.
* Epoll: two channels and two descriptors, with a vector that starts with one place, so that
  it is full while another descriptor waits. The proof of ChannelsAgree removes the bound.
* TcpClient: three calls and five attempts, enough for a stop between two connects and for a
  retry and a restart after them; the destructor may be one of the calls. The delay of a retry
  does not matter to the properties, since a timer may go off at any time.
* ThreadPool: two workers, one or none, two clients, two places and three tasks, so that
  notifications compete and tasks can overtake each other.
* LogAsync: buffers of a few units, and a limit of two buffers instead of 25, so that
  they fill and are dropped. LogFile: two programs, days of two seconds, retention of
  two days, a clock that ends at eight seconds (at six once it was set back), and sweeps that take less than a second.
* Logging: two threads, two lines and items at the edges of their types. DateTime: two
  additions to ends of months, leap days and the years around 2100. HttpMethod: three
  factories with offers in common. StringFunction: texts of four characters, arguments of two.
* Buffer: a vector that starts with two bytes of room grows, compacts, and overflows into
  `extrabuf`. BufferInt: bytes of one bit, and integers of one and two bytes.
* HttpServer: two requests of thirteen kinds, four setups of the application, a file of two blocks. Rpc: two threads, two
  calls, two ids so that they wrap, frames that are whole, cut, too long or do not parse.

The runs list the properties that say something of the code's behaviour. The type invariant
of each module (TypeOK, ThreadTypeOK, IntTypeOK, DateTypeOK, LineTypeOK, FileTypeOK,
MethodTypeOK, EpollTypeOK, TextTypeOK) states the values its variables take; it and the
inductive invariants hold too when they are added to a configuration, and for the components
that have a module of proofs they are proved.

Only `data`, which checks no liveness, uses symmetry, of the two programs and of the two
threads that log: no property and no constant tells one from the other. Deadlock checking is
off where the system may really stop, when the bounded calls and requests are used up.

## Proofs

| theorem | module | holds for |
|---|---|---|
| TypeCorrect, LoopNeverSleepsOnWork, FunctorsRunInOrder, BatchNeverGrows, ImplementsExecutor | LoopProofs | any sets of callers and functors |
| DestructorIsClean | LoopProofs | any callers and functors |
| RegisteredChannelsExist | LoopProofs | any channels, descriptors and conditions, any first size of the vector |
| Invariant, EveryTimerOwnedOnce, CancelIsFinal, TimerfdInTime | TimerQueueProofs | any addresses, threads, delays and bounds |
| PeerSeesOutputThenFin, UsersSeeUpThenDown, EpollHoldsLiving | TcpConnectionProofs | any users, calls, arrivals and message lengths |
| RemovalAlwaysFinds, FreedWhenDisconnected | TcpServerProofs | any number of io threads, connections and descriptors |
| ConnectorIsSafe, StopEndsAttempts | TcpClientProofs | any number of calls and attempts |
| PoolTypeCorrect, LimitHolds, NotifyOneWakesEnoughWorkers, NotifyOneWakesEnoughClients, NotifyOneIsEnough | ThreadPoolProofs | any finite sets of workers and clients, any limit |
| MessagesOnceInOrder | LogProofs | any lengths of messages and buffers that hold one, any limit from two |
| LogsAreRetained | LogProofs | any programs, length of a day, retention and bounds, a clock set back by no more than the retention |
| IndicesInOrder, BytesAreKept, RoomIsMade | BufferProofs | any prepend room, initial size, arguments and bytes |

*EventLoop* has no assumption. NoLostWakeup is not inductive: it speaks of the loop in
`epoll_wait` only, and says nothing of the states from which it gets there. `IInv` asks for
a wakeup on its way in every state in which the loop may still reach the poll without
looking at the pending functors, that is, everywhere but while channels are dispatched,
after which the swap takes everything. It also says when `m_callingPendingFunctors` is set
and when the local vector is empty. The refinement
takes the rest of the batch followed by the pending functors as the queue of Executor: a
push appends to it, a run takes its head, the swap leaves it alone.

*EventLoopThread.* CleanShutdown speaks of the ends of the destructor. What it needs is said
where the thread may leave `loop()`: `ThreadInv` has that `m_quit` is set only by somebody
else or by a destructor that goes on to join, that a thread past `loop()` was told so, that
`m_loop` is set from its publication until the thread takes it back, and what the owner
therefore knows at each of its steps.

*Epoll.* ChannelsAgree relates the kernel's list, the map and the channels; alone it lets two
channels in use share a descriptor, and an update of one would then break it for the other.
It holds until a channel is updated after its removal (`late`); `EpollInv` adds the types and OneChannelPerFd: a channel in use has an open descriptor of its
own, and the map holds only channels in use, each under its descriptor. Every operation has
its lemma, and that `epoll_ctl` cannot fail comes from the agreement of index and list. It uses
of `EpollAssumption` that no channel is the value for none.

*TimerQueue.* The invariant is the type invariant with SetsAgree (the two sets hold the same
timers), AddedOnce, OneOwner, NumberedOnce (no two living timers have one sequence),
DeadAreMarked (a cancelled timer that still lives, and was not cancelled early, is in the
batch, marked), BatchInTime and
NoMissedTimer. `TimerAssumption` says that addresses, delays and times are natural numbers.
OneOwner needs the others: that an insertion puts a timer in no second place follows from its
number, and that `reset` does not put back a freed one from the marks. The argument goes timer
by timer, and the steps that move timers between places come first.

*TcpConnection.* `ConnInv` has two parts. `Output` holds always: the bytes the peer has, those
in flight in a `handleWrite` and those in `m_outputBuffer` are together the accepted ones. The
other, `Calm`, holds until the unlocked `m_state` is overwritten in a race, a closed channel is
enabled again, or the owner drops the connection or ends its loop (`upset`), which is what UpThenDown and RegisteredMeansAlive except. It says, for
each state of the connection, whether the channel is in epoll, which functors are still to come
(established before destroyed, and each once), what was reported, who still holds a reference,
and where the loop and the users stand in their handlers and calls.

*TcpServer.* `ServerInv` follows a connection through its life: each functor about it is
queued once, on the loop that must run it; from its insertion until its removal is run it is in
the map under its name, and no other has that name; and what is freed has been through
connectDestroyed. The functors queued, in a batch and running determine its state, so that each
step of a loop moves one connection from one place to the next and leaves the others.

*TcpClient.* OneAttempt is not inductive, because a start, a timer and a channel exclude each
other only if no second start can be queued. `ClientInv` therefore also says in which order the
functors of the calls can be queued (`Order`), which of them the caller has still to make
(`CallsMade`), that a queued resetChannel finds only the channel it was queued for, and that a
stop is followed by its functor; this second part holds while nothing has gone wrong (`con.bad`).
What is allowed to go wrong, and only then, is the first part, `Safe`. All of it is claimed
until a `connect` crosses an earlier one (`crossed`).

*ThreadPool* assumes that workers and clients are finite sets and the limits natural
numbers (`PoolAssumption`). That one notification suffices is a statement on numbers: while
a worker waits, there are no more tasks than woken workers. `run` adds one to both sides,
a worker that wakes and takes a task takes one from both. The invariant is the conjunction
of the type invariant, the limit of the queue and the two checked invariants with one more,
that nobody waits in a pool without workers. The part about clients holds until `stop` is
over, when the queue is cleared. The proof counts the woken threads with the lemmas on finite sets.

*Buffer* assumes what `BufferAssumption` says of its constants. The invariant adds to
TypeOK and ContentsKept the shape of the record. Each operation has a lemma: given a valid
buffer the result is valid, and its bytes are the old ones with what the call adds or
takes away. Index arithmetic is in lemmas of its own.

*LogAsync* assumes what `LogAssumption` says: a message fits into an empty buffer, and at least
two buffers are written at once. OnceInOrder speaks of the buffers in the file, handed over, full
and current, one after the other. `AsyncInv` says it of each of the four and of each pair, so that
a swap, a write or a drop is a move from one to the next; it adds that the log thread has its
first spare buffer whenever it swaps, and that what it writes is not empty, which gives the
spare back. Two lemmas reduce the order and the messages of a concatenation to its parts.

*LogFile.* Retention speaks of messages and files, but a sweep decides by the time of a file, read
some steps before the removal, and another program may write to the file in between. `FileInv`
therefore says that what a sweep has found expired stays stale: a program rolls once a day, so
the name of its file bounds the age of all that its buffer may still bring (`TimesOk`,
`StaleOk`). `RemovedOk` and `YoungOk` carry this past the removal, `SweptOk` has what a sweep
has already passed. `LogFileAssumption` has that a sweep takes less than a day and that the
clock is set back, in all, by no more than the retention: a clock that goes back further in
the middle of a sweep would make files that were just written look expired.

Only model-checked: liveness, which is beyond the prover; HttpMethod, BufferInt, DateTime,
Logging and StringFunction, where what filtering a list, or a loop over digits, months or
characters, computes needs induction over data; and HttpServer and Rpc, where recursive operators
express the parser's loop and the codec's, which the prover does not take.

## What is not modelled

* Text whose wording no property is about: the time and the place in a log line, colours,
  HTTP responses, addresses and dates as strings. The parsers keep their control and see tokens.
* Thin wrappers of system calls (`Socket`, `SocketFunc`, `HostAddress`, most of `Dir` and
  `FileInfo`, `Process`, `ElapsedTimer`): their outcomes are choices in the modules that call
  them. Errors of `accept` other than `EMFILE` are left out; most of them abort the process.
* The lists of registered methods as several io threads share them: nothing protects them, so
  every outcome is possible and there is nothing to state.
* A destructor of a server or an acceptor that runs inside a handler of the same loop.
* `TaskQueue` (one critical section per method), `Singleton`, `Object`, generated code,
  `BreakPad` and the example server.
* Exhaustion of memory, signals, and the weak memory model: a read or write of a shared
  plain variable is one step that sees the last value written.

## Plan

1. Done: the modules above, with their runs and the theorems listed.
2. An abstract specification of a byte stream that TcpConnection implements and that
   HttpServer and Rpc use; the codec written without recursion, with its proof.
3. A composition of Epoll with TimerQueue and TcpConnection in one loop, which at present
   share what Epoll and EventLoop establish.

## How to run

In this directory, with the TLA+ tools and the community modules at hand:

    tlc -workers 2 -config EventLoopThread.cfg MCEventLoopThread
    tlapm LoopProofs.tla

`PROJECT.json` names for each run its module, its configuration and its properties.
