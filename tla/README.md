# ground in TLA+

`ground` is an I/O reactor for Rust: a thin, allocation-free layer between
`epoll(7)` and `Future`s. Its difficulty is out of proportion to its size. The
reactor keeps no table of what is registered: the kernel holds raw pointers to
`Waiter` structures that live inside the user's pinned `Async<T>` values; the
events are edge-triggered, so one that is mishandled does not come again; and
tasks, the executor and the kernel interleave at every system call.

On top of it the repository has TCP and Unix sockets, a DNS client with a packet
parser of its own, and a chat server as its largest example.

This directory models that machinery and what is built on it, checks it with TLC on
small instances and proves its safety with TLAPS for instances of any size.

## 1. Inventory of the system

| part | code | state | operations |
|---|---|---|---|
| Reactor | `src/src/reactor.rs` | `epfd`, `is_dispatching`; per waiter `waker`, `register_for`, `waiting_for` | `add`, `modify`, `delete`, `deliver`, `dispatch` |
| `Async<T>` | `src/src/io.rs` | `inner: Option<T>`, the `Waiter`, whether it is pinned | `new`, `ensure_registered`, `deregister`, `poll_nonblocking`, `nonblocking`, `into_inner`, `take_inner`, `Drop`; `poll_read/write/flush/close/fill_buf` |
| executor | `src/executor/src/lib.rs` | the pool of tasks, the result channel | `run`: poll the woken tasks until none is left, return the result if it is there, else `dispatch()` |
| kernel | external | readiness of files, the epoll interest and ready lists | `epoll_ctl`, `epoll_wait`, readiness that comes and goes |
| util | `src/src/util.rs` | none | `cvt`, `noop_waker` |
| TCP | `src/src/net.rs` | `called_connect` | `accept`, `incoming`, `connect` |
| Unix sockets | `src/src/unix.rs` | none | `accept`, `incoming`, `connect` |
| DNS | `src/src/dns.rs` | the packet buffer, `Records { buffer, answer_count }` | `make_query_packet`, `name_size`, `parse_response_packet`, `query`, `Records::next` |
| chat server | `src/examples/chat-server.rs` | `Peers::channels`, a bounded channel per name | accept, claim a name, `recv_loop`, `send_loop`, leave |
| outer event loop | `src/src/lib.rs:141-212` (documented use) | whether the callback for the epoll descriptor is due | find it readable, call back, run the tasks |
| other examples | `src/examples/*.rs` | none of their own | users of the crate |

How they interact: a task polls a future, the future calls
`Async::poll_nonblocking()`, which tries the operation and on `WouldBlock` stores
the task's waker and calls `epoll_ctl` with the address of its `Waiter`. When all
tasks are asleep, `executor::run()` calls `Reactor::dispatch()`, which blocks in
`epoll_wait`, follows each returned pointer to a `Waiter`, clears the bits it
received from `waiting_for` and calls the waker, which puts the task back into
the executor's queue.

What is hard, and what makes each part correct:

* **Reactor.** It follows raw pointers. Each must point to an `Async` that exists,
  is pinned and owns the registered file, both while the kernel has it and while
  it is in the array of a `dispatch()` under way.
* **Async.** `register_for` is a shadow copy of the kernel's registration and must
  agree with it through every sequence of calls, failures included. An edge
  between the `WouldBlock` and the registration must not be lost. A task that is
  told to wait must be woken.
* **executor.** It must not go to sleep while a task could do something, and must
  survive (or at least unwind cleanly from) an interrupted wait.
* **TCP and Unix connect.** The second invocation of the TCP closure must come only
  after the connection was decided; the Unix one retries `connect(2)` itself.
* **DNS.** The parser must stay inside of its packet for every input; the iterator
  must end, must yield the addresses that were sent, and must not lose any without an
  error; the query loop must accept only its server's answer to a query of this port,
  and must get through whatever else arrives before it.
* **Chat server.** A name must be held by one client at a time. The channels must stay
  bounded although each message goes through a new clone of the sender. A client that
  does not read holds up those who write to it and nobody else, and a connection that
  ends must be closed in both directions.
* **Outer event loop.** What the descriptor says of the reactor must be all the outer loop
  needs to know: it must neither sleep through work nor block in `dispatch()`.

`PROJECT.json` lists every hazard with the line where it bites and the property
that covers it, or why none does yet.

## 2. The modules

| module | models | built on |
|---|---|---|
| `Epoll` | the kernel: readiness, `epoll_ctl`, `epoll_wait`, the ready list | |
| `Reactor` | `reactor.rs` | `Epoll` |
| `AsyncIo` | `io.rs`: the parts of its methods that touch a waiter, a file or the reactor | `Reactor` |
| `Ground` | the crate at work: tasks, polls, the executor's loop, unwinding, the kernel | `AsyncIo` |
| `ReadyIo` | the abstract specification: what a user of the crate relies on | |
| `Connect` | `net.rs`, `unix.rs`: `connect` | `Ground` |
| `OuterLoop` | the crate under another event loop | `Ground` |
| `PinGetMut` | `Ground` with programs that replace a wrapped file | `Ground` |
| `DnsParser` | `dns.rs`: the query packet, the parser and `Records::next`, byte by byte | |
| `DnsReply` | a well-behaved DNS server, and what a caller may expect of its answers | `DnsParser` |
| `DnsQuery` | `dns.rs`: `query()` against a network | |
| `ChatServer` | `chat-server.rs` | |
| `MCGround`, `MCConnect`, `MCOuterLoop`, `MCPinGetMut`, `MCDnsReply`, `MCDnsQuery`, `MCChatServer` | instances for TLC | the module of the name |
| `GroundStructure`, `GroundWakeups` | theorems and proofs, the second built on the first | `Ground` |
| `GroundImplements` | the refinement of `ReadyIo`, and what an outer loop may rely on | `OuterLoop`, `GroundWakeups` |
| `ConnectOutcomes` | theorems and proofs | `Connect`, `GroundWakeups` |
| `DnsBounds` | theorems and proofs | `DnsParser` |
| `ReplyReading` | theorems and proofs | `DnsReply`, `DnsBounds` |
| `QueryAnswers` | theorems and proofs | `DnsQuery` |
| `ChatChannels` | theorems and proofs | `ChatServer` |

How they stack: `Ground` is shown to implement `ReadyIo`; `DnsQuery` and `ChatServer` take
an operation on a socket for what `ReadyIo` says it is and do not model wakers again.
`DnsQuery` carries packets without looking inside; `DnsParser` looks inside one packet.

**Epoll.** An event mask is a set of flag names (`IN`, `OUT`, `HUP`, `ERR`, `ET`), so
the code's bit operations are set operations. `level[fd]` is what `poll(2)` would say
of a file, `events` and `data` are the epoll interest list (mask and user data),
`rdllist` the ready list. Two facts of Linux matter and are modelled: ADD and MOD
look at the file at once and queue an event if it is ready already, and a
wakeup with a mask queues the file when the mask meets the registration *or*
carries `HUP`/`ERR`, which are always reported. `epoll_wait` drops stale entries,
sleeps while nothing is deliverable, and returns at most `MaxEvents` files.

**Reactor.** The fields of `Waiter` are functions from waiter addresses. `dispatch()` is
cut into `dispatch_wait` (up to the return of `epoll_wait`), one `dispatch_next` per
element of the array and `dispatch_end`, because the kernel can act in between.
`woken` is what calling a waker does: the task is queued for its next poll.

**AsyncIo.** An `Async` is identified with the address of its waiter. `live` are the
`Async`s that exist, `pinned` those that may not move any more, `inner` the wrapped
file. The operators are named after the methods. `ensure_registered` keeps the
order of the code: `register_for` is assigned before the system call, so that
`ensure_registered_fails` leaves it changed.

**Ground.** `Uses` are the operations tasks may perform: which task, on which `Async`, with
which interest, and whether it is a plain operation (`nonblocking()`, `poll_read`,
`poll_write`, `poll_flush`, `poll_fill_buf`, `accept`, `incoming`) or a `poll_close`.
A running task (`current`) may wrap, unwrap, take and drop `Async`s, begin and cancel
operations, and polls everything it has in flight once per turn (`todo`).
`poll_nonblocking()` is five actions: `PollTaken` (the `expect`), `PollPending` (the
early return), `PollReady`, `PollWouldBlock`, and `PollRegister` or
`PollRegisterPanics`, the rest of the `WouldBlock` arm, which is separate because the
kernel may act between the failed operation and `epoll_ctl`. A new or taken-over
operation is always polled in the turn in which it begins, as an `.await` does.
Rust's ownership rules are guards: an `Async` with an operation in flight is borrowed, so a
second one is begun beside it only when the `Async` is in `Split`: split into halves, which
tasks hold or one task joins, or polled by hand. `PollClose` is a flush that succeeds followed
by `take_inner()`; it leaves the other operations on the `Async` in flight, without a file and
without a word to anybody (`PollTaken` is the panic of the one that is polled nevertheless).
`PollCloseFails` is a flush that fails and leaves the file. A panic (`Panic`) drops all tasks; `Teardown` drops their
`Async`s one at a time, and a panic in there is an abort. `Faults` switches on tasks
that wake each other, signals that interrupt `epoll_wait`, and an `epoll_ctl` that
runs out of memory or watches.

**Connect.** `connect()` is an `async fn` with one `.await`; its steps are actions that follow each
other without a return to the executor (`Busy`): `Open` (socket, `Async::new`),
`BeginConnect`, the polls of the awaited operation, and after it `TakeSocket`, `WrapStream`
(`Async::new(stream)` at another address) and `DropSocket`, the drop of the shell that is
left. `OpenFails` and `PathFails` are the errors before there is anything to await (`Socket::new()`,
`SockAddr::unix()`). `TcpConnect` is the first invocation of the TCP closure, `TakeError` every later one;
`called_connect` is the closure's flag. The Unix closure has no flag: `UnixConnect` calls
`connect(2)` each time. `sock` is the connection's fate as the network decides it,
`outcome` what the operation returned. The readiness of a socket follows Linux: writable
and hung up before it is connected, nothing during the TCP handshake, writable
afterwards, everything on failure; `connect(2)` on a full Unix backlog changes nothing.
Everything else, the executor and the streams' operations, are the actions of `Ground`.

**ReadyIo.** Files have a readiness, operations are in flight, the thread sleeps or not. An
operation completes only when its file is ready for it and takes no more of the
readiness than it asked for; the thread sleeps only while nothing in flight could
proceed; in the fair version an operation whose file stays ready completes. To an operation
whose file was closed under it nothing is promised: it stays in flight, as in the code. There is
no waker, registration or event in it. `Ground` implements it with `asleep` mapped to
`Asleep` (blocked in `epoll_wait`); the other variables have the same names.

**OuterLoop.** Instead of the executor's loop, another event loop finds the epoll descriptor
readable (`FindReadable`), runs tasks (`RunTasks`) in any order with that, and at some
later time calls back (`Callback`), which enters `dispatch()`. The descriptor is readable
exactly while an event is deliverable. The callback expects `dispatch()` to succeed, so a signal
is a panic there (`Dispatch`), and so is a registration that fails while tasks run. The loop may
end between two callbacks (`Quit`); after that or a panic the `Async`s are dropped (`TearDown`).
`OwnFilesSpec` excludes that someone else uses up what is ready.

**PinGetMut.** `get_mut()` and `pin_get_mut()` return a plain `&mut T`. `Replace` is the
assignment through it.

**DnsParser.** Bytes are numbers, positions count from the start of the buffer as in the code. `Build`
is `make_query_packet()` with its two panics, `Receive` is `recv_from()` cutting what does
not fit. Then one action per loop head and per fallible part: `Header`, `Questions`,
`Question`, `NameTurn` (one turn of `name_size()`, for questions and records), and of the
iterator `CallNext`, `Answers`, `SkipName`, `ShortRecord`, `SkipRecord`, `AddressRecord`.
`panicked` is what slicing outside of the buffer leads to. `out` is everything the
caller got.

**DnsReply.** `Encode` writes an answer as a server does, `Promised` says what a caller should
then see. A name in a record is any sequence of bytes that begins with labels and ends in a
zero or in a two-byte pointer (`Heads`). That is a little more than RFC 1035 allows: labels of
up to 127 bytes, which the crate itself sends (`dns.rs:115`), and every pointer byte from 128 on,
which is how `name_size()` tells them apart (`dns.rs:139`). `MessagesAssumption` says what else
makes a message well formed: counts and lengths fit their 16 bits, an `A` record has 4 bytes of
data and an `AAAA` record 16.

**DnsQuery.** Each call of `query()` binds a port that no open socket has (one that an earlier
call had may be picked again: `bind()` to port 0 promises no more), sends once, and takes
datagrams from its socket's queue until one comes from the server. The network loses,
duplicates, delays and reorders; strangers send to the port; sockets fail; futures are dropped.

**ChatServer.** A client's task is `naming`, `receiving` or `left`; `users` is what remains of the
line it is sending, `flushing` the channel its `send()` waits for. The channel is
`futures::channel::mpsc` as the code uses it: a new clone can always queue one message,
and is parked when the channel was full; `receiver.next()` unparks the first one.
`send_loop()` ends when no sender is left: neither the one in the table nor a clone that
is still flushing. `AcceptFails` is the `?` of `async_main()`: the server returns the error and
everything is dropped. Lines are written whenever they are, or never.

`O_NONBLOCK` is not a variable: `new` always sets it and nothing in the crate clears
it, which is why an operation that cannot proceed gets `WouldBlock` (`PollWouldBlock`).
A closed file's registration is not assumed to disappear by itself, because a
duplicated descriptor keeps it in the kernel: removing it is `deregister`'s job.

## 3. The properties and the runs

| run | instance | shows |
|---|---|---|
| `owned` | 2 files, 2 `Async`s, 2 tasks; one reads from and writes to the halves of one `Async`, one flushes and closes the other; signals; `MaxEvents` 1 | `TypeOK`, `UnwindsWithoutAbort`, `PointersPinned`, `RegistrationAgrees`, `NoLostWakeup`, `SleepsOnlyWhenIdle`, `ImplementsReadyIo` |
| `shared` | 2 files, 1 `Async` split over 2 tasks, one of which closes it; all faults | `PointersPinned`, `RegistrationAgrees` |
| `live` | 2 readers, 2 files, `MaxEvents` 1, fair | `ReadyOperationsComplete`, `ImplementsFairReadyIo` |
| `connects` | a TCP and a Unix connect, two sockets, the TCP task also reads the other stream; signals, failing registrations and early errors, fair | `ConnectTypeOK`, `OkIsEstablished`, `ErrIsFailure`, `NoDecisionIsLost`, `DecidedConnectsReturn` |
| `embedded` | a reader and a writer under an outer loop; signals and failing registrations | `OuterSleepsOnlyWhenIdle` |
| `dns` | 2 names, answers of a server and malformed packets, buffers of 21 to 60 bytes, a caller that goes on after two errors | `TypeOK`, `NoPanic`, `YieldsAreDeclared`, `ReadsWhatWasSent`, `ReadingIsLinear`, `ReadingEnds` |
| `dns_query` | 2 queries, 2 ports, each of which both may get, queues of 2, 2 foreign datagrams, all faults, fair | `TypeOK`, `OwnOrLateAnswer`, `AnswerIsOnItsWay`, `WaitsOnlyForLostPackets` |
| `chat` | 3 clients, 2 names, channels of 1, one line per client to one or two users, writes that fail or hang, failing accepts, fair | `TypeOK`, `NamesAreHeldOnce`, `QueuesAreBounded`, `ParkedAreServed`, `LinesAreSent`, `ConnectionsEnd` |
| `split_wakeup`, `pipe_hangup`, `unix_connect`, `outer_blocks` | the smallest instance each | a promise of the documentation that the code does not keep; see below |

Eight more configurations are kept for use by hand. Each ends in a counterexample that
belongs to one of the points below: `handover_wakeup`, `joined_close`, `either_direction`,
`failed_registration` and `starvation` (`MCGround`), `replaced_file` (`MCPinGetMut`),
`dns_short_buffer` (`MCDnsReply`), `dns_late_reply` (`MCDnsQuery`).

* `PointersPinned`: every pointer in the kernel's table or in `dispatch()`'s array points
  to a pinned `Async` that owns the file (the SAFETY comments of `io.rs:175-178`,
  `io.rs:304-306`, `reactor.rs:182-183`).
* `RegistrationAgrees`: until a panic, `register_for` is 0 or the file is gone exactly when
  nothing is registered for the `Async`, and otherwise is the registered mask. So the
  choice between ADD, MOD and nothing is right and `deregister()` never fails.
* `NoLostWakeup`: a parked operation that could proceed has an event queued (in the
  kernel or in the array) and the waker it will reach is that of its own task.
* `SleepsOnlyWhenIdle`: when the thread sleeps in `epoll_wait`, no operation in flight
  could proceed.
* `UnwindsWithoutAbort`: dropping the `Async`s of a thread that panics in an interrupted
  `dispatch()`, or at an operation whose file was taken, does not panic. (After a failed
  registration it may: point 5 below.) `owned` has the first kind of panic, its theorem both.
* `ReadyOperationsComplete`: no operation stays in flight and able to proceed for ever.
* `OkIsEstablished`, `ErrIsFailure`: `connect()` reports what became of the connection,
  whatever wakes the task in between. The closure cannot tell "still connecting" from
  "connected" (`take_error()` is `None` for both); only the early return of
  `poll_nonblocking()` keeps it from being asked too early.
* `NoDecisionIsLost`: when the network has decided on a TCP connection, a `connect()` that is
  parked has an event queued that wakes its own task, wherever the decision fell between
  the first `connect(2)` and the delivery of other events.
* `DecidedConnectsReturn`: a TCP connection that was established or refused is noticed.
* `ImplementsReadyIo`, `ImplementsFairReadyIo`: every step of `Ground` is a step of `ReadyIo`
  or none, and with fairness no ready operation is kept waiting for ever.
* `OuterSleepsOnlyWhenIdle`: when all woken tasks have run, no callback is due and the
  descriptor is not readable, no operation could proceed.
* `NoPanic`: no packet makes the parser or the iterator slice outside of the buffer.
* `YieldsAreDeclared`: the iterator returns no more addresses than the header announced,
  each from bytes of its own, even when the caller goes on after an error.
* `ReadsWhatWasSent`: the answer to a query the crate has built is read as it was meant; if
  the buffer cut it, the caller gets a beginning of it and then an error.
* `ReadingIsLinear`: each step of the parser, of `next()` and of a caller that goes on after
  errors brings down the bound (`Work`) on the steps that are left. It is linear in the length of
  what was received, for each of the `Retries` errors and for the reading itself.
* `ReadingEnds`: the caller's loop ends for every packet.
* `OwnOrLateAnswer`: what a query returns is the server's answer to this query, an error, or the
  late answer to a query that had ended before and whose port this one got; never the answer
  to a query that is still open, nor a stranger's datagram. Without the last case (`OwnAnswer`)
  it is false: point 9 below.
* `AnswerIsOnItsWay`: while a query waits, its packet or an answer is under way or in its own
  socket's queue, or was lost: neither skipping foreign datagrams nor another query takes it.
* `WaitsOnlyForLostPackets`: a query waits for ever only if its packet or answer was lost.
* `NamesAreHeldOnce`: the table has a client under a name exactly while that client is
  served under it (so `debug_assert!(sender.is_some())` holds, `chat-server.rs:130`).
* `QueuesAreBounded`: a message beyond the capacity belongs to a clone that is parked.
* `ParkedAreServed`: a channel in which somebody is parked is as full as it may be, its
  `send_loop()` runs, and the first message beyond the capacity is of the first who is parked,
  the second of the second: each message that is taken lets one go on whose own has come
  within the capacity, and who is parked waits for the messages in front of its own only.
* `LinesAreSent`: a line reaches all its users, or its sender waits for ever for one of them, whose
  `send_loop()` hangs in a write: nothing else can hold it up.
* `ConnectionsEnd`: after a client's end its `send_loop()` ends too, or hangs in a write.

**Bounds.** Two of each kind are the smallest numbers at which the interesting cases exist:
a file handed from one `Async` to another, an event in the array for another `Async` than
the one a task handles, more ready files than the array holds (`MaxEvents` 1 stands for the
code's 512), two halves of one `Async`. In `Ground` and what is built on it nothing is
counted, so those models need no bound on steps or retries: the state spaces are finite and
explored completely (about 290 thousand states in `owned`). The sets of edges are those of
the file types: a stream socket reports `IN`, `OUT`, or everything at once on reset; the
read end of a pipe reports `IN` or only `HUP`.

The other models have bounds. `DnsParser`: `Retries`, how many errors a caller ignores (two:
the iterator stands in the middle of a record after the first, and may fail there again);
`Sizes`, which include every place where a one-record answer can be cut; `Replies`, all
sequences of up to three pieces (end of name, label, label that ends outside, pointer in the
last byte, record of the right size, of a wrong size, of no size, of a foreign class) after a
header that announces two answers and no or one question. Every branch of the parser is
taken. `DnsQuery`: `MaxStrangers` 2 and `Capacity` 2, so that foreign datagrams can fill a
socket's queue; the two calls may be under way together or one after the other, and then at
the same port, where a datagram for the first may be late, twice, or behind a foreign one.
`ChatServer`: `MaxLines` 1 and `Capacity` 1 with three clients let all three queue a
message in one channel, two of them beyond its capacity; the code has 16. Two names for three
clients make them collide.

**Fairness** (`FairSpec` and `ConnectFairSpec`, in the runs of liveness properties).
`WF(Executor)`: the thread runs. `SF(Poll(o))` and `SF(EndTurn(t))`: a task that runs
polls its operations and its turns end. This is asked of the program that uses
`ground`; the crate has no budget that would make a busy task yield. `SF` of the
`epoll_wait`s that report a given file: the kernel serves its ready list in
order. In `Connect` a
task goes on through `connect()` once its operation is over (`WF(Body)`). The kernel's
readiness changes are never assumed to happen. The liveness runs have no tasks that
wake themselves: a task that always does keeps `run_until_stalled()` from returning,
and then nobody dispatches (`starvation.cfg`).
`DnsParser`: `WF(Parse)`, a function that is called runs on, and its caller calls `next()` again.
`DnsQuery`: `WF` of each query, which is a task of a fair executor, and of each datagram's
delivery, which may be its loss. `ChatServer`: `WF` of each `recv_loop()` and `send_loop()` that
is not waiting for a channel, and nothing of the writes: the example splits each connection
over two tasks, so a `write_all()` that has to wait may lose its wakeup to the read half, also
when the client reads (point 1 below). That is why `LinesAreSent` and `ConnectionsEnd` speak of
writes that hang. Nobody is assumed to write, to leave or to read either.

**Deadlock** is checked except in `dns_query` and `chat`, where all queries may have
returned and all clients may have gone. In the others `Terminated` (`Finished` in
`DnsParser`) is the only stuttering end, so a state in which the thread can neither run,
dispatch, sleep nor unwind would be reported.

**Where code and documentation disagree**:

1. `split_wakeup`: `poll_nonblocking()` keeps one waker per `Async` (`io.rs:445`). When the
   reading and writing halves are used by different tasks, as in the chat server,
   the later one to block replaces the waker of the earlier one. Two relatives:
   the early return (`io.rs:436-441`) does not refresh the waker, so a task that goes on with
   an `Async` after another one has dropped its future there sleeps for ever
   (`handover_wakeup`), and `poll_close()` of one half (`io.rs:612`) takes the file away from a
   read that is parked at the other, also when one task has joined the two, without waking it
   (`joined_close`). All three are against `io.rs:344`, "this method will ensure that the current
   task will get woken up".
2. `pipe_hangup`: `deliver()` clears only the reported bits (`reactor.rs:139`). A pipe reader
   whose writer is gone gets `EPOLLHUP` alone and never sees the end of the stream.
   `Interest::ReadWrite`, documented as "readable or writable" (`io.rs:36`), waits for both
   because the early return lets nothing through before all bits are cleared
   (`either_direction`).
3. `unix_connect`: when the listener's backlog is full, `connect(2)` answers `EAGAIN` and queues
   nothing (`unix.rs:153`). The registration reports the socket writable once, the
   closure is retried once, and no event follows even when the listener accepts.
4. `outer_blocks`: between the readable descriptor and its callback a task may use up what was
   ready; then `dispatch()`, which waits without a timeout (`reactor.rs:172`), blocks the outer
   loop, although `reactor.rs:194-195` says one can "be sure it doesn't block".

By hand only:

5. `failed_registration`: a failing `epoll_ctl` panics with `register_for` already set
   (`io.rs:173`); the unwinding drop tries to deregister, fails and aborts the process.
   This is why `owned`, which checks `UnwindsWithoutAbort`, has no failing registrations.
6. `starvation`: a task that wakes itself keeps `run_until_stalled()` (`executor/src/lib.rs:26`)
   from returning; no event is dispatched, and the early return keeps the ready
   operation from being tried.
7. `replaced_file`: `pin_get_mut()` (`io.rs:261`) lets safe code replace a registered file;
   registration and file part.
8. `dns_short_buffer`: a query that does not fit the buffer panics (`dns.rs:98`), which the
   comment above (`dns.rs:92`) says it should not.
9. `dns_late_reply`: every query has the ID 0 and the reply is not compared with it, so a late
   answer to a dropped query is taken for the answer to the next one at the same port
   (`dns.rs:288`).

## 4. What is proved

The proofs hold for every value of the constants that the `ASSUME`s of the modules
allow (masks are masks, `None` is none of the other values, uses are well-typed and
`poll_close` is a write, a connecting socket's `Async` is a local of its `connect()`,
capacities are numbers): any number of files, `Async`s, tasks and operations, any array
length, all faults; any number of connects, queries, ports, clients and names, and packets
and buffers of any length. What a theorem assumes beyond that stands in its `ASSUME`.

**`GroundStructure`** begins with `Spec => []TypeOK`. `TypeOK` alone is not inductive:
`PollRegister` indexes the kernel's tables with the file of the blocked operation and
`dispatch()` takes the pointers of the files on the ready list. `TypeInv` adds that the
blocked operation still has its file and that only registered files are queued.

`Structure` is inductive given `TypeInv`. It adds to the three properties
where control is (`ControlInv`), that whoever has an operation in flight is alive and
has pinned the `Async` (`BorrowInv`), that a file has one owner (`OwnerInv`), and that a
registration's owner knows of it even after a panic (`PointerInv`). `PointersPinned` needs
it: only because `register_for` is not 0 whenever the kernel has the pointer does
`deregister()` really remove it. Hence `PointersArePinned` and `RegistrationsAgree`,
with no assumption about the program. `UnwindingIsSafe` is
`UnwindsWithoutAbort` without the fault `ctl`: `RegistrationAgrees` speaks only of a thread that
does not panic, and `UnwindInv` carries the agreement over the panic.

**`GroundWakeups`**: `WakeupsAt(w)` is inductive for each `Async` by itself, given the other two
and that one task uses `w` (`UsedByOne`). Its core is `EdgeAt`: a waited-for flag is
registered, and if the file has it then the file is on the ready list or an event with the
flag is in the array. `BlockedAt` closes the window between `WouldBlock` and registration;
`ParkedAt` and `WakerAt` connect the flags to the tasks. `UsedByOne` is used where `dispatch()`
wakes the one task that can be parked on `w`. `LevelInv` is about the files: hang-ups show up as
readiness. With these alone `WakeupsInvariant` holds, also for an `Async` that is closed under a
read. That the read then has an event to wait for takes `FilesAt(w)`: operations in flight have
their file, and on an `Async` that is not split there is one at a time. `ClosedWholeAt(w)` makes it
inductive: an `Async` that is split is not closed. Because the argument is local,
`UnsharedAreServed` needs its conditions of one `Async` only: a split `Async` (finding 1) takes
wakeups from its own halves and from nobody else. With the conditions on all of them follow
`NoWakeupIsLost` and `SleepsOnlyIdle`: `SingleUser` (each `Async` is used by one task), `OneWay`
(no `ReadWrite`), `ClosedWhole` (a close has its `Async` for itself) and `HangupIsIO` (hang-ups and
errors also make a file readable and writable). The configurations `split_wakeup` and
`handover_wakeup`, `either_direction`, `joined_close` and `pipe_hangup` show that none of the four
can be left out.

**`GroundImplements`**: with `SingleUser`, `OneWay` and `HangupIsIO` `Ground` implements `ReadyIo`
(`GroundImplementsReadyIo`); `ClosedWhole` is not needed, since `ReadyIo` promises nothing to an
operation whose file is closed under it. Each action is shown to be one of `ReadyIo` or a
stutter; the two that need an invariant are `Stall` and the kernel's, which must not leave the
thread asleep beside a ready operation that has its file: that is `SleepersAreQuiet` at the
step's end. The second half is `OuterSleepsIdle`: all that the outer loop adds to the steps of
`Ground` are `Callback` and `Quit`, which change where control is; the invariants do not speak of
a stalled pool and survive them (`OuterInv`), and what `SleepsOnlyIdle` gets from the executor's order the outer loop gets from
looking at the descriptor and at its woken tasks. The pointers are safe there without any of the
conditions (`OuterPointersArePinned`).

**`ConnectOutcomes`**: the steps of `Connect` are those of `Ground`, except `Open` and the
closures (`ConnectSteps`), so `TypeInv` and `Structure` carry over. For `OkMeansEstablished`
and `ErrMeansFailure` the second invocation of the TCP closure must find the connection
decided (`DecidedWhenInvokedAgain`). The argument goes over the early return of
`poll_nonblocking()`: after its first invocation `connect()` is blocked or waits for `OUT`
as long as the connection is under way (`WaitsInv`); only an event with `OUT` ends the wait,
and while it is under way the socket reports nothing, in the kernel or in the array
(`UndecidedInv`). `SocketInv` says that what is wrapped is open and what `take_inner()`
handed out was established, `CalledInv` and `OutcomeInv` where the closure is. The other
direction is `DecisionsAreDelivered`: `WakeupsAt` holds for the local `Async` of each TCP
`connect()` (`ServedInv`), with nothing assumed of the streams, since nobody else can use
it; and what was decided and not yet reported is writable (`DecidedInv`). With `StallInv` it
follows that the thread does not sleep beside a decided TCP `connect()`
(`ConnectsSleepUndecided`). `ServedInv` is false for Unix connects, which is finding 3.

**`DnsBounds`**: `SlicesStayInside` is `NoPanic`, for names, buffers and packets of every length and
callers that go on as often as they like; assumed is only that packets consist of bytes and
that the query type is one of the two. The invariant `Bounds` says that the parser's
position is inside of the buffer (or at its end) wherever a slice is about to start
there; it is needed because a label's length or a record's data can leave the position
anywhere, and each later step must find it checked. `ReadingInv` adds an account: the
answers yielded and those still announced are together at most what the header said, and
each yielded one has used up 15 or 27 bytes of its own before `start`. A name counts with at least one
byte once it is passed (`NamePaid`), a record with its fixed part and its data
(`RecordPaid`). From it `ReadingTypeOK` and `AddressesAreDeclared` (`YieldsAreDeclared`).
`ReadingTakesLinearTime` is `ReadingIsLinear`: the part of termination that needs no fairness.
`Work` counts the errors until the caller gives up (`Left`), each worth a `Round`, and below that
the bytes not yet read (`Rest`). An error of `next()` may send the reading back from `pos` to
`start`, which is behind it by less than a `Round`; `PaceInv` says what makes it so: a name
leaves the buffer by one label at most, and the caller has not gone on after more than
`Retries` errors.

**`ReplyReading`**: `RepliesAreReadAsSent` is `ReadsWhatWasSent`, for every name, message,
number of questions and records, and every size of the buffer. Its first half says where the
parts of a packet are. `FlattenSeq()` is defined by recursion, and the theorems of the
library about such definitions cannot be instantiated here; but that a set of numbers with 0
and all successors is `Nat` follows from the least number outside of it (`Induction`, from
`WFMin`), and with sets in place of predicates the induction goes through: the function that
`FlattenSeq()` chooses exists (`FlatteningExists`), it is determined (`FlatteningsAgree`),
and so the parts of a concatenation follow each other, each where those before it end
(`FlattenLayout`). From that come the places of the bytes of a record, a query and a reply
(`RecordLayout`, `QuestionLayout`, `ReplyLayout`). The second half is the invariant
`ReplyInv`: until the end the reading is `OnCourse`, which is to say that `pos` and `start`
are where the server has put the question or the answer that is due (`QuestionAt`,
`AnswerAt`), inside of a name at the beginning of one of its labels (`Reads`), and that
`out` is what the answers so far yield; or it is `Settled`: what was promised has been
returned, or `CutShort` holds, the packet did not fit and there is an error after a
beginning of what was promised. Each step stays on course or finds a byte missing, and then
the packet was cut.

**`QueryAnswers`**: `QueryTypeOK`, `WaitingHasAReason` (`AnswerIsOnItsWay`) and
`AnswersAreOwnOrLate` (`OwnOrLateAnswer`), without further assumption. `QueueInv` says that what is
queued at a socket was sent to it, `WayInv` that open sockets have different ports and that a
datagram about a query is between the server and that query's port, `RouteInv` that what the
server has sent to a port is about a query that had it. So the query that a datagram answers is
the one that receives it or one that had ended (a new socket's queue is empty, and what is
still under way may come late). When no other query has had the port, the answer is the query's own.

**`ChatChannels`**: one invariant, `Inv`, is inductive and contains `NamesAreHeldOnce`,
`QueuesAreBounded` and `ParkedAreServed`. The last one is needed for the others: a bound
alone is not inductive, since a message that is taken unparks one sender whether or not the
channel was full. What holds is an equality, `Len(queue) = Capacity + Len(parked)` while
somebody is parked, and more: the messages beyond the capacity are those of the parked
senders in their order, which joining and going on preserve (`AppendAligned`,
`TailAligned`). `Named` ties the table to who is being served, `Spawned` a running
`send_loop()` to a sender that keeps its channel open.

Only model-checked: the liveness properties (`ReadyOperationsComplete`,
`ImplementsFairReadyIo`, `DecidedConnectsReturn`, `ReadingEnds`, `WaitsOnlyForLostPackets`,
`LinesAreSent`, `ConnectionsEnd`), which are out of the prover's reach under fairness, though the
safety they rest on (`NoWakeupIsLost`, `DecisionsAreDelivered`, `ReadingTakesLinearTime`,
`WaitingHasAReason`, `SendersAreServed`) is proved; and the violations. Every invariant that a run
checks is proved.

## 5. What is not modelled

Left out for good: formatting and `Debug`, the `Send`/`Sync` markers, vectored I/O as
distinct from plain I/O, the contents of reads and writes, creation and close of the
epoll descriptor, `splitting` of a value over threads (an `Async` cannot leave its
thread).

Wakes from other threads are not modelled either: the crate does not say that they would
interrupt the wait. Wakers are the executor's: they neither panic nor enter `dispatch()`. Of
the chat server the texts of messages, the notices to a client whose line or name is refused,
and lines without a user are left out: they change no state. The contents of the other
examples are instances of `Ground`, `Connect` and `DnsQuery`; they have no state of their own.
