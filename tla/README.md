# IpcPortable: TLA+ specifications

IpcPortable is a C++ library for remote procedure calls between two processes
(or two threads) joined by a transport. Each side owns a `MAssIpcCall` endpoint,
registers handlers on it, and calls the handlers of the other side. There is no
separate documentation in the repository: the reference is the source, its
comments, and the tests of `Autotests/Main.cpp`.

## 1. The system

| Part | State | Operations | Hard behaviour |
|---|---|---|---|
| Call endpoint (`Ipc/MAssIpcCall.*`) | `PendingResponces`: the reader role `m_thread_waiting_transport`, `m_incremental_id`, stored responses `m_id_data_return`, queued incoming calls `m_data_incoming_call`, condition variable `m_write_cond` | `WaitInvoke`, `AsyncInvoke`, `EnumerateRemote`, `ProcessTransport` | many threads, one of which reads the transport for all; nested calls from handlers and from transport callbacks; ids that wrap around; cancellation |
| Packet transport (`Ipc/MAssIpc_Transport.h`, `Autotests/IpcTransport_MemoryShare.h`) | queue of packets, cancel flag | `Read`, `Write`, `CancelWaitRespond` | blocks, may be cancelled, may disappear (weak pointer), may call back into the endpoint |
| Packet parser and proxy (`MAssIpc_PacketParser.*`, `MAssIpc_TransportProxy.cpp`) | partially received packet | `ReadNeededDataSize`, `Read` | packets in arbitrary pieces, empty bodies, boundary sizes |
| Procedure map (`MAssIpc_Internals.*`) | handlers by name and parameter types, error and count callbacks | `AddProcSignature`, `AddAllProcs`, `Clear...`, `FindCallInfo` | lookups race removals; two maps, two locks; entries shared between maps |
| Waiter (`MAssIpcWaiter.h`) | events, their checks, `change_filter`, `cancel_all_waits` | `Wait`, `ResetTriggered`, `BindEvent`, `CancelAllWaits` | timeout against signal, counters that wrap, change outside the lock |
| Thread-to-thread caller (`MAssIpc_TransthreadCaller.*`, `IpcQt_TransthreadCaller.h`) | receivers per thread, call waiters, posted events | `CallFromThread`, `WaitProcessing`, `CancelDisableWaitingCall`, `OnFinished_ReceiverThread` | mutual waits, cancellation of calls that still run, threads that finish |
| Data stream (`MAssIpc_DataStream.*`) | buffers and positions | typed `<<` and `>>` | overflow in the bounds checks |
| Qt TCP transport (`Transports/Qt`) | socket, its thread | `OnReadyRead`, `WaitRespond`, `OnDisconnected` | the alarm that must not get lost, calls from other threads |
| Testability (`Practice/TestabilityInterfaceQt`) | server connections, client thread | start and stop handshake, reconnection | start-up and shutdown order |

Interaction: a call is serialised into one packet, written to the transport, and
its caller waits in `ProcessTransportResponse` for the packet with its id.
Whoever finds the reader role free reads the transport; responses it reads are
stored under their id for the threads they belong to, incoming calls are queued
and run by any thread that is willing to (`ProcIn::now`, `ProcessTransport`).
Handlers run inside that function, on the same thread or, with a
`MAssIpc_Transthread` installed, on another one, and may call the endpoint again.

What makes each part correct:

* endpoint: one reader; no lost wake-up; each answer reaches the call it
  answers and no other; each incoming call runs once and in order; a wait ends
  without an answer only for a failure; cancellation releases everybody;
* parser: the packets delivered are those written, in order, however the bytes
  are cut;
* procedure map: a handler that was removed is not found again; two maps never
  block each other; a failed call is reported where the code says;
* waiter: a wait reports `ready`, `timeout` or `canceled` truthfully and never
  sleeps through its signal;
* thread-to-thread caller: every waiter returns once its call ran, was
  cancelled, or its receiver ended; threads that call each other do not block.

The hazards, each at its source line, are listed in `PROJECT.json`.

## 2. Modules

| Module | Role |
|---|---|
| `MAssIpcCall` | one endpoint: `PendingResponces`, its threads, its transport, its peer |
| `CallContract` | abstract: what an endpoint promises its callers |
| `MAssIpcCallContract` | refinement mapping from `MAssIpcCall` to `CallContract` |
| `MAssIpcCall_proofs` | theorems about `MAssIpcCall` and the refinement |
| `MC_MAssIpcCall` | instances for TLC |
| `PacketParser` | `TransportProxy` and `MAssIpc_PacketParser` over a byte stream that is cut, lost and renewed |
| `PacketFifo` | abstract: a FIFO of whole packets, what `MAssIpcCall` assumes of its transport |
| `PacketParserFifo` | refinement mapping from `PacketParser` to `PacketFifo`, and the module TLC runs |
| `EndpointPair`, `MC_EndpointPair` | two endpoints that call each other over the in-memory transport |
| `EndpointPair_proofs` | theorems about `EndpointPair` |
| `ProcMap`, `MC_ProcMap` | the handlers of an endpoint, shared and removed; `InvokeLocal` and its jobs |
| `ProcMap_proofs` | theorems about `ProcMap` |
| `MAssIpcWaiter`, `MC_MAssIpcWaiter` | events that threads wait for |
| `MAssIpcWaiter_proofs` | theorems about `MAssIpcWaiter` |
| `TransthreadCaller`, `MC_TransthreadCaller` | calls posted to other threads and waited for, the transport proxy built on them |
| `TransthreadCaller_proofs` | theorems about `TransthreadCaller` |
| `DataStream`, `MC_DataStream` | serialisation of values, calls and returns |
| `Packets_proofs` | theorems about `PacketParser`, its refinement, and `DataStream` |
| `AutotestServer`, `MC_AutotestServer` | the server of autotests: connections, clients, autotest threads |
| `AutotestServer_proofs` | theorems about `AutotestServer` |
| `SutClient`, `MC_SutClient` | the application's connection to that server and the `SutReady` handshake |
| `EventHandlerMap`, `MC_EventHandlerMap` | the event handlers of the application under test |
| `Sut_proofs` | theorems about `EventHandlerMap` and `SutClient` |

How they fit together: `PacketParser` implements `PacketFifo`, which is the transport
`MAssIpcCall` and `EndpointPair` read. `MAssIpcCall` is one endpoint with many threads
and a free peer, `EndpointPair` is two endpoints with one thread each. What
`InvokeLocal` does with a call that `MAssIpcCall` hands it is `ProcMap`; the jobs that
`ProcMap` posts to other threads are calls of `TransthreadCaller`; the counts that
`ProcMap` changes before a handler runs (`CountedFirst`) are the signals of
`MAssIpcWaiter`. `AutotestServer` and `SutClient` are the two ends of the testability
connection.

### 2.1 MAssIpcCall

An *activation* is one run of `InvokeUnified` (kinds `wait`, `async`),
`EnumerateRemote` or `ProcessTransport`. Each thread has a stack of activations:
`InvokeUnified` and `ProcessTransport` push, every `return` pops. A thread may
push when its stack is empty (application code), when its top activation runs a
handler, and, if `Reenter` allows it, from inside the transport's `Read` or
`Write` (`on_read` in the test transports does that).

`pc` follows `ProcessTransportResponse`:

| `pc` | place in the code |
|---|---|
| `write` | after `NewCallId`, before or inside `transport->Write` |
| `read_buffer` | before the ReadBuffer critical section |
| `cond_wait`, `woken` | blocked on `m_write_cond`; notified, waiting for `m_lock` |
| `get_transport`, `read` | has the reader role: before `m_transport.lock()`; inside `Read` |
| `write_buffer` | after `Read`, before the WriteBuffer critical section |
| `process`, `handler` | `ProcessBuffer`; inside a handler |
| `done` | returned; `result` says by which return statement |

A critical section under `m_lock` is one action; it cannot be observed half-way.
`ReadBuffer_*` are the exits of the ReadBuffer section (re-entrance, response
found, incoming call taken, role taken by another thread, role free).
`WriteBuffer` gives the role back, stores the packet, notifies everybody and
takes the two returns behind it. The condition variable may also wake without
notification (`SpuriousWakeup`).

`m_id_data_return` is a total function with `NoPacket` for absent entries;
`StoreResponse` keeps an existing entry as `std::map::insert` does. `NewCallId` is
described by its result: the first id at or after `m_incremental_id`, cyclically,
that is not 0 and has no stored response. `CallIdCount` is 2^32 in the code; the
runs use small values so that ids do wrap around. When every id has a stored
response the loop of `NewCallId` does not end and the action is disabled.

The transport is a FIFO of packets. `CancelWaitRespond` makes waiting reads fail,
though packets that had arrived may still be delivered (`TransportProxy` does,
`IpcTransport_MemoryShare` does not). `ReadNothing` is a read that comes back
without a packet: the non-waiting read of `ProcessTransport`, or a waiting read
after an incomplete packet. `Expire` is the end of the last `shared_ptr` to the
transport, which cannot happen while `Read`, `Write` or `InvokeLocal` hold one. A
transport given as `MAssIpc_TransportCopy` is wrapped in a proxy that never
expires; its loss appears as a cancelled read.

The peer answers each request once, in any order, with data, an error or an
enumeration, and makes at most `MaxIncoming` calls. A response carries the
activation it answers (`of`): no guard reads it; it is how the properties tell
whose answer it is.

History variables, read by no guard: `collided` (an id was handed out while a
call or an answer with that id was still around), `under_read` (the activation
was made inside a read of its own thread), `handled`, `replied`.

Left out: payloads and their serialisation (`DataStream`), the lookup of the handler
and its dispatch to other threads (`ProcMap`; here `InvokeLocal` runs some handler or
reports an error), `SetTransport` during calls, a `Create` of the transport that
returns nothing.

### 2.2 CallContract

A call is `issued`, sent (`pending`), `answered` by the peer, and `returned`; it may
become `failed` only if the link is `broken` or the call is `inner`, made from
inside the transport's read. Two consequences callers rely on: nobody gets an
answer before the peer gave it, or one that was given to another call; and no
call is dropped on a working link.

### 2.3 PacketParser

One call of `TransportProxy::Read` is a sequence of steps, because bytes may arrive
and the connection may be lost between any two calls of the transport:

| `pc` | place in the code |
|---|---|
| `header`, `body` | before `ReadBytesAvailable` in `ReadDataIsAvailable`, for the header or the body |
| `read_header`, `read_body` | `read_size` is computed, before `in_data->Read` |
| `wait` | `WaitRespond(needed_data_size)`, at most once per call |
| `idle` | no call; `result` is what the last one returned |

A byte is its position in everything the peer ever wrote, so a buffer shows which
bytes it holds and a packet is known by where it starts. `written`, `arrived` and
`consumed` are positions in that stream. `ReceiveReadHeader` decodes a size; the
model gives the size of the packet that starts at the header's first byte, and any
size if no packet starts there. Sizes are those of packets the peer wrote: the
code has no check of the size (its comment says so), and a packet of
`c_invalid_packet_size` bytes, 2^32 - 1, cannot be made by `Create`.

`WaitRespond(TRUE)` returns with the bytes asked for, as the in-memory transport
does; `WaitRespond(FALSE)` returns with fewer, as the Qt transport may. `OnDisconnected`
deletes the socket with everything in it and `AssignConnection` puts a new one under
the same transport, which `TestabilityClientQt::OnDisconnected` does through
`StartConnection`. `Read` on a socket that was replaced after the bytes were counted
takes what is there and fails (`ReadFails`).

History: `delivered`, `next` (the first packet not read completely) and `torn`: bytes
of a packet were lost while the parser keeps others. Nothing resets the parser
when the connection changes, so after `torn` it joins the beginning of an old packet
with bytes of the new connection and stays out of step. The properties
say nothing about what follows; the model does reach it, and it is the
reason for the premise `~torn`.

### 2.4 PacketFifo

`Send` appends a packet, `Receive` takes the first, `Lose` drops packets from the end
(a lost connection) and may set `torn`, after which anything is allowed. In the
mapping the packets on their way are the complete one in the parser (a packet
without body is complete one step before it is delivered) and those of which bytes
are still to be read.

### 2.5 EndpointPair

One thread per endpoint, so the steps of `ProcessTransportResponse` between two calls
of the transport are one action. `stack` holds the runs of that function, each with
the handler it is in; `inbox` is the `SyncData` an endpoint reads. A call carries how
many call-backs are still allowed inside it (`depth`). An idle thread runs the loop
of `TestThreads_Handler`, which polls, or one that waits with `WaitIncomingData`.

What the runs show about `ProcIn::later`: two ends can wait for each other for ever when
one waits with `later` and the handler at the other end calls back, when both
wait with `later`, and when both call `EnumerateRemote` at the same time (an enumeration
is queued like a call, and `EnumerateRemote` runs none). Nothing else
leads there (`StuckOnlyByLater`), and cancelling both transports ends it. A call that
such a wait has read and left is run by a loop that polls; a loop that waits for new
data first leaves it until there is some.

### 2.6 ProcMap

`AddProcSignature` is two steps (the entry is found or made, then `SetInvoke`), because
the `CallInfoImpl` may be shared with a map that has another lock. `AddAllProcs` holds
the lock of one map while it waits for the other's. `InvokeLocal` matches and takes
the callback under the lock, and goes on without it: count and announce, or fail; then
invoke, or post the job. A handler may use the maps again. `queue` holds the jobs of
other threads (`CallJob`, `CountJob`, `ResultJob`, `ErrorJob`). A handler is its
return type, its tag and its thread. Which thread sends results is for the application to
say (`GetResultSendThreadId` is virtual; Qt's names the direct call, the stub of the tests a
thread): `SendResult` writes the result at once or posts it to any job thread. The assertion of `AddProcSignature` against
overriding a handler is checked under the lock of one map, and a `CallInfo` shared by
`AddAllProcs` has two: two threads can both pass it, and one handler is replaced.
`HandlerKept` is therefore stated for entries that were never shared (the history field
`shared`). `EnumerateHandlers` changes nothing and is left
out.

### 2.7 MAssIpcWaiter

A check compares the counter of its source with a start count, modulo `W` (2^32 in the
code). Calls count outside `lock_events` (`IncrementCallCount`) and announce it later
(`OnCallCountChanged`); states of the connection and counters do both at once.
`Wait` and `ResetTriggered` look at one check per step with the lock held, since the
counters of calls move meanwhile. A timed wait may time out at any moment, after
which the predicate is evaluated once more, as `wait_for` does. `change_filter` is a bag.

### 2.8 TransthreadCaller

`stack` is what a thread is in the middle of: calls it runs, calls it waits for, a
registration. `receivers` are numbered, as the receiver of a thread can be replaced.
Sections under `lock_threads` or `mutex_sync` are one step; posting the event and
waking the receiver are two. Qt's event queue is external: FIFO, emptied by
`sendPostedEvents` or the event loop.

Two ways to wait for ever are in the code and in the model, and are the exception
in `WaitsEnd` (`Stranded`): a call to a thread that has already finished, and a call
caught by the second half of `AddTargetThreadId`, which replaces a receiver that was
made meanwhile. A cancelled `Read` of the proxy may still run with the caller's buffer
(`BufferInUse` allows it only after a cancellation). Not modelled: a `QThread` that is
started again, a caller destroyed while threads wait in it.

### 2.9 DataStream

Bytes are digits to the base `Base` and a `PacketSize` has `LengthWidth` of them, so the
widths and the overflows of the code are there with smaller numbers. A message is
measured, a buffer is created, the message is written, sent and read back item by
item. `Schemas` are other types a peer may read a message with. Floats are copied
bytes. `Pieces` is what an `operator<<` passes to `WriteRawData` and `WriteBytes`, one after
the other, and `WriteAll` the calls; `WriteItem` and `ReadItem` are the operators of all types.
`DataStreamItems` says what an item is: an integer fits into its type, and the name of a type
has no separator (`CheckSeparatorInName`). The loops of the code are recursive functions,
so that they can be proved about.

A string that is cut short is read as zeros (`QString`, `QByteArray`) or keeps its old value
(`std::string`). A name is not copied: `RawString::Read` returns a null pointer with the length
it was sent with (`ReadName`, `Nowhere`), and nothing stops there. After the four items of
a signature `FindCallInfo` is the next step of a call: it compares the names with those of the only
handler, and without a match the error message is made of all three. Either way their bytes are read, and
`astray` records that some of them were nowhere: a read through a null pointer in the code, after which the model
goes on as if nothing matched. `ReadsInBounds` says openly when that happens: never
while a stream's operator reads, never in a message that fits and is read as what it is, and otherwise
only after the assertion of `ReadRawData` has reported the name that was cut short.

`ParamsDistinguish` is, like the round trip, about messages that
fit into a packet: beyond that the sizes wrap around (`stream_limits`). The names with `Stream` or
`Call` in front (`StreamSpec`, `CallHeaderSize`) keep the module apart from
`PacketParser`, with which it shares its proofs.

### 2.10 EventHandlerMap

A handler and its control block share a number; a list has the number of its first
handler. `element` are the handlers not removed, `ring` the blocks that are linked. A
block whose last holder is gone stays linked until its destructor has the list's mutex
(`dying`, then `Unlink`). In that window `GetNext` and `Front` of another thread return
null: a walk is cut short (`cut`), or a list with live handlers is taken for empty and
erased. `CutOnlyByOthers` and `StaysRegistered` say that this is the only way either can
happen. A list cleared while it is being walked stays behind without handlers, and
hides those of the type. A clear goes through the names before the types; within a map the
order is left open. `ClearHandlerName` takes no lock: a data race, which the model
lets happen only while nobody has `m_lock`.

### 2.11 AutotestServer

The server thread takes socket notifications in any order and queued slots in the
order they were queued; `pc` is where it is inside `OnConnected`, `OnDisconnected`, the
destructor of `SutHandlerThread` or `Stop`. Clients and autotest threads run beside it.
A transport stands for its connection. Three things the code does are visible in the
properties: `AddClient` takes the newest connection and registers itself under two locks
(`late`); `m_sut_handler` is reset on any disconnection; and the usage of a connection
is kept consistent for one client only. The reference `IpcCall` returns is not followed.

### 2.12 SutClient

`socket`, the timers that were never stopped, the queued restarts, and calls under way
in each direction. Errors and disconnections of one loss are one step, `OnDisconnected`
being called for each. The deferred deletion of a socket comes before the queued restart, so
a socket that was replaced signals nothing. The background thread receives
`AutotestServerReady` and posts it to the application's thread (`posted`). That thread clears the
pending request and posts the write of `SutReady` back to the background thread (`sending`), which
runs it when it comes to it (`Write`): on the connection there is by then, or on none, and the answer is lost.
While it waits for its write, the application's thread runs further calls posted to it, so several
writes may be queued, but it registers or unregisters nothing. A
request that came on one connection can so be answered on the next, from any of three places. `inherited` counts
the requests a connection began with: queued, pending, or with their write still queued; `AnsweredOnce` allows one
answer for each of those besides the connection's own.

## 3. Runs

There is one run per component, two for the endpoint. A component's `MC_` module adds a
variable `load`, chosen once in the initial state, which says what the environment
begins in this behaviour: which kinds of calls, from how many threads, how many, and
which failures. A load bounds what is begun and never how it goes on, so every state of a
run is a state of the component's `Spec`; the loads together cover every action. Threads
outside a component are alike, so where it helps a load lets a fixed one begin.
In the last column a property that is a conjunction has its parts in brackets; each part is
stated and commented in the module.

| Run | Instance and loads | Checks |
|---|---|---|
| `ipc_calls` | 4 loads: 3 threads with 3 waits and an incoming enumeration; 2 threads, 3 waits, nesting in handlers and reads; 2 threads, 2 calls, 3 incoming calls; 2 threads, 2 calls of every kind, all packets, all re-entrance, cancellation and expiry | `ReaderHandover` (`TypeOK`, `SingleReader`, `NoLostWakeup`), `EmptyOnlyOnFailure`, `IncomingHandled` (`IncomingInOrder`, `IncomingOnce`), `ImplementsContract` |
| `ipc_returns` | 2 ids, fair; 4 loads: 3 threads with 3 waits and cancellation; a wait in a handler; 3 waits of 2 threads nested in reads; 4 calls of a thread that use ids again | `AnswersKept` (`NoAnswerLost`, `OwnAnswer`), `CancelReleasesAll`, `EveryCallReturns` |
| `parser` | 3 packets with bodies of 0 or 2 bytes, header of 2, all failures, fair | `Reassembled` (`TypeOK`, `WholePackets`, `WaitWithinPacket`), `ImplementsFifo`, `EveryPacketDelivered` |
| `pair` | 2 endpoints, call-backs 2 deep, one loop that polls and one that waits, fair; 4 loads: 2 calls of every kind; 3 waits and enumerations; 3 calls with `ProcIn::now` or asynchronous; 2 waits and cancellation | `PacketsKept` (`TypeOK`, `InOnePlace`, `StoredIsAwaited`), `OnlyLaterLeaves` (`LeftOnlyByLater`, `StuckOnlyByLater`), `CallsComplete` (`EveryCallReturns`, `LeftIsRun`), `CancelFreesBoth` |
| `procmap` | 2 threads and a job thread, fair; 5 loads: 2 procedures of 2 owners with callbacks and guards; 2 maps copied one way as `IpcQt_Net` does, or to itself; a call while handlers change; 2 calls of one thread, or of two | `MapsConsistent` (`TypeOK`, `NoHandlerOfClearedTag`, `NoCircularWait`), `CalledOnce` (`AnsweredOnce`, `CountedFirst`), `HandlerKept`, `CallsAnswered` |
| `waiter` | 2 threads, 2 events, a counter of 3 values, fair; 4 loads: both threads wait; 4 signals with all resets; checks that cancel or not, with time-outs; checks shared by events | `SignalsSeen` (`TypeOK`, `NoLostWakeup`, `SignalsCounted`), `ResultIsTrue`, `WaitsEnd` |
| `transthread` | 2 threads, fair; 4 loads: 4 calls nested in each other's waits; 3 calls and jobs to others, oneself and directly, with spurious wake-ups; 3 calls, cancellation, both threads may finish; late registration and callers rebuilt | `PostedCallsSeen` (`TypeOK`, `NoLostWakeup`, `RunInOrder`), `ResultIsTrue`, `BufferInUse`, `WaitsEnd` |
| `stream` | lengths of 3 digits; integers of all widths, strings, vectors, calls, messages beyond the largest packet; read with their own and with 6 other lists of types, 2 of them calls | `MessagesSurvive` (`TypeOK`, `MeasuredExactly`, `RoundTrip`), `ParamsDistinguish`, `ReadsInBounds` |
| `stream_limits` | messages up to twice the largest packet; expected violation | `WritesInBounds` |
| `eventmap` | 3 handlers, 4 operations, fair; 4 loads: one thread, 3 deep, with 2 names and their type, or 2 tags; 2 threads with 2 tags, or 2 deep | `WalksComplete` (`TypeOK`, `BlocksAreLinked`, `CallComplete`, `TypeHandlersWanted`), `NotAfterClear`, `ListsKept` (`CutOnlyByOthers`, `StaysRegistered`, `ErasedWhenEmpty`), `OperationsReturn` |
| `server` | 2 applications, 1 client with 2 indexes, fair; 4 loads besides the connections: autotests, up to 2 each; a packet each; a client that gives indexes; a client that sets usage | `ConnectionsKnown` (`TypeOK`, `NoGhostConnections`, `NewestKnown`), `AutotestsOfConnection`, `UsageMatches`, `ServerServes` (`ServerGoesOn`, `StopReturns`, `PacketsRead`) |
| `sut` | 4 timers, 2 requests of a connection and 2 queued or being answered, fair | `ConnectionKept` (`ClientTypeOK`, `OneAttempt`, `FlagIsTrue`), `AnsweredOnce`, `KeepsTrying`, `ReadyIsTold` |

Why the bounds are enough to be interesting. Three threads are needed for a
reader with two sleepers behind it, the smallest case in which waking only one
of them or handing the role to two of them shows. Four calls on two ids and the
skipped 0 make `NewCallId` go round while an abandoned response is stored. Two
threads and three incoming calls give a queue of two behind a call in progress.
A header of two bytes can be cut in every way, and of three packets one
is received while another is complete in the parser and a third is on its way.
Two endpoints with call-backs two deep have waits above waits on both stacks, so
answers are read by the wrong wait and stored. Two threads with three handlers are
enough for one thread to be at a block that the other removes, between two that
stay. A counter of three values wraps once in four signals. Two applications make
the second connection replace the autotests of the first. Two maps and two threads
are the smallest case in which the two locks of a shared `CallInfo` matter.

Deadlock is checked for the parser, the procedure map and `SutClient`, which never
stop. The other models stop when their bounds are used up, `DataStream` when the
message is read or its handler not found, and `EndpointPair` also where two ends wait for each other; that
they stop nowhere else is what their liveness properties, or `StuckOnlyByLater`, show.
`EveryCallReturns` of `EndpointPair` has that jam as its exception, and that of the parser's
`EveryPacketDelivered` is a connection that is lost, cancelled or destroyed.

The expected violation, `stream_limits`, is the finding of `PROJECT.json`: the
bounds check of `WriteRawData` is switched off, not failed, when position plus length
leave the range of `PacketSize`, which a message longer than a packet can be reaches.
All messages that fit are written within bounds (`stream`).

Every property has a variant of the code, next to the definition it changes
(`..._One`, `..._FromStart`, ...), under which TLC finds it violated; those variants
are used nowhere else.

`OwnAnswer`, `NoAnswerLost`, `EveryCallReturns` and the contract are about states in which
no id was handed out twice. The library does not exclude it: `NewCallId` skips ids with a
stored response but not ids of calls that still wait, so after 2^32 calls during
one wait an id can be shared. In `ipc_returns` such states are reached and the
premise matters; in `ipc_calls` there are as many ids as calls.

Fairness. `WF(Step(a))` for each activation of `MAssIpcCall`: the operating system schedules
every thread, `Read` returns when there is a packet or a cancellation, `m_lock` is held
briefly, and handlers return. A spurious wake-up and an empty waiting read are
never required to happen. That the peer answers (`WF(Answer)`) is a premise of
`EveryCallReturns` and is not assumed for `CancelReleasesAll`. For the parser, `WF(Call)`: the
endpoint keeps reading, which is what a
waiting thread does; `WF(ReadStep)`: `WaitRespond` returns when the bytes it was asked
for are there; `WF(Arrive)`: the stream delivers what was written. Nothing is assumed
of starting calls, of the peer's own calls, or of failures.

Of the other models. `EndpointPair`: `WF(Run)`, threads are scheduled and handlers return;
`WF(ProcessTransport)`, idle threads keep their loop, as the test's do. `ProcMap`: `WF`
of a thread's steps and of the job threads. `MAssIpcWaiter`: strong fairness of each
thread's steps and of `OnCallCountChanged`, because the lock is taken again and again
by others and a mutex lets everybody in some time. `TransthreadCaller`, `EventHandlerMap`:
`WF` of each thread's steps: calls and handlers return, event loops run.
`AutotestServer`: `WF` of socket notifications, queued slots, the end of the event loop
and each autotest thread; autotests end when their waits do. `SutClient`: `WF` of queued
restarts, timers and the four steps of the handshake, the posted write among them; that a connection succeeds
is never assumed.

## 4. Proofs

`MAssIpcCall_proofs` proves, for every set of threads and activations, every
number of ids and every choice of the other constants allowed by
`ConstantsAssumption` (and `NoPacketAssumption`: the empty buffer is not a packet):

* `TypeCorrect`: `Spec => []TypeOK`. `TypeOK` is inductive; one step per action, on
  lemmas for the frame operators (`Push`, `Pop`, `Continue`, `Return`).
* `ReaderCorrect`: `Spec => []ReaderHandover`, that is `TypeOK`, `SingleReader` and
  `NoLostWakeup`, which are inductive together. Most actions are `Quiet`: they change neither
  the reader role nor what a sleeping thread waits for. The others are
  `BecomeReader`, `WriteBuffer` (which empties the set of sleepers) and
  `ReaderBusy` (which adds one, while the role is taken).
* `NoSilentDefault`: `Spec => []EmptyOnlyOnFailure`. Not inductive by itself: that
  an activation returning at the re-entrance test was made inside its own
  thread's read needs the shape of the stacks. The strengthening is `StackInv` (each
  live activation is exactly once on the stack of its thread), `NestedInv` (what is
  above a reader on its own stack was made under its read) and `CallInv` (only
  `ProcessTransport` waits for id 0; a read fails only with the transport). `OwnStep`
  abstracts what any step of a running activation does to the stacks, so that
  `StackInv` and `NestedInv` are proved once for all of them.
* `IncomingCorrect`: `Spec => []IncomingHandled`. `IncomingInv` adds that the calls
  still in the transport are in order too (`InboxSorted`).
* `AnswersCorrect`: `Spec => []AnswersKept`. `AnswerInv` follows an answer from the peer's
  request over the transport and the reader's buffer to `m_id_data_return`: what is in flight
  under an id belongs to a call that was sent with it (`FlightInv`), is at one of these
  places only, and, as long as `collided` is false, calls that wait have different ids
  (`UniqueIds`) and the answer of each is somewhere (`NoneLost`).
* `ContractImplemented`: `Spec /\ []~collided => ImplementsContract`, action by action: every step is a
  step of `CallContract` or leaves its variables alone. The hypothesis is that `NewCallId` never
  gives out an id that is still in use; the code does not exclude it (section 3), and
  without it the contract does not hold.

About `PacketParser`, `Packets_proofs` proves, for every header size, every set of body sizes and any
number of packets (`ParserConstants`):

* `ParserTypes`: `Spec => []TypeOK`, which is inductive and bounds every write into
  the header and the packet buffer.
* `ReadsWholePackets` and `WaitsWithinPacket`, together `ParserCorrect`: `Spec => []Reassembled`. What was delivered does not say why the
  next packet will be right, so the invariant `Inv` adds `StreamInv` (packets lie one
  behind the other) and `Reassembly`: the bytes in the header or in the packet buffer
  are the first bytes of packet `next`, and `consumed` is exactly behind them
  (`InHeader`, `InBody`, `HoldsPacket`). `SizeAtStart` shows that the first byte of a
  packet determines its size, `HeaderBytes` and `BodyBytes` that a read continues the
  prefix.
* `ParserImplementsFifo`: `Spec => Fifo!Spec`, step by step from the same invariant:
  `WriteSends`, `DeliverReceives`, `DisconnectLoses`; every other step leaves `Inbox`
  unchanged (`SameInbox`, `HeaderKeeps`).

About `SutClient`, which it extends as well (hence the names `ClientInit`, `ClientNext`, `ClientSpec`),
`Sut_proofs` proves, for every `MaxTimers` and `MaxAsked` (`SutClientConstants`): `ClientTypeCorrect`,
`OneAttemptAlways` and `FlagAlwaysTrue`, together `ConnectionAlwaysKept` (`ClientSpec => []ConnectionKept`),
and `AlwaysAnsweredOnce`. None is inductive alone. `ClientIInv` adds `TimersBounded` (a queued restart has
room for its timer), `NothingWithout` (without a connection no call is under way and nothing is counted) and
`RequestsAccounted`: requests on their way, queued, pending and being answered, and answers given, add up to at
most those asked and inherited.

`EndpointPair_proofs` proves, for any two endpoints, any number of calls and any depth
of call-backs (`PairConstants`):

* `PacketsCorrect`: `Spec => []PacketsKept`. `InOnePlace` counts the places of an id that
  is waited for; that the count is one is kept only because an id that was not given
  out yet is nowhere, no two runs of a thread wait for one id, and a call that nobody
  waits for is not answered, unless the wait was cancelled. These are the parts of
  `PairInv`: `AtOnePlace`, `FreshIds`, `AwaitedOnce`, `CallsAnswered`, `AnswersAwaited`. The
  lemmas on `Times` say how appending, taking and returning change a count; `StepKeeps`
  proves the invariant once for every step that gives out no id.
* `LeavesCorrect`: `Spec => []OnlyLaterLeaves`. That two ends do not wait for each other is
  not visible in the counts: each can wait for a call the other has in a handler. The
  strengthening is `NestedCalls`: what is called from inside a handler is handled, if at
  all, above the wait the handler is for. Two blocked ends with nothing to read are each
  below the other's wait (`WaitedIsHandled`), which a stack cannot be. `LeftAt` says
  where a call that was read and not run may be while no wait has postponed one.

`MAssIpcWaiter_proofs` proves, for every width `W` of the counters and any number of
threads, events and sources (`WaiterConstants`; `WaiterNames`: distinct objects have
distinct addresses):

* `SignalsCorrect`: `Spec => []SignalsSeen`. The invariant is `WaiterInv`: `Structure` (types, who
  has the lock, which checks exist), `CountInv` (a counter is the number of signals modulo
  `W`, and a start count is that of some earlier number), `FilterInv` (`change_filter` has
  an entry for every reference of a live event) and `WaitInv` (`NoLostWakeup`, and, while
  a thread goes through its checks, that those it has passed are triggered only by signals not
  announced yet). `Differences` is the arithmetic of wrapped counters.
* `ResultsCorrect`: `Spec => ResultIsTrue`, of the steps that end a wait.

`ProcMap_proofs` proves, for any number of maps, threads, procedures and owners
(`ProcMapConstants`; `ProcMapNames`: null is no thread and no answer):

* `MapsCorrect`: `Spec => []MapsConsistent`, if maps are copied one way (`CopiedOneWay`, which
  is what `IpcQt_Net` does; `AddAllProcs` in both directions can lock two threads up). The
  invariant `MapInv` says which locks are held at which step, that the entry a thread is
  about to set exists and was not shared unless `shared` says so, and that tags that were
  cleared are in no entry.
* `HandlersKept`: `Spec => HandlerKept`, of two threads that set one handler.
* `CallsCorrect`: `Spec => []CalledOnce`. `CallInv` says that a call is carried by one thread or is
  in one job of one queue (`ThreadsOnce`, `JobsOnce`, `ThreadOrJob`), that its count job
  is queued in front of its call job (`CountsFirst`), and how far it has come.

`TransthreadCaller_proofs` proves, for any number of threads, receivers and calls and every
route between them (`TransthreadConstants`; `TransthreadNames`: threads are finitely many and
none is a place of the program):

* `CallsSeen`: `Spec => []PostedCallsSeen`, `ResultsTrue`: `Spec => []ResultIsTrue`, and
  `BuffersInUse`: `Spec => []BufferInUse`, from one invariant, `TransInv`. `StructInv` says
  that the receivers of a call are those of its threads and what the frames of the stacks look like.
  `OrderInv` says where a call can be: posted once, in the order of the calls, or run, and none
  that was posted earlier is passed over. `StateInv` says who may change the state of a
  call that is posted or runs (only a cancellation) and that its sender waits as long as
  it is in progress; a result is the state that was read. `WakeInv` says what is left to do about a
  posted call: an event is on its way to the thread, which is told of it before it sleeps.
* None of the parts is inductive without those before it, and most steps touch only one: `StructKeeps`,
  `OrderKeeps`, `StateKeeps` and `WakeKeeps` prove each for the steps that leave what it is about
  alone. `PushStep`, `PopStep`, `SetStep` and `WakeStep` say once what a step can do to the stacks.

`AutotestServer_proofs` proves, for any number of connections, clients and indexes
(`AutotestServerConstants`; `AutotestServerNames`: null is no usage):

* `ServerKnows`: `Spec => []ConnectionsKnown`. `ConnInv` follows a connection on its way:
  unknown (`Early`), accepted and queued or being brought to `m_connections` (`Coming`), known,
  and going. It rests on the order of the queue: a disconnection is queued once and behind its
  connection (`InOrder`). `NewestInv` says that a client that has been told, or came later, has the
  newest connection; that connection, once gone, does not come back (`AliveStays`).
* `AutotestsRight`: `Spec => []AutotestsOfConnection`, from `ThreadInv`: what the server thread does at
  each step, and whose autotests run.
* `UsageRight`: `Spec => []UsageMatches`, if there is one client (`OneClient`): clients
  do not know of each other's indexes, and with two the property is false. Its other premise is
  `SlotInv`, that indexes refer only to connections that have come.

`Sut_proofs` proves about `EventHandlerMap`, for any number of threads, events, tags, handlers and
operations and any depth (`EventHandlerMapConstants`; `EventHandlerMapNames`: the two maps share no key,
and there is a tag):

* `WalksAlwaysComplete`: `Spec => []WalksComplete`, and `NeverAfterClear`: `Spec => []NotAfterClear`, from
  one invariant, `IInv`. `Rings` says that a list is in the order its handlers were added and that a block is in
  one list, the list of one key; `Blocks`, that the block a thread is at is linked and that a block nobody holds
  is unlinked by one thread. `Walks` says what a walk has behind it: of the handlers that were there when it began
  and still are, those it has passed have run (`Walked`, `CallWhole`), in order (`CallOrder`), and asked for those
  of the type or not (`CallTypes`). That nothing cleared is run needs more than the call: the lists it has looked up have none
  of the handlers that were gone by then (`CallBarred`), and what is gone is in the list of no key
  (`GoneOK`), because a clear leaves no list with its tag behind it (`ClearOK`) while it has the lock
  (`LockKept`). `TypesOK` adds the bound on the depth.
* `ListsAlwaysKept`: `Spec => ListsKept`, of each step (`StepKept`). `Unlinker` is the argument: a linked block that
  cannot be held is being unlinked, and by another thread, since a thread that unlinks does nothing else.
* Most steps change only the innermost operation: `TableKept`, `ReleaseKept` and `SetKept` prove the invariant
  once for those that leave the lists alone, let go of a block, or only take handlers away.

`Packets_proofs` proves about `DataStream`, for every number `Base` of values of a byte, every `LengthWidth`,
every set of messages and schemas of any length and types, and every buffer a caller may provide
(`DataStreamConstants`, `DataStreamItems`):

* `MessagesAlwaysSurvive`: `StreamSpec => []MessagesSurvive`, `ParamsAlwaysDistinguish`: `StreamSpec => []ParamsDistinguish`,
  `ReadsAlwaysInBounds`: `StreamSpec => []ReadsInBounds`, and `StreamTypeAlwaysOK`, from one invariant, `IInv`. The
  property speaks of the end only. `Steady` is what holds whatever is sent and read as, sizes that wrapped around
  included: streams are well formed and the input is never beyond its data. `Measuring` says that the first pass
  is at the sum of the items it took; `Writing`, that the buffer has exactly room for what is missing and holds the
  header and the pieces of the items so far; `Arrived`, that the data of the packet is the pieces of all items;
  `Reading`, that the peer is where item `nth` begins and has what was written before it. `Unread` says that
  nothing is read before. `Reported`, that among the names read so far one of which bytes lie nowhere has
  been reported, which the lookup (`FindHolds`) needs; with `Reading` it follows that no such name is in a message
  that fits and is read as what it is.
* The step of the second pass is `ItemWritten`: whatever the type, `WriteItem` moves the position by `ItemSize` and puts
  the pieces one behind the other (`OneMoreWritten`, `PiecesWritten`; `VectorSum`, `EnumerationSum` and `ParamsSum` add
  them up). The step of the peer is `ItemKept`, that reading as any type stays within the data, and
  `ItemBack`, that reading pieces as what they are gives the item (`IntBack`, `RawBack`, `StringBack`, `VectorBack`,
  `EnumerationBack`, `ParamsBack`). Under them are `IntegerReassembled`, the arithmetic of `WriteUnsafe` and `ReadUnsafe` with
  two's complement, and `SameNames`, that `ParamsString` is injective because no name has a separator.
* The loops are recursive functions of their own, `f = [i \in 0 .. n |-> ...]`. That such a function exists and is what the
  operator computes is proved for each by induction over `n` (`NatSet`, on the principle for sets of numbers, which
  needs no operator as parameter): the lemmas named `Exists` and `Loop`.

The inductive invariants of `EventHandlerMap` and `DataStream` were checked by TLC, each on the instance of its run,
before they were proved.

Only model-checked: the liveness properties (the prover has no rule for
fairness). That a packet too long overflows the buffer is not a
theorem but a counterexample, found by `stream_limits`.

## 5. Plan

The components are modelled, and the safety invariants that the runs check are proved.
What would say more about them: an abstract rendezvous of calls for `TransthreadCaller` and an
abstract set of handlers for `ProcMap`, each with its refinement.

## 6. Not modelled

* The Windows transport: a thin layer over winsock. Its departures from the transport
  contract, from reading it: `WaitRespond` gives up after 30 seconds and returns false, which
  the contract reserves for a cancelled wait; `Share::Read` makes a packet of whatever bytes
  are there; a closed socket stays readable for ever.
* The sockets, Qt's event loop and posted events: external, modelled as the code uses
  them. `IpcQt_NetServer` and `IpcQt_NetClient` only hold the parts together.
* `SetTransport` while calls run: a data race on a `weak_ptr`. `IsConnected` of the
  testability client before `Start` or after its thread ended: a null pointer.
* What `SetCallCountChangedGuard` promises when guards overlap: it puts back the handler it
  found, and the model does the same.
* A caller's buffer that is larger than the packet: nothing says what it means.
* The compile-time signature machinery of `MAssIpc_Internals.h`: no state.
* The demonstration programs, construction and destruction of the testability
  programs, and the unused helper `TaskRunnerThread`.
