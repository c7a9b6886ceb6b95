# hdlcd in TLA+

The HDLC daemon shares serial ports between TCP clients. On each port it runs
one HDLC station that detects the baud rate of the device, supervises it,
sends the clients' packets reliably or unreliably, and hands what it receives
to every client. Clients may suspend a port ("lock" it) so that another
program can use the device, and resume it. This directory specifies that
behaviour, model-checks it with TLC and proves part of it with TLAPS. Paths
below are relative to the repository; `src/src/SerialPort/HDLC/` is shortened to `HDLC/`,
`src/src/SerialPort/` to `SerialPort/` and `src/src/HdlcdServer/` to `HdlcdServer/`.

## 1. The system

Everything runs in one thread: handlers of the boost::asio `io_service` are
atomic, and what interleaves are handlers - reads, write completions, timers,
packets of clients. The awkward part is that asio queues a handler when its
operation completes and runs it later: `cancel()` cannot take back a handler
that is queued already. The modules model a timer as armed, expired with its
handler queued, or idle (`DeadlineTimer`), and the completions that `close()`
leaves behind as a bag (`stale` in `SerialPort`) or, where only those of
successful writes matter, as a number (`late` in `ProtocolState`).

| component | state | operations | talks to |
|---|---|---|---|
| `HDLC/ProtocolState` | sequence numbers, two wait queues, SREJ list, flags of the RNR condition and of the wait for an acknowledgement, one timer for two uses | `Start`, `Stop`, `Shutdown`, `SendPayload`, `InterpretDeserializedFrame`, `TriggerNextHDLCFrame`, two timeout handlers; each ends in `OpportunityForTransmission` | `SerialPortHandler` through `ISerialPortHandler`, `AliveState` |
| `HDLC/AliveState` | PROBING, FOUND or REPROBING, heard flag, probe counter, two timers | `Start`, `Stop`, `OnFrameReceived`, two timeout handlers | callbacks of `ProtocolState`: send a probe, change the baud rate |
| `SerialPort/BaudRate` | index of the rate | `ToggleBaudRate` | `SerialPortHandler` |
| `SerialPort/SerialPortHandler`, `SerialPortLock` | the asio port, the frame being written and its offset, lock counter, list of clients | start, stop, open, suspend, resume, read, write, propagate state, query for payload | all |
| `HdlcdServer/HdlcdServerHandler`, `LockGuard`, `AliveGuard` | per client: does it hold a lock, what was it told last, its pending packet, whether the port awaits one | control and data packets, update of the state, closing | `SerialPortHandler`, TCP endpoint |
| `SerialPort/SerialPortHandlerCollection` | handlers by port name | find or create, remove | `HdlcdServerHandler` |
| `HDLC/FrameGenerator`, `FCS16`, `HdlcFrame` | none | serialise, checksum, escape | `ProtocolState` |
| `HDLC/FrameParser` | assembly buffer, start token seen | `AddReceivedRawBytes`, `Reset` | `ProtocolState` |
| `HdlcdServer/HdlcdServerHandlerCollection`, `main` | list of clients, acceptor, signals | accept, register, shutdown | `HdlcdServerHandler` |

What is hard about it, and what correctness means there:

- **Late handlers.** A timeout queued before `Stop` runs on a stopped or
  restarted station. The supervision must survive that, the `assert(false)` of
  `OnStateTimeout` must be unreachable, and nothing may be transmitted on a
  closed port.
- **One timer, two uses.** The retransmission wait and the RNR query wait share
  `m_Timer`. They must exclude each other, a wait must never be dropped that
  somebody depends on.
- **One opportunity.** Nothing polls the station: if it leaves a handler with a
  free line and something due, that waits until the next event. All that is
  due must be sent in the same handler.
- **Acknowledgements** that are late, repeated or lost must not pop a packet
  the device did not get, nor pop from an empty deque.
- **Shared locks** dropped by unlock, disconnect, kill or a failing reopen must
  keep the counter equal to the holders, and each client correctly informed.
- **Backpressure.** A client is stalled exactly while it has a packet pending,
  and whoever stalls is released by the next query.
- **Nested iterations.** `ForEachHdlcdServerHandler` calls clients that call
  back into iterations of the same or another port, stop clients, or destroy
  them. One static flag decides who may erase entries; nobody may be passed
  over, no iterator may dangle, and the subscription counters must never deny
  a client what it subscribed to.
- **Lifetime by reference counts.** A port lives by the pointers of its
  clients, a client by the list of the server and by the calls in progress.
  The destructor of a client gives back its lock, which may reopen the port it
  is about to stop. Nothing may be left open, registered or referenced.
- **Damaged bytes.** The parser must not accept what was not sent and must
  find back to the frame boundaries, however the bytes are cut into reads.

The full list, line by line, is under `hazards` in `PROJECT.json`.

## 2. The modules

| module | models | remarks |
|---|---|---|
| `DeadlineTimer` | `boost::asio::deadline_timer` (external) | per wait armed, or queued; `Cancel` only disarms |
| `AliveState` | `HDLC/AliveState.*` | all operations, `ProbesPerBaudRate` a constant (4 in the code) |
| `BaudRate` | `SerialPort/BaudRate.h` | |
| `BaudRateDetection` | `AliveState` + `BaudRate` as `ProtocolState` connects them, with an external device | extends both |
| `ProtocolState` | `HDLC/ProtocolState.*` with the write operations of its port | contains `AliveState` by INSTANCE; the members are the record `ps`; completions of writes may outlive a suspension (`LateCompletion`) |
| `MCProtocolState` | constants for TLC | the frames the device may send |
| `ReliableStream` | abstract specification of the reliable service | |
| `HdlcLink`, `MCHdlcLink` | `ProtocolState` (INSTANCE), a lossy line, an external device that receives and sends | implements `ReliableStream` in both directions; no completion outlives a suspension here (`MaxLate <- 0`) |
| `PortLocking` | abstract specification of locking | |
| `SerialPort` | one port: `SerialPortHandler`, `SerialPortLock`, all its `HdlcdServerHandler`s with guards | implements `PortLocking` |
| `SerialPortHandlerCollection` | all ports and clients: `SerialPortHandlerCollection`, `HdlcdServerHandlerCollection`, `ForEachHdlcdServerHandler` with its counters, construction and destruction of `HdlcdServerHandler` and `SerialPortHandler`, the shutdown in `main` | one action per call, with a stack of calls |
| `FrameCodec` | `FrameGenerator`, `FCS16`, `HdlcFrame`, `FrameParser::DeserializeFrame` byte by byte | pure operators, uses Bitwise |
| `FrameParser`, `MCFrameParser` | `HDLC/FrameParser.*` fed with a damaged stream | |
| `BaudRateDetection_proofs` | theorems about supervision; the detection is an `AliveState` | |
| `ProtocolState_proofs`, `StationWithoutRNR_proofs` | theorems about the station | the second with a hypothesis on the device |
| `StationSteps_proofs` | lemmas: what a handler of the station does to its numbers, its queue, the frame being written, and its wait for an acknowledgement | for `HdlcLink_proofs` |
| `HdlcLink_proofs` | theorems about the link: both streams, packets delivered once | uses `StationSteps_proofs` by INSTANCE |
| `SerialPort_proofs` | theorems about one port, the refinement of `PortLocking` | |
| `SerialPortHandlerCollection_proofs` | the invariant of the calls in progress; nobody is passed over by the iterations | |
| `PortsFollowClients_proofs` | clients, ports, names, locks and subscriptions keep count of each other | extends the previous |

An action is one handler, with all it calls. `OpportunityForTransmission(s)`
takes the record as its caller leaves it, so that one step contains the changes
of the handler, the decision what to send next and its effects, in the order
of the C++ code. `PROJECT.json` maps every definition to its lines.

`SerialPortHandlerCollection` goes one level deeper than that, as its subject
are the calls within a handler. The variable `calls` holds what is left to do,
the innermost call first; an iteration is an entry with its `next` iterator, a
call that holds a pointer to a client or a stopper is an entry that names it.
A new handler starts when the stack is empty, so that handlers stay atomic.
What the module abstracts: what a client is told and how its packets are kept
(`SerialPort` has both), the bits of the session header that filter received
and sent data, the station, whose calls of the port are taken one at a time,
and the identity of objects that do not exist yet. The list of the server is
a set, and an expired entry of the map of names is the same as none. A handler
that is no longer registered and has stopped its clients is reset to
`NoHandler`; its remaining pointers call nothing that changes state.

`SerialPort` and `SerialPortHandlerCollection` overlap on purpose: the first
takes one port with clients iterated at once and has the asynchronous
operations, the second has several ports and the nesting, and takes opening,
closing and locking as far as they decide about calls.

Each module may hold operators named as a mutant in its comment, such as
`SendIFrameOnce`. They are plausible errors (a timer not started, a guard
dropped), used by no specification: put in place of the definition they vary,
they make TLC find the property they are listed with violated.

## 3. The runs

All runs use `-config <file>.cfg` on the module named.

| run | module, cfg | shows | bounds |
|---|---|---|---|
| `baud_rate_detection` | BaudRateDetection | types, 3 safety and 2 liveness properties of supervision and detection | none: the state space is finite (676 states) at the real value of 4 probes |
| `station_sender` | MCProtocolState, StationSender | the type invariant and 8 invariants of the station against a device that sends any RR, RNR, REJ, SREJ, TEST with any number, plus suspension, shutdown, late timers and late completions of writes | modulus 3, queue 1, one late completion |
| `station_without_rnr` | MCProtocolState, StationWithoutRNR | retransmission and acknowledgement are never forgotten, including I-frames received in any order, if the device sends no RNR | modulus 2, queue 1, one late completion |
| `link_refinement` | MCHdlcLink, HdlcLink | the line loses frames, timeouts come at any moment: `ReliableStream` is implemented from the clients to the device, with a busy device and one suspension, and from the device to the clients (`ImplementsDeviceStream`: handed over in order, without a gap, and acknowledged only then) | modulus 2, queue 1, line 1, 2 packets; 3 packets of the device, next to 1 of the clients |
| `link_delivery` | HdlcLink, HdlcLinkDelivery | packets are delivered and acknowledged in both directions; with slow timers, no suspension and a device that never sends RNR, no packet reaches it twice until it sends packets itself (`DeliveredOnce`) | modulus 2, queue 1, line 2, 3 packets and 1 of the device |
| `port_collection` | SerialPortHandlerCollection, PortCollection | the iterators, the counters, ports and clients that follow each other's lives, calls that return, a shutdown that releases everything | 3 clients, 2 port names, 2 buffer types |
| `serial_port` | SerialPort | lock counting, informed clients, backpressure, one read per open port, `PortLocking` | 3 clients, 1 queued packet, 4 operations |
| `frame_parser` | MCFrameParser, FrameParser | nothing invalid is accepted, resynchronisation | 4 frames, `max_length` 8, one damage |

Why the bounds are enough:

- The station keeps at most one I-frame on its way, so a queue of 1 has all
  cases of the queue being empty or not at each decision, and a packet queued
  behind another differs only in order. Modulus 3 tells "the number awaited",
  "the next" and "another" apart; modulus 2 is enough where only the first two
  matter. One probe per baud rate makes the rate change with every probe. The
  probe counter itself is checked with 4 in `baud_rate_detection`.
- One run with all kinds of frames, numbers and payloads is too large even at
  modulus 2, so there are two: the sending side with RNR but no I-frames, and
  both directions without RNR. What `ps` receives and what it sends meet only
  in `m_bPeerRequiresAck`, which I-frames and the query timer both set.
- Of the completions that suspensions leave behind (`late`), one is enough for each
  kind of step: it runs on a stopped station, on a restarted one in the place of
  the probe's completion, or splits the probe's write in two. A second one repeats
  them. The proofs are for any number.
- `link_delivery` needs two places per direction of the line: with one, the
  answer of the device finds its line full and the bound, not the program,
  would stop it. Three packets take modulus 2 once around. One packet of the
  device is sent, lost, acknowledged late, repeated, and taken for a gap when
  it is repeated; it meets every state of the other direction. The order of its
  packets is the subject of `link_refinement`.
- In `link_refinement` the two directions are explored together as far as they
  meet: `DeviceSendsUndisturbed` (the CONSTRAINT of the cfg) lets the device send
  packets of its own only while the port was not suspended, the flow is not
  stopped, and the clients have sent at most one packet. Without such packets, both
  packets of the clients meet a busy device and a suspension. With three packets of the
  device its numbers wrap at modulus 2, so that an old I-frame may carry the number
  of a new one, and an acknowledgement that is a packet behind is in the line. Three
  packets of the device were also run with a line of 2, and with one suspension.
- In `port_collection` three clients give an iteration a client before, at and
  behind the one that is stopped, two ports let an iteration of one nest in an
  iteration of the other, and two buffer types tell a counter that is zero
  from one that is not. Two handlers are enough, as a name whose handler is
  gone gets a new one: a third name or handler adds only copies. Four clients
  of one port show no further behaviour (1.9 million states).
- Three clients make "others hold a lock" differ from "the other one does".
  `MaxOperations` 4 has the read and write of one opening together with those
  a suspension left behind. A release that would exceed it waits; the two
  violation runs on this module need no more than two clients.
- The frames of `MCSent` hold a payload with flag and escape characters, one
  with an FCS that needs escaping, and each class of control field. Junk
  longer than twice `max_length` overruns the assembly buffer.
  The damage is one byte lost or replaced by one of `Changed`, or a restart of
  the parser, at any place; reads may have any length.

`CHECK_DEADLOCK FALSE` is in every cfg in which the process or the port may
end (an exception, an assertion, `Shutdown`) or the bytes or packets run out.

### What the runs with an expected violation show

| run | what happens |
|---|---|
| `lost_retransmission_timer` | RNR and then RR arrive while a frame is being written. `m_bPeerStoppedFlowNew` stays set, the next I-frame starts the retransmission timer, and the next opportunity starts the query timer of the RNR condition that is already over, cancelling it. If that I-frame is lost, the queue stands still until the device sends something suitable. |
| `probe_after_suspend` | A probe timeout queued before a suspension sends its probe to the suspended port: an assertion, or a write to a closed port. |
| `partial_write_suspend` | `m_SendBufferOffset` survives a suspension in the middle of a frame; the first probe after the resumption meets `assert(m_SendBufferOffset == 0)`. |
| `kill_while_suspended` | A kill request for a suspended port calls `cancel()` on a closed port, which throws out of the handler and ends the daemon. |

### Environment and fairness

The device in `BaudRateDetection` answers a TEST frame sent at its own rate
before the next probe is due, and may be replugged at any time at any rate. The
device in `HdlcLink` is the peer the code is written for: it accepts the
I-frame it expects, answers I-frames and polls with RR (RNR while busy), and
keeps its number over a suspension, as the daemon never resets it. A gap-free
stream is therefore promised until the first suspension, and order after it.
Its own packets it sends one at a time, repeating each until the N(R) of an
I-frame or RR acknowledges it, and it ignores SREJ.
In `ProtocolState` the device may send anything.

- `DetectionSpec`: weak fairness on queued timer handlers and on timers that
  stay armed (the io_service runs everything that is queued, a clock does not
  stop) and on the device's answer. None on opening, suspending, replugging or
  traffic; the liveness properties assume "finally open" and "finally plugged
  in" themselves.
- `FairSpec` of `HdlcLink`: weak fairness on `Open`, on completing a write, on
  moving a line, and on timers and their queued handlers. `SlowTimers` lets a
  timer of 500 ms expire only on a quiet line, but a clock does not depend on
  how often the line is busy in between, so that one of the two repetitions
  (the daemon's and the device's) is strongly fair. Strong fairness on
  reception per kind of frame: a kind that is sent again and again is not lost
  each time. None on `Submit`, `DeviceSends`, `Suspend` and `LoseFrame`.
- `FairSpec` of `SerialPortHandlerCollection`: weak fairness on continuing what
  has been called and on `Shutdown`, both of which are straight-line code of
  the one thread. None on anything that comes from outside.
- `SlowTimers` is an assumption of `link_delivery` only. `link_refinement` runs
  with timeouts at any moment.

## 4. The proofs

TLAPS checks what follows for every value of the constants that the named
assumptions of the modules allow: any payloads, any modulus above 1, any set of
frames the device may send, any bounds of the queues and of the lines, any
number of packets, any finite set of clients, any number of probes per rate.
`MaxOperations` has to be at least 2, for the read and the write of an open
port; the real port has no such bound.

| module | theorems | about |
|---|---|---|
| `BaudRateDetection_proofs` | `TypeCorrect`, `AssertionHolds`, `HeardIsKept`, `GivenUpInTwoSteps` | supervision of the device |
| | `DetectionImplementsAliveState`, and with it the four above for the detection | the owner of an `AliveState` does nothing to it that `AliveState` does not allow |
| `ProtocolState_proofs` | `TypeCorrect`, `QueueHoldsAwaited`, `TimerHasOneUse`, `FramesAreSerialised`, `NoWriteIsAwaitedInVain`, `AliveMeansStarted`, `AlwaysSupervised`, `OpportunitiesAreTaken`, `StoppedPeerWillBePolled` | the nine invariants of `station_sender` |
| `StationWithoutRNR_proofs` | `RetransmissionWillCome`, `AcknowledgementsAreSent` | the two of `station_without_rnr`, from the hypothesis `NoRNR` |
| `HdlcLink_proofs` | `LinkTypeCorrect`, `ReliableStreamImplemented`, `DeviceStreamImplemented` | the reliable service in both directions, over lines that lose frames |
| | `PacketsDeliveredOnce` | no packet is delivered twice, from three hypotheses on timers, device and port |
| `SerialPort_proofs` | `TypeCorrect`, `LocksCounted`, `ClientsInformed`, `StalledByPacket`, `ListensOpen`, `PortLockingImplemented` | sharing and locking of a port |
| `SerialPortHandlerCollection_proofs` | `CollectionInvariance`, `NobodyPassedOver` | the nested iterations over the clients of any number of ports |
| `PortsFollowClients_proofs` | `FollowInvariance`, `LocksForgotten`, `CollectionTypeCorrect`, `SubscribersCounted`, `PortsAndClientsFollow` | ports and clients that live by each other, their locks and subscriptions |

### Supervision

"In REPROBING nothing was heard" is not inductive; the strengthening is
`HeardMeansFound`: the heard flag is set only in FOUND. The refinement
`DetectionSpec => Spec` needs no invariant, because every action of
`BaudRateDetection` calls one operation of `AliveState` or none.

### The station

    IInv == TypeOK /\ MembersInv(ps) /\ Exploited(ps, IsAlive)
            /\ AliveOnlyWhileStarted /\ SupervisionNeverStops /\ DetachedIsStopped
            /\ OneFrameAtATime
    MembersInv(s) == s \in PSType /\ Waiting(s) /\ NotWaitedFor(s) /\ OneFrame(s) /\ Polled(s)

The members are invariants of a *value* `s`, because a handler passes an
update of `ps` to `OpportunityForTransmission`. The argument has three layers.
Each update (`Enqueue`, `AcceptPayload`, `Acknowledgement`, ...) keeps
`MembersInv`; while an RNR is handled, a stopped peer is waited for, and only
`WeakInv` holds in between. Each transmission leads from `MembersInv(s)` to
`MembersInv(ps')`. An opportunity leaves `Exploited`: nothing due on a free
line. The last needs `AliveOnlyWhileStarted`, as the device may come alive in
the same step, and `DetachedIsStopped` (a null `m_SerialPortHandler` means
a stopped station) for probes that are only noted. The nested call out of
`QueryForPayload` needs no invariant of its own: it is one more transmission of
an updated `s` in the same step.

`OneFrame` says what survives a late completion: the station waits for the end of a
write only while there is one (`AwaitedWriteEnds`), there is a frame in
`m_SendBuffer` only while a write is under way, and a stopped station with no frame
there has none. That there is exactly one write while the station waits,
and none otherwise, is `OneFrameAtATime`. It is the conjunct of `IInv` that holds only
as long as no late completion ran on the restarted station; the auxiliary
variable `misled` says that one did, and a suspension, which gives up all writes,
ends it. `WrittenFacts`, `ReadyFacts` and `LateStep` are the lemmas for the three ways
a write can end.

`RetransmissionIsPending` and `AcknowledgementIsSent` are false for a device that
sends RNR, as the run `lost_retransmission_timer` shows for the first. The
hypothesis `NoRNR` says that none is among `ReceivedFrames`. Then `m_Timer` is
never the query timer, which is the strengthening:
`UInv == IInv /\ Unstopped(ps) /\ Acknowledged(ps, IsAlive)`.

### The link

The proofs about the station are used through
`S == INSTANCE StationSteps_proofs`. The daemon and the device change what
concerns a stream at different moments, and the frames between them may be lost
or late, so the invariant `LinkInv` is about the lines:

- the queue of the station holds consecutive packets that end with the last one
  accepted (`Numbered`);
- the I-frames that are on their way carry packets between the last one
  delivered and the head of the queue, no younger one before an older one
  (`DownInOrder`), and likewise on the line from the device (`UpInOrder`);
- until the first restart (`Synchronised`): the device expects the number of the
  station or the one after it (`Waited`); the I-frames on their way carry the
  number before the expected one and, from some frame on, the expected one
  (`SendNumbers`), which only the head of the queue does (`OnlyHeadIsNew`); the
  frames of the device carry acknowledgements in such an order
  (`ReceiveNumbers`), and so do the frames that acknowledge its own packets.

A suspension resets the numbers of the station but not the device's; from then on
`ReliableStream` promises order without completeness, for which `Numbered`,
`DownInOrder` and `UpInOrder` are enough. The sequence numbers are arithmetic modulo
`SeqModulus`, of which the proofs use only that predecessor and successor are
inverse and that neighbours differ (`NumberFacts`); for modulus 2 both
neighbours are the same number, so the invariants never ask which of the two a
frame means, only whether it is the current one.

`LinkInv` lets a packet be delivered twice: the device may expect the number of the
station although it has accepted the head of the queue (the first case of `Waited`),
and `DeliveredOnce` is false without further hypotheses. `PacketsDeliveredOnce` has
three, those of the run `link_delivery`: the two timers of 500 ms expire only
on a quiet line (`SlowTimers`), the device never sends RNR (`~BusyDevice`), and the
port is not suspended (`MaxRestarts = 0`). The invariant is `OnceInv`: as long as
the device has sent no packet,

- the station is `Plain`: nobody stopped the flow, no acknowledgement is owed,
  and its timer is armed or due only while it waits for an acknowledgement;
- on both directions of the line together there is at most one I-frame or RR
  (`OneExchange`), and while there is one, the station waits and its timer has
  not expired;
- if the device expects the number of the station, it has accepted nothing but
  what left the queue.

So an RR that moves `m_SSeqOutgoing` finds the station waiting and takes the packet
from the queue in the same step. The lemmas about `Plain` in `StationSteps_proofs`
say, of each handler, that it sends an I-frame only when the station did not wait
(`Turned`); that it does not wait for a packet on its way is what `OneExchange`
is needed for.

### The port

    IInv == PortInv(port) /\ ClientsInv(client) /\ Counted(port, client)
            /\ Informed(port, client, told) /\ told \in [Clients -> Status] /\ ...

Here, too, the parts are predicates of values: a handler computes the port and
the clients it leaves behind and then propagates the state. Before that, a
client has been told what its guards remember (`Telling`); `PropagateInv` turns
this into `Informed`. `Counted` says that `m_NbrOfLocks` is the cardinality of
the holders, from which the status "locked by others" follows by the
cardinality of the holders without one. `PortInv` relates the open port, its one
read, the frame being written and the completions of former openings: their
number never exceeds `MaxOperations` because an opening waits for it, not
because the code does. `PortLockingImplemented` maps every step to one of
`PortLocking` or to a stutter; it needs `OpenExactly`: the port is open if
and only if somebody is attached and nobody holds a lock.

### The iterations

`ForEachHdlcdServerHandler` erases the entries of clients that are gone while it
iterates, and what it calls may iterate over the same list again, add to it, or
destroy clients. The guard `s_bCyclicCallGuard` is one flag for all ports, locked
only while the function is called and not while an iteration erases an entry.
That nobody is passed over is therefore not a matter of one iteration and its guard
but of which calls can be in progress together, and the stack of calls is what the
inductive invariant is about:

    CollectionInv == ObjectTypes /\ calls \in Seq(CallType) /\ Lists /\ Objects
                     /\ NobodyMissed /\ (daemon # "failed" => Stack) /\ ...
    Stack == Chain(calls) /\ Together /\ CallsJustified /\ GuardLocked /\ Used

- `Chain`: which call may be right above which (`MayCall`), at most one iteration
  that stops clients, and nothing else done with a client that is being
  destroyed (`Exclude`).
- `Together`: while a port is opened, resumed or stopped, nothing is under way but
  what concerns that port (`Concerns`), in particular no iteration of another
  kind; while a client is asked for a packet, only deliveries, queries and the
  updates they cause (`Sends`).
- `CallsJustified`: what holds of the client and the port a call is about. A port
  that is asked for packets is registered, one whose clients are being stopped
  is not.
- `GuardLocked`: the guard is locked exactly while an iteration waits for the function
  it called to return (`LeaveClient`).
- `Used`: a client that left the list of the server, or that entered a port
  without being attached to it, is held by a call in progress.
- `Lists` and `Objects`: a client is in one list, once, and that of the port it
  is attached to; an open port is registered.
- `NobodyMissed`: the clients before the `next` iterator have been seen.

Two lemmas carry the argument. `OnlyIteration`: when an entry is erased with the
guard unlocked, no outer iteration is over the same list, since an outer one that
is not protected by the guard can only be one that stops the clients, and then
the inner one would stop clients, too. `ListFacts` and `RemoveFacts`: an iterator
names one place of the list, and removing another entry leaves the others in
order. One lemma per action shows that it keeps `CollectionInv`; the steps of
the actions are shared by what they change (`SameObjects` nothing but the stack,
`SameLists` no list, `Losing` a client that leaves).

The invariant made one difference between model and code visible: a port that
fails to open is shut down in the `catch` block (`SerialPortHandler.cpp:148`),
which the model had left out; without it an open port need not be registered.

### Ports and clients

`PortsFollowClients` speaks of the time between two handlers only. In the middle
of a call nearly every part of it is false: a client is entered in the list of a
port before it is attached to it, a port that is stopped leaves the map before it
stops its clients, a destructor clears the flag of its lock before the port
counts one lock less, and reopens a port that is about to be stopped. So the
inductive invariant says, of each part, which call in progress it waits for:

    FollowInv == CollectionInv /\ Bounded /\ Subscriptions
                 /\ (daemon # "failed" => Lives /\ Ports /\ Locks)

- `Lives`: a registered client that is attached to a port, or for which `Attach`
  is to come, is in the list of that port, and the port is registered or is about
  to stop that client (`Members`); a client that was destroyed holds a stopper only
  until `ReleaseStopper` (`Released`).
- `Ports`: a registered port has a client that is attached or is about to be, or its
  `Stop` is the innermost call (`Wanted`); its name leads to it (`Mapped`).
- `Locks`: the lock counter is the cardinality of the holders, plus one while
  `Resume` is the innermost call; the port is open if and only if the counter is zero,
  except for an `Open` that is the innermost call.
- `Subscriptions`: the counters add up to the length of the list, or an iteration that
  removed entries counts again or will (`Balanced`). Each counter is at least the
  number of entries it is for; while it is counted again, the number of those
  already passed (`Subscribed`, with `Passed` for the sum). Only an outermost
  iteration counts (`Recounts`), so that two never count the same list at once.
- `Bounded`: no counter exceeds the number of clients. It is inductive
  because a list names a client once (`Lists`) and a holder is attached.

The part about lives, ports and locks ends with an exception out of a handler
(`daemon = "failed"`), the part about subscriptions does not need to.
`PortsFollowClients` also says that a port that is not registered counts no locks.
This is not part of `FollowInv`, as clients that are stopped give back their locks
one by one; it is a second invariant on top of it: the counter of such a port is zero
or an iteration over its clients is in progress (`Forgotten`, `LocksForgotten`).

Each action has a lemma about its effect on the stack in terms of sets of calls
(`Replaces`, `Begins`), and one per part of `FollowInv` that it can disturb; what
actions do alike is shared (`PortsKept`, `SamePorts`). The cardinalities are
compared by adding or removing one client at a time, with the library's facts on
finite sets.

In the module the sum of the counters is written out for the four buffer types
(`Total`), as a fold over a function is out of the prover's reach.

### Only model-checked

- Liveness: the prover has no ENABLED, so weak fairness is out of its reach. The
  refinement theorems are about the safety part of the abstract specifications,
  which have no fairness of their own.
- `FrameCodec` and `FrameParser`: they compute over bytes with Bitwise and by
  folding over sequences, out of the prover's reach.

## 5. What is not modelled

- `HdlcFrame::Dissect` and all logging: text only.
- The command line of `main` and the TCP endpoints; an error of the acceptor
  only leads to the next `async_accept`.
- The filters of `DeliverBufferToClient` (sent, received, invalid data) and
  echo requests: they change no state. A rejected session header stops the
  client, as `OnClosed` does.
- The leak of a station that is shut down while it is not started
  (`ProtocolState.cpp:98`): memory, not behaviour.
- What two writes at once do to the bytes on the line and to `m_SendBufferOffset`,
  after a late completion misled the station: frames are not cut into bytes here.
  `ProtocolState` has the control flow of that case (ready too early, or one write
  more), `SerialPort` its completions (`overlapped`), and `HdlcLink` leaves it out,
  so that what the link promises after a suspension assumes that no completion
  outlives it. Of the completions that were aborted `ProtocolState` knows nothing: they
  stop the port, as `Shutdown` may at any time.
- The wait queues have no limit in the code; the models stop at `MaxQueue`.

Noticed while modelling, without a run of its own:

- A packet may reach the device twice. Once the station has stopped waiting, an
  N(R) that arrives sets `m_SSeqOutgoing` without counting as an acknowledgement
  (`ProtocolState.cpp:202-210`), and the packet at the head of the queue goes
  out again under the next number. It stops waiting before the acknowledgement
  has come: on a premature timeout; on a timeout after which the packet cannot be
  sent again at once (a frame is being written, or the device is not alive), and
  an I-frame of the device arrives in between; on an RNR that the device sends
  while the packet is on its way to it, and the RR that follows
  (`ProtocolState.cpp:211-229`). `DeliveredOnce` excludes these, and the streams
  promise each packet at least once.
- After a packet that was repeated, `m_SREJs` asks for every other number before
  the RR is sent (`ProtocolState.cpp:180-185`), and a device that obeyed an
  SREJ would move `m_RSeqIncoming` back. The device of `HdlcLink` ignores SREJ,
  like the daemon, which only stops waiting.
- A suspended port consumes one data packet per client whose packet is awaited
  (`HdlcdServerHandler.cpp:225`), where `doc/protocol.txt:58` says that none
  is consumed.
- Session types that `doc/protocol.txt:110-112` calls read only may send data and
  lock the port all the same (`HdlcdServerHandler.cpp:218`, `:237`); the models
  let every client do both.
- `FrameGenerator` writes the control field of CMDR in a form that the parser
  reads back as another U-frame (the daemon never sends it).
- The end flag of a frame that passed the FCS does not start the next one, so a
  lost flag costs two frames, which is what `Resynchronises` allows.
- A port suspended and resumed within one batch of packets sees the aborted
  completions of its former self as errors and stops (`StaleCompletes`). No property
  rules this out, as nothing documents it.
- The completion of a write that succeeded may be queued as well when that happens. It
  is taken for the completion of the new probe, although the comment at
  `SerialPortHandler.cpp:207` says "ready to transmit the next HDLC frame": the station
  is ready while the probe is being written, and what is due next overwrites
  `m_SendBuffer` under the write (`LateCompletion`). `OneFrameAtATime` says so with
  `misled`.
- A device given up is reported only with the next change of the baud rate
  (`GivesUpDevice`).

## 6. Plan

Done, in this order: `AliveState` with `BaudRateDetection`, `ProtocolState`,
`HdlcLink` over it, `SerialPort`, the codec and parser,
`SerialPortHandlerCollection`, the second direction of `HdlcLink`; the proofs of
section 4. Nothing of the plan is open.
