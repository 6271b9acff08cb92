# Verification of the Interprocessing Communication Library (ICL)

TLA+ models of the library in `src/library`, TLC runs that check them on small
instances, and theorems checked by TLAPS that hold for every value of the
constants. `PROJECT.json` lists every run, the source lines each definition
stands for, the hazards of the code and what the runs found.

To repeat: `tlc -config SocketLink.cfg MCSocketLink` (and so on for each
configuration), `tlapm SocketLinkProofs.tla` (and so on for each module whose
name ends in `Proofs`).

## 1. The system

Every process that uses ICL runs these threads:

```
 main / handlers                                           other process
   | SendMessage(pkt, comm)   SendAckMessage(ack, comm)
   v
 externalTxPacketQueue --sendThread--> TCP --recvThread--> externalRxPacketQueue
                                                              |
                                                        packetProcessor
                                                              |
                          internalPacketQueue, internalAckMsgQueue
                                                              |
                                                        messageRouter --> handler
```

| Component | State | Operations | Talks to |
|---|---|---|---|
| `tcpServer`, `tcpClient` (`socket.cpp`) | two byte deques under one mutex, a descriptor | `AddToExternal{Tx,Rx}Buffer`, `PopFromExternal{Tx,Rx}Buffer`, `sendThread`, `recvThread`, connecting constructors | the kernel; `threadServer`/`threadClient` by inheritance |
| `packet`, `ackMsg` | one packed structure each | constructor, `Serialize`, `calCulateChecksum`, `formAckBackMessage` | send path, deserializers |
| `threadBase` | two maps from message ID to method | `RegisterMethods`, the two lookups, `packetDeserializer`, `ackPacketDeserializer` | `buffer`, applications |
| `threadServer`, `threadClient` | one reused receive buffer, a scan offset (locals of `packetProcessor`) | `packetProcessor`, `AddToTxBuffer`, `PopRxBuffer` | socket, `threadBase` |
| `buffer` | two message deques, a mutex each | `AddToInternalBuffer`, `PopFromInternalBuffer` | any thread |
| `routingTbl` | map from thread ID to `threadBase*` | `registerThread`, `GetThreadInstanceFromID` | router, send path |
| `threadMgmt` | packet ID counter, router thread | `SendMessage`, `SendAckMessage`, `managerThread`, `messageRouter` | all of the above |
| `CPPLogger` | level; `localtime`'s struct, one for the process | `logger_log`, `logger_setLevel` | everyone |
| `baseMsg` | a flag nobody reads | - | - |

What is hard in this code:

- **Counts.** The Pop functions count in an `int` and return `uint8_t`, while
  they are asked for 256 and 268 bytes.
- **Streams.** TCP delivers bytes, the deserializers expect messages: a chunk
  may hold a part of a message, one, or several, on top of what the buffer held
  before. A scan offset and a payload counter outlive what they belong to.
- **Failure.** Partial sends, a broken connection, a process that ends, a
  failed `accept`: the code goes on (or is killed by `SIGPIPE`) with bytes in
  its hands.
- **Interleaving.** Several `packetProcessor` threads, `main` and the handlers
  feed two queues that one router thread serves while it runs handlers.
- **Lookups** are not checked; an unregistered ID is undefined behaviour.
- **Startup.** Constructors block in `accept`, give up after five immediate
  `connect` attempts, and register in an unguarded map. A port is accepted from
  once; the kernel completes connections nobody will accept.
- **Shared state without a lock.** `pktIDCntr`, the routing table, two of the
  four singletons. `managerThread` can start a second router.
- **Shared state with a lock that is polled.** Two threads of each endpoint take
  its one mutex in a loop without a pause.

What makes each component correct:

- link: bytes arrive once, in order; what is lost is lost for a known reason;
  nothing stays behind;
- deserializers: whatever the chunks, no message is invented, doubled,
  reordered or mixed with another;
- queues and router: first in, first out per kind; no starvation; no crash for
  a registered destination; every message finished with; with n routers, no
  message handled twice and none overtaken by more than n - 1;
- send path: IDs do not repeat, checksums stand for what is sent;
- startup: every layout without a circle comes up, connected as written;
- registration: one instance of each singleton; who is registered is found;
- an application: each packet is answered, and answers can be told apart.

## 2. Modules

**`SocketLink`** (`socket.cpp`, one direction; `tcpServer` and `tcpClient` are
the same code twice). A byte is its position in what was handed over, so loss,
order and duplication can be told apart without content. `tx`, `rx` are the two
deques, `out` is what `sendThread` has popped, `net` is the kernel, `got` is what
`packetProcessor` was told it received. Actions: `AddToTxBuffer(n)`, `PopTx`,
`Send`, `SendShort`, `SendDown` (the loop of `sendThread`, its partial result and
its behaviour on a broken connection), `Recv`, `PopRx`, and the environment's
`Reset`, `SenderExit`, `ReceiverExit`. Each call that takes the mutex is one
action. `lostTx`, `lostRx`, `cut` and `full` record why bytes vanish; they guard
nothing. A return of 0 or -1 from `recv` changes nothing and is no action. An
`accept` may have failed at either end: the sender then holds the descriptor -1
(`conn` is `"noFd"`); at the receiver nobody reads the connection that the backlog
completed (`heard` is FALSE), and the same is true of a client that was not the one
accepted. `KernelBuf` bounds what the kernel keeps of such a connection, or of any,
before `send` waits.

**`PacketFormat`** (`packet`, `ackMsg`, `threadBase.cpp`): the wire layout, the
sender's checksum, and where a deserializer finds each field of a message in a
byte buffer. It is evaluated on real bytes, since the properties are about which
bytes end up in which message. Exclusive or is defined bit by bit, as a parity.
Payloads that fill `m_payload` are `SendPath`'s: a message of the count's range or
more never reaches the deserializers whole (`link_drop`).

**`PacketProcessor`** (`threadServer.cpp`, `threadClient.cpp`, and the two loops
of `threadBase.cpp`): `packetProcessor` on a stream of messages a peer sends
meanwhile (`Send`), cut into chunks at any place. `Pop` fills the buffer, which
is never cleared and starts uninitialised (`Garbage`), and looks for the first
header at or after `cntr`; the deserializer for its kind then runs from the front
of the buffer, one action for each header looked for in vain (`SkipFour`), each
message (`ReadPacket`, `ReadAck`) and each message the chunk cuts off
(`TruncatedPacket`, `TruncatedAck`), until `Finish`. `cksum`, `payload` and `nth`
are the locals that are not reset from one message of a chunk to the next. The
thread is the only one to touch them, so the size of its steps matters to nobody
else.

**`MessageRouter`** (`threadMgmt::messageRouter`, `buffer.cpp`, the lookups of
`routingTbl` and `threadBase`). The two halves of the loop are the same code for
packets and acks, so the actions take the kind: `PopEmpty`, `Pop`, `Call`,
`Return`, `SkipUnknownThread`, `Die`, with `managerThread` and
`AddToInternalBuffer` by any thread at any time. A handler has its own step
between `Call` and `Return`, in which messages may arrive, also from the handler
itself. The tables are constants: registration precedes traffic. A missing
entry is undefined behaviour, modelled as a choice: for a missing thread, the
memory read happens to be a null pointer (`SkipUnknownThread`) or it is not
(`Die`); for a missing message ID, `Die`.

**`FifoDelivery`** is what an internal queue promises: messages put in are taken
care of once, in order. `MessageRouter` is shown to implement it for each kind
(`ImplementsFifo`).

**`LossyStream`** is what a connection promises: a part of what was handed over,
in order, each byte at most once, until a partial send has torn it.
`SocketLink` implements it (`ImplementsStream`).

**`LockedDeque`** (`socket.cpp` again, below the level of `SocketLink`): the four
functions on the deques of an endpoint, byte by byte, each under the one mutex,
called by `recvThread`, `packetProcessor`, `sendThread` and any sender.
**`ByteQueue`** is the same deque with atomic calls; `ImplementsByteQueue`
justifies that `SocketLink` makes each call one action. In the mapping an adding
call takes effect when it locks and a popping call when it unlocks (`Seen`).

**`SendPath`** (`threadMgmt::SendMessage`, `SendAckMessage`, and the objects of
`packet` and `ackMsg`). Each load, store and read of `pktIDCntr` is an action
(`Send`, `Store`, `EnterHigh`, `EnterLow`), then `Add` looks the communication
thread up and queues the message. Before, the owner may construct, `Serialize`,
re-address and re-sum its object in any order. `Sum` is `SendAckMessage`'s own call
of `calCulateChecksum`, after the counter has entered. A checksum is the set of the
byte strings that entered it an odd number of times. `CheckByte` is the one the
receiver is given: the byte `Serialize` stored behind the payload, or, behind a
payload of all 254 bytes (`Full`), `m_cksum` itself, which `SendMessage` changes
afterwards. `raced` records that a store overwrote an increment it had not seen.

**`Startup`** (the constructors of `tcpServer`, `tcpClient`, `threadServer`,
`threadClient`). A process has a script of endpoints, one of `Layouts`, and is
started at any time (`Start`); `at` is the constructor it is in. `Bind`,
`BindFails`, `Accept`, `AcceptFails`, `Connect`, `ConnectFails`; the kernel's
part is `listener` and `pending`, with its backlog. `ready` is history: could the
port be connected to when the constructor, the first one included, was entered?
`MCStartup` builds the layouts of the two example applications and all small
ones.

**`Registration`** (`GetRoutingTableInst`, `OverWatch`, `GetBufferInst`,
`getLoggerInst`, `registerThread`, `RegisterMethods`, the lookups): the check, the
assignment and the second read of a singleton's pointer are actions; so are the
beginning and the end of an insertion. Its specification is `RegSpec`, so that
`StartupProofs` can extend both modules. Once an insertion overlaps another access
to the same map nothing is claimed any more (`torn`): that is what C++ says.

**`RouterPool`** (`managerThread` called more than once): several threads in
`messageRouter`, with messages numbered by arrival. **`WindowedDelivery`** is what
such a pool promises.

**`RoundTrip`** (`Examples/ServerClient`): two processes, each with its `main`,
its counter, its link, its internal queues, its router and its handlers. It
composes the other components at the level of what they have been shown to
promise: a link keeps the order and may lose (`LossyStream`, `AcksFaithful`,
`HeadersFaithful`), the router is first in first out per kind (`FifoDelivery`), a
message is accepted under the condition `AlignedDelivery` gives. The link's
promise has two premises, a stream no partial send has torn and messages without
a header inside (`Unmistakable`). Where they fail, `Stray` hands on a message
nobody sent then: one that was sent before, again, or one with any addresses
(`Strays`). It is counted in `strays`, and what rests on the promise says `strays
= 0`. `aligned` chooses between links that cut the stream anywhere and links that
hand on whole messages with no header inside. `main` returns after
`managerThread`, but only into the destructor of its communication thread, which
joins an endless thread: the process lives on.

The `MC` modules hold the values of the constants for TLC, the `Proofs` modules
the proofs. Definitions commented as mutants are faulty variants used to confirm
that the properties notice such a fault; no specification uses them.

## 3. Runs

| Run | Shows |
|---|---|
| `link` | `Accounted`, `InOrder`, `IntactWhenPaced`, `DropsWholeBlocks` under every fault and one partial send; refinement of `LossyStream`; `EventuallySettled`: on a connection the receiver reads, no byte stays in a deque or in flight forever |
| `link_drop` | finding: a backlog of the count's range is thrown away on a healthy connection |
| `processor` | `AcksFaithful`, `HeadersFaithful`, `FirstOfChunkFaithful` for every way to cut the streams; `AlignedDelivery` says exactly what gets through when each chunk is one message |
| `coalesced_payload` | finding: the second packet of a chunk is accepted with the first one's payload |
| `rejected_packet` | finding: an unharmed packet is rejected because of its ID |
| `router` | `Fifo`, `Alternates`, `SafeWhenRegistered`, refinement of `FifoDelivery`, `EventuallyDone` |
| `locked_deque` | refinement of `ByteQueue` by both deques; `StarvesOnlyPassedOver`: a call that waits for the mutex returns, or others are given it for ever |
| `send_path` | `UniqueIDs`: IDs repeat only after a lost increment or a whole turn; `ChecksumsMatch`: which checksum byte goes out, also with a full payload or without `Serialize` |
| `startup` | `CircularWait`, `EventuallyUp`, `UpMeansConnected`, `GivesUpOnlyUnserved` over every layout of three processes with up to two endpoints on two ports, and the examples', started in any order, with a busy port and a failing `accept` |
| `registration` | `RegistrationsKept`: who is registered is found, by all, with its methods; `OneInstance`, `EventuallyRegistered` |
| `router_pool` | `Accounted`, refinement of `WindowedDelivery`, `EventuallyHandled` |
| `round_trip` | `AcksInOrder`, `SafeWhenBothRegister` over links that lose anything, until one hands on a message not sent then; `EventuallyAcked` over links that hand on whole messages |

Seven more facts about the code are part of these properties, where they hold as
stated, and not findings of their own:

- A payload that holds the bytes of a header can be taken for a message nobody
  sent, if the stream is cut badly: `packetProcessor` looks for a header in every
  byte (`threadServer.cpp:60`). `AcksFaithful`, `HeadersFaithful` and
  `FirstOfChunkFaithful` therefore speak of streams without such a message
  (`Unmistakable`); without that premise `processor` violates `AcksFaithful`. Numbers
  can do it too, not only payloads: an ID of 0xFFEE before a destination of
  0xAAC0. `AlignedDelivery` needs no such premise.
- An endpoint can go deaf: after a chunk with no header at its front, `cntr`
  (`threadServer.cpp:41`) stays where the search ended, and a message that starts
  its chunk is found no more. `AlignedDelivery`, whose chunks are whole messages,
  excludes this; `AcksFaithful` and `HeadersFaithful` cover what such an endpoint
  still hands on. No property asks it to recover, since the code does not.
- A connection that a server's failed `accept`, or an `accept` of another client,
  leaves in the backlog is read by nobody: `recv` on the descriptor -1
  (`socket.cpp:232`) fails for ever, the client's bytes stay in the kernel, and then
  its `send` waits. `EventuallySettled` therefore speaks of connections that are read
  (`heard`); without that premise `link` violates it.
- A torn connection repeats whole messages, and a header inside a message makes
  one up: then an ack may come twice, or a message carry a destination nobody
  registered. Without `strays = 0`, `round_trip` violates `AcksInOrder` and
  `SafeWhenBothRegister`.
- A message for a thread nobody registered may end the process (`Die`), although
  `threadMgmt.cpp:98` logs "No thread found with ID": the lookup reads past the
  end of the map. `SafeWhenRegistered` says when this cannot happen.
- A second thread under an ID is logged as added (`routingTbl.cpp:47`) and is not:
  `emplace` keeps the first (`Emplaced`). `RegistrationsKept` therefore speaks of
  the one that came first.
- A second client of a port is constructed and never accepted: `Connect` needs
  only room in the backlog. `UpMeansConnected` therefore speaks of endpoints that
  have a port for themselves.

**Bounds.** `link`: messages of 1 and 2 bytes, 8 in total (`MaxTotal`); the
numbers 256 / 268 / 256 become `SendBuf` = 3, `PopBuf` = 4, `CountMod` = 3, which
keep the relations that matter (the sender's buffer is as long as the count's
range, the receiver's request exceeds it). The kernel keeps 5 bytes, so `send`
waits behind one full buffer and part of another, and on an unread connection the
rest stays in the deques for good. A backlog that is dropped whole, one that is
dropped in part, and traffic after either, all occur. `processor`: `CountMod` =
32 and `PopBuf` = 44 keep the difference of 12 between 256 and 268 while two
short messages exceed a header, and two or three of them exceed the count; IDs 0
to 2, 256 and 257 include equal and different bytes; three pops allow a partial
chunk before and after a whole one; one payload is the header of an ack, and the
buffer starts full of a number or of such headers. Messages of `CountMod` bytes
or more are excluded by `StreamAssumption`, because the sender's own pop drops
their first block (`link_drop`). `router`: two messages of each kind, to a
registered and an unregistered thread, with a registered and an unregistered ID,
put in at any moment; the proofs remove this bound.

`locked_deque`: two senders, `recvThread` and both poppers; one call per adder,
of one or three bytes, against a buffer of 2, so a block is longer than a pop and
two senders meet. `send_path`: two threads and two addresses, each pair alike, a
payload that fills its field and one that does not, a byte of two values (so the
counter turns after four IDs) and five calls in all: one thread passes a whole
turn, or two race, or an object is built, serialized, re-addressed and sent; the
proofs remove the bound. `startup`: three processes, two retries for five, a
backlog of 1, which a second client fills; port 3 is held by a fourth process; of
layouts that differ by the names of processes or ports one is kept.
`registration`: two threads under one ID and the router, which only looks up,
with and without the mutex. `router_pool`: three routers and four messages of
each kind, so two handlers are overtaken at once. `round_trip`: up to four
packets, a byte of two values, so all IDs occur, acceptable and unacceptable; one
stray, a packet again or an ack for a thread nobody has; scripts with a
destination or a message ID that one side lacks (`MCScripts`), and scripts in
which both sides send.

`CHECK_DEADLOCK FALSE` in every configuration: the bounded traffic ends, and a
process may have ended. That the system does not stop too early is what the
liveness properties check.

**Fairness.** `link`: each thread of `socket.cpp` is an endless loop that the
operating system schedules, and the kernel moves what it accepted, so weak
fairness on `PopTx`, `Send`, `SendDown`, `Recv`, `PopRx`. `Recv` needs a
connection that is `heard`, and `Send` room in the kernel; nothing is assumed
where they are missing. No fairness on partial sends, faults or producers.
`router`: the examples call `managerThread` from `main`; the router thread is
scheduled and handlers return. A handler that does not return stops all delivery
in the process: that is the library's design, not something the fairness hides
from the safety properties. `router_pool`: the same for each router. `startup`:
each process is started in the end and runs, and `accept` returns when a
connection is there (`WF` on its steps; clients retry at once); none on
`AcceptFails`. `registration`: each thread runs. `locked_deque`: threads inside a
function run, poppers keep calling, and a mutex that stays free is taken (`WF` on
`Lock`). `std::mutex` promises no more: a polling `sendThread` may keep
`recvThread` out for ever. `StarvesOnlyPassedOver` says that this is the only way
a call can fail to return. `round_trip`: all threads run; `SF` on the router's
pop of each kind, because `MessageRouter`'s `Alternates` says that a queue that
has a message is looked at before the other kind is served twice.

## 4. Proofs

`SocketLinkProofs`, for all buffer sizes, count ranges, message sizes, bounds and
fault sets allowed by `LinkAssumption`:

- `TypeCorrect`: `[]TypeOK`, inductive by itself, from lemmas about splitting a
  sequence (`Split`) and about what a Pop takes and reports (`PopBounds`).
- `NoByteUnaccounted`: `[]Accounted`, inductive with `TypeOK`. Each step moves
  bytes between the five pieces of the pipe and the three loss sets
  (`RangeOfFive`, `CutRange`).
- `ExactWhenPaced`: `[]IntactWhenPaced`. Not inductive alone: that a deque was
  never full must imply that it is short now. The strengthening is `BelowCount`
  (a deque not in `full` holds fewer than `CountMod` bytes); then a pop reports
  all it took (`ReturnedBound`), and each step only regroups the pipe or appends
  the next positions.
- `OrderKept`: `[]InOrder`, inductive with `TypeOK`. The whole pipe is increasing:
  a step that loses bytes removes a middle piece (`DropMiddle`), a new message
  appends greater positions (`AppendGreater`), the rest regroups (`Joined`).
- `LinkImplementsStream`: `Spec => ImplementsStream`, each step a `Hand`, a `Tear`,
  a `Deliver` or a stutter, from `OrderKept` and the types.
- `WholeBlocksDropped`: `[]DropsWholeBlocks`. What is swallowed lies before all that
  is still to be popped (`Swallows`), so a pop swallows bytes that were not
  swallowed before; by `InOrder` they are as many as their places (`Swallowed`), and
  what a count leaves out is a multiple of its range (`Unreported`).

`PacketProcessorProofs`, for every stream of messages shorter than the count's
range, every content of the uninitialised buffer, every buffer size and range that
stand in the relation `ProcessorAssumption` names, and any number of pops:

- `TypeCorrect`: `[]TypeOK`: what the deserializers read lies inside the buffer, and
  what they write inside `m_payload`. Not inductive alone: the payload counter is
  never reset, and only because each byte written was passed in the chunk
  (`ScanOK`) does it stay below the chunk's length.
- The invariant `Inv` of the others adds that `stream` is the concatenation of the
  messages sent, with `ends` their ends (`StreamOK`); that the front of the buffer is
  the popped part of the stream (`BufferOK`); and, for a stream without a header
  inside a message (`Unmistakable`), that the messages handed on are ones that
  begin before the place reached so far, in their order (`AcksPlaced`,
  `PacketsPlaced`). A header found in a chunk is then the beginning of a message
  (`MessageAt`), and its fields are that message's (`WireFields`, `FieldsAt`): of what
  the `<=` of the loop lets in, only a checksum byte can be a stale one.
- `NoAckInvented`: `[]AcksFaithful`; `NoPacketInvented`: `[]HeadersFaithful`;
  `FirstPacketIntact`: `[]FirstOfChunkFaithful`.
- `OneByOneDelivered`: `[]AlignedDelivery`, from `AlignedOK`: as long as each chunk is a
  message, exactly the acks and the acceptable packets among the first `pops`
  messages have been handed on, but for the one being read. `AcceptedIff` is about
  exclusive or: what the receiver sums up over a packet, its checksum byte
  included, is 0 if and only if the two bytes of its ID are equal.

`MessageRouterProofs`, for all threads, IDs, tables and queue lengths:

- `TypeCorrect`: `[]TypeOK`.
- `Alternation`: `[]Alternates`, from `Due`: a message that saw one of the other
  kind go first is in its queue, and the router is either busy with the other
  kind or about to look at this one.
- `FifoOrder`: `[]Fifo`, inductive with `TypeOK`.
- `RegisteredIsSafe`: `[]SafeWhenRegistered`; by `Fifo` the message in hand is one
  that was put in (`HandIsNext`), hence routable.
- `RouterImplementsFifo`: `Spec => ImplementsFifo`; every step is a `Put`, a
  `Finish` or a stutter of each kind (`KindStep`).

`SendPathProofs`, for any number of threads, addresses and calls and any byte
with at least two values:

- `TypeCorrect`: counter and IDs stay within 16 bits (`IncrementedCases`), sums
  within what messages can carry (`XorSums`).
- `IDsUnique`: `[]UniqueIDs`. The strengthening says, as long as nothing raced,
  that the k-th ID issued is k - 1 modulo the range of the counter (`InStep`);
  `WholeTurns` turns equal remainders into whole turns.
- `SealsMatch`: `[]ChecksumsMatch`, for the byte that goes out, full payloads,
  unserialized packets and acks included, and whatever has raced. From `SumsKept`:
  as long as its owner kept to the order, an object's stored byte is the sum of its
  content or, if its payload is full, its `m_cksum` differs from that sum by bytes of
  the counter only (`SealHolds`); a packet
  without a payload has none stored; an ack past `Sum` holds its own sum.

`StartupProofs`, for every set of processes, layouts, backlog and retries:

- `TypeCorrect`: tries and backlogs stay bounded.
- `KnotsDeadlock`: `[]CircularWait`. The strengthening (`KnotsWait`): no connection on the
  port of a knot's server is pending, since all its clients stand behind
  servers of the knot (`NoCall`), hence no `accept` there returns (`NoAccept`).
- `UpConnects`: `[]UpMeansConnected`. The strengthening (`Linked`): who waits in a
  backlog is a client's endpoint that its process has passed, on its own port,
  and waits once (`Callers`); a link joins a server and a client of one port, both
  passed, and its client waits no more (`Joined`); no endpoint has two
  (`OneLinkEach`); and a server that was passed without a failed `accept` has one
  (`Served`).
- `NeverGivesUpOnListener`: `Spec => GivesUpOnlyUnserved`, an action property, from
  `StillListening`: while no process has ended, a port that could be connected to
  when a constructor was entered, be it on `Start`, has a listener as long as its
  process is in it.

Still `StartupProofs`, on `Registration`, for any number of threads and IDs,
guarded or not:

- `RegTypeCorrect`, with `Given`: who is past the getter has an instance.
- `InstanceUnique`: `[]OneInstance`, from `MutexHeld` (who is inside the guarded
  getter holds the mutex) and `Shared` (without a race all have the static one).
- `LookupsAgree`: `[]RegistrationsKept`: entries are never replaced and what was
  seen stays true of the table (`KeptKept`).

`RouterPoolProofs`, for any finite set of routers:

- `TypeCorrect`, and `EachInOnePlace`: `[]Accounted`, per kind (`KindAccounted`).
- `WindowKept`: `Spec => ImplementsWindow`: what is left over before a message in
  hand is in other hands, and there are fewer of those than routers
  (`FewerLeft`).

`LockedDequeProofs`, for any threads, blocks and buffer sizes:

- `TypeCorrect`: no pop writes past its caller's buffer.
- `MutexExcludes`: `[]Exclusive`, together with `Roles` (who runs adds to or pops
  from the deque of its call).
- `CallsAtomic`: `Spec => ImplementsByteQueue`. The refinement mapping is `Seen`,
  the deque with the call under way completed or undone; byte steps leave it
  unchanged (`AddByteSeen`, `PopByteSeen`), locking adds (`LockSeen`), returning
  takes (`PopReturnsSeen`).

`RoundTripProofs`, for any scripts, IDs, registrations and strays, over links that
lose anything:

- `TypeCorrect`: `[]TypeOK`.
- `AcksMatchInOrder`: `[]AcksInOrder`. Its premise, `strays = 0`, is a history that
  only grows, so up to the first stray every step is one of the two processes' own
  (`Faithful`, `NoStray`). The strengthening, `Lines`, speaks of each kind
  of message on its way to each process: what is handled, in the router's hand,
  in the internal queue and on the link is in order within and across, packets
  have numbers their sender has given, and acks those of packets their sender has
  answered. The lemmas `LineDrop` to `LineWider` say what one step does to one
  line; each action is then at most four of them.
- `BothRegisteredIsSafe`: `[]SafeWhenBothRegister`: every message on its way to a
  process stems from a safe packet (`Fits`), hence is routable (`FitsRoutable`), again
  before the first stray.

Only model-checked: liveness (`EventuallySettled`, `EventuallyDone`,
`StarvesOnlyPassedOver`, `EventuallyUp`, `EventuallyRegistered`,
`EventuallyHandled`, `EventuallyAcked`), which rests on fairness and on
`ENABLED`, outside of what the provers handle. Every invariant and every action
property of the runs that pass is a theorem, and so are the four refinements. The
three findings need no proof: TLC shows a behaviour for each.

## 5. Not modelled

- `CPPLogger` beyond its singleton: no component reads what it prints. Lines of
  threads that log at once can be mixed, and `localtime`'s struct is shared.
- `baseMsg` (a flag nobody reads), build files, prebuilt libraries.
- What the programs of `MultipleServerClient` send: their source calls a
  `packet::SendMessage` the library does not have any more. Their layouts are
  among those of `startup`. The copies of the library's headers under `Examples`
  appear only where an example's behaviour is modelled from them.
- Failures of `getaddrinfo` and `socket`, memory exhaustion by the unbounded
  deques, byte orders other than little endian.
- The destructors: each joins a thread that never ends, and the singletons are
  never deleted, so none of them completes.

## 6. Plan

Done: all modules above, with their runs and theorems. Left for later:

1. `RoundTrip` with processes that end, and with `RouterPool` in place of one router.
2. A proof that a stream the link delivers exactly (`IntactWhenPaced`) is one that
   `PacketProcessor` assumes: today the two meet only in the comments.
