# A TLA+ model of netDroid

netDroid is a client and a server for a networked game. The client connects over
ENet, is given an ID, asks the server for its init script, compiles and runs it with
AngelScript, and the script asks for the splash image. This directory models that
part of the program, where its threads, its queues and the network meet, checks the
models with TLC and proves the main invariants with TLAPS.

Paths below are relative to the root of the repository.

## The system

The program's own code is about 5000 lines in `client/src`, `server/src` and
`common/src`. The rest, more than 95 % of the lines, is vendored. Of that, ENet is
modelled too, where netDroid's use of it reaches: how it delivers reliable packets and
how it makes and ends connections. AngelScript, tinyxml2, pods, glm, imGui and
freetype-gl are outside, modelled only where the program depends on what they do.

| component | state | operations | interacts through |
|---|---|---|---|
| event queues (`s_network.cpp`, `c_network.cpp`) | a `std::queue` of ENet events behind one SDL mutex on each side | main loop adds, network thread takes and handles | shared queue |
| network state (`c_processNetworkState.cpp`, `com_networkState.cpp`, `client.cpp`) | `currentState`, `networkStarted`, host and peer pointers, `connectionComplete` | the monitor thread's switch; main asks for a connection; the network thread reports it | `clientNetworkState`, a mutex per call |
| server (`s_network.cpp`, `s_peers.cpp`) | `peers`, a vector of copies of `ENetPeer` | new connection, request for a script or an image, loss of a connection | ENet, index in `peers` as client ID |
| client session (`c_processClientFrame.cpp`, `c_gameEvents.cpp`, `c_requests.cpp`, `c_network.cpp`) | `currentMode`, `gameEventQueue`, `requestQueue`, `clientPeer` | frame, handling of events with delays, handling of packets, resend | three threads, three mutexes, ENet |
| script engine (`com_droidScript.cpp`, `c_scriptEngine.cpp`) | module, registered names, cached function IDs, context | add, compile, cache, run | network thread loads, main runs |
| textures (`com_texture.cpp`, `c_graphics.cpp`) | surface and texture of each name | packet to surface, upload, draw | network thread and main, `clientTextures` |
| ENet channel (`protocol.c`, `peer.c`) | queues of commands, reliable windows, sequence numbers of 16 bits | send, send again, receive, acknowledge, dispatch | datagrams; both programs send and receive through it |
| ENet connection (`protocol.c`, `peer.c`, `host.c`) | state of each peer, connect IDs, session IDs of 2 bits | connect, verify, acknowledge, time out | datagrams; CONNECT and DISCONNECT events for both programs |
| threads engine (`com_threadsEngine.cpp`) | registered threads and mutexes, `lastError` | register, start, stop, lock | every thread |
| messages and console (`com_message.cpp`, `com_console.cpp`, `c_console.cpp`) | `consoleLines`, `consoleText` | message, transfer, draw | every thread adds, main drains |
| files (`com_fileMapping.cpp`, `com_language.cpp`, `s_resources.cpp`) | maps filled at start-up | load, look up | - |
| audio, window, fonts, OpenGL | handles of libraries | play, draw | main only |

What is hard to get right here, and hard to test:

* **Interleaving.** The client runs four threads of its own (main, monitor, network,
  requests), the server two. `empty()` is called without the mutex; the monitor reads
  the state, waits a second and writes a new one; a postponed game event is in no
  queue for a moment; a request is taken off its queue and put back in two steps.
* **Order of messages.** The request for the script does not wait for the ID it is sent
  with, which is 0, another client's ID, until the server's packet is handled.
* **Staleness.** The server sends through copies of peers made at connection time; the
  client runs functions by IDs cached from a module that may have been replaced;
  `connectionComplete` outlives the connection.
* **Retry.** Requests are sent again after a second, so that answers come twice or
  after the fact, and damaged scripts are asked for again.
* **Failure.** Start-up may fail, connections are lost, slots of the ENet host are used
  again by other clients. A script may not compile or not run and an image may not be
  decoded, after the request for it is off the queue. A send through the copy of a peer may
  end the server.
* **Wrap-around.** ENet tells commands apart by 16 bits of their number and connections
  by 2 bits of a session ID, over datagrams that are lost, doubled and late.

What makes each component correct: the event queue hands over each event once and in
order; the network state ends in a verdict that is true; a client gets an ID that is its
own, a script and an image; a request is never doubled or kept after its answer, nor
forgotten while the client can still make use of one; what `run` executes is the function it is asked for; a thread that has been
started goes on, and gets the mutexes it asks for; what ENet is given arrives once and in
order, over connections that both ends agree on. The list of hazards in `PROJECT.json`
has each of them at its line, with the properties that speak of it or why none does.

## The modules

| module | models | checked by | proved in |
|---|---|---|---|
| `EventFifo` | what an event queue promises | - | - |
| `EventQueue` | both event queues, step by step | `event_queue` | `EventQueue_proof` |
| `NetworkState` | start-up and connection of the client | `network_state*` | `NetworkState_proof` |
| `Transport` | ENet between the clients and the server, as `src/` uses it | through `NetDroid` | - |
| `Server` | peers, IDs, answers; extends `Transport` | through `NetDroid` | - |
| `ClientSession` | frame, game events, packets, requests of each client; extends `Transport` | through `NetDroid` | - |
| `NetDroid` | the server and its clients composed | `session*` | `NetDroid_proof` |
| `ReliableChannel` | what ENet promises of reliable packets | - | - |
| `EnetChannel` | one reliable channel, one way, command by command | `enet_channel` | `EnetChannel_proof`, `EnetReceiver_proof`, `EnetOrder_proof` |
| `Connection` | what ENet promises of connections | - | - |
| `EnetConnection` | clients' peers and the server's slots | `enet_connection*` | `EnetConnection_proof` |
| `ClientThreads` | threads, mutexes, start-up and shutdown of the client | `client_threads` | `ClientThreads_proof` |

Locking is `EventQueue`'s subject; what it establishes, that the queue behaves as a
FIFO of atomic operations, is what `NetworkState`, `Server` and `ClientSession` use.
Start-up and the verdict on the connection are `NetworkState`'s; what goes over the
connection is `NetDroid`'s. `Transport` takes ENet's promises for granted, that what is
sent over a connection arrives once and in order or not at all, and that connections
begin and end in order; `EnetChannel` and `EnetConnection` show them of the ENet of the
repository. `ClientThreads` shows what the other modules take for granted of the threads:
that each of them goes on, and that no lock is refused or kept.

### EventQueue

`side` says whose queue it is: the server unlocks before it handles an event, the
client after. `emplace` and `front`/`pop` are each split into a step that reads the
queue and one that writes it back, so that overlapping accesses would lose elements.
`EmptyMayReturn` gives the unlocked `empty()` both answers while an `emplace` is half
done. Events are numbered as ENet delivers them; `lastHandled` is the last one whose
handler has finished. `front()` of an empty queue is undefined in C++: `Front` has no
such step, and `NeverPopsEmpty` says it is not needed.

### NetworkState

The monitor's loop is cut at every call of `clientNetworkState`: it reads (`ReadState`),
acts (one action per `case`), and writes (`WriteState`, `SetStarted`), with the other
threads in between. `link` is the client's peer in ENet; `ServiceHost` is the frame
loop's call of `enet_host_service`, which may report a connection, a failed attempt or a
loss. `StartupDelayEnough` is what the program hopes of the 500 ms delay in `main`: with
`FALSE` nothing is assumed of it.

### Transport, Server, ClientSession, NetDroid

Every packet is sent reliably on channel 0: `up` and `down` are FIFOs per client that
lose everything when the connection is cut. A slot of the server's host is occupied
from the first packet of a connection, CONNECTED only when the client has confirmed,
and free again when the server notices the loss.

`SendThrough` is the delicate point. The server keeps a `memcpy` of each `ENetPeer`, with
the heads of its lists. The command that a send through the copy makes goes into the
copy's list, which hangs in the slot's as long as the slot's own head still has the
links of the moment of the copy. There are four outcomes:

* a copy made when the slot was not CONNECTED any more, or not again, refuses to send;
* main takes the command from the slot's list and sends it;
* ENet has queued a command of its own (a BANDWIDTH_LIMIT of `enet_host_bandwidth_throttle`,
  a ping) in the slot's list first: the slot's head leads past the copy's from then on, and
  this packet and all that follow through the copy stay where they are (`adrift`);
* the connection has gone: its channels are memory ENet has freed, which `enet_peer_send`
  writes to (`wild`), and the packet is lost or reaches the slot's new occupant.

And once a send has not been refused, main may come to the head of the copy's list on its
way through the slot's: `enet_protocol_check_outgoing_commands` takes it for a command without a
packet and gives it to `enet_free` (`protocol.c:1546-1547`), though it lies inside an
element of `peers`. That is `Abort`. With glibc's `free` it ends the process of a Release
build at the first send; the Debug build has `-fsanitize=leak` (`CMakeLists.txt:99-108`),
whose `free` lets it pass. `FreeAborts` says which `free` there is; with `TRUE` the process may
end at any time after a send, and need not. When it has ended, `serverUp` is false
and every client's connection is cut (`AllCut`). These outcomes were observed with the
ENet of the repository.

In `ClientSession` each frame services ENet (`ServiceClient`), takes one event of
`gameEventQueue` and does what the mode asks (`ModeSwitch`). A postponed event is
taken out and put back in two steps (`Postpone`, `Requeue`). The network thread's
handler of a script is cut where it leaves a mutex (`ScriptPacket`, then
`RequestAgain` or `LoadScript`). `Resend` is the requests thread; that the answer is
late is nondeterministic, so it may come at any moment while a request is queued.
`Removed` is what the erasing loop of `c_removeRequest` really does: of n requests with
the same name, `n \div 2` stay. `cached` tells whether the function ID that `run` will
find belongs to the module that is loaded. With a stale one the behaviour is undefined;
built with the AngelScript of the repository, `run ("clientInit")` executed
`clientInit` or `loadClientResources`, depending on how often the module had been
replaced, and these are the outcomes of `RunClientInit` that succeed.

Every step on the way has its failing returns (`Refuse`), and nothing asks again for what
has been refused: the request is off the queue before `addScript`, `compileModule` and
`cacheFunctions`, any of which may fail (`LoadScript`); `run` may return false with some
of the function done (`RunClientInit`); an image packet may have no data (`ImagePacket`),
and `convertToTexture` may fail, for want of a surface if for nothing else
(`UploadTexture`). `refused` remembers which client has refused what. An image that
cannot be decoded is worse (`BadImagePacket`): `setSurface` flips a surface that is null
and the process ends, before the test at `c_graphics.cpp:76` is reached. Its threads are
"ended" then, and the server hears no more of it (`ClientGone`). What the server has no file for
(`Files`) it does not answer.

### ReliableChannel, EnetChannel

`enet_peer_send` accepts a packet and makes a command of it, or one for each fragment
(`PeerSend`); `enet_protocol_check_outgoing_commands` sends it when its window and
the data in transit allow; `enet_peer_queue_incoming_command` takes, drops or keeps it by
its window; unless it is too far ahead it is acknowledged, and the acknowledgement
removes it from the sender's queues. The sender's own count of its commands is unbounded, the receiver sees
what is in the datagram, the number modulo `SeqNumbers`. The wire loses, doubles and
reorders; `Lifetime` is what the wrap-around needs: a datagram is gone before so many
more commands have been sent: with ENet's sizes, 36865 less the fragments of the longest
packet, which is the reach of `enet_peer_queue_incoming_command` behind the last command
it took. `Base` lets the model begin in the middle of a connection, close to where the
numbers wrap.

### Connection, EnetConnection

A client's host has one peer and the server's has `PeerCount`. `HostConnect`,
`SendConnect`, `ReceiveConnect`, `SendVerify`, `ReceiveVerify`, `ReceiveAck` are the
handshake; `ClientTimesOut` and `SlotTimesOut` end a connection; a client may connect
again from the same address. `Passes` is the test every datagram has to pass, by address
and session ID. `netDroid` never calls `enet_peer_disconnect`, so DISCONNECT commands
are left out. Time is `waited`: the peers that have timed out since a datagram was sent,
or since a peer last had an answer. A datagram that is not CONNECT or VERIFY_CONNECT
carries its connection in the model only for the properties to speak of: no action but the
two of the handshake looks at it.

### ClientThreads

`StartUp` lists what main calls of the threads engine, in order; `registerThread` is cut
at each thing another thread can see. `registeredThreads` is a vector: while main is
inside its `push_back` (`moving`), a thread that looks for itself finds either answer.
Built without optimisation by gcc, it finds nothing and ends, because the names have been
moved away; with optimisation it reads the flag it finds and goes on. `misled` remembers
who looked then, so that `LeavesOnlyMisled` can say that nobody ends for another reason:
`stopThreads` clears a flag that no loop reads.

`todo` is the list of critical sections a thread has still to pass through, `MutexOf` the
mutex of each. The network thread holds its own while it handles an event and passes
through others (`Handling`); `UnlockNetwork` ends that. Queues are counted only. SDL's
mutexes are recursive, so who holds one may lock it again. `networkState`'s own mutex,
which is not registered, is "stateMutex"; the console's is registered and never locked.
`LeaveLoop` stands for the closing of the window, `Shutdown` for `c_shutdown`, after which
the other threads go on and may ask for a destroyed mutex (`LockDestroyed`).

## The runs

| run | bounds | shows |
|---|---|---|
| `event_queue` | 4 events, both sides | `MutualExclusion`, `NeverPopsEmpty`, refinement of `EventFifo` with its liveness (`HandsOver`) |
| `network_state` | 5 attempts (the code's), no assumption on the delay | `HostCreatedOnce`, `ConnectNeedsHost`, `ConnectedMeansComplete`, `ConnectedIsFinal`, `Settles` |
| `network_state_verdict` | as above, delay long enough | `VerdictFollows` fails |
| `session` | 2 clients, 2 slots, no loss, 1 script or image refused | `IDsInRange`, `IDInv`, `OwnID`, `RunsWithID`, `ScriptArrives`, `SplashArrives` |
| `session_retry` | 1 client, 1 loss, 3 requests under way, 2 damaged scripts, 1 refused, 1 copy adrift, the server may abort | `OneRequest`, `RequestKept`, `RequestRetired` |
| `session_reuse` | 2 clients, 1 slot, 1 loss, 1 copy adrift, the server may abort and has the script only | `ScriptArrives`, `IInv` and `IDInv` where slots are used again |
| `session_sender` | 2 clients, 2 slots | `RequestFromSender` fails |
| `session_stale` | 1 client, 2 requests under way | `RunsClientInit` fails |
| `enet_channel` | 6 windows of 2 numbers, packets 9 to 14, one of 3 fragments, 2 datagrams under way, each gone when 6 more commands have been sent | refinement of `ReliableChannel`, the counts of the windows, what is delivered |
| `enet_connection` | 1 client, 2 slots, 3 connections, 2 datagrams under way | `NamesInv`, `NoMixUp`, `EndsAgree` |
| `enet_connection_ends` | 2 clients, 1 slot, 2 connections, 2 datagrams under way | refinement of `Connection` (`KeepsOrder`), `HalfOpenEnds` |
| `client_threads` | 2 network events | `LocksSucceed`, `LeavesOnlyMisled`, `NoDeadlock`, `KeepsWorking` |

Every property of a passing run has a mutant: a faulty variant of a definition, written
beside it, with which the property is violated. The inductive invariants of the
models' modules, each `IInv`, `IDInv` and `NamesInv`, are checked by TLC as well as proved.

**Bounds.** Four events fill the queue deeper than one access can overlap with another:
two accesses touch the head and the tail, and from two elements on nothing new happens.
The session needs two clients, one for each end of a mistaken identity; a third adds
only more clients of the second kind. `InitDelay` is 200 frames in the code; 1 or 2
make an event go round the queue. `MaxInFlight` bounds only `Retry`, by what is under way
or waits for the client that sends and for the one its ID leads to (`Room`): a client whose ID
was lost with a copy adrift asks with ID 0 for ever, and client 0 gets a script
each time. With 1 a request is sent again when the last one has been answered or lost,
with 3 the answers pile up. It is 1 with two clients, where 2 gives more than five million
states. `MaxCuts` and `MaxCorrupt` bound what the network does, `MaxRefused` what the
clients refuse and `MaxAdrift` the copies that come adrift; each bounded thing stands
alone at any point of a behaviour, so that 1 shows what one of them does to the rest.
`session` with a copy adrift as well passes too, in close to five minutes. Deadlock is not
checked in `session_retry`, because the only client's process may end on a bad image, and
then all has stopped.

The ENet of the code has 16 windows of 4096 numbers, of which 8 may be in use; the
model has 6 of 2, of which 3 may be, so that the numbers wrap within 14 packets and the
receiver meets commands of every window there is. Two datagrams under way are enough for
one to overtake another and for a copy to be late by any time `Lifetime` allows.
`EnetOrder_proof` has the real sizes. For connections, three of one client bring the
session IDs once around with two slots to choose from, and two clients in one slot are
the two ends of a mistaken identity. Both at once, or a third datagram, take TLC longer
than five minutes, and the other half of a mix-up, below, needs more than either:
`EnetConnection_proof` has none of these bounds.

`client_threads` has two network events: the second is added while the first is handled.
The safety properties hold with three, and `ClientThreads_proof` needs no bound.

**Fairness.** Every thread's loop runs until the process ends, so each thread is weakly
fair. A client's `Receive` is strongly fair: of the endless frames in which it services
the host, a packet does not miss all. Connections need not be made, packets need not be
damaged, connections need not be lost. `Service` of the event queue and `ServiceHost`
are not fair: no event need ever come.

In `ClientThreads` main and each loop are weakly fair, and `LockMutex` strongly: a thread
that waits for a mutex others take again and again gets it, since each of them sleeps, or
draws a frame, between two sections. `LeaveLoop` and `StartFails` are not fair, and
nothing makes events arrive: `KeepsWorking` holds with a window that is never closed, and
with one that is closed, when main's return ends the threads that hang.

In `EnetChannel` both hosts are serviced for ever, and of a command sent again and again
some copy arrives unless the sender gives up. In `EnetConnection` nothing need arrive:
only sending for the first time, timing out without an answer and the loss of a late
datagram are fair. `SF` on sending is for the bound on the wire, which the code has not.

### What fails

* **`VerdictFollows`.** The monitor reads ATTEMPTING_CONNECT, sleeps a second and, the
  attempts used up, writes CONNECT_FAILED_ALERT. A connection reported meanwhile is
  overwritten: the client stays in CONNECT_FAILED although it is connected.
* **`RequestFromSender`.** The default client ID is a valid one. A request sent before
  `PACKET_NEW_CLIENT_ID` has been handled is taken for client 0's, and client 0 gets a
  script it has not asked for. `ScriptArrives` holds all the same: the request is sent
  again, with the ID the client has by then.
* **`RunsClientInit`.** Two answers to the one request, loaded before the first is run,
  leave `run` with a function ID of the module that is gone.

### What holds only under conditions

`OwnID` and `RunsWithID` hold until the server has sent through a copy whose connection is
gone (`wild`): such a packet may reach the new client in the slot, tell it
another's ID, or bring it a script before its ID. They hold with slots used again, copies
adrift and the end of the server, up to such a send: `session_reuse` checks it of `IDInv`,
from which they follow.

`RequestKept` holds unless a script has been refused. A client whose script does not
compile, or whose `run` fails, has no request, no run queued and no result, and stays so.

`RequestRetired`, `ScriptArrives` and `SplashArrives` hold as long as the connection does,
which it does not if the server's process ends, and unless the client's copy is adrift,
which costs the client whatever the server has for it. `ScriptArrives` and
`SplashArrives` also end where something has been written to freed channels, because a
client that has been told another's ID asks for the other, and where the script or the
image is refused; and the server must have the file. `Settles`
takes INIT_DONE for rest: it does not tell a client that main has not asked to connect
from one where the monitor has overwritten main's request.

`OneRequest` is of one client: with two, TLC finds that
the second asks with the default ID 0, in the first one's name; a damaged answer makes
the first queue a request again, beside the one it is about to make itself.

`NoMixUp` and `EndsAgree` hold as long as no datagram outlives two timeouts of one peer,
and no peer without an answer lasts while another times out twice: the session ID has
two bits and comes round. The timeouts of `enet.h` are 5 to 30 seconds. Without the
session ID the number of the slot and the address do not tell two connections of one
client apart; that is its mutant.

`NoMixUp` speaks of the slots, because of a client it does not hold. Three things pass
at a client that one might not expect. A VERIFY_CONNECT of the connection before that
reaches it in the middle of connecting ends the new attempt (the peer becomes a ZOMBIE
and is reported disconnected). One that reaches a connected client may be acknowledged.
And data of the connection before last may be taken for the present one's: a slot that
has the client's first connection still up goes on sending to it after the client has
timed out; the client's second connection is with another slot, and so is its third,
which may be given the session ID of the first, because a slot chooses the ID that
follows the client's last and its own and knows nothing of other slots'. TLC finds it
with two clients, three slots with different session IDs left from earlier connections, and
three datagrams under way. All that netDroid's server has left to send to such a client
is an answer sent again, or a ping.

The order of `ReliableChannel` holds as long as `ChannelAssumption` does. A packet has at
most two windows of fragments, 8192 of them or about 11 MB: of much longer ones TLC finds
a first fragment, sent again late, taken for new. And `Lifetime` is at most what is said
above: with a longer one TLC finds a late fragment of a packet that began nearly half of
the numbers back taken for one of the future. netDroid's scripts and images are far
smaller, and a datagram would have to stay in the network for tens of thousands of
commands.

## The proofs

`EventQueue_proof` proves, for any number of events and for both sides, that the
specification implies `[]IInv`, and from it mutual exclusion, `NeverPopsEmpty`, and that
every step is a step of `EventFifo` or a stutter. `MutualExclusion` needs to know that
the mutex says who is inside (`Owned`); `NeverPopsEmpty` needs more: between the
unlocked `empty()` and `front()` only the main loop can have touched the queue, and it
only adds (`SawEvent`), provided a half-done access has read the queue as it still is
(`FreshCopies`). The refinement needs that the queue holds consecutive numbers, from
the one after the last taken to the last added (`Consecutive`, `EventNumber`).

`NetworkState_proof` proves `[]IInv` for any `MaxAttempts`, with and without the
assumption on the delay, and from it `HostCreatedOnce`, `ConnectNeedsHost`,
`ConnectedMeansComplete` and, as an action property, `ConnectedIsFinal`. The argument
for the host: until it exists `networkStarted` is false and the monitor is not about to
say otherwise (`BeforeHost`); once it exists no write of PRE_INIT or DO_INIT is under
way, and `networkStarted` is about to be set before the state is read again
(`AfterHost`). The argument for CONNECTED: main asks for a connection once, the request
is used up before the state can ask again (`AskedOnce`), so there is one connection and
one CONNECT event (`OneConnection`), and when the monitor writes CONNECTED it has read
what that event caused, with no other write of its own pending (`AfterReport`).

`NetDroid_proof` proves `[]IInv` of the session for any number of clients and slots, any
losses, reuse of slots, resends and damaged scripts, and from it:

* `IDsInRange`, that the index `getPeerFromClientID` does not check is in range. Every ID
  under way, in a packet, a queue or a client, is 0 or has been given (`IDsKnown`), and a
  connection is reported and handled before any request of it (`ConfirmsFirst`,
  `ConnectFirst`), so that 0 has been given by then.
* `RequestKept`, whose condition is that no script of the client's has been refused. The
  obstacle is that the run of a script may be lost between queues: a run event is queued
  with delay 0, so it is never postponed, and `scriptOne`, with which no later script is run, is
  registered only by a script that has run or failed to (`RegisteredMeansRan`).
* `TypeOK`; what is not plain of it is that no delay is counted below zero, and that
  every packet and event that waits is one the program makes.

* `OneRequest`, of the only client (`AsksOnce`). Until it has asked, nothing in either
  direction is a request for the script or an answer to one (`Quiet`); afterwards the
  request is queued again only by a handler that has just taken it off.
* `OwnID` and `RunsWithID`, by `IDInv`, of all behaviours: it is the properties that stop
  at the first write into freed channels, after which there is no way back
  (`WildStays`). Until then a copy that is open is of a client that is still in its slot,
  unless that client's connection has gone (`SlotsTaken`, `Linked`), so an ID goes to the
  client it is made for (`IDsOwn`). And the server sends the ID as soon as it has the copy,
  before it handles a request, and ENet keeps the order; through a copy adrift it sends
  neither the ID nor anything after it. Whatever queue the script is in, the ID is known
  or ahead of it (`IDFirst`).

Three modules prove that `EnetChannel` implements the safety of `ReliableChannel`
(`ChannelKeepsOrder`), for any sizes and number of windows, the 16 of 4096 of the code
among them, any number of packets, and any losses, copies and delays up to `Lifetime`.
`EnetChannel_proof` has the arithmetic: a command up to six windows ahead of the last one
taken falls into a window that is taken (`AheadIsTaken`), one of the two after those into
one that is dropped in silence (`TooFarIsDropped`), one received before is not taken
again up to nine windows behind, and is acknowledged again up to seven (`BehindIsOld`; of
the two windows between, `peer.c:605-609` drops the acknowledgement), wherever in the 65536
numbers they are. And the sender's bookkeeping (`WindowsAreCounted`): the count of
each window is the number of its commands that have been sent and not acknowledged.
`EnetReceiver_proof` states the invariant, `Order`, and proves what the receiver makes of
one command; `EnetOrder_proof` proves that every step keeps it. The argument goes round
once: the receiver acknowledges what is less than seven windows ahead of it, and the
first command of a window is sent only when a command of the window before has been
acknowledged, so the sender stays less than eight windows ahead (`StaysInWindow`); nor is
it sent while one of seven or more windows back is unacknowledged (`UnackedNear`), so that what
is sent again is recent enough to be told from what is to come (`OnTheWire`, with
`Lifetime`); so the queue holds each packet under its own number (`Queued`), what is
acknowledged has been taken (`AckMeansReceived`), and numbers, windows and packets of
both ends agree (`Sender`, `Receiver`).

`EnetConnection_proof` proves the handshake for any number of clients, slots, connections
and datagrams: `TypeOK`, `NamesInv`, `NoMixUp`, `EndsAgree` and that every step is a step
of `Connection` or a stutter (`KeepsOrder`). A connection is named by its CONNECT and
VERIFY_CONNECT only; what goes on under two bits of session ID is right because of
`NamesInv`. Whoever names a slot and a session of it, a VERIFY_CONNECT, a connected
client, a datagram of one, is in one of three situations. The slot still serves that
session (`Serves`). Or it has left it once since, and has the ID as its own or serves the
next session, which has another ID (`LeftOnce`); then what could give it the old ID back,
a CONNECT of an older connection, is late already (`OlderWaited`). Or there is no such
CONNECT any more (`NoneOlder`), and those of younger connections say which ID to avoid
(`YoungerAvoid`). Time enters through `waited` alone: a slot that times out a second time
finds the datagrams of before the first gone, and the client that named it too.
`KeepsOrder` needs of it that a connection is confirmed once: a copy of an old CONNECT
may be answered by a slot again, but by then nothing of the client's is under way that
the slot would take for an acknowledgement (`ReportedOnce`).
`FormInv`, of what peers and datagrams look like one by one, is the other half of the
inductive invariant.

`ClientThreads_proof` proves `[]IInv` of the threads for any number of events. What has
been registered at each step of the start-up (`StartedInOrder`), that nothing is queued
before main has come to its loop (`QuietBefore`) and that the requests thread has found
its mutex (`FoundBefore`) give `LocksSucceed`; that who owns a mutex is inside the
section that locks it, or is the network thread handling an event (`OwnersInside`), gives
`NoDeadlock`, since what the network thread locks then is never its own mutex; that a
registered thread has its run flag set gives `LeavesOnlyMisled`.

The assumptions are those of the modules: bounds are naturals, `StartupDelayEnough` and
`FreeAborts` are Booleans, `Files` are requests that there are, `NoClient` is no client, the handshake has finitely many clients, and
`ChannelAssumption` is discussed above. Model-checked only: everything under
fairness, which TLAPS does not handle (the liveness of `HandsOver` and `KeepsPromise`,
`Settles`, `ScriptArrives`, `SplashArrives`, `RequestRetired`, `HalfOpenEnds`,
`KeepsWorking`). Every invariant and every action property of a passing run has a theorem.

## What is not modelled

* **Vendored code other than ENet**: AngelScript, imGui, glm, tinyxml2, pods,
  freetype-gl. It is 95 % of the lines of the repository and knows nothing of the
  program's threads, packets or queues. Where the program depends on it (a function ID
  of a discarded module) the outcome is modelled as it was observed.
* **Undefined behaviour that leaves no set of outcomes**: the races on
  `std::string lastError`, `consoleLines` and `clientTextures`, overlapping calls into
  ENet from two threads, what becomes of freed channels after they have been written to
  (`wild`), and what is done with the host and the mutexes after they have been destroyed. `registeredThreads` is modelled, because gcc's outcomes are two.
* **A null host.** If `initClient` fails, the frame loop dereferences a null pointer;
  `NetworkState` has the step (`ServiceWithoutHost`) and ends there.
* **The clock.** A delay or a timeout is nondeterminism, so the wrap of SDL's ticks
  after 49 days is not visible.
* **The console and its messages, language, file mapping, resources**: text for a screen
  and tables that are filled once and read.
* **Audio, window, fonts, OpenGL**: calls of one thread into libraries.
* **Restart.** Nothing is persisted. The server's process may end (`Abort`) and a client's
  too (`BadImagePacket`); the server is not started again here, and a client that is
  started again is another client.
* **In ENet**: unreliable and unsequenced packets, `enet_peer_disconnect`, throttling,
  bandwidth, compression and checksums, none of which netDroid uses, and the negotiation
  of MTU and windows.

## What is left

The script engine at the grain of its own operations (`addScript`, `compileModule`,
`cacheFunctions`, `run`), which would explain the stale IDs of `RunsClientInit` rather
than observe them; and a composition of `EnetChannel` with
`EnetConnection`, of more states than TLC visits in minutes, for which the two
refinements are proved already.
