# Verification of FAMOUSO

FAMOUSO is a publish/subscribe middleware for everything from 8 bit
microcontrollers to PCs. An application publishes events on *subjects* and is
notified of the events of the subjects it subscribed to; a *network layer* maps a
subject to a short network name (on CAN: the *etag*), sends events and receives
them, often in an interrupt handler.

This directory holds TLA+ models of FAMOUSO's core, the TLC runs that check them on
small instances, and theorems that hold for every instance, proved with TLAPS.
`PROJECT.json` is the index: components, runs, the source lines every definition
stands for, the hazards of the code, and the theorems.

    tlc -config dispatch_interrupt.cfg MCEventDispatcher.tla     # a run
    tlapm EventDispatcherProofs.tla                              # a proof

Paths below leave out the leading `src/`.

## 1. The system

| Component | State | Operations | Hard about it | Correct if |
|---|---|---|---|---|
| Event dispatcher `include/mw/el/EventDispatcher.h`, `include/object/{Chain,Queue}.h` | two intrusive singly linked queues with tail pointers, one for publishers, one for subscribers | announce, subscribe, unsubscribe, unannounce, publish, publish_local, fetch | nothing is locked: the receive interrupt walks a list the main program changes; callbacks call the dispatcher again and may destroy channels | the lists stay lists; each subscriber that stays gets each event once; no walk leaves through freed memory; walks end |
| Temporal firewall `include/mw/api/detail/TemporalFirewall.h` | two buffers, which one is written, two flags | write_lock, write_unlock, read_lock, read_unlock | writer and reader at the same time, without copying | a read is one event, the newest one |
| Task dispatcher and real-time channels `externals/timefw`, `include/mw/api/RealTime*EventChannel.h` | queue of tasks sorted by start, reservation state of publishers | enqueue, dequeue, run, yield_for_rt, reservation events | tasks enqueue tasks; time goes on; nested execution | no task is lost, early, starved or queued twice |
| CAN configuration protocol (ccp) `include/mw/nl/can/ccp` | broker: stage, identifier so far, table; node: stage, number | RSI (a nibble of an identifier), SSI (answer to all) | nodes do not name themselves; arbitration decides; nodes come and go | unique numbers; everybody gets one |
| CAN etag binding (etagBP) `include/mw/nl/can/etagBP` | broker: table of etags; node: the bind under way | GET_ETAG, SUPPLY_ETAG in two frames to all | answers for others; halves that are shared; a bind within a bind | one etag per subject in the whole network |
| Fragmentation (AFP) `include/mw/afp` | fragments received, event numbers of late events, events kept for later | fragment, defragment, keep | loss, duplication, reordering, a bounded memory of old events | complete events, each once |
| Network adapter `include/mw/nal/NetworkAdapter.h` | two layers and the one being served | bind, publish to both, dispatch of received events | processing within processing | an event is fetched from the layer it came from |
| Gateway `include/mw/gwl` | forwarding channels | subscribes in one network to what another one announced | channels created in callbacks | forwarded once, never back |
| Handler and client stubs `include/mw/el/EventLayer{MiddlewareStub,ClientStub}.h` | connections, pending writes, notification threads | announce, subscribe, publish over sockets | asynchronous writes, a slow client, threads joined under a lock | every client gets its events in order |
| AWDS network layer `include/mw/nl/awds`, `src/mw/nl/AWDSNL.cc`, `src/mw/nl/awds` | repository of nodes per subject with ages and flows, own subscriptions, a timer | announce subscriptions, register, find, publish, flow management | announcements are lost; nodes leave silently; answers of the flow manager come late | who subscribes is served, who has gone is forgotten |
| Event layer `include/mw/el/EventLayer.h` | none beyond the dispatcher | delegates to it | — | see the dispatcher |
| Management layer `include/mw/el/ml/ManagementLayer.h` | announced channels, requirements | announces channels to a network scheduler, forwards reservations | size and contents of an event in two walks | the scheduler knows the channels there are |
| Abstract network layer, guards `include/mw/anl` | right to send, expiry, buffers | publish, poll, deliver | a right that expires while it is looked at | non-real-time traffic only in its time |
| UDP, serial, 802.15.4, CAN layers `include/mw/nl`, `src/mw/nl` | receive buffers, sockets | init, deliver, fetch | one receive buffer | packets as received |
| Containers `include/object` | ring buffers, pools, lists of constant size | alloc, free, push, pop | boundaries, blocking | bounded, nothing handed out twice |
| Attributes, filters, configuration, policies | none (compile time) | | | |
| Drivers, bindings, tools, examples, tests, vendored code | | | | |

How they interact: channels call the event layer, which keeps them in the
dispatcher's queues and calls the network adapter to bind subjects and to publish.
The adapter calls the abstract network layer of each network, and this the network
layer itself. A received packet goes the other way: the network layer's interrupt (or
the `io_service` thread of a PC) calls `fetch`, the dispatcher finds a channel that
belongs to the packet, AFP assembles the event, and `publish_local` notifies every
subscriber of the subject. A real-time channel has a temporal firewall between
the application and a task of the task dispatcher. The CAN network layer starts with
the configuration protocol and binds each subject with the binding protocol. On a PC
the whole stack runs in a daemon, the event channel handler, and applications
reach it through the client stub.

## 2. Modules

| Module | Models |
|---|---|
| `EventDispatcher`, `MCEventDispatcher`, `EventDispatcherProofs` | the dispatcher, one action per load or store another context can see |
| `Notification` | what it promises: registries and nested publications that notify every subscriber once and in order, without pointers |
| `TemporalFirewall` | the double buffer with its writer and its reader |
| `TaskDispatcher`, `MCTaskDispatcher` | `run()`, `yield_for_rt()`, the queue, the tasks of real-time channels |
| `RealTimeProofs` | the proofs about both parts of a real-time channel; this is why the definitions of the firewall are called `FirewallInit`, `FirewallTypeOK`, ... |
| `CANConfiguration`, `MCCANConfiguration`, `CANConfigurationProofs` | broker, nodes and bus of the configuration protocol |
| `EtagDirectory` | what binding promises: one directory of subjects |
| `EtagBinding`, `MCEtagBinding`, `EtagBindingProofs` | broker, clients and bus of the binding protocol |
| `Fragmenter`, `Defragmenter` | the two halves of AFP as records with operators |
| `EventTransfer` | what AFP promises: an event arrives whole, after it was published, at most once |
| `AFPTransfer`, `MCAFPTransfer`, `AFPTransferProofs` | publishers, a faulty network, the demultiplexers and the processor of the receiver |
| `EventBus` | what nodes on several networks are promised: the networks behave as one |
| `Gateway`, `MCGateway`, `GatewayProofs` | nodes, network adapters, gateways and their forward channels |
| `EventFeed` | what a client process is promised: its events in order, each once, except where it lags behind |
| `EventLayerStubs`, `MCEventLayerStubs`, `EventLayerStubsProofs` | the clients with their threads, the daemon with its handlers and pending writes |
| `AWDSNL`, `MCAWDSNL`, `AWDSNLProofs` | subscribing nodes, the publishing node's repository and flows, its daemon |

The abstract specifications `Notification`, `EtagDirectory`, `EventTransfer`,
`EventBus` and `EventFeed` are instantiated by the detailed modules as
properties `Implements...`. The composition of dispatcher and gateway is the usage
`MayGateway` of `EventDispatcher`, which registers channels in callbacks, while `Gateway`
takes the dispatcher's list as a sequence.

### EventDispatcher

`link` is `Chain::link` of every channel and queue head, `tail` is `Queue::tail`,
`bound` the channels whose short name was assigned. `op[p]` is where context `p`
is within an append (`Bind`, `Terminate`, `Couple`, `Ending`, `Advertise`) or a removal
(`Search`, `Detach`, `Adjust`, `Free`): these are the stores of `Queue::append` and the
loads and stores of `Queue::remove`, in the code's order. `walks[p]` is the stack of
loops over the subscribers of that context: `Probe` is an iteration of
`fetch`, `Visit` one of `publish_local` up to the call of the callback, `Return` the
return of the callback, where the code reads the link of the channel only now. A
callback is arbitrary user code: whatever `May` allows the context may happen in it.
A context in `Interrupts` preempts the others between any two steps and runs to
completion. `order` is history: the channels from head to tail.

What is assumed is stated: `SingleMutator` (only one context changes the queues,
since nothing is locked), a channel is registered once in its life, and nobody destroys
a channel within its own callback (the guard of `Destroy`; `publish_local` reads the
link of that channel after the callback, EventDispatcher.h:229). The contents of
events, the network and the parts of an event that AFP has not completed are
choices.

`QueueIntact` is `Queue::intact()` and more: the links lead through exactly the
registered channels. `NoUseOfDestroyed` and the refinement
`ImplementsNotification` are what the users of the dispatcher rely on; `LoopEnds` is
its liveness.

### TemporalFirewall

A buffer has two fields, the expiration and the data, written and read one after the
other by `RealTimePublisherEventChannel::publish`/`deliver` and
`RealTimeSubscriberEventChannel`'s callback and task. The four operations are
the actions `WriteLock`, `WriteUnlock`, `ReadLock`, `ReadUnlock`; the ones under the
mutex (or with interrupts disabled) are one step each. `Platform` chooses the class.

### TaskDispatcher

Time is relative: `due[t]` is the start of a task minus now, so `Tick` lowers it and the
state space stays finite. `Inserted` is the place `insert_task` finds, `Restart` and
`EnqueueStart` are the two uses of `Time::futurify`, `YieldLoop` an iteration of
`yield_for_rt`, which executes real-time tasks within a background task. The
publisher's states follow the reservation events of the management layer. `usage`,
one of `Usages`, says who enqueues and who yields. The insertion of a task is one step:
dispatcher and channels run in one thread, or in contexts the model interleaves at the calls.
`QueueIntact` says that the queue is sorted and has no task twice; `dequeue()` is
translated as it is: it removes nothing, since `tasks.remove(&task)` converts the pointer to a
temporary `Chain` (Dispatcher.h:104), so a stopped delivery goes on.

### CANConfiguration

`RSI` and `SSI` are the two frames, with as many nibbles and stages as the constants say.
The bus is modelled as CAN arbitrates: the frame with the lowest identifier wins
(`Pending`), and identical frames of several nodes are one frame on the bus. `Lag` says how
many frames a node may be behind the bus; the broker answers in its receive interrupt.
`DropOut` switches a node off within the protocol, and it may come back.

### EtagBinding

A bind sends one frame and waits (`Begin`, `Send`, `Return`); the broker answers with the two
halves of the subject (`TransmitGet`, `Answer`), and every client that is waiting
looks at each frame (`TransmitSupply`, `Advance`: the counting of rounds in
`handle_subject_bind_request`). The broker's own node binds without the bus, in two steps
(`LocalFind`, `LocalWrite`). `Contexts`, `LocalPreempted` and `MaxLost` open what
the code does not exclude: a bind within a bind, a request within the broker's own bind,
frames a client does not get.

### AFPTransfer

`conf` is the compile-time configuration of AFP with the faults of the network it is used on.
`frag[p]` is the `Fragmenter` of the event publisher `p` is sending, `demux` the
demultiplexer's events and its queue of outdated keys, `handle` the event that is complete and not yet
processed, `kept` the defragmenters of `keep_event`. `ProcessFragment` is
`process_fragment` whole: cleaning, the demultiplexer that the configuration chooses
(`SeqHandle` for `EventSeqDemux`, `FirstHandle` for the other two), duplicate checker,
reconstructor (`PutInOrder`, `PutOutOfOrder`, `PutFEC`), and the error path. `EventProcessed`
frees the defragmenter, `Tick` is the clock event numbers expire with. Data are the parts of
an event with the place they were copied to, so that `Intact` can say whether every byte is
where it was.

Abstracted: the longest header has three bytes and headers grow after 2 and 4 fragments
instead of 32 and 4096 (`ShortFseqs`, `Growth`); an event number is remembered for `Keep` = 1
second instead of 3, and a fragment is under way for less than that; the clean-up of every tenth call may
happen in any call; allocation does not fail; the FEC library is external, any `k` of `n`
fragments decode. All publishers and the subscriber have one configuration. The four
assertions of the defragmentation code are `failed`.

What the translation shows besides: headers longer than the fragment counter are rejected
and the event never arrives (`LosslessDelivers` excepts them); only
fragments of events whose number is a multiple of 4 refresh the expiry; an event the fragmenter
rejects has taken a number.

### Gateway

`on` says which networks a node has, `channels[n]` is the dispatcher's list of subscribers,
`bnl[n]` is `NetworkAdapter::_bnl`. `calls[n][p]` are the events being processed by the
application (`main`) or the receive context (`rx`), innermost last, because a bind that
blocks lets the next packet in (`conf.blocks`). `Receive` is `fetch`, `Notify`,
`SubscribeFromNetwork` and `Forward` are the three kinds of callbacks, `FinishBind` the end of the
constructor of a `GatewayEventChannel`, `Return` is `event_processed`. A message about a subscription
is an event of the subject `SUBSCRIBE`. `due` is history: the nodes an event must reach because
every gateway on the way forwards its subject, and `written` which node wrote an event to which network.

Construction is one step and comes before everything: that the callback is bound after `subscribe()`
(Gateway.h:84-85), so that a `SUBSCRIBE` event in between would find none, is not in the model.

`WellFormed` says where the networks behave as one: no event has two ways to a network
(`LoopFree`, over `IsRoute`: the ways from its publisher that change networks at
gateways only), and where an application of a gateway can be interrupted or interrupts itself, it
publishes nothing that the gateway forwards (`Undisturbed`). `MCGateway` assumes it of the
configurations of the run.

### EventLayerStubs

Each channel `x` has a connection: `up[x]` to the daemon, `pipe[c]` back. Client side: `doing[t]`
is a thread within `subscribe` or `unsubscribe`, `mutex` the mutex of the client stub,
`notify_threads` its map, `worker[c]` the notification thread. Daemon side:
`subscribed`, `announced`, `out[c]` (the write given to asio, the queue of waiting ones, the two counters and
the deadline), `current`. All handlers of the daemon run in the one thread of its
`io_service` and are one step each; the threads of a client interleave at the mutex and the sockets.

Abstracted: 100000 bytes are `Limit` = 3, a preamble is one byte, a connection holds
`Room` events; connections lose nothing; a channel is subscribed once; `subscribe()`
returns before the daemon has handled it, as in the code. An event without data is written, but
its callback is not called. `ConfigsAssumption` says what programs are, `OwnCalls` that a channel, an
object of its client's process, is subscribed and unsubscribed there; `PublishedOnce`
says that an event is an identity: no two calls, and no other computer, publish the same one.

`left` and `early` are history: the channels `unsubscribe()` has returned for, and those of them whose
`subscribe()` was between starting the thread (EventLayerClientStub.h:185) and putting it into the map
(line 187). `NothingLeft` covers both ways out of `unsubscribe()`: the one that joins the thread, where it
says that joining leaves nothing and that nothing comes back later, and the one that does not find the
channel in the map, where it says that there is then no thread either. The second holds only if the
thread is in the map whenever it lives; the channels in `early` are excepted, since for them it does not
(section 3).

### AWDSNL

One publishing node with its repository (`subscriber[<<n, s>>]` with age and flow, `_snnmap`,
`attr`), all other nodes with their subscriptions and timers, and the daemon with
its flow manager (external, from how the code uses it). `Publish` is `deliver` of an event:
`find`, events to good subscribers, requests for flows, late ones unregistered.
`ReceiveSubscriptions`, `ReceiveAttributes` and `ReceiveAnswer` are the branches of the
receive handler, `Subscribe` and `Renew` announce. A `Tick` is one second,
in which each subject has one event and all handlers run; the daemon's handlers are
in one thread and so atomic.

The age of a subscription is the difference of two `std::clock()`s, in units of
`CLOCKS_PER_SEC`. `Elapsed` converts it as `elapsed()` does, `static_cast<int>(...) / CLOCKS_PER_SEC`: the cast
comes first, so with the 10^6 of POSIX and an int of 32 bits the age is negative from 2147 s of processor
time on, for as long again. `ToInt` wraps at `IntBound`; `ClockAfter` keeps of a difference that has left
int only its place among the values of int, which is all that `ToInt` sees of it, so that the model stays finite.
A configuration is `busy` if the process computes all the time, so that its clock runs like time, and
`steady` if the network attributes of the nodes do not change. With one event per second and subject a
late node is looked at in time; a publisher that pauses longer than the range of int has the
same effect as attributes that do not fit so long.
 
Attributes are a Boolean per node (the daemon
reports them before anything else of a node).

What the translation shows besides: a subscription for a subject that is not registered
is dropped until the next announcement; there is no unsubscription; subscriptions
received from AWDS nodes are never passed on as `SUBSCRIBE` events, so a gateway does not hear of them.

## 3. Runs

Every run's bounds are in its `.cfg`. Passing runs:

| Run | Question | Bounds, and why they are enough |
|---|---|---|
| `dispatch_interrupt` | Does the receive interrupt see sound lists while the main program registers, destroys and publishes, and is the dispatcher the one of `Notification`? | 3 subscribers of 2 subjects, 1 publisher, 2 nested publications. Three is the least number with a first, a middle and a last channel to remove; a second subject gives channels a walk passes over; nesting 2 is a publication in a callback. |
| `dispatch_gateway` | Do all loops end when channels are registered in callbacks of the receive context? | as above, without destruction |
| `firewall_interrupt` | Does a reader that is preempted by its writer read whole, newest events? | 5 events: several during one read and several before one |
| `tasks` | Is any task lost, starved, early, queued twice or out of order, when another context enqueues at any time, or when tasks yield to others that run nested in them? | two usages, `Concurrent` and `Yielding`; one publisher, two subscribers and a background task with periods 2 and 3, whose phases meet in every way; delay at most 3 |
| `ccp_three` | Are numbers unique, and is everybody configured where nobody drops out? | 3 nodes, stages 0 to 3 of 4 values; two nodes differ in the last nibble only, the third in all; 2 drop-outs. Two nodes that stay together to the last stage and one that is driven out early are the cases of arbitration. |
| `etag_bind` | Does binding implement the directory, does every bind return, do users of a subject meet? | 2 clients and the broker's node, 4 binds, 3 subjects that share halves, 2 etags: the table gets full |
| `afp` | Do events arrive whole, at most once, and do they arrive when enough fragments did? | seven configurations, each with the containers and the network it is made for: `Ideal` (lengths 1 to 17, all three header lengths), `MultiSubject`, `Lossy`, `Reordered`, `Unreliable` (with kept events), `Redundant` (2 fragments of 3 suffice), `FixedSize`. At most 2 events per publisher: one that is late while the next arrives; 1 repetition; a clock that passes the expiry |
| `gateway` | Do networks with gateways between them behave as one, and do subscriptions spread? | five configurations: `Two` networks, a `Blocking` bind with room for one channel, parallel `Threads`, subscribers `Spread` over both networks, three networks in a `Row` with two gateways and an event that is answered |
| `stubs` | Does each client process get its events in order, whatever others do, and does everything come to an end? | three programs: a callback that never returns (`Stuck`), a subscriber that leaves while events arrive (`Leaving`), callbacks that publish and unsubscribe (`Nested`). `Limit` 3 and `Room` 1 let one subscriber fall behind with three events |
| `awds` | Is a subscription kept exactly as long as it should be, are flows good, is a node that stays served again and again? | one node with a flow manager, one with two subjects in two packets, two nodes whose attributes stay; interval 2, age 3, `CLOCKS_PER_SEC` 2 and ints up to 10: ages up to 5 s are ints, older ones are reached where attributes do not fit, and overflow to negative ages and back; one fault (packet, flow or manager) and one node that leaves |

`CHECK_DEADLOCK FALSE` is set where the system may stop: all nodes configured, all binds
made, all events delivered, all programs at their end. In the other runs something can always happen.

`EnoughIsDelivered` and `LosslessDelivers` differ: the first says that nothing is
wrong with what arrived, for faulty networks too; the second that everything arrives eventually.
`LeasesHold` has three parts. `GoneForgotten`: no event goes to a node that has not subscribed for longer
than the maximum age, unless the age of its subscription has left int. `NoneOverflows`: it does not leave int
where the network attributes stay as they are and int holds the maximum age and two seconds more (the
events' distance and the rounding). `RenewedInTime`: a node that stays does not grow older than the
interval unless a packet is lost, if int holds that.

### Disagreements between code and documentation

Each has a run in which TLC finds the quoted statement violated:

- `firewall_two_threads`: with a writer thread and a reader thread, the reader can be
  handed the buffer that the writer is filling (TemporalFirewall.h:222).
- `tasks_lost`: `yield_for_rt` unlinks a task that is not due and forgets it
  (Dispatcher.h:204).

The same modules show more with other constants or properties; these are kept as
hazards, not as runs:

- `Platform = "avr"` in `TemporalFirewall` violates `SwapBringsNewer`: line 171 tests an
  enumerator instead of the flag.
- A usage with `stops |-> "again"` violates `QueueIntact` of `TaskDispatcher`: a delivery that is
  stopped and started again is queued twice. `NeverEarly` excepts usages in which another context
  enqueues: a task that arrives while `run()` sleeps on an empty queue is executed at
  the wake-up whatever its start. `DeliversOnlyWhenDelivering` is violated because a stopped
  delivery stays in the queue.
- `ConfiguredUnlessDropOut` without its exception: the broker never sends the empty answer the
  client's comment waits for, and a node that drops out blocks all others (ccp/Broker.h:90).
  With `Lag >= 1` a late nibble of an earlier round gives the broker an identifier nobody has;
  numbers stay unique.
- `Contexts = 2` in `EtagBinding` violates `ImplementsDirectory`: a bind within a bind on one
  node makes the first one return 0
  (PreventBlockingOfMiddlewareCoreInBlockingProtocol.cc:69, etagBP/Client.h:77-79). So do `MaxLost = 1` (with 5
  etags) and `LocalPreempted = TRUE`: a client combines halves of two answers, and the
  broker gives one place to two subjects.
- `Configs <- DynamicConfigs` in `MCAFPTransfer` violates `AssertionsHold`:
  `EseqSubjectDemuxKey::operator<` compares event numbers only, so the map of dynamic size
  takes events of two subjects for one (EventSeqDemux.h:101). So does `Configs <- FullConfigs`, one
  publisher with two events and a queue for one number: a full queue of young numbers overflows,
  because the call that is to "delete the oldest entry (at least)" (EventSeqDemux.h:262-263) deletes
  those that expired before the oldest.
- `AnswersOnGateway` and `PublishesInParallel` of `MCGateway` violate `ImplementsBus`: what an
  application on the gateway publishes while an event is processed is sent twice to one
  network. `LateGateway` violates `SubscriptionsSpread`: subscriptions older than the gateway
  are never forwarded. Subscribers of one subject on both networks share one forward
  channel, so those that came second get nothing of the other network (Gateway.h:103).
- `UnsubscribesItself` and `SubscribesMeanwhile` of `MCEventLayerStubs` violate `CallsReturn`: a
  callback that unsubscribes its own channel, or subscribes while the main thread unsubscribes
  it, waits for ever.
- `ReturnsWhenTerminated` of `EventLayerStubs` is violated in the configuration `Nested`: "Only return
  when notify thread terminated" (EventLayerClientStub.h:199), but an `unsubscribe()` that comes after
  `subscribe()` has started the thread and before it is in the map finds nothing (line 202) and returns
  at once; the thread calls the callback afterwards. TLC's trace has 10 states.
- `OfflineAfterMaxAge` of `AWDSNL` is violated: the maximum age is "The timespan in seconds when a node is
  marked as offline" (AWDSNL.h:162), but the cast in NodeRepository.h:122 makes the age negative
  after 2147 s. A node that has gone and was passed over by `find`, because its attributes did not
  match, is sent events again when they match after that. With a maximum age of 2147 s or more
  nobody is ever forgotten. The exceptions in `GoneForgotten` and `NoneOverflows` are these two.
- `busy |-> FALSE` in `MCAWDSNL` violates `LeasesHold`: ages are processor time
  (`std::clock()`), so an idle publisher forgets nobody. `FlowsAreFreed` is violated: the
  flow of a node whose announcement came after the last event is freed with id 0 and
  leaks (comment at AWDSNL.cc:195). A node whose channels subscribe every second is
  never sent an event while there is a flow manager, because each announcement forgets its flow; this
  is the exception of `ServedAgain`. The same happens to a subject whose events are rarer than
  announcements.

## 4. Fairness

- `EventDispatcher!FairSpec`: a context that is within the dispatcher is resumed when the
  interrupts are done (strong fairness of `Progress`: preemption disables it again
  and again), and a callback returns if it can again and again. It says nothing of
  what callbacks do, but they do not publish for ever.
- `TaskDispatcher!Spec`: the dispatcher's loop executes and the clock runs. Tasks return; they
  are late by `MaxLate` at most, the assumption of a schedulable system.
- `CANConfiguration!Spec`, `EtagBinding!Spec`: a CAN controller sends what it was given,
  a node that is on executes its loop. Nothing makes a node stay on, or bind again.
- `AFPTransfer!FairSpec`: weak fairness of `Work`, which is empty on a network that loses
  fragments. On the others the publishers' loops, the network and the receiver go on; nothing
  makes anybody publish, and nothing makes time pass.
- `Gateway!Spec`: weak fairness of `Work`: packets are delivered and processed, callbacks return.
  Applications need not do anything.
- `EventLayerStubs!Spec`: weak fairness of the clients' threads and of the daemon's handlers. The
  environment (events of the network, the deadline of a write) need not happen, and a callback in `stuck` never
  returns.
- `AWDSNL!Spec`: handlers run, each subject has an event per second, time passes. Nothing
  makes a node subscribe or stay, or the manager answer from a daemon that has none.
- `TemporalFirewall` claims no liveness.

Weak fairness of the disjunction `Work` (or `ClientStep`, `DaemonStep`) starves none of its
actions: unless the environment or the clock makes new work, what there is runs out.

## 5. Theorems

| Theorem | Says | Assumes |
|---|---|---|
| `EventDispatcherProofs!QueuesStayIntact` | `[]QueueIntact` for any number of channels, contexts, subjects and nested publications | one mutating context |
| `EventDispatcherProofs!TypeCorrect` | no pointer of a queue, an operation or a walk is ever of the wrong kind | the same |
| `EventDispatcherProofs!LoopsSurviveDestruction` | `[]NoUseOfDestroyed` for any channels, interrupts and nesting | one mutating context; every context but the one that destroys channels is an interrupt |
| `EventDispatcherProofs!DispatcherImplementsNotification` | every step of the list is one of `Notification` or changes nothing of it | the same |
| `RealTimeProofs!FirewallTypeCorrect` | types, on every platform and with every writer | — |
| `RealTimeProofs!ReadsAreWhole`, `ReadsAreLatest`, `SwapsBringNewer` | the three promises of the firewall, for any number of events | POSIX class, a preempting or a paced writer |
| `RealTimeProofs!QueueStaysIntact` | `[]QueueIntact` for any tasks, periods, starts and usages | the network scheduler does not start a stopped delivery again |
| `RealTimeProofs!NoTaskIsLost` | `[]NoTaskLost`: while nobody yields a periodic task stays with the dispatcher | the same |
| `RealTimeProofs!TypeCorrect` | `[]TypeOK`: no task is due later than its period, its first start and the lead allow, or earlier than the delays of the clock | the same; finitely many tasks; the context that enqueues beside the loop is not in a usage whose tasks yield |
| `RealTimeProofs!NoneStartsEarly` | `NeverEarly`, in `run()` and nested in `yield_for_rt()` | the same; the property excepts other contexts that enqueue |
| `CANConfigurationProofs!UniqueNumbers`, `TypeCorrect` | unique numbers for any nodes, identifiers, stages, lag and drop-outs | identifiers are unique and not 0 |
| `EtagBindingProofs!BindingImplementsDirectory` | the binding protocol refines the directory, for any clients, subjects and number of etags | one bind at a time per client, no loss, no preempted broker |
| `EtagBindingProofs!EtagsAgree` | nodes hold the same etag exactly for the same subject | the same |
| `EtagBindingProofs!TypeCorrect` | types, with loss, overlap and preemption too | — |
| `GatewayProofs!GatewaysImplementBus` | any nodes, networks and gateways refine `EventBus`: an event arrives after it was published, at subscribers of its subject, and once | `WellFormed` |
| `GatewayProofs!OneProxyPerSubject` | `[]OneProxy`: one forward channel per subject and network, also while binding lets packets in | — |
| `EventLayerStubsProofs!StubsImplementFeed` | clients, daemon and connections refine `EventFeed`: events in the order of publication, each once, none missing but those published during a lag | each event is published once |
| `EventLayerStubsProofs!UnsubscribeLeavesNothing` | `[]NothingLeft`: when `unsubscribe()` has returned, on any way, no callback of the channel runs and nothing of it is left, unless `subscribe()` had yet to put the thread into the map; for any clients, channels, programs and limits | each channel is subscribed and unsubscribed in its own client (`ConfigsAssumption`) |
| `EventLayerStubsProofs!WritesAreCounted` | `[]WritesCounted`: the count of pending bytes is that of the queue, whatever fails | — |
| `EventLayerStubsProofs!WritesAreQueued` | one write per connection is with asio, the others wait and are counted | — |
| `EventLayerStubsProofs!TypeCorrect` | types of clients, threads, connections and queues | — |
| `AWDSNLProofs!SubscriptionsAreKept` | `[]LeasesHold` for any nodes, subjects, packet sizes, intervals, ages, clocks, widths of int and faults; what it excepts, ages that have left int, is part of the property | the process's clock runs like time (`busy` in all configurations) |
| `AFPTransferProofs!CountsAgree` | `[]BothCountAlike`: the place the receiver computes from a fragment's number is the sum of what the sender has sent, for any lengths of events, payloads and headers | events have data and fit headers of three bytes (`TransferAssumption`) |
| `AFPTransferProofs!FragmentsArePartsOfEvents` | what is on the network is the part of an event that its number stands for, with redundancy or without; only the last part with data is short | the same |
| `AFPTransferProofs!AssertionsNeverFail` | `[]AssertionsHold`: no assertion of the defragmentation code fails, for any publishers, events, lengths and faults | the same; all configurations are `Suited` |
| `AFPTransferProofs!AFPImplementsTransfer` | AFP refines `EventTransfer`: whole events, each at most once and none that was not published, for any publishers, events, lengths, redundancy and faults | the same; all configurations are `Suited` and `Separated` |
| `AFPTransferProofs!EnoughArrivesWhole` | `[]EnoughIsDelivered`: an event of which enough fragments arrived is handed on, for any publishers, events, lengths, redundancy and faults | the same; all configurations are `Suited`, `Separated` and `Adequate` |
| `AWDSNLProofs!EventsGoOverGoodFlows` | `FlowsAreGood`: an event goes over a flow that the manager holds or whose loss it has told already, for any faults and any order of requests, answers and announcements | — |

The arguments:

- *QueuesStayIntact.* `QueueIntact` is not inductive: within an append the tail is behind,
  and within a removal the `wrap` pointer must still be the predecessor of
  the channel. `ListInv` adds what an operation in progress knows (`OpKnows`), that
  registered channels are alive and that free channels have a link that is of use to
  nobody. As only one context mutates, nobody invalidates what an operation knows.
- *LoopsSurviveDestruction.* A loop stands on a channel that is registered: links of registered
  channels lead to registered ones. A channel leaves the queue only when its context moves,
  and then no interrupt handler is in a loop; the loops of that context itself are all in callbacks
  (`Stands`), and a channel in its callback is not destroyed.
- *DispatcherImplementsNotification.* What a loop knows (`Knows`): it stands at a place of the queue
  before which all channels of its subject were notified and behind which none was; at
  its end it owes nothing. A registration adds a place behind all loops; a removal
  moves places, but not the one a loop stands on. `ActsOf` maps loops to publications;
  `fetch()` stands for none until it has found the channel.
- *Firewall.* The reader's buffer holds one whole event and is not the writer's. It is the newest
  one unless a swap is pending; while a writer works no swap can come in between,
  because the reader cannot move (preemption) or no swap is pending (pacing).
- *QueueStaysIntact, NoTaskIsLost, NoneStartsEarly.* One invariant: the queue is ordered pairwise,
  the tasks on the stack are distinct and not in the queue, a delivery that was not started is
  nowhere, and tasks execute only between unlink and wait. `InsertKeepsOrder` says what an insertion
  does to a queue in order; a nested execution takes its task from the queue, so it is not on the
  stack. For the start times: while nobody else enqueues `run()` never wakes
  up before the start of the first task.
- *TypeCorrect of the tasks.* `TypeOK` bounds times, and times change in computed steps.
  `BoundInv` says for each place a task may be at how far its start can lie away: a task in the queue,
  one that executes (`HeadInv`, `RunInv`), the one `run()` sleeps for (`WakeInv`), and one that is
  outside the dispatcher (`OutInv`); `LateInv` says how late the loop can be, since the clock stops
  at `MaxLate`. `futurify` moves a start by whole periods to the next one, which is where
  the period comes in.
- *UniqueNumbers.* The key is `AnswersTrue`: an answer with a number in it says what the
  table says, now and later, since the entry of an identifier is not changed once it is
  there (`KnownOnce`, `SearchFindsPlace`). A node compares the whole identifier, so two nodes
  with one number would have one identifier. Lag and drop-outs do not matter.
- *BindingImplementsDirectory.* `TopDown` says that free etags lie below all used ones; so the
  highest usable place is a subject's own if it has one, and a subject gets one etag.
  `Entry(s, e)` is a true reply; no step makes one untrue. `Pairs`
  keeps the two frames of an answer together, and `Waiting` says that a
  client in round 1 has the second half of its own answer at the head of the queue: the part
  that fails when a frame is lost. `EtagsAgree` then follows from the directory alone.
- *UnsubscribeLeavesNothing.* A thread that joins holds its client's mutex, and no other thread of that
  client joins (`mutex` and `doing` agree); a notification thread that has ended stays so, because its
  channel was shut down and is subscribed once. For the way out without a thread in the map `RunningKnown`
  says that a running thread is in its client's map or about to be put there by the `subscribe()`
  that started it, and `PutsOwn` and `MapsOwn` that both are in the process that owns the channel, so that
  the map that was searched is the one the thread would be in.
- *WritesAreCounted.* What asio is about to transfer is the head of the pending events
  (`WriteHandlerTakes`), so that a completion takes off what its write was counted with. That sums of
  bytes over sequences behave (`SizeOfConcat`, `SizeOfTail`) is an induction over data; it is
  done over sets of numbers (`Induction`, from well-foundedness), for the reason given below.
- *StubsImplementFeed.* The feed of a subscriber is its connection, the write with asio and the queue,
  one behind the other. An event that is written moves from the head of the second to the end of the first
  and changes nothing (`WriteStutters`); one that is published is appended unless the count of bytes
  has reached `Limit` (`PublishLocalPublishes`, which needs `WritesAreCounted`). `Sending` says that an event
  is in one place before its publication and in none afterwards, so none is published twice;
  and that a channel the daemon destroys was closed by its client before.
- *OneProxyPerSubject.* A forward channel in the list, or one being bound, is in `gecs`, where
  `Forward` looks before it creates one; no two are being bound for one subject at a time.
- *GatewaysImplementBus.* `EventInv` follows one event. Each network gets it from one node: from its
  publisher or from the gateway at the end of the one route there is (`Gate`, from `LoopFree`). A
  packet, a call in progress or a forward channel that has the event is one of that route and
  occurs once; what a gateway is about to forward it has not sent before (`Unsent`), and nodes behind that
  network know nothing of it. A node is notified by the one call that gets the event past
  its channel, so not twice. `RxStack` and `MainStack` say which calls interrupt which.
- *WritesAreQueued.* By the two uses of the queue: `cb` gives a write to asio only if none is pending,
  `write_handler` gives it the next one; a failed write does the same.
- *SubscriptionsAreKept.* As long as it is an int, a subscriber's age is at least the time since the node
  stopped subscribing (`AgeBounds`), which needs that a packet under way is fresh: time passes only
  when there is none. What the code makes of an age that is an int lies between whole seconds
  (`ElapsedBounds`), so an age beyond the maximum is found late, and where attributes stay it is
  found in the first event after, before it leaves int (`InTime`, `ServedNow`). For the third part age and
  timer together never exceed the interval, unless a packet with the subject is under way or the
  node's handler is due. That an announcement has *all* subscriptions is a lemma of its own
  (`AllInPackets`), from the definition of `SetToSeq` and the division into packets.
- *EventsGoOverGoodFlows.* A subject has one event per second, so a node is in one request at a
  time (`OncePublished`, `AskedOnce`) and no grant is under way for a flow that is about to be
  freed (`FreedUnused`); what the manager no longer holds it has denied after it granted it, and
  the layer takes the answers in that order (`LossTold`).

- *CountsAgree, FragmentsArePartsOfEvents.* Length of the header, payload and the number at which the
  header shrinks next are functions of the number of the last fragment (`Placed`); `HeaderShortens`
  says that the fragmenter, which compares with one number, changes its header where the defragmenter,
  which looks the length up, expects it, and `PayloadOfOneMore` that one fragment more adds the payload behind
  its header. `Cut` is what `init` computes: the payload of all fragments exceeds the event by less than
  one fragment, so no other than the last can be short. With redundancy (`CutFEC`) all payloads are
  equal, and what is behind the last fragment with data is full again.
- *AssertionsNeverFail.* `ReceiverInv` says that a defragmenter is complete only while `handle` names
  it, so what gets a fragment still waits for one; its room is that of every
  fragment, since either all events of a configuration have redundancy or none (`HasFEC`), and
  with the theorem before the length is the expected one (`FragmentAsExpected`). The queue holds
  keys of outdated events, each once (`QueueOK`); those that expired are a part at its
  front (`ExpiredInFront`), so cleaning removes neither an event that is being put together nor a key
  that is still queued; and as the key that is about to be queued is not in it, a queue with room for all keys is not
  full (`QueueHasRoom`, by counting). `Suited` asks for three things, and without each of them TLC
  finds the property violated: `keep_event`, which queues the key, is a feature of `EventSeqDemux`; the
  map of dynamic size compares numbers only, so events come from one publisher
  (`DynamicConfigs`); the queue of fixed size has room for all numbers and publishers there are
  (`FullConfigs`). The first is so in the code; the other two are limits of the code, which
  compiles in any configuration. The run `afp` assumes `Suited` of its configurations
  (`AllSuited`).
- *AFPImplementsTransfer.* Three invariants on top of those. `TransportInv` follows the fragments:
  each is sent once, from the first to the last; a network without a fault of some kind brings all of
  them (`NoneLost`), once (`HeardOnce`), in their order (`HeardInOrder`); none is under way
  longer than `Keep` (`InTime`). `Holds` says what a defragmenter has: parts of one event, each at the place that
  its number stands for, with the counters that go with them. In order these are the first
  ones; out of order the sum of their lengths is kept as a function (`AddsUp`), as there is no
  induction over data. `PutHolds` is the step, `CompleteIsWhole` the end: what `is_complete`
  accepts has every byte of the event (`Covered`, by the least number). `DataInv` ties the two
  to the demultiplexer: a defragmenter in it holds parts of an event that was not handed on
  (`EntryInv`), one that was handed on has all its fragments gone or its number still
  remembered, which outlives them (`Remembered`, `InTime`), and without event numbers
  fragments come in order, so the one before it was complete and the next first fragment begins a new one
  (`Ordered`). The theorem asks for `Separated`, which is three things, and without each of them TLC
  finds the property violated (publishers and networks of `Ideal`, `Lossy` and `Reordered` with the
  field changed): a network that loses, repeats or reorders needs event numbers; several publishers need
  subjects; a network that repeats needs the duplicate check, but for the reconstructor in
  order, which accepts the next fragment only. They are choices of the user
  of `afp::Config`, not of the code, and the run `afp` assumes them too (`AllSuited`).
- *EnoughArrivesWhole.* `DataInv` bounds what a defragmenter holds from above: nothing but fragments that
  arrived. `WholeInv` is the other half. Every event of which something arrived is handed on
  (`Done`), or `Collected`, that is its defragmenter holds exactly the numbers that arrived and is not
  given up before the last fragment is due, or `Short`: nothing of it is on its way and what arrived is
  too little, or without redundancy a number it needs has neither arrived nor is coming. And only
  events that are done or short are outdated. `Short` is what makes this inductive, as it is stable
  (`ShortStays`) and true wherever the code gives up a fragment or an event: a header it cannot
  number, a gap seen by the reconstructor in order, a fragment without its first one, a
  cleaned entry. What is collected and enough is complete (`EnoughIsComplete`), so it is in
  `handle` or handed on. `Adequate` is four things, and without each of them TLC finds
  `EnoughIsDelivered` violated: a network that reorders needs reordering or redundancy; one that repeats
  needs the duplicate check; without event numbers a demultiplexer of fixed size needs a place for
  every source, and redundancy a header that takes all fragment numbers, since a rejected first
  fragment loses the event. All four are choices of the user of `afp::Config`, which the code does not
  check against each other. `WholeInv` was an invariant of a TLC run with all seven
  configurations before it was proved.

TLAPS does no liveness under fairness, so `LoopEnds`, `EveryTaskRuns`,
`ConfiguredUnlessDropOut`, `BindsReturn`, `LosslessDelivers`, `SubscriptionsSpread`,
`ServedGetEvents`, `EverythingArrives`, `CallsReturn`, `ConnectionsEnd` and `ServedAgain` are
model-checked only. Every invariant that a run checks is stated by a theorem. The library's induction
theorems take an operator as parameter, which the provers cannot instantiate: where a proof needs induction over data (the bytes of a
queue) or the least element of a set (`Min`, `Max`), it is done with sets of numbers and
`WFMin`, as local lemmas.

Every listed property has a mutant of the code it is about, with which TLC finds the property
violated; the mutants stand before the definitions they replace and are marked so.

## 6. Plan

Done: dispatcher, firewall, task dispatcher, the two CAN protocols, AFP, network
adapter and gateway, stubs, AWDS. What is left, in this order:

1. *The poll slave* (`NRT_PollSlave.h`) against a master that would have to be specified first: the
   repository has none.
2. *The management layer*: the list of channels it reports in two walks.
3. *Containers* against reference definitions: allocators and ring buffer at their limits.

Runs are merged where one question has several instances (`tasks`, `afp`, `gateway`, `stubs`,
`awds` choose a configuration in their initial states).

## 7. Not modelled

- Management layer: it exchanges records with a network scheduler that is not in the
  repository. Its effect on publishers, the reservation events, is an input of `TaskDispatcher`.
- Abstract network layer and guards: they wait for a clock and a right that a master grants,
  which is not in the repository either. That a task yields while it waits is in `TaskDispatcher`.
- Network layers for UDP, serial lines and 802.15.4: framing and system calls. Of `CANNL` the two
  protocols are modelled, not its one receive buffer (hazard at CANNL.h:190).
- Containers: the bounded queue of AFP is part of `AFPTransfer`, chain and queue are modelled
  store by store in `EventDispatcher`; the others are library code without control of
  its own.
- Clock synchronisation: floating point. One discrete clock is assumed.
- Attributes, filters, configuration, delegates: compile time. The set operations on attributes
  appear as the Boolean `attr` of `AWDSNL`.
- Chains of more than two networks in one adapter: the code reads no events from them
  (the todo at NetworkAdapter.h:191).
- A daemon that ends while clients are connected, and a client that finds none: the
  client's calls throw or abort.
- Data races within one store. Every pointer store is atomic, as on the supported platforms
  with pointers of one word; on AVR a 16 bit pointer is stored in two instructions, and an
  interrupt in between is not modelled.
- Drivers, language bindings, examples, tools and vendored libraries, which are most of the
  repository's lines: the models cover the middleware in `include/mw`, `include/object`, `src/mw`
  and `externals/timefw`, about which there is something to check.
