--------------------------- MODULE EventLayerStubs ---------------------------
(***************************************************************************)
(* The event channel handler, a daemon, and its clients, which are other   *)
(* processes on the same computer.  Each channel of a client has a TCP     *)
(* connection to the daemon.  The class EventLayerClientStub runs a thread *)
(* per subscriber channel; EventLayerMiddlewareStub handles all            *)
(* connections and the network in the one thread of the io_service, with   *)
(* asynchronous reads and writes, so that each of its handlers is a step.  *)
(*                                                                         *)
(* conf, which never changes, has the calls of the clients: calls[t] are   *)
(* those of thread t, the main thread of a client or the thread of a       *)
(* channel, in its first callback.  The callbacks of the channels in stuck *)
(* do not return.  The events in network come from other computers.        *)
(***************************************************************************)
EXTENDS Integers, Sequences

CONSTANTS Clients, Subscribers, Publishers, Events, Subjects,
          ClientOf,    \* the client of each thread
          SubjectOf,   \* the subject of each channel and of each event
          Length,      \* the length of each event
          Limit,       \* pending bytes from which on events may be dropped
          Room,        \* the events that fit into a connection
          Configs, None

Channels == Subscribers \cup Publishers
Threads  == Clients \cup Subscribers

ASSUME StubsAssumption ==
    /\ Subscribers \cap (Publishers \cup Clients) = {}
    /\ None \notin Threads \cup Events \cup ({"put", "join"} \X Subscribers)
    /\ ClientOf \in [Threads -> Clients]
    /\ SubjectOf \in [Channels \cup Events -> Subjects]
    /\ Length \in [Events -> Nat]
    /\ Limit \in Nat \ {0} /\ Room \in Nat \ {0}
    /\ Events \cap {"request", "close"} = {}

\* A call and its argument.
Call == ({"announce", "unannounce"} \X Publishers) \cup ({"publish"} \X (Publishers \X Events))
        \cup ({"subscribe", "unsubscribe"} \X Subscribers)

\* A channel is an object of its client's process, and so subscribed there.
OwnCalls(t) == {call \in Call : call[1] \in {"subscribe", "unsubscribe"} =>
                                    ClientOf[call[2]] = ClientOf[t]}

ASSUME ConfigsAssumption ==
    \A k \in Configs :
        /\ k.calls \in [Threads -> Seq(Call)] /\ k.network \subseteq Events
        /\ \A t \in Threads : k.calls[t] \in Seq(OwnCalls(t))

\* Each event is published once, by a call or by another computer.
Publishes(call, e) == \E p \in Publishers : call = <<"publish", <<p, e>>>>
PublishedOnce(k) ==
    \A e \in Events, t \in Threads : \A i \in DOMAIN k.calls[t] : Publishes(k.calls[t][i], e) =>
        /\ e \notin k.network
        /\ \A u \in Threads : \A j \in DOMAIN k.calls[u] :
               Publishes(k.calls[u][j], e) => u = t /\ j = i

VARIABLES conf,
          todo,         \* per thread: the calls it will make
          doing,        \* per thread: the subscriber and the call it waits in, or None
          mutex,        \* per client: the thread that holds notify_threads_mutex
          notify_threads, \* per client: the subscribers in the map
          worker,       \* per subscriber: the state of its notification thread
          shut,         \* the subscribers that were shut down for receiving
          closed,       \* the channels that were closed
          left,         \* history: the subscribers that unsubscribe has returned for
          early,        \* those of them that subscribe had not put into the map yet
          up,           \* per channel: what is on its way to the daemon
          pipe,         \* per subscriber: the events on their way from the daemon
          subscribed,   \* the daemon's subscribers
          announced,    \* the daemon's publisher channels
          out,          \* per subscriber: the daemon's asynchronous writes
          current,      \* current_event_data(), None for a null pointer
          published,    \* the events published so far
          got           \* per subscriber: the events it was notified of

client == <<todo, doing, mutex, notify_threads, worker, shut, closed, left, early>>
daemon == <<subscribed, announced, out, current>>
vars == <<conf, client, up, pipe, daemon, published, got>>

Size(e) == Length[e] + 1
SizeOf(s) == LET sum[i \in 0 .. Len(s)] == IF i = 0 THEN 0 ELSE sum[i - 1] + Size(s[i])
             IN  sum[Len(s)]

----------------------------------------------------------------------------
\* The writes to one subscriber: posted are those asio works on, queue those that
\* wait, late tells that the deadline has passed.

NoWrites == [posted |-> <<>>, queue |-> <<>>, writes |-> 0, bytes |-> 0, late |-> FALSE]

\* Mutant: every write is given to asio at once.
PostedAtOnce(o, e) ==
    [posted |-> Append(o.posted, e), queue |-> o.queue,
     writes |-> o.writes + 1, bytes |-> o.bytes + Size(e), late |-> o.late]

\* async_write, or the queue if there is another write.
Posted(o, e) ==
    [posted |-> IF o.writes = 0 THEN Append(o.posted, e) ELSE o.posted,
     queue  |-> IF o.writes = 0 THEN o.queue ELSE Append(o.queue, e),
     writes |-> o.writes + 1, bytes |-> o.bytes + Size(e), late |-> o.late]

\* cb: the deadline is set anew if nothing is pending, and the event is dropped
\* when too much is pending after the deadline.
Timed(o) == [posted |-> o.posted, queue |-> o.queue, writes |-> o.writes,
             bytes |-> o.bytes, late |-> o.late /\ o.writes # 0]
Late(o)  == [posted |-> o.posted, queue |-> o.queue, writes |-> o.writes,
             bytes |-> o.bytes, late |-> TRUE]
\* (Mutant: after the deadline nothing is pending any more.)
MayWriteInTime(o) == o.bytes < Limit /\ ~o.late
MayWrite(o) == o.bytes < Limit \/ ~o.late
Cb(o, e) == IF MayWrite(Timed(o)) THEN Posted(Timed(o), e) ELSE Timed(o)

\* Mutant: a failed write is the last one.
WriteHandlerGivesUp(o, transferred) ==
    LET last == o.queue = <<>> \/ transferred = 0
    IN  [posted |-> IF last THEN Tail(o.posted) ELSE Append(Tail(o.posted), Head(o.queue)),
         queue  |-> IF last THEN o.queue ELSE Tail(o.queue),
         writes |-> o.writes - 1, bytes |-> o.bytes - transferred, late |-> o.late]

\* write_handler, also if the write failed and less was transferred.
WriteHandler(o, transferred) ==
    LET last == o.queue = <<>>
    IN  [posted |-> IF last THEN Tail(o.posted) ELSE Append(Tail(o.posted), Head(o.queue)),
         queue  |-> IF last THEN o.queue ELSE Tail(o.queue),
         writes |-> o.writes - 1, bytes |-> o.bytes - transferred, late |-> o.late]

----------------------------------------------------------------------------

Init ==
    /\ conf \in Configs
    /\ todo = conf.calls
    /\ doing = [t \in Threads |-> None]
    /\ mutex = [k \in Clients |-> None]
    /\ notify_threads = [k \in Clients |-> {}]
    /\ worker = [c \in Subscribers |-> "none"]
    /\ shut = {} /\ closed = {} /\ left = {} /\ early = {}
    /\ up = [x \in Channels |-> <<>>]
    /\ pipe = [c \in Subscribers |-> <<>>]
    /\ subscribed = {} /\ announced = {}
    /\ out = [c \in Subscribers |-> NoWrites]
    /\ current = None
    /\ published = {}
    /\ got = [c \in Subscribers |-> <<>>]

\* The calls of the clients.  A thread that is not the main one is in a callback.

Calls(t, op, arg) ==
    /\ doing[t] = None
    /\ t \in Subscribers => worker[t] = "calling"
    /\ todo[t] # <<>> /\ Head(todo[t]) = <<op, arg>>
    /\ todo' = [todo EXCEPT ![t] = Tail(@)]

\* EventLayerClientStub::announce, publish, unannounce: connect, send, close.
Send(x, m) == up' = [up EXCEPT ![x] = Append(@, m)]

Announce(t, p) ==
    /\ Calls(t, "announce", p)
    /\ Send(p, "request")
    /\ UNCHANGED <<conf, doing, mutex, notify_threads, worker, shut, closed, left, early, pipe,
                   daemon, published, got>>

Publish(t, p, e) ==
    /\ Calls(t, "publish", <<p, e>>)
    /\ Send(p, e)
    /\ UNCHANGED <<conf, doing, mutex, notify_threads, worker, shut, closed, left, early, pipe,
                   daemon, published, got>>

Unannounce(t, p) ==
    /\ Calls(t, "unannounce", p)
    /\ Send(p, "close")
    /\ closed' = closed \cup {p}
    /\ UNCHANGED <<conf, doing, mutex, notify_threads, worker, shut, left, early, pipe, daemon,
                   published, got>>

\* subscribe: connect, send, start the thread; then put it into the map.  (A
\* channel is subscribed once.)
Subscribe(t, c) ==
    /\ Calls(t, "subscribe", c)
    /\ worker[c] = "none"
    /\ Send(c, "request")
    /\ worker' = [worker EXCEPT ![c] = "reading"]
    /\ doing' = [doing EXCEPT ![t] = <<"put", c>>]
    /\ left' = left \ {c} /\ early' = early \ {c}
    /\ UNCHANGED <<conf, mutex, notify_threads, shut, closed, pipe, daemon, published, got>>

Put(t, c) ==
    /\ doing[t] = <<"put", c>>
    /\ mutex[ClientOf[t]] = None
    /\ notify_threads' = [notify_threads EXCEPT ![ClientOf[t]] = @ \cup {c}]
    /\ doing' = [doing EXCEPT ![t] = None]
    /\ UNCHANGED <<conf, todo, mutex, worker, shut, closed, left, early, up, pipe, daemon,
                   published, got>>

\* Mutant: the socket stays open for receiving.
ShutDownNot(c) == UNCHANGED shut

\* shutdown_receive
ShutDown(c) == shut' = shut \cup {c}

\* unsubscribe: lock the mutex, find the thread, shut the socket down; the mutex
\* stays locked while the thread is joined.  Without a thread in the map it returns at
\* once, also if subscribe has started the thread and not put it there yet.
Unsubscribe(t, c) ==
    /\ Calls(t, "unsubscribe", c)
    /\ mutex[ClientOf[t]] = None
    /\ \/ /\ c \in notify_threads[ClientOf[t]]
          /\ mutex' = [mutex EXCEPT ![ClientOf[t]] = t]
          /\ ShutDown(c)
          /\ doing' = [doing EXCEPT ![t] = <<"join", c>>]
          /\ UNCHANGED <<left, early>>
       \/ /\ c \notin notify_threads[ClientOf[t]]
          /\ left' = left \cup {c}
          /\ early' = IF \E u \in Threads : doing[u] = <<"put", c>> THEN early \cup {c}
                                                                  ELSE early \ {c}
          /\ UNCHANGED <<mutex, shut, doing>>
    /\ UNCHANGED <<conf, notify_threads, worker, closed, up, pipe, daemon, published, got>>

\* (Mutant: the thread is not joined.)
JoinNot(t, c) ==
    /\ doing[t] = <<"join", c>>
    /\ Send(c, "close")
    /\ closed' = closed \cup {c}
    /\ left' = left \cup {c} /\ early' = early \ {c}
    /\ pipe' = [pipe EXCEPT ![c] = <<>>]
    /\ notify_threads' = [notify_threads EXCEPT ![ClientOf[t]] = @ \ {c}]
    /\ mutex' = [mutex EXCEPT ![ClientOf[t]] = None]
    /\ doing' = [doing EXCEPT ![t] = None]
    /\ UNCHANGED <<conf, todo, worker, shut, daemon, published, got>>

Join(t, c) ==
    /\ doing[t] = <<"join", c>>
    /\ worker[c] = "ended"
    /\ Send(c, "close")
    /\ closed' = closed \cup {c}
    /\ left' = left \cup {c} /\ early' = early \ {c}
    /\ pipe' = [pipe EXCEPT ![c] = <<>>]
    /\ notify_threads' = [notify_threads EXCEPT ![ClientOf[t]] = @ \ {c}]
    /\ mutex' = [mutex EXCEPT ![ClientOf[t]] = None]
    /\ doing' = [doing EXCEPT ![t] = None]
    /\ UNCHANGED <<conf, todo, worker, shut, daemon, published, got>>

\* The notification thread: NotifyWorkerThread::action reads preamble and data,
\* and calls the callback unless the read of the data returns 0.
Read(c) ==
    /\ worker[c] = "reading" /\ pipe[c] # <<>>
    /\ pipe' = [pipe EXCEPT ![c] = Tail(@)]
    /\ \/ /\ Length[Head(pipe[c])] > 0
          /\ worker' = [worker EXCEPT ![c] = "calling"]
          /\ got' = [got EXCEPT ![c] = Append(@, Head(pipe[c]))]
       \/ /\ Length[Head(pipe[c])] = 0
          /\ UNCHANGED <<worker, got>>
    /\ UNCHANGED <<conf, todo, doing, mutex, notify_threads, shut, closed, left, early, up, daemon,
                   published>>

Return(c) ==
    /\ worker[c] = "calling" /\ doing[c] = None /\ todo[c] = <<>>
    /\ c \notin conf.stuck
    /\ worker' = [worker EXCEPT ![c] = "reading"]
    /\ UNCHANGED <<conf, todo, doing, mutex, notify_threads, shut, closed, left, early, up,
                   pipe, daemon, published, got>>

\* What came before the shutdown is still read; then the read throws.
EndOfStream(c) ==
    /\ worker[c] = "reading" /\ c \in shut /\ pipe[c] = <<>>
    /\ worker' = [worker EXCEPT ![c] = "ended"]
    /\ UNCHANGED <<conf, todo, doing, mutex, notify_threads, shut, closed, left, early, up,
                   pipe, daemon, published, got>>

----------------------------------------------------------------------------
\* The daemon.

Receives(x, m) == up[x] # <<>> /\ Head(up[x]) = m /\ up' = [up EXCEPT ![x] = Tail(@)]

\* Mutant: the case of a subscription falls through.
HandleRequestOfBoth(x) ==
    /\ Receives(x, "request")
    /\ announced' = announced \cup {x}
    /\ \/ x \in Subscribers /\ subscribed' = subscribed \cup {x}
       \/ x \in Publishers /\ UNCHANGED subscribed
    /\ UNCHANGED <<conf, client, pipe, out, current, published, got>>

\* handle_accept, start, handle_request: a channel of its own for the client's one.
HandleRequest(x) ==
    /\ Receives(x, "request")
    /\ \/ x \in Subscribers /\ subscribed' = subscribed \cup {x} /\ UNCHANGED announced
       \/ x \in Publishers /\ announced' = announced \cup {x} /\ UNCHANGED subscribed
    /\ UNCHANGED <<conf, client, pipe, out, current, published, got>>

\* Mutant: the event waits for the writes to all subscribers.
PublishLocalWaits(e, buffer) ==
    /\ \A c \in Subscribers : out[c].writes = 0
    /\ out' = [c \in Subscribers |->
                 IF c \in subscribed /\ SubjectOf[c] = SubjectOf[e]
                 THEN Cb(out[c], IF buffer = None THEN e ELSE buffer)
                 ELSE out[c]]
    /\ published' = published \cup {e}

\* publish_local: cb of all subscribers of the subject.  They write the buffer of
\* current_event_data() if there is one, and a copy of the event otherwise.
PublishLocal(e, buffer) ==
    /\ out' = [c \in Subscribers |->
                 IF c \in subscribed /\ SubjectOf[c] = SubjectOf[e]
                 THEN Cb(out[c], IF buffer = None THEN e ELSE buffer)
                 ELSE out[c]]
    /\ published' = published \cup {e}

\* get_event_head, get_event_data.
GetEventData(p, e) ==
    /\ p \in announced
    /\ Receives(p, e)
    /\ PublishLocal(e, e)
    /\ current' = None
    /\ UNCHANGED <<conf, client, pipe, subscribed, announced, got>>

\* An event of the network: EventLayer::fetch.
Fetch(e) ==
    /\ e \in conf.network \ published
    /\ PublishLocal(e, current)
    /\ UNCHANGED <<conf, client, up, pipe, subscribed, announced, current, got>>

\* The read of the next event fails, or that of the unsubscription: the channel is
\* destroyed.
HandleClose(x) ==
    /\ Receives(x, "close")
    /\ subscribed' = subscribed \ {x}
    /\ announced' = announced \ {x}
    /\ UNCHANGED <<conf, client, pipe, out, current, published, got>>

\* A write is over: the event is in the connection, or the client closed that.
WriteDone(c) ==
    /\ out[c].posted # <<>>
    /\ \/ /\ c \notin closed /\ Len(pipe[c]) < Room
          /\ pipe' = [pipe EXCEPT ![c] = Append(@, Head(out[c].posted))]
          /\ out' = [out EXCEPT ![c] = WriteHandler(@, Size(Head(@.posted)))]
       \/ /\ c \in closed
          /\ out' = [out EXCEPT ![c] = WriteHandler(@, 0)]
          /\ UNCHANGED pipe
    /\ UNCHANGED <<conf, client, up, subscribed, announced, current, published, got>>

\* A second has passed since the deadline was set.
DeadlinePasses(c) ==
    /\ out[c].writes > 0 /\ ~out[c].late
    /\ out' = [out EXCEPT ![c] = Late(@)]
    /\ UNCHANGED <<conf, client, up, pipe, subscribed, announced, current, published, got>>

----------------------------------------------------------------------------

ClientStep ==
    \/ \E t \in Threads, p \in Publishers :
          Announce(t, p) \/ Unannounce(t, p) \/ \E e \in Events : Publish(t, p, e)
    \/ \E t \in Threads, c \in Subscribers :
          Subscribe(t, c) \/ Put(t, c) \/ Unsubscribe(t, c) \/ Join(t, c)
    \/ \E c \in Subscribers : Read(c) \/ Return(c) \/ EndOfStream(c)

DaemonStep ==
    \/ \E x \in Channels : HandleRequest(x) \/ HandleClose(x)
    \/ \E p \in Publishers, e \in Events : GetEventData(p, e)
    \/ \E c \in Subscribers : WriteDone(c)

Environment == (\E e \in Events : Fetch(e)) \/ \E c \in Subscribers : DeadlinePasses(c)

Next == ClientStep \/ DaemonStep \/ Environment

\* Threads run, and so do the handlers of what is ready.
Spec == Init /\ [][Next]_vars /\ WF_vars(ClientStep) /\ WF_vars(DaemonStep)
----------------------------------------------------------------------------
Messages == {"request", "close"} \cup Events

\* The type invariant.
TypeOK ==
    /\ conf \in Configs
    /\ doing \in [Threads -> {None} \cup ({"put", "join"} \X Subscribers)]
    /\ mutex \in [Clients -> Threads \cup {None}]
    /\ notify_threads \in [Clients -> SUBSET Subscribers]
    /\ worker \in [Subscribers -> {"none", "reading", "calling", "ended"}]
    /\ shut \subseteq Subscribers /\ closed \subseteq Channels
    /\ left \subseteq Subscribers /\ early \subseteq Subscribers
    /\ up \in [Channels -> Seq(Messages)]
    /\ pipe \in [Subscribers -> Seq(Events)]
    /\ subscribed \subseteq Subscribers /\ announced \subseteq Publishers
    /\ current \in Events \cup {None}
    /\ published \subseteq Events
    /\ got \in [Subscribers -> Seq(Events)]

\* At most one write per connection is given to asio, which would interleave them
\* ("asio does not support queueing of async_write() calls"), none waits while asio
\* has nothing to do, and they are counted.
WritesQueued ==
    \A c \in Subscribers :
        /\ Len(out[c].posted) <= 1
        /\ out[c].queue # <<>> => out[c].posted # <<>>
        /\ out[c].writes = Len(out[c].posted) + Len(out[c].queue)

\* ... and so are their bytes, while the client has not closed the connection.
WritesCounted ==
    /\ WritesQueued
    /\ \A c \in Subscribers \ closed : out[c].bytes = SizeOf(out[c].posted \o out[c].queue)

\* "Only return when notify thread terminated": when unsubscribe has returned, on any
\* of its ways, no thread of the channel is left that a callback could come from, nor
\* an entry in the map, unless its subscribe had yet to put the thread there.
NothingLeft ==
    \A c \in left \ early :
        worker[c] \in {"none", "ended"} /\ \A k \in Clients : c \notin notify_threads[k]

\* The same as the comment says it, whenever unsubscribe is called.
ReturnsWhenTerminated == \A c \in left : worker[c] \in {"none", "ended"}

\* The feeds of EventFeed: in the connection, being written, and waiting.
Feed == INSTANCE EventFeed WITH
    open <- subscribed \ closed,
    feed <- [c \in Subscribers |->
                IF c \in closed THEN <<>> ELSE pipe[c] \o out[c].posted \o out[c].queue]
ImplementsFeed == Feed!Spec

\* "Needed to avoid flow dependencies": what was published gets to all subscribers
\* whose callbacks return, whatever the others do and also if the publisher has
\* unannounced its channel meanwhile.
EverythingArrives ==
    []<> /\ \A p \in Publishers : up[p] = <<>>
         /\ \A c \in Subscribers \ (conf.stuck \cup closed) :
                pipe[c] = <<>> /\ out[c].writes = 0

\* Subscribing and unsubscribing returns, while events arrive and other threads
\* subscribe and unsubscribe, if the callback of the channel returns.
CallsReturn == []<> \A t \in Threads : doing[t] = None

\* The daemon keeps nothing of a subscriber that has gone, also when its writes
\* failed.
ConnectionsEnd ==
    []<> \A c \in closed \cap Subscribers : c \notin subscribed /\ out[c].writes = 0
=============================================================================
