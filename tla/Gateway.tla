------------------------------- MODULE Gateway -------------------------------
(***************************************************************************)
(* Nodes on several networks and the gateways between them.  A gateway has *)
(* a NetworkAdapter with two networks; its class Gateway subscribes to the *)
(* subject "SUBSCRIBE", learns from it who subscribes to what on which     *)
(* network, and creates a GatewayEventChannel that forwards the events of  *)
(* that subject to that network.  One variable of the adapter, _bnl, tells *)
(* which network the event being processed came from.                      *)
(*                                                                         *)
(* A node has two flows of control: the application (main) and the receive *)
(* context (rx), an interrupt handler or the one thread of the io_service, *)
(* which both run callbacks.  conf, which never changes, says where the    *)
(* nodes are (on), which are gateways, what the applications do            *)
(* (subscribes, publishes, reacts), how many forward channels fit          *)
(* (storage), whether the two flows run in parallel (threads), whether     *)
(* binding a subject lets the next packet in (blocks), and whether nodes   *)
(* subscribe before the gateways run (late).                               *)
(***************************************************************************)
EXTENDS Integers, Sequences, SequencesExt, FiniteSets

CONSTANTS Nodes, Gateways, Networks, Subjects, Events,
          SubjectOf,   \* the subject of each event
          SUBSCRIBE,   \* the subject of the messages about subscriptions
          Configs, None

ASSUME GatewayAssumption ==
    /\ Gateways \subseteq Nodes
    /\ SUBSCRIBE \notin Subjects /\ None \notin Networks
    /\ SubjectOf \in [Events -> Subjects]
    /\ \A c \in Configs :
          /\ \A n \in Nodes : c.on[n] \subseteq Networks
          /\ c.gateways \subseteq Gateways
          /\ c.subscribes \subseteq Nodes \X Subjects
          /\ c.publishes \subseteq Nodes \X Events
          /\ c.reacts \subseteq Nodes \X Events \X Events

VARIABLES conf,
          channels,    \* per node: the subscribers in the order of the dispatcher's list
          gecs,        \* per gateway: its forward channels, also those being bound
          bnl,         \* per node: NetworkAdapter::_bnl, None for 0
          calls,       \* per node and flow: the events being processed, innermost last
          inbox,       \* per node and network: the packets on their way to it
          published,   \* the events published so far
          got,         \* how often each node was notified of each event
          written,     \* history: pairs of a network and an event written to it
          due          \* pairs of a node and an event that must reach it

vars == <<conf, channels, gecs, bnl, calls, inbox, published, got, written, due>>

Flows == {"main", "rx"}
Deliveries == Nodes \X Events

Has(n, s)     == \E i \in DOMAIN channels[n] : channels[n][i] = [kind |-> "app", subject |-> s]
subscribed    == {d \in Nodes \X Subjects : Has(d[1], d[2])}
Running(g)    == [kind |-> "gateway", subject |-> SUBSCRIBE] \in ToSet(channels[g])
AllRunning    == \A g \in conf.gateways : Running(g)
Message(e)    == [subject |-> SubjectOf[e], about |-> e]
SubscribeTo(s) == [subject |-> SUBSCRIBE, about |-> s]

\* AbstractNetworkLayer::write on some networks of a node: all other nodes there
\* get the packet.
Write(n, nets, m) ==
    inbox' = [k \in Nodes |-> [w \in Networks |->
                IF k # n /\ w \in nets \cap conf.on[k] THEN Append(inbox[k][w], m)
                                                       ELSE inbox[k][w]]]

----------------------------------------------------------------------------
\* The flows of control of a node.

Busy(n, p) == calls[n][p] # <<>>
Call(n, p) == Last(calls[n][p])
CanRun(n, p) == p = "rx" \/ conf.threads \/ ~Busy(n, "rx")
AppRuns(n) == CanRun(n, "main") /\ ~Busy(n, "main")

Enter(n, p, net, m) ==
    [calls EXCEPT ![n][p] = Append(@, [net |-> net, msg |-> m, next |-> 1, binds |-> None])]
Leave(n, p) == [calls EXCEPT ![n][p] = Front(@)]

\* The subscriber whose callback is next: publish_local goes through the list.
Remaining(n, p) == {i \in DOMAIN channels[n] :
    i >= Call(n, p).next /\ channels[n][i].subject = Call(n, p).msg.subject}
AtCallback(n, p, kind) ==
    /\ Busy(n, p) /\ CanRun(n, p)
    /\ Call(n, p).binds = None
    /\ Remaining(n, p) # {}
    /\ channels[n][Min(Remaining(n, p))].kind = kind
Channel(n, p) == channels[n][Min(Remaining(n, p))]
Passed(n, p) ==
    [calls EXCEPT ![n][p][Len(calls[n][p])].next = Min(Remaining(n, p)) + 1]

----------------------------------------------------------------------------
\* The way between two networks.

\* The gateways that carry s from network v a step nearer to network w, where
\* its subscriber is, and whether events published on the networks of a node
\* get to another one.
Carries(g, s, to) == \E i \in DOMAIN channels[g] :
    channels[g][i] = [kind |-> "forward", subject |-> s, to |-> to]
ReachedFrom(nets, s) ==
    LET step(reached) == reached \cup
            {w \in Networks : \E g \in conf.gateways :
                Carries(g, s, w) /\ conf.on[g] \cap (reached \ {w}) # {}}
    IN  step(step(step(nets)))
IsServed(n, s, nets) == conf.on[n] \cap ReachedFrom(nets, s) # {}

Init ==
    /\ conf \in Configs
    /\ channels = [n \in Nodes |-> <<>>]
    /\ gecs = [g \in Gateways |-> {}]
    /\ bnl = [n \in Nodes |-> None]
    /\ calls = [n \in Nodes |-> [p \in Flows |-> <<>>]]
    /\ inbox = [n \in Nodes |-> [w \in Networks |-> <<>>]]
    /\ published = {}
    /\ got = [d \in Deliveries |-> 0]
    /\ written = {}
    /\ due = {}

\* Mutant: a forward channel is only appended to the list.
ListenQuiet(n, c) ==
    /\ channels' = [channels EXCEPT ![n] = Append(@, c)]
    /\ IF c.kind = "forward" THEN UNCHANGED inbox ELSE Write(n, conf.on[n], SubscribeTo(c.subject))

\* EventDispatcher::subscribe: the list, and a message on all networks.
Listen(n, c) ==
    /\ channels' = [channels EXCEPT ![n] = Append(@, c)]
    /\ Write(n, conf.on[n], SubscribeTo(c.subject))

\* The constructor of Gateway.
StartGateway(g) ==
    /\ AppRuns(g) /\ ~Running(g)
    /\ Listen(g, [kind |-> "gateway", subject |-> SUBSCRIBE])
    /\ UNCHANGED <<conf, gecs, bnl, calls, published, got, written, due>>

\* An application subscribes.
Subscribe(n, s) ==
    /\ AppRuns(n)
    /\ <<n, s>> \in conf.subscribes /\ ~Has(n, s)
    /\ conf.late \/ AllRunning
    /\ Listen(n, [kind |-> "app", subject |-> s])
    /\ UNCHANGED <<conf, gecs, bnl, calls, published, got, written, due>>

\* EventDispatcher::publish: NetworkAdapter::write, then publish_local.
Publishes(n, p, e, entered) ==
    /\ e \notin published
    /\ published' = published \cup {e}
    /\ due' = due \cup {<<k, e>> : k \in {k \in Nodes :
            Has(k, SubjectOf[e]) /\ (k = n \/ IsServed(k, SubjectOf[e], conf.on[n]))}}
    /\ Write(n, conf.on[n], Message(e))
    /\ written' = written \cup (conf.on[n] \X {e})
    /\ calls' = [entered EXCEPT ![n][p] =
            Append(@, [net |-> None, msg |-> Message(e), next |-> 1, binds |-> None])]

Publish(n, e) ==
    /\ AppRuns(n)
    /\ <<n, e>> \in conf.publishes
    /\ Publishes(n, "main", e, calls)
    /\ UNCHANGED <<conf, channels, gecs, bnl, got>>

\* EventLayer::fetch, with event_process_request at first; it is over at once if
\* nobody subscribes to the subject.  One packet after the other, unless the
\* callback in progress waits for a bind.
Wanted(n, m) == \E i \in DOMAIN channels[n] : channels[n][i].subject = m.subject

Receive(n, w) ==
    /\ inbox[n][w] # <<>>
    /\ Busy(n, "rx") => conf.blocks /\ Call(n, "rx").binds # None
    /\ \/ /\ Wanted(n, Head(inbox[n][w]))
          /\ bnl' = [bnl EXCEPT ![n] = w]
          /\ calls' = Enter(n, "rx", w, Head(inbox[n][w]))
       \/ /\ ~Wanted(n, Head(inbox[n][w]))
          /\ bnl' = [bnl EXCEPT ![n] = None]
          /\ UNCHANGED calls
    /\ inbox' = [inbox EXCEPT ![n][w] = Tail(@)]
    /\ UNCHANGED <<conf, channels, gecs, published, got, written, due>>

\* The callback of an application, which may publish another event.
Notify(n, p) ==
    /\ AtCallback(n, p, "app")
    /\ LET e == Call(n, p).msg.about
           r == {f \in Events : <<n, e, f>> \in conf.reacts}
       IN  /\ got' = [got EXCEPT ![<<n, e>>] = @ + 1]
           /\ \/ /\ r = {}
                 /\ calls' = Passed(n, p)
                 /\ UNCHANGED <<inbox, published, written, due>>
              \/ \E f \in r : Publishes(n, p, f, Passed(n, p))
    /\ UNCHANGED <<conf, channels, gecs, bnl>>

\* Gateway::subscribe_from_network: a new forward channel, unless the message is
\* of another gateway, there is one of the subject, or no more fit.
\* (Mutant: the channels that are bound already.)
KnownBound(g, s) == \E i \in DOMAIN channels[g] :
    channels[g][i].kind = "forward" /\ channels[g][i].subject = s
Known(g, s) == \E f \in gecs[g] : f.subject = s

Ignores(g, s) == \/ bnl[g] = None
                 \/ s = SUBSCRIBE
                 \/ Known(g, s)
                 \/ Cardinality(gecs[g]) >= conf.storage

SubscribeFromNetwork(g, p) ==
    /\ AtCallback(g, p, "gateway")
    /\ LET s == Call(g, p).msg.about
       IN  \/ /\ Ignores(g, s)
              /\ calls' = Passed(g, p)
              /\ UNCHANGED gecs
           \/ /\ ~Ignores(g, s)
              /\ gecs' = [gecs EXCEPT ![g] = @ \cup {[subject |-> s, to |-> bnl[g]]}]
              /\ calls' = [Passed(g, p) EXCEPT ![g][p][Len(calls[g][p])].binds =
                               [kind |-> "forward", subject |-> s, to |-> bnl[g]]]
    /\ UNCHANGED <<conf, channels, bnl, inbox, published, got, written, due>>

\* The constructor of GatewayEventChannel, when bind returns.
FinishBind(g, p) ==
    /\ Busy(g, p) /\ CanRun(g, p)
    /\ Call(g, p).binds # None
    /\ Listen(g, Call(g, p).binds)
    /\ calls' = [calls EXCEPT ![g][p][Len(calls[g][p])].binds = None]
    /\ UNCHANGED <<conf, gecs, bnl, published, got, written, due>>

\* Mutant: an event of this node counts as one of another network.
EventFromThatNetwork(g, w) == bnl[g] = w

\* Is there nothing to forward: the event is of this network or of this node.
EventFromNetworkWithId(g, w) == bnl[g] \in {None, w}

\* Mutant: the event is sent to the network it came from.
ForwardBack(g, p) ==
    /\ AtCallback(g, p, "forward")
    /\ IF EventFromNetworkWithId(g, Channel(g, p).to)
       THEN UNCHANGED <<inbox, written>>
       ELSE /\ Write(g, {bnl[g]}, Call(g, p).msg)
            /\ written' = written \cup ({bnl[g]} \X {Call(g, p).msg.about})
    /\ calls' = Passed(g, p)
    /\ UNCHANGED <<conf, channels, gecs, bnl, published, got, due>>

\* GatewayEventChannel::forward.
Forward(g, p) ==
    /\ AtCallback(g, p, "forward")
    /\ IF EventFromNetworkWithId(g, Channel(g, p).to)
       THEN UNCHANGED <<inbox, written>>
       ELSE /\ Write(g, {Channel(g, p).to}, Call(g, p).msg)
            /\ written' = written \cup ({Channel(g, p).to} \X {Call(g, p).msg.about})
    /\ calls' = Passed(g, p)
    /\ UNCHANGED <<conf, channels, gecs, bnl, published, got, due>>

\* The end of the list, and of fetch: event_processed.
Return(n, p) ==
    /\ Busy(n, p) /\ CanRun(n, p)
    /\ Call(n, p).binds = None
    /\ Remaining(n, p) = {}
    /\ bnl' = IF Call(n, p).net = None THEN bnl ELSE [bnl EXCEPT ![n] = None]
    /\ calls' = Leave(n, p)
    /\ UNCHANGED <<conf, channels, gecs, inbox, published, got, written, due>>

Continue(n, p) == \/ Notify(n, p)
                  \/ SubscribeFromNetwork(n, p)
                  \/ FinishBind(n, p)
                  \/ Forward(n, p)
                  \/ Return(n, p)

Application == \/ \E g \in conf.gateways : StartGateway(g)
               \/ \E d \in conf.subscribes : Subscribe(d[1], d[2])
               \/ \E d \in conf.publishes : Publish(d[1], d[2])

Work == \/ \E n \in Nodes, w \in Networks : Receive(n, w)
        \/ \E n \in Nodes, p \in Flows : Continue(n, p)

Next == Application \/ Work

\* The networks deliver what was written, and the nodes go on.
Spec == Init /\ [][Next]_vars /\ WF_vars(Work)
----------------------------------------------------------------------------
\* "Only one proxy per subject on a network": a gateway has one channel for a
\* subject, although other subscriptions are handled while its subject is bound.
OneProxy ==
    \A g \in Gateways : \A i, j \in DOMAIN channels[g] :
        channels[g][i].subject = channels[g][j].subject
        /\ channels[g][i].kind = "forward" /\ channels[g][j].kind = "forward" => i = j

\* No event comes to a network on two ways: each network gets the events of a
\* publisher from one node, and no node gets them from two networks.
Publishers(c, e) ==
    {n \in Nodes : <<n, e>> \in c.publishes \/ \E f \in Events : <<n, f, e>> \in c.reacts}
IsRoute(c, e, from) ==
    /\ \A n \in Publishers(c, e) : \A w \in c.on[n] : from[w] = n
    /\ \A n \in Nodes : \A v, w \in c.on[n] : from[v] = n \/ from[w] = n \/ v = w
LoopFree(c) == \A e \in Events : \E from \in [Networks -> Nodes] : IsRoute(c, e, from)

\* No application of a gateway publishes while an event is forwarded.
Undisturbed(c) ==
    \A g \in c.gateways, e \in Events :
        /\ c.threads => <<g, e>> \notin c.publishes
        /\ \A f \in Events : <<g, f, e>> \notin c.reacts

\* "Otherwise the event would arise twice at the subscribers": with gateways
\* between them the networks behave as one.
Bus == INSTANCE EventBus
ImplementsBus == Bus!Spec

\* The gateways learn of a subscription, also those that are not on the network
\* of the subscriber, unless another network had the subject first or the storage
\* is used up: again and again all have learnt of all subscriptions.
SubscriptionsSpread ==
    []<> \A n \in Nodes, s \in Subjects :
        Has(n, s) =>
            \/ \A w \in UNION {conf.on[k] : k \in Nodes} : IsServed(n, s, {w})
            \/ \E k \in Nodes : Has(k, s) /\ conf.on[k] # conf.on[n]
            \/ \E g \in Gateways : Cardinality(gecs[g]) = conf.storage

\* An event reaches a subscriber, over all gateways between them, if these knew
\* of the subscription when it was published.
ServedGetEvents == []<> \A d \in due : got[d] > 0
=============================================================================
