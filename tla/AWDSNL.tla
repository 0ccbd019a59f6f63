------------------------------- MODULE AWDSNL -------------------------------
(***************************************************************************)
(* The network layer for AWDS, a meshed wireless network.  Events go by    *)
(* unicast to the nodes that have subscribed, which the publishing node    *)
(* keeps in its NodeRepository.  A node tells all others its subscriptions *)
(* when one is added and again and again, since announcements get lost,    *)
(* nodes leave, and a subscription is only kept from the first event of    *)
(* its subject on.  Where the AWDS daemon has a flow manager, a node is    *)
(* sent events only while there is a flow to it, which is requested with   *)
(* the first event.                                                        *)
(*                                                                         *)
(* The module has one publishing node, all nodes that subscribe, and the   *)
(* daemon of the publishing node.  A second is the unit of time: packets,  *)
(* answers and handlers take less, and each subject has an event in it.    *)
(***************************************************************************)
EXTENDS Integers, Sequences, FiniteSets, SequencesExt

CONSTANTS Nodes, Subjects,
          interval,    \* the seconds between two announcements
          maxAge,      \* the seconds a subscription is kept without one
          PerPacket,   \* the subscriptions that fit into a packet
          CLOCKS_PER_SEC,
          IntBound,    \* int has the values -IntBound .. IntBound - 1
          Configs,     \* which nodes subscribe to what, and how time passes
          MaxFaults,   \* bound on lost packets, lost flows and changes of the manager
          MaxLeaves    \* bound on the processes that end

Pairs == Nodes \X Subjects
None  == [age |-> -1, flow |-> 0]

\* A configuration: the subjects of each node; whether the flow manager is there at
\* the beginning; whether the process always computes, as its clock counts its
\* processor time; whether the network attributes of the nodes stay as they are.
Config == [wants : [Nodes -> SUBSET Subjects], manager : BOOLEAN, busy : BOOLEAN,
           steady : BOOLEAN]

ASSUME AWDSAssumption ==
    /\ IsFiniteSet(Nodes) /\ IsFiniteSet(Subjects)
    /\ interval \in Nat \ {0} /\ maxAge \in Nat /\ PerPacket \in Nat \ {0}
    /\ CLOCKS_PER_SEC \in Nat \ {0} /\ IntBound \in Nat \ {0}
    /\ MaxFaults \in Nat /\ MaxLeaves \in Nat
    /\ Configs \subseteq Config

VARIABLES conf,
          \* every subscribing node
          alive, subscriptions,
          timer,       \* the seconds until the wait of timer_ is over, 0 if there is none
          expired,     \* the nodes whose wait is over and whose handler has not run
          net,         \* the packets on their way from each node to the publishing one
          \* the publishing node
          _snnmap,     \* the subjects that are registered
          subscriber,  \* the Subscriber of each node and subject, or None
          attr,        \* whether the network attributes of each node fit
          flowMgmtAvail,
          \* its daemon
          available,   \* whether it has a flow manager
          flows,       \* the flows the manager holds
          asked,       \* the requests to it
          answers,     \* the answers from it
          \* history
          served,      \* the nodes that got an event of a subject in this second
          published,   \* the subjects that had their event in this second
          unwanted,    \* for how long a node has not subscribed to a subject
          faults, leaves

nodeVars   == <<alive, subscriptions, timer, expired, unwanted, leaves>>
daemonVars == <<available, flows>>
vars == <<conf, nodeVars, net, _snnmap, subscriber, attr, flowMgmtAvail, daemonVars,
          asked, answers, served, published, faults>>

Init ==
    /\ conf \in Configs
    /\ alive = Nodes
    /\ subscriptions = [n \in Nodes |-> {}]
    /\ timer = [n \in Nodes |-> 0]
    /\ expired = {}
    /\ net = [n \in Nodes |-> <<>>]
    /\ _snnmap = {}
    /\ subscriber = [p \in Pairs |-> None]
    /\ attr = [n \in Nodes |-> TRUE]
    /\ flowMgmtAvail = conf.manager
    /\ available = conf.manager
    /\ flows = {} /\ asked = <<>> /\ answers = <<>>
    /\ served = {} /\ published = {}
    /\ unwanted = [p \in Pairs |-> maxAge + 1]
    /\ faults = 0 /\ leaves = 0

Fault == faults < MaxFaults /\ faults' = faults + 1

----------------------------------------------------------------------------
\* The nodes that subscribe.

\* The subscriptions in packets.  (Mutant: a full packet is the last one.)
PacketsUntilFull(subjects) ==
    LET s == SetToSeq(subjects) IN  <<{s[i] : i \in DOMAIN s \cap 1 .. PerPacket}>>
Packets(subjects) ==
    LET s == SetToSeq(subjects)
    IN  [k \in 1 .. (Len(s) + PerPacket - 1) \div PerPacket |->
            {s[i] : i \in {j \in DOMAIN s : (j - 1) \div PerPacket = k - 1}}]

\* announce_subscriptions: expires_from_now cancels a wait that is not over.
AnnounceSubscriptions(n, subjects) ==
    /\ net' = [net EXCEPT ![n] = @ \o Packets(subjects)]
    /\ timer' = [timer EXCEPT ![n] = interval]

\* deliver of a subscription.  (A node has one in a second.)
Subscribe(n, s) ==
    /\ n \in alive /\ s \in conf.wants[n] /\ timer[n] # interval
    /\ subscriptions' = [subscriptions EXCEPT ![n] = @ \cup {s}]
    /\ AnnounceSubscriptions(n, subscriptions'[n])
    /\ unwanted' = [unwanted EXCEPT ![<<n, s>>] = 0]
    /\ UNCHANGED <<conf, alive, expired, leaves, _snnmap, subscriber, attr, flowMgmtAvail,
                   daemonVars, asked, answers, served, published, faults>>

\* The handler of the wait.  (Mutant: it does not wait again.)
RenewOnce(n) ==
    /\ n \in expired
    /\ expired' = expired \ {n}
    /\ net' = [net EXCEPT ![n] = @ \o Packets(subscriptions[n])]
    /\ UNCHANGED <<conf, alive, subscriptions, timer, unwanted, leaves, _snnmap, subscriber, attr,
                   flowMgmtAvail, daemonVars, asked, answers, served, published, faults>>
Renew(n) ==
    /\ n \in expired
    /\ expired' = expired \ {n}
    /\ AnnounceSubscriptions(n, subscriptions[n])
    /\ UNCHANGED <<conf, alive, subscriptions, unwanted, leaves, _snnmap, subscriber, attr,
                   flowMgmtAvail, daemonVars, asked, answers, served, published, faults>>

\* The process ends; nobody is told.
Leave(n) ==
    /\ n \in alive /\ conf.wants[n] # {} /\ leaves < MaxLeaves
    /\ leaves' = leaves + 1
    /\ alive' = alive \ {n}
    /\ subscriptions' = [subscriptions EXCEPT ![n] = {}]
    /\ timer' = [timer EXCEPT ![n] = 0]
    /\ expired' = expired \ {n}
    /\ UNCHANGED <<conf, net, unwanted, _snnmap, subscriber, attr, flowMgmtAvail, daemonVars,
                   asked, answers, served, published, faults>>

Start(n) ==
    /\ n \notin alive
    /\ alive' = alive \cup {n}
    /\ UNCHANGED <<conf, subscriptions, timer, expired, unwanted, leaves, net, _snnmap, subscriber,
                   attr, flowMgmtAvail, daemonVars, asked, answers, served, published, faults>>

LosePacket(n) ==
    /\ net[n] # <<>>
    /\ net' = [net EXCEPT ![n] = Tail(@)]
    /\ Fault
    /\ UNCHANGED <<conf, nodeVars, _snnmap, subscriber, attr, flowMgmtAvail, daemonVars, asked,
                   answers, served, published>>

----------------------------------------------------------------------------
\* The publishing node: interrupt.

\* A subscription: NodeRepository::reg of each subject in the packet.
ReceiveSubscriptions(n) ==
    /\ net[n] # <<>>
    /\ net' = [net EXCEPT ![n] = Tail(@)]
    /\ subscriber' = [p \in Pairs |->
          IF p[1] = n /\ p[2] \in Head(net[n]) \cap _snnmap THEN [age |-> 0, flow |-> 0]
                                                            ELSE subscriber[p]]
    /\ UNCHANGED <<conf, nodeVars, _snnmap, attr, flowMgmtAvail, daemonVars, asked, answers,
                   served, published, faults>>

\* The daemon tells the network attributes of a node.
ReceiveAttributes(n) ==
    /\ conf.wants[n] # {} /\ ~conf.steady
    /\ attr' = [attr EXCEPT ![n] = ~@]
    /\ UNCHANGED <<conf, nodeVars, net, _snnmap, subscriber, flowMgmtAvail, daemonVars, asked,
                   answers, served, published, faults>>

\* NodeRepository::update: the flow of a subscriber that is still there.  (Mutant: a
\* lost flow is kept.)
UpdateGood(p, id) ==
    subscriber' = IF subscriber[p] = None \/ id = 0 THEN subscriber
                  ELSE [subscriber EXCEPT ![p] = [age |-> @.age, flow |-> id]]
Update(p, id) ==
    subscriber' = IF subscriber[p] = None THEN subscriber
                  ELSE [subscriber EXCEPT ![p] = [age |-> @.age, flow |-> id]]

\* An answer of the flow manager, also that it has come or gone.
ReceiveAnswer ==
    /\ answers # <<>>
    /\ answers' = Tail(answers)
    /\ LET a == Head(answers) IN
       \/ /\ a.op = "avail"
          /\ flowMgmtAvail' = (a.id > 0)
          /\ UNCHANGED subscriber
       \/ /\ a.op = "flow"
          /\ Update(a.pair, IF a.id > 0 THEN a.id ELSE 0)
          /\ UNCHANGED flowMgmtAvail
    /\ UNCHANGED <<conf, nodeVars, net, _snnmap, attr, daemonVars, asked, served, published, faults>>

----------------------------------------------------------------------------
\* The publishing node: deliver of an event.

\* Subscriber::elapsed of a difference d of clocks: the cast to int comes before the
\* division, which rounds to 0.
ToInt(d) == ((d + IntBound) % (2 * IntBound)) - IntBound
Elapsed(d) == IF ToInt(d) >= 0 THEN ToInt(d) \div CLOCKS_PER_SEC
                               ELSE -((-ToInt(d)) \div CLOCKS_PER_SEC)

\* NodeRepository::find.
Found(s) == {n \in Nodes : subscriber[<<n, s>>] # None /\ attr[n]}

Late(s)    == {n \in Found(s) : Elapsed(subscriber[<<n, s>>].age) > maxAge}
HasFlow(n, s) == ~flowMgmtAvail \/ subscriber[<<n, s>>].flow > 0
BadFlow(s) == {n \in Found(s) \ Late(s) : ~HasFlow(n, s) /\ subscriber[<<n, s>>].flow = 0}

Requests(op, nodes, s) ==
    LET q == SetToSeq(nodes)
    IN  [i \in DOMAIN q |-> [op |-> op, pair |-> <<q[i], s>>, id |-> subscriber[<<q[i], s>>].flow]]

\* The event to all that have a flow, requests of flows for those that have none,
\* and late nodes are unregistered with their flows.
Publish(s) ==
    /\ s \notin published
    /\ published' = published \cup {s}
    /\ _snnmap' = _snnmap \cup {s}
    /\ served' = served \cup {<<n, s>> : n \in {m \in Found(s) \ Late(s) : HasFlow(m, s)}}
    /\ subscriber' = [p \in Pairs |->
          IF p[2] = s /\ p[1] \in Late(s) THEN None
          ELSE IF p[2] = s /\ p[1] \in BadFlow(s) THEN [age |-> subscriber[p].age, flow |-> -1]
          ELSE subscriber[p]]
    /\ asked' = asked \o Requests("reg", BadFlow(s), s)
                      \o (IF flowMgmtAvail
                          THEN Requests("free", {n \in Late(s) : subscriber[<<n, s>>].flow >= 0}, s)
                          ELSE <<>>)
    /\ UNCHANGED <<conf, nodeVars, net, attr, flowMgmtAvail, daemonVars, answers, faults>>

----------------------------------------------------------------------------
\* The flow manager, with one flow for a node and subject.  Of its ids only those
\* above 0 are told from 0.  While it is not there it holds the flows and drops all
\* requests.

Tell(op, p, id) == answers' = Append(answers, [op |-> op, pair |-> p, id |-> id])

ManageFlow ==
    /\ asked # <<>>
    /\ asked' = Tail(asked)
    /\ LET a == Head(asked) IN
       \/ /\ available /\ a.op = "reg"
          /\ flows' = flows \cup {a.pair}
          /\ Tell("flow", a.pair, 1)
       \/ /\ available /\ a.op = "free"
          /\ flows' = IF a.id > 0 THEN flows \ {a.pair} ELSE flows
          /\ UNCHANGED answers
       \/ /\ ~available
          /\ UNCHANGED <<flows, answers>>
    /\ UNCHANGED <<conf, nodeVars, net, _snnmap, subscriber, attr, flowMgmtAvail, available,
                   served, published, faults>>

LoseFlow(p) ==
    /\ Fault
    /\ p \in flows
    /\ flows' = flows \ {p}
    /\ Tell("flow", p, 0)
    /\ UNCHANGED <<conf, nodeVars, net, _snnmap, subscriber, attr, flowMgmtAvail, available,
                   asked, served, published>>

ChangeManager ==
    /\ Fault
    /\ available' = ~available
    /\ Tell("avail", <<>>, IF available' THEN 1 ELSE 0)
    /\ UNCHANGED <<conf, nodeVars, net, _snnmap, subscriber, attr, flowMgmtAvail, flows, asked,
                   served, published>>

----------------------------------------------------------------------------

Quiet == /\ \A n \in Nodes : net[n] = <<>>
         /\ expired = {} /\ asked = <<>> /\ answers = <<>>

\* The clock a second later.  Of a difference that is beyond all values of int only
\* its place among them matters.
ClockAfter(d) == IF d + CLOCKS_PER_SEC < 3 * IntBound THEN d + CLOCKS_PER_SEC
                                                      ELSE d + CLOCKS_PER_SEC - 2 * IntBound
Later(time) == IF time > maxAge THEN time ELSE time + 1

\* A second passes.  The age of a subscription is std::clock() - _time, the processor
\* time since it came.
Tick ==
    /\ Quiet /\ published = Subjects
    /\ timer' = [n \in Nodes |-> IF timer[n] > 0 THEN timer[n] - 1 ELSE 0]
    /\ expired' = {n \in Nodes : timer[n] = 1}
    /\ \E computes \in {TRUE, conf.busy} :
          subscriber' = [p \in Pairs |->
             IF subscriber[p] # None /\ computes
             THEN [age |-> ClockAfter(subscriber[p].age), flow |-> subscriber[p].flow]
             ELSE subscriber[p]]
    /\ unwanted' = [p \in Pairs |-> IF p[2] \in subscriptions[p[1]] THEN 0
                                    ELSE Later(unwanted[p])]
    /\ served' = {} /\ published' = {}
    /\ UNCHANGED <<conf, alive, subscriptions, leaves, net, _snnmap, attr, flowMgmtAvail, daemonVars,
                   asked, answers, faults>>

Work == \/ \E n \in Nodes : Renew(n) \/ ReceiveSubscriptions(n)
        \/ \E s \in Subjects : Publish(s)
        \/ ReceiveAnswer \/ ManageFlow

Environment ==
    \/ \E n \in Nodes : \/ Leave(n) \/ Start(n) \/ LosePacket(n) \/ ReceiveAttributes(n)
                        \/ \E s \in Subjects : Subscribe(n, s)
    \/ \E p \in Pairs : LoseFlow(p)
    \/ ChangeManager

Next == Work \/ Environment \/ Tick

\* Handlers run, the publisher publishes, and time passes.
Spec == Init /\ [][Next]_vars /\ WF_vars(Work) /\ WF_vars(Tick)
----------------------------------------------------------------------------
\* A clock difference of so many seconds is an int; that of a subscription is none.
IntHolds(seconds) == CLOCKS_PER_SEC * seconds < IntBound
Overflowed(p) == subscriber[p].age >= IntBound

\* "Subscription is missing": no event is sent to a node that has not subscribed for
\* longer than the maximum age, as long as the age of its subscription is an int, ...
GoneForgotten == \A p \in served : unwanted[p] > maxAge => Overflowed(p)

\* ... and it is one, as each event looks for late nodes, unless the network attributes
\* of the node do not fit when it becomes late, or the maximum age is no int itself.
NoneOverflows == conf.steady /\ IntHolds(maxAge + 2) => \A p \in Pairs : ~Overflowed(p)

\* A node that stays does not become late, unless packets are lost: each announcement
\* has all its subscriptions, also one that is made for a new one and puts the next
\* off.
RenewedInTime ==
    \A n \in Nodes, s \in Subjects :
        /\ faults = 0 /\ net[n] = <<>> /\ n \notin expired /\ IntHolds(interval)
        /\ s \in subscriptions[n] /\ subscriber[<<n, s>>] # None
        => ~Overflowed(<<n, s>>) /\ Elapsed(subscriber[<<n, s>>].age) <= interval

LeasesHold == GoneForgotten /\ NoneOverflows /\ RenewedInTime

\* The maximum age is "the timespan in seconds when a node is marked as offline": no
\* event is sent to a node that has not subscribed for longer.
OfflineAfterMaxAge == \A p \in served : unwanted[p] <= maxAge

\* "Flow id is good": an event is sent over a flow that the manager holds, or whose
\* loss it has already told.
FlowsAreGood ==
    [][\A p \in served' \ served : flowMgmtAvail =>
          \/ p \in flows
          \/ \E i \in DOMAIN answers : answers[i].pair = p /\ answers[i].id = 0]_vars

\* "We have to unregister the flow id": the manager holds no flow to a node that is
\* not registered any more.
FlowsAreFreed ==
    Quiet => \A p \in flows : subscriber[p] # None

\* A node that stays is sent events again and again, whether it subscribed before or
\* after the first event, and although announcements, requests and flows get lost;
\* but not if its channels subscribe every second, as an announcement forgets the flow.
ServedAgain ==
    \A n \in Nodes, s \in Subjects :
        /\ <>[](s \in subscriptions[n] /\ attr[n])
        /\ <>[][\A t \in Subjects : ~Subscribe(n, t)]_vars
        => []<>(<<n, s>> \in served)
=============================================================================
