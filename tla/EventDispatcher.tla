--------------------------- MODULE EventDispatcher ---------------------------
(***************************************************************************)
(* The event dispatcher: two queues of event channels, Publisher and       *)
(* Subscriber, built from the intrusive singly linked list of              *)
(* object/Chain and object/Queue, which several contexts work on: the      *)
(* application announces, subscribes, publishes and destroys channels, and *)
(* the receive context (an interrupt handler on a microcontroller, the     *)
(* io_service thread on a PC) fetches incoming events and runs the         *)
(* callbacks, which may again call the dispatcher.                         *)
(*                                                                         *)
(* Every load and store of a link or of a tail pointer that another        *)
(* context can observe is a step of its own.                               *)
(***************************************************************************)
EXTENDS Naturals, Sequences, FiniteSets, SequencesExt

CONSTANTS
    Publisher, Subscriber,  \* the two Queue objects, also the head Chain of each
    Pubs, Subs,             \* the publisher and the subscriber event channels
    Subjects,               \* the subjects
    SubjectOf,              \* the subject each channel was constructed with
    Null,                   \* the null pointer
    Contexts,               \* the flows of control that call the dispatcher
    Interrupts,             \* those that preempt the others and run to completion
    May,                    \* the operations each context performs
    MaxNest                 \* bound on the publications a context has nested

Queues   == {Publisher, Subscriber}
Channels == Pubs \cup Subs
Chains   == Queues \cup Channels        \* everything that has a link
Pointers == Chains \cup {Null}
QueueOf(c) == IF c \in Pubs THEN Publisher ELSE Subscriber

Operations == {"register", "destroy", "publish", "fetch"}

\* The contexts that change a queue.
Mutators == {p \in Contexts : May[p] \cap {"register", "destroy"} # {}}

ASSUME ChannelsAssumption ==
    /\ Publisher # Subscriber
    /\ Pubs \cap Subs = {}
    /\ Queues \cap Channels = {}
    /\ Null \notin Chains
    /\ SubjectOf \in [Channels -> Subjects]

ASSUME ContextsAssumption ==
    /\ Interrupts \subseteq Contexts
    /\ May \in [Contexts -> SUBSET Operations]
    /\ MaxNest \in Nat

\* Nothing in the code locks the queues: EventDispatcher.h calls them
\* "endangered because of concurrency". They are safe with one mutator.
ASSUME SingleMutator == \A p, r \in Mutators : p = r

VARIABLES
    alive,  \* channels that are constructed and not yet destroyed
    bound,  \* channels whose _snn was assigned by LL::bind
    link,   \* Chain::link of every channel and of the two queue heads
    tail,   \* Queue::tail of the two queues
    op,     \* per context, where it is in an append or in a remove
    walks,  \* per context, its activations of publish_local and fetch, outermost first
    order   \* history: the channels of each queue, from head to tail

vars == <<alive, bound, link, tail, op, walks, order>>

-----------------------------------------------------------------------------
\* An operation on a queue: its next step, the queue, the channel, and the
\* `wrap' pointer of Chain::search.
Idle == [pc |-> "idle", q |-> Subscriber, item |-> Null, wrap |-> Null]

OpSteps == {"idle", "bind", "terminate", "couple", "ending", "advertise",
            "search", "detach", "adjust", "free"}
OpRecords == [pc : OpSteps, q : Queues, item : Channels \cup {Null}, wrap : Pointers]

\* An activation of a loop over the subscribers: `sec' is the code's local
\* pointer. History: `due' are the channels it owes a notification, `called'
\* those it notified.
WalkSteps == {"probe", "visit", "callback"}
WalkRecords == [pc : WalkSteps, subject : Subjects, sec : Pointers,
                due : SUBSET Subs, called : SUBSET Subs]

Members(q) == {order[q][i] : i \in 1 .. Len(order[q])}
Matching(s) == {c \in Members(Subscriber) : SubjectOf[c] = s}

Walking(p)  == walks[p] # <<>>
Top(p)      == walks[p][Len(walks[p])]
SetTop(p, w) == [walks EXCEPT ![p][Len(walks[p])] = w]
Pop(p)      == [walks EXCEPT ![p] = SubSeq(@, 1, Len(@) - 1)]

\* A context executes unless an interrupt handler has preempted it.
Busy(p)   == op[p].pc # "idle" \/ Walking(p)
CanRun(p) == p \in Interrupts \/ \A i \in Interrupts : ~Busy(i)

\* User code runs: the main program, or the callback of the innermost walk.
InUserCode(p) == op[p].pc = "idle" /\ (Walking(p) => Top(p).pc = "callback")
MayStart(p, o) == CanRun(p) /\ InUserCode(p) /\ o \in May[p]

\* Some context executes the callback of channel c.
InCallback(c) == \E p \in Contexts : \E i \in 1 .. Len(walks[p]) :
                   walks[p][i].pc = "callback" /\ walks[p][i].sec = c

-----------------------------------------------------------------------------
Init ==
    /\ alive = {}
    /\ bound = {}
    /\ link = [c \in Chains |-> Null]
    /\ tail = [q \in Queues |-> q]
    /\ op = [p \in Contexts |-> Idle]
    /\ walks = [p \in Contexts |-> <<>>]
    /\ order = [q \in Queues |-> <<>>]

-----------------------------------------------------------------------------
(* Registering a channel: announce() and subscribe().                      *)

\* The constructor of an event channel; Chain() clears the link.
Construct(p, c) ==
    /\ MayStart(p, "register")
    /\ c \notin alive
    /\ alive' = alive \cup {c}
    /\ link' = [link EXCEPT ![c] = Null]
    /\ UNCHANGED <<bound, tail, op, walks, order>>

\* A channel object is announced or subscribed once in its life.
Register(p, c) ==
    /\ MayStart(p, "register")
    /\ c \in alive
    /\ c \notin Members(QueueOf(c))
    /\ op' = [op EXCEPT ![p] = [pc |-> "bind", q |-> QueueOf(c), item |-> c, wrap |-> Null]]
    /\ UNCHANGED <<alive, bound, link, tail, walks, order>>

At(p, step) == CanRun(p) /\ op[p].pc = step
Goto(p, step) == op' = [op EXCEPT ![p].pc = step]

Bind(p) ==
    /\ At(p, "bind")
    /\ bound' = bound \cup {op[p].item}
    /\ Goto(p, "terminate")
    /\ UNCHANGED <<alive, link, tail, walks, order>>

Terminate(p) ==
    /\ At(p, "terminate")
    /\ link' = [link EXCEPT ![op[p].item] = Null]
    /\ Goto(p, "couple")
    /\ UNCHANGED <<alive, bound, tail, walks, order>>

\* From this store on the other contexts can reach the channel.
Couple(p) ==
    /\ At(p, "couple")
    /\ link' = [link EXCEPT ![tail[op[p].q]] = op[p].item]
    /\ order' = [order EXCEPT ![op[p].q] = Append(@, op[p].item)]
    /\ Goto(p, "ending")
    /\ UNCHANGED <<alive, bound, tail, walks>>

Ending(p) ==
    /\ At(p, "ending")
    /\ tail' = [tail EXCEPT ![op[p].q] = op[p].item]
    /\ IF op[p].q = Subscriber THEN Goto(p, "advertise")
                               ELSE op' = [op EXCEPT ![p] = Idle]
    /\ UNCHANGED <<alive, bound, link, walks, order>>

\* subscribe() writes an event of subject "SUBSCRIBE" to the networks.
Advertise(p) ==
    /\ At(p, "advertise")
    /\ op' = [op EXCEPT ![p] = Idle]
    /\ UNCHANGED <<alive, bound, link, tail, walks, order>>

-----------------------------------------------------------------------------
(* Destroying a channel: its destructor calls unannounce() or unsubscribe(). *)

\* Mutant: the search begins at the first channel instead of the queue head.
DestroyFromFirst(p, c) ==
    /\ MayStart(p, "destroy")
    /\ c \in alive /\ ~InCallback(c)
    /\ op' = [op EXCEPT ![p] = [pc |-> "search", q |-> QueueOf(c), item |-> c,
                                wrap |-> link[QueueOf(c)]]]
    /\ UNCHANGED <<alive, bound, link, tail, walks, order>>

\* No context destroys a channel whose callback is being executed.
Destroy(p, c) ==
    /\ MayStart(p, "destroy")
    /\ c \in alive /\ ~InCallback(c)
    /\ op' = [op EXCEPT ![p] = [pc |-> "search", q |-> QueueOf(c), item |-> c,
                                wrap |-> QueueOf(c)]]
    /\ UNCHANGED <<alive, bound, link, tail, walks, order>>

\* Chain::search: a channel that was never registered is not found.
Search(p) ==
    /\ At(p, "search")
    /\ LET wrap == op[p].wrap IN
       op' = IF wrap = Null THEN [op EXCEPT ![p].pc = "free"]
             ELSE IF link[wrap] = op[p].item THEN [op EXCEPT ![p].pc = "detach"]
             ELSE [op EXCEPT ![p].wrap = link[wrap]]
    /\ UNCHANGED <<alive, bound, link, tail, walks, order>>

\* The detached channel keeps its own link, so a walk that stands on it goes on.
Detach(p) ==
    /\ At(p, "detach")
    /\ LET item == op[p].item
           q    == op[p].q
       IN /\ link' = [link EXCEPT ![op[p].wrap] = link[link[op[p].wrap]]]
          /\ order' = [order EXCEPT ![q] =
                         RemoveAt(@, CHOOSE i \in 1 .. Len(@) : @[i] = item)]
          /\ walks' = [r \in Contexts |-> [i \in 1 .. Len(walks[r]) |->
                         [walks[r][i] EXCEPT !.due = @ \ {item}, !.called = @ \ {item}]]]
    /\ Goto(p, "adjust")
    /\ UNCHANGED <<alive, bound, tail>>

\* Mutant: the removal of the last channel does not adjust the tail pointer.
AdjustNever(p) ==
    /\ At(p, "adjust")
    /\ Goto(p, "free")
    /\ UNCHANGED <<alive, bound, link, tail, walks, order>>

\* Mutant: the tail pointer is taken from the link of the new last item.
AdjustToLink(p) ==
    /\ At(p, "adjust")
    /\ tail' = IF link[op[p].wrap] = Null
                  THEN [tail EXCEPT ![op[p].q] = link[op[p].wrap]] ELSE tail
    /\ Goto(p, "free")
    /\ UNCHANGED <<alive, bound, link, walks, order>>

Adjust(p) ==
    /\ At(p, "adjust")
    /\ tail' = IF link[op[p].wrap] = Null THEN [tail EXCEPT ![op[p].q] = op[p].wrap]
                                          ELSE tail
    /\ Goto(p, "free")
    /\ UNCHANGED <<alive, bound, link, walks, order>>

Free(p) ==
    /\ At(p, "free")
    /\ alive' = alive \ {op[p].item}
    /\ bound' = bound \ {op[p].item}
    /\ op' = [op EXCEPT ![p] = Idle]
    /\ UNCHANGED <<link, tail, walks, order>>

-----------------------------------------------------------------------------
(* Notifying the subscribers: publish(), publish_local() and fetch().      *)

\* A loop over the subscribers starts at the head of the queue.
StartWalk(s, step) ==
    [pc |-> step, subject |-> s, sec |-> link[Subscriber],
     due |-> Matching(s), called |-> {}]

\* publish() writes to the networks and enters publish_local().
Publish(p, c) ==
    /\ MayStart(p, "publish")
    /\ Len(walks[p]) < MaxNest
    /\ c \in Members(Publisher)
    /\ walks' = [walks EXCEPT ![p] = Append(@, StartWalk(SubjectOf[c], "visit"))]
    /\ UNCHANGED <<alive, bound, link, tail, op, order>>

\* A packet whose short name stands for subject s arrived: fetch().
Fetch(p, s) ==
    /\ CanRun(p) /\ ~Busy(p) /\ "fetch" \in May[p]
    /\ walks' = [walks EXCEPT ![p] = <<StartWalk(s, "probe")>>]
    /\ UNCHANGED <<alive, bound, link, tail, op, order>>

Looping(p, step) == CanRun(p) /\ op[p].pc = "idle" /\ Walking(p) /\ Top(p).pc = step

\* One iteration of fetch(): the first channel whose short name is that of
\* the packet takes it. Its event is published locally once it is complete.
Probe(p) ==
    /\ Looping(p, "probe")
    /\ LET w == Top(p) IN
       \/ /\ w.sec # Null /\ w.sec \in bound /\ SubjectOf[w.sec] = w.subject
          /\ \E complete \in BOOLEAN :
               walks' = IF complete THEN SetTop(p, StartWalk(w.subject, "visit")) ELSE Pop(p)
       \/ /\ w.sec # Null /\ ~(w.sec \in bound /\ SubjectOf[w.sec] = w.subject)
          /\ walks' = SetTop(p, [w EXCEPT !.sec = link[w.sec]])
       \/ /\ w.sec = Null
          /\ walks' = Pop(p)
    /\ UNCHANGED <<alive, bound, link, tail, op, order>>

\* One iteration of publish_local(), up to the call of the callback.
Visit(p) ==
    /\ Looping(p, "visit")
    /\ LET w == Top(p) IN
       \/ /\ w.sec # Null /\ SubjectOf[w.sec] = w.subject
          /\ walks' = SetTop(p, [w EXCEPT !.pc = "callback", !.called = @ \cup {w.sec}])
       \/ /\ w.sec # Null /\ SubjectOf[w.sec] # w.subject
          /\ walks' = SetTop(p, [w EXCEPT !.sec = link[w.sec]])
       \/ /\ w.sec = Null
          /\ walks' = Pop(p)
    /\ UNCHANGED <<alive, bound, link, tail, op, order>>

\* Mutant: publish_local() stops after the first match, as fetch() does.
ReturnStops(p) ==
    /\ Looping(p, "callback")
    /\ walks' = SetTop(p, [Top(p) EXCEPT !.pc = "visit", !.sec = Null])
    /\ UNCHANGED <<alive, bound, link, tail, op, order>>

\* Mutant: after a callback the loop starts again at the head of the queue.
ReturnRestarts(p) ==
    /\ Looping(p, "callback")
    /\ walks' = SetTop(p, [Top(p) EXCEPT !.pc = "visit", !.sec = link[Subscriber]])
    /\ UNCHANGED <<alive, bound, link, tail, op, order>>

\* The callback returns, and only then is the link of the channel read.
Return(p) ==
    /\ Looping(p, "callback")
    /\ walks' = SetTop(p, [Top(p) EXCEPT !.pc = "visit", !.sec = link[Top(p).sec]])
    /\ UNCHANGED <<alive, bound, link, tail, op, order>>

-----------------------------------------------------------------------------
\* The steps a context takes inside the dispatcher.
AppendStep(p)    == Bind(p) \/ Terminate(p) \/ Couple(p) \/ Ending(p) \/ Advertise(p)
RemoveStep(p)    == Search(p) \/ Detach(p) \/ Adjust(p) \/ Free(p)
Progress(p)   == AppendStep(p) \/ RemoveStep(p) \/ Probe(p) \/ Visit(p)
UserCode(p)   == \/ \E c \in Channels : Construct(p, c) \/ Register(p, c) \/ Destroy(p, c)
                 \/ \E c \in Pubs : Publish(p, c)
                 \/ \E s \in Subjects : Fetch(p, s)

Next == \E p \in Contexts : UserCode(p) \/ Progress(p) \/ Return(p)

\* The dispatcher's own code is always resumed, and a callback at any depth that
\* can return again and again does so: it does not publish for ever.
ReturnFrom(p, depth) == Len(walks[p]) = depth /\ Return(p)
Fairness == \A p \in Contexts :
              SF_vars(Progress(p)) /\ \A d \in 1 .. MaxNest : SF_vars(ReturnFrom(p, d))

Spec == Init /\ [][Next]_vars
FairSpec == Spec /\ Fairness
-----------------------------------------------------------------------------
TypeOK ==
    /\ alive \subseteq Channels
    /\ bound \subseteq Channels
    /\ link \in [Chains -> Pointers]
    /\ tail \in [Queues -> Chains]
    /\ op \in [Contexts -> OpRecords]
    /\ walks \in [Contexts -> Seq(WalkRecords)]
    /\ order \in [Queues -> Seq(Channels)]

\* The chain item at a position of a queue, its head at position 0.
Place(q, i) == IF i = 0 THEN q ELSE order[q][i]

\* Some context is between the two stores of an append or of a remove on q.
TailPending(q) == \E p \in Contexts : op[p].pc \in {"ending", "adjust"} /\ op[p].q = q

\* The links lead from the head through exactly the registered channels, in the
\* order they were registered, and end; the tail pointer is at the last of them
\* whenever an append may use it (Queue::intact). This is what two interleaved
\* appends, or an append to a queue whose tail was not adjusted, would break.
QueueIntact ==
    \A q \in Queues :
      /\ \A i \in 0 .. Len(order[q]) :
           link[Place(q, i)] = IF i = Len(order[q]) THEN Null ELSE Place(q, i + 1)
      /\ \A i, j \in 1 .. Len(order[q]) : order[q][i] = order[q][j] => i = j
      /\ ~TailPending(q) => tail[q] = Place(q, Len(order[q]))

\* The pointer a loop goes on from is never that of a destroyed channel: the
\* dispatcher reads the link of a channel after its callback, when the callback,
\* or whoever ran meanwhile, may have destroyed channels.
NoUseOfDestroyed ==
    \A p \in Contexts : \A i \in 1 .. Len(walks[p]) :
      walks[p][i].sec \in alive \cup {Null}

\* publish_local() and fetch() come to an end, whatever the callbacks do to the
\* queue the loop runs over.
LoopEnds == \A p \in Contexts : Walking(p) ~> ~Walking(p)

-----------------------------------------------------------------------------
\* What the dispatcher promises: see module Notification.
Activation(w) == [subject |-> w.subject, due |-> w.due, called |-> w.called,
                  now |-> IF w.pc = "callback" THEN w.sec ELSE Null]

Promise == INSTANCE Notification
             WITH registry <- order,
                  activations <- [p \in Contexts |->
                    IF Walking(p) /\ walks[p][1].pc = "probe" THEN <<>>
                    ELSE [i \in 1 .. Len(walks[p]) |-> Activation(walks[p][i])]]

\* The pointer program implements the abstract notification service: one
\* notification per publication and channel, in the order of registration, of
\* channels that are registered at that moment, and none forgotten.
ImplementsNotification == Promise!Spec
=============================================================================
