------------------------ MODULE EventDispatcherProofs ------------------------
(***************************************************************************)
(* Theorems about EventDispatcher, for every number of channels, subjects  *)
(* and contexts.                                                           *)
(***************************************************************************)
EXTENDS EventDispatcher, SequenceTheorems, TLAPS

\* What RemoveAt returns, position by position.
LEMMA RemoveAtProperties ==
    ASSUME NEW S, NEW s \in Seq(S), NEW i \in 1 .. Len(s)
    PROVE  /\ RemoveAt(s, i) \in Seq(S)
           /\ Len(RemoveAt(s, i)) = Len(s) - 1
           /\ \A j \in 1 .. Len(s) - 1 :
                RemoveAt(s, i)[j] = IF j < i THEN s[j] ELSE s[j + 1]
<1>1. Len(s) \in Nat /\ i \in Nat /\ i >= 1 /\ i <= Len(s)
  BY LenProperties
<1> DEFINE a == SubSeq(s, 1, i - 1)
           b == SubSeq(s, i + 1, Len(s))
<1>2. a \in Seq(S) /\ Len(a) = i - 1 /\ \A j \in 1 .. i - 1 : a[j] = s[j]
  BY <1>1, SubSeqProperties
<1>3. b \in Seq(S) /\ Len(b) = Len(s) - i /\ \A j \in 1 .. Len(s) - i : b[j] = s[i + j]
  BY <1>1, SubSeqProperties
<1>4. RemoveAt(s, i) = a \o b
  BY DEF RemoveAt
<1> HIDE DEF a, b
<1>5. /\ a \o b \in Seq(S)
      /\ Len(a \o b) = Len(a) + Len(b)
      /\ \A k \in 1 .. Len(a) + Len(b) : (a \o b)[k] = IF k <= Len(a) THEN a[k] ELSE b[k - Len(a)]
  BY <1>2, <1>3, ConcatProperties
<1>6. Len(a \o b) = Len(s) - 1
  BY <1>1, <1>2, <1>3, <1>5
<1>7. ASSUME NEW j \in 1 .. Len(s) - 1
      PROVE  (a \o b)[j] = IF j < i THEN s[j] ELSE s[j + 1]
  <2>1. CASE j < i
    BY <1>1, <1>2, <1>3, <1>5, <2>1
  <2>2. CASE ~(j < i)
    <3>1. (a \o b)[j] = b[j - (i - 1)]
      BY <1>1, <1>2, <1>3, <1>5, <2>2
    <3>2. j - (i - 1) \in 1 .. Len(s) - i
      BY <1>1, <2>2
    <3>3. b[j - (i - 1)] = s[i + (j - (i - 1))]
      BY <1>3, <3>2
    <3>4. i + (j - (i - 1)) = j + 1
      BY <1>1
    <3> QED
      BY <1>1, <2>2, <3>1, <3>3, <3>4
  <2> QED
    BY <2>1, <2>2
<1> QED
  BY <1>4, <1>5, <1>6, <1>7
-----------------------------------------------------------------------------
(* The inductive invariant: the queues, then the loops over them.          *)

\* The channels that belong on queue q.
Kin(q) == {c \in Channels : QueueOf(c) = q}

ListType ==
    /\ alive \subseteq Channels
    /\ link \in [Chains -> Pointers]
    /\ tail \in [Queues -> Chains]
    /\ op \in [Contexts -> OpRecords]
    /\ order \in [Queues -> Seq(Channels)]

\* A registered channel is alive, and on the queue of its kind.
MembersAlive ==
    \A q \in Queues : \A i \in 1 .. Len(order[q]) : order[q][i] \in Kin(q) \cap alive

\* No link leads from one queue to the other, or to a queue head.
LinksStay ==
    \A q \in Queues : \A c \in Kin(q) \cup {q} : link[c] \in Kin(q) \cup {Null}

\* What an operation knows about its channel and its wrap pointer between two steps.
OpKnows(p) ==
    LET o == op[p]
        n == Len(order[o.q])
    IN
    o.pc # "idle" =>
      /\ p \in Mutators
      /\ o.item \in Kin(o.q) \cap alive
      /\ o.pc \in {"bind", "terminate", "couple", "adjust", "free"} => o.item \notin Members(o.q)
      /\ o.pc = "couple" => link[o.item] = Null
      /\ o.pc = "ending" => n > 0 /\ order[o.q][n] = o.item
      /\ o.pc = "search" =>
           IF o.wrap = Null THEN o.item \notin Members(o.q)
           ELSE \E i \in 0 .. n : /\ o.wrap = Place(o.q, i)
                                  /\ \A j \in 1 .. i : order[o.q][j] # o.item
      /\ o.pc = "detach" => \E i \in 1 .. n : /\ order[o.q][i] = o.item
                                              /\ o.wrap = Place(o.q, i - 1)
      /\ o.pc = "adjust" => \E i \in 0 .. n : /\ o.wrap = Place(o.q, i)
                                              /\ i < n => tail[o.q] = Place(o.q, n)

ListInv ==
    /\ ListType
    /\ QueueIntact
    /\ MembersAlive
    /\ LinksStay
    /\ \A p \in Contexts : OpKnows(p)

-----------------------------------------------------------------------------
LEMMA QueueFacts ==
    /\ \A c \in Channels : QueueOf(c) \in Queues
    /\ \A q \in Queues : Kin(q) \subseteq Channels /\ q \notin Channels /\ q # Null /\ Null \notin Kin(q)
    /\ Kin(Subscriber) = Subs /\ Kin(Publisher) = Pubs
    /\ \A q, r \in Queues : q # r => Kin(q) \cap Kin(r) = {}
    /\ \A q \in Queues : q \in Chains
    /\ Channels \subseteq Chains
BY ChannelsAssumption DEF QueueOf, Queues, Channels, Kin, Chains

\* At most one operation on the queues is in progress.
LEMMA OneOperation ==
    ASSUME ListInv, NEW p \in Contexts, NEW r \in Contexts,
           op[p].pc # "idle", op[r].pc # "idle" \/ r \in Mutators
    PROVE  r = p
BY SingleMutator DEF ListInv, OpKnows

\* The places of a queue are distinct, and distinct from those of the other.
LEMMA Places ==
    ASSUME ListInv, NEW q \in Queues
    PROVE  /\ Len(order[q]) \in Nat
           /\ \A i \in 0 .. Len(order[q]) : Place(q, i) \in Kin(q) \cup {q}
           /\ \A i, j \in 0 .. Len(order[q]) : Place(q, i) = Place(q, j) => i = j
<1>1. order[q] \in Seq(Channels)
  BY DEF ListInv, ListType
<1>2. Len(order[q]) \in Nat
  BY <1>1, LenProperties
<1>3. \A i \in 1 .. Len(order[q]) : order[q][i] \in Kin(q)
  BY DEF ListInv, MembersAlive
<1>4. \A i, j \in 1 .. Len(order[q]) : order[q][i] = order[q][j] => i = j
  BY DEF ListInv, QueueIntact
<1>5. q \notin Kin(q)
  BY QueueFacts
<1>6. ASSUME NEW i \in 0 .. Len(order[q])
      PROVE  /\ i = 0 => Place(q, i) = q
             /\ i # 0 => i \in 1 .. Len(order[q]) /\ Place(q, i) = order[q][i]
  BY <1>2 DEF Place
<1> QED
  BY <1>2, <1>3, <1>4, <1>5, <1>6

-----------------------------------------------------------------------------
(* Every step keeps ListInv, action by action.                             *)

\* Loops and callbacks do not touch the queues.
LEMMA LoopsKeepList ==
    ASSUME ListInv, UNCHANGED <<alive, link, tail, op, order>>
    PROVE  ListInv'
BY DEF ListInv, ListType, QueueIntact, TailPending, Place, MembersAlive, LinksStay,
       OpKnows, Members, Mutators

\* A new channel is not on a queue, and no operation is in progress.
LEMMA ConstructKeepsList ==
    ASSUME ListInv, NEW p \in Contexts, NEW c \in Channels, Construct(p, c)
    PROVE  ListInv'
<1>1. /\ op[p].pc = "idle" /\ p \in Mutators /\ c \notin alive
      /\ alive' = alive \cup {c} /\ link' = [link EXCEPT ![c] = Null]
      /\ UNCHANGED <<tail, op, order>>
  BY DEF Construct, MayStart, InUserCode, Mutators
<1>2. \A r \in Contexts : op[r].pc = "idle"
  BY <1>1, SingleMutator DEF ListInv, OpKnows
<1>3. ListType'
  BY <1>1, QueueFacts DEF ListInv, ListType, Pointers
<1>4. MembersAlive'
  BY <1>1 DEF ListInv, MembersAlive
<1>5. LinksStay'
  BY <1>1, QueueFacts DEF ListInv, ListType, LinksStay
<1>6. ASSUME NEW q \in Queues, NEW i \in 0 .. Len(order[q])
      PROVE  Place(q, i) # c
  <2>1. i # 0 => order[q][i] \in alive
    BY LenProperties DEF ListInv, ListType, MembersAlive
  <2> QED
    BY <1>1, <2>1, QueueFacts DEF Place
<1>7. QueueIntact'
  <2>1. ASSUME NEW q \in Queues
        PROVE  /\ \A i \in 0 .. Len(order[q]) : link'[Place(q, i)] = link[Place(q, i)]
               /\ \A i \in 0 .. Len(order[q]) + 1 : Place(q, i)' = Place(q, i)
               /\ TailPending(q)' = TailPending(q)
               /\ order'[q] = order[q] /\ tail'[q] = tail[q]
    <3>1. \A i \in 0 .. Len(order[q]) : Place(q, i) \in Chains
      BY Places, QueueFacts
    <3> QED
      BY <1>1, <1>6, <3>1 DEF ListInv, ListType, Place, TailPending
  <2> QED
    BY <2>1, <1>1, Places DEF QueueIntact, ListInv
<1>8. \A r \in Contexts : OpKnows(r)'
  BY <1>1, <1>2 DEF OpKnows
<1> QED
  BY <1>3, <1>4, <1>5, <1>7, <1>8 DEF ListInv

LEMMA RegisterKeepsList ==
    ASSUME ListInv, NEW p \in Contexts, NEW c \in Channels, Register(p, c)
    PROVE  ListInv'
<1>1. /\ op[p].pc = "idle" /\ p \in Mutators /\ c \in alive /\ c \notin Members(QueueOf(c))
      /\ op' = [op EXCEPT ![p] = [pc |-> "bind", q |-> QueueOf(c), item |-> c, wrap |-> Null]]
      /\ UNCHANGED <<alive, link, tail, order>>
  BY DEF Register, MayStart, InUserCode, Mutators
<1>2. \A r \in Contexts : op[r].pc = "idle"
  BY <1>1, SingleMutator DEF ListInv, OpKnows
<1>3. QueueOf(c) \in Queues /\ c \in Kin(QueueOf(c))
  BY QueueFacts DEF Kin
<1>4. ListType'
  BY <1>1, <1>3 DEF ListInv, ListType, OpRecords, OpSteps, Pointers
<1>5. MembersAlive' /\ LinksStay'
  BY <1>1 DEF ListInv, MembersAlive, LinksStay
<1>6. \A q \in Queues : TailPending(q)' = TailPending(q)
  BY <1>1, <1>2 DEF TailPending, ListInv, ListType
<1>7. QueueIntact'
  BY <1>1, <1>6 DEF QueueIntact, ListInv, Place
<1>8. ASSUME NEW r \in Contexts
      PROVE  OpKnows(r)'
  <2>1. CASE r = p
    <3>1. op'[r] = [pc |-> "bind", q |-> QueueOf(c), item |-> c, wrap |-> Null]
      BY <1>1, <2>1 DEF ListInv, ListType
    <3>2. c \notin Members(QueueOf(c))'
      BY <1>1 DEF Members
    <3> QED
      BY <1>1, <1>3, <2>1, <3>1, <3>2 DEF OpKnows, Mutators
  <2>2. CASE r # p
    <3>1. op'[r].pc = "idle"
      BY <1>1, <1>2, <2>2 DEF ListInv, ListType
    <3> QED
      BY <3>1 DEF OpKnows
  <2> QED
    BY <2>1, <2>2
<1> QED
  BY <1>4, <1>5, <1>7, <1>8 DEF ListInv

\* While a context is inside an operation, the others are not.
LEMMA OthersIdle ==
    ASSUME ListInv, NEW p \in Contexts, op[p].pc # "idle"
    PROVE  \A r \in Contexts : r # p => op[r].pc = "idle"
BY OneOperation

\* A step that only moves the operation of one context.
LEMMA MoveKeepsList ==
    ASSUME ListInv, NEW p \in Contexts, NEW o \in OpRecords,
           \A r \in Contexts : r # p => op[r].pc = "idle",
           op' = [op EXCEPT ![p] = o],
           UNCHANGED <<alive, link, tail, order>>,
           op[p].pc \notin {"ending", "adjust"},
           o.pc \notin {"ending", "adjust"},
           OpKnows(p)'
    PROVE  ListInv'
<1>1. \A r \in Contexts : op'[r] = IF r = p THEN o ELSE op[r]
  BY DEF ListInv, ListType
<1>2. ListType'
  BY DEF ListInv, ListType
<1>3. MembersAlive' /\ LinksStay'
  BY DEF ListInv, MembersAlive, LinksStay
<1>4. \A q \in Queues : ~TailPending(q) /\ ~TailPending(q)'
  BY <1>1 DEF TailPending
<1>5. QueueIntact'
  BY <1>4 DEF QueueIntact, ListInv, Place
<1>6. \A r \in Contexts : OpKnows(r)'
  BY <1>1 DEF OpKnows
<1> QED
  BY <1>2, <1>3, <1>5, <1>6 DEF ListInv

LEMMA BindKeepsList ==
    ASSUME ListInv, NEW p \in Contexts, Bind(p)
    PROVE  ListInv'
<1> DEFINE o == [op[p] EXCEPT !.pc = "terminate"]
<1>1. /\ op[p].pc = "bind" /\ op[p] \in OpRecords
      /\ op' = [op EXCEPT ![p] = o] /\ UNCHANGED <<alive, link, tail, order>>
  BY DEF Bind, At, Goto, ListInv, ListType
<1>2. o \in OpRecords /\ o.pc = "terminate" /\ o.q = op[p].q /\ o.item = op[p].item
  BY <1>1 DEF OpRecords, OpSteps
<1>3. op'[p] = o
  BY <1>1 DEF ListInv, ListType
<1> HIDE DEF o
<1>4. OpKnows(p)'
  BY <1>1, <1>2, <1>3 DEF ListInv, OpKnows, Members, Mutators
<1> QED
  BY <1>1, <1>2, <1>4, OthersIdle, MoveKeepsList

LEMMA AdvertiseKeepsList ==
    ASSUME ListInv, NEW p \in Contexts, Advertise(p)
    PROVE  ListInv'
<1>1. /\ op[p].pc = "advertise"
      /\ op' = [op EXCEPT ![p] = Idle] /\ UNCHANGED <<alive, link, tail, order>>
  BY DEF Advertise, At
<1>2. Idle \in OpRecords /\ Idle.pc = "idle"
  BY DEF OpRecords, OpSteps, Idle, Queues, Pointers
<1>3. op'[p] = Idle
  BY <1>1 DEF ListInv, ListType
<1>4. OpKnows(p)'
  BY <1>2, <1>3 DEF OpKnows
<1> QED
  BY <1>1, <1>2, <1>4, OthersIdle, MoveKeepsList

LEMMA DestroyKeepsList ==
    ASSUME ListInv, NEW p \in Contexts, NEW c \in Channels, Destroy(p, c)
    PROVE  ListInv'
<1> DEFINE o == [pc |-> "search", q |-> QueueOf(c), item |-> c, wrap |-> QueueOf(c)]
<1>1. /\ op[p].pc = "idle" /\ p \in Mutators /\ c \in alive
      /\ op' = [op EXCEPT ![p] = o] /\ UNCHANGED <<alive, link, tail, order>>
  BY DEF Destroy, MayStart, InUserCode, Mutators
<1>2. \A r \in Contexts : op[r].pc = "idle"
  BY <1>1, SingleMutator DEF ListInv, OpKnows
<1>3. QueueOf(c) \in Queues /\ c \in Kin(QueueOf(c)) /\ QueueOf(c) # Null /\ QueueOf(c) \in Chains
  BY QueueFacts DEF Kin
<1>4. o \in OpRecords /\ o.pc = "search"
  BY <1>3 DEF OpRecords, OpSteps, Pointers
<1>5. op'[p] = o
  BY <1>1 DEF ListInv, ListType
<1>6. OpKnows(p)'
  <2>1. Len(order[QueueOf(c)]) \in Nat
    BY <1>3, LenProperties DEF ListInv, ListType
  <2>2. /\ 0 \in 0 .. Len(order'[QueueOf(c)])
        /\ QueueOf(c) = Place(QueueOf(c), 0)'
        /\ \A j \in 1 .. 0 : order'[QueueOf(c)][j] # c
    BY <1>1, <2>1 DEF Place
  <2> QED
    BY <1>1, <1>3, <1>5, <2>2 DEF OpKnows, Mutators
<1> HIDE DEF o
<1> QED
  BY <1>1, <1>2, <1>4, <1>6, MoveKeepsList

\* A channel that is not registered is at no place of a queue.
LEMMA OffQueue ==
    ASSUME ListInv, NEW c \in Channels, c \notin Members(QueueOf(c)),
           NEW q \in Queues, NEW i \in 0 .. Len(order[q])
    PROVE  Place(q, i) # c
<1>1. CASE i = 0
  BY <1>1, QueueFacts DEF Place
<1>2. CASE i # 0
  <2>1. i \in 1 .. Len(order[q]) /\ Place(q, i) = order[q][i]
    BY <1>2, Places DEF Place
  <2>2. order[q][i] \in Kin(q) /\ order[q][i] \in Members(q)
    BY <2>1 DEF ListInv, MembersAlive, Members
  <2> QED
    BY <2>1, <2>2 DEF Kin
<1> QED
  BY <1>1, <1>2

LEMMA TerminateKeepsList ==
    ASSUME ListInv, NEW p \in Contexts, Terminate(p)
    PROVE  ListInv'
<1> DEFINE c == op[p].item
           o == [op[p] EXCEPT !.pc = "couple"]
<1>1. /\ op[p].pc = "terminate" /\ op[p] \in OpRecords
      /\ link' = [link EXCEPT ![c] = Null]
      /\ op' = [op EXCEPT ![p] = o] /\ UNCHANGED <<alive, tail, order>>
  BY DEF Terminate, At, Goto, ListInv, ListType
<1>2. o \in OpRecords /\ o.pc = "couple" /\ o.q = op[p].q /\ o.item = c
  BY <1>1 DEF OpRecords, OpSteps
<1>3. op' \in [Contexts -> OpRecords] /\ \A r \in Contexts : op'[r] = IF r = p THEN o ELSE op[r]
  BY <1>1, <1>2 DEF ListInv, ListType
<1>4. /\ p \in Mutators /\ c \in Kin(op[p].q) \cap alive /\ c \notin Members(op[p].q)
      /\ c \in Channels /\ QueueOf(c) = op[p].q
  BY <1>1 DEF ListInv, OpKnows, Kin
<1>5. \A r \in Contexts : r # p => op[r].pc = "idle"
  BY <1>1, OthersIdle
<1> HIDE DEF o, c
<1>6. c \in Chains
  BY <1>4, QueueFacts
<1>7. link' \in [Chains -> Pointers] /\ \A x \in Chains : link'[x] = IF x = c THEN Null ELSE link[x]
  BY <1>1, <1>6 DEF ListInv, ListType, Pointers
<1>8. ListType'
  BY <1>1, <1>3, <1>7 DEF ListInv, ListType
<1>9. MembersAlive' /\ LinksStay'
  BY <1>1, <1>7, QueueFacts DEF ListInv, MembersAlive, LinksStay
<1>10. QueueIntact'
  <2>1. \A q \in Queues : ~TailPending(q) /\ ~TailPending(q)'
    BY <1>1, <1>2, <1>3, <1>5 DEF TailPending
  <2>2. ASSUME NEW q \in Queues, NEW i \in 0 .. Len(order[q])
        PROVE  link'[Place(q, i)] = link[Place(q, i)]
    <3>1. Place(q, i) \in Chains /\ Place(q, i) # c
      BY <1>4, OffQueue, Places, QueueFacts
    <3> QED
      BY <3>1, <1>7
  <2>3. \A q \in Queues : \A i : Place(q, i)' = Place(q, i)
    BY <1>1 DEF Place
  <2> QED
    BY <1>1, <2>1, <2>2, <2>3 DEF ListInv, QueueIntact
<1>11. ASSUME NEW r \in Contexts
       PROVE  OpKnows(r)'
  <2>1. CASE r = p
    <3>1. \A q : Members(q)' = Members(q)
      BY <1>1 DEF Members
    <3> QED
      BY <1>1, <1>2, <1>3, <1>4, <1>6, <1>7, <2>1, <3>1 DEF OpKnows, Mutators
  <2>2. CASE r # p
    BY <1>3, <1>5, <2>2 DEF OpKnows
  <2> QED
    BY <2>1, <2>2
<1> QED
  BY <1>8, <1>9, <1>10, <1>11 DEF ListInv

LEMMA FreeKeepsList ==
    ASSUME ListInv, NEW p \in Contexts, Free(p)
    PROVE  ListInv'
<1> DEFINE c == op[p].item
<1>1. /\ op[p].pc = "free" /\ alive' = alive \ {c}
      /\ op' = [op EXCEPT ![p] = Idle] /\ UNCHANGED <<link, tail, order>>
  BY DEF Free, At
<1>2. Idle \in OpRecords /\ Idle.pc = "idle"
  BY DEF OpRecords, OpSteps, Idle, Queues, Pointers
<1>3. op' \in [Contexts -> OpRecords] /\ \A r \in Contexts : op'[r] = IF r = p THEN Idle ELSE op[r]
  BY <1>1, <1>2 DEF ListInv, ListType
<1>4. c \in Channels /\ c \notin Members(QueueOf(c))
  BY <1>1 DEF ListInv, OpKnows, Kin
<1> HIDE DEF c
<1>5. \A r \in Contexts : op'[r].pc = "idle"
  BY <1>1, <1>2, <1>3, OthersIdle
<1>6. ListType' /\ LinksStay'
  BY <1>1, <1>3 DEF ListInv, ListType, LinksStay
<1>7. MembersAlive'
  <2>1. ASSUME NEW q \in Queues, NEW i \in 1 .. Len(order[q])
        PROVE  order[q][i] # c
    BY <1>4, OffQueue, Places DEF Place
  <2> QED
    BY <1>1, <2>1 DEF ListInv, MembersAlive
<1>8. QueueIntact'
  <2>1. \A q \in Queues : ~TailPending(q)
    BY <1>1, OthersIdle DEF TailPending
  <2> QED
    BY <1>1, <2>1 DEF ListInv, QueueIntact, Place
<1>9. \A r \in Contexts : OpKnows(r)'
  BY <1>5 DEF OpKnows
<1> QED
  BY <1>6, <1>7, <1>8, <1>9 DEF ListInv

LEMMA EndingKeepsList ==
    ASSUME ListInv, NEW p \in Contexts, Ending(p)
    PROVE  ListInv'
<1> DEFINE q == op[p].q
           o == IF q = Subscriber THEN [op[p] EXCEPT !.pc = "advertise"] ELSE Idle
<1>1. /\ op[p].pc = "ending" /\ op[p] \in OpRecords /\ q \in Queues
      /\ tail' = [tail EXCEPT ![q] = op[p].item]
      /\ op' = [op EXCEPT ![p] = o] /\ UNCHANGED <<alive, link, order>>
  BY DEF Ending, At, Goto, ListInv, ListType, OpRecords
<1>2. /\ o \in OpRecords /\ o.pc \in {"advertise", "idle"}
      /\ o.pc = "advertise" => o.item = op[p].item /\ o.q = q
  BY <1>1 DEF OpRecords, OpSteps, Idle, Queues, Pointers
<1>3. op' \in [Contexts -> OpRecords] /\ \A r \in Contexts : op'[r] = IF r = p THEN o ELSE op[r]
  BY <1>1, <1>2 DEF ListInv, ListType
<1>4. /\ p \in Mutators /\ op[p].item \in Kin(q) \cap alive
      /\ Len(order[q]) > 0 /\ order[q][Len(order[q])] = op[p].item
  BY <1>1 DEF ListInv, OpKnows
<1> HIDE DEF o
<1>5. \A r \in Contexts : r # p => op[r].pc = "idle"
  BY <1>1, OthersIdle
<1>6. tail' \in [Queues -> Chains] /\ \A r \in Queues : tail'[r] = IF r = q THEN op[p].item ELSE tail[r]
  BY <1>1, <1>4, QueueFacts DEF ListInv, ListType
<1>7. ListType' /\ MembersAlive' /\ LinksStay'
  BY <1>1, <1>3, <1>6 DEF ListInv, ListType, MembersAlive, LinksStay
<1>8. QueueIntact'
  <2>1. \A r \in Queues : r # q => ~TailPending(r)
    BY <1>1, <1>5 DEF TailPending
  <2>2. op[p].item = Place(q, Len(order[q]))
    BY <1>4 DEF Place
  <2>3. \A r \in Queues : \A i : Place(r, i)' = Place(r, i)
    BY <1>1 DEF Place
  <2> QED
    BY <1>1, <1>6, <2>1, <2>2, <2>3 DEF ListInv, QueueIntact
<1>9. \A r \in Contexts : OpKnows(r)'
  BY <1>1, <1>2, <1>3, <1>4, <1>5 DEF OpKnows, Mutators
<1> QED
  BY <1>7, <1>8, <1>9 DEF ListInv

LEMMA SearchKeepsList ==
    ASSUME ListInv, NEW p \in Contexts, Search(p)
    PROVE  ListInv'
<1> DEFINE c == op[p].item
           q == op[p].q
           w == op[p].wrap
           n == Len(order[q])
           o == IF w = Null THEN [op[p] EXCEPT !.pc = "free"]
                ELSE IF link[w] = c THEN [op[p] EXCEPT !.pc = "detach"]
                ELSE [op[p] EXCEPT !.wrap = link[w]]
<1>1. /\ op[p].pc = "search" /\ op[p] \in OpRecords
      /\ op' = [op EXCEPT ![p] = o] /\ UNCHANGED <<alive, link, tail, order>>
  BY DEF Search, At, ListInv, ListType
<1>2. /\ p \in Mutators /\ q \in Queues /\ c \in Kin(q) \cap alive /\ c \in Channels
      /\ w = Null => c \notin Members(q)
      /\ w # Null => \E i \in 0 .. n : w = Place(q, i) /\ \A j \in 1 .. i : order[q][j] # c
  BY <1>1 DEF ListInv, OpKnows, Kin, OpRecords
<1>3. n \in Nat /\ (\A i \in 0 .. n : Place(q, i) \in Chains) /\ c # Null
  BY <1>2, Places, QueueFacts
<1>4. w # Null => w \in Chains /\ link[w] \in Pointers
  BY <1>2, <1>3 DEF ListInv, ListType
<1>5. o \in OpRecords /\ o.pc \in {"free", "detach", "search"} /\ o.q = q /\ o.item = c
  BY <1>1, <1>4 DEF OpRecords, OpSteps
<1>6. op'[p] = o
  BY <1>1 DEF ListInv, ListType
<1>7. CASE w = Null
  <2>1. o.pc = "free"
    BY <1>1, <1>7 DEF OpRecords
  <2> HIDE DEF o, q, c
  <2>2. OpKnows(p)'
    BY <1>1, <1>2, <1>5, <1>6, <1>7, <2>1 DEF OpKnows, Members, Mutators
  <2> QED
    BY <1>1, <1>5, <2>1, <2>2, OthersIdle, MoveKeepsList
<1>8. CASE w # Null
  <2>1. PICK i \in 0 .. n : w = Place(q, i) /\ \A j \in 1 .. i : order[q][j] # c
    BY <1>2, <1>8
  <2>2. link[w] = IF i = n THEN Null ELSE Place(q, i + 1)
    BY <1>2, <2>1 DEF ListInv, QueueIntact
  <2>3. CASE link[w] = c
    <3>1. o.pc = "detach" /\ o.wrap = w
      BY <1>1, <1>8, <2>3 DEF OpRecords
    <3>2. /\ i + 1 \in 1 .. n /\ order[q][i + 1] = c /\ w = Place(q, (i + 1) - 1)
      BY <1>3, <2>1, <2>2, <2>3 DEF Place
    <3> HIDE DEF o, q, c, w
    <3>3. OpKnows(p)'
      BY <1>1, <1>2, <1>5, <1>6, <3>1, <3>2 DEF OpKnows, Members, Mutators, Place, n
    <3> QED
      BY <1>1, <1>5, <3>1, <3>3, OthersIdle, MoveKeepsList
  <2>4. CASE link[w] # c /\ i # n
    <3>1. o.pc = "search" /\ o.wrap = link[w]
      BY <1>1, <1>8, <2>4 DEF OpRecords
    <3>2. i + 1 \in 1 .. n /\ Place(q, i + 1) = order[q][i + 1] /\ link[w] = Place(q, i + 1)
      BY <1>3, <2>1, <2>2, <2>4 DEF Place
    <3>3. i + 1 \in 0 .. n /\ \A j \in 1 .. i + 1 : order[q][j] # c
      BY <1>3, <2>1, <2>4, <3>2
    <3>6. \E k \in 0 .. Len(order'[q]) : /\ link[w] = IF k = 0 THEN q ELSE order'[q][k]
                                         /\ \A j \in 1 .. k : order'[q][j] # c
      BY <1>1, <3>2, <3>3 DEF Place
    <3>4. link[w] # Null
      BY <1>2, <1>3, <3>2, ChannelsAssumption DEF Pointers
    <3> HIDE DEF o, q, c, w
    <3>5. OpKnows(p)'
      BY <1>1, <1>2, <1>5, <1>6, <3>1, <3>4, <3>6 DEF OpKnows, Mutators, Place
    <3> QED
      BY <1>1, <1>5, <3>1, <3>5, OthersIdle, MoveKeepsList
  <2>5. CASE link[w] # c /\ i = n
    <3>1. o.pc = "search" /\ o.wrap = Null
      BY <1>1, <1>8, <2>2, <2>5 DEF OpRecords
    <3>2. c \notin Members(q)
      BY <2>1, <2>5 DEF Members
    <3> HIDE DEF o, q, c, w
    <3>3. OpKnows(p)'
      BY <1>1, <1>2, <1>5, <1>6, <3>1, <3>2 DEF OpKnows, Members, Mutators
    <3> QED
      BY <1>1, <1>5, <3>1, <3>3, OthersIdle, MoveKeepsList
  <2> QED
    BY <2>3, <2>4, <2>5
<1> QED
  BY <1>7, <1>8

\* The tail pointer of a queue on which no append or remove is half done.
LEMMA TailAtEnd ==
    ASSUME ListInv, NEW p \in Contexts, op[p].pc \notin {"idle", "ending", "adjust"},
           NEW q \in Queues
    PROVE  ~TailPending(q) /\ tail[q] = Place(q, Len(order[q]))
<1>1. ~TailPending(q)
  BY OthersIdle DEF TailPending
<1> QED
  BY <1>1 DEF ListInv, QueueIntact

LEMMA AdjustKeepsList ==
    ASSUME ListInv, NEW p \in Contexts, Adjust(p)
    PROVE  ListInv'
<1> DEFINE q == op[p].q
           w == op[p].wrap
           n == Len(order[q])
           o == [op[p] EXCEPT !.pc = "free"]
<1>1. /\ op[p].pc = "adjust" /\ op[p] \in OpRecords /\ q \in Queues
      /\ tail' = IF link[w] = Null THEN [tail EXCEPT ![q] = w] ELSE tail
      /\ op' = [op EXCEPT ![p] = o] /\ UNCHANGED <<alive, link, order>>
  BY DEF Adjust, At, Goto, ListInv, ListType, OpRecords
<1>2. o \in OpRecords /\ o.pc = "free" /\ o.q = q /\ o.item = op[p].item
  BY <1>1 DEF OpRecords, OpSteps
<1>3. op' \in [Contexts -> OpRecords] /\ \A r \in Contexts : op'[r] = IF r = p THEN o ELSE op[r]
  BY <1>1, <1>2 DEF ListInv, ListType
<1>4. PICK i \in 0 .. n : w = Place(q, i) /\ (i < n => tail[q] = Place(q, n))
  BY <1>1 DEF ListInv, OpKnows
<1>5. /\ p \in Mutators /\ op[p].item \in Kin(q) \cap alive /\ op[p].item \notin Members(q)
  BY <1>1 DEF ListInv, OpKnows
<1>6. \A r \in Contexts : r # p => op[r].pc = "idle"
  BY <1>1, OthersIdle
<1> HIDE DEF o
<1>7. n \in Nat /\ \A j \in 0 .. n : Place(q, j) \in Chains
  BY <1>1, Places, QueueFacts
<1>8. link[w] = Null <=> i = n
  <2>1. link[w] = IF i = n THEN Null ELSE Place(q, i + 1)
    BY <1>1, <1>4 DEF ListInv, QueueIntact
  <2>2. i # n => i + 1 \in 0 .. n
    BY <1>7
  <2> QED
    BY <1>7, <2>1, <2>2, ChannelsAssumption
<1>9. tail' \in [Queues -> Chains] /\ \A r \in Queues : tail'[r] = IF r = q THEN Place(q, n) ELSE tail[r]
  BY <1>1, <1>4, <1>7, <1>8 DEF ListInv, ListType
<1>10. ListType' /\ MembersAlive' /\ LinksStay'
  BY <1>1, <1>3, <1>9 DEF ListInv, ListType, MembersAlive, LinksStay
<1>11. QueueIntact'
  <2>1. \A r \in Queues : r # q => ~TailPending(r)
    BY <1>1, <1>6 DEF TailPending
  <2>3. \A r \in Queues : \A j : Place(r, j)' = Place(r, j)
    BY <1>1 DEF Place
  <2> QED
    BY <1>1, <1>9, <2>1, <2>3 DEF ListInv, QueueIntact
<1>12. \A r : Members(r)' = Members(r)
  BY <1>1 DEF Members
<1>13. \A r \in Contexts : OpKnows(r)'
  BY <1>1, <1>2, <1>3, <1>5, <1>6, <1>12 DEF OpKnows, Mutators
<1> QED
  BY <1>10, <1>11, <1>13 DEF ListInv

LEMMA CoupleKeepsList ==
    ASSUME ListInv, NEW p \in Contexts, Couple(p)
    PROVE  ListInv'
<1> DEFINE c == op[p].item
           o == [op[p] EXCEPT !.pc = "ending"]
<1>0. PICK q \in Queues : q = op[p].q
  BY DEF ListInv, ListType, OpRecords
<1>00. PICK n \in Nat : n = Len(order[q])
  BY LenProperties DEF ListInv, ListType
<1>1. /\ op[p].pc = "couple" /\ op[p] \in OpRecords
      /\ link' = [link EXCEPT ![tail[q]] = c]
      /\ order' = [order EXCEPT ![q] = Append(@, c)]
      /\ op' = [op EXCEPT ![p] = o] /\ UNCHANGED <<alive, tail>>
  BY <1>0 DEF Couple, At, Goto, ListInv, ListType
<1>2. o \in OpRecords /\ o.pc = "ending" /\ o.q = q /\ o.item = c
  BY <1>0, <1>1 DEF OpRecords, OpSteps
<1>3. op' \in [Contexts -> OpRecords] /\ \A r \in Contexts : op'[r] = IF r = p THEN o ELSE op[r]
  BY <1>1, <1>2 DEF ListInv, ListType
<1>4. /\ p \in Mutators /\ c \in Kin(q) \cap alive /\ c \notin Members(q)
      /\ c \in Channels /\ QueueOf(c) = q /\ link[c] = Null
  BY <1>0, <1>1 DEF ListInv, OpKnows, Kin
<1>5. \A r \in Contexts : r # p => op[r].pc = "idle"
  BY <1>1, OthersIdle
<1>6. \A r \in Queues : ~TailPending(r) /\ tail[r] = Place(r, Len(order[r]))
  BY <1>1, TailAtEnd
<1> HIDE DEF o, c
<1>7. /\ n \in Nat
      /\ \A r \in Queues : \A i \in 0 .. Len(order[r]) :
           Place(r, i) \in Kin(r) \cup {r} /\ Place(r, i) \in Chains /\ Place(r, i) # c
      /\ \A i, j \in 0 .. n : Place(q, i) = Place(q, j) => i = j
  BY <1>00, <1>4, Places, QueueFacts, OffQueue
<1>8. /\ order' \in [Queues -> Seq(Channels)]
      /\ \A r \in Queues : r # q => order'[r] = order[r]
      /\ Len(order'[q]) = n + 1 /\ order'[q][n + 1] = c
      /\ \A i \in 1 .. n : order'[q][i] = order[q][i]
  <2>1. order[q] \in Seq(Channels)
    BY DEF ListInv, ListType
  <2>2. order'[q] = Append(order[q], c)
    BY <1>1 DEF ListInv, ListType
  <2> QED
    BY <1>00, <1>1, <1>4, <2>1, <2>2, AppendProperties DEF ListInv, ListType
<1>9. /\ \A r \in Queues : r # q => \A i : Place(r, i)' = Place(r, i)
      /\ \A i \in 0 .. n : Place(q, i)' = Place(q, i)
      /\ Place(q, n + 1)' = c
  BY <1>00, <1>7, <1>8 DEF Place
<1>10. link' \in [Chains -> Pointers]
       /\ \A x \in Chains : link'[x] = IF x = Place(q, n) THEN c ELSE link[x]
  BY <1>00, <1>1, <1>4, <1>6, <1>00, <1>7, QueueFacts DEF ListInv, ListType, Pointers
<1>11. ListType'
  BY <1>1, <1>3, <1>8, <1>10 DEF ListInv, ListType
<1>12. MembersAlive'
  <2>1. ASSUME NEW r \in Queues, NEW i \in 1 .. Len(order'[r])
        PROVE  order'[r][i] \in Kin(r) \cap alive
    <3>1. CASE r = q /\ i = n + 1
      BY <1>4, <1>8, <3>1
    <3>2. CASE ~(r = q /\ i = n + 1)
      BY <1>00, <1>7, <1>8, <3>2 DEF ListInv, MembersAlive
    <3> QED
      BY <3>1, <3>2
  <2> QED
    BY <1>1, <2>1 DEF MembersAlive, Kin
<1>13. LinksStay'
  <2>1. ASSUME NEW r \in Queues, NEW x \in Kin(r) \cup {r}
        PROVE  link'[x] \in Kin(r) \cup {Null}
    <3>1. x \in Chains /\ (x = Place(q, n) => r = q)
      BY <1>00, <1>7, QueueFacts
    <3> QED
      BY <1>4, <1>10, <3>1 DEF ListInv, LinksStay
  <2> QED
    BY <2>1 DEF LinksStay, Kin
<1>14. QueueIntact'
  <2>1. ASSUME NEW r \in Queues, NEW i \in 0 .. Len(order'[r])
        PROVE  link'[Place(r, i)'] = IF i = Len(order'[r]) THEN Null ELSE Place(r, i + 1)'
    <3>1. CASE r # q
      <4>1. Place(r, i) \in Chains /\ Place(r, i) # Place(q, n)
        <5>1. Place(r, i) \in Kin(r) \cup {r} /\ Place(r, i) \in Chains
          BY <1>00, <1>7, <1>8, <3>1
        <5>2. Place(q, n) \in Kin(q) \cup {q}
          BY <1>00, <1>7
        <5> QED
          BY <3>1, <5>1, <5>2, QueueFacts
      <4> QED
        BY <1>8, <1>9, <1>10, <3>1, <4>1 DEF ListInv, QueueIntact
    <3>2. CASE r = q /\ i < n
      <4>1. Place(q, i) \in Chains /\ Place(q, i) # Place(q, n)
        BY <1>00, <1>7, <3>2
      <4>2. link[Place(q, i)] = Place(q, i + 1) /\ i + 1 \in 0 .. n
        BY <1>00, <1>7, <3>2 DEF ListInv, QueueIntact
      <4> QED
        BY <1>00, <1>7, <1>8, <1>9, <1>10, <3>2, <4>1, <4>2
    <3>3. CASE r = q /\ i = n
      BY <1>00, <1>7, <1>8, <1>9, <1>10, <3>3
    <3>4. CASE r = q /\ i = n + 1
      BY <1>4, <1>00, <1>7, <1>8, <1>9, <1>10, <3>4, QueueFacts
    <3> QED
      BY <1>00, <1>7, <1>8, <3>1, <3>2, <3>3, <3>4
  <2>2. ASSUME NEW r \in Queues, NEW i \in 1 .. Len(order'[r]), NEW j \in 1 .. Len(order'[r]),
               order'[r][i] = order'[r][j]
        PROVE  i = j
    <3>1. CASE r # q
      BY <1>8, <2>2, <3>1 DEF ListInv, QueueIntact
    <3>2. CASE r = q
      <4>1. \A k \in 1 .. n : order'[q][k] # c
        <5>1. ASSUME NEW k \in 1 .. n
              PROVE  order'[q][k] # c
          <6>1. k \in 0 .. Len(order[q]) /\ Place(q, k) = order[q][k]
            BY <1>00 DEF Place
          <6> QED
            BY <1>00, <1>7, <1>8, <6>1
        <5> QED
          BY <5>1
      <4>2. CASE i \in 1 .. n /\ j \in 1 .. n
        BY <1>00, <1>8, <2>2, <3>2, <4>2 DEF ListInv, QueueIntact
      <4>3. CASE ~(i \in 1 .. n /\ j \in 1 .. n)
        BY <1>00, <1>8, <2>2, <3>2, <4>1, <4>3
      <4> QED
        BY <4>2, <4>3
    <3> QED
      BY <3>1, <3>2
  <2>3. ASSUME NEW r \in Queues, ~TailPending(r)'
        PROVE  tail'[r] = Place(r, Len(order[r]))'
    <3>1. r # q
      BY <1>2, <1>3, <2>3 DEF TailPending
    <3> QED
      BY <1>1, <1>6, <1>8, <1>9, <3>1 DEF Place
  <2> QED
    BY <2>1, <2>2, <2>3 DEF QueueIntact
<1>15. ASSUME NEW r \in Contexts
       PROVE  OpKnows(r)'
  <2>1. CASE r = p
    BY <1>1, <1>2, <1>3, <1>4, <1>00, <1>7, <1>8, <2>1 DEF OpKnows, Mutators, Kin
  <2>2. CASE r # p
    BY <1>3, <1>5, <2>2 DEF OpKnows
  <2> QED
    BY <2>1, <2>2
<1> QED
  BY <1>11, <1>12, <1>13, <1>14, <1>15 DEF ListInv

LEMMA DetachKeepsList ==
    ASSUME ListInv, NEW p \in Contexts, Detach(p)
    PROVE  ListInv'
<1> DEFINE c == op[p].item
           o == [op[p] EXCEPT !.pc = "adjust"]
<1>1. PICK q \in Queues : q = op[p].q
  BY DEF ListInv, ListType, OpRecords
<1>2. PICK n \in Nat : n = Len(order[q])
  BY LenProperties DEF ListInv, ListType
<1>3. PICK i \in 1 .. n : order[q][i] = c /\ op[p].wrap = Place(q, i - 1)
  BY <1>1, <1>2 DEF Detach, At, ListInv, OpKnows
<1>4. /\ op[p].pc = "detach" /\ op[p] \in OpRecords
      /\ link' = [link EXCEPT ![Place(q, i - 1)] = link[link[Place(q, i - 1)]]]
      /\ order' = [order EXCEPT ![q] = RemoveAt(@, CHOOSE k \in 1 .. Len(@) : @[k] = c)]
      /\ op' = [op EXCEPT ![p] = o] /\ UNCHANGED <<alive, tail>>
  BY <1>1, <1>3 DEF Detach, At, Goto, ListInv, ListType
<1>5. o \in OpRecords /\ o.pc = "adjust" /\ o.q = q /\ o.item = c /\ o.wrap = Place(q, i - 1)
  BY <1>1, <1>3, <1>4 DEF OpRecords, OpSteps
<1>6. op' \in [Contexts -> OpRecords] /\ \A r \in Contexts : op'[r] = IF r = p THEN o ELSE op[r]
  BY <1>4, <1>5 DEF ListInv, ListType
<1>7. p \in Mutators /\ c \in Kin(q) \cap alive /\ c # Null
  BY <1>1, <1>4, QueueFacts DEF ListInv, OpKnows
<1>8. \A r \in Contexts : r # p => op[r].pc = "idle"
  BY <1>4, OthersIdle
<1>9. \A r \in Queues : ~TailPending(r) /\ tail[r] = Place(r, Len(order[r]))
  BY <1>4, TailAtEnd
<1> HIDE DEF o, c
<1>10. /\ \A r \in Queues : \A k \in 0 .. Len(order[r]) :
            Place(r, k) \in Kin(r) \cup {r} /\ Place(r, k) \in Chains
       /\ \A j, k \in 0 .. n : Place(q, j) = Place(q, k) => j = k
       /\ \A j \in 1 .. n : Place(q, j) = order[q][j]
       /\ \A j \in 0 .. n : link[Place(q, j)] = IF j = n THEN Null ELSE Place(q, j + 1)
  <2>1. \A j \in 1 .. n : Place(q, j) = order[q][j]
    BY DEF Place
  <2> QED
    BY <1>2, <2>1, Places, QueueFacts DEF ListInv, QueueIntact
<1>11. /\ order' \in [Queues -> Seq(Channels)]
       /\ \A r \in Queues : r # q => order'[r] = order[r]
       /\ Len(order'[q]) = n - 1
       /\ \A j \in 1 .. n - 1 : order'[q][j] = IF j < i THEN order[q][j] ELSE order[q][j + 1]
  <2>1. order[q] \in Seq(Channels)
    BY DEF ListInv, ListType
  <2>2. (CHOOSE k \in 1 .. Len(order[q]) : order[q][k] = c) = i
    BY <1>2, <1>3 DEF ListInv, QueueIntact
  <2>3. order'[q] = RemoveAt(order[q], i)
    BY <1>4, <2>2 DEF ListInv, ListType
  <2>4. /\ RemoveAt(order[q], i) \in Seq(Channels)
        /\ Len(RemoveAt(order[q], i)) = n - 1
        /\ \A j \in 1 .. n - 1 :
             RemoveAt(order[q], i)[j] = IF j < i THEN order[q][j] ELSE order[q][j + 1]
    BY <1>2, <2>1, RemoveAtProperties
  <2> QED
    BY <1>4, <2>3, <2>4 DEF ListInv, ListType
<1>12. /\ \A r \in Queues : r # q => \A k : Place(r, k)' = Place(r, k)
       /\ \A k \in 0 .. n - 1 : Place(q, k)' = Place(q, IF k < i THEN k ELSE k + 1)
  <2>1. ASSUME NEW r \in Queues, r # q, NEW k
        PROVE  Place(r, k)' = Place(r, k)
    BY <1>11, <2>1 DEF Place
  <2>2. ASSUME NEW k \in 0 .. n - 1
        PROVE  Place(q, k)' = Place(q, IF k < i THEN k ELSE k + 1)
    <3>1. CASE k = 0
      BY <1>3, <3>1 DEF Place
    <3>2. CASE k # 0
      BY <1>11, <3>2 DEF Place
    <3> QED
      BY <3>1, <3>2
  <2> QED
    BY <2>1, <2>2
<1>13. /\ link' \in [Chains -> Pointers]
       /\ \A x \in Chains : link'[x] = IF x = Place(q, i - 1)
                                       THEN (IF i = n THEN Null ELSE Place(q, i + 1)) ELSE link[x]
  <2>1. i - 1 \in 0 .. n /\ i \in 0 .. n /\ i - 1 # n /\ (i - 1) + 1 = i
    BY <1>3
  <2>2. link[Place(q, i - 1)] = Place(q, i)
    BY <1>10, <2>1
  <2>3. link[link[Place(q, i - 1)]] = IF i = n THEN Null ELSE Place(q, i + 1)
    BY <1>10, <2>1, <2>2
  <2>4. Place(q, i - 1) \in Chains /\ Place(q, i) \in Chains
    BY <1>2, <1>10, <2>1
  <2>5. link[link[Place(q, i - 1)]] \in Pointers
    BY <2>2, <2>4 DEF ListInv, ListType
  <2> QED
    BY <1>4, <2>3, <2>4, <2>5 DEF ListInv, ListType
<1>14. ListType'
  BY <1>4, <1>6, <1>11, <1>13 DEF ListInv, ListType
<1>15. MembersAlive'
  <2>1. ASSUME NEW r \in Queues, NEW k \in 1 .. Len(order'[r])
        PROVE  order'[r][k] \in Kin(r) \cap alive
    <3>1. \A j \in 1 .. Len(order[r]) : order[r][j] \in Kin(r) \cap alive
      BY DEF ListInv, MembersAlive
    <3>2. CASE r # q
      BY <1>11, <2>1, <3>1, <3>2
    <3>3. CASE r = q
      <4>1. k \in 1 .. n - 1
        BY <1>11, <2>1, <3>3
      <4>2. k \in 1 .. Len(order[q]) /\ k + 1 \in 1 .. Len(order[q])
        BY <1>2, <4>1
      <4>3. order'[q][k] = order[q][k] \/ order'[q][k] = order[q][k + 1]
        BY <1>11, <4>1
      <4> QED
        BY <3>1, <3>3, <4>2, <4>3
    <3> QED
      BY <3>2, <3>3
  <2> QED
    BY <1>4, <2>1 DEF MembersAlive, Kin
<1>16. LinksStay'
  <2>1. ASSUME NEW r \in Queues, NEW x \in Kin(r) \cup {r}
        PROVE  link'[x] \in Kin(r) \cup {Null}
    <3>1. x \in Chains
      BY QueueFacts
    <3>2. CASE x = Place(q, i - 1)
      <4>1. i - 1 \in 0 .. Len(order[q]) /\ (i # n => i + 1 \in 1 .. Len(order[q]))
        BY <1>2, <1>3
      <4>2. r = q
        BY <1>10, <3>2, <4>1, QueueFacts
      <4>3. i # n => Place(q, i + 1) \in Kin(q)
        BY <1>2, <1>10, <4>1 DEF ListInv, MembersAlive
      <4> QED
        BY <1>13, <3>1, <3>2, <4>2, <4>3
    <3>3. CASE x # Place(q, i - 1)
      BY <1>13, <3>1, <3>3 DEF ListInv, LinksStay
    <3> QED
      BY <3>2, <3>3
  <2> QED
    BY <2>1 DEF LinksStay, Kin
<1>17. QueueIntact'
  <2>1. ASSUME NEW r \in Queues, NEW k \in 0 .. Len(order'[r])
        PROVE  link'[Place(r, k)'] = IF k = Len(order'[r]) THEN Null ELSE Place(r, k + 1)'
    <3>1. CASE r # q
      <4>1. i - 1 \in 0 .. Len(order[q])
        BY <1>2, <1>3
      <4>2. Place(r, k) \in Kin(r) \cup {r} /\ Place(r, k) \in Chains
        BY <1>10, <1>11, <3>1
      <4>3. Place(r, k) # Place(q, i - 1)
        BY <1>10, <3>1, <4>1, <4>2, QueueFacts
      <4> QED
        BY <1>11, <1>12, <1>13, <3>1, <4>2, <4>3 DEF ListInv, QueueIntact
    <3>2. CASE r = q
      <4> DEFINE m == IF k < i THEN k ELSE k + 1
      <4>1. k \in 0 .. n - 1 /\ m \in 0 .. n /\ Place(q, k)' = Place(q, m)
        BY <1>11, <1>12, <3>2
      <4>2. Place(q, m) \in Chains
        BY <1>2, <1>10, <4>1
      <4>3. CASE k = i - 1
        <5>1. m = i - 1
          BY <4>3
        <5>2. k # n - 1 => Place(q, k + 1)' = Place(q, i + 1)
          BY <1>12, <4>1, <4>3
        <5> QED
          BY <1>11, <1>13, <3>2, <4>1, <4>2, <4>3, <5>1, <5>2
      <4>4. CASE k # i - 1
        <5>1. m # i - 1 /\ (m = n <=> k = n - 1)
          BY <4>1, <4>4
        <5>2. Place(q, m) # Place(q, i - 1) /\ i - 1 \in 0 .. n
          BY <1>10, <4>1, <5>1
        <5>3. link'[Place(q, m)] = IF m = n THEN Null ELSE Place(q, m + 1)
          BY <1>10, <1>13, <4>1, <4>2, <5>2
        <5>4. k # n - 1 => Place(q, k + 1)' = Place(q, m + 1)
          BY <1>12, <4>1, <4>4
        <5> QED
          BY <1>11, <3>2, <4>1, <5>1, <5>3, <5>4
      <4> QED
        BY <4>3, <4>4
    <3> QED
      BY <3>1, <3>2
  <2>2. ASSUME NEW r \in Queues, NEW j \in 1 .. Len(order'[r]), NEW k \in 1 .. Len(order'[r]),
               order'[r][j] = order'[r][k]
        PROVE  j = k
    <3>1. CASE r # q
      BY <1>11, <2>2, <3>1 DEF ListInv, QueueIntact
    <3>2. CASE r = q
      <4>1. \A x, y \in 1 .. n : order[q][x] = order[q][y] => x = y
        BY <1>2 DEF ListInv, QueueIntact
      <4> DEFINE x == IF j < i THEN j ELSE j + 1
                 y == IF k < i THEN k ELSE k + 1
      <4>2. x \in 1 .. n /\ y \in 1 .. n /\ order[q][x] = order[q][y]
        BY <1>11, <2>2, <3>2
      <4>3. x = y
        BY <4>1, <4>2
      <4> QED
        BY <3>2, <1>11, <4>3
    <3> QED
      BY <3>1, <3>2
  <2>3. ASSUME NEW r \in Queues, ~TailPending(r)'
        PROVE  tail'[r] = Place(r, Len(order[r]))'
    <3>1. r # q
      BY <1>5, <1>6, <2>3 DEF TailPending
    <3> QED
      BY <1>4, <1>9, <1>11, <1>12, <3>1 DEF Place
  <2> QED
    BY <2>1, <2>2, <2>3 DEF QueueIntact
<1>18. ASSUME NEW r \in Contexts
       PROVE  OpKnows(r)'
  <2>1. CASE r = p
    <3>1. c \notin {order'[q][k] : k \in 1 .. Len(order'[q])}
      <4>1. ASSUME NEW k \in 1 .. n - 1
            PROVE  order'[q][k] # c
        <5> DEFINE m == IF k < i THEN k ELSE k + 1
        <5>1. m \in 1 .. n /\ m # i /\ order'[q][k] = order[q][m]
          BY <1>11
        <5> HIDE DEF m
        <5> QED
          BY <1>2, <1>3, <5>1 DEF ListInv, QueueIntact
      <4> QED
        BY <1>11, <4>1
    <3>2. /\ i - 1 \in 0 .. Len(order'[q])
          /\ Place(q, i - 1) = IF i - 1 = 0 THEN q ELSE order'[q][i - 1]
          /\ i - 1 < Len(order'[q]) =>
               tail'[q] = IF Len(order'[q]) = 0 THEN q ELSE order'[q][Len(order'[q])]
      <4>1. i - 1 \in 0 .. n - 1
        BY <1>3
      <4>2. i - 1 < n - 1 => n - 1 # 0 /\ order'[q][n - 1] = order[q][n] /\ tail[q] = order[q][n]
        BY <1>2, <1>9, <1>10, <1>11, <4>1
      <4> QED
        BY <1>4, <1>11, <4>1, <4>2 DEF Place
    <3>3. /\ op'[r].pc = "adjust" /\ op'[r].q = q
          /\ op'[r].item = c /\ op'[r].wrap = Place(q, i - 1)
      BY <1>5, <1>6, <2>1
    <3>4. r \in Mutators /\ c \in Kin(q) \cap alive'
      BY <1>4, <1>7, <2>1
    <3>5. c \notin Members(q)'
      BY <3>1 DEF Members
    <3>6. \E k \in 0 .. Len(order'[q]) :
            /\ op'[r].wrap = Place(q, k)'
            /\ k < Len(order'[q]) => tail'[q] = Place(q, Len(order[q]))'
      BY <3>2, <3>3 DEF Place
    <3> QED
      BY <3>3, <3>4, <3>5, <3>6 DEF OpKnows, Mutators, Kin
  <2>2. CASE r # p
    BY <1>6, <1>8, <2>2 DEF OpKnows
  <2> QED
    BY <2>1, <2>2
<1> QED
  BY <1>14, <1>15, <1>16, <1>17, <1>18 DEF ListInv

-----------------------------------------------------------------------------
LEMMA InitHoldsList == Init => ListInv
<1> SUFFICES ASSUME Init PROVE ListInv
  OBVIOUS
<1>1. \A q \in Queues : order[q] = <<>> /\ Len(order[q]) = 0 /\ link[q] = Null /\ tail[q] = q
  BY QueueFacts DEF Init
<1>2. ListType
  <2>1. Idle \in OpRecords
    BY DEF Idle, OpRecords, OpSteps, Queues, Pointers
  <2>2. <<>> \in Seq(Channels)
    BY EmptySeq
  <2> QED
    BY <2>1, <2>2 DEF Init, ListType, Pointers, Chains
<1>3. QueueIntact
  BY <1>1 DEF QueueIntact, Place
<1>4. MembersAlive
  BY <1>1 DEF MembersAlive
<1>5. LinksStay
  BY QueueFacts DEF Init, LinksStay
<1>6. \A p \in Contexts : OpKnows(p)
  BY DEF Init, Idle, OpKnows
<1> QED
  BY <1>2, <1>3, <1>4, <1>5, <1>6 DEF ListInv

LEMMA NextKeepsList ==
    ASSUME ListInv, [Next]_vars
    PROVE  ListInv'
<1>1. CASE UNCHANGED vars
  BY <1>1, LoopsKeepList DEF vars
<1>2. ASSUME NEW p \in Contexts, UserCode(p)
      PROVE  ListInv'
  <2>1. ASSUME NEW c \in Channels, Construct(p, c) \/ Register(p, c) \/ Destroy(p, c)
        PROVE  ListInv'
    BY <2>1, ConstructKeepsList, RegisterKeepsList, DestroyKeepsList
  <2>2. ASSUME NEW c \in Pubs, Publish(p, c)
        PROVE  ListInv'
    BY <2>2, LoopsKeepList DEF Publish
  <2>3. ASSUME NEW s \in Subjects, Fetch(p, s)
        PROVE  ListInv'
    BY <2>3, LoopsKeepList DEF Fetch
  <2> QED
    BY <1>2, <2>1, <2>2, <2>3 DEF UserCode
<1>3. ASSUME NEW p \in Contexts, Progress(p)
      PROVE  ListInv'
  <2>1. CASE AppendStep(p)
    BY <2>1, BindKeepsList, TerminateKeepsList, CoupleKeepsList, EndingKeepsList,
       AdvertiseKeepsList DEF AppendStep
  <2>2. CASE RemoveStep(p)
    BY <2>2, SearchKeepsList, DetachKeepsList, AdjustKeepsList, FreeKeepsList DEF RemoveStep
  <2>3. CASE Probe(p) \/ Visit(p)
    BY <2>3, LoopsKeepList DEF Probe, Visit
  <2> QED
    BY <1>3, <2>1, <2>2, <2>3 DEF Progress
<1>4. ASSUME NEW p \in Contexts, Return(p)
      PROVE  ListInv'
  BY <1>4, LoopsKeepList DEF Return
<1> QED
  BY <1>1, <1>2, <1>3, <1>4 DEF Next

LEMMA ListInvariant == Spec => []ListInv
<1>1. ListInv /\ [Next]_vars => ListInv'
  BY NextKeepsList
<1> QED
  BY <1>1, InitHoldsList, PTL DEF Spec

\* However registrations, removals, publications and receptions interleave, both
\* queues stay well formed as long as one context changes them: from each head
\* the links run through the registered channels in order (Chain.cc, Queue.cc).
THEOREM QueuesStayIntact == Spec => []QueueIntact
<1>1. ListInv => QueueIntact
  BY DEF ListInv
<1> QED
  BY <1>1, ListInvariant, PTL
-----------------------------------------------------------------------------
(* The loops over the subscribers: they never leave the subscribers' list.  *)

SoundWalks == {w \in WalkRecords : /\ w.sec \in Subs \cup {Null}
                                   /\ w.pc = "callback" => w.sec # Null}

WalksInv == bound \subseteq Channels /\ walks \in [Contexts -> Seq(SoundWalks)]

LEMMA PushWalk ==
    ASSUME WalksInv, NEW p \in Contexts, NEW w \in SoundWalks
    PROVE  [walks EXCEPT ![p] = Append(@, w)] \in [Contexts -> Seq(SoundWalks)]
<1>1. walks[p] \in Seq(SoundWalks)
  BY DEF WalksInv
<1>2. Append(walks[p], w) \in Seq(SoundWalks)
  BY <1>1, AppendProperties
<1> QED
  BY <1>2 DEF WalksInv

LEMMA TopWalk ==
    ASSUME WalksInv, NEW p \in Contexts, Walking(p)
    PROVE  /\ Top(p) \in SoundWalks
           /\ Pop(p) \in [Contexts -> Seq(SoundWalks)]
           /\ \A w \in SoundWalks : SetTop(p, w) \in [Contexts -> Seq(SoundWalks)]
<1>1. walks[p] \in Seq(SoundWalks) /\ walks[p] # <<>>
  BY DEF WalksInv, Walking
<1>2. Len(walks[p]) \in Nat /\ Len(walks[p]) \in 1 .. Len(walks[p])
  BY <1>1, LenProperties, EmptySeq
<1>3. Top(p) \in SoundWalks
  BY <1>1, <1>2, ElementOfSeq DEF Top
<1>4. SubSeq(walks[p], 1, Len(walks[p]) - 1) \in Seq(SoundWalks)
  BY <1>1, <1>2, SubSeqProperties
<1>5. \A w \in SoundWalks : [walks[p] EXCEPT ![Len(walks[p])] = w] \in Seq(SoundWalks)
  BY <1>1, <1>2, ExceptSeq
<1> QED
  BY <1>3, <1>4, <1>5 DEF WalksInv, Pop, SetTop

\* The links of the subscribers lead to subscribers.
LEMMA SubscriberLinks ==
    ASSUME ListInv
    PROVE  /\ link[Subscriber] \in Subs \cup {Null}
           /\ \A c \in Subs : link[c] \in Subs \cup {Null}
BY QueueFacts DEF ListInv, LinksStay, Queues

LEMMA FreshWalk ==
    ASSUME ListInv, NEW s \in Subjects, NEW step \in {"probe", "visit"}
    PROVE  StartWalk(s, step) \in SoundWalks
<1>1. Matching(s) \subseteq Subs
  BY QueueFacts DEF Matching, Members, ListInv, MembersAlive, Queues
<1> QED
  BY <1>1, SubscriberLinks DEF StartWalk, SoundWalks, WalkRecords, WalkSteps, Pointers, Chains, Channels

\* Moving a loop on to a subscriber or to the end of the list.
LEMMA MovedWalk ==
    ASSUME NEW w \in SoundWalks, NEW x \in Subs \cup {Null}
    PROVE  /\ [w EXCEPT !.sec = x] \in WalkRecords
           /\ w.pc # "callback" => [w EXCEPT !.sec = x] \in SoundWalks
           /\ [w EXCEPT !.pc = "visit", !.sec = x] \in SoundWalks
           /\ w.sec # Null => [w EXCEPT !.pc = "callback", !.called = @ \cup {w.sec}] \in SoundWalks
BY DEF SoundWalks, WalkRecords, WalkSteps, Pointers, Chains, Channels

LEMMA DetachKeepsWalks ==
    ASSUME WalksInv, NEW p \in Contexts, Detach(p)
    PROVE  WalksInv'
<1> DEFINE f(r) == [i \in 1 .. Len(walks[r]) |->
                     [walks[r][i] EXCEPT !.due = @ \ {op[p].item}, !.called = @ \ {op[p].item}]]
<1>1. walks' = [r \in Contexts |-> f(r)] /\ bound' = bound
  BY DEF Detach
<1>2. ASSUME NEW r \in Contexts
      PROVE  f(r) \in Seq(SoundWalks)
  <2>1. walks[r] \in Seq(SoundWalks) /\ Len(walks[r]) \in Nat
    BY LenProperties DEF WalksInv
  <2>2. ASSUME NEW i \in 1 .. Len(walks[r])
        PROVE  [walks[r][i] EXCEPT !.due = @ \ {op[p].item}, !.called = @ \ {op[p].item}] \in SoundWalks
    <3>1. walks[r][i] \in SoundWalks
      BY <2>1, ElementOfSeq
    <3> QED
      BY <3>1 DEF SoundWalks, WalkRecords
  <2>3. f(r) \in [1 .. Len(walks[r]) -> SoundWalks]
    BY <2>2
  <2> HIDE DEF f
  <2> QED
    BY <2>1, <2>3, SeqDef
<1> QED
  BY <1>1, <1>2 DEF WalksInv

LEMMA NextKeepsWalks ==
    ASSUME ListInv, WalksInv, [Next]_vars
    PROVE  WalksInv'
<1>1. CASE UNCHANGED vars
  BY <1>1 DEF vars, WalksInv
<1>2. ASSUME NEW p \in Contexts, UserCode(p)
      PROVE  WalksInv'
  <2>1. ASSUME NEW c \in Channels, Construct(p, c) \/ Register(p, c) \/ Destroy(p, c)
        PROVE  WalksInv'
    BY <2>1 DEF Construct, Register, Destroy, WalksInv
  <2>2. ASSUME NEW c \in Pubs, Publish(p, c)
        PROVE  WalksInv'
    <3>1. SubjectOf[c] \in Subjects
      BY ChannelsAssumption DEF Channels
    <3> QED
      BY <2>2, <3>1, FreshWalk, PushWalk DEF Publish, WalksInv
  <2>3. ASSUME NEW s \in Subjects, Fetch(p, s)
        PROVE  WalksInv'
    <3>1. <<StartWalk(s, "probe")>> \in Seq(SoundWalks)
      BY FreshWalk
    <3> QED
      BY <2>3, <3>1 DEF Fetch, WalksInv
  <2> QED
    BY <1>2, <2>1, <2>2, <2>3 DEF UserCode
<1>3. ASSUME NEW p \in Contexts, Progress(p)
      PROVE  WalksInv'
  <2>1. CASE AppendStep(p)
    <3>1. CASE Bind(p)
      <4>1. op[p].item \in Channels
        BY <3>1 DEF Bind, At, ListInv, OpKnows, Kin
      <4> QED
        BY <3>1, <4>1 DEF Bind, WalksInv
    <3>2. CASE Terminate(p) \/ Couple(p) \/ Ending(p) \/ Advertise(p)
      BY <3>2 DEF Terminate, Couple, Ending, Advertise, WalksInv
    <3> QED
      BY <2>1, <3>1, <3>2 DEF AppendStep
  <2>2. CASE RemoveStep(p)
    <3>1. CASE Search(p) \/ Adjust(p) \/ Free(p)
      BY <3>1 DEF Search, Adjust, Free, WalksInv
    <3> QED
      BY <2>2, <3>1, DetachKeepsWalks DEF RemoveStep
  <2>3. CASE Probe(p)
    <3>1. bound' = bound /\ Walking(p) /\ Top(p).pc = "probe"
      BY <2>3 DEF Probe, Looping
    <3>2. Top(p) \in SoundWalks /\ Top(p).subject \in Subjects
      BY <3>1, TopWalk DEF SoundWalks, WalkRecords
    <3>3. Top(p).sec # Null => link[Top(p).sec] \in Subs \cup {Null}
      BY <3>2, SubscriberLinks DEF SoundWalks
    <3>4. \/ walks' = SetTop(p, StartWalk(Top(p).subject, "visit"))
          \/ walks' = Pop(p)
          \/ Top(p).sec # Null /\ walks' = SetTop(p, [Top(p) EXCEPT !.sec = link[Top(p).sec]])
      BY <2>3 DEF Probe
    <3>5. StartWalk(Top(p).subject, "visit") \in SoundWalks
      BY <3>2, FreshWalk
    <3>6. Top(p).sec # Null => [Top(p) EXCEPT !.sec = link[Top(p).sec]] \in SoundWalks
      BY <3>1, <3>2, <3>3, MovedWalk
    <3> QED
      BY <3>1, <3>4, <3>5, <3>6, TopWalk DEF WalksInv
  <2>4. CASE Visit(p)
    <3>1. bound' = bound /\ Walking(p) /\ Top(p).pc = "visit"
      BY <2>4 DEF Visit, Looping
    <3>2. Top(p) \in SoundWalks
      BY <3>1, TopWalk
    <3>3. Top(p).sec # Null => link[Top(p).sec] \in Subs \cup {Null}
      BY <3>2, SubscriberLinks DEF SoundWalks
    <3>4. \/ /\ Top(p).sec # Null
             /\ walks' = SetTop(p, [Top(p) EXCEPT !.pc = "callback", !.called = @ \cup {Top(p).sec}])
          \/ walks' = Pop(p)
          \/ Top(p).sec # Null /\ walks' = SetTop(p, [Top(p) EXCEPT !.sec = link[Top(p).sec]])
      BY <2>4 DEF Visit
    <3>5. Top(p).sec # Null => [Top(p) EXCEPT !.sec = link[Top(p).sec]] \in SoundWalks
      BY <3>1, <3>2, <3>3, MovedWalk
    <3>6. Top(p).sec # Null =>
            [Top(p) EXCEPT !.pc = "callback", !.called = @ \cup {Top(p).sec}] \in SoundWalks
      BY <3>2, MovedWalk
    <3> QED
      BY <3>1, <3>4, <3>5, <3>6, TopWalk DEF WalksInv
  <2> QED
    BY <1>3, <2>1, <2>2, <2>3, <2>4 DEF Progress
<1>4. ASSUME NEW p \in Contexts, Return(p)
      PROVE  WalksInv'
  <2>1. /\ bound' = bound /\ Walking(p) /\ Top(p).pc = "callback"
        /\ walks' = SetTop(p, [Top(p) EXCEPT !.pc = "visit", !.sec = link[Top(p).sec]])
    BY <1>4 DEF Return, Looping
  <2>2. Top(p) \in SoundWalks
    BY <2>1, TopWalk
  <2>3. link[Top(p).sec] \in Subs \cup {Null}
    BY <2>1, <2>2, SubscriberLinks DEF SoundWalks
  <2>4. [Top(p) EXCEPT !.pc = "visit", !.sec = link[Top(p).sec]] \in SoundWalks
    BY <2>2, <2>3, MovedWalk
  <2> QED
    BY <2>1, <2>4, TopWalk DEF WalksInv
<1> QED
  BY <1>1, <1>2, <1>3, <1>4 DEF Next

LEMMA InitHoldsWalks == Init => WalksInv
BY EmptySeq DEF Init, WalksInv

LEMMA WalksInvariant == Spec => [](ListInv /\ WalksInv)
<1>1. ListInv /\ WalksInv /\ [Next]_vars => (ListInv /\ WalksInv)'
  BY NextKeepsList, NextKeepsWalks
<1> QED
  BY <1>1, InitHoldsList, InitHoldsWalks, PTL DEF Spec

\* Type correctness: no operation ever stores a pointer that is not one, and a
\* loop over the subscribers (publish_local, fetch) stands on a subscriber or at
\* the end, never on a publisher or on a queue head.
THEOREM TypeCorrect == Spec => []TypeOK
<1>1. ListInv /\ WalksInv => TypeOK
  <2> SUFFICES ASSUME ListInv, WalksInv PROVE TypeOK
    OBVIOUS
  <2>1. SoundWalks \subseteq WalkRecords
    BY DEF SoundWalks
  <2>2. walks \in [Contexts -> Seq(WalkRecords)]
    <3>1. ASSUME NEW p \in Contexts
          PROVE  walks[p] \in Seq(WalkRecords)
      BY <2>1, SeqDef DEF WalksInv
    <3> QED
      BY <3>1 DEF WalksInv
  <2> QED
    BY <2>2 DEF TypeOK, ListInv, ListType, WalksInv
<1> QED
  BY <1>1, WalksInvariant, PTL
-----------------------------------------------------------------------------
(* No loop stands on a destroyed channel, where every context but the one   *)
(* that destroys channels is an interrupt.                                  *)

Destroyers == {p \in Contexts : "destroy" \in May[p]}

\* The main program of a microcontroller destroys channels, if anybody does, and
\* interrupt handlers run to completion.
OthersInterrupt ==
    \A p \in Destroyers : p \notin Interrupts /\ Contexts \ {p} \subseteq Interrupts

\* The loops of a context stand on registered channels; all but the innermost are
\* in a callback, and that one too while the context is inside an operation; and
\* none stands on the channel that the context is going to take off a queue.
Stands(p) ==
    /\ \A i \in 1 .. Len(walks[p]) : walks[p][i].sec \in Members(Subscriber) \cup {Null}
    /\ \A i \in 1 .. Len(walks[p]) :
         i < Len(walks[p]) \/ op[p].pc # "idle" => walks[p][i].pc = "callback"
    /\ op[p].pc \in {"search", "detach"} =>
         p \in Destroyers /\ \A i \in 1 .. Len(walks[p]) : walks[p][i].sec # op[p].item

StandsInv == \A p \in Contexts : Stands(p)

\* The links of the subscribers' queue lead to its members.
LEMMA LinksToMembers ==
    ASSUME ListInv
    PROVE  /\ link[Subscriber] \in Members(Subscriber) \cup {Null}
           /\ \A c \in Members(Subscriber) : link[c] \in Members(Subscriber) \cup {Null}
<1> DEFINE n == Len(order[Subscriber])
<1>1. Subscriber \in Queues /\ n \in Nat
  BY Places DEF Queues
<1>2. ASSUME NEW i \in 0 .. n
      PROVE  link[Place(Subscriber, i)] \in Members(Subscriber) \cup {Null}
  <2>1. link[Place(Subscriber, i)] = IF i = n THEN Null ELSE Place(Subscriber, i + 1)
    BY <1>1 DEF ListInv, QueueIntact
  <2>2. i # n => i + 1 \in 1 .. n /\ Place(Subscriber, i + 1) = order[Subscriber][i + 1]
    BY <1>1 DEF Place
  <2> QED
    BY <2>1, <2>2 DEF Members
<1>3. Place(Subscriber, 0) = Subscriber
  BY DEF Place
<1>4. ASSUME NEW c \in Members(Subscriber)
      PROVE  link[c] \in Members(Subscriber) \cup {Null}
  <2>1. PICK i \in 1 .. n : c = order[Subscriber][i]
    BY DEF Members
  <2>2. i \in 0 .. n /\ Place(Subscriber, i) = c
    BY <1>1, <2>1 DEF Place
  <2> QED
    BY <1>2, <2>2
<1> QED
  BY <1>1, <1>2, <1>3, <1>4

\* In user code every loop of the context is in a callback.
LEMMA UserCodeInCallbacks ==
    ASSUME WalksInv, StandsInv, NEW p \in Contexts, InUserCode(p)
    PROVE  \A i \in 1 .. Len(walks[p]) : walks[p][i].pc = "callback"
<1>1. Len(walks[p]) \in Nat /\ walks[p] \in Seq(SoundWalks)
  BY LenProperties DEF WalksInv
<1>2. ASSUME NEW i \in 1 .. Len(walks[p])
      PROVE  walks[p][i].pc = "callback"
  <2>1. walks[p] # <<>>
    BY <1>1, EmptySeq
  <2>2. i = Len(walks[p]) => walks[p][i].pc = "callback"
    BY <2>1 DEF InUserCode, Walking, Top
  <2> QED
    BY <1>1, <2>2 DEF StandsInv, Stands
<1> QED
  BY <1>2

\* A step that only moves a context on within its operation, or ends it.
LEMMA MoveKeepsStands ==
    ASSUME ListInv, StandsInv, NEW p \in Contexts, op[p].pc # "idle", walks' = walks,
           Members(Subscriber) \subseteq Members(Subscriber)',
           NEW o, op' = [op EXCEPT ![p] = o],
           o.pc \in {"search", "detach"} =>
             op[p].pc \in {"search", "detach"} /\ o.item = op[p].item
    PROVE  StandsInv'
<1>1. \A r \in Contexts : op'[r] = IF r = p THEN o ELSE op[r]
  BY DEF ListInv, ListType
<1> SUFFICES ASSUME NEW r \in Contexts PROVE Stands(r)'
  BY DEF StandsInv
<1>2. CASE r = p
  BY <1>1, <1>2 DEF StandsInv, Stands, Destroyers
<1>3. CASE r # p
  BY <1>1, <1>3 DEF StandsInv, Stands, Destroyers
<1> QED
  BY <1>2, <1>3

\* A step of the loops of one context.
LEMMA LoopKeepsStands ==
    ASSUME WalksInv, StandsInv, NEW p \in Contexts, op[p].pc = "idle", op' = op, order' = order,
           NEW ws, walks' = [walks EXCEPT ![p] = ws],
           \A i \in 1 .. Len(ws) : /\ ws[i].sec \in Members(Subscriber) \cup {Null}
                                   /\ i < Len(ws) => ws[i].pc = "callback"
    PROVE  StandsInv'
<1>1. \A r \in Contexts : walks'[r] = IF r = p THEN ws ELSE walks[r]
  BY DEF WalksInv
<1>2. Members(Subscriber)' = Members(Subscriber)
  BY DEF Members
<1> SUFFICES ASSUME NEW r \in Contexts PROVE Stands(r)'
  BY DEF StandsInv
<1>3. CASE r = p
  BY <1>1, <1>2, <1>3 DEF Stands
<1>4. CASE r # p
  BY <1>1, <1>2, <1>4 DEF StandsInv, Stands, Destroyers
<1> QED
  BY <1>3, <1>4

\* The innermost loop moves on, or ends.
LEMMA TopKeepsStands ==
    ASSUME WalksInv, StandsInv, NEW p \in Contexts, op[p].pc = "idle", op' = op, order' = order,
           Walking(p),
           \/ walks' = Pop(p)
           \/ \E w \in SoundWalks : /\ w.sec \in Members(Subscriber) \cup {Null}
                                    /\ walks' = SetTop(p, w)
    PROVE  StandsInv'
<1> DEFINE n == Len(walks[p])
<1>1. walks[p] \in Seq(SoundWalks) /\ walks[p] # <<>> /\ n \in Nat /\ n > 0
  BY LenProperties, EmptySeq DEF WalksInv, Walking
<1>2. \A i \in 1 .. n : /\ walks[p][i].sec \in Members(Subscriber) \cup {Null}
                        /\ i < n => walks[p][i].pc = "callback"
  BY DEF StandsInv, Stands
<1>3. CASE walks' = Pop(p)
  <2> DEFINE ws == SubSeq(walks[p], 1, n - 1)
  <2>1. Len(ws) = n - 1 /\ \A i \in 1 .. n - 1 : ws[i] = walks[p][i]
    BY <1>1, SubSeqProperties
  <2>2. walks' = [walks EXCEPT ![p] = ws]
    BY <1>3 DEF Pop
  <2>3. \A i \in 1 .. Len(ws) : /\ ws[i].sec \in Members(Subscriber) \cup {Null}
                                /\ i < Len(ws) => ws[i].pc = "callback"
    BY <1>1, <1>2, <2>1
  <2> HIDE DEF ws
  <2> QED
    BY <2>2, <2>3, LoopKeepsStands
<1>4. ASSUME NEW w \in SoundWalks, w.sec \in Members(Subscriber) \cup {Null}, walks' = SetTop(p, w)
      PROVE  StandsInv'
  <2> DEFINE ws == [walks[p] EXCEPT ![n] = w]
  <2>1. Len(ws) = n /\ \A i \in 1 .. n : ws[i] = IF i = n THEN w ELSE walks[p][i]
    BY <1>1, ExceptSeq
  <2>2. walks' = [walks EXCEPT ![p] = ws]
    BY <1>4 DEF SetTop
  <2>3. \A i \in 1 .. Len(ws) : /\ ws[i].sec \in Members(Subscriber) \cup {Null}
                                /\ i < Len(ws) => ws[i].pc = "callback"
    BY <1>1, <1>2, <1>4, <2>1
  <2> HIDE DEF ws
  <2> QED
    BY <2>2, <2>3, LoopKeepsStands
<1> QED
  BY <1>3, <1>4

\* Detach takes one channel off a queue and leaves the others on it.
LEMMA DetachLeavesOthers ==
    ASSUME ListInv, NEW p \in Contexts, Detach(p)
    PROVE  Members(Subscriber) \ {op[p].item} \subseteq Members(Subscriber)'
<1> DEFINE q == op[p].q
           s == order[q]
           k == CHOOSE i \in 1 .. Len(s) : s[i] = op[p].item
<1>1. q \in Queues /\ s \in Seq(Channels) /\ Len(s) \in Nat /\ op[p].pc = "detach"
  BY LenProperties DEF ListInv, ListType, OpRecords, Detach, At
<1>2. k \in 1 .. Len(s) /\ s[k] = op[p].item
  <2>1. \E i \in 1 .. Len(s) : s[i] = op[p].item
    BY <1>1 DEF ListInv, OpKnows
  <2> QED
    BY <2>1
<1>3. order' = [order EXCEPT ![q] = RemoveAt(s, k)]
  BY DEF Detach
<1> HIDE DEF k
<1>4. /\ Len(RemoveAt(s, k)) = Len(s) - 1
      /\ \A j \in 1 .. Len(s) - 1 : RemoveAt(s, k)[j] = IF j < k THEN s[j] ELSE s[j + 1]
  BY <1>1, <1>2, RemoveAtProperties
<1>5. CASE q = Subscriber
  <2> SUFFICES ASSUME NEW i \in 1 .. Len(s), s[i] # op[p].item PROVE s[i] \in Members(Subscriber)'
    BY <1>5 DEF Members
  <2>1. order'[Subscriber] = RemoveAt(s, k)
    BY <1>1, <1>3, <1>5 DEF ListInv, ListType
  <2>2. CASE i < k
    <3>1. i \in 1 .. Len(s) - 1
      BY <1>1, <1>2, <2>2
    <3>2. i \in 1 .. Len(order'[Subscriber]) /\ order'[Subscriber][i] = s[i]
      BY <1>4, <2>1, <2>2, <3>1
    <3> QED
      BY <3>2 DEF Members
  <2>3. CASE i > k
    <3>1. i - 1 \in 1 .. Len(s) - 1 /\ ~(i - 1 < k) /\ (i - 1) + 1 = i
      BY <1>1, <1>2, <2>3
    <3>2. i - 1 \in 1 .. Len(order'[Subscriber]) /\ order'[Subscriber][i - 1] = s[i]
      BY <1>4, <2>1, <3>1
    <3> QED
      BY <3>2 DEF Members
  <2> QED
    BY <1>1, <1>2, <2>2, <2>3
<1>6. CASE q # Subscriber
  BY <1>3, <1>6 DEF Members, ListInv, ListType, Queues
<1> QED
  BY <1>5, <1>6

\* When the destroying context moves, no interrupt handler is in a loop.
LEMMA DetachKeepsStands ==
    ASSUME OthersInterrupt, ListInv, WalksInv, StandsInv, NEW p \in Contexts, Detach(p)
    PROVE  StandsInv'
<1> DEFINE c == op[p].item
<1>1. op[p].pc = "detach" /\ op' = [op EXCEPT ![p].pc = "adjust"] /\ CanRun(p)
  BY DEF Detach, At, Goto
<1>2. p \in Destroyers /\ \A i \in 1 .. Len(walks[p]) : walks[p][i].sec # c
  BY <1>1 DEF StandsInv, Stands
<1>3. \A r \in Contexts : r # p => r \in Interrupts /\ walks[r] = <<>> /\ op[r].pc = "idle"
  BY <1>1, <1>2 DEF OthersInterrupt, CanRun, Busy, Walking
<1>4. \A r \in Contexts : walks'[r] = [i \in 1 .. Len(walks[r]) |->
        [walks[r][i] EXCEPT !.due = @ \ {c}, !.called = @ \ {c}]]
  BY DEF Detach
<1>5. \A r \in Contexts : walks[r] \in Seq(SoundWalks) /\ Len(walks[r]) \in Nat
  BY LenProperties DEF WalksInv
<1>6. ASSUME NEW r \in Contexts
      PROVE  /\ Len(walks'[r]) = Len(walks[r])
             /\ \A i \in 1 .. Len(walks[r]) :
                  walks'[r][i].sec = walks[r][i].sec /\ walks'[r][i].pc = walks[r][i].pc
  <2> DEFINE u(i) == [walks[r][i] EXCEPT !.due = @ \ {c}, !.called = @ \ {c}]
             f == [i \in 1 .. Len(walks[r]) |-> u(i)]
  <2>1. ASSUME NEW i \in 1 .. Len(walks[r])
        PROVE  u(i) \in SoundWalks /\ u(i).sec = walks[r][i].sec /\ u(i).pc = walks[r][i].pc
    <3>1. walks[r][i] \in SoundWalks
      BY <1>5, ElementOfSeq
    <3> QED
      BY <3>1 DEF SoundWalks, WalkRecords
  <2> HIDE DEF u
  <2>2. f \in [1 .. Len(walks[r]) -> SoundWalks]
    BY <2>1
  <2>3. f \in Seq(SoundWalks) /\ \A i \in 1 .. Len(walks[r]) : f[i] = u(i)
    BY <1>5, <2>2, SeqDef
  <2>4. DOMAIN f = 1 .. Len(walks[r])
    OBVIOUS
  <2>5. walks'[r] = f
    BY <1>4 DEF u
  <2> HIDE DEF f
  <2>6. Len(f) = Len(walks[r])
    BY <1>5, <2>3, <2>4, LenProperties
  <2> QED
    BY <2>1, <2>3, <2>5, <2>6
<1> SUFFICES ASSUME NEW r \in Contexts PROVE Stands(r)'
  BY DEF StandsInv
<1>7. op'[r].pc = IF r = p THEN "adjust" ELSE op[r].pc
  BY <1>1 DEF ListInv, ListType
<1>8. CASE r = p
  BY <1>1, <1>2, <1>6, <1>7, <1>8, DetachLeavesOthers DEF StandsInv, Stands
<1>9. CASE r # p
  <2>1. Len(walks[r]) = 0
    BY <1>3, <1>9, EmptySeq
  <2> QED
    BY <1>3, <1>6, <1>7, <1>9, <2>1 DEF Stands
<1> QED
  BY <1>8, <1>9

LEMMA UserCodeKeepsStands ==
    ASSUME ListInv, WalksInv, StandsInv, NEW p \in Contexts, UserCode(p)
    PROVE  StandsInv'
<1>1. ASSUME NEW c \in Channels, Construct(p, c)
      PROVE  StandsInv'
  BY <1>1 DEF Construct, StandsInv, Stands, Members, Destroyers
<1>2. ASSUME NEW c \in Channels, Register(p, c) \/ Destroy(p, c)
      PROVE  StandsInv'
  <2>1. InUserCode(p) /\ walks' = walks /\ Members(Subscriber)' = Members(Subscriber)
    BY <1>2 DEF Register, Destroy, MayStart, Members
  <2>2. \A i \in 1 .. Len(walks[p]) : walks[p][i].pc = "callback"
    BY <2>1, UserCodeInCallbacks
  <2>3. /\ \A r \in Contexts : r # p => op'[r] = op[r]
        /\ op'[p].pc \in {"bind", "search"}
        /\ op'[p].pc = "search" => /\ p \in Destroyers /\ op'[p].item = c /\ ~InCallback(c)
    BY <1>2 DEF Register, Destroy, MayStart, Destroyers, ListInv, ListType
  <2> SUFFICES ASSUME NEW r \in Contexts PROVE Stands(r)'
    BY DEF StandsInv
  <2>4. CASE r = p
    BY <2>1, <2>2, <2>3, <2>4 DEF StandsInv, Stands, InCallback, Destroyers
  <2>5. CASE r # p
    BY <2>1, <2>3, <2>5 DEF StandsInv, Stands, Destroyers
  <2> QED
    BY <2>4, <2>5
<1>3. ASSUME NEW c \in Pubs, Publish(p, c)
      PROVE  StandsInv'
  <2> DEFINE w == StartWalk(SubjectOf[c], "visit")
             ws == Append(walks[p], w)
  <2>1. op[p].pc = "idle" /\ InUserCode(p) /\ walks' = [walks EXCEPT ![p] = ws] /\ op' = op /\ order' = order
    BY <1>3 DEF Publish, MayStart, InUserCode
  <2>2. w \in SoundWalks /\ w.sec = link[Subscriber]
    BY ChannelsAssumption, FreshWalk DEF Channels, StartWalk
  <2>3. walks[p] \in Seq(SoundWalks) /\ Len(walks[p]) \in Nat
    BY LenProperties DEF WalksInv
  <2> HIDE DEF w
  <2>4. /\ Len(ws) = Len(walks[p]) + 1
        /\ \A i \in 1 .. Len(walks[p]) : ws[i] = walks[p][i]
        /\ ws[Len(walks[p]) + 1] = w
    BY <2>2, <2>3, AppendProperties
  <2> HIDE DEF ws
  <2>5. \A i \in 1 .. Len(walks[p]) : /\ walks[p][i].sec \in Members(Subscriber) \cup {Null}
                                      /\ walks[p][i].pc = "callback"
    BY <2>1, UserCodeInCallbacks DEF StandsInv, Stands
  <2>6. \A i \in 1 .. Len(ws) : /\ ws[i].sec \in Members(Subscriber) \cup {Null}
                                /\ i < Len(ws) => ws[i].pc = "callback"
    BY <2>2, <2>3, <2>4, <2>5, LinksToMembers
  <2> QED
    BY <2>1, <2>6, LoopKeepsStands
<1>4. ASSUME NEW s \in Subjects, Fetch(p, s)
      PROVE  StandsInv'
  <2> DEFINE ws == <<StartWalk(s, "probe")>>
  <2>1. op[p].pc = "idle" /\ walks' = [walks EXCEPT ![p] = ws] /\ op' = op /\ order' = order
    BY <1>4 DEF Fetch, Busy
  <2>2. Len(ws) = 1 /\ ws[1].sec = link[Subscriber]
    BY DEF StartWalk
  <2> HIDE DEF ws
  <2>3. \A i \in 1 .. Len(ws) : i = 1 /\ ~(i < Len(ws))
    BY <2>2
  <2>4. \A i \in 1 .. Len(ws) : /\ ws[i].sec \in Members(Subscriber) \cup {Null}
                                /\ i < Len(ws) => ws[i].pc = "callback"
    BY <2>2, <2>3, LinksToMembers
  <2> QED
    BY <2>1, <2>4, LoopKeepsStands
<1> QED
  BY <1>1, <1>2, <1>3, <1>4, UserCode(p) DEF UserCode

LEMMA ProgressKeepsStands ==
    ASSUME OthersInterrupt, ListInv, WalksInv, StandsInv, NEW p \in Contexts, Progress(p) \/ Return(p)
    PROVE  StandsInv'
<1>1. CASE AppendStep(p) \/ Search(p) \/ Adjust(p) \/ Free(p)
  <2>1. op[p].pc # "idle" /\ walks' = walks
    BY <1>1 DEF AppendStep, Bind, Terminate, Couple, Ending, Advertise, Search, Adjust, Free, At
  <2>2. Members(Subscriber) \subseteq Members(Subscriber)'
    <3>1. CASE Couple(p)
      <4>1. order[Subscriber] \in Seq(Channels) /\ op[p].item \in Channels /\ op[p].q \in Queues
        BY <3>1 DEF Couple, At, ListInv, ListType, OpKnows, Kin, OpRecords, Queues
      <4>2. /\ order'[Subscriber] = order[Subscriber]
               \/ order'[Subscriber] = Append(order[Subscriber], op[p].item)
        BY <3>1, <4>1 DEF Couple, ListInv, ListType, Queues
      <4>3. /\ Len(order[Subscriber]) \in Nat
            /\ Len(Append(order[Subscriber], op[p].item)) = Len(order[Subscriber]) + 1
            /\ \A i \in 1 .. Len(order[Subscriber]) :
                 Append(order[Subscriber], op[p].item)[i] = order[Subscriber][i]
        BY <4>1, AppendProperties, LenProperties
      <4>4. \A i \in 1 .. Len(order[Subscriber]) :
              i \in 1 .. Len(order'[Subscriber]) /\ order'[Subscriber][i] = order[Subscriber][i]
        BY <4>2, <4>3
      <4> QED
        BY <4>4 DEF Members
    <3>2. CASE ~Couple(p)
      <4>1. order' = order
        BY <1>1, <3>2 DEF AppendStep, Bind, Terminate, Ending, Advertise, Search, Adjust, Free
      <4> QED
        BY <4>1 DEF Members
    <3> QED
      BY <3>1, <3>2
  <2>3. CASE Search(p)
    <3> DEFINE w == op[p].wrap
               o == IF w = Null THEN [op[p] EXCEPT !.pc = "free"]
                    ELSE IF link[w] = op[p].item THEN [op[p] EXCEPT !.pc = "detach"]
                    ELSE [op[p] EXCEPT !.wrap = link[w]]
    <3>1. op[p].pc = "search" /\ op[p] \in OpRecords /\ op' = [op EXCEPT ![p] = o]
      BY <2>3 DEF Search, At, ListInv, ListType
    <3>2. o.item = op[p].item
      BY <3>1 DEF OpRecords
    <3> HIDE DEF o
    <3> QED
      BY <2>1, <2>2, <3>1, <3>2, MoveKeepsStands
  <2>4. CASE ~Search(p)
    <3>1. op[p] \in OpRecords
      BY DEF ListInv, ListType
    <3>2. \/ op' = [op EXCEPT ![p] = Idle]
          \/ \E pc \in OpSteps \ {"search", "detach"} : op' = [op EXCEPT ![p] = [op[p] EXCEPT !.pc = pc]]
      BY <1>1, <2>4 DEF AppendStep, Bind, Terminate, Couple, Ending, Advertise, Adjust, Free,
         Goto, OpSteps
    <3>3. CASE op' = [op EXCEPT ![p] = Idle]
      <4>1. Idle.pc = "idle"
        BY DEF Idle
      <4> QED
        BY <2>1, <2>2, <3>3, <4>1, MoveKeepsStands
    <3>4. ASSUME NEW pc \in OpSteps \ {"search", "detach"}, op' = [op EXCEPT ![p] = [op[p] EXCEPT !.pc = pc]]
          PROVE  StandsInv'
      <4> DEFINE o == [op[p] EXCEPT !.pc = pc]
      <4>1. o.pc = pc /\ op' = [op EXCEPT ![p] = o]
        BY <3>1, <3>4 DEF OpRecords
      <4> HIDE DEF o
      <4> QED
        BY <2>1, <2>2, <3>4, <4>1, MoveKeepsStands
    <3> QED
      BY <3>2, <3>3, <3>4
  <2> QED
    BY <2>3, <2>4
<1>2. CASE Probe(p) \/ Visit(p) \/ Return(p)
  <2>1. op[p].pc = "idle" /\ Walking(p) /\ op' = op /\ order' = order
    BY <1>2 DEF Probe, Visit, Return, Looping
  <2>2. Top(p) \in SoundWalks /\ Top(p).sec \in Members(Subscriber) \cup {Null}
    <3>1. walks[p] \in Seq(SoundWalks) /\ walks[p] # <<>>
      BY <2>1 DEF WalksInv, Walking
    <3>2. Len(walks[p]) \in 1 .. Len(walks[p])
      BY <3>1, LenProperties, EmptySeq
    <3> QED
      BY <2>1, <3>2, TopWalk DEF StandsInv, Stands, Top
  <2>3. Top(p).sec # Null => link[Top(p).sec] \in Members(Subscriber) \cup {Null}
    BY <2>2, LinksToMembers
  <2>4. Members(Subscriber) \subseteq Subs
    BY QueueFacts DEF Members, ListInv, MembersAlive, Queues
  <2>5. CASE Probe(p)
    <3>1. Top(p).subject \in Subjects /\ Top(p).pc = "probe"
      BY <2>2, <2>5 DEF SoundWalks, WalkRecords, Probe, Looping
    <3>2. \/ walks' = SetTop(p, StartWalk(Top(p).subject, "visit"))
          \/ walks' = Pop(p)
          \/ Top(p).sec # Null /\ walks' = SetTop(p, [Top(p) EXCEPT !.sec = link[Top(p).sec]])
      BY <2>5 DEF Probe
    <3>3. LET w == StartWalk(Top(p).subject, "visit")
          IN  w \in SoundWalks /\ w.sec \in Members(Subscriber) \cup {Null}
      BY <3>1, FreshWalk, LinksToMembers DEF StartWalk
    <3>4. Top(p).sec # Null =>
            LET w == [Top(p) EXCEPT !.sec = link[Top(p).sec]]
            IN  w \in SoundWalks /\ w.sec \in Members(Subscriber) \cup {Null}
      BY <2>2, <2>3, <2>4, <3>1, MovedWalk DEF SoundWalks, WalkRecords
    <3> QED
      BY <2>1, <3>2, <3>3, <3>4, TopKeepsStands
  <2>6. CASE Visit(p)
    <3>1. Top(p).pc = "visit"
      BY <2>6 DEF Visit, Looping
    <3>2. \/ /\ Top(p).sec # Null
             /\ walks' = SetTop(p, [Top(p) EXCEPT !.pc = "callback", !.called = @ \cup {Top(p).sec}])
          \/ walks' = Pop(p)
          \/ Top(p).sec # Null /\ walks' = SetTop(p, [Top(p) EXCEPT !.sec = link[Top(p).sec]])
      BY <2>6 DEF Visit
    <3>3. Top(p).sec # Null =>
            LET w == [Top(p) EXCEPT !.pc = "callback", !.called = @ \cup {Top(p).sec}]
            IN  w \in SoundWalks /\ w.sec \in Members(Subscriber) \cup {Null}
      BY <2>2, MovedWalk DEF SoundWalks, WalkRecords
    <3>4. Top(p).sec # Null =>
            LET w == [Top(p) EXCEPT !.sec = link[Top(p).sec]]
            IN  w \in SoundWalks /\ w.sec \in Members(Subscriber) \cup {Null}
      BY <2>2, <2>3, <2>4, <3>1, MovedWalk DEF SoundWalks, WalkRecords
    <3> QED
      BY <2>1, <3>2, <3>3, <3>4, TopKeepsStands
  <2>7. CASE Return(p)
    <3>1. /\ Top(p).sec # Null
          /\ walks' = SetTop(p, [Top(p) EXCEPT !.pc = "visit", !.sec = link[Top(p).sec]])
      BY <2>2, <2>7 DEF Return, Looping, SoundWalks
    <3>2. LET w == [Top(p) EXCEPT !.pc = "visit", !.sec = link[Top(p).sec]]
          IN  w \in SoundWalks /\ w.sec \in Members(Subscriber) \cup {Null}
      BY <2>2, <2>3, <2>4, <3>1, MovedWalk DEF SoundWalks, WalkRecords
    <3> QED
      BY <2>1, <3>1, <3>2, TopKeepsStands
  <2> QED
    BY <1>2, <2>5, <2>6, <2>7
<1> QED
  BY <1>1, <1>2, DetachKeepsStands, Progress(p) \/ Return(p) DEF Progress, RemoveStep

LEMMA InitHoldsStands == Init => StandsInv
<1> SUFFICES ASSUME Init, NEW p \in Contexts PROVE Stands(p)
  BY DEF StandsInv
<1>1. walks[p] = <<>> /\ Len(walks[p]) = 0 /\ op[p].pc = "idle"
  BY EmptySeq DEF Init, Idle
<1> QED
  BY <1>1 DEF Stands

LEMMA NextKeepsStands ==
    ASSUME OthersInterrupt, ListInv, WalksInv, StandsInv, [Next]_vars
    PROVE  StandsInv'
<1>1. CASE UNCHANGED vars
  BY <1>1 DEF vars, StandsInv, Stands, Members, Destroyers
<1>2. CASE Next
  BY <1>2, UserCodeKeepsStands, ProgressKeepsStands DEF Next
<1> QED
  BY <1>1, <1>2

LEMMA StandsInvariant == ASSUME OthersInterrupt PROVE Spec => [](ListInv /\ WalksInv /\ StandsInv)
<1>1. ListInv /\ WalksInv /\ StandsInv /\ [Next]_vars => (ListInv /\ WalksInv /\ StandsInv)'
  BY NextKeepsList, NextKeepsWalks, NextKeepsStands
<1> QED
  BY <1>1, InitHoldsList, InitHoldsWalks, InitHoldsStands, PTL DEF Spec

\* Where receive interrupts preempt a main program that alone destroys channels,
\* publish_local() and fetch() never stand on a destroyed channel, at any depth of
\* nested publications: the pointer they read the link of after a callback is good.
THEOREM LoopsSurviveDestruction == ASSUME OthersInterrupt PROVE Spec => []NoUseOfDestroyed
<1>1. ListInv /\ StandsInv => NoUseOfDestroyed
  <2> SUFFICES ASSUME ListInv, StandsInv PROVE NoUseOfDestroyed
    OBVIOUS
  <2>1. Members(Subscriber) \subseteq alive
    BY DEF Members, ListInv, MembersAlive, Queues
  <2> QED
    BY <2>1 DEF NoUseOfDestroyed, StandsInv, Stands
<1> QED
  BY <1>1, StandsInvariant, PTL
-----------------------------------------------------------------------------
(* The dispatcher implements the notification service.                      *)

\* The subscribers' queue, and its positions.
Line  == order[Subscriber]
Spots == 1 .. Len(Line)

\* What a loop knows: it stands at a place of the queue before which it notified every
\* channel of its subject and behind which none, and at its end it owes nothing.
Knows(w) ==
    w.pc # "probe" =>
      /\ w.due \cup w.called \subseteq Matching(w.subject)
      /\ w.sec = Null => w.due \subseteq w.called
      /\ w.sec # Null =>
           \E k \in Spots :
             /\ Line[k] = w.sec
             /\ \A j \in Spots : SubjectOf[Line[j]] = w.subject =>
                  (Line[j] \in w.called <=> j < k \/ (j = k /\ w.pc = "callback"))

\* Nothing is nested in fetch() before it publishes.
KnowsInv == \A p \in Contexts : \A i \in 1 .. Len(walks[p]) :
              Knows(walks[p][i]) /\ (walks[p][i].pc = "probe" => i = 1)

\* The links of the subscribers' queue, position by position.
LEMMA LineFacts ==
    ASSUME ListInv
    PROVE  /\ Line \in Seq(Channels) /\ Len(Line) \in Nat
           /\ \A k \in Spots : /\ Line[k] \in Subs /\ Line[k] # Null
                               /\ k = Len(Line) => link[Line[k]] = Null
                               /\ k # Len(Line) => k + 1 \in Spots /\ link[Line[k]] = Line[k + 1]
           /\ link[Subscriber] = IF Len(Line) = 0 THEN Null ELSE Line[1]
           /\ \A j, k \in Spots : Line[j] = Line[k] => j = k
           /\ \A c : c \in Members(Subscriber) <=> \E k \in Spots : Line[k] = c
           /\ Members(Subscriber) \subseteq Subs
<1>1. Subscriber \in Queues /\ Line \in Seq(Channels)
  BY DEF Queues, Line, ListInv, ListType
<1>2. Len(Line) \in Nat
  BY <1>1, LenProperties
<1>3. \A k \in Spots : Line[k] \in Subs /\ Line[k] # Null
  BY <1>1, QueueFacts DEF Line, Spots, ListInv, MembersAlive
<1>4. \A i \in 0 .. Len(Line) :
        link[Place(Subscriber, i)] = IF i = Len(Line) THEN Null ELSE Place(Subscriber, i + 1)
  BY <1>1 DEF ListInv, QueueIntact, Line
<1>5. \A k \in Spots : k \in 0 .. Len(Line) /\ Place(Subscriber, k) = Line[k]
                         /\ (k # Len(Line) => k + 1 \in Spots)
  BY <1>2 DEF Place, Line, Spots
<1>6. \A k \in Spots : /\ k = Len(Line) => link[Line[k]] = Null
                       /\ k # Len(Line) => k + 1 \in Spots /\ link[Line[k]] = Line[k + 1]
  BY <1>4, <1>5
<1>7. link[Subscriber] = IF Len(Line) = 0 THEN Null ELSE Line[1]
  <2>1. link[Place(Subscriber, 0)] = IF Len(Line) = 0 THEN Null ELSE Place(Subscriber, 1)
    BY <1>2, <1>4
  <2> QED
    BY <2>1 DEF Place, Line
<1>8. \A j, k \in Spots : Line[j] = Line[k] => j = k
  BY <1>1 DEF ListInv, QueueIntact, Line, Spots
<1>9. \A c : c \in Members(Subscriber) <=> \E k \in Spots : Line[k] = c
  BY DEF Members, Line, Spots
<1> QED
  BY <1>1, <1>2, <1>3, <1>6, <1>7, <1>8, <1>9

\* A loop that starts.
LEMMA KnowsFresh ==
    ASSUME ListInv, NEW s \in Subjects, NEW step \in {"probe", "visit"}
    PROVE  Knows(StartWalk(s, step))
<1> DEFINE w == StartWalk(s, step)
<1>1. w.due = Matching(s) /\ w.called = {} /\ w.subject = s /\ w.sec = link[Subscriber] /\ w.pc = step
  BY DEF StartWalk
<1> HIDE DEF w
<1> SUFFICES Knows(w)
  BY DEF w
<1>2. CASE Len(Line) = 0
  <2>1. Members(Subscriber) = {} /\ w.sec = Null
    BY <1>1, <1>2, LineFacts DEF Spots
  <2> QED
    BY <1>1, <2>1 DEF Knows, Matching
<1>3. CASE Len(Line) # 0
  <2>1. 1 \in Spots /\ w.sec = Line[1] /\ w.sec # Null /\ \A j \in Spots : ~(j < 1)
    BY <1>1, <1>3, LineFacts DEF Spots
  <2> QED
    BY <1>1, <2>1 DEF Knows
<1> QED
  BY <1>2, <1>3

\* A loop that goes on to the next channel.
LEMMA KnowsNext ==
    ASSUME ListInv, NEW w \in SoundWalks, Knows(w), w.sec # Null,
           w.pc = "callback" \/ (w.pc = "visit" /\ SubjectOf[w.sec] # w.subject)
    PROVE  Knows([w EXCEPT !.pc = "visit", !.sec = link[w.sec]])
<1> DEFINE v == [w EXCEPT !.pc = "visit", !.sec = link[w.sec]]
<1>1. v.due = w.due /\ v.called = w.called /\ v.subject = w.subject /\ v.sec = link[w.sec] /\ v.pc = "visit"
  BY DEF SoundWalks, WalkRecords
<1> HIDE DEF v
<1>2. PICK k \in Spots :
        /\ Line[k] = w.sec
        /\ \A j \in Spots : SubjectOf[Line[j]] = w.subject =>
             (Line[j] \in w.called <=> j < k \/ (j = k /\ w.pc = "callback"))
  BY DEF Knows
<1>3. Len(Line) \in Nat /\ k \in Nat /\ \A j \in Spots : j \in Nat /\ j <= Len(Line)
  BY LineFacts DEF Spots
<1>4. \A j \in Spots : SubjectOf[Line[j]] = w.subject => (Line[j] \in w.called <=> j < k + 1)
  BY <1>2, <1>3
<1>5. w.due \cup w.called \subseteq Matching(w.subject)
  BY DEF Knows
<1>6. CASE k = Len(Line)
  <2>1. v.sec = Null
    BY <1>1, <1>2, <1>6, LineFacts
  <2>2. w.due \subseteq w.called
    <3> SUFFICES ASSUME NEW c \in w.due PROVE c \in w.called
      OBVIOUS
    <3>1. c \in Members(Subscriber) /\ SubjectOf[c] = w.subject
      BY <1>5 DEF Matching
    <3>2. PICK j \in Spots : Line[j] = c
      BY <3>1, LineFacts
    <3> QED
      BY <1>3, <1>4, <1>6, <3>1, <3>2
  <2> QED
    BY <1>1, <1>5, <2>1, <2>2 DEF Knows, v
<1>7. CASE k # Len(Line)
  <2>1. k + 1 \in Spots /\ v.sec = Line[k + 1] /\ v.sec # Null
    BY <1>1, <1>2, <1>7, LineFacts
  <2> QED
    BY <1>1, <1>4, <1>5, <2>1 DEF Knows, v
<1> QED
  BY <1>6, <1>7

\* A loop that notifies the channel it stands on.
LEMMA KnowsCall ==
    ASSUME ListInv, NEW w \in SoundWalks, Knows(w), w.sec # Null, w.pc = "visit",
           SubjectOf[w.sec] = w.subject
    PROVE  Knows([w EXCEPT !.pc = "callback", !.called = @ \cup {w.sec}])
<1> DEFINE v == [w EXCEPT !.pc = "callback", !.called = @ \cup {w.sec}]
<1>1. /\ v.due = w.due /\ v.called = w.called \cup {w.sec} /\ v.subject = w.subject
      /\ v.sec = w.sec /\ v.pc = "callback"
  BY DEF SoundWalks, WalkRecords
<1> HIDE DEF v
<1>2. PICK k \in Spots :
        /\ Line[k] = w.sec
        /\ \A j \in Spots : SubjectOf[Line[j]] = w.subject => (Line[j] \in w.called <=> j < k)
  BY DEF Knows
<1>3. \A j \in Spots : Line[j] = w.sec <=> j = k
  BY <1>2, LineFacts
<1>4. \A j \in Spots : SubjectOf[Line[j]] = w.subject => (Line[j] \in v.called <=> j < k \/ j = k)
  BY <1>1, <1>2, <1>3
<1>5. w.sec \in Matching(w.subject) /\ w.due \cup w.called \subseteq Matching(w.subject)
  BY <1>2, LineFacts DEF Knows, Matching
<1> QED
  BY <1>1, <1>2, <1>4, <1>5 DEF Knows, v

\* A step of the loops of one context keeps KnowsInv.
LEMMA LoopKeepsKnows ==
    ASSUME WalksInv, KnowsInv, NEW p \in Contexts, order' = order,
           NEW ws, walks' = [walks EXCEPT ![p] = ws],
           \A i \in 1 .. Len(ws) : Knows(ws[i]) /\ (ws[i].pc = "probe" => i = 1)
    PROVE  KnowsInv'
<1>1. \A r \in Contexts : walks'[r] = IF r = p THEN ws ELSE walks[r]
  BY DEF WalksInv
<1>2. \A w : Knows(w)' <=> Knows(w)
  BY DEF Knows, Matching, Members, Line, Spots
<1> QED
  BY <1>1, <1>2 DEF KnowsInv

\* So does one of the innermost loop, which moves on or ends.
LEMMA TopKeepsKnows ==
    ASSUME WalksInv, KnowsInv, NEW p \in Contexts, order' = order, Walking(p),
           \/ walks' = Pop(p)
           \/ \E w \in SoundWalks : /\ Knows(w) /\ (w.pc = "probe" => Top(p).pc = "probe")
                                    /\ walks' = SetTop(p, w)
    PROVE  KnowsInv'
<1> DEFINE n == Len(walks[p])
<1>1. walks[p] \in Seq(SoundWalks) /\ walks[p] # <<>> /\ n \in Nat /\ n > 0
  BY LenProperties, EmptySeq DEF WalksInv, Walking
<1>2. \A i \in 1 .. n : Knows(walks[p][i]) /\ (walks[p][i].pc = "probe" => i = 1)
  BY DEF KnowsInv
<1>3. CASE walks' = Pop(p)
  <2> DEFINE ws == SubSeq(walks[p], 1, n - 1)
  <2>1. Len(ws) = n - 1 /\ \A i \in 1 .. n - 1 : ws[i] = walks[p][i]
    BY <1>1, SubSeqProperties
  <2>2. walks' = [walks EXCEPT ![p] = ws]
    BY <1>3 DEF Pop
  <2>3. \A i \in 1 .. Len(ws) : Knows(ws[i]) /\ (ws[i].pc = "probe" => i = 1)
    BY <1>1, <1>2, <2>1
  <2> HIDE DEF ws
  <2> QED
    BY <2>2, <2>3, LoopKeepsKnows
<1>4. ASSUME NEW w \in SoundWalks, Knows(w), w.pc = "probe" => Top(p).pc = "probe",
             walks' = SetTop(p, w)
      PROVE  KnowsInv'
  <2> DEFINE ws == [walks[p] EXCEPT ![n] = w]
  <2>1. Len(ws) = n /\ \A i \in 1 .. n : ws[i] = IF i = n THEN w ELSE walks[p][i]
    BY <1>1, ExceptSeq
  <2>2. walks' = [walks EXCEPT ![p] = ws]
    BY <1>4 DEF SetTop
  <2>3. n \in 1 .. n /\ Top(p) = walks[p][n]
    BY <1>1 DEF Top
  <2>4. w.pc = "probe" => n = 1
    BY <1>2, <1>4, <2>3
  <2>5. \A i \in 1 .. Len(ws) : Knows(ws[i]) /\ (ws[i].pc = "probe" => i = 1)
    BY <1>1, <1>2, <1>4, <2>1, <2>4
  <2> HIDE DEF ws
  <2> QED
    BY <2>2, <2>5, LoopKeepsKnows
<1> QED
  BY <1>3, <1>4

LEMMA CoupleKeepsKnows ==
    ASSUME ListInv, KnowsInv, NEW p \in Contexts, Couple(p)
    PROVE  KnowsInv'
<1> DEFINE c == op[p].item
           n == Len(Line)
<1>1. walks' = walks /\ op[p].pc = "couple" /\ order' = [order EXCEPT ![op[p].q] = Append(@, c)]
  BY DEF Couple, At
<1>2. op[p].q \in Queues /\ c \in Channels /\ c \notin Members(op[p].q)
  BY <1>1 DEF ListInv, ListType, OpRecords, OpKnows, Kin
<1> HIDE DEF c
<1>3. CASE op[p].q # Subscriber
  <2>1. order'[Subscriber] = order[Subscriber]
    BY <1>1, <1>2, <1>3 DEF ListInv, ListType, Queues
  <2>2. \A w : Knows(w)' <=> Knows(w)
    BY <2>1 DEF Knows, Matching, Members, Line, Spots
  <2> QED
    BY <1>1, <2>2 DEF KnowsInv
<1>4. CASE op[p].q = Subscriber
  <2>1. Line \in Seq(Channels) /\ n \in Nat
    BY LineFacts
  <2>2. Line' = Append(Line, c)
    BY <1>1, <1>2, <1>4 DEF Line, ListInv, ListType
  <2>3. /\ Len(Line') = n + 1 /\ Line'[n + 1] = c
        /\ \A j \in Spots : Line'[j] = Line[j]
    BY <1>2, <2>1, <2>2, AppendProperties DEF Spots
  <2>4. /\ \A j \in Spots : j \in Spots' /\ j <= n
        /\ \A j \in Spots' : j \in Spots \/ (j = n + 1 /\ j \notin Spots)
        /\ \A k \in Spots : ~(n + 1 < k) /\ n + 1 # k
    BY <2>1, <2>3 DEF Spots
  <2>5. Members(Subscriber) \subseteq Members(Subscriber)'
    <3> SUFFICES ASSUME NEW d \in Members(Subscriber) PROVE d \in Members(Subscriber)'
      OBVIOUS
    <3>1. PICK j \in Spots : Line[j] = d
      BY LineFacts
    <3>2. j \in Spots' /\ Line'[j] = d
      BY <2>3, <2>4, <3>1
    <3> QED
      BY <3>2 DEF Members, Line, Spots
  <2>6. ASSUME NEW w, Knows(w), w.pc # "probe" PROVE Knows(w)'
    <3>1. w.due \cup w.called \subseteq Matching(w.subject)'
      BY <2>5, <2>6 DEF Knows, Matching
    <3>2. c \notin w.called
      BY <1>2, <1>4, <2>6 DEF Knows, Matching
    <3>3. CASE w.sec # Null
      <4>1. PICK k \in Spots :
              /\ Line[k] = w.sec
              /\ \A j \in Spots : SubjectOf[Line[j]] = w.subject =>
                   (Line[j] \in w.called <=> j < k \/ (j = k /\ w.pc = "callback"))
        BY <2>6, <3>3 DEF Knows
      <4>2. k \in Spots' /\ Line'[k] = w.sec
        BY <2>3, <2>4, <4>1
      <4>3. \A j \in Spots' : SubjectOf[Line'[j]] = w.subject =>
              (Line'[j] \in w.called <=> j < k \/ (j = k /\ w.pc = "callback"))
        BY <2>3, <2>4, <3>2, <4>1
      <4> QED
        BY <3>1, <3>3, <4>2, <4>3 DEF Knows
    <3>4. CASE w.sec = Null
      BY <2>6, <3>1, <3>4 DEF Knows
    <3> QED
      BY <3>3, <3>4
  <2>7. \A w : Knows(w) => Knows(w)'
    BY <2>6 DEF Knows
  <2> QED
    BY <1>1, <2>7 DEF KnowsInv
<1> QED
  BY <1>3, <1>4

\* What a loop knows stays true when another channel than the one it stands on
\* leaves the queue.
LEMMA RemovalKeepsKnows ==
    ASSUME ListInv, NEW p \in Contexts, Detach(p),
           NEW w \in SoundWalks, Knows(w), w.sec # op[p].item,
           NEW v, v = [w EXCEPT !.due = @ \ {op[p].item}, !.called = @ \ {op[p].item}]
    PROVE  Knows(v)'
<1> DEFINE q == op[p].q
           s == order[q]
           c == op[p].item
           i == CHOOSE k \in 1 .. Len(s) : s[k] = c
<1>1. q \in Queues /\ s \in Seq(Channels) /\ Len(s) \in Nat /\ op[p].pc = "detach"
  BY LenProperties DEF ListInv, ListType, OpRecords, Detach, At
<1>2. i \in 1 .. Len(s) /\ s[i] = c /\ c \in Kin(q)
  <2>1. \E k \in 1 .. Len(s) : s[k] = c
    BY <1>1 DEF ListInv, OpKnows
  <2> QED
    BY <1>1, <2>1 DEF ListInv, OpKnows
<1>3. order' = [order EXCEPT ![q] = RemoveAt(s, i)]
  BY DEF Detach
<1>4. /\ v.due = w.due \ {c} /\ v.called = w.called \ {c} /\ v.subject = w.subject
      /\ v.sec = w.sec /\ v.pc = w.pc
  BY DEF SoundWalks, WalkRecords
<1>5. /\ Len(RemoveAt(s, i)) = Len(s) - 1
      /\ \A j \in 1 .. Len(s) - 1 : RemoveAt(s, i)[j] = IF j < i THEN s[j] ELSE s[j + 1]
  BY <1>1, <1>2, RemoveAtProperties
<1>6. CASE v.pc = "probe"
  BY <1>6 DEF Knows
<1>7. CASE v.pc # "probe"
  <2>1. Members(Subscriber) \ {c} \subseteq Members(Subscriber)'
    BY DetachLeavesOthers
  <2> HIDE DEF c, i
  <2>2. v.due \cup v.called \subseteq Matching(v.subject)'
    BY <1>4, <1>7, <2>1 DEF Knows, Matching
  <2>3. v.sec = Null => v.due \subseteq v.called
    BY <1>4, <1>7 DEF Knows
  <2>4. ASSUME v.sec # Null
        PROVE  \E k \in Spots' :
                 /\ Line'[k] = v.sec
                 /\ \A j \in Spots' : SubjectOf[Line'[j]] = v.subject =>
                      (Line'[j] \in v.called <=> j < k \/ (j = k /\ v.pc = "callback"))
    <3>1. PICK k \in Spots :
            /\ Line[k] = w.sec
            /\ \A j \in Spots : SubjectOf[Line[j]] = w.subject =>
                 (Line[j] \in w.called <=> j < k \/ (j = k /\ w.pc = "callback"))
      BY <1>4, <1>7, <2>4 DEF Knows
    <3>2. CASE q # Subscriber
      <4>1. Line' = Line /\ Spots' = Spots
        BY <1>1, <1>3, <3>2 DEF Line, Spots, ListInv, ListType, Queues
      <4>2. \A j \in Spots : Line[j] # c
        <5>1. c \notin Subs
          BY <1>1, <1>2, <3>2, QueueFacts DEF Queues, c
        <5> QED
          BY <5>1, LineFacts
      <4> QED
        BY <1>4, <3>1, <4>1, <4>2
    <3>3. CASE q = Subscriber
      <4> DEFINE n == Len(Line)
                 f(j) == IF j < i THEN j ELSE j + 1
                 h == IF k < i THEN k ELSE k - 1
      <4>1. s = Line /\ n \in Nat /\ i \in 1 .. n /\ k \in 1 .. n /\ Line[i] = c
        BY <1>1, <1>2, <3>3 DEF Line, Spots
      <4>2. Line' = RemoveAt(Line, i)
        BY <1>1, <1>3, <3>3 DEF Line, ListInv, ListType
      <4> HIDE DEF s, q
      <4>3. Spots' = 1 .. n - 1 /\ \A j \in 1 .. n - 1 : Line'[j] = Line[f(j)]
        BY <1>5, <4>1, <4>2 DEF Spots
      <4>4. k # i
        BY <3>1, <4>1, <1>4 DEF c
      <4>5. h \in 1 .. n - 1 /\ f(h) = k
        BY <4>1, <4>4
      <4>6. \A j \in 1 .. n - 1 : /\ f(j) \in Spots /\ f(j) # i
                                  /\ j < h <=> f(j) < k
                                  /\ j = h <=> f(j) = k
        BY <4>1, <4>4 DEF Spots
      <4> HIDE DEF f, h
      <4>7. \A j \in 1 .. n - 1 : Line[f(j)] # c
        BY <4>1, <4>6, LineFacts DEF Spots
      <4>8. \A j \in 1 .. n - 1 : SubjectOf[Line[f(j)]] = w.subject =>
              (Line[f(j)] \in w.called \ {c} <=> j < h \/ (j = h /\ w.pc = "callback"))
        BY <3>1, <4>6, <4>7
      <4>9. h \in Spots' /\ Line'[h] = v.sec
        BY <1>4, <3>1, <4>3, <4>5
      <4>10. \A j \in Spots' : SubjectOf[Line'[j]] = v.subject =>
              (Line'[j] \in v.called <=> j < h \/ (j = h /\ v.pc = "callback"))
        BY <1>4, <4>3, <4>8
      <4> QED
        BY <4>9, <4>10
    <3> QED
      BY <3>2, <3>3
  <2> QED
    BY <1>7, <2>2, <2>3, <2>4 DEF Knows
<1> QED
  BY <1>6, <1>7

LEMMA DetachKeepsKnows ==
    ASSUME OthersInterrupt, ListInv, WalksInv, StandsInv, KnowsInv, NEW p \in Contexts, Detach(p)
    PROVE  KnowsInv'
<1> DEFINE c == op[p].item
<1>1. op[p].pc = "detach" /\ CanRun(p)
  BY DEF Detach, At
<1>2. p \in Destroyers /\ \A i \in 1 .. Len(walks[p]) : walks[p][i].sec # c
  BY <1>1 DEF StandsInv, Stands
<1>3. \A r \in Contexts : r # p => walks[r] = <<>>
  BY <1>1, <1>2 DEF OthersInterrupt, CanRun, Busy, Walking
<1>4. \A r \in Contexts : walks'[r] = [i \in 1 .. Len(walks[r]) |->
        [walks[r][i] EXCEPT !.due = @ \ {c}, !.called = @ \ {c}]]
  BY DEF Detach
<1>5. \A r \in Contexts : walks[r] \in Seq(SoundWalks) /\ Len(walks[r]) \in Nat
  BY LenProperties DEF WalksInv
<1> HIDE DEF c
<1> SUFFICES ASSUME NEW r \in Contexts, NEW i \in 1 .. Len(walks'[r])
             PROVE  Knows(walks[r][i])' /\ (walks'[r][i].pc = "probe" => i = 1)
  BY DEF KnowsInv
<1>6. Len(walks'[r]) = Len(walks[r])
  <2>1. DOMAIN walks'[r] = 1 .. Len(walks[r]) /\ walks'[r] \in Seq(SoundWalks)
    BY <1>4, DetachKeepsWalks DEF WalksInv
  <2> QED
    BY <1>5, <2>1, LenProperties
<1>7. r = p
  BY <1>3, <1>6, EmptySeq
<1>8. /\ walks[p][i] \in SoundWalks /\ Knows(walks[p][i]) /\ walks[p][i].sec # c
      /\ walks[p][i].pc = "probe" => i = 1
  BY <1>2, <1>5, <1>6, <1>7, ElementOfSeq DEF KnowsInv
<1>9. walks'[r][i] = [walks[p][i] EXCEPT !.due = @ \ {c}, !.called = @ \ {c}]
  BY <1>4, <1>6, <1>7
<1>10. walks'[r][i].pc = walks[p][i].pc
  BY <1>8, <1>9 DEF SoundWalks, WalkRecords
<1>11. \A v : v = walks'[r][i] => Knows(v)'
  BY <1>8, <1>9, RemovalKeepsKnows DEF c
<1> QED
  BY <1>8, <1>10, <1>11

LEMMA UserCodeKeepsKnows ==
    ASSUME ListInv, WalksInv, StandsInv, KnowsInv, NEW p \in Contexts, UserCode(p)
    PROVE  KnowsInv'
<1>1. ASSUME NEW c \in Channels, Construct(p, c) \/ Register(p, c) \/ Destroy(p, c)
      PROVE  KnowsInv'
  <2>1. walks' = walks /\ order' = order
    BY <1>1 DEF Construct, Register, Destroy
  <2> QED
    BY <2>1 DEF KnowsInv, Knows, Matching, Members, Line, Spots
<1>2. ASSUME NEW c \in Pubs, Publish(p, c)
      PROVE  KnowsInv'
  <2> DEFINE w == StartWalk(SubjectOf[c], "visit")
             ws == Append(walks[p], w)
  <2>1. walks' = [walks EXCEPT ![p] = ws] /\ order' = order
    BY <1>2 DEF Publish
  <2>2. w \in SoundWalks /\ Knows(w) /\ w.pc = "visit"
    BY ChannelsAssumption, FreshWalk, KnowsFresh DEF Channels, StartWalk
  <2>3. walks[p] \in Seq(SoundWalks) /\ Len(walks[p]) \in Nat
    BY LenProperties DEF WalksInv
  <2> HIDE DEF w
  <2>4. /\ Len(ws) = Len(walks[p]) + 1
        /\ \A i \in 1 .. Len(walks[p]) : ws[i] = walks[p][i]
        /\ ws[Len(walks[p]) + 1] = w
    BY <2>2, <2>3, AppendProperties
  <2> HIDE DEF ws
  <2>5. \A i \in 1 .. Len(walks[p]) : Knows(walks[p][i]) /\ (walks[p][i].pc = "probe" => i = 1)
    BY DEF KnowsInv
  <2>6. \A i \in 1 .. Len(ws) : Knows(ws[i]) /\ (ws[i].pc = "probe" => i = 1)
    BY <2>2, <2>3, <2>4, <2>5
  <2> QED
    BY <2>1, <2>6, LoopKeepsKnows
<1>3. ASSUME NEW s \in Subjects, Fetch(p, s)
      PROVE  KnowsInv'
  <2> DEFINE ws == <<StartWalk(s, "probe")>>
  <2>1. walks' = [walks EXCEPT ![p] = ws] /\ order' = order
    BY <1>3 DEF Fetch
  <2>2. Len(ws) = 1 /\ Knows(ws[1])
    BY KnowsFresh
  <2> HIDE DEF ws
  <2>3. \A i \in 1 .. Len(ws) : i = 1
    BY <2>2
  <2> QED
    BY <2>1, <2>2, <2>3, LoopKeepsKnows
<1> QED
  BY <1>1, <1>2, <1>3, UserCode(p) DEF UserCode

\* What the three steps of a loop do to its innermost activation.
LEMMA LoopSteps ==
    ASSUME ListInv, WalksInv, StandsInv, KnowsInv, NEW p \in Contexts,
           Probe(p) \/ Visit(p) \/ Return(p)
    PROVE  /\ Walking(p) /\ Top(p) \in SoundWalks /\ Knows(Top(p)) /\ UNCHANGED <<op, order>>
           /\ \/ /\ Top(p).pc = "probe"
                 /\ \/ walks' = Pop(p)
                    \/ walks' = SetTop(p, StartWalk(Top(p).subject, "visit"))
                    \/ /\ Top(p).sec # Null
                       /\ walks' = SetTop(p, [Top(p) EXCEPT !.sec = link[Top(p).sec]])
              \/ /\ Top(p).pc = "visit" /\ Top(p).sec = Null
                 /\ walks' = Pop(p)
              \/ /\ Top(p).pc = "visit" /\ Top(p).sec # Null
                 /\ SubjectOf[Top(p).sec] = Top(p).subject
                 /\ walks' = SetTop(p, [Top(p) EXCEPT !.pc = "callback", !.called = @ \cup {Top(p).sec}])
              \/ /\ Top(p).sec # Null
                 /\ \/ Top(p).pc = "callback"
                    \/ Top(p).pc = "visit" /\ SubjectOf[Top(p).sec] # Top(p).subject
                 /\ walks' = SetTop(p, [Top(p) EXCEPT !.pc = "visit", !.sec = link[Top(p).sec]])
<1>1. Walking(p) /\ UNCHANGED <<op, order>>
  BY DEF Probe, Visit, Return, Looping
<1>2. walks[p] \in Seq(SoundWalks) /\ walks[p] # <<>>
  BY <1>1 DEF WalksInv, Walking
<1>3. Len(walks[p]) \in 1 .. Len(walks[p])
  BY <1>2, LenProperties, EmptySeq
<1>4. Top(p) \in SoundWalks /\ Knows(Top(p))
  BY <1>1, <1>3, TopWalk DEF KnowsInv, Top
<1>5. CASE Probe(p)
  BY <1>1, <1>4, <1>5 DEF Probe, Looping
<1>6. CASE Visit(p)
  <2>1. Top(p).pc = "visit"
    BY <1>6 DEF Visit, Looping
  <2>2. [Top(p) EXCEPT !.sec = link[Top(p).sec]] = [Top(p) EXCEPT !.pc = "visit", !.sec = link[Top(p).sec]]
    BY <1>4, <2>1 DEF SoundWalks, WalkRecords
  <2> QED
    BY <1>1, <1>4, <1>6, <2>1, <2>2 DEF Visit
<1>7. CASE Return(p)
  <2>1. Top(p).pc = "callback"
    BY <1>7 DEF Return, Looping
  <2> QED
    BY <1>1, <1>4, <1>7, <2>1 DEF Return, SoundWalks
<1> QED
  BY <1>5, <1>6, <1>7

LEMMA LoopsKeepKnows ==
    ASSUME ListInv, WalksInv, StandsInv, KnowsInv, NEW p \in Contexts,
           Probe(p) \/ Visit(p) \/ Return(p)
    PROVE  KnowsInv'
<1> DEFINE w == Top(p)
<1>1. Walking(p) /\ w \in SoundWalks /\ Knows(w) /\ order' = order
  BY LoopSteps
<1>2. w.sec # Null => link[w.sec] \in Subs \cup {Null}
  BY <1>1, SubscriberLinks DEF SoundWalks
<1>3. CASE walks' = Pop(p)
  BY <1>1, <1>3, TopKeepsKnows
<1>4. CASE w.pc = "probe" /\ walks' = SetTop(p, StartWalk(w.subject, "visit"))
  <2>1. w.subject \in Subjects
    BY <1>1 DEF SoundWalks, WalkRecords
  <2>2. /\ StartWalk(w.subject, "visit") \in SoundWalks /\ Knows(StartWalk(w.subject, "visit"))
    BY <2>1, FreshWalk, KnowsFresh
  <2> QED
    BY <1>1, <1>4, <2>2, TopKeepsKnows
<1>5. CASE w.pc = "probe" /\ w.sec # Null /\ walks' = SetTop(p, [w EXCEPT !.sec = link[w.sec]])
  <2> DEFINE v == [w EXCEPT !.sec = link[w.sec]]
  <2>1. v \in SoundWalks
    BY <1>1, <1>2, <1>5, MovedWalk
  <2>2. v.pc = "probe"
    BY <1>1, <1>5 DEF SoundWalks, WalkRecords
  <2> HIDE DEF v
  <2>3. Knows(v)
    BY <2>2 DEF Knows
  <2>4. walks' = SetTop(p, v)
    BY <1>5 DEF v
  <2> QED
    BY <1>1, <1>5, <2>1, <2>3, <2>4, TopKeepsKnows
<1>6. CASE /\ w.pc = "visit" /\ w.sec # Null /\ SubjectOf[w.sec] = w.subject
           /\ walks' = SetTop(p, [w EXCEPT !.pc = "callback", !.called = @ \cup {w.sec}])
  <2> DEFINE v == [w EXCEPT !.pc = "callback", !.called = @ \cup {w.sec}]
  <2>1. v \in SoundWalks /\ Knows(v)
    BY <1>1, <1>6, MovedWalk, KnowsCall
  <2>2. v.pc = "callback"
    BY <1>1 DEF SoundWalks, WalkRecords
  <2>3. walks' = SetTop(p, v)
    BY <1>6
  <2> HIDE DEF v
  <2> QED
    BY <1>1, <2>1, <2>2, <2>3, TopKeepsKnows
<1>7. CASE /\ w.sec # Null
           /\ w.pc = "callback" \/ (w.pc = "visit" /\ SubjectOf[w.sec] # w.subject)
           /\ walks' = SetTop(p, [w EXCEPT !.pc = "visit", !.sec = link[w.sec]])
  <2> DEFINE v == [w EXCEPT !.pc = "visit", !.sec = link[w.sec]]
  <2>1. v \in SoundWalks /\ Knows(v)
    BY <1>1, <1>2, <1>7, MovedWalk, KnowsNext
  <2>2. v.pc = "visit"
    BY <1>1 DEF SoundWalks, WalkRecords
  <2>3. walks' = SetTop(p, v)
    BY <1>7
  <2> HIDE DEF v
  <2> QED
    BY <1>1, <2>1, <2>2, <2>3, TopKeepsKnows
<1> HIDE DEF w
<1> QED
  BY <1>3, <1>4, <1>5, <1>6, <1>7, LoopSteps DEF w

LEMMA NextKeepsKnows ==
    ASSUME OthersInterrupt, ListInv, WalksInv, StandsInv, KnowsInv, [Next]_vars
    PROVE  KnowsInv'
<1>1. ASSUME walks' = walks, order' = order PROVE KnowsInv'
  BY <1>1 DEF KnowsInv, Knows, Matching, Members, Line, Spots
<1>2. ASSUME NEW p \in Contexts, Progress(p) \/ Return(p) PROVE KnowsInv'
  <2>1. CASE Bind(p) \/ Terminate(p) \/ Ending(p) \/ Advertise(p) \/ Search(p) \/ Adjust(p) \/ Free(p)
    BY <1>1, <2>1 DEF Bind, Terminate, Ending, Advertise, Search, Adjust, Free
  <2> QED
    BY <1>2, <2>1, CoupleKeepsKnows, DetachKeepsKnows, LoopsKeepKnows
       DEF Progress, AppendStep, RemoveStep
<1> QED
  BY <1>1, <1>2, UserCodeKeepsKnows DEF Next, vars
-----------------------------------------------------------------------------
(* The refinement mapping.                                                  *)

ActRecords == [subject : Subjects, due : SUBSET Subs, called : SUBSET Subs, now : Pointers]

\* The publications that the loops of a context stand for: none while fetch() looks
\* for the channel that takes the packet.
Probing(ws) == ws # <<>> /\ ws[1].pc = "probe"
ActsOf(ws)  == IF Probing(ws) THEN <<>> ELSE [i \in 1 .. Len(ws) |-> Activation(ws[i])]

\* A function on 1 .. n is a sequence of length n.
LEMMA FunctionIsSeq ==
    ASSUME NEW S, NEW n \in Nat, NEW f \in [1 .. n -> S]
    PROVE  f \in Seq(S) /\ Len(f) = n
<1>1. f \in Seq(S) /\ DOMAIN f = 1 .. n
  BY SeqDef
<1> QED
  BY <1>1, LenProperties

LEMMA ActivationType ==
    ASSUME NEW w \in SoundWalks
    PROVE  Activation(w) \in ActRecords
<1> DEFINE x == IF w.pc = "callback" THEN w.sec ELSE Null
<1>1. x \in Pointers
  BY DEF SoundWalks, Pointers, Chains, Channels
<1>2. w.subject \in Subjects /\ w.due \in SUBSET Subs /\ w.called \in SUBSET Subs
  BY DEF SoundWalks, WalkRecords
<1> HIDE DEF x
<1>3. [subject |-> w.subject, due |-> w.due, called |-> w.called, now |-> x] \in ActRecords
  BY <1>1, <1>2 DEF ActRecords
<1> QED
  BY <1>3 DEF Activation, x

LEMMA SameRecord ==
    ASSUME NEW a \in ActRecords, NEW b \in ActRecords,
           a.subject = b.subject, a.due = b.due, a.called = b.called, a.now = b.now
    PROVE  a = b
BY DEF ActRecords

LEMMA ActsAre ==
    ASSUME NEW ws \in Seq(SoundWalks)
    PROVE  /\ ActsOf(ws) \in Seq(ActRecords)
           /\ Probing(ws) => ActsOf(ws) = <<>>
           /\ ~Probing(ws) => /\ Len(ActsOf(ws)) = Len(ws)
                              /\ \A i \in 1 .. Len(ws) : ActsOf(ws)[i] = Activation(ws[i])
<1> DEFINE f == [i \in 1 .. Len(ws) |-> Activation(ws[i])]
<1>1. Len(ws) \in Nat /\ \A i \in 1 .. Len(ws) : Activation(ws[i]) \in ActRecords
  BY LenProperties, ElementOfSeq, ActivationType
<1>2. f \in [1 .. Len(ws) -> ActRecords] /\ DOMAIN f = 1 .. Len(ws)
  BY <1>1
<1>3. \A i \in 1 .. Len(ws) : f[i] = Activation(ws[i])
  OBVIOUS
<1>4. ActsOf(ws) = IF Probing(ws) THEN <<>> ELSE f
  BY DEF ActsOf
<1> HIDE DEF f
<1>5. f \in Seq(ActRecords) /\ Len(f) = Len(ws)
  BY <1>1, <1>2, SeqDef, LenProperties
<1> QED
  BY <1>3, <1>4, <1>5

LEMMA ActsPush ==
    ASSUME NEW ws \in Seq(SoundWalks), NEW w \in SoundWalks, ~Probing(ws), w.pc # "probe"
    PROVE  ActsOf(Append(ws, w)) = Append(ActsOf(ws), Activation(w))
<1> DEFINE vs == Append(ws, w)
           n == Len(ws)
<1>1. /\ n \in Nat /\ vs \in Seq(SoundWalks) /\ Len(vs) = n + 1
      /\ \A i \in 1 .. n : vs[i] = ws[i]
      /\ vs[n + 1] = w /\ (n = 0 <=> ws = <<>>)
  BY AppendProperties, LenProperties, EmptySeq
<1> HIDE DEF vs
<1>2. ~Probing(vs)
  <2>1. vs[1].pc # "probe"
    BY <1>1 DEF Probing
  <2> QED
    BY <2>1 DEF Probing
<1>3. /\ ActsOf(vs) \in Seq(ActRecords) /\ Len(ActsOf(vs)) = n + 1
      /\ \A i \in 1 .. n + 1 : ActsOf(vs)[i] = Activation(vs[i])
  BY <1>1, <1>2, ActsAre
<1>4. /\ ActsOf(ws) \in Seq(ActRecords) /\ Len(ActsOf(ws)) = n
      /\ \A i \in 1 .. n : ActsOf(ws)[i] = Activation(ws[i])
  BY ActsAre
<1> DEFINE t == Append(ActsOf(ws), Activation(w))
<1>5. /\ t \in Seq(ActRecords) /\ Len(t) = n + 1 /\ t[n + 1] = Activation(w)
      /\ \A i \in 1 .. n : t[i] = Activation(ws[i])
  BY <1>4, ActivationType, AppendProperties
<1> HIDE DEF t
<1>6. \A i \in 1 .. n + 1 : ActsOf(vs)[i] = t[i]
  BY <1>1, <1>3, <1>5
<1>7. ActsOf(vs) = t
  BY <1>3, <1>5, <1>6, SeqEqual
<1> QED
  BY <1>7 DEF vs, t

LEMMA ActsPop ==
    ASSUME NEW ws \in Seq(SoundWalks), ws # <<>>, ~Probing(ws)
    PROVE  ActsOf(SubSeq(ws, 1, Len(ws) - 1)) = SubSeq(ActsOf(ws), 1, Len(ActsOf(ws)) - 1)
<1> DEFINE n == Len(ws)
           vs == SubSeq(ws, 1, n - 1)
           t == SubSeq(ActsOf(ws), 1, n - 1)
<1>1. n \in Nat /\ n > 0
  BY LenProperties, EmptySeq
<1>2. vs \in Seq(SoundWalks) /\ Len(vs) = n - 1 /\ \A i \in 1 .. n - 1 : vs[i] = ws[i]
  <2>1. n - 1 \in Int /\ 1 \in Int /\ \A i \in 1 .. n - 1 : ws[i] \in SoundWalks
    BY <1>1, ElementOfSeq
  <2>2. vs \in Seq(SoundWalks)
    BY <2>1, SubSeqProperties
  <2>3. Len(vs) = IF 1 <= n - 1 THEN n - 1 - 1 + 1 ELSE 0
    BY <2>1, SubSeqProperties
  <2>4. \A i \in 1 .. n - 1 - 1 + 1 : vs[i] = ws[1 + i - 1]
    BY <2>1, SubSeqProperties
  <2> HIDE DEF vs, n
  <2>5. Len(vs) = n - 1
    BY <1>1, <2>3
  <2>6. ASSUME NEW i \in 1 .. n - 1 PROVE vs[i] = ws[i]
    <3>1. i \in 1 .. n - 1 - 1 + 1 /\ 1 + i - 1 = i
      BY <1>1
    <3>2. vs[i] = ws[1 + i - 1]
      BY <2>4, <3>1
    <3> QED
      BY <3>1, <3>2
  <2> QED
    BY <2>2, <2>5, <2>6
<1>3. /\ ActsOf(ws) \in Seq(ActRecords) /\ Len(ActsOf(ws)) = n
      /\ \A i \in 1 .. n : ActsOf(ws)[i] = Activation(ws[i])
  BY ActsAre
<1>4. t \in Seq(ActRecords) /\ Len(t) = n - 1 /\ \A i \in 1 .. n - 1 : t[i] = ActsOf(ws)[i]
  BY <1>1, <1>3, SubSeqProperties
<1> HIDE DEF vs, t
<1>5. ~Probing(vs)
  <2>1. vs # <<>> => 1 \in 1 .. n - 1
    BY <1>1, <1>2, EmptySeq
  <2> QED
    BY <1>1, <1>2, <2>1 DEF Probing
<1>6. /\ ActsOf(vs) \in Seq(ActRecords) /\ Len(ActsOf(vs)) = n - 1
      /\ \A i \in 1 .. n - 1 : ActsOf(vs)[i] = Activation(vs[i])
  BY <1>2, <1>5, ActsAre
<1>7. \A i \in 1 .. n - 1 : ActsOf(vs)[i] = t[i]
  BY <1>1, <1>2, <1>3, <1>4, <1>6
<1>8. ActsOf(vs) = t
  BY <1>4, <1>6, <1>7, SeqEqual
<1> QED
  BY <1>3, <1>8 DEF vs, t

LEMMA ActsSet ==
    ASSUME NEW ws \in Seq(SoundWalks), NEW w \in SoundWalks, ws # <<>>, ~Probing(ws), w.pc # "probe"
    PROVE  ActsOf([ws EXCEPT ![Len(ws)] = w]) = [ActsOf(ws) EXCEPT ![Len(ActsOf(ws))] = Activation(w)]
<1> DEFINE n == Len(ws)
           vs == [ws EXCEPT ![n] = w]
           t == [ActsOf(ws) EXCEPT ![n] = Activation(w)]
<1>1. n \in Nat /\ n > 0 /\ n \in 1 .. n
  BY LenProperties, EmptySeq
<1>2. vs \in Seq(SoundWalks) /\ Len(vs) = n /\ \A i \in 1 .. n : vs[i] = IF i = n THEN w ELSE ws[i]
  BY <1>1, ExceptSeq
<1>3. /\ ActsOf(ws) \in Seq(ActRecords) /\ Len(ActsOf(ws)) = n
      /\ \A i \in 1 .. n : ActsOf(ws)[i] = Activation(ws[i])
  BY ActsAre
<1>4. /\ t \in Seq(ActRecords) /\ Len(t) = n
      /\ \A i \in 1 .. n : t[i] = IF i = n THEN Activation(w) ELSE ActsOf(ws)[i]
  BY <1>1, <1>3, ActivationType, ExceptSeq
<1> HIDE DEF vs, t
<1>5. ~Probing(vs)
  BY <1>1, <1>2 DEF Probing
<1>6. /\ ActsOf(vs) \in Seq(ActRecords) /\ Len(ActsOf(vs)) = n
      /\ \A i \in 1 .. n : ActsOf(vs)[i] = Activation(vs[i])
  BY <1>2, <1>5, ActsAre
<1>7. \A i \in 1 .. n : ActsOf(vs)[i] = t[i]
  BY <1>2, <1>3, <1>4, <1>6
<1>8. ActsOf(vs) = t
  BY <1>4, <1>6, <1>7, SeqEqual
<1> QED
  BY <1>3, <1>8 DEF vs, t

\* The publications of every context, as ImplementsNotification maps them.
Acts == [p \in Contexts |->
          IF Walking(p) /\ walks[p][1].pc = "probe" THEN <<>>
          ELSE [i \in 1 .. Len(walks[p]) |-> Activation(walks[p][i])]]

LEMMA ActsOfContext == \A p \in Contexts : Acts[p] = ActsOf(walks[p])
BY DEF Acts, ActsOf, Probing, Walking

\* A step that changes the loops of one context.
LEMMA ActsOfOne ==
    ASSUME WalksInv, NEW p \in Contexts, NEW ws, walks' = [walks EXCEPT ![p] = ws]
    PROVE  Acts' = [Acts EXCEPT ![p] = ActsOf(ws)]
<1>1. \A r \in Contexts : walks'[r] = IF r = p THEN ws ELSE walks[r]
  BY DEF WalksInv
<1>2. Acts' = [r \in Contexts |-> ActsOf(walks'[r])]
  BY DEF Acts, ActsOf, Probing, Walking
<1>3. Acts = [r \in Contexts |-> ActsOf(walks[r])]
  BY DEF Acts, ActsOf, Probing, Walking
<1> QED
  BY <1>1, <1>2, <1>3

\* A publication that begins: publish(), or fetch() when an event is complete.
LEMMA BeginRefined ==
    ASSUME ListInv, WalksInv, NEW p \in Contexts, NEW s \in Subjects, order' = order,
           Acts[p] # <<>> => Acts[p][Len(Acts[p])].now # Null,
           Acts' = [Acts EXCEPT ![p] = Append(Acts[p], Activation(StartWalk(s, "visit")))]
    PROVE  Promise!Begin(p, s)
<1>1. Activation(StartWalk(s, "visit")) =
        [subject |-> s, due |-> Matching(s), called |-> {}, now |-> Null]
  BY DEF Activation, StartWalk
<1>2. Matching(s) = {c \in Subs : /\ \E i \in 1 .. Len(order[Subscriber]) : order[Subscriber][i] = c
                                  /\ SubjectOf[c] = s}
  <2>1. Members(Subscriber) = {c \in Subs : \E i \in 1 .. Len(order[Subscriber]) : order[Subscriber][i] = c}
    BY LineFacts DEF Members
  <2> QED
    BY <2>1 DEF Matching
<1>3. Acts' = [Acts EXCEPT ![p] = Append(@, [subject |-> s,
          due |-> {c \in Subs : Promise!InRegistry(Subscriber, c) /\ SubjectOf[c] = s},
          called |-> {}, now |-> Null])]
  BY <1>1, <1>2 DEF Promise!InRegistry
<1> QED
  BY <1>3 DEF Promise!Begin, Promise!Current, Acts

LEMMA CoupleRefined ==
    ASSUME ListInv, NEW p \in Contexts, Couple(p)
    PROVE  Promise!NNext
<1> DEFINE c == op[p].item
           q == op[p].q
<1>1. op[p].pc = "couple" /\ order' = [order EXCEPT ![q] = Append(@, c)] /\ walks' = walks
  BY DEF Couple, At
<1>2. q \in Queues /\ c \in Kin(q) /\ c \notin Members(q)
  BY <1>1 DEF ListInv, ListType, OpRecords, OpKnows
<1>3. Acts' = Acts
  BY <1>1 DEF Acts, Walking
<1>4. Promise!Enter(q, c)
  BY <1>1, <1>2, <1>3 DEF Promise!Enter, Promise!InRegistry, Members, Acts
<1>5. (q = Publisher /\ c \in Pubs) \/ (q = Subscriber /\ c \in Subs)
  BY <1>2, QueueFacts DEF Queues
<1> QED
  BY <1>4, <1>5 DEF Promise!NNext

LEMMA DetachRefined ==
    ASSUME ListInv, WalksInv, NEW p \in Contexts, Detach(p)
    PROVE  Promise!NNext
<1> DEFINE c == op[p].item
           q == op[p].q
           s == order[q]
           i == CHOOSE k \in 1 .. Len(s) : s[k] = c
           g(w) == [w EXCEPT !.due = @ \ {c}, !.called = @ \ {c}]
           After(x) == [r \in Contexts |-> [k \in 1 .. Len(Acts[r]) |->
                          [Acts[r][k] EXCEPT !.due = @ \ {x}, !.called = @ \ {x}]]]
<1>1. q \in Queues /\ s \in Seq(Channels) /\ op[p].pc = "detach"
  BY DEF ListInv, ListType, OpRecords, Detach, At
<1>2. i \in 1 .. Len(s) /\ s[i] = c
  <2>1. \E k \in 1 .. Len(s) : s[k] = c
    BY <1>1 DEF ListInv, OpKnows
  <2> QED
    BY <2>1
<1>3. /\ order' = [order EXCEPT ![q] = RemoveAt(@, i)]
      /\ walks' = [r \in Contexts |-> [k \in 1 .. Len(walks[r]) |-> g(walks[r][k])]]
  BY DEF Detach
<1>4. ASSUME NEW a \in ActRecords
      PROVE  /\ g(a) \in ActRecords /\ g(a).subject = a.subject /\ g(a).now = a.now
             /\ g(a).due = a.due \ {c} /\ g(a).called = a.called \ {c}
  BY DEF ActRecords
<1>5. ASSUME NEW w \in SoundWalks
      PROVE  g(w) \in SoundWalks /\ g(w).pc = w.pc /\ Activation(g(w)) = g(Activation(w))
  <2>1. g(w) \in SoundWalks
    BY DEF SoundWalks, WalkRecords
  <2>2. /\ g(w).pc = w.pc /\ g(w).subject = w.subject /\ g(w).sec = w.sec
        /\ g(w).due = w.due \ {c} /\ g(w).called = w.called \ {c}
    BY DEF SoundWalks, WalkRecords
  <2> HIDE DEF g
  <2>3. \A v : /\ Activation(v).subject = v.subject /\ Activation(v).due = v.due
               /\ Activation(v).called = v.called
               /\ Activation(v).now = IF v.pc = "callback" THEN v.sec ELSE Null
    BY DEF Activation
  <2>4. Activation(w) \in ActRecords /\ Activation(g(w)) \in ActRecords
    BY <2>1, ActivationType
  <2>5. Activation(g(w)) = g(Activation(w))
    <3> DEFINE a == Activation(w)
               b == g(a)
               d == Activation(g(w))
    <3>1. b \in ActRecords /\ d \in ActRecords
      BY <1>4, <2>4
    <3>2. /\ b.subject = w.subject /\ b.due = w.due \ {c} /\ b.called = w.called \ {c}
          /\ b.now = IF w.pc = "callback" THEN w.sec ELSE Null
      BY <1>4, <2>3, <2>4
    <3>3. /\ d.subject = w.subject /\ d.due = w.due \ {c} /\ d.called = w.called \ {c}
          /\ d.now = IF w.pc = "callback" THEN w.sec ELSE Null
      BY <2>2, <2>3
    <3> HIDE DEF b, d
    <3>4. b = d
      BY <3>1, <3>2, <3>3, SameRecord
    <3> QED
      BY <3>4 DEF b, d
  <2> QED
    BY <2>1, <2>2, <2>5
<1> HIDE DEF i
<1>6. ASSUME NEW r \in Contexts
      PROVE  ActsOf(walks'[r]) = [k \in 1 .. Len(Acts[r]) |-> g(Acts[r][k])]
  <2> HIDE DEF g
  <2> DEFINE ws == walks[r]
             n == Len(ws)
             as == Acts[r]
             vs == [k \in 1 .. n |-> g(ws[k])]
             t == [k \in 1 .. Len(as) |-> g(as[k])]
  <2>1. ws \in Seq(SoundWalks) /\ n \in Nat
    BY LenProperties DEF WalksInv
  <2>2. as = ActsOf(ws) /\ walks'[r] = vs
    BY <1>3, ActsOfContext
  <2> HIDE DEF ws, as
  <2>3. \A k \in 1 .. n : ws[k] \in SoundWalks /\ g(ws[k]) \in SoundWalks
    BY <1>5, <2>1, ElementOfSeq
  <2>4. vs \in [1 .. n -> SoundWalks] /\ \A k \in 1 .. n : vs[k] = g(ws[k])
    BY <2>3
  <2>5. vs \in Seq(SoundWalks) /\ Len(vs) = n
    BY <2>1, <2>4, FunctionIsSeq
  <2>6. as \in Seq(ActRecords) /\ Len(as) \in Nat
    BY <2>1, <2>2, ActsAre, LenProperties
  <2>7. \A k \in 1 .. Len(as) : g(as[k]) \in ActRecords
    BY <1>4, <2>6, ElementOfSeq
  <2>8. t \in [1 .. Len(as) -> ActRecords] /\ \A k \in 1 .. Len(as) : t[k] = g(as[k])
    BY <2>7
  <2>9. t \in Seq(ActRecords) /\ Len(t) = Len(as)
    BY <2>6, <2>8, FunctionIsSeq
  <2> HIDE DEF vs, t
  <2>10. Probing(vs) <=> Probing(ws)
    <3>1. vs # <<>> <=> ws # <<>>
      BY <2>1, <2>5, EmptySeq
    <3>2. ws # <<>> => 1 \in 1 .. n
      BY <2>1, EmptySeq
    <3>3. ws # <<>> => vs[1].pc = ws[1].pc
      BY <1>5, <2>3, <2>4, <3>2
    <3> QED
      BY <3>1, <3>3 DEF Probing
  <2>11. CASE Probing(ws)
    <3>1. ActsOf(vs) = <<>> /\ Len(as) = 0
      BY <2>1, <2>2, <2>5, <2>10, <2>11, ActsAre, EmptySeq
    <3>2. t = <<>>
      BY <2>9, <3>1, EmptySeq
    <3> QED
      BY <2>2, <3>1, <3>2 DEF t, as
  <2>12. CASE ~Probing(ws)
    <3>1. /\ ActsOf(vs) \in Seq(ActRecords) /\ Len(ActsOf(vs)) = n /\ Len(as) = n
          /\ \A k \in 1 .. n : ActsOf(vs)[k] = Activation(vs[k]) /\ as[k] = Activation(ws[k])
      BY <2>1, <2>2, <2>5, <2>10, <2>12, ActsAre
    <3>2. ASSUME NEW k \in 1 .. n PROVE ActsOf(vs)[k] = t[k]
      <4>1. ActsOf(vs)[k] = Activation(g(ws[k])) /\ t[k] = g(Activation(ws[k]))
        BY <2>4, <2>8, <3>1
      <4> QED
        BY <1>5, <2>3, <4>1
    <3>3. ActsOf(vs) = t
      BY <2>9, <3>1, <3>2, SeqEqual
    <3> QED
      BY <2>2, <3>3 DEF t, as
  <2> QED
    BY <2>11, <2>12
<1>7. Acts' = [r \in Contexts |-> ActsOf(walks'[r])]
  BY DEF Acts, ActsOf, Probing, Walking
<1>8. Acts' = After(c)
  <2>1. Acts' = [r \in Contexts |-> [k \in 1 .. Len(Acts[r]) |-> g(Acts[r][k])]]
    <3> HIDE DEF g
    <3> QED
      BY <1>6, <1>7
  <2> QED
    BY <2>1
<1>9. Acts' = After(order[q][i])
  <2>1. order[q][i] = c
    BY <1>2
  <2> HIDE DEF After
  <2> QED
    BY <1>8, <2>1
<1>10. q \in {Publisher, Subscriber} /\ i \in 1 .. Len(order[q])
  BY <1>1, <1>2 DEF Queues
<1>11. PICK a \in {Publisher, Subscriber} : a = q
  BY <1>10
<1>12. PICK b \in 1 .. Len(order[a]) : b = i
  BY <1>10, <1>11
<1>13. order' = [order EXCEPT ![a] = RemoveAt(@, b)]
  BY <1>3, <1>11, <1>12
<1>14. Acts' = After(order[a][b])
  BY <1>9, <1>11, <1>12
<1>15. Promise!Leave(a, b)
  <2>1. Promise!RemoveAt(order[a], b) = RemoveAt(order[a], b)
    BY DEF RemoveAt, Promise!RemoveAt
  <2>2. order' = [order EXCEPT ![a] = Promise!RemoveAt(@, b)]
    BY <1>13, <2>1
  <2> QED
    BY <1>14, <2>2 DEF Promise!Leave, Acts
<1> QED
  BY <1>15 DEF Promise!NNext

\* The publication that the innermost loop of a context stands for.
LEMMA TopActs ==
    ASSUME WalksInv, StandsInv, KnowsInv, NEW p \in Contexts, Walking(p)
    PROVE  /\ walks[p] \in Seq(SoundWalks) /\ walks[p] # <<>> /\ Len(walks[p]) \in 1 .. Len(walks[p])
           /\ Top(p) \in SoundWalks
           /\ Top(p).pc = "probe" => Len(walks[p]) = 1 /\ Acts[p] = <<>>
           /\ Top(p).pc # "probe" =>
                /\ ~Probing(walks[p])
                /\ Acts[p] \in Seq(ActRecords) /\ Acts[p] # <<>>
                /\ Len(Acts[p]) = Len(walks[p])
                /\ Acts[p][Len(Acts[p])] = Activation(Top(p))
<1> DEFINE ws == walks[p]
           n == Len(ws)
<1>1. ws \in Seq(SoundWalks) /\ ws # <<>>
  BY DEF WalksInv, Walking
<1>2. n \in 1 .. n /\ 1 \in 1 .. n /\ n \in Nat
  BY <1>1, EmptySeq
<1>3. Top(p) \in SoundWalks /\ Top(p) = ws[n]
  BY TopWalk DEF Top
<1>4. Acts[p] = ActsOf(ws)
  BY ActsOfContext
<1>5. CASE Top(p).pc = "probe"
  <2>1. n = 1
    BY <1>2, <1>3, <1>5 DEF KnowsInv
  <2>2. Probing(ws)
    BY <1>1, <1>3, <1>5, <2>1 DEF Probing
  <2> QED
    BY <1>1, <1>2, <1>3, <1>4, <1>5, <2>1, <2>2, ActsAre
<1>6. CASE Top(p).pc # "probe"
  <2>1. ws[1].pc # "probe"
    <3>1. CASE n = 1
      BY <1>3, <1>6, <3>1
    <3>2. CASE n # 1
      <4>1. 1 < n
        <5> HIDE DEF n
        <5> QED
          BY <1>2, <3>2
      <4>2. ws[1].pc = "callback"
        BY <1>2, <4>1 DEF StandsInv, Stands
      <4> QED
        BY <4>2
    <3> QED
      BY <3>1, <3>2
  <2>2. ~Probing(ws)
    BY <2>1 DEF Probing
  <2>3. ActsOf(ws) \in Seq(ActRecords) /\ Len(ActsOf(ws)) = n /\ ActsOf(ws)[n] = Activation(ws[n])
    BY <1>1, <1>2, <2>2, ActsAre
  <2>4. ActsOf(ws) # <<>>
    BY <1>2, <2>3, EmptySeq
  <2> QED
    BY <1>1, <1>2, <1>3, <1>4, <1>6, <2>2, <2>3, <2>4
<1> QED
  BY <1>5, <1>6

LEMMA NoLoopsNoActs == ActsOf(<<>>) = <<>>
<1>1. <<>> \in Seq(SoundWalks) /\ Len(<<>>) = 0 /\ ~Probing(<<>>)
  BY EmptySeq DEF Probing
<1>2. ActsOf(<<>>) \in Seq(ActRecords) /\ Len(ActsOf(<<>>)) = 0
  BY <1>1, ActsAre
<1> QED
  BY <1>2, EmptySeq

LEMMA UserCodeRefined ==
    ASSUME ListInv, WalksInv, StandsInv, KnowsInv, NEW p \in Contexts, UserCode(p)
    PROVE  Promise!NNext \/ (order' = order /\ Acts' = Acts)
<1>1. ASSUME NEW c \in Channels, Construct(p, c) \/ Register(p, c) \/ Destroy(p, c)
      PROVE  order' = order /\ Acts' = Acts
  BY <1>1 DEF Construct, Register, Destroy, Acts, Walking
<1>2. ASSUME NEW c \in Pubs, Publish(p, c)
      PROVE  Promise!NNext
  <2> DEFINE w == StartWalk(SubjectOf[c], "visit")
  <2>1. InUserCode(p) /\ walks' = [walks EXCEPT ![p] = Append(walks[p], w)] /\ order' = order
    BY <1>2 DEF Publish, MayStart
  <2>2. SubjectOf[c] \in Subjects /\ w \in SoundWalks /\ w.pc = "visit" /\ walks[p] \in Seq(SoundWalks)
    BY ChannelsAssumption, FreshWalk DEF Channels, StartWalk, WalksInv
  <2>3. ~Probing(walks[p]) /\ (Acts[p] # <<>> => Acts[p][Len(Acts[p])].now # Null)
    <3>1. CASE Walking(p)
      <4>1. Top(p).pc = "callback"
        BY <2>1, <3>1 DEF InUserCode
      <4>2. /\ ~Probing(walks[p]) /\ Acts[p][Len(Acts[p])] = Activation(Top(p))
            /\ Top(p).sec # Null
        BY <3>1, <4>1, TopActs DEF SoundWalks
      <4> QED
        BY <4>1, <4>2 DEF Activation
    <3>2. CASE ~Walking(p)
      <4>1. walks[p] = <<>> /\ Acts[p] = ActsOf(walks[p])
        BY <3>2, ActsOfContext DEF Walking
      <4> QED
        BY <4>1, NoLoopsNoActs DEF Probing
    <3> QED
      BY <3>1, <3>2
  <2> HIDE DEF w
  <2>4. ActsOf(Append(walks[p], w)) = Append(Acts[p], Activation(w))
    BY <2>2, <2>3, ActsPush, ActsOfContext
  <2>5. Acts' = [Acts EXCEPT ![p] = Append(Acts[p], Activation(w))]
    BY <2>1, <2>4, ActsOfOne
  <2>6. Promise!Begin(p, SubjectOf[c])
    BY <2>1, <2>2, <2>3, <2>5, BeginRefined DEF w
  <2> QED
    BY <2>2, <2>6 DEF Promise!NNext
<1>3. ASSUME NEW s \in Subjects, Fetch(p, s)
      PROVE  order' = order /\ Acts' = Acts
  <2> DEFINE ws == <<StartWalk(s, "probe")>>
  <2>1. order' = order /\ walks' = [walks EXCEPT ![p] = ws] /\ walks[p] = <<>>
    BY <1>3 DEF Fetch, Busy, Walking
  <2>2. Probing(ws)
    BY DEF Probing, StartWalk
  <2>3. ActsOf(ws) = <<>>
    BY <2>2 DEF ActsOf
  <2>4. Acts[p] = <<>>
    BY <2>1, ActsOfContext, NoLoopsNoActs
  <2> HIDE DEF ws
  <2>5. Acts' = [Acts EXCEPT ![p] = <<>>]
    BY <2>1, <2>3, ActsOfOne
  <2>6. Acts' = Acts
    BY <2>4, <2>5 DEF Acts
  <2> QED
    BY <2>1, <2>6
<1> QED
  BY <1>1, <1>2, <1>3, UserCode(p) DEF UserCode

LEMMA LoopsRefined ==
    ASSUME ListInv, WalksInv, StandsInv, KnowsInv, NEW p \in Contexts,
           Probe(p) \/ Visit(p) \/ Return(p)
    PROVE  Promise!NNext \/ (order' = order /\ Acts' = Acts)
<1> DEFINE w == Top(p)
           ws == walks[p]
           n == Len(Acts[p])
<1>1. Walking(p) /\ w \in SoundWalks /\ Knows(w) /\ order' = order
  BY LoopSteps
<1>2. ws \in Seq(SoundWalks) /\ ws # <<>> /\ Len(ws) \in 1 .. Len(ws) /\ Acts[p] = ActsOf(ws)
  BY <1>1, TopActs, ActsOfContext
<1>3. w.pc = "probe" => Len(ws) = 1 /\ Acts[p] = <<>>
  BY <1>1, TopActs
<1>4. w.pc # "probe" => ~Probing(ws) /\ Acts[p] \in Seq(ActRecords) /\ Acts[p] # <<>>
                        /\ Acts[p][n] = Activation(w)
  BY <1>1, TopActs
<1>5. w.sec # Null => link[w.sec] \in Subs \cup {Null}
  BY <1>1, SubscriberLinks DEF SoundWalks
<1>6. ASSUME NEW as, Acts' = [Acts EXCEPT ![p] = as], as = Acts[p]
      PROVE  Acts' = Acts
  BY <1>6 DEF Acts
<1>7. /\ Activation(w).subject = w.subject /\ Activation(w).due = w.due
      /\ Activation(w).called = w.called
      /\ Activation(w).now = IF w.pc = "callback" THEN w.sec ELSE Null
  BY DEF Activation
\* The innermost loop goes on as v.
<1>8. ASSUME NEW v \in SoundWalks, walks' = SetTop(p, v), w.pc # "probe", v.pc # "probe"
      PROVE  Acts' = [Acts EXCEPT ![p] = [Acts[p] EXCEPT ![n] = Activation(v)]]
  <2>1. walks' = [walks EXCEPT ![p] = [ws EXCEPT ![Len(ws)] = v]]
    BY <1>8 DEF SetTop
  <2>2. ActsOf([ws EXCEPT ![Len(ws)] = v]) = [Acts[p] EXCEPT ![n] = Activation(v)]
    BY <1>2, <1>4, <1>8, ActsSet
  <2> QED
    BY <2>1, <2>2, ActsOfOne
<1>9. ASSUME w.pc = "probe", walks' = Pop(p) PROVE Acts' = Acts
  <2> DEFINE vs == SubSeq(ws, 1, Len(ws) - 1)
  <2>1. walks' = [walks EXCEPT ![p] = vs]
    BY <1>9 DEF Pop
  <2>2. vs = <<>>
    <3>1. Len(ws) - 1 = 0
      BY <1>3, <1>9
    <3>2. SubSeq(ws, 1, 0) = <<>>
      BY SubSeqEmpty
    <3> QED
      BY <3>1, <3>2
  <2> QED
    BY <1>3, <1>6, <1>9, <2>1, <2>2, ActsOfOne, NoLoopsNoActs
<1>10. ASSUME w.pc = "probe", walks' = SetTop(p, StartWalk(w.subject, "visit"))
       PROVE  Promise!NNext
  <2>1. PICK s \in Subjects : s = w.subject
    BY <1>1 DEF SoundWalks, WalkRecords
  <2> DEFINE v == StartWalk(s, "visit")
             vs == [ws EXCEPT ![1] = v]
  <2>2. v \in SoundWalks /\ v.pc = "visit"
    BY FreshWalk DEF StartWalk
  <2>3. walks' = [walks EXCEPT ![p] = vs]
    BY <1>3, <1>10, <2>1 DEF SetTop
  <2> HIDE DEF v
  <2>4. vs \in Seq(SoundWalks) /\ Len(vs) = 1 /\ vs[1] = v
    BY <1>2, <1>3, <1>10, <2>2, ExceptSeq
  <2> HIDE DEF vs
  <2>5. ~Probing(vs)
    BY <2>2, <2>4 DEF Probing
  <2>6. ActsOf(vs) \in Seq(ActRecords) /\ Len(ActsOf(vs)) = 1 /\ ActsOf(vs)[1] = Activation(v)
    BY <2>4, <2>5, ActsAre
  <2>7. ActsOf(vs) = Append(Acts[p], Activation(v))
    <3> DEFINE t == Append(<<>>, Activation(v))
    <3>1. t \in Seq(ActRecords) /\ Len(t) = 1 /\ t[1] = Activation(v)
      BY <2>2, ActivationType, EmptySeq, AppendProperties
    <3> HIDE DEF t
    <3>2. \A i \in 1 .. 1 : ActsOf(vs)[i] = t[i]
      BY <2>6, <3>1
    <3>3. ActsOf(vs) = t
      BY <2>6, <3>1, <3>2, SeqEqual
    <3> QED
      BY <1>3, <1>10, <3>3 DEF t
  <2>8. Acts' = [Acts EXCEPT ![p] = Append(Acts[p], Activation(v))]
    BY <2>3, <2>7, ActsOfOne
  <2>9. Promise!Begin(p, s)
    BY <1>1, <1>3, <1>10, <2>8, BeginRefined DEF v
  <2> QED
    BY <2>9 DEF Promise!NNext
<1>11. ASSUME w.pc = "probe", w.sec # Null, walks' = SetTop(p, [w EXCEPT !.sec = link[w.sec]])
       PROVE  Acts' = Acts
  <2> DEFINE v == [w EXCEPT !.sec = link[w.sec]]
             vs == [ws EXCEPT ![1] = v]
  <2>1. v \in SoundWalks /\ v.pc = "probe"
    BY <1>1, <1>5, <1>11, MovedWalk DEF SoundWalks, WalkRecords
  <2>2. walks' = [walks EXCEPT ![p] = vs]
    BY <1>3, <1>11 DEF SetTop
  <2> HIDE DEF v
  <2>3. vs \in Seq(SoundWalks) /\ Len(vs) = 1 /\ vs[1] = v
    BY <1>2, <1>3, <1>11, <2>1, ExceptSeq
  <2> HIDE DEF vs
  <2>4. Probing(vs)
    <3>1. Len(<<>>) = 0
      BY EmptySeq
    <3>2. vs # <<>>
      BY <2>3, <3>1
    <3> QED
      BY <2>1, <2>3, <3>2 DEF Probing
  <2>5. ActsOf(vs) = <<>>
    BY <2>4 DEF ActsOf
  <2> QED
    BY <1>3, <1>6, <1>11, <2>2, <2>5, ActsOfOne
<1>12. ASSUME w.pc = "visit", w.sec = Null, walks' = Pop(p)
       PROVE  Promise!NNext
  <2>1. walks' = [walks EXCEPT ![p] = SubSeq(ws, 1, Len(ws) - 1)]
    BY <1>12 DEF Pop
  <2>2. Acts' = [Acts EXCEPT ![p] = SubSeq(Acts[p], 1, n - 1)]
    <3>1. ActsOf(SubSeq(ws, 1, Len(ws) - 1)) = SubSeq(ActsOf(ws), 1, Len(ActsOf(ws)) - 1)
      BY <1>2, <1>4, <1>12, ActsPop
    <3>2. Acts' = [Acts EXCEPT ![p] = ActsOf(SubSeq(ws, 1, Len(ws) - 1))]
      BY <2>1, ActsOfOne
    <3> QED
      BY <1>2, <3>1, <3>2
  <2>3. /\ Acts[p] # <<>> /\ Acts[p][n].now = Null /\ Acts[p][n].due \subseteq Acts[p][n].called
    BY <1>1, <1>4, <1>7, <1>12 DEF Knows
  <2>4. Promise!End(p)
    BY <1>1, <2>2, <2>3 DEF Promise!End, Promise!Current, Acts
  <2> QED
    BY <2>4 DEF Promise!NNext
<1>13. ASSUME w.pc = "visit", w.sec # Null, SubjectOf[w.sec] = w.subject,
              walks' = SetTop(p, [w EXCEPT !.pc = "callback", !.called = @ \cup {w.sec}])
       PROVE  Promise!NNext
  <2> DEFINE v == [w EXCEPT !.pc = "callback", !.called = @ \cup {w.sec}]
  <2>1. PICK k \in Spots :
          /\ Line[k] = w.sec
          /\ \A j \in Spots : SubjectOf[Line[j]] = w.subject => (Line[j] \in w.called <=> j < k)
    BY <1>1, <1>13 DEF Knows
  <2>2. PICK c \in Subs : c = w.sec
    BY <1>1, <1>13 DEF SoundWalks
  <2>3. v \in SoundWalks
    BY <1>1, <1>13, MovedWalk
  <2>4. /\ v.pc = "callback" /\ v.subject = w.subject /\ v.due = w.due /\ v.sec = c
        /\ v.called = w.called \cup {c}
    BY <1>1, <2>2 DEF SoundWalks, WalkRecords
  <2>5. walks' = SetTop(p, v)
    BY <1>13
  <2> HIDE DEF v
  <2>6. Acts' = [Acts EXCEPT ![p] = [Acts[p] EXCEPT ![n] = Activation(v)]]
    BY <1>8, <1>13, <2>3, <2>4, <2>5
  <2> DEFINE a == Activation(w)
             b == [subject |-> a.subject, due |-> a.due, called |-> a.called \cup {c}, now |-> c]
             After(x) == [Acts EXCEPT ![p] = [Acts[p] EXCEPT ![n] =
                           [subject |-> Acts[p][n].subject, due |-> Acts[p][n].due,
                            called |-> Acts[p][n].called \cup {x}, now |-> x]]]
  <2>7. a \in ActRecords /\ Activation(v) \in ActRecords
    BY <1>1, <2>3, ActivationType
  <2>8. /\ Activation(v).subject = a.subject /\ Activation(v).due = a.due
        /\ Activation(v).called = a.called \cup {c} /\ Activation(v).now = c
    BY <1>7, <2>4 DEF Activation
  <2> HIDE DEF a
  <2>9. b \in ActRecords /\ b.subject = a.subject /\ b.due = a.due /\ b.called = a.called \cup {c} /\ b.now = c
    BY <2>7 DEF ActRecords, Pointers, Chains, Channels
  <2> HIDE DEF b
  <2>10. Activation(v) = b
    BY <2>7, <2>8, <2>9, SameRecord
  <2>11. Acts' = After(c)
    BY <1>4, <1>13, <2>6, <2>10 DEF a, b
  <2>12. order[Subscriber][k] = c /\ k \in 1 .. Len(order[Subscriber]) /\ k \in Nat
    BY <2>1, <2>2, LineFacts DEF Line, Spots
  <2>13. /\ SubjectOf[c] = Acts[p][n].subject /\ c \notin Acts[p][n].called
         /\ \A j \in 1 .. k - 1 : SubjectOf[order[Subscriber][j]] = Acts[p][n].subject
                                    => order[Subscriber][j] \in Acts[p][n].called
    <3>1. Acts[p][n].subject = w.subject /\ Acts[p][n].called = w.called
      BY <1>4, <1>7, <1>13
    <3>2. c \notin w.called
      BY <1>13, <2>1, <2>2, <2>12
    <3>3. \A j \in 1 .. k - 1 : j \in Spots /\ j < k
      BY <2>12, LineFacts DEF Spots, Line
    <3>4. \A j \in Spots : Line[j] = order[Subscriber][j]
      BY DEF Line
    <3> QED
      BY <1>13, <2>1, <2>2, <3>1, <3>2, <3>3, <3>4
  <2>14. Acts[p] # <<>> /\ Acts[p][n].now = Null
    BY <1>4, <1>7, <1>13
  <2>15. Promise!Notify(p, k)
    <3> DEFINE d == order[Subscriber][k]
    <3>1. d = c
      BY <2>12
    <3>2. Acts' = After(d)
      <4> HIDE DEF After, d
      <4> QED
        BY <2>11, <3>1
    <3>3. /\ Acts[p] # <<>> /\ Acts[p][n].now = Null
          /\ SubjectOf[d] = Acts[p][n].subject /\ d \notin Acts[p][n].called
          /\ order' = order
      BY <1>1, <2>13, <2>14, <3>1
    <3>4. \A j \in 1 .. k - 1 : SubjectOf[order[Subscriber][j]] = Acts[p][n].subject
                                => order[Subscriber][j] \in Acts[p][n].called
      BY <2>13
    <3> QED
      BY <3>2, <3>3, <3>4 DEF Promise!Notify, Promise!Current, Acts
  <2> QED
    BY <2>12, <2>15 DEF Promise!NNext
<1>14. ASSUME w.sec # Null, w.pc \in {"callback", "visit"},
              walks' = SetTop(p, [w EXCEPT !.pc = "visit", !.sec = link[w.sec]])
       PROVE  IF w.pc = "callback" THEN Promise!NNext ELSE Acts' = Acts
  <2> DEFINE v == [w EXCEPT !.pc = "visit", !.sec = link[w.sec]]
             a == Activation(w)
             b == [a EXCEPT !.now = Null]
  <2>1. v \in SoundWalks
    BY <1>1, <1>5, <1>14, MovedWalk
  <2>2. /\ v.pc = "visit" /\ v.subject = w.subject /\ v.due = w.due /\ v.called = w.called
    BY <1>1 DEF SoundWalks, WalkRecords
  <2>3. walks' = SetTop(p, v)
    BY <1>14
  <2> HIDE DEF v
  <2>4. Acts' = [Acts EXCEPT ![p] = [Acts[p] EXCEPT ![n] = Activation(v)]]
    BY <1>8, <1>14, <2>1, <2>2, <2>3
  <2>5. a \in ActRecords /\ Activation(v) \in ActRecords
    BY <1>1, <2>1, ActivationType
  <2>6. /\ Activation(v).subject = a.subject /\ Activation(v).due = a.due
        /\ Activation(v).called = a.called /\ Activation(v).now = Null
    BY <1>7, <2>2 DEF Activation
  <2> HIDE DEF a
  <2>7. b \in ActRecords /\ b.subject = a.subject /\ b.due = a.due /\ b.called = a.called /\ b.now = Null
    BY <2>5 DEF ActRecords, Pointers
  <2> HIDE DEF b
  <2>8. Activation(v) = b
    BY <2>5, <2>6, <2>7, SameRecord
  <2>9. CASE w.pc = "callback"
    <3>1. Acts' = [Acts EXCEPT ![p] = [Acts[p] EXCEPT ![n] = [Acts[p][n] EXCEPT !.now = Null]]]
      BY <1>4, <2>4, <2>8, <2>9 DEF a, b
    <3>2. Acts[p] # <<>> /\ Acts[p][n].now # Null
      BY <1>4, <1>7, <1>14, <2>9
    <3>3. Promise!Notified(p)
      BY <1>1, <3>1, <3>2 DEF Promise!Notified, Promise!Current, Acts
    <3> QED
      BY <2>9, <3>3 DEF Promise!NNext
  <2>10. CASE w.pc = "visit"
    <3>1. a.now = Null
      BY <1>7, <2>10 DEF a
    <3>2. Activation(v) = a
      BY <2>5, <2>6, <3>1, SameRecord
    <3>3. [Acts[p] EXCEPT ![n] = Acts[p][n]] = Acts[p]
      BY <1>4, <2>10, LenProperties
    <3>4. Acts[p][n] = a
      BY <1>4, <2>10 DEF a
    <3> QED
      BY <1>6, <2>4, <2>10, <3>2, <3>3, <3>4
  <2> QED
    BY <1>14, <2>9, <2>10
<1> HIDE DEF w
<1> QED
  BY <1>1, <1>9, <1>10, <1>11, <1>12, <1>13, <1>14, LoopSteps DEF w

LEMMA StepRefined ==
    ASSUME ListInv, WalksInv, StandsInv, KnowsInv, [Next]_vars
    PROVE  Promise!NNext \/ (order' = order /\ Acts' = Acts)
<1>1. ASSUME walks' = walks, order' = order PROVE Acts' = Acts
  BY <1>1 DEF Acts, Walking
<1>2. ASSUME NEW p \in Contexts, Progress(p) \/ Return(p)
      PROVE  Promise!NNext \/ (order' = order /\ Acts' = Acts)
  <2>1. CASE Bind(p) \/ Terminate(p) \/ Ending(p) \/ Advertise(p) \/ Search(p) \/ Adjust(p) \/ Free(p)
    BY <1>1, <2>1 DEF Bind, Terminate, Ending, Advertise, Search, Adjust, Free
  <2> QED
    BY <1>2, <2>1, CoupleRefined, DetachRefined, LoopsRefined DEF Progress, AppendStep, RemoveStep
<1> QED
  BY <1>1, <1>2, UserCodeRefined DEF Next, vars

LEMMA InitRefined == Init => KnowsInv /\ Promise!NInit
<1> SUFFICES ASSUME Init PROVE KnowsInv /\ Promise!NInit
  OBVIOUS
<1>1. \A p \in Contexts : walks[p] = <<>> /\ Len(walks[p]) = 0
  BY EmptySeq DEF Init
<1>2. KnowsInv
  BY <1>1 DEF KnowsInv
<1>3. Acts = [p \in Contexts |-> <<>>]
  BY <1>1, ActsOfContext, NoLoopsNoActs DEF Acts
<1> QED
  BY <1>2, <1>3 DEF Init, Promise!NInit, Acts, Queues

\* The list, link by link and with every interleaving of interrupts, keeps the promise
\* of Notification: each publication notifies the registered subscribers of its subject
\* once, in the order of registration, and does not end before (publish_local, fetch).
THEOREM DispatcherImplementsNotification == ASSUME OthersInterrupt PROVE Spec => ImplementsNotification
<1> DEFINE I == ListInv /\ WalksInv /\ StandsInv /\ KnowsInv
<1>1. Init => I /\ Promise!NInit
  BY InitHoldsList, InitHoldsWalks, InitHoldsStands, InitRefined
<1>2. I /\ [Next]_vars => I'
  BY NextKeepsList, NextKeepsWalks, NextKeepsStands, NextKeepsKnows
<1>3. I /\ [Next]_vars => [Promise!NNext]_Promise!nvars
  <2> SUFFICES ASSUME I, [Next]_vars PROVE Promise!NNext \/ UNCHANGED Promise!nvars
    OBVIOUS
  <2> QED
    BY StepRefined DEF Promise!nvars, Acts
<1> HIDE DEF I
<1> QED
  BY <1>1, <1>2, <1>3, PTL DEF Spec, ImplementsNotification, Promise!Spec
=============================================================================
