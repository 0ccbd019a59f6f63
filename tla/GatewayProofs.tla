--------------------------- MODULE GatewayProofs ---------------------------
(***************************************************************************)
(* Theorems about gateways, for any nodes, networks, gateways and          *)
(* subscriptions: a gateway has one forward channel per subject, and, in a *)
(* network without loops whose gateways are undisturbed, all networks      *)
(* together are one bus.                                                   *)
(***************************************************************************)
EXTENDS Gateway, SequenceTheorems, WellFoundedInduction, TLAPS

-----------------------------------------------------------------------------
(* Types.                                                                  *)

Messages == {Message(e) : e \in Events}
            \cup {SubscribeTo(s) : s \in Subjects \cup {SUBSCRIBE}}
Proxies  == [kind : {"forward"}, subject : Subjects, to : Networks]
Channels == [kind : {"app"}, subject : Subjects]
            \cup [kind : {"gateway"}, subject : {SUBSCRIBE}]
            \cup Proxies
Calls    == [net : Networks \cup {None}, msg : Messages, next : Nat \ {0},
             binds : Proxies \cup {None}]

Types ==
    /\ conf \in Configs
    /\ channels \in [Nodes -> Seq(Channels)]
    /\ gecs \in [Gateways -> SUBSET [subject : Subjects, to : Networks]]
    /\ bnl \in [Nodes -> Networks \cup {None}]
    /\ calls \in [Nodes -> [Flows -> Seq(Calls)]]
    /\ inbox \in [Nodes -> [Networks -> Seq(Messages)]]
    /\ published \in SUBSET Events
    /\ got \in [Deliveries -> Nat]
    /\ written \in SUBSET (Networks \X Events)
    /\ \A n \in Nodes \ conf.gateways : \A i \in DOMAIN channels[n] : channels[n][i].kind = "app"
    /\ \A n \in Nodes \ conf.gateways, p \in Flows :
          \A i \in DOMAIN calls[n][p] : calls[n][p][i].binds = None

-----------------------------------------------------------------------------
(* Stacks of calls and queues of packets.                                  *)

SetLast(q, c) == [q EXCEPT ![Len(q)] = c]

LEMMA Appended ==
  ASSUME NEW S, NEW q \in Seq(S), NEW c \in S
  PROVE  /\ Append(q, c) \in Seq(S)
         /\ Len(q) \in Nat
         /\ Len(Append(q, c)) = Len(q) + 1
         /\ DOMAIN q = 1 .. Len(q)
         /\ DOMAIN Append(q, c) = 1 .. Len(q) + 1
         /\ \A i \in 1 .. Len(q) : i \in 1 .. Len(q) + 1 /\ Append(q, c)[i] = q[i]
         /\ Append(q, c)[Len(q) + 1] = c
         /\ Append(q, c) # <<>>
BY AppendProperties

LEMMA LastOne ==
  ASSUME NEW S, NEW q \in Seq(S), q # <<>>, NEW c \in S
  PROVE  /\ Len(q) \in Nat \ {0}
         /\ DOMAIN q = 1 .. Len(q)
         /\ Len(q) \in DOMAIN q
         /\ Last(q) = q[Len(q)] /\ Last(q) \in S
         /\ SetLast(q, c) \in Seq(S)
         /\ Len(SetLast(q, c)) = Len(q)
         /\ DOMAIN SetLast(q, c) = 1 .. Len(q)
         /\ SetLast(q, c)[Len(q)] = c
         /\ \A i \in 1 .. Len(q) : i # Len(q) => SetLast(q, c)[i] = q[i]
         /\ SetLast(q, c) # <<>>
<1>1. Len(q) \in Nat \ {0} /\ DOMAIN q = 1 .. Len(q)
  BY EmptySeq, LenProperties
<1>2. Len(q) \in 1 .. Len(q)
  BY <1>1
<1>3. SetLast(q, c) \in Seq(S) /\ Len(SetLast(q, c)) = Len(q)
      /\ \A j \in 1 .. Len(q) : SetLast(q, c)[j] = IF j = Len(q) THEN c ELSE q[j]
  BY <1>2, ExceptSeq DEF SetLast
<1>4. SetLast(q, c) # <<>>
  BY <1>1, <1>3, EmptySeq
<1>5. DOMAIN SetLast(q, c) = 1 .. Len(q)
  BY <1>3, LenProperties
<1> QED
  BY <1>1, <1>2, <1>3, <1>4, <1>5, ElementOfSeq DEF Last

LEMMA LastTwice ==
  ASSUME NEW S, NEW q \in Seq(S), q # <<>>, NEW c \in S, NEW d \in S
  PROVE  SetLast(SetLast(q, c), d) = SetLast(q, d)
<1> DEFINE r == SetLast(q, c)
<1>1. /\ r \in Seq(S) /\ r # <<>> /\ Len(r) = Len(q)
      /\ \A i \in 1 .. Len(q) : i # Len(q) => r[i] = q[i]
  BY LastOne
<1> HIDE DEF r
<1>2. /\ SetLast(r, d) \in Seq(S) /\ Len(SetLast(r, d)) = Len(r) /\ SetLast(r, d)[Len(r)] = d
      /\ \A i \in 1 .. Len(r) : i # Len(r) => SetLast(r, d)[i] = r[i]
  BY <1>1, LastOne
<1>3. /\ SetLast(q, d) \in Seq(S) /\ Len(SetLast(q, d)) = Len(q) /\ SetLast(q, d)[Len(q)] = d
      /\ \A i \in 1 .. Len(q) : i # Len(q) => SetLast(q, d)[i] = q[i]
  BY LastOne
<1>4. \A i \in 1 .. Len(q) : SetLast(r, d)[i] = SetLast(q, d)[i]
  BY <1>1, <1>2, <1>3
<1>5. SetLast(r, d) = SetLast(q, d)
  <2>1. Len(SetLast(r, d)) = Len(SetLast(q, d))
    BY <1>1, <1>2, <1>3
  <2>2. \A i \in 1 .. Len(SetLast(r, d)) : SetLast(r, d)[i] = SetLast(q, d)[i]
    BY <1>1, <1>2, <1>4
  <2> QED BY <1>2, <1>3, <2>1, <2>2, SeqEqual
<1> QED BY <1>5 DEF r

LEMMA FrontOne ==
  ASSUME NEW S, NEW q \in Seq(S), q # <<>>
  PROVE  /\ Front(q) \in Seq(S)
         /\ Len(q) \in Nat \ {0}
         /\ Len(Front(q)) = Len(q) - 1
         /\ DOMAIN q = 1 .. Len(q)
         /\ DOMAIN Front(q) = 1 .. Len(q) - 1
         /\ \A i \in 1 .. Len(q) - 1 : i \in 1 .. Len(q) /\ Front(q)[i] = q[i]
<1> DEFINE k == Len(q) - 1
<1>1. Len(q) \in Nat \ {0} /\ DOMAIN q = 1 .. Len(q)
  BY EmptySeq, LenProperties
<1>2. k \in Nat /\ \A i \in 1 .. k : i \in 1 .. Len(q)
  BY <1>1
<1>3. Front(q) = SubSeq(q, 1, k)
  BY DEF Front
<1>4. \A i \in 1 .. k : q[i] \in S
  BY <1>2, ElementOfSeq
<1> HIDE DEF k
<1>5. /\ SubSeq(q, 1, k) \in Seq(S)
      /\ Len(SubSeq(q, 1, k)) = IF 1 <= k THEN k - 1 + 1 ELSE 0
      /\ \A i \in 1 .. k - 1 + 1 : SubSeq(q, 1, k)[i] = q[1 + i - 1]
  BY <1>2, <1>4, SubSeqProperties
<1>6. Len(SubSeq(q, 1, k)) = k
  BY <1>2, <1>5
<1>7. \A i \in 1 .. k : i \in 1 .. k - 1 + 1 /\ 1 + i - 1 = i
  BY <1>2
<1>8. DOMAIN SubSeq(q, 1, k) = 1 .. k
  BY <1>5, <1>6, LenProperties
<1> QED BY <1>1, <1>2, <1>3, <1>5, <1>6, <1>7, <1>8 DEF k

LEMMA Rest ==
  ASSUME NEW S, NEW q \in Seq(S), q # <<>>
  PROVE  /\ Head(q) \in S /\ Head(q) = q[1] /\ 1 \in DOMAIN q
         /\ Tail(q) \in Seq(S)
         /\ \A i \in DOMAIN Tail(q) : i \in Nat /\ i + 1 \in DOMAIN q /\ Tail(q)[i] = q[i + 1]
<1>1. Len(q) \in Nat \ {0} /\ DOMAIN q = 1 .. Len(q)
  BY EmptySeq, LenProperties
<1>2. Head(q) \in S /\ Tail(q) \in Seq(S) /\ Len(Tail(q)) = Len(q) - 1
      /\ \A i \in 1 .. Len(Tail(q)) : Tail(q)[i] = q[i + 1]
  BY HeadTailProperties
<1>3. DOMAIN Tail(q) = 1 .. Len(q) - 1
  BY <1>2, LenProperties
<1>4. \A i \in 1 .. Len(q) - 1 : i \in Nat /\ i + 1 \in 1 .. Len(q)
  BY <1>1
<1>5. 1 \in 1 .. Len(q) /\ Head(q) = q[1]
  BY <1>1
<1> QED BY <1>1, <1>2, <1>3, <1>4, <1>5

-----------------------------------------------------------------------------
(* The calls after a step of flow p of node n.                             *)

IsAfter(new, n, p, q) ==
    /\ new \in [Nodes -> [Flows -> Seq(Calls)]]
    /\ new[n][p] = q
    /\ \A k \in Nodes, r \in Flows : ~(k = n /\ r = p) => new[k][r] = calls[k][r]

LEMMA Replaced ==
  ASSUME Types, NEW n \in Nodes, NEW p \in Flows, NEW q \in Seq(Calls)
  PROVE  IsAfter([calls EXCEPT ![n] = [calls[n] EXCEPT ![p] = q]], n, p, q)
<1>1. calls[n] \in [Flows -> Seq(Calls)]
  BY DEF Types
<1>2. [calls[n] EXCEPT ![p] = q] \in [Flows -> Seq(Calls)]
  BY <1>1
<1> QED BY <1>1, <1>2 DEF Types, IsAfter

LEMMA ReplacedAgain ==
  ASSUME Types, NEW n \in Nodes, NEW p \in Flows, NEW q, NEW new, IsAfter(new, n, p, q),
         NEW c \in Calls, q \in Seq(Calls)
  PROVE  IsAfter([new EXCEPT ![n][p] = Append(@, c)], n, p, Append(q, c))
<1>1. new[n] \in [Flows -> Seq(Calls)] /\ new[n][p] = q
  BY DEF IsAfter
<1>2. Append(q, c) \in Seq(Calls)
  BY Appended
<1> DEFINE f == [new[n] EXCEPT ![p] = Append(q, c)]
<1>3. f \in [Flows -> Seq(Calls)] /\ f[p] = Append(q, c)
      /\ \A r \in Flows : r # p => f[r] = new[n][r]
  BY <1>1, <1>2
<1>4. [new EXCEPT ![n][p] = Append(@, c)] = [new EXCEPT ![n] = f]
  BY <1>1
<1> HIDE DEF f
<1> QED BY <1>3, <1>4 DEF IsAfter

LEMMA CallFacts ==
  ASSUME Types, NEW n \in Nodes, NEW p \in Flows, Busy(n, p)
  PROVE  /\ calls[n][p] \in Seq(Calls) /\ calls[n][p] # <<>>
         /\ Len(calls[n][p]) \in Nat \ {0}
         /\ DOMAIN calls[n][p] = 1 .. Len(calls[n][p])
         /\ Call(n, p) = calls[n][p][Len(calls[n][p])]
         /\ Call(n, p) \in Calls
<1>1. calls[n][p] \in Seq(Calls) /\ calls[n][p] # <<>>
  BY DEF Types, Busy
<1>2. Len(calls[n][p]) \in Nat \ {0} /\ DOMAIN calls[n][p] = 1 .. Len(calls[n][p])
  BY <1>1, EmptySeq, LenProperties
<1>3. Len(calls[n][p]) \in 1 .. Len(calls[n][p])
  BY <1>2
<1> QED BY <1>1, <1>2, <1>3, ElementOfSeq DEF Call, Last

\* The first of the subscribers that are left.
LEMMA MinOf ==
  ASSUME NEW T \in SUBSET Nat, T # {}
  PROVE  Min(T) \in T /\ \A y \in T : Min(T) <= y
<1> DEFINE R == {p \in Nat \X Nat : p[1] < p[2]}
<1>1. IsWellFoundedOn(R, Nat)
  BY NatLessThanWellFounded DEF OpToRel
<1>2. PICK x \in T : \A y \in T : <<y, x>> \notin R
  <2> HIDE DEF R
  <2> QED BY <1>1, WFMin, Zenon
<1>3. \A y \in T : x <= y
  <2> TAKE y \in T
  <2>1. x \in Nat /\ y \in Nat /\ <<y, x>> \notin R
    BY <1>2
  <2> QED BY <2>1
<1> QED BY <1>3 DEF Min

PassedCall(n, p) == [Call(n, p) EXCEPT !.next = Min(Remaining(n, p)) + 1]

LEMMA CallbackFacts ==
  ASSUME Types, NEW n \in Nodes, NEW p \in Flows, NEW kind, AtCallback(n, p, kind)
  PROVE  LET i == Min(Remaining(n, p))
             c == Call(n, p)
         IN  /\ Busy(n, p)
             /\ c.binds = None
             /\ i \in DOMAIN channels[n] /\ i \in Nat \ {0} /\ i >= c.next
             /\ Channel(n, p) = channels[n][i] /\ channels[n][i] \in Channels
             /\ channels[n][i].kind = kind /\ channels[n][i].subject = c.msg.subject
             /\ \A j \in DOMAIN channels[n] :
                   j >= c.next /\ channels[n][j].subject = c.msg.subject => i <= j
             /\ PassedCall(n, p) \in Calls
             /\ PassedCall(n, p).net = c.net /\ PassedCall(n, p).msg = c.msg
             /\ PassedCall(n, p).binds = None /\ PassedCall(n, p).next = i + 1
             /\ Passed(n, p) = [calls EXCEPT ![n] =
                    [calls[n] EXCEPT ![p] = SetLast(calls[n][p], PassedCall(n, p))]]
<1> DEFINE T == Remaining(n, p)
           i == Min(T)
           c == Call(n, p)
<1>1. Busy(n, p) /\ c.binds = None /\ T # {} /\ channels[n][i].kind = kind
  BY DEF AtCallback
<1>2. channels[n] \in Seq(Channels) /\ Len(channels[n]) \in Nat
      /\ DOMAIN channels[n] = 1 .. Len(channels[n])
  BY LenProperties DEF Types
<1>3. T \in SUBSET (1 .. Len(channels[n]))
  BY <1>2 DEF Remaining
<1>4. i \in T /\ \A y \in T : i <= y
  <2> HIDE DEF T
  <2>1. T \in SUBSET Nat
    BY <1>3
  <2> QED BY <1>1, <2>1, MinOf
<1>5. i \in DOMAIN channels[n] /\ i >= c.next /\ channels[n][i].subject = c.msg.subject
  BY <1>4 DEF Remaining
<1>6. \A j \in DOMAIN channels[n] :
         j >= c.next /\ channels[n][j].subject = c.msg.subject => i <= j
  BY <1>4 DEF Remaining
<1>7. i \in Nat \ {0} /\ channels[n][i] \in Channels
  BY <1>2, <1>5, ElementOfSeq
<1>8. c \in Calls
  BY <1>1, CallFacts
<1> HIDE DEF T
<1>9. /\ PassedCall(n, p) \in Calls /\ PassedCall(n, p).net = c.net
      /\ PassedCall(n, p).msg = c.msg /\ PassedCall(n, p).binds = c.binds
      /\ PassedCall(n, p).next = i + 1
  <2>1. PassedCall(n, p) = [c EXCEPT !.next = i + 1]
    BY DEF PassedCall, T
  <2>2. i + 1 \in Nat \ {0}
    BY <1>7
  <2> HIDE DEF c, i
  <2> QED BY <2>1, <2>2, <1>8 DEF Calls
<1>10. Passed(n, p) = [calls EXCEPT ![n] =
          [calls[n] EXCEPT ![p] = SetLast(calls[n][p], PassedCall(n, p))]]
  <2>1. Passed(n, p) = [calls EXCEPT ![n] = [calls[n] EXCEPT ![p] =
             [calls[n][p] EXCEPT ![Len(calls[n][p])] =
                 [calls[n][p][Len(calls[n][p])] EXCEPT !.next = i + 1]]]]
    BY DEF Passed, T
  <2>2. calls[n][p][Len(calls[n][p])] = Call(n, p)
    BY DEF Call, Last
  <2> QED BY <2>1, <2>2, Zenon DEF SetLast, PassedCall, T
<1>11. Channel(n, p) = channels[n][i]
  BY DEF Channel, T
<1> QED BY <1>1, <1>5, <1>6, <1>7, <1>9, <1>10, <1>11 DEF T

-----------------------------------------------------------------------------
(* What each action does to the calls, the channels and the packets.       *)

LEMMA Configuration ==
  ASSUME Types
  PROVE  /\ conf.gateways \subseteq Gateways /\ Gateways \subseteq Nodes
         /\ \A n \in Nodes : conf.on[n] \subseteq Networks
         /\ \A d \in conf.subscribes : d[1] \in Nodes /\ d[2] \in Subjects
         /\ \A d \in conf.publishes : d[1] \in Nodes /\ d[2] \in Events
         /\ SUBSCRIBE \notin Subjects /\ None \notin Networks
         /\ \A e \in Events : SubjectOf[e] \in Subjects
BY GatewayAssumption DEF Types

LEMMA MessageFacts ==
  /\ \A e \in Events : Message(e) \in Messages /\ Message(e).about = e
        /\ Message(e).subject = SubjectOf[e] /\ Message(e).subject \in Subjects
        /\ Message(e).subject # SUBSCRIBE
  /\ \A s \in Subjects \cup {SUBSCRIBE} : SubscribeTo(s) \in Messages
        /\ SubscribeTo(s).subject = SUBSCRIBE /\ SubscribeTo(s).about = s
  /\ \A m \in Messages : m.subject # SUBSCRIBE => m.about \in Events /\ m = Message(m.about)
  /\ \A m \in Messages : m.subject = SUBSCRIBE => m.about \in Subjects \cup {SUBSCRIBE}
<1>1. \A e \in Events : Message(e) \in Messages /\ Message(e).about = e
        /\ Message(e).subject = SubjectOf[e] /\ Message(e).subject \in Subjects
        /\ Message(e).subject # SUBSCRIBE
  BY GatewayAssumption DEF Message, Messages
<1>2. \A s \in Subjects \cup {SUBSCRIBE} : SubscribeTo(s) \in Messages
        /\ SubscribeTo(s).subject = SUBSCRIBE /\ SubscribeTo(s).about = s
  BY DEF SubscribeTo, Messages
<1> QED BY <1>1, <1>2 DEF Messages

LEMMA WriteFacts ==
  ASSUME Types, NEW n \in Nodes, NEW nets, NEW m \in Messages, Write(n, nets, m)
  PROVE  /\ inbox' \in [Nodes -> [Networks -> Seq(Messages)]]
         /\ \A k \in Nodes, w \in Networks :
               inbox'[k][w] = IF k # n /\ w \in nets \cap conf.on[k]
                              THEN Append(inbox[k][w], m) ELSE inbox[k][w]
<1>1. \A k \in Nodes, w \in Networks :
         inbox[k][w] \in Seq(Messages) /\ Append(inbox[k][w], m) \in Seq(Messages)
  BY DEF Types
<1> QED BY <1>1 DEF Write

LEMMA ListenFacts ==
  ASSUME Types, NEW n \in Nodes, NEW c \in Channels, Listen(n, c)
  PROVE  /\ channels' \in [Nodes -> Seq(Channels)]
         /\ channels'[n] = Append(channels[n], c)
         /\ \A k \in Nodes : k # n => channels'[k] = channels[k]
         /\ SubscribeTo(c.subject) \in Messages
         /\ Write(n, conf.on[n], SubscribeTo(c.subject))
<1>1. channels[n] \in Seq(Channels) /\ Append(channels[n], c) \in Seq(Channels)
  BY DEF Types
<1>2. c.subject \in Subjects \cup {SUBSCRIBE}
  BY DEF Channels, Proxies
<1> QED BY <1>1, <1>2, MessageFacts DEF Types, Listen

\* The list of a node keeps what is in it.
LEMMA ListKept ==
  ASSUME Types, NEW n \in Nodes, NEW c \in Channels, Listen(n, c)
  PROVE  \A k \in Nodes :
            /\ Len(channels[k]) \in Nat /\ DOMAIN channels[k] = 1 .. Len(channels[k])
            /\ DOMAIN channels'[k] = 1 .. Len(channels'[k])
            /\ Len(channels'[k]) = IF k = n THEN Len(channels[k]) + 1 ELSE Len(channels[k])
            /\ \A i \in DOMAIN channels[k] :
                  i \in DOMAIN channels'[k] /\ channels'[k][i] = channels[k][i]
            /\ \A i \in DOMAIN channels'[k] :
                  \/ i \in DOMAIN channels[k] /\ channels'[k][i] = channels[k][i]
                  \/ k = n /\ i = Len(channels[k]) + 1 /\ channels'[k][i] = c
<1> TAKE k \in Nodes
<1>1. channels[k] \in Seq(Channels)
  BY DEF Types
<1>2. Len(channels[k]) \in Nat /\ DOMAIN channels[k] = 1 .. Len(channels[k])
  BY <1>1, LenProperties
<1>3. CASE k = n
  <2> DEFINE l == Len(channels[k])
             a == Append(channels[k], c)
  <2>1. /\ Len(a) = l + 1 /\ DOMAIN a = 1 .. l + 1
        /\ \A i \in 1 .. l : i \in 1 .. l + 1 /\ a[i] = channels[k][i]
        /\ a[l + 1] = c
    BY <1>1, Appended
  <2>2. channels'[k] = a
    BY <1>3, ListenFacts
  <2>3. \A i \in 1 .. l + 1 : i \in 1 .. l \/ i = l + 1
    BY <1>2
  <2> HIDE DEF a, l
  <2>4. DOMAIN channels[k] = 1 .. l /\ l \in Nat
    BY <1>2 DEF l
  <2>5. Len(channels'[k]) = l + 1 /\ DOMAIN channels'[k] = 1 .. l + 1
    BY <2>1, <2>2
  <2>6. \A i \in 1 .. l : i \in 1 .. l + 1 /\ channels'[k][i] = channels[k][i]
    BY <2>1, <2>2
  <2>7. channels'[k][l + 1] = c
    BY <2>1, <2>2
  <2> QED BY <1>3, <2>3, <2>4, <2>5, <2>6, <2>7 DEF l
<1>4. CASE k # n
  <2>1. channels'[k] = channels[k]
    BY <1>4, ListenFacts
  <2> QED BY <1>2, <1>4, <2>1
<1> QED BY <1>3, <1>4

NewCall(net, m) == [net |-> net, msg |-> m, next |-> 1, binds |-> None]

LEMMA NewCallFacts ==
  ASSUME NEW net \in Networks \cup {None}, NEW m \in Messages
  PROVE  /\ NewCall(net, m) \in Calls /\ NewCall(net, m).net = net
         /\ NewCall(net, m).msg = m /\ NewCall(net, m).next = 1
         /\ NewCall(net, m).binds = None
BY DEF NewCall, Calls

LEMMA PublishesFacts ==
  ASSUME Types, NEW n \in Nodes, NEW p \in Flows, NEW e \in Events,
         NEW q \in Seq(Calls), NEW entered, IsAfter(entered, n, p, q),
         Publishes(n, p, e, entered)
  PROVE  /\ IsAfter(calls', n, p, Append(q, NewCall(None, Message(e))))
         /\ Write(n, conf.on[n], Message(e))
         /\ e \notin published /\ published' = published \cup {e}
         /\ written' = written \cup (conf.on[n] \X {e})
         /\ written' \in SUBSET (Networks \X Events)
         /\ published' \in SUBSET Events
<1>1. NewCall(None, Message(e)) \in Calls
  BY MessageFacts, NewCallFacts
<1>2. calls' = [entered EXCEPT ![n][p] = Append(@, NewCall(None, Message(e)))]
  BY DEF Publishes, NewCall
<1>3. IsAfter(calls', n, p, Append(q, NewCall(None, Message(e))))
  BY <1>1, <1>2, ReplacedAgain
<1>4. conf.on[n] \subseteq Networks /\ written \in SUBSET (Networks \X Events)
      /\ published \in SUBSET Events
  BY Configuration DEF Types
<1> QED BY <1>3, <1>4 DEF Publishes

LEMMA Itself ==
  ASSUME Types, NEW n \in Nodes, NEW p \in Flows
  PROVE  calls[n][p] \in Seq(Calls) /\ IsAfter(calls, n, p, calls[n][p])
BY DEF Types, IsAfter

-----------------------------------------------------------------------------
(* Every step keeps the types.                                             *)

LEMMA InitTypes == Init => Types
<1> SUFFICES ASSUME Init PROVE Types
  OBVIOUS
<1>1. /\ <<>> \in Seq(Channels) /\ <<>> \in Seq(Calls) /\ <<>> \in Seq(Messages)
      /\ DOMAIN <<>> = {}
  BY EmptySeq
<1>2. channels \in [Nodes -> Seq(Channels)] /\ calls \in [Nodes -> [Flows -> Seq(Calls)]]
      /\ inbox \in [Nodes -> [Networks -> Seq(Messages)]]
  BY <1>1 DEF Init
<1>3. \A n \in Nodes : DOMAIN channels[n] = {} /\ \A p \in Flows : DOMAIN calls[n][p] = {}
  BY <1>1 DEF Init
<1>4. /\ conf \in Configs /\ bnl \in [Nodes -> Networks \cup {None}]
      /\ gecs \in [Gateways -> SUBSET [subject : Subjects, to : Networks]]
      /\ published \in SUBSET Events /\ got \in [Deliveries -> Nat]
      /\ written \in SUBSET (Networks \X Events)
  BY DEF Init
<1> QED BY <1>2, <1>3, <1>4 DEF Types

\* A node subscribes.
LEMMA ListenTypes ==
  ASSUME Types, NEW n \in Nodes, NEW c \in Channels, Listen(n, c),
         c.kind = "app" \/ n \in conf.gateways, UNCHANGED conf
  PROVE  /\ channels' \in [Nodes -> Seq(Channels)]
         /\ inbox' \in [Nodes -> [Networks -> Seq(Messages)]]
         /\ \A k \in Nodes \ conf'.gateways :
               \A i \in DOMAIN channels'[k] : channels'[k][i].kind = "app"
<1>1. channels' \in [Nodes -> Seq(Channels)] /\ inbox' \in [Nodes -> [Networks -> Seq(Messages)]]
  BY ListenFacts, WriteFacts
<1>2. ASSUME NEW k \in Nodes \ conf.gateways, NEW i \in DOMAIN channels'[k]
      PROVE  channels'[k][i].kind = "app"
  <2>1. \/ i \in DOMAIN channels[k] /\ channels'[k][i] = channels[k][i]
        \/ k = n /\ channels'[k][i] = c
    BY ListKept
  <2> QED BY <2>1 DEF Types
<1> QED BY <1>1, <1>2

\* Only a gateway binds.
NoneBinds(q) == \A i \in DOMAIN q : q[i].binds = None

LEMMA NoneBindsKept ==
  ASSUME NEW q \in Seq(Calls), NoneBinds(q), NEW c \in Calls, c.binds = None
  PROVE  /\ NoneBinds(Append(q, c))
         /\ q # <<>> => NoneBinds(SetLast(q, c)) /\ NoneBinds(Front(q))
<1>1. NoneBinds(Append(q, c))
  <2>1. /\ DOMAIN q = 1 .. Len(q) /\ DOMAIN Append(q, c) = 1 .. Len(q) + 1 /\ Len(q) \in Nat
        /\ \A i \in 1 .. Len(q) : Append(q, c)[i] = q[i]
        /\ Append(q, c)[Len(q) + 1] = c
    BY Appended
  <2>2. \A i \in 1 .. Len(q) + 1 : i \in 1 .. Len(q) \/ i = Len(q) + 1
    BY <2>1
  <2> QED BY <2>1, <2>2 DEF NoneBinds
<1>2. ASSUME q # <<>> PROVE NoneBinds(SetLast(q, c)) /\ NoneBinds(Front(q))
  <2>1. /\ DOMAIN q = 1 .. Len(q) /\ DOMAIN SetLast(q, c) = 1 .. Len(q)
        /\ SetLast(q, c)[Len(q)] = c
        /\ \A i \in 1 .. Len(q) : i # Len(q) => SetLast(q, c)[i] = q[i]
    BY <1>2, LastOne
  <2>2. DOMAIN Front(q) = 1 .. Len(q) - 1
        /\ \A i \in 1 .. Len(q) - 1 : i \in 1 .. Len(q) /\ Front(q)[i] = q[i]
    BY <1>2, FrontOne
  <2> QED BY <2>1, <2>2 DEF NoneBinds
<1> QED BY <1>1, <1>2

\* The calls after a step of a flow.
LEMMA StackTypes ==
  ASSUME Types, NEW n \in Nodes, NEW p \in Flows, NEW q \in Seq(Calls),
         IsAfter(calls', n, p, q), UNCHANGED conf,
         n \in conf.gateways \/ NoneBinds(q)
  PROVE  /\ calls' \in [Nodes -> [Flows -> Seq(Calls)]]
         /\ \A k \in Nodes \ conf'.gateways, r \in Flows :
               \A i \in DOMAIN calls'[k][r] : calls'[k][r][i].binds = None
<1>1. calls' \in [Nodes -> [Flows -> Seq(Calls)]]
  BY DEF IsAfter
<1>2. ASSUME NEW k \in Nodes \ conf.gateways, NEW r \in Flows
      PROVE  \A i \in DOMAIN calls'[k][r] : calls'[k][r][i].binds = None
  <2>1. CASE k = n /\ r = p
    BY <1>2, <2>1 DEF IsAfter, NoneBinds
  <2>2. CASE ~(k = n /\ r = p)
    <3>1. calls'[k][r] = calls[k][r]
      BY <2>2 DEF IsAfter
    <3> QED BY <3>1 DEF Types
  <2> QED BY <2>1, <2>2
<1> QED BY <1>1, <1>2

LEMMA NoneBindsElsewhere ==
  ASSUME Types, NEW n \in Nodes, NEW p \in Flows
  PROVE  n \in conf.gateways \/ NoneBinds(calls[n][p])
BY DEF Types, NoneBinds

LEMMA StartGatewayTypes ==
  ASSUME Types, NEW g \in conf.gateways, StartGateway(g)
  PROVE  Types' /\ Listen(g, [kind |-> "gateway", subject |-> SUBSCRIBE]) /\ g \in Nodes
<1>1. g \in Nodes /\ [kind |-> "gateway", subject |-> SUBSCRIBE] \in Channels
  BY Configuration DEF Channels
<1> QED BY <1>1, ListenTypes DEF StartGateway, Types

LEMMA SubscribeTypes ==
  ASSUME Types, NEW n \in Nodes, NEW s \in Subjects, Subscribe(n, s)
  PROVE  Types' /\ Listen(n, [kind |-> "app", subject |-> s])
<1>1. [kind |-> "app", subject |-> s] \in Channels
  BY DEF Channels
<1> QED BY <1>1, ListenTypes DEF Subscribe, Types

LEMMA PublishTypes ==
  ASSUME Types, NEW n \in Nodes, NEW e \in Events, Publish(n, e)
  PROVE  /\ Types'
         /\ IsAfter(calls', n, "main", Append(calls[n]["main"], NewCall(None, Message(e))))
<1> DEFINE q == calls[n]["main"]
           c == NewCall(None, Message(e))
<1>1. "main" \in Flows
  BY DEF Flows
<1>2. q \in Seq(Calls) /\ IsAfter(calls, n, "main", q)
  BY <1>1, Itself
<1>3. Publishes(n, "main", e, calls)
  BY DEF Publish
<1>4. /\ IsAfter(calls', n, "main", Append(q, c))
      /\ Write(n, conf.on[n], Message(e))
      /\ written' \in SUBSET (Networks \X Events) /\ published' \in SUBSET Events
  BY <1>1, <1>2, <1>3, PublishesFacts
<1>5. c \in Calls /\ c.binds = None /\ Message(e) \in Messages
  BY MessageFacts, NewCallFacts
<1>6. inbox' \in [Nodes -> [Networks -> Seq(Messages)]]
  BY <1>4, <1>5, WriteFacts
<1>7. n \in conf.gateways \/ NoneBinds(Append(q, c))
  BY <1>1, <1>2, <1>5, NoneBindsElsewhere, NoneBindsKept
<1>8. Append(q, c) \in Seq(Calls)
  BY <1>2, <1>5, Appended
<1> HIDE DEF q, c
<1>9. UNCHANGED <<conf, channels, gecs, bnl, got>>
  BY DEF Publish
<1>10. /\ calls' \in [Nodes -> [Flows -> Seq(Calls)]]
       /\ \A k \in Nodes \ conf'.gateways, r \in Flows :
             \A i \in DOMAIN calls'[k][r] : calls'[k][r][i].binds = None
  BY <1>1, <1>4, <1>7, <1>8, <1>9, StackTypes
<1>11. Types'
  BY <1>4, <1>6, <1>9, <1>10 DEF Types
<1> QED BY <1>4, <1>11 DEF q, c

\* A packet is taken from the inbox, and processed if there is a subscriber.
LEMMA ReceiveTypes ==
  ASSUME Types, NEW n \in Nodes, NEW w \in Networks, Receive(n, w)
  PROVE  /\ Types'
         /\ inbox[n][w] \in Seq(Messages) /\ inbox[n][w] # <<>>
         /\ Head(inbox[n][w]) \in Messages
         /\ \A k \in Nodes, v \in Networks :
               inbox'[k][v] = IF k = n /\ v = w THEN Tail(inbox[k][v]) ELSE inbox[k][v]
         /\ \/ /\ bnl' = [bnl EXCEPT ![n] = w]
               /\ IsAfter(calls', n, "rx",
                          Append(calls[n]["rx"], NewCall(w, Head(inbox[n][w]))))
            \/ /\ bnl' = [bnl EXCEPT ![n] = None]
               /\ UNCHANGED calls
<1> DEFINE q == calls[n]["rx"]
           m == Head(inbox[n][w])
           c == NewCall(w, m)
<1>1. inbox[n][w] \in Seq(Messages) /\ inbox[n][w] # <<>>
  BY DEF Receive, Types
<1>2. m \in Messages /\ Tail(inbox[n][w]) \in Seq(Messages)
  BY <1>1, Rest
<1>3. inbox' = [inbox EXCEPT ![n] = [inbox[n] EXCEPT ![w] = Tail(inbox[n][w])]]
  BY DEF Receive
<1>4. inbox[n] \in [Networks -> Seq(Messages)] /\ inbox \in [Nodes -> [Networks -> Seq(Messages)]]
  BY DEF Types
<1>5. [inbox[n] EXCEPT ![w] = Tail(inbox[n][w])] \in [Networks -> Seq(Messages)]
  BY <1>2, <1>4
<1>6. /\ inbox' \in [Nodes -> [Networks -> Seq(Messages)]]
      /\ \A k \in Nodes, v \in Networks :
            inbox'[k][v] = IF k = n /\ v = w THEN Tail(inbox[k][v]) ELSE inbox[k][v]
  BY <1>3, <1>4, <1>5
<1>7. "rx" \in Flows /\ UNCHANGED <<conf, channels, gecs, published, got, written>>
  BY DEF Flows, Receive
<1>8. q \in Seq(Calls) /\ c \in Calls /\ c.binds = None
  BY <1>2, <1>7, Itself, NewCallFacts
<1>9. bnl' \in [Nodes -> Networks \cup {None}]
  BY DEF Receive, Types
<1>10. CASE UNCHANGED calls /\ bnl' = [bnl EXCEPT ![n] = None]
  BY <1>1, <1>2, <1>6, <1>7, <1>9, <1>10 DEF Types
<1>11. CASE calls' = Enter(n, "rx", w, m) /\ bnl' = [bnl EXCEPT ![n] = w]
  <2>1. calls' = [calls EXCEPT ![n]["rx"] = Append(@, c)]
    BY <1>11 DEF Enter, NewCall
  <2> HIDE DEF c, q, m
  <2>2. IsAfter(calls, n, "rx", q)
    BY <1>7, Itself DEF q
  <2>3. IsAfter(calls', n, "rx", Append(q, c))
    BY <1>7, <1>8, <2>1, <2>2, ReplacedAgain
  <2>4. Append(q, c) \in Seq(Calls) /\ (n \in conf.gateways \/ NoneBinds(Append(q, c)))
    BY <1>7, <1>8, NoneBindsElsewhere, NoneBindsKept, Appended DEF q
  <2>5. /\ calls' \in [Nodes -> [Flows -> Seq(Calls)]]
        /\ \A k \in Nodes \ conf'.gateways, r \in Flows :
              \A i \in DOMAIN calls'[k][r] : calls'[k][r][i].binds = None
    BY <1>7, <2>3, <2>4, StackTypes
  <2>6. Types'
    BY <1>6, <1>7, <1>9, <2>5 DEF Types
  <2> QED BY <1>1, <1>2, <1>6, <1>11, <2>3, <2>6 DEF c, q, m
<1> QED BY <1>10, <1>11 DEF Receive

\* The last call of a stack is replaced.
LEMMA LastReplaced ==
  ASSUME Types, NEW n \in Nodes, NEW p \in Flows, Busy(n, p), NEW c \in Calls, NEW new,
         new = [calls EXCEPT ![n] = [calls[n] EXCEPT ![p] = SetLast(calls[n][p], c)]],
         n \in conf.gateways \/ c.binds = None
  PROVE  /\ IsAfter(new, n, p, SetLast(calls[n][p], c))
         /\ SetLast(calls[n][p], c) \in Seq(Calls)
         /\ n \in conf.gateways \/ NoneBinds(SetLast(calls[n][p], c))
<1>1. calls[n][p] \in Seq(Calls) /\ calls[n][p] # <<>>
  BY CallFacts
<1>2. SetLast(calls[n][p], c) \in Seq(Calls)
  BY <1>1, LastOne
<1> QED BY <1>1, <1>2, Replaced, NoneBindsKept, NoneBindsElsewhere

\* A callback returns.
LEMMA CallbackTypes ==
  ASSUME Types, NEW n \in Nodes, NEW p \in Flows, NEW kind, AtCallback(n, p, kind)
  PROVE  /\ IsAfter(Passed(n, p), n, p, SetLast(calls[n][p], PassedCall(n, p)))
         /\ SetLast(calls[n][p], PassedCall(n, p)) \in Seq(Calls)
         /\ n \in conf.gateways \/ NoneBinds(SetLast(calls[n][p], PassedCall(n, p)))
<1>1. Busy(n, p) /\ PassedCall(n, p) \in Calls /\ PassedCall(n, p).binds = None
      /\ Passed(n, p) = [calls EXCEPT ![n] =
                    [calls[n] EXCEPT ![p] = SetLast(calls[n][p], PassedCall(n, p))]]
  BY CallbackFacts
<1> HIDE DEF PassedCall, Passed
<1> QED BY <1>1, LastReplaced

LEMMA NotifyTypes ==
  ASSUME Types, NEW n \in Nodes, NEW p \in Flows, Notify(n, p)
  PROVE  LET e == Call(n, p).msg.about
             q == SetLast(calls[n][p], PassedCall(n, p))
         IN  /\ Types'
             /\ e \in Events /\ Call(n, p).msg = Message(e)
             /\ got' = [got EXCEPT ![<<n, e>>] = @ + 1] /\ got[<<n, e>>] \in Nat
             /\ q \in Seq(Calls)
             /\ \/ /\ IsAfter(calls', n, p, q)
                   /\ UNCHANGED <<inbox, published, written>>
                \/ \E f \in Events :
                     /\ <<n, e, f>> \in conf.reacts
                     /\ f \notin published /\ published' = published \cup {f}
                     /\ written' = written \cup (conf.on[n] \X {f})
                     /\ Write(n, conf.on[n], Message(f))
                     /\ IsAfter(calls', n, p, Append(q, NewCall(None, Message(f))))
<1> DEFINE e == Call(n, p).msg.about
           q == SetLast(calls[n][p], PassedCall(n, p))
           i == Min(Remaining(n, p))
<1>1. AtCallback(n, p, "app")
  BY DEF Notify
<1>2. /\ Busy(n, p) /\ channels[n][i].kind = "app" /\ channels[n][i] \in Channels
      /\ channels[n][i].subject = Call(n, p).msg.subject
  BY <1>1, CallbackFacts
<1>3. Call(n, p) \in Calls
  BY <1>2, CallFacts
<1>4. Call(n, p).msg \in Messages /\ Call(n, p).msg.subject # SUBSCRIBE
  <2>1. channels[n][i].subject \in Subjects
    BY <1>2 DEF Channels, Proxies
  <2> QED BY <1>2, <1>3, <2>1, Configuration DEF Calls
<1>5. e \in Events /\ Call(n, p).msg = Message(e)
  BY <1>4, MessageFacts
<1>6. /\ IsAfter(Passed(n, p), n, p, q) /\ q \in Seq(Calls)
      /\ n \in conf.gateways \/ NoneBinds(q)
  BY <1>1, CallbackTypes
<1> HIDE DEF q
<1>7. got' = [got EXCEPT ![<<n, e>>] = @ + 1] /\ UNCHANGED <<conf, channels, gecs, bnl>>
  BY DEF Notify
<1>8. got' \in [Deliveries -> Nat] /\ got[<<n, e>>] \in Nat
  BY <1>5, <1>7 DEF Types, Deliveries
<1>9. CASE calls' = Passed(n, p) /\ UNCHANGED <<inbox, published, written>>
  <2>1. IsAfter(calls', n, p, q)
    BY <1>6, <1>9
  <2>2. /\ calls' \in [Nodes -> [Flows -> Seq(Calls)]]
        /\ \A k \in Nodes \ conf'.gateways, r \in Flows :
              \A j \in DOMAIN calls'[k][r] : calls'[k][r][j].binds = None
    BY <1>6, <1>7, <2>1, StackTypes
  <2>3. Types'
    BY <1>7, <1>8, <1>9, <2>2 DEF Types
  <2> QED BY <1>5, <1>6, <1>7, <1>8, <1>9, <2>1, <2>3 DEF q
<1>10. ASSUME NEW f \in Events, <<n, e, f>> \in conf.reacts, Publishes(n, p, f, Passed(n, p))
       PROVE  /\ Types'
              /\ f \notin published /\ published' = published \cup {f}
              /\ written' = written \cup (conf.on[n] \X {f})
              /\ Write(n, conf.on[n], Message(f))
              /\ IsAfter(calls', n, p, Append(q, NewCall(None, Message(f))))
  <2> DEFINE c == NewCall(None, Message(f))
  <2>1. /\ IsAfter(calls', n, p, Append(q, c))
        /\ Write(n, conf.on[n], Message(f))
        /\ f \notin published /\ published' = published \cup {f}
        /\ written' = written \cup (conf.on[n] \X {f})
        /\ written' \in SUBSET (Networks \X Events) /\ published' \in SUBSET Events
    BY <1>6, <1>10, PublishesFacts
  <2>2. c \in Calls /\ c.binds = None /\ Message(f) \in Messages
    BY MessageFacts, NewCallFacts
  <2>3. inbox' \in [Nodes -> [Networks -> Seq(Messages)]]
    BY <2>1, <2>2, WriteFacts
  <2> HIDE DEF c
  <2>4. Append(q, c) \in Seq(Calls) /\ (n \in conf.gateways \/ NoneBinds(Append(q, c)))
    BY <1>6, <2>2, NoneBindsKept, Appended
  <2>5. /\ calls' \in [Nodes -> [Flows -> Seq(Calls)]]
        /\ \A k \in Nodes \ conf'.gateways, r \in Flows :
              \A j \in DOMAIN calls'[k][r] : calls'[k][r][j].binds = None
    BY <1>7, <2>1, <2>4, StackTypes
  <2>6. Types'
    BY <1>7, <1>8, <2>1, <2>3, <2>5 DEF Types
  <2> QED BY <2>1, <2>6 DEF c
<1>11. \/ calls' = Passed(n, p) /\ UNCHANGED <<inbox, published, written>>
       \/ \E f \in Events : <<n, e, f>> \in conf.reacts /\ Publishes(n, p, f, Passed(n, p))
  BY DEF Notify
<1>12. CASE \E f \in Events : <<n, e, f>> \in conf.reacts /\ Publishes(n, p, f, Passed(n, p))
  <2>1. PICK f \in Events : <<n, e, f>> \in conf.reacts /\ Publishes(n, p, f, Passed(n, p))
    BY <1>12
  <2>2. /\ Types'
        /\ f \notin published /\ published' = published \cup {f}
        /\ written' = written \cup (conf.on[n] \X {f})
        /\ Write(n, conf.on[n], Message(f))
        /\ IsAfter(calls', n, p, Append(q, NewCall(None, Message(f))))
    BY <2>1, <1>10
  <2> QED BY <1>5, <1>6, <1>7, <1>8, <2>1, <2>2 DEF q
<1> QED BY <1>9, <1>11, <1>12

\* The call of a gateway that begins to bind.
BindingCall(g, p) ==
    [PassedCall(g, p) EXCEPT !.binds =
        [kind |-> "forward", subject |-> Call(g, p).msg.about, to |-> bnl[g]]]

LEMMA SubscribeFromNetworkTypes ==
  ASSUME Types, NEW g \in Nodes, NEW p \in Flows, SubscribeFromNetwork(g, p)
  PROVE  LET s == Call(g, p).msg.about
             c == BindingCall(g, p)
         IN  /\ Types'
             /\ g \in conf.gateways
             /\ Call(g, p).msg.subject = SUBSCRIBE
             /\ \/ /\ IsAfter(calls', g, p, SetLast(calls[g][p], PassedCall(g, p)))
                   /\ UNCHANGED gecs
                \/ /\ ~Known(g, s) /\ s \in Subjects /\ bnl[g] \in Networks
                   /\ gecs' = [gecs EXCEPT ![g] = @ \cup {[subject |-> s, to |-> bnl[g]]}]
                   /\ c \in Calls /\ c.net = Call(g, p).net /\ c.msg = Call(g, p).msg
                   /\ c.next = Min(Remaining(g, p)) + 1
                   /\ c.binds = [kind |-> "forward", subject |-> s, to |-> bnl[g]]
                   /\ IsAfter(calls', g, p, SetLast(calls[g][p], c))
<1> DEFINE s == Call(g, p).msg.about
           c == BindingCall(g, p)
           b == [kind |-> "forward", subject |-> s, to |-> bnl[g]]
           i == Min(Remaining(g, p))
           L == Len(calls[g][p])
<1>1. AtCallback(g, p, "gateway") /\ UNCHANGED <<conf, channels, bnl, inbox, published, got, written>>
  BY DEF SubscribeFromNetwork
<1>2. /\ Busy(g, p) /\ i \in DOMAIN channels[g]
      /\ channels[g][i].kind = "gateway" /\ channels[g][i] \in Channels
      /\ channels[g][i].subject = Call(g, p).msg.subject
      /\ PassedCall(g, p) \in Calls
      /\ PassedCall(g, p).net = Call(g, p).net /\ PassedCall(g, p).msg = Call(g, p).msg
      /\ PassedCall(g, p).next = i + 1
      /\ Passed(g, p) = [calls EXCEPT ![g] =
                    [calls[g] EXCEPT ![p] = SetLast(calls[g][p], PassedCall(g, p))]]
  BY <1>1, CallbackFacts
<1>3. g \in conf.gateways
  BY <1>2 DEF Types
<1>4. Call(g, p) \in Calls /\ Call(g, p).msg.subject = SUBSCRIBE
  BY <1>2, CallFacts DEF Channels, Proxies
<1>5. s \in Subjects \cup {SUBSCRIBE}
  BY <1>4, MessageFacts DEF Calls
<1>6. CASE calls' = Passed(g, p) /\ UNCHANGED gecs
  <2> DEFINE q == SetLast(calls[g][p], PassedCall(g, p))
  <2>1. IsAfter(calls', g, p, q) /\ q \in Seq(Calls)
    BY <1>1, <1>6, CallbackTypes
  <2> HIDE DEF q
  <2>2. /\ calls' \in [Nodes -> [Flows -> Seq(Calls)]]
        /\ \A k \in Nodes \ conf'.gateways, r \in Flows :
              \A j \in DOMAIN calls'[k][r] : calls'[k][r][j].binds = None
    BY <1>1, <1>3, <2>1, StackTypes
  <2>3. Types'
    BY <1>1, <1>6, <2>2 DEF Types
  <2> QED BY <1>3, <1>4, <1>6, <2>1, <2>3 DEF q
<1>7. CASE /\ ~Ignores(g, s)
           /\ gecs' = [gecs EXCEPT ![g] = @ \cup {[subject |-> s, to |-> bnl[g]]}]
           /\ calls' = [Passed(g, p) EXCEPT ![g][p][Len(calls[g][p])].binds = b]
  <2>1. s \in Subjects /\ bnl[g] \in Networks /\ ~Known(g, s)
    BY <1>5, <1>7 DEF Ignores, Types
  <2>2. b \in Proxies /\ b \in Proxies \cup {None}
    BY <2>1 DEF Proxies
  <2>3. /\ c \in Calls /\ c.net = Call(g, p).net /\ c.msg = Call(g, p).msg
        /\ c.next = i + 1 /\ c.binds = b
    <3>1. c = [PassedCall(g, p) EXCEPT !.binds = b]
      BY DEF BindingCall
    <3> HIDE DEF c, b
    <3>2. PassedCall(g, p) \in [net : Networks \cup {None}, msg : Messages, next : Nat \ {0},
                                binds : Proxies \cup {None}]
      BY <1>2 DEF Calls
    <3>3. c \in Calls /\ c.binds = b /\ c.net = PassedCall(g, p).net
          /\ c.msg = PassedCall(g, p).msg /\ c.next = PassedCall(g, p).next
      BY <2>2, <3>1, <3>2 DEF Calls
    <3> QED BY <1>2, <3>3
  <2>4. calls[g][p] \in Seq(Calls) /\ calls[g][p] # <<>>
    BY <1>2, CallFacts
  <2> DEFINE old == SetLast(calls[g][p], PassedCall(g, p))
             q == SetLast(calls[g][p], c)
  <2>5. /\ old \in Seq(Calls) /\ Len(old) = L /\ old[L] = PassedCall(g, p)
        /\ q \in Seq(Calls)
    <3> DEFINE stack == calls[g][p]
               d == PassedCall(g, p)
    <3>1. stack \in Seq(Calls) /\ stack # <<>> /\ c \in Calls /\ d \in Calls
      BY <1>2, <2>3, <2>4
    <3> HIDE DEF stack, c, d
    <3>2. /\ SetLast(stack, d) \in Seq(Calls) /\ Len(SetLast(stack, d)) = Len(stack)
          /\ SetLast(stack, d)[Len(stack)] = d /\ SetLast(stack, c) \in Seq(Calls)
      BY <3>1, LastOne
    <3> QED BY <3>2 DEF stack, d
  <2>6. SetLast(old, c) = q
    BY <1>2, <2>3, <2>4, LastTwice
  <2>7. Passed(g, p)[g][p] = old /\ IsAfter(Passed(g, p), g, p, old)
    BY <1>1, CallbackTypes DEF IsAfter
  <2>8. calls' = [Passed(g, p) EXCEPT ![g] = [Passed(g, p)[g] EXCEPT ![p] = SetLast(old, c)]]
    <3>1. Passed(g, p)[g][p][L] = PassedCall(g, p)
      BY <2>5, <2>7
    <3>2. [Passed(g, p)[g][p][L] EXCEPT !.binds = b] = c
      BY <3>1 DEF BindingCall
    <3>3. calls' = [Passed(g, p) EXCEPT ![g] = [Passed(g, p)[g] EXCEPT ![p] =
              [Passed(g, p)[g][p] EXCEPT ![L] = [Passed(g, p)[g][p][L] EXCEPT !.binds = b]]]]
      BY <1>7
    <3>4. [Passed(g, p)[g][p] EXCEPT ![L] = [Passed(g, p)[g][p][L] EXCEPT !.binds = b]]
             = [old EXCEPT ![L] = c]
      BY <2>7, <3>2
    <3>5. [old EXCEPT ![L] = c] = SetLast(old, c)
      BY <2>5 DEF SetLast
    <3> HIDE DEF old, c, b, L
    <3> QED BY <3>3, <3>4, <3>5
  <2> HIDE DEF old, q, c, b
  <2>9. IsAfter(calls', g, p, q)
    <3>1. Passed(g, p) \in [Nodes -> [Flows -> Seq(Calls)]]
          /\ \A k \in Nodes, r \in Flows : ~(k = g /\ r = p) => Passed(g, p)[k][r] = calls[k][r]
      BY <2>7 DEF IsAfter
    <3> DEFINE f == [Passed(g, p)[g] EXCEPT ![p] = q]
    <3>2. Passed(g, p)[g] \in [Flows -> Seq(Calls)]
      BY <3>1
    <3>3. f \in [Flows -> Seq(Calls)] /\ f[p] = q
          /\ \A r \in Flows : r # p => f[r] = Passed(g, p)[g][r]
      BY <2>5, <3>2
    <3>4. calls' = [Passed(g, p) EXCEPT ![g] = f]
      BY <2>6, <2>8
    <3> HIDE DEF f
    <3> QED BY <3>1, <3>3, <3>4 DEF IsAfter
  <2>10. /\ calls' \in [Nodes -> [Flows -> Seq(Calls)]]
         /\ \A k \in Nodes \ conf'.gateways, r \in Flows :
               \A j \in DOMAIN calls'[k][r] : calls'[k][r][j].binds = None
    BY <1>1, <1>3, <2>5, <2>9, StackTypes
  <2>11. gecs' \in [Gateways -> SUBSET [subject : Subjects, to : Networks]]
    <3>1. [subject |-> s, to |-> bnl[g]] \in [subject : Subjects, to : Networks]
      BY <2>1
    <3>2. g \in Gateways
      BY <1>3, Configuration
    <3>3. gecs[g] \cup {[subject |-> s, to |-> bnl[g]]} \in SUBSET [subject : Subjects, to : Networks]
      BY <3>1, <3>2 DEF Types
    <3> QED BY <1>7, <3>2, <3>3 DEF Types
  <2>12. Types'
    BY <1>1, <2>10, <2>11 DEF Types
  <2> QED BY <1>3, <1>4, <1>7, <2>1, <2>3, <2>9, <2>12 DEF q, c, b
<1> QED BY <1>6, <1>7 DEF SubscribeFromNetwork

\* The call of a gateway whose bind has returned.
BoundCall(g, p) == [Call(g, p) EXCEPT !.binds = None]

LEMMA FinishBindTypes ==
  ASSUME Types, NEW g \in Nodes, NEW p \in Flows, FinishBind(g, p)
  PROVE  LET b == Call(g, p).binds
             c == BoundCall(g, p)
         IN  /\ Types'
             /\ g \in conf.gateways
             /\ b \in Proxies /\ b \in Channels /\ b # None
             /\ Listen(g, b)
             /\ c \in Calls /\ c.net = Call(g, p).net /\ c.msg = Call(g, p).msg
             /\ c.next = Call(g, p).next /\ c.binds = None
             /\ IsAfter(calls', g, p, SetLast(calls[g][p], c))
<1> DEFINE b == Call(g, p).binds
           c == BoundCall(g, p)
           L == Len(calls[g][p])
<1>1. /\ Busy(g, p) /\ b # None /\ Listen(g, b)
      /\ UNCHANGED <<conf, gecs, bnl, published, got, written>>
  BY DEF FinishBind
<1>2. /\ calls[g][p] \in Seq(Calls) /\ calls[g][p] # <<>> /\ L \in DOMAIN calls[g][p]
      /\ Call(g, p) = calls[g][p][L] /\ Call(g, p) \in Calls
  <2>1. /\ calls[g][p] \in Seq(Calls) /\ calls[g][p] # <<>>
        /\ L \in Nat \ {0} /\ DOMAIN calls[g][p] = 1 .. L
        /\ Call(g, p) = calls[g][p][L] /\ Call(g, p) \in Calls
    BY <1>1, CallFacts
  <2> QED BY <2>1
<1>3. g \in conf.gateways
  BY <1>1, <1>2 DEF Types
<1>4. b \in Proxies /\ b \in Channels
  BY <1>1, <1>2 DEF Calls, Channels
<1>5. /\ c \in Calls /\ c.net = Call(g, p).net /\ c.msg = Call(g, p).msg
      /\ c.next = Call(g, p).next /\ c.binds = None
  <2>1. c = [Call(g, p) EXCEPT !.binds = None]
    BY DEF BoundCall
  <2> HIDE DEF c
  <2> QED BY <1>2, <2>1 DEF Calls
<1>6. calls' = [calls EXCEPT ![g] = [calls[g] EXCEPT ![p] = SetLast(calls[g][p], c)]]
  <2>1. calls' = [calls EXCEPT ![g] = [calls[g] EXCEPT ![p] =
              [calls[g][p] EXCEPT ![L] = [calls[g][p][L] EXCEPT !.binds = None]]]]
    BY DEF FinishBind
  <2>2. [calls[g][p][L] EXCEPT !.binds = None] = c
    BY <1>2 DEF BoundCall
  <2> QED BY <2>1, <2>2, Zenon DEF SetLast
<1> DEFINE q == SetLast(calls[g][p], c)
<1> HIDE DEF c
<1>7. IsAfter(calls', g, p, q) /\ q \in Seq(Calls)
  BY <1>1, <1>3, <1>5, <1>6, LastReplaced
<1> HIDE DEF q, b
<1>8. /\ calls' \in [Nodes -> [Flows -> Seq(Calls)]]
      /\ \A k \in Nodes \ conf'.gateways, r \in Flows :
            \A j \in DOMAIN calls'[k][r] : calls'[k][r][j].binds = None
  BY <1>1, <1>3, <1>7, StackTypes
<1>9. /\ channels' \in [Nodes -> Seq(Channels)]
      /\ inbox' \in [Nodes -> [Networks -> Seq(Messages)]]
      /\ \A k \in Nodes \ conf'.gateways :
            \A i \in DOMAIN channels'[k] : channels'[k][i].kind = "app"
  BY <1>1, <1>3, <1>4, ListenTypes
<1>10. Types'
  BY <1>1, <1>8, <1>9 DEF Types
<1> QED BY <1>1, <1>3, <1>4, <1>5, <1>7, <1>10 DEF q, c, b

LEMMA ForwardTypes ==
  ASSUME Types, NEW g \in Nodes, NEW p \in Flows, Forward(g, p)
  PROVE  LET e == Call(g, p).msg.about
             w == Channel(g, p).to
         IN  /\ Types'
             /\ g \in conf.gateways
             /\ e \in Events /\ Call(g, p).msg = Message(e) /\ w \in Networks
             /\ IsAfter(calls', g, p, SetLast(calls[g][p], PassedCall(g, p)))
             /\ \/ UNCHANGED <<inbox, written>>
                \/ /\ bnl[g] # None /\ bnl[g] # w
                   /\ Write(g, {w}, Message(e))
                   /\ written' = written \cup {<<w, e>>}
<1> DEFINE e == Call(g, p).msg.about
           i == Min(Remaining(g, p))
           w == Channel(g, p).to
           q == SetLast(calls[g][p], PassedCall(g, p))
<1>1. AtCallback(g, p, "forward") /\ UNCHANGED <<conf, channels, gecs, bnl, published, got>>
      /\ calls' = Passed(g, p)
  BY DEF Forward
<1>2. /\ Busy(g, p) /\ i \in DOMAIN channels[g] /\ channels[g][i] \in Channels
      /\ Channel(g, p) = channels[g][i]
      /\ channels[g][i].kind = "forward"
      /\ channels[g][i].subject = Call(g, p).msg.subject
  BY <1>1, CallbackFacts
<1>3. g \in conf.gateways
  BY <1>2 DEF Types
<1>4. Call(g, p) \in Calls
  BY <1>2, CallFacts
<1>5. w \in Networks /\ Call(g, p).msg.subject \in Subjects
  BY <1>2 DEF Channels, Proxies
<1>6. Call(g, p).msg \in Messages /\ Call(g, p).msg.subject # SUBSCRIBE
  BY <1>4, <1>5, Configuration DEF Calls
<1>7. e \in Events /\ Call(g, p).msg = Message(e) /\ Message(e) \in Messages
  BY <1>6, MessageFacts
<1>8. IsAfter(calls', g, p, q) /\ q \in Seq(Calls)
  BY <1>1, CallbackTypes
<1> HIDE DEF q
<1>9. /\ calls' \in [Nodes -> [Flows -> Seq(Calls)]]
      /\ \A k \in Nodes \ conf'.gateways, r \in Flows :
            \A j \in DOMAIN calls'[k][r] : calls'[k][r][j].binds = None
  BY <1>1, <1>3, <1>8, StackTypes
<1>10. CASE UNCHANGED <<inbox, written>>
  <2>1. Types'
    BY <1>1, <1>9, <1>10 DEF Types
  <2> QED BY <1>3, <1>5, <1>7, <1>8, <1>10, <2>1 DEF q
<1>11. CASE /\ ~EventFromNetworkWithId(g, w)
            /\ Write(g, {w}, Call(g, p).msg)
            /\ written' = written \cup ({w} \X {e})
  <2>1. bnl[g] # None /\ bnl[g] # w
    BY <1>11 DEF EventFromNetworkWithId
  <2>2. {w} \X {e} = {<<w, e>>}
    OBVIOUS
  <2>3. written' = written \cup {<<w, e>>}
    BY <1>11, <2>2
  <2>4. written' \in SUBSET (Networks \X Events)
    BY <1>5, <1>7, <2>3 DEF Types
  <2>5. Write(g, {w}, Message(e))
    BY <1>7, <1>11
  <2>6. inbox' \in [Nodes -> [Networks -> Seq(Messages)]]
    BY <1>7, <2>5, WriteFacts
  <2>7. Types'
    BY <1>1, <1>9, <2>4, <2>6 DEF Types
  <2> QED BY <1>3, <1>5, <1>7, <1>8, <2>1, <2>3, <2>5, <2>7 DEF q
<1> QED BY <1>10, <1>11 DEF Forward

LEMMA ReturnTypes ==
  ASSUME Types, NEW n \in Nodes, NEW p \in Flows, Return(n, p)
  PROVE  /\ Types'
         /\ Busy(n, p) /\ calls[n][p] \in Seq(Calls) /\ calls[n][p] # <<>>
         /\ IsAfter(calls', n, p, Front(calls[n][p]))
         /\ bnl' = IF Call(n, p).net = None THEN bnl ELSE [bnl EXCEPT ![n] = None]
<1> DEFINE q == Front(calls[n][p])
<1>1. /\ Busy(n, p) /\ calls' = [calls EXCEPT ![n] = [calls[n] EXCEPT ![p] = q]]
      /\ UNCHANGED <<conf, channels, gecs, inbox, published, got, written>>
      /\ bnl' = IF Call(n, p).net = None THEN bnl ELSE [bnl EXCEPT ![n] = None]
  BY DEF Return, Leave
<1>2. calls[n][p] \in Seq(Calls) /\ calls[n][p] # <<>>
  BY <1>1, CallFacts
<1>3. q \in Seq(Calls)
  BY <1>2, FrontOne
<1>4. n \in conf.gateways \/ NoneBinds(q)
  <2>1. CASE NoneBinds(calls[n][p])
    <3>1. /\ DOMAIN calls[n][p] = 1 .. Len(calls[n][p])
          /\ DOMAIN q = 1 .. Len(calls[n][p]) - 1
          /\ \A i \in 1 .. Len(calls[n][p]) - 1 :
                i \in 1 .. Len(calls[n][p]) /\ q[i] = calls[n][p][i]
      BY <1>2, FrontOne
    <3> HIDE DEF q
    <3> QED BY <2>1, <3>1 DEF NoneBinds
  <2> QED BY <2>1, NoneBindsElsewhere
<1> HIDE DEF q
<1>5. IsAfter(calls', n, p, q)
  BY <1>1, <1>3, Replaced
<1>6. /\ calls' \in [Nodes -> [Flows -> Seq(Calls)]]
      /\ \A k \in Nodes \ conf'.gateways, r \in Flows :
            \A j \in DOMAIN calls'[k][r] : calls'[k][r][j].binds = None
  BY <1>1, <1>3, <1>4, <1>5, StackTypes
<1>7. bnl' \in [Nodes -> Networks \cup {None}]
  BY <1>1 DEF Types
<1>8. Types'
  BY <1>1, <1>6, <1>7 DEF Types
<1> QED BY <1>1, <1>2, <1>5, <1>8 DEF q

LEMMA Steps ==
  ASSUME Types, Next
  PROVE  \/ \E g \in conf.gateways : StartGateway(g)
         \/ \E n \in Nodes, s \in Subjects : Subscribe(n, s)
         \/ \E n \in Nodes, e \in Events : Publish(n, e)
         \/ \E n \in Nodes, w \in Networks : Receive(n, w)
         \/ \E n \in Nodes, p \in Flows : Notify(n, p)
         \/ \E n \in Nodes, p \in Flows : SubscribeFromNetwork(n, p)
         \/ \E n \in Nodes, p \in Flows : FinishBind(n, p)
         \/ \E n \in Nodes, p \in Flows : Forward(n, p)
         \/ \E n \in Nodes, p \in Flows : Return(n, p)
BY Configuration DEF Next, Application, Work, Continue

LEMMA TypesKept == Types /\ [Next]_vars => Types'
<1> SUFFICES ASSUME Types, [Next]_vars PROVE Types'
  OBVIOUS
<1>1. CASE UNCHANGED vars
  BY <1>1 DEF vars, Types
<1>2. CASE Next
  BY <1>2, Steps, StartGatewayTypes, SubscribeTypes, PublishTypes, ReceiveTypes, NotifyTypes,
     SubscribeFromNetworkTypes, FinishBindTypes, ForwardTypes, ReturnTypes
<1> QED BY <1>1, <1>2

-----------------------------------------------------------------------------
(* Which calls there are after a step.                                     *)

Others(n, p) == \A k \in Nodes, r \in Flows : ~(k = n /\ r = p) => calls'[k][r] = calls[k][r]

LEMMA AfterEntering ==
  ASSUME Types, NEW n \in Nodes, NEW p \in Flows, NEW c \in Calls,
         IsAfter(calls', n, p, Append(calls[n][p], c))
  PROVE  /\ \A k \in Nodes, r \in Flows : \A i \in DOMAIN calls'[k][r] :
               \/ i \in DOMAIN calls[k][r] /\ calls'[k][r][i] = calls[k][r][i]
               \/ k = n /\ r = p /\ i = Len(calls[n][p]) + 1 /\ calls'[k][r][i] = c
         /\ Others(n, p)
         /\ calls'[n][p] # <<>> /\ Last(calls'[n][p]) = c
<1> DEFINE q == calls[n][p]
           a == Append(q, c)
<1>1. q \in Seq(Calls)
  BY Itself
<1>2. /\ a \in Seq(Calls) /\ Len(q) \in Nat /\ Len(a) = Len(q) + 1 /\ DOMAIN q = 1 .. Len(q)
      /\ DOMAIN a = 1 .. Len(q) + 1
      /\ \A i \in 1 .. Len(q) : a[i] = q[i]
      /\ a[Len(q) + 1] = c /\ a # <<>>
  BY <1>1, Appended
<1>3. \A i \in 1 .. Len(q) + 1 : i \in 1 .. Len(q) \/ i = Len(q) + 1
  BY <1>2
<1> HIDE DEF a, q
<1>4. calls'[n][p] = a /\ Others(n, p)
  BY DEF IsAfter, Others, a, q
<1>5. \A i \in DOMAIN a : \/ i \in DOMAIN q /\ a[i] = q[i]
                          \/ i = Len(q) + 1 /\ a[i] = c
  BY <1>2, <1>3
<1>6. Last(a) = c
  BY <1>2 DEF Last
<1>7. ASSUME NEW k \in Nodes, NEW r \in Flows, NEW i \in DOMAIN calls'[k][r]
      PROVE  \/ i \in DOMAIN calls[k][r] /\ calls'[k][r][i] = calls[k][r][i]
             \/ k = n /\ r = p /\ i = Len(q) + 1 /\ calls'[k][r][i] = c
  <2>1. CASE k = n /\ r = p
    BY <1>4, <1>5, <1>7, <2>1 DEF q
  <2>2. CASE ~(k = n /\ r = p)
    BY <1>4, <1>7, <2>2 DEF Others
  <2> QED BY <2>1, <2>2
<1> QED BY <1>2, <1>4, <1>6, <1>7 DEF q

LEMMA AfterChange ==
  ASSUME Types, NEW n \in Nodes, NEW p \in Flows, NEW c \in Calls, Busy(n, p),
         IsAfter(calls', n, p, SetLast(calls[n][p], c))
  PROVE  /\ \A k \in Nodes, r \in Flows : \A i \in DOMAIN calls'[k][r] :
               /\ i \in DOMAIN calls[k][r]
               /\ \/ calls'[k][r][i] = calls[k][r][i] /\ ~(k = n /\ r = p /\ i = Len(calls[n][p]))
                  \/ /\ k = n /\ r = p /\ i = Len(calls[n][p])
                     /\ calls[k][r][i] = Call(n, p) /\ calls'[k][r][i] = c
         /\ Others(n, p)
         /\ calls'[n][p] # <<>> /\ Last(calls'[n][p]) = c
         /\ Len(calls[n][p]) \in DOMAIN calls[n][p]
         /\ calls[n][p][Len(calls[n][p])] = Call(n, p)
<1> DEFINE q == calls[n][p]
           a == SetLast(q, c)
<1>1. q \in Seq(Calls) /\ q # <<>>
  BY CallFacts
<1>2. /\ Len(q) \in DOMAIN q /\ DOMAIN q = 1 .. Len(q) /\ Last(q) = q[Len(q)]
      /\ Len(a) = Len(q)
      /\ DOMAIN a = 1 .. Len(q)
      /\ \A i \in 1 .. Len(q) : i # Len(q) => a[i] = q[i]
      /\ a[Len(q)] = c /\ a # <<>>
  <2> HIDE DEF q
  <2>1. q \in Seq(Calls) /\ q # <<>>
    BY <1>1
  <2> QED BY <2>1, LastOne
<1>3. Call(n, p) = Last(q)
  BY DEF Call
<1> HIDE DEF a, q
<1>4. calls'[n][p] = a /\ Others(n, p)
  BY DEF IsAfter, Others, a, q
<1>5. Last(a) = c
  BY <1>2 DEF Last
<1>6. ASSUME NEW k \in Nodes, NEW r \in Flows, NEW i \in DOMAIN calls'[k][r]
      PROVE  /\ i \in DOMAIN calls[k][r]
             /\ \/ calls'[k][r][i] = calls[k][r][i] /\ ~(k = n /\ r = p /\ i = Len(q))
                \/ /\ k = n /\ r = p /\ i = Len(q)
                   /\ calls[k][r][i] = Call(n, p) /\ calls'[k][r][i] = c
  <2>1. CASE k = n /\ r = p
    <3>1. i \in DOMAIN a /\ calls[k][r] = q /\ calls'[k][r] = a
      BY <1>4, <1>6, <2>1 DEF q
    <3>2. CASE i = Len(q)
      BY <1>2, <1>3, <2>1, <3>1, <3>2
    <3>3. CASE i # Len(q)
      BY <1>2, <2>1, <3>1, <3>3
    <3> QED BY <3>2, <3>3
  <2>2. CASE ~(k = n /\ r = p)
    BY <1>4, <1>6, <2>2 DEF Others
  <2> QED BY <2>1, <2>2
<1> QED BY <1>2, <1>3, <1>4, <1>5, <1>6 DEF q

LEMMA AfterReacting ==
  ASSUME Types, NEW n \in Nodes, NEW p \in Flows, NEW c \in Calls, NEW d \in Calls, Busy(n, p),
         IsAfter(calls', n, p, Append(SetLast(calls[n][p], c), d))
  PROVE  /\ \A k \in Nodes, r \in Flows : \A i \in DOMAIN calls'[k][r] :
               \/ /\ i \in DOMAIN calls[k][r]
                  /\ \/ calls'[k][r][i] = calls[k][r][i] /\ ~(k = n /\ r = p /\ i = Len(calls[n][p]))
                     \/ /\ k = n /\ r = p /\ i = Len(calls[n][p])
                        /\ calls[k][r][i] = Call(n, p) /\ calls'[k][r][i] = c
               \/ k = n /\ r = p /\ i = Len(calls[n][p]) + 1 /\ calls'[k][r][i] = d
         /\ Others(n, p)
         /\ calls'[n][p] # <<>> /\ Last(calls'[n][p]) = d
         /\ Len(calls[n][p]) \in DOMAIN calls[n][p]
         /\ calls[n][p][Len(calls[n][p])] = Call(n, p)
<1> DEFINE q == calls[n][p]
           s == SetLast(q, c)
           a == Append(s, d)
<1>1. q \in Seq(Calls) /\ q # <<>>
  BY CallFacts
<1>2. /\ Len(q) \in DOMAIN q /\ DOMAIN q = 1 .. Len(q) /\ Last(q) = q[Len(q)]
      /\ s \in Seq(Calls)
      /\ Len(s) = Len(q)
      /\ \A i \in 1 .. Len(q) : i # Len(q) => s[i] = q[i]
      /\ s[Len(q)] = c
  <2> HIDE DEF q
  <2>1. q \in Seq(Calls) /\ q # <<>>
    BY <1>1
  <2> QED BY <2>1, LastOne
<1>3. Call(n, p) = Last(q)
  BY DEF Call
<1> HIDE DEF s, q
<1>8. s \in Seq(Calls)
  BY <1>2
<1>4. /\ Len(s) \in Nat /\ Len(a) = Len(s) + 1
      /\ DOMAIN a = 1 .. Len(s) + 1
      /\ \A i \in 1 .. Len(s) : a[i] = s[i]
      /\ a[Len(s) + 1] = d /\ a # <<>>
  BY <1>8, Appended
<1> HIDE DEF a
<1>5. calls'[n][p] = a /\ Others(n, p)
  BY DEF IsAfter, Others, a, s, q
<1>6. Last(a) = d
  BY <1>4 DEF Last
<1>7. ASSUME NEW k \in Nodes, NEW r \in Flows, NEW i \in DOMAIN calls'[k][r]
      PROVE  \/ /\ i \in DOMAIN calls[k][r]
                /\ \/ calls'[k][r][i] = calls[k][r][i] /\ ~(k = n /\ r = p /\ i = Len(q))
                   \/ /\ k = n /\ r = p /\ i = Len(q)
                      /\ calls[k][r][i] = Call(n, p) /\ calls'[k][r][i] = c
             \/ k = n /\ r = p /\ i = Len(q) + 1 /\ calls'[k][r][i] = d
  <2>1. CASE k = n /\ r = p
    <3>1. i \in 1 .. Len(q) + 1 /\ calls[k][r] = q /\ calls'[k][r] = a
      BY <1>2, <1>4, <1>5, <1>7, <2>1 DEF q
    <3>2. CASE i = Len(q) + 1
      BY <1>2, <1>4, <2>1, <3>1, <3>2
    <3>3. CASE i = Len(q)
      BY <1>2, <1>3, <1>4, <2>1, <3>1, <3>3
    <3>4. CASE i # Len(q) /\ i # Len(q) + 1
      <4>1. i \in 1 .. Len(q)
        <5>1. Len(q) \in Nat
          BY <1>2, <1>4
        <5> QED BY <3>1, <3>4, <5>1
      <4> QED BY <1>2, <1>4, <2>1, <3>1, <3>4, <4>1
    <3> QED BY <3>2, <3>3, <3>4
  <2>2. CASE ~(k = n /\ r = p)
    BY <1>5, <1>7, <2>2 DEF Others
  <2> QED BY <2>1, <2>2
<1> QED BY <1>2, <1>3, <1>4, <1>5, <1>6, <1>7 DEF q

LEMMA AfterLeaving ==
  ASSUME Types, NEW n \in Nodes, NEW p \in Flows, Busy(n, p),
         IsAfter(calls', n, p, Front(calls[n][p]))
  PROVE  /\ \A k \in Nodes, r \in Flows : \A i \in DOMAIN calls'[k][r] :
               /\ i \in DOMAIN calls[k][r] /\ calls'[k][r][i] = calls[k][r][i]
               /\ k = n /\ r = p => i \in 1 .. Len(calls[n][p]) - 1
         /\ Others(n, p)
         /\ Len(calls'[n][p]) = Len(calls[n][p]) - 1
<1> DEFINE q == calls[n][p]
           a == Front(q)
<1>1. q \in Seq(Calls) /\ q # <<>>
  BY CallFacts
<1> HIDE DEF q
<1>2. /\ DOMAIN q = 1 .. Len(q) /\ DOMAIN a = 1 .. Len(q) - 1 /\ Len(a) = Len(q) - 1
      /\ \A i \in 1 .. Len(q) - 1 : i \in 1 .. Len(q) /\ a[i] = q[i]
  BY <1>1, FrontOne
<1> HIDE DEF a
<1>3. calls'[n][p] = a /\ Others(n, p)
  BY DEF IsAfter, Others, a, q
<1>4. ASSUME NEW k \in Nodes, NEW r \in Flows, NEW i \in DOMAIN calls'[k][r]
      PROVE  /\ i \in DOMAIN calls[k][r] /\ calls'[k][r][i] = calls[k][r][i]
             /\ k = n /\ r = p => i \in 1 .. Len(q) - 1
  <2>1. CASE k = n /\ r = p
    BY <1>2, <1>3, <1>4, <2>1 DEF q
  <2>2. CASE ~(k = n /\ r = p)
    BY <1>3, <1>4, <2>2 DEF Others
  <2> QED BY <2>1, <2>2
<1> QED BY <1>2, <1>3, <1>4 DEF q

-----------------------------------------------------------------------------
(* One forward channel per subject.  The channels of a gateway that are    *)
(* bound, and the calls that bind one at the moment, are all known in its  *)
(* storage, and no two of them are for the same subject.                   *)

Binding(n, p, i) == i \in DOMAIN calls[n][p] /\ calls[n][p][i].binds # None
Bound(n, p, i)   == calls[n][p][i].binds.subject

BoundIsKnown == \A g \in conf.gateways, s \in Subjects : KnownBound(g, s) => Known(g, s)
BindingIsKnown ==
    \A g \in conf.gateways, p \in Flows, i \in Nat : Binding(g, p, i) =>
        /\ Known(g, Bound(g, p, i))
        /\ ~KnownBound(g, Bound(g, p, i))
        /\ calls[g][p][i].msg.subject = SUBSCRIBE
BindsDiffer ==
    \A g \in conf.gateways, p, q \in Flows, i, j \in Nat :
        Binding(g, p, i) /\ Binding(g, q, j) /\ Bound(g, p, i) = Bound(g, q, j)
            => p = q /\ i = j
ProxiesDiffer ==
    \A g \in conf.gateways : \A i, j \in DOMAIN channels[g] :
        channels[g][i].subject = channels[g][j].subject
        /\ channels[g][i].kind = "forward" /\ channels[g][j].kind = "forward" => i = j
ProxyInv == BoundIsKnown /\ BindingIsKnown /\ BindsDiffer /\ ProxiesDiffer

\* Most steps neither begin nor end a bind.
ForwardsKept == \A k \in Nodes : \A i \in DOMAIN channels'[k] :
    channels'[k][i].kind = "forward" => i \in DOMAIN channels[k] /\ channels'[k][i] = channels[k][i]
BindsKept == \A k \in Nodes, r \in Flows : \A i \in DOMAIN calls'[k][r] :
    calls'[k][r][i].binds # None =>
        /\ i \in DOMAIN calls[k][r]
        /\ calls'[k][r][i].binds = calls[k][r][i].binds
        /\ calls'[k][r][i].msg = calls[k][r][i].msg

LEMMA ProxyQuiet ==
  ASSUME Types, ProxyInv, UNCHANGED <<conf, gecs>>, ForwardsKept, BindsKept
  PROVE  ProxyInv'
<1>1. conf.gateways \subseteq Nodes
  BY Configuration
<1>2. ASSUME NEW g \in conf.gateways, NEW s, KnownBound(g, s)' PROVE KnownBound(g, s)
  BY <1>1, <1>2 DEF KnownBound, ForwardsKept
<1>3. ASSUME NEW g \in conf.gateways, NEW p \in Flows, NEW i \in Nat, Binding(g, p, i)'
      PROVE  /\ Binding(g, p, i) /\ Bound(g, p, i)' = Bound(g, p, i)
             /\ (calls[g][p][i].msg)' = calls[g][p][i].msg
  BY <1>1, <1>3 DEF Binding, Bound, BindsKept
<1>4. \A g \in conf.gateways : \A s : Known(g, s) => Known(g, s)'
  BY DEF Known
<1>5. BoundIsKnown'
  BY <1>2, <1>4 DEF BoundIsKnown, ProxyInv
<1>6. BindingIsKnown'
  <2> SUFFICES ASSUME NEW g \in conf.gateways, NEW p \in Flows, NEW i \in Nat, Binding(g, p, i)'
               PROVE  /\ Known(g, Bound(g, p, i))' /\ ~KnownBound(g, Bound(g, p, i))'
                      /\ (calls[g][p][i].msg.subject = SUBSCRIBE)'
    BY DEF BindingIsKnown
  <2>1. /\ Known(g, Bound(g, p, i)) /\ ~KnownBound(g, Bound(g, p, i))
        /\ calls[g][p][i].msg.subject = SUBSCRIBE
    BY <1>3 DEF ProxyInv, BindingIsKnown
  <2>2. Known(g, Bound(g, p, i))'
    BY <1>3, <2>1 DEF Known
  <2>3. ~KnownBound(g, Bound(g, p, i))'
    <3> SUFFICES ASSUME KnownBound(g, Bound(g, p, i))' PROVE FALSE
      OBVIOUS
    <3>1. KnownBound(g, Bound(g, p, i))
      BY <1>1, <1>3 DEF KnownBound, ForwardsKept
    <3> QED BY <2>1, <3>1
  <2> QED BY <1>3, <2>1, <2>2, <2>3
<1>7. BindsDiffer'
  BY <1>3 DEF ProxyInv, BindsDiffer
<1>8. ProxiesDiffer'
  BY <1>1 DEF ProxyInv, ProxiesDiffer, ForwardsKept
<1> QED BY <1>5, <1>6, <1>7, <1>8 DEF ProxyInv

LEMMA ListenKeepsForwards ==
  ASSUME Types, NEW n \in Nodes, NEW c \in Channels, Listen(n, c), c.kind # "forward"
  PROVE  ForwardsKept
BY ListKept DEF ForwardsKept

LEMMA SubscribeFromNetworkProxy ==
  ASSUME Types, ProxyInv, NEW g \in Nodes, NEW p \in Flows, SubscribeFromNetwork(g, p)
  PROVE  ProxyInv'
<1> DEFINE s == Call(g, p).msg.about
           c == BindingCall(g, p)
           L == Len(calls[g][p])
<1>1. Busy(g, p) /\ PassedCall(g, p) \in Calls /\ PassedCall(g, p).binds = None
      /\ Call(g, p).binds = None
  <2>1. AtCallback(g, p, "gateway")
    BY DEF SubscribeFromNetwork
  <2> QED BY <2>1, CallbackFacts
<1>2. UNCHANGED <<conf, channels>>
  BY DEF SubscribeFromNetwork
<1>3. ForwardsKept
  BY <1>2 DEF ForwardsKept
<1>4. CASE IsAfter(calls', g, p, SetLast(calls[g][p], PassedCall(g, p))) /\ UNCHANGED gecs
  <2>1. BindsKept
    <3>1. \A k \in Nodes, r \in Flows : \A i \in DOMAIN calls'[k][r] :
             /\ i \in DOMAIN calls[k][r]
             /\ calls'[k][r][i] = calls[k][r][i] \/ calls'[k][r][i] = PassedCall(g, p)
      BY <1>1, <1>4, AfterChange
    <3> QED BY <1>1, <3>1 DEF BindsKept
  <2> QED BY <1>2, <1>3, <1>4, <2>1, ProxyQuiet
<1>5. CASE /\ ~Known(g, s) /\ s \in Subjects
           /\ gecs' = [gecs EXCEPT ![g] = @ \cup {[subject |-> s, to |-> bnl[g]]}]
           /\ c \in Calls /\ c.msg = Call(g, p).msg
           /\ c.binds = [kind |-> "forward", subject |-> s, to |-> bnl[g]]
           /\ IsAfter(calls', g, p, SetLast(calls[g][p], c))
           /\ g \in conf.gateways /\ c.msg.subject = SUBSCRIBE
  <2> HIDE DEF c
  <2>1. /\ \A k \in Nodes, r \in Flows : \A i \in DOMAIN calls'[k][r] :
             /\ i \in DOMAIN calls[k][r]
             /\ \/ calls'[k][r][i] = calls[k][r][i] /\ ~(k = g /\ r = p /\ i = L)
                \/ k = g /\ r = p /\ i = L /\ calls'[k][r][i] = c
        /\ L \in DOMAIN calls[g][p] /\ calls[g][p][L] = Call(g, p)
    BY <1>1, <1>5, AfterChange
  <2> HIDE DEF L, s
  <2>2. c.binds.subject = s
    BY <1>5
  <2>3. conf.gateways \subseteq Nodes /\ conf.gateways \subseteq Gateways
    BY Configuration
  <2>4. /\ \A k \in conf.gateways : gecs[k] \subseteq gecs'[k]
        /\ \E f \in gecs'[g] : f.subject = s
    <3>1. gecs'[g] = gecs[g] \cup {[subject |-> s, to |-> bnl[g]]}
          /\ \A h \in Gateways : h # g => gecs'[h] = gecs[h]
      BY <1>5, <2>3 DEF Types
    <3>2. \A k \in conf.gateways : gecs[k] \subseteq gecs'[k]
      BY <2>3, <3>1
    <3>3. [subject |-> s, to |-> bnl[g]] \in gecs'[g]
          /\ [subject |-> s, to |-> bnl[g]].subject = s
      BY <3>1
    <3> QED BY <3>2, <3>3
  <2>5. \A k \in conf.gateways : \A t : Known(k, t) => Known(k, t)'
    BY <2>4 DEF Known
  <2>6. \A k, t : KnownBound(k, t)' <=> KnownBound(k, t)
    BY <1>2 DEF KnownBound
  <2>7. ASSUME NEW k \in conf.gateways, NEW r \in Flows, NEW i \in Nat, Binding(k, r, i)'
        PROVE  \/ /\ ~(k = g /\ r = p /\ i = L)
                  /\ Binding(k, r, i) /\ Bound(k, r, i)' = Bound(k, r, i)
                  /\ calls'[k][r][i].msg = calls[k][r][i].msg
               \/ /\ k = g /\ r = p /\ i = L /\ Bound(k, r, i)' = s
                  /\ calls'[k][r][i].msg = c.msg
    BY <2>1, <2>2, <2>3, <2>7 DEF Binding, Bound
  <2>8. BoundIsKnown'
    BY <1>2, <2>5, <2>6 DEF ProxyInv, BoundIsKnown
  <2>9. ~KnownBound(g, s)
    BY <1>5 DEF ProxyInv, BoundIsKnown
  <2>10. BindingIsKnown'
    <3> SUFFICES ASSUME NEW k \in conf.gateways, NEW r \in Flows, NEW i \in Nat, Binding(k, r, i)'
                 PROVE  /\ Known(k, Bound(k, r, i))' /\ ~KnownBound(k, Bound(k, r, i))'
                        /\ calls'[k][r][i].msg.subject = SUBSCRIBE
      BY <1>2 DEF BindingIsKnown
    <3>1. CASE /\ Binding(k, r, i) /\ Bound(k, r, i)' = Bound(k, r, i)
               /\ calls'[k][r][i].msg = calls[k][r][i].msg
      <4>1. /\ Known(k, Bound(k, r, i)) /\ ~KnownBound(k, Bound(k, r, i))
            /\ calls[k][r][i].msg.subject = SUBSCRIBE
        BY <3>1 DEF ProxyInv, BindingIsKnown
      <4>2. Known(k, Bound(k, r, i))'
        <5>1. PICK f \in gecs[k] : f.subject = Bound(k, r, i)
          BY <4>1 DEF Known
        <5>2. f \in gecs'[k] /\ f.subject = Bound(k, r, i)'
          BY <2>4, <3>1, <5>1
        <5> QED BY <5>2 DEF Known, Bound
      <4>3. ~KnownBound(k, Bound(k, r, i))'
        BY <1>2, <3>1, <4>1 DEF KnownBound
      <4> QED BY <3>1, <4>1, <4>2, <4>3
    <3>2. CASE /\ k = g /\ r = p /\ i = L /\ Bound(k, r, i)' = s
               /\ calls'[k][r][i].msg = c.msg
      <4>1. Known(k, Bound(k, r, i))'
        BY <2>4, <3>2 DEF Known
      <4>2. ~KnownBound(k, Bound(k, r, i))'
        BY <1>2, <2>9, <3>2 DEF KnownBound
      <4> QED BY <1>5, <3>2, <4>1, <4>2
    <3> QED BY <2>7, <3>1, <3>2
  <2>11. BindsDiffer'
    <3>1. \A k \in conf.gateways, r \in Flows, i \in Nat :
             Binding(k, r, i) => Known(k, Bound(k, r, i))
      BY DEF ProxyInv, BindingIsKnown
    <3> SUFFICES ASSUME NEW k \in conf.gateways, NEW r \in Flows, NEW t \in Flows,
                        NEW i \in Nat, NEW j \in Nat, Binding(k, r, i)', Binding(k, t, j)',
                        Bound(k, r, i)' = Bound(k, t, j)'
                 PROVE  r = t /\ i = j
      BY <1>2 DEF BindsDiffer
    <3>2. \/ ~(k = g /\ r = p /\ i = L) /\ Binding(k, r, i) /\ Bound(k, r, i)' = Bound(k, r, i)
          \/ k = g /\ r = p /\ i = L /\ Bound(k, r, i)' = s
      BY <2>7
    <3>3. \/ ~(k = g /\ t = p /\ j = L) /\ Binding(k, t, j) /\ Bound(k, t, j)' = Bound(k, t, j)
          \/ k = g /\ t = p /\ j = L /\ Bound(k, t, j)' = s
      BY <2>7
    <3>4. Binding(k, r, i) => Known(k, Bound(k, r, i))
      BY <3>1
    <3>5. Binding(k, t, j) => Known(k, Bound(k, t, j))
      BY <3>1
    <3>6. Binding(k, r, i) /\ Binding(k, t, j) /\ Bound(k, r, i) = Bound(k, t, j)
             => r = t /\ i = j
      BY DEF ProxyInv, BindsDiffer
    <3> QED BY <1>5, <3>2, <3>3, <3>4, <3>5, <3>6
  <2>12. ProxiesDiffer'
    BY <1>2 DEF ProxyInv, ProxiesDiffer
  <2> QED BY <2>8, <2>10, <2>11, <2>12 DEF ProxyInv
<1>6. \/ IsAfter(calls', g, p, SetLast(calls[g][p], PassedCall(g, p))) /\ UNCHANGED gecs
      \/ /\ ~Known(g, s) /\ s \in Subjects
         /\ gecs' = [gecs EXCEPT ![g] = @ \cup {[subject |-> s, to |-> bnl[g]]}]
         /\ c \in Calls /\ c.msg = Call(g, p).msg
         /\ c.binds = [kind |-> "forward", subject |-> s, to |-> bnl[g]]
         /\ IsAfter(calls', g, p, SetLast(calls[g][p], c))
         /\ g \in conf.gateways /\ c.msg.subject = SUBSCRIBE
  BY SubscribeFromNetworkTypes
<1> QED BY <1>4, <1>5, <1>6

LEMMA FinishBindProxy ==
  ASSUME Types, ProxyInv, NEW g \in Nodes, NEW p \in Flows, FinishBind(g, p)
  PROVE  ProxyInv'
<1> DEFINE b == Call(g, p).binds
           s == b.subject
           c == BoundCall(g, p)
           L == Len(calls[g][p])
<1>1. /\ g \in conf.gateways /\ b \in Proxies /\ b \in Channels /\ b # None
      /\ Listen(g, b)
      /\ c \in Calls /\ c.binds = None
      /\ IsAfter(calls', g, p, SetLast(calls[g][p], c))
  BY FinishBindTypes
<1>2. Busy(g, p) /\ UNCHANGED <<conf, gecs>>
  BY DEF FinishBind
<1>3. conf.gateways \subseteq Nodes
  BY Configuration
<1> HIDE DEF c
<1>4. /\ \A k \in Nodes, r \in Flows : \A i \in DOMAIN calls'[k][r] :
           /\ i \in DOMAIN calls[k][r]
           /\ \/ calls'[k][r][i] = calls[k][r][i] /\ ~(k = g /\ r = p /\ i = L)
              \/ k = g /\ r = p /\ i = L /\ calls'[k][r][i] = c
      /\ L \in DOMAIN calls[g][p] /\ calls[g][p][L] = Call(g, p)
  BY <1>1, <1>2, AfterChange
<1>5. L \in Nat /\ Binding(g, p, L) /\ Bound(g, p, L) = s
  <2>1. L \in Nat
    BY <1>2, CallFacts
  <2> QED BY <1>1, <1>4, <2>1 DEF Binding, Bound
<1>6. s \in Subjects /\ Known(g, s) /\ ~KnownBound(g, s) /\ b.kind = "forward"
  BY <1>1, <1>5 DEF ProxyInv, BindingIsKnown, Proxies
<1>7. \A k \in Nodes : \A i \in DOMAIN channels'[k] :
         \/ i \in DOMAIN channels[k] /\ channels'[k][i] = channels[k][i]
         \/ k = g /\ i = Len(channels[k]) + 1 /\ channels'[k][i] = b
  BY <1>1, ListKept
<1> HIDE DEF L, b
<1>8. ASSUME NEW k \in conf.gateways, NEW t, KnownBound(k, t)'
      PROVE  KnownBound(k, t) \/ (k = g /\ t = s)
  BY <1>3, <1>7, <1>8 DEF KnownBound
<1>9. ASSUME NEW k \in conf.gateways, NEW r \in Flows, NEW i \in Nat, Binding(k, r, i)'
      PROVE  /\ ~(k = g /\ r = p /\ i = L)
             /\ Binding(k, r, i) /\ Bound(k, r, i)' = Bound(k, r, i)
             /\ calls'[k][r][i].msg = calls[k][r][i].msg
  BY <1>1, <1>3, <1>4, <1>9 DEF Binding, Bound
<1>10. BoundIsKnown'
  <2> SUFFICES ASSUME NEW k \in conf.gateways, NEW t \in Subjects, KnownBound(k, t)'
               PROVE  Known(k, t)'
    BY <1>2 DEF BoundIsKnown
  <2>1. KnownBound(k, t) \/ (k = g /\ t = s)
    BY <1>8
  <2>2. KnownBound(k, t) => Known(k, t)
    BY DEF ProxyInv, BoundIsKnown
  <2> QED BY <1>2, <1>6, <2>1, <2>2 DEF Known
<1>11. BindingIsKnown'
  <2> SUFFICES ASSUME NEW k \in conf.gateways, NEW r \in Flows, NEW i \in Nat, Binding(k, r, i)'
               PROVE  /\ Known(k, Bound(k, r, i))' /\ ~KnownBound(k, Bound(k, r, i))'
                      /\ calls'[k][r][i].msg.subject = SUBSCRIBE
    BY <1>2 DEF BindingIsKnown
  <2>1. /\ ~(k = g /\ r = p /\ i = L)
        /\ Binding(k, r, i) /\ Bound(k, r, i)' = Bound(k, r, i)
        /\ calls'[k][r][i].msg = calls[k][r][i].msg
    BY <1>9
  <2>2. /\ Known(k, Bound(k, r, i)) /\ ~KnownBound(k, Bound(k, r, i))
        /\ calls[k][r][i].msg.subject = SUBSCRIBE
    BY <2>1 DEF ProxyInv, BindingIsKnown
  <2>3. Known(k, Bound(k, r, i))'
    BY <1>2, <2>1, <2>2 DEF Known
  <2>4. ~KnownBound(k, Bound(k, r, i))'
    <3> SUFFICES ASSUME KnownBound(k, Bound(k, r, i))' PROVE FALSE
      OBVIOUS
    <3>1. k = g /\ Bound(k, r, i) = s
      <4> DEFINE t == Bound(k, r, i)
      <4>1. KnownBound(k, Bound(k, r, i)') => KnownBound(k, Bound(k, r, i))
        BY <2>1
      <4>2. ~(\E j \in DOMAIN channels[k] :
                 channels[k][j].kind = "forward" /\ channels[k][j].subject = t)
        BY <2>2 DEF KnownBound
      <4>3. \E j \in DOMAIN channels'[k] :
                 channels'[k][j].kind = "forward" /\ channels'[k][j].subject = t
        BY <2>1 DEF KnownBound
      <4> HIDE DEF t
      <4>4. k = g /\ t = s
        BY <1>3, <1>7, <4>2, <4>3
      <4> QED BY <4>4 DEF t
    <3>2. r = p /\ i = L
      BY <1>5, <2>1, <3>1 DEF ProxyInv, BindsDiffer
    <3> QED BY <2>1, <3>1, <3>2
  <2> QED BY <2>1, <2>2, <2>3, <2>4
<1>12. BindsDiffer'
  <2> SUFFICES ASSUME NEW k \in conf.gateways, NEW r \in Flows, NEW t \in Flows,
                      NEW i \in Nat, NEW j \in Nat, Binding(k, r, i)', Binding(k, t, j)',
                      Bound(k, r, i)' = Bound(k, t, j)'
               PROVE  r = t /\ i = j
    BY <1>2 DEF BindsDiffer
  <2>1. Binding(k, r, i) /\ Bound(k, r, i)' = Bound(k, r, i)
    BY <1>9
  <2>2. Binding(k, t, j) /\ Bound(k, t, j)' = Bound(k, t, j)
    BY <1>9
  <2> QED BY <2>1, <2>2 DEF ProxyInv, BindsDiffer
<1>13. ProxiesDiffer'
  <2> SUFFICES ASSUME NEW k \in conf.gateways,
                      NEW i \in DOMAIN channels'[k], NEW j \in DOMAIN channels'[k],
                      channels'[k][i].subject = channels'[k][j].subject,
                      channels'[k][i].kind = "forward", channels'[k][j].kind = "forward"
               PROVE  i = j
    BY <1>2 DEF ProxiesDiffer
  <2>1. \/ i \in DOMAIN channels[k] /\ channels'[k][i] = channels[k][i]
        \/ k = g /\ i = Len(channels[k]) + 1 /\ channels'[k][i] = b
    BY <1>3, <1>7
  <2>2. \/ j \in DOMAIN channels[k] /\ channels'[k][j] = channels[k][j]
        \/ k = g /\ j = Len(channels[k]) + 1 /\ channels'[k][j] = b
    BY <1>3, <1>7
  <2>3. \A l \in DOMAIN channels[g] :
           ~(channels[g][l].kind = "forward" /\ channels[g][l].subject = s)
    BY <1>6 DEF KnownBound
  <2> QED BY <2>1, <2>2, <2>3 DEF ProxyInv, ProxiesDiffer
<1> QED BY <1>10, <1>11, <1>12, <1>13 DEF ProxyInv

LEMMA BindsKeptBy ==
  ASSUME Types, [Next]_vars
  PROVE  BindsKept \/ \E n \in Nodes, p \in Flows : SubscribeFromNetwork(n, p)
<1>1. UNCHANGED calls => BindsKept
  BY DEF BindsKept
<1>2. ASSUME NEW n \in Nodes, NEW e \in Events, Publish(n, e) PROVE BindsKept
  <2> DEFINE c == NewCall(None, Message(e))
  <2>1. c \in Calls /\ c.binds = None /\ "main" \in Flows
    BY MessageFacts, NewCallFacts DEF Flows
  <2> HIDE DEF c
  <2>2. IsAfter(calls', n, "main", Append(calls[n]["main"], c))
    BY <1>2, PublishTypes DEF c
  <2>3. \A k \in Nodes, r \in Flows : \A i \in DOMAIN calls'[k][r] :
           \/ i \in DOMAIN calls[k][r] /\ calls'[k][r][i] = calls[k][r][i]
           \/ calls'[k][r][i] = c
    BY <2>1, <2>2, AfterEntering
  <2> QED BY <2>1, <2>3 DEF BindsKept
<1>3. ASSUME NEW n \in Nodes, NEW w \in Networks, Receive(n, w) PROVE BindsKept
  <2> DEFINE c == NewCall(w, Head(inbox[n][w]))
  <2>1. c \in Calls /\ c.binds = None /\ "rx" \in Flows
    BY <1>3, ReceiveTypes, NewCallFacts DEF Flows
  <2> HIDE DEF c
  <2>2. IsAfter(calls', n, "rx", Append(calls[n]["rx"], c)) \/ UNCHANGED calls
    BY <1>3, ReceiveTypes DEF c
  <2>3. CASE IsAfter(calls', n, "rx", Append(calls[n]["rx"], c))
    <3>1. \A k \in Nodes, r \in Flows : \A i \in DOMAIN calls'[k][r] :
             \/ i \in DOMAIN calls[k][r] /\ calls'[k][r][i] = calls[k][r][i]
             \/ calls'[k][r][i] = c
      BY <2>1, <2>3, AfterEntering
    <3> QED BY <2>1, <3>1 DEF BindsKept
  <2> QED BY <1>1, <2>2, <2>3
<1>4. ASSUME NEW n \in Nodes, NEW p \in Flows, NEW c \in Calls, c.binds = None, Busy(n, p),
             IsAfter(calls', n, p, SetLast(calls[n][p], c))
      PROVE  BindsKept
  <2>1. \A k \in Nodes, r \in Flows : \A i \in DOMAIN calls'[k][r] :
           /\ i \in DOMAIN calls[k][r]
           /\ calls'[k][r][i] = calls[k][r][i] \/ calls'[k][r][i] = c
    BY <1>4, AfterChange
  <2> QED BY <1>4, <2>1 DEF BindsKept
<1>5. ASSUME NEW n \in Nodes, NEW p \in Flows, Notify(n, p) PROVE BindsKept
  <2> DEFINE c == PassedCall(n, p)
  <2>1. Busy(n, p) /\ c \in Calls /\ c.binds = None
    <3>1. AtCallback(n, p, "app")
      BY <1>5 DEF Notify
    <3> QED BY <3>1, CallbackFacts
  <2>2. \/ IsAfter(calls', n, p, SetLast(calls[n][p], c))
        \/ \E f \in Events : IsAfter(calls', n, p,
                Append(SetLast(calls[n][p], c), NewCall(None, Message(f))))
    BY <1>5, NotifyTypes
  <2> HIDE DEF c
  <2>3. ASSUME NEW f \in Events,
               IsAfter(calls', n, p, Append(SetLast(calls[n][p], c), NewCall(None, Message(f))))
        PROVE  BindsKept
    <3> DEFINE d == NewCall(None, Message(f))
    <3>1. d \in Calls /\ d.binds = None
      BY MessageFacts, NewCallFacts
    <3> HIDE DEF d
    <3>2. IsAfter(calls', n, p, Append(SetLast(calls[n][p], c), d))
      BY <2>3 DEF d
    <3>3. \A k \in Nodes, r \in Flows : \A i \in DOMAIN calls'[k][r] :
             \/ /\ i \in DOMAIN calls[k][r]
                /\ calls'[k][r][i] = calls[k][r][i] \/ calls'[k][r][i] = c
             \/ calls'[k][r][i] = d
      BY <2>1, <3>1, <3>2, AfterReacting
    <3> QED BY <2>1, <3>1, <3>3 DEF BindsKept
  <2> QED BY <1>4, <2>1, <2>2, <2>3
<1>6. ASSUME NEW n \in Nodes, NEW p \in Flows, FinishBind(n, p) PROVE BindsKept
  <2>1. Busy(n, p)
    BY <1>6 DEF FinishBind
  <2> QED BY <1>4, <1>6, <2>1, FinishBindTypes
<1>7. ASSUME NEW n \in Nodes, NEW p \in Flows, Forward(n, p) PROVE BindsKept
  <2>1. Busy(n, p) /\ PassedCall(n, p) \in Calls /\ PassedCall(n, p).binds = None
    <3>1. AtCallback(n, p, "forward")
      BY <1>7 DEF Forward
    <3> QED BY <3>1, CallbackFacts
  <2> QED BY <1>4, <1>7, <2>1, ForwardTypes
<1>8. ASSUME NEW n \in Nodes, NEW p \in Flows, Return(n, p) PROVE BindsKept
  <2>1. Busy(n, p) /\ IsAfter(calls', n, p, Front(calls[n][p]))
    BY <1>8, ReturnTypes
  <2>2. \A k \in Nodes, r \in Flows : \A i \in DOMAIN calls'[k][r] :
           i \in DOMAIN calls[k][r] /\ calls'[k][r][i] = calls[k][r][i]
    BY <2>1, AfterLeaving
  <2> QED BY <2>2 DEF BindsKept
<1>9. CASE UNCHANGED vars
  BY <1>1, <1>9 DEF vars
<1>10. ASSUME Next PROVE BindsKept \/ \E n \in Nodes, p \in Flows : SubscribeFromNetwork(n, p)
  <2>1. (\E g \in conf.gateways : StartGateway(g)) => UNCHANGED calls
    BY DEF StartGateway
  <2>2. (\E n \in Nodes, s \in Subjects : Subscribe(n, s)) => UNCHANGED calls
    BY DEF Subscribe
  <2> QED BY <1>1, <1>2, <1>3, <1>5, <1>6, <1>7, <1>8, <1>10, <2>1, <2>2, Steps
<1> QED BY <1>9, <1>10

LEMMA ForwardsKeptBy ==
  ASSUME Types, [Next]_vars
  PROVE  ForwardsKept \/ \E n \in Nodes, p \in Flows : FinishBind(n, p)
<1>1. UNCHANGED channels => ForwardsKept
  BY DEF ForwardsKept
<1>2. ASSUME NEW g \in conf.gateways, StartGateway(g) PROVE ForwardsKept
  <2>1. [kind |-> "gateway", subject |-> SUBSCRIBE] \in Channels
    BY DEF Channels
  <2> QED BY <1>2, <2>1, StartGatewayTypes, ListenKeepsForwards
<1>3. ASSUME NEW n \in Nodes, NEW s \in Subjects, Subscribe(n, s) PROVE ForwardsKept
  <2>1. [kind |-> "app", subject |-> s] \in Channels
    BY DEF Channels
  <2> QED BY <1>3, <2>1, SubscribeTypes, ListenKeepsForwards
<1>4. CASE UNCHANGED vars
  BY <1>1, <1>4 DEF vars
<1>5. CASE Next
  BY <1>1, <1>2, <1>3, <1>5, Steps
     DEF Publish, Receive, Notify, SubscribeFromNetwork, Forward, Return
<1> QED BY <1>4, <1>5

LEMMA ProxyKept == Types /\ ProxyInv /\ [Next]_vars => ProxyInv'
<1> SUFFICES ASSUME Types, ProxyInv, [Next]_vars PROVE ProxyInv'
  OBVIOUS
<1>1. CASE \E n \in Nodes, p \in Flows : SubscribeFromNetwork(n, p)
  BY <1>1, SubscribeFromNetworkProxy
<1>2. CASE \E n \in Nodes, p \in Flows : FinishBind(n, p)
  BY <1>2, FinishBindProxy
<1>3. CASE /\ ~\E n \in Nodes, p \in Flows : SubscribeFromNetwork(n, p)
           /\ ~\E n \in Nodes, p \in Flows : FinishBind(n, p)
  <2>1. BindsKept /\ ForwardsKept
    BY <1>3, BindsKeptBy, ForwardsKeptBy
  <2>2. UNCHANGED <<conf, gecs>>
    BY <1>3, Steps
       DEF vars, StartGateway, Subscribe, Publish, Receive, Notify, Forward, Return
  <2> QED BY <2>1, <2>2, ProxyQuiet
<1> QED BY <1>1, <1>2, <1>3

LEMMA InitProxy == Init => ProxyInv
<1> SUFFICES ASSUME Init PROVE ProxyInv
  OBVIOUS
<1>1. \A n \in Nodes : DOMAIN channels[n] = {} /\ \A p \in Flows : DOMAIN calls[n][p] = {}
  BY EmptySeq DEF Init
<1>2. conf.gateways \subseteq Nodes
  BY InitTypes, Configuration
<1> QED BY <1>1, <1>2 DEF ProxyInv, BoundIsKnown, BindingIsKnown, BindsDiffer, ProxiesDiffer,
                          KnownBound, Binding

\* "Only one proxy per subject on a network" (GatewayEventChannel): the list of a
\* gateway never has two forward channels of a subject, although a subscription
\* may come while its subject is being bound.
THEOREM OneProxyPerSubject == Spec => []OneProxy
<1>1. Types /\ ProxyInv => OneProxy
  <2> SUFFICES ASSUME Types, ProxyInv, NEW g \in Gateways,
                      NEW i \in DOMAIN channels[g], NEW j \in DOMAIN channels[g],
                      channels[g][i].subject = channels[g][j].subject,
                      channels[g][i].kind = "forward", channels[g][j].kind = "forward"
               PROVE  i = j
    BY DEF OneProxy
  <2>1. g \in conf.gateways
    BY Configuration DEF Types
  <2> QED BY <2>1 DEF ProxyInv, ProxiesDiffer
<1> QED BY <1>1, InitTypes, InitProxy, TypesKept, ProxyKept, PTL DEF Spec

-----------------------------------------------------------------------------
(* The flows of control of a node.  bnl of a gateway is the network of the *)
(* event that its receive context processes: only a call about a           *)
(* subscription lets the next packet in.                                   *)

RxStack(q, b) ==
    /\ q = <<>> => b = None
    /\ \A i \in DOMAIN q : q[i].net # None
    /\ \A i \in DOMAIN q : i # Len(q) => q[i].msg.subject = SUBSCRIBE
    /\ q # <<>> /\ Last(q).msg.subject # SUBSCRIBE => b = Last(q).net
MainStack(q) == \A i \in DOMAIN q : q[i].net = None

RxInv == \A g \in conf.gateways : RxStack(calls[g]["rx"], bnl[g])
MainInv == \A n \in Nodes : MainStack(calls[n]["main"])
IdleInv == conf.threads => \A g \in conf.gateways : ~Busy(g, "main")

\* All a node deals with is of its own networks.
OnInv ==
    /\ \A n \in Nodes, w \in Networks : w \notin conf.on[n] => inbox[n][w] = <<>>
    /\ \A n \in Nodes : bnl[n] \in conf.on[n] \cup {None}
    /\ \A n \in Nodes : \A i \in DOMAIN channels[n] :
          channels[n][i].kind = "forward" => channels[n][i].to \in conf.on[n]
    /\ \A n \in Nodes, p \in Flows : \A i \in DOMAIN calls[n][p] :
          calls[n][p][i].binds # None => calls[n][p][i].binds.to \in conf.on[n]

OneApp == \A n \in Nodes : \A i, j \in DOMAIN channels[n] :
    channels[n][i].kind = "app" /\ channels[n][j].kind = "app"
    /\ channels[n][i].subject = channels[n][j].subject => i = j

FlowInv == RxInv /\ MainInv /\ IdleInv /\ OnInv /\ OneApp

LEMMA StackEntered ==
  ASSUME NEW q \in Seq(Calls), NEW c \in Calls
  PROVE  /\ c.net # None /\ (q # <<>> => Last(q).msg.subject = SUBSCRIBE)
              /\ (\E b : RxStack(q, b)) => RxStack(Append(q, c), c.net)
         /\ c.net = None /\ MainStack(q) => MainStack(Append(q, c))
<1> DEFINE a == Append(q, c)
<1>1. /\ Len(q) \in Nat /\ Len(a) = Len(q) + 1 /\ DOMAIN q = 1 .. Len(q)
      /\ DOMAIN a = 1 .. Len(q) + 1
      /\ \A i \in 1 .. Len(q) : a[i] = q[i]
      /\ a[Len(q) + 1] = c /\ a # <<>>
  BY Appended
<1>2. \A i \in 1 .. Len(q) + 1 : i \in 1 .. Len(q) \/ i = Len(q) + 1
  BY <1>1
<1>3. Last(q) = q[Len(q)] /\ Last(a) = c
  BY <1>1 DEF Last
<1> HIDE DEF a
<1>4. ASSUME c.net # None, q # <<>> => Last(q).msg.subject = SUBSCRIBE,
             \E b : RxStack(q, b)
      PROVE  RxStack(a, c.net)
  <2>1. \A i \in 1 .. Len(q) : q[i].msg.subject = SUBSCRIBE /\ q[i].net # None
    <3> TAKE i \in 1 .. Len(q)
    <3>1. q # <<>> /\ Len(q) \in 1 .. Len(q)
      BY <1>1, EmptySeq
    <3>2. PICK b : RxStack(q, b)
      BY <1>4
    <3> QED BY <1>1, <1>3, <1>4, <3>1, <3>2 DEF RxStack
  <2>2. \A i \in 1 .. Len(q) + 1 : a[i].net # None
    BY <1>1, <1>2, <1>4, <2>1
  <2>3. \A i \in 1 .. Len(q) + 1 : i # Len(q) + 1 => a[i].msg.subject = SUBSCRIBE
    BY <1>1, <1>2, <2>1
  <2> QED BY <1>1, <1>3, <2>2, <2>3 DEF RxStack
<1>5. c.net = None /\ MainStack(q) => MainStack(a)
  BY <1>1, <1>2 DEF MainStack
<1> QED BY <1>4, <1>5 DEF a

LEMMA StackChanged ==
  ASSUME NEW q \in Seq(Calls), q # <<>>, NEW c \in Calls, c.net = Last(q).net, c.msg = Last(q).msg
  PROVE  /\ \A b : RxStack(q, b) => RxStack(SetLast(q, c), b)
         /\ MainStack(q) => MainStack(SetLast(q, c))
<1> DEFINE a == SetLast(q, c)
<1>1. /\ Len(q) \in Nat \ {0} /\ DOMAIN q = 1 .. Len(q) /\ Len(q) \in DOMAIN q /\ Last(q) = q[Len(q)]
      /\ Len(a) = Len(q) /\ DOMAIN a = 1 .. Len(q) /\ a[Len(q)] = c /\ a # <<>>
      /\ \A i \in 1 .. Len(q) : i # Len(q) => a[i] = q[i]
  BY LastOne
<1>2. Last(a) = c
  BY <1>1 DEF Last
<1> HIDE DEF a
<1>3. \A i \in 1 .. Len(q) : a[i].net = q[i].net /\ a[i].msg = q[i].msg
  <2> TAKE i \in 1 .. Len(q)
  <2>1. CASE i = Len(q)
    BY <1>1, <2>1
  <2>2. CASE i # Len(q)
    BY <1>1, <2>2
  <2> QED BY <2>1, <2>2
<1>4. MainStack(q) => MainStack(a)
  BY <1>1, <1>3 DEF MainStack
<1>5. ASSUME NEW b, RxStack(q, b) PROVE RxStack(a, b)
  BY <1>1, <1>2, <1>3, <1>5 DEF RxStack
<1> QED BY <1>4, <1>5 DEF a

LEMMA StackLeft ==
  ASSUME NEW q \in Seq(Calls), q # <<>>
  PROVE  /\ (\E b : RxStack(q, b)) => RxStack(Front(q), None)
         /\ MainStack(q) => MainStack(Front(q))
<1> DEFINE a == Front(q)
<1>1. /\ Len(q) \in Nat \ {0} /\ DOMAIN q = 1 .. Len(q) /\ Len(a) = Len(q) - 1
      /\ DOMAIN a = 1 .. Len(q) - 1 /\ a \in Seq(Calls)
      /\ \A i \in 1 .. Len(q) - 1 : i \in 1 .. Len(q) /\ a[i] = q[i]
  BY FrontOne
<1> HIDE DEF a
<1>2. MainStack(q) => MainStack(a)
  BY <1>1 DEF MainStack
<1>3. ASSUME NEW b, RxStack(q, b) PROVE RxStack(a, None)
  <2>1. \A i \in 1 .. Len(q) - 1 : a[i].net # None /\ a[i].msg.subject = SUBSCRIBE
    <3> TAKE i \in 1 .. Len(q) - 1
    <3>1. Len(q) \in Nat \ {0}
      BY <1>1
    <3>2. i # Len(q)
      BY <3>1
    <3>3. i \in 1 .. Len(q) /\ a[i] = q[i]
      BY <1>1
    <3> QED BY <1>1, <1>3, <3>2, <3>3 DEF RxStack
  <2>2. a # <<>> => Last(a) = a[Len(q) - 1] /\ Len(q) - 1 \in 1 .. Len(q) - 1
    <3>1. Last(a) = a[Len(q) - 1]
      BY <1>1 DEF Last
    <3>2. a # <<>> => Len(a) # 0
      BY <1>1, EmptySeq
    <3> QED BY <1>1, <3>1, <3>2
  <2> QED BY <1>1, <2>1, <2>2 DEF RxStack
<1> QED BY <1>2, <1>3 DEF a

\* No gateway runs an application that publishes while it forwards, and no event
\* has two ways.
WellFormed == \A c \in Configs : LoopFree(c) /\ Undisturbed(c)

LEMMA OnKept ==
  ASSUME Types, OnInv, [Next]_vars
  PROVE  OnInv'
<1>1. UNCHANGED conf
  BY Steps DEF vars, StartGateway, Subscribe, Publish, Receive, Notify, SubscribeFromNetwork,
               FinishBind, Forward, Return
<1>2. ASSUME NEW n \in Nodes, NEW w \in Networks, w \notin conf.on[n]
      PROVE  inbox'[n][w] = <<>>
  <2>1. inbox[n][w] = <<>>
    BY <1>2 DEF OnInv
  <2>2. ASSUME NEW k \in Nodes, NEW nets, NEW m \in Messages, Write(k, nets, m)
        PROVE  inbox'[n][w] = <<>>
    BY <1>2, <2>1, <2>2, WriteFacts
  <2>3. UNCHANGED inbox => inbox'[n][w] = <<>>
    BY <2>1
  <2>4. ASSUME NEW k \in Nodes, NEW c \in Channels, Listen(k, c)
        PROVE  inbox'[n][w] = <<>>
    BY <2>2, <2>4, ListenFacts
  <2>5. ASSUME NEW g \in conf.gateways, StartGateway(g) PROVE inbox'[n][w] = <<>>
    <3>1. [kind |-> "gateway", subject |-> SUBSCRIBE] \in Channels
      BY DEF Channels
    <3> QED BY <2>4, <2>5, <3>1, StartGatewayTypes
  <2>6. ASSUME NEW k \in Nodes, NEW s \in Subjects, Subscribe(k, s) PROVE inbox'[n][w] = <<>>
    <3>1. [kind |-> "app", subject |-> s] \in Channels
      BY DEF Channels
    <3> QED BY <2>4, <2>6, <3>1, SubscribeTypes
  <2>7. ASSUME NEW k \in Nodes, NEW e \in Events, Publish(k, e) PROVE inbox'[n][w] = <<>>
    <3>1. Write(k, conf.on[k], Message(e))
      BY <2>7 DEF Publish, Publishes
    <3> QED BY <2>2, <3>1, MessageFacts
  <2>8. ASSUME NEW k \in Nodes, NEW v \in Networks, Receive(k, v) PROVE inbox'[n][w] = <<>>
    BY <2>1, <2>8, ReceiveTypes
  <2>9. ASSUME NEW k \in Nodes, NEW p \in Flows, Notify(k, p) PROVE inbox'[n][w] = <<>>
    BY <2>2, <2>3, <2>9, NotifyTypes, MessageFacts
  <2>10. ASSUME NEW k \in Nodes, NEW p \in Flows, FinishBind(k, p) PROVE inbox'[n][w] = <<>>
    BY <2>4, <2>10, FinishBindTypes
  <2>11. ASSUME NEW k \in Nodes, NEW p \in Flows, Forward(k, p) PROVE inbox'[n][w] = <<>>
    BY <2>2, <2>3, <2>11, ForwardTypes, MessageFacts
  <2>12. UNCHANGED vars => UNCHANGED inbox
    BY DEF vars
  <2> QED BY <2>3, <2>5, <2>6, <2>7, <2>8, <2>9, <2>10, <2>11, <2>12, Steps
             DEF SubscribeFromNetwork, Return
<1>3. ASSUME NEW n \in Nodes PROVE bnl'[n] \in conf.on[n] \cup {None}
  <2>1. bnl[n] \in conf.on[n] \cup {None} /\ bnl \in [Nodes -> Networks \cup {None}]
    BY DEF OnInv, Types
  <2>2. ASSUME NEW k \in Nodes, NEW w \in Networks, Receive(k, w)
        PROVE  bnl'[n] \in conf.on[n] \cup {None}
    <3>1. inbox[k][w] # <<>>
      BY <2>2 DEF Receive
    <3>2. w \in conf.on[k]
      BY <3>1 DEF OnInv
    <3>3. bnl' = [bnl EXCEPT ![k] = w] \/ bnl' = [bnl EXCEPT ![k] = None]
      BY <2>2 DEF Receive
    <3> QED BY <2>1, <3>2, <3>3
  <2>3. ASSUME NEW k \in Nodes, NEW p \in Flows, Return(k, p)
        PROVE  bnl'[n] \in conf.on[n] \cup {None}
    <3>1. bnl' = bnl \/ bnl' = [bnl EXCEPT ![k] = None]
      BY <2>3 DEF Return
    <3> QED BY <2>1, <3>1
  <2> QED BY <2>1, <2>2, <2>3, Steps
             DEF vars, StartGateway, Subscribe, Publish, Notify, SubscribeFromNetwork,
                 FinishBind, Forward
<1>4. ASSUME NEW n \in Nodes, NEW i \in DOMAIN channels'[n], channels'[n][i].kind = "forward"
      PROVE  channels'[n][i].to \in conf.on[n]
  <2>1. CASE ForwardsKept
    BY <1>4, <2>1 DEF ForwardsKept, OnInv
  <2>2. ASSUME NEW g \in Nodes, NEW p \in Flows, FinishBind(g, p)
        PROVE  channels'[n][i].to \in conf.on[n]
    <3> DEFINE b == Call(g, p).binds
    <3>1. b \in Channels /\ b # None /\ Listen(g, b)
      BY <2>2, FinishBindTypes
    <3>2. b.to \in conf.on[g]
      <4>1. Busy(g, p)
        BY <2>2 DEF FinishBind
      <4>2. /\ Len(calls[g][p]) \in Nat \ {0} /\ DOMAIN calls[g][p] = 1 .. Len(calls[g][p])
            /\ Call(g, p) = calls[g][p][Len(calls[g][p])]
        BY <4>1, CallFacts
      <4>3. Len(calls[g][p]) \in DOMAIN calls[g][p]
        BY <4>2
      <4> QED BY <3>1, <4>2, <4>3 DEF OnInv
    <3> HIDE DEF b
    <3>3. \/ i \in DOMAIN channels[n] /\ channels'[n][i] = channels[n][i]
          \/ n = g /\ channels'[n][i] = b
      BY <3>1, ListKept
    <3> QED BY <1>4, <3>2, <3>3 DEF OnInv
  <2> QED BY <2>1, <2>2, ForwardsKeptBy
<1>5. ASSUME NEW n \in Nodes, NEW r \in Flows, NEW i \in DOMAIN calls'[n][r],
             calls'[n][r][i].binds # None
      PROVE  calls'[n][r][i].binds.to \in conf.on[n]
  <2>1. CASE BindsKept
    BY <1>5, <2>1 DEF BindsKept, OnInv
  <2>2. ASSUME NEW g \in Nodes, NEW p \in Flows, SubscribeFromNetwork(g, p)
        PROVE  calls'[n][r][i].binds.to \in conf.on[n]
    <3>1. Busy(g, p) /\ PassedCall(g, p) \in Calls /\ PassedCall(g, p).binds = None
      <4>1. AtCallback(g, p, "gateway")
        BY <2>2 DEF SubscribeFromNetwork
      <4> QED BY <4>1, CallbackFacts
    <3>2. PICK c \in Calls : /\ c.binds = None \/ (c.binds.to = bnl[g] /\ bnl[g] \in Networks)
                             /\ IsAfter(calls', g, p, SetLast(calls[g][p], c))
      <4>1. CASE IsAfter(calls', g, p, SetLast(calls[g][p], PassedCall(g, p)))
        BY <3>1, <4>1
      <4>2. CASE /\ BindingCall(g, p) \in Calls
                 /\ bnl[g] \in Networks
                 /\ BindingCall(g, p).binds =
                        [kind |-> "forward", subject |-> Call(g, p).msg.about, to |-> bnl[g]]
                 /\ IsAfter(calls', g, p, SetLast(calls[g][p], BindingCall(g, p)))
        <5> DEFINE c == BindingCall(g, p)
        <5>1. c.binds.to = bnl[g]
          BY <4>2
        <5>2. c \in Calls /\ bnl[g] \in Networks /\ IsAfter(calls', g, p, SetLast(calls[g][p], c))
          BY <4>2
        <5> HIDE DEF c
        <5> QED BY <5>1, <5>2
      <4> QED BY <2>2, <4>1, <4>2, SubscribeFromNetworkTypes
    <3>3. /\ i \in DOMAIN calls[n][r]
          /\ calls'[n][r][i] = calls[n][r][i] \/ (n = g /\ calls'[n][r][i] = c)
      BY <3>1, <3>2, AfterChange
    <3>4. bnl[g] \in Networks => bnl[g] \in conf.on[g]
      BY Configuration DEF OnInv
    <3> QED BY <1>5, <3>2, <3>3, <3>4 DEF OnInv
  <2> QED BY <2>1, <2>2, BindsKeptBy
<1> QED BY <1>1, <1>2, <1>3, <1>4, <1>5 DEF OnInv

\* A node has one channel of the application for a subject.
LEMMA OneAppKept ==
  ASSUME Types, OneApp, [Next]_vars
  PROVE  OneApp'
<1>1. ASSUME \A k \in Nodes : \A i \in DOMAIN channels'[k] : channels'[k][i].kind = "app" =>
                 i \in DOMAIN channels[k] /\ channels'[k][i] = channels[k][i]
      PROVE  OneApp'
  BY <1>1 DEF OneApp
<1>2. ASSUME NEW n \in Nodes, NEW c \in Channels, Listen(n, c), c.kind # "app"
      PROVE  OneApp'
  BY <1>1, <1>2, ListKept
<1>3. UNCHANGED channels => OneApp'
  BY <1>1
<1>4. ASSUME NEW g \in conf.gateways, StartGateway(g) PROVE OneApp'
  <2>1. [kind |-> "gateway", subject |-> SUBSCRIBE] \in Channels
    BY DEF Channels
  <2> QED BY <1>2, <1>4, <2>1, StartGatewayTypes
<1>5. ASSUME NEW n \in Nodes, NEW s \in Subjects, Subscribe(n, s) PROVE OneApp'
  <2> DEFINE c == [kind |-> "app", subject |-> s]
  <2>1. c \in Channels /\ c.subject = s /\ Listen(n, c) /\ ~Has(n, s)
    BY <1>5, SubscribeTypes DEF Channels, Subscribe
  <2>2. \A i \in DOMAIN channels[n] : channels[n][i].kind = "app" => channels[n][i].subject # s
    <3> SUFFICES ASSUME NEW i \in DOMAIN channels[n], channels[n][i].kind = "app",
                        channels[n][i].subject = s
                 PROVE  FALSE
      OBVIOUS
    <3>1. channels[n][i] \in Channels
      BY ElementOfSeq, LenProperties DEF Types
    <3>2. channels[n][i] = c
      BY <3>1 DEF Channels, Proxies
    <3> QED BY <2>1, <3>2 DEF Has
  <2> HIDE DEF c
  <2>3. \A k \in Nodes : \A i \in DOMAIN channels'[k] :
           \/ i \in DOMAIN channels[k] /\ channels'[k][i] = channels[k][i]
           \/ k = n /\ i = Len(channels[k]) + 1 /\ channels'[k][i] = c
    BY <2>1, ListKept
  <2> SUFFICES ASSUME NEW k \in Nodes, NEW i \in DOMAIN channels'[k], NEW j \in DOMAIN channels'[k],
                      channels'[k][i].kind = "app", channels'[k][j].kind = "app",
                      channels'[k][i].subject = channels'[k][j].subject
               PROVE  i = j
    BY DEF OneApp
  <2>4. \/ i \in DOMAIN channels[k] /\ channels'[k][i] = channels[k][i]
        \/ k = n /\ i = Len(channels[k]) + 1 /\ channels'[k][i] = c
    BY <2>3
  <2>5. \/ j \in DOMAIN channels[k] /\ channels'[k][j] = channels[k][j]
        \/ k = n /\ j = Len(channels[k]) + 1 /\ channels'[k][j] = c
    BY <2>3
  <2> QED BY <2>1, <2>2, <2>4, <2>5 DEF OneApp
<1>6. ASSUME NEW g \in Nodes, NEW p \in Flows, FinishBind(g, p) PROVE OneApp'
  <2>1. Call(g, p).binds \in Channels /\ Call(g, p).binds \in Proxies /\ Listen(g, Call(g, p).binds)
    BY <1>6, FinishBindTypes
  <2>2. Call(g, p).binds.kind # "app"
    BY <2>1 DEF Proxies
  <2> QED BY <1>2, <2>1, <2>2
<1> QED BY <1>3, <1>4, <1>5, <1>6, Steps
           DEF vars, Publish, Receive, Notify, SubscribeFromNetwork, Forward, Return

\* A step of one flow.
LEMMA OneFlow ==
  ASSUME Types, FlowInv, UNCHANGED conf, NEW n \in Nodes, NEW p \in Flows, Others(n, p),
         \A k \in Nodes : k # n => bnl'[k] = bnl[k],
         p = "rx" /\ n \in conf.gateways => RxStack(calls'[n]["rx"], bnl'[n]),
         p = "main" => /\ bnl'[n] = bnl[n] /\ MainStack(calls'[n]["main"])
                       /\ conf.threads /\ n \in conf.gateways => calls'[n]["main"] = <<>>
  PROVE  RxInv' /\ MainInv' /\ IdleInv'
<1>1. conf.gateways \subseteq Nodes /\ Flows = {"main", "rx"} /\ "main" # "rx"
  BY Configuration DEF Flows
<1>2. ASSUME NEW g \in conf.gateways PROVE RxStack(calls'[g]["rx"], bnl'[g])
  <2>1. RxStack(calls[g]["rx"], bnl[g])
    BY DEF FlowInv, RxInv
  <2>2. CASE g = n /\ p = "rx"
    BY <2>2
  <2>3. CASE g # n \/ p # "rx"
    <3>1. calls'[g]["rx"] = calls[g]["rx"]
      BY <1>1, <2>3 DEF Others
    <3>2. bnl'[g] = bnl[g]
      BY <1>1, <2>3
    <3> QED BY <2>1, <3>1, <3>2
  <2> QED BY <2>2, <2>3
<1>3. ASSUME NEW k \in Nodes PROVE MainStack(calls'[k]["main"])
  <2>1. MainStack(calls[k]["main"])
    BY DEF FlowInv, MainInv
  <2>2. (k = n /\ p = "main") \/ calls'[k]["main"] = calls[k]["main"]
    BY <1>1 DEF Others
  <2> QED BY <2>1, <2>2
<1>4. ASSUME conf.threads, NEW g \in conf.gateways PROVE calls'[g]["main"] = <<>>
  <2>1. calls[g]["main"] = <<>>
    BY <1>4 DEF FlowInv, IdleInv, Busy
  <2>2. (g = n /\ p = "main") \/ calls'[g]["main"] = calls[g]["main"]
    BY <1>1 DEF Others
  <2> QED BY <1>4, <2>1, <2>2
<1>5. RxInv'
  BY <1>2 DEF RxInv
<1>6. MainInv'
  BY <1>3 DEF MainInv
<1>7. IdleInv'
  BY <1>4 DEF IdleInv, Busy
<1> QED BY <1>5, <1>6, <1>7

\* The innermost call goes on.
LEMMA FlowChanged ==
  ASSUME Types, FlowInv, UNCHANGED <<conf, bnl>>, NEW n \in Nodes, NEW p \in Flows, Busy(n, p),
         NEW c \in Calls, c.net = Call(n, p).net, c.msg = Call(n, p).msg,
         IsAfter(calls', n, p, SetLast(calls[n][p], c))
  PROVE  RxInv' /\ MainInv' /\ IdleInv'
<1> DEFINE q == calls[n][p]
<1>1. q \in Seq(Calls) /\ q # <<>> /\ Last(q) = Call(n, p)
  BY CallFacts DEF Call
<1>2. Others(n, p) /\ calls'[n][p] = SetLast(q, c)
  BY DEF Others, IsAfter
<1> HIDE DEF q
<1>3. /\ \A b : RxStack(q, b) => RxStack(SetLast(q, c), b)
      /\ MainStack(q) => MainStack(SetLast(q, c))
  BY <1>1, StackChanged
<1>4. p = "rx" /\ n \in conf.gateways => RxStack(calls'[n]["rx"], bnl'[n])
  BY <1>2, <1>3 DEF FlowInv, RxInv, q
<1>5. p = "main" => bnl'[n] = bnl[n] /\ MainStack(calls'[n]["main"])
  BY <1>2, <1>3 DEF FlowInv, MainInv, q
<1>6. p = "main" => ~(conf.threads /\ n \in conf.gateways)
  BY DEF FlowInv, IdleInv
<1> QED BY <1>2, <1>4, <1>5, <1>6, OneFlow

LEMMA FlowPublish ==
  ASSUME WellFormed, Types, FlowInv, NEW n \in Nodes, NEW e \in Events, Publish(n, e)
  PROVE  RxInv' /\ MainInv' /\ IdleInv'
<1> DEFINE q == calls[n]["main"]
           c == NewCall(None, Message(e))
<1>1. "main" \in Flows /\ "main" # "rx" /\ UNCHANGED <<conf, bnl>> /\ <<n, e>> \in conf.publishes
  BY DEF Flows, Publish
<1>2. q \in Seq(Calls) /\ c \in Calls /\ c.net = None
  BY <1>1, Itself, MessageFacts, NewCallFacts
<1>3. Others(n, "main") /\ calls'[n]["main"] = Append(q, c)
  BY PublishTypes DEF Others, IsAfter
<1> HIDE DEF q, c
<1>4. MainStack(calls'[n]["main"])
  BY <1>2, <1>3, StackEntered DEF FlowInv, MainInv, q
<1>5. ~(conf.threads /\ n \in conf.gateways)
  BY <1>1 DEF WellFormed, Undisturbed, Types
<1> QED BY <1>1, <1>3, <1>4, <1>5, OneFlow

LEMMA FlowReceive ==
  ASSUME Types, FlowInv, ProxyInv, NEW n \in Nodes, NEW w \in Networks, Receive(n, w)
  PROVE  RxInv' /\ MainInv' /\ IdleInv'
<1> DEFINE q == calls[n]["rx"]
           c == NewCall(w, Head(inbox[n][w]))
<1>1. "rx" \in Flows /\ "main" # "rx" /\ UNCHANGED conf /\ w # None
      /\ (Busy(n, "rx") => Call(n, "rx").binds # None)
  BY Configuration DEF Flows, Receive
<1>2. q \in Seq(Calls) /\ c \in Calls /\ c.net = w
  BY <1>1, Itself, ReceiveTypes, NewCallFacts
<1>3. ASSUME n \in conf.gateways PROVE q # <<>> => Last(q).msg.subject = SUBSCRIBE
  <2> SUFFICES ASSUME q # <<>> PROVE Last(q).msg.subject = SUBSCRIBE
    OBVIOUS
  <2>1. Busy(n, "rx") /\ Last(q) = Call(n, "rx")
    BY DEF Busy, Call
  <2>2. /\ Len(q) \in Nat \ {0} /\ DOMAIN q = 1 .. Len(q)
        /\ Call(n, "rx") = q[Len(q)]
    BY <1>1, <2>1, CallFacts
  <2>3. Len(q) \in Nat /\ Len(q) \in DOMAIN q
    BY <2>2
  <2>4. Binding(n, "rx", Len(q))
    BY <1>1, <2>1, <2>2, <2>3 DEF Binding
  <2>5. calls[n]["rx"][Len(q)].msg.subject = SUBSCRIBE
    BY <1>1, <1>3, <2>3, <2>4 DEF ProxyInv, BindingIsKnown
  <2> QED BY <2>1, <2>2, <2>5
<1>4. bnl \in [Nodes -> Networks \cup {None}]
  BY DEF Types
<1>5. CASE bnl' = [bnl EXCEPT ![n] = w] /\ IsAfter(calls', n, "rx", Append(q, c))
  <2>1. Others(n, "rx") /\ calls'[n]["rx"] = Append(q, c)
    BY <1>5 DEF Others, IsAfter
  <2>2. bnl'[n] = w /\ \A k \in Nodes : k # n => bnl'[k] = bnl[k]
    BY <1>4, <1>5
  <2> HIDE DEF c
  <2>3. n \in conf.gateways => RxStack(Append(q, c), w)
    <3>1. n \in conf.gateways => \E b : RxStack(q, b)
      BY DEF FlowInv, RxInv
    <3> HIDE DEF q
    <3> QED BY <1>1, <1>2, <1>3, <3>1, StackEntered
  <2> QED BY <1>1, <2>1, <2>2, <2>3, OneFlow
<1>6. CASE bnl' = [bnl EXCEPT ![n] = None] /\ UNCHANGED calls
  <2>1. Others(n, "rx")
    BY <1>6 DEF Others
  <2>2. bnl'[n] = None /\ \A k \in Nodes : k # n => bnl'[k] = bnl[k]
    BY <1>4, <1>6
  <2>3. ASSUME n \in conf.gateways PROVE RxStack(q, None)
    <3>1. RxStack(q, bnl[n])
      BY <2>3 DEF FlowInv, RxInv
    <3> HIDE DEF q
    <3> QED BY <1>3, <2>3, <3>1 DEF RxStack
  <2> QED BY <1>1, <1>6, <2>1, <2>2, <2>3, OneFlow
<1> QED BY <1>5, <1>6, ReceiveTypes

LEMMA FlowNotify ==
  ASSUME WellFormed, Types, FlowInv, NEW n \in Nodes, NEW p \in Flows, Notify(n, p)
  PROVE  RxInv' /\ MainInv' /\ IdleInv'
<1> DEFINE c == PassedCall(n, p)
           s == SetLast(calls[n][p], c)
           e == Call(n, p).msg.about
<1>1. /\ Busy(n, p) /\ c \in Calls /\ c.net = Call(n, p).net /\ c.msg = Call(n, p).msg
      /\ UNCHANGED <<conf, bnl>>
  <2>1. AtCallback(n, p, "app")
    BY DEF Notify
  <2> QED BY <2>1, CallbackFacts DEF Notify
<1>2. \/ IsAfter(calls', n, p, s)
      \/ \E f \in Events : /\ <<n, e, f>> \in conf.reacts
                           /\ IsAfter(calls', n, p, Append(s, NewCall(None, Message(f))))
  BY NotifyTypes
<1> HIDE DEF c
<1>3. CASE IsAfter(calls', n, p, s)
  BY <1>1, <1>3, FlowChanged
<1>4. ASSUME NEW f \in Events, <<n, e, f>> \in conf.reacts,
             IsAfter(calls', n, p, Append(s, NewCall(None, Message(f))))
      PROVE  RxInv' /\ MainInv' /\ IdleInv'
  <2> DEFINE d == NewCall(None, Message(f))
             q == calls[n][p]
  <2>1. q \in Seq(Calls) /\ q # <<>> /\ Last(q) = Call(n, p)
    BY <1>1, CallFacts DEF Call
  <2>2. d \in Calls /\ d.net = None
    BY MessageFacts, NewCallFacts
  <2>3. e \in Events
    BY NotifyTypes
  <2>4. n \notin conf.gateways
    BY <1>4, <2>3 DEF WellFormed, Undisturbed, Types
  <2> HIDE DEF d, q, s
  <2>5. s \in Seq(Calls) /\ (MainStack(q) => MainStack(s))
    BY <1>1, <2>1, LastOne, StackChanged DEF s, q
  <2>6. MainStack(q) => MainStack(Append(s, d))
    BY <2>2, <2>5, StackEntered
  <2>7. Others(n, p) /\ calls'[n][p] = Append(s, d)
    BY <1>4 DEF Others, IsAfter, d
  <2>8. p = "main" => MainStack(calls'[n]["main"])
    BY <2>6, <2>7 DEF FlowInv, MainInv, q
  <2> QED BY <1>1, <2>4, <2>7, <2>8, OneFlow
<1> QED BY <1>2, <1>3, <1>4

LEMMA FlowReturn ==
  ASSUME Types, FlowInv, NEW n \in Nodes, NEW p \in Flows, Return(n, p)
  PROVE  RxInv' /\ MainInv' /\ IdleInv'
<1> DEFINE q == calls[n][p]
<1>1. /\ Busy(n, p) /\ q \in Seq(Calls) /\ q # <<>> /\ UNCHANGED conf
      /\ IsAfter(calls', n, p, Front(q))
      /\ bnl' = IF Call(n, p).net = None THEN bnl ELSE [bnl EXCEPT ![n] = None]
  BY ReturnTypes DEF Return
<1>2. /\ Len(q) \in Nat \ {0} /\ DOMAIN q = 1 .. Len(q) /\ Call(n, p) = q[Len(q)]
  BY <1>1, CallFacts
<1>3. Len(q) \in DOMAIN q
  BY <1>2
<1>4. Others(n, p) /\ calls'[n][p] = Front(q)
  BY <1>1 DEF Others, IsAfter
<1>5. \A k \in Nodes : k # n => bnl'[k] = bnl[k]
  BY <1>1 DEF Types
<1> HIDE DEF q
<1>6. /\ (\E b : RxStack(q, b)) => RxStack(Front(q), None)
      /\ MainStack(q) => MainStack(Front(q))
  BY <1>1, StackLeft
<1>7. ASSUME p = "rx", n \in conf.gateways PROVE RxStack(calls'[n]["rx"], bnl'[n])
  <2>1. RxStack(q, bnl[n])
    BY <1>7 DEF FlowInv, RxInv, q
  <2>2. Call(n, p).net # None
    BY <1>2, <1>3, <2>1 DEF RxStack
  <2>3. bnl'[n] = None
    BY <1>1, <2>2 DEF Types
  <2> QED BY <1>4, <1>6, <1>7, <2>1, <2>3
<1>8. ASSUME p = "main" PROVE bnl'[n] = bnl[n] /\ MainStack(calls'[n]["main"])
  <2>1. MainStack(q)
    BY <1>8 DEF FlowInv, MainInv, q
  <2>2. Call(n, p).net = None
    BY <1>2, <1>3, <2>1 DEF MainStack
  <2> QED BY <1>1, <1>4, <1>6, <1>8, <2>1, <2>2
<1>9. p = "main" => ~(conf.threads /\ n \in conf.gateways)
  BY <1>1 DEF FlowInv, IdleInv
<1> QED BY <1>1, <1>4, <1>5, <1>7, <1>8, <1>9, OneFlow

LEMMA FlowKept ==
  ASSUME WellFormed
  PROVE  Types /\ ProxyInv /\ FlowInv /\ [Next]_vars => FlowInv'
<1> SUFFICES ASSUME Types, ProxyInv, FlowInv, [Next]_vars PROVE FlowInv'
  OBVIOUS
<1>1. OnInv' /\ OneApp'
  BY OnKept, OneAppKept DEF FlowInv
<1>2. ASSUME UNCHANGED <<conf, calls, bnl>> PROVE RxInv' /\ MainInv' /\ IdleInv'
  BY <1>2 DEF FlowInv, RxInv, MainInv, IdleInv, Busy
<1>3. ASSUME NEW g \in Nodes, NEW p \in Flows, SubscribeFromNetwork(g, p)
      PROVE  RxInv' /\ MainInv' /\ IdleInv'
  <2>1. AtCallback(g, p, "gateway") /\ UNCHANGED <<conf, bnl>>
    BY <1>3 DEF SubscribeFromNetwork
  <2>2. /\ Busy(g, p) /\ PassedCall(g, p) \in Calls
        /\ PassedCall(g, p).net = Call(g, p).net /\ PassedCall(g, p).msg = Call(g, p).msg
    BY <2>1, CallbackFacts
  <2>3. PICK c \in Calls : /\ c.net = Call(g, p).net /\ c.msg = Call(g, p).msg
                           /\ IsAfter(calls', g, p, SetLast(calls[g][p], c))
    BY <1>3, <2>2, SubscribeFromNetworkTypes
  <2> QED BY <2>1, <2>2, <2>3, FlowChanged
<1>4. ASSUME NEW g \in Nodes, NEW p \in Flows, FinishBind(g, p)
      PROVE  RxInv' /\ MainInv' /\ IdleInv'
  <2>1. Busy(g, p) /\ UNCHANGED <<conf, bnl>>
    BY <1>4 DEF FinishBind
  <2> QED BY <1>4, <2>1, FinishBindTypes, FlowChanged
<1>5. ASSUME NEW g \in Nodes, NEW p \in Flows, Forward(g, p)
      PROVE  RxInv' /\ MainInv' /\ IdleInv'
  <2>1. AtCallback(g, p, "forward") /\ UNCHANGED <<conf, bnl>>
    BY <1>5 DEF Forward
  <2>2. /\ Busy(g, p) /\ PassedCall(g, p) \in Calls
        /\ PassedCall(g, p).net = Call(g, p).net /\ PassedCall(g, p).msg = Call(g, p).msg
    BY <2>1, CallbackFacts
  <2> QED BY <1>5, <2>1, <2>2, ForwardTypes, FlowChanged
<1>6. RxInv' /\ MainInv' /\ IdleInv'
  <2>1. CASE UNCHANGED vars
    BY <1>2, <2>1 DEF vars
  <2>2. CASE Next
    BY <1>2, <1>3, <1>4, <1>5, <2>2, Steps, FlowPublish, FlowReceive, FlowNotify, FlowReturn
       DEF StartGateway, Subscribe
  <2> QED BY <2>1, <2>2
<1> QED BY <1>1, <1>6 DEF FlowInv

-----------------------------------------------------------------------------
(* The way of an event.  Each network gets it through one node, and a node *)
(* has got it when it is on all networks of the node, or on one that gets  *)
(* it through another node.  A node that has still to forward it has not   *)
(* yet written it to any network that gets it through that node.           *)

Entry(c, e) == CHOOSE from \in [Networks -> Nodes] : IsRoute(c, e, from)
Gate(w, e)  == Entry(conf, e)[w]

OnOwn(n, e)   == \A w \in conf.on[n] : <<w, e>> \in written
From(n, w, e) == w \in conf.on[n] /\ <<w, e>> \in written /\ Gate(w, e) # n
Reached(n, e) == OnOwn(n, e) \/ \E w \in Networks : From(n, w, e)
Unsent(n, e)  == \A w \in conf.on[n] : Gate(w, e) = n => <<w, e>> \notin written

InInbox(n, w, i, e) == i \in DOMAIN inbox[n][w] /\ inbox[n][w][i] = Message(e)
InCall(n, p, i, e)  == i \in DOMAIN calls[n][p] /\ calls[n][p][i].msg = Message(e)

\* A call has passed the channels of a kind.
Beyond(n, p, i, kind, e) ==
    \E j \in DOMAIN channels[n] :
        /\ channels[n][j].kind = kind /\ channels[n][j].subject = SubjectOf[e]
        /\ j < calls[n][p][i].next

PacketInv(e) ==
    \A n \in Nodes, w \in Networks, i \in Nat : InInbox(n, w, i, e) =>
        /\ From(n, w, e) /\ Unsent(n, e)
        /\ \A v \in Networks, j \in Nat : InInbox(n, v, j, e) => v = w /\ i = j
        /\ \A p \in Flows, j \in Nat : ~InCall(n, p, j, e)
CallInv(e) ==
    \A n \in Nodes, p \in Flows, i \in Nat : InCall(n, p, i, e) =>
        /\ e \in published
        /\ calls[n][p][i].net = None => OnOwn(n, e)
        /\ calls[n][p][i].net # None =>
              /\ From(n, calls[n][p][i].net, e)
              /\ Unsent(n, e) \/ Beyond(n, p, i, "forward", e)
        /\ \A q \in Flows, j \in Nat : InCall(n, q, j, e) => q = p /\ i = j
WrittenInv(e) ==
    \A w \in Networks : <<w, e>> \in written => e \in published /\ Reached(Gate(w, e), e)
GotInv(e) ==
    \A n \in Nodes : got[<<n, e>>] # 0 =>
        /\ e \in published /\ Reached(n, e) /\ Has(n, SubjectOf[e])
        /\ \A w \in Networks, i \in Nat : ~InInbox(n, w, i, e)
        /\ \A p \in Flows, i \in Nat : InCall(n, p, i, e) => Beyond(n, p, i, "app", e)

EventInv(e) == PacketInv(e) /\ CallInv(e) /\ WrittenInv(e) /\ GotInv(e)

LEMMA GateFacts ==
  ASSUME WellFormed, Types, NEW e \in Events
  PROVE  /\ \A w \in Networks : Gate(w, e) \in Nodes
         /\ \A n \in Publishers(conf, e) : \A w \in conf.on[n] : Gate(w, e) = n
         /\ \A n \in Nodes : \A v, w \in conf.on[n] :
               Gate(v, e) = n \/ Gate(w, e) = n \/ v = w
<1>1. \E from \in [Networks -> Nodes] : IsRoute(conf, e, from)
  BY DEF WellFormed, LoopFree, Types
<1>2. Entry(conf, e) \in [Networks -> Nodes] /\ IsRoute(conf, e, Entry(conf, e))
  BY <1>1 DEF Entry
<1> QED BY <1>2 DEF Gate, IsRoute

LEMMA MessagesDiffer ==
  /\ \A e, f \in Events : Message(e) = Message(f) => e = f
  /\ \A e \in Events, s \in Subjects \cup {SUBSCRIBE} : Message(e) # SubscribeTo(s)
<1>1. \A e, f \in Events : Message(e) = Message(f) => e = f
  BY MessageFacts
<1>2. \A e \in Events, s \in Subjects \cup {SUBSCRIBE} : Message(e) # SubscribeTo(s)
  BY MessageFacts
<1> QED BY <1>1, <1>2

\* A step that has nothing to do with an event.
ListsGrow == \A k \in Nodes : \A i \in DOMAIN channels[k] :
    i \in DOMAIN channels'[k] /\ channels'[k][i] = channels[k][i]
CallsFollow(e) == \A k \in Nodes, r \in Flows, i \in Nat :
    i \in DOMAIN calls'[k][r] /\ calls'[k][r][i].msg = Message(e) =>
        /\ InCall(k, r, i, e)
        /\ calls'[k][r][i].net = calls[k][r][i].net
        /\ calls'[k][r][i].next >= calls[k][r][i].next
        /\ calls[k][r][i].next \in Nat /\ calls'[k][r][i].next \in Nat
PacketsFollow(e, taken) == \A k \in Nodes, w \in Networks, i \in Nat :
    i \in DOMAIN inbox'[k][w] /\ inbox'[k][w][i] = Message(e) =>
        InInbox(k, w, i + taken[k][w], e)

\* The one call of an event is just passing the channel of the application.
Notified(k, e) == \E r \in Flows, i \in Nat :
    InCall(k, r, i, e) /\ Has(k, SubjectOf[e]) /\ Beyond(k, r, i, "app", e)'

LEMMA QuietEvent ==
  ASSUME WellFormed, Types, Types', NEW e \in Events, EventInv(e), UNCHANGED conf,
         \A w \in Networks : <<w, e>> \in written' <=> <<w, e>> \in written,
         e \in published => e \in published',
         \A k \in Nodes : got'[<<k, e>>] # 0 => got[<<k, e>>] # 0 \/ Notified(k, e),
         ListsGrow, CallsFollow(e),
         NEW taken \in [Nodes -> [Networks -> Nat]], PacketsFollow(e, taken)
  PROVE  EventInv(e)'
<1>1. \A n \in Nodes : conf.on[n] \subseteq Networks
  BY Configuration
<1>2. \A w \in Networks : Gate(w, e)' = Gate(w, e)
  BY DEF Gate
<1>3. ASSUME NEW n \in Nodes
      PROVE  /\ \A w \in Networks : From(n, w, e)' <=> From(n, w, e)
             /\ OnOwn(n, e)' <=> OnOwn(n, e)
             /\ Unsent(n, e)' <=> Unsent(n, e)
  BY <1>1, <1>2 DEF From, OnOwn, Unsent
<1>4. \A n \in Nodes : Reached(n, e)' <=> Reached(n, e)
  BY <1>3 DEF Reached
<1>5. ASSUME NEW n \in Nodes, NEW w \in Networks, NEW i \in Nat, InInbox(n, w, i, e)'
      PROVE  i + taken[n][w] \in Nat /\ InInbox(n, w, i + taken[n][w], e)
  BY <1>5 DEF InInbox, PacketsFollow
<1>6. ASSUME NEW n \in Nodes, NEW p \in Flows, NEW i \in Nat, InCall(n, p, i, e)'
      PROVE  /\ InCall(n, p, i, e)
             /\ calls'[n][p][i].net = calls[n][p][i].net
             /\ \A kind : Beyond(n, p, i, kind, e) => Beyond(n, p, i, kind, e)'
  <2>1. /\ InCall(n, p, i, e)
        /\ calls'[n][p][i].net = calls[n][p][i].net
        /\ calls'[n][p][i].next >= calls[n][p][i].next
        /\ calls[n][p][i].next \in Nat /\ calls'[n][p][i].next \in Nat
    BY <1>6 DEF InCall, CallsFollow
  <2>2. ASSUME NEW kind, Beyond(n, p, i, kind, e) PROVE Beyond(n, p, i, kind, e)'
    <3>1. PICK j \in DOMAIN channels[n] :
             /\ channels[n][j].kind = kind /\ channels[n][j].subject = SubjectOf[e]
             /\ j < calls[n][p][i].next
      BY <2>2 DEF Beyond
    <3>2. j \in DOMAIN channels'[n] /\ channels'[n][j] = channels[n][j]
      BY DEF ListsGrow
    <3>3. j \in Nat
      <4>1. DOMAIN channels[n] = 1 .. Len(channels[n]) /\ Len(channels[n]) \in Nat
        BY LenProperties DEF Types
      <4> QED BY <4>1
    <3>4. j < calls'[n][p][i].next
      BY <2>1, <3>1, <3>3
    <3> QED BY <3>1, <3>2, <3>4 DEF Beyond
  <2> QED BY <2>1, <2>2
<1>7. PacketInv(e)'
  <2> SUFFICES ASSUME NEW n \in Nodes, NEW w \in Networks, NEW i \in Nat, InInbox(n, w, i, e)'
               PROVE  /\ From(n, w, e)' /\ Unsent(n, e)'
                      /\ \A v \in Networks, j \in Nat : InInbox(n, v, j, e)' => v = w /\ i = j
                      /\ \A p \in Flows, j \in Nat : ~InCall(n, p, j, e)'
    BY DEF PacketInv
  <2>1. i + taken[n][w] \in Nat /\ InInbox(n, w, i + taken[n][w], e)
    BY <1>5
  <2>2. From(n, w, e) /\ Unsent(n, e) /\ \A p \in Flows, j \in Nat : ~InCall(n, p, j, e)
    BY <2>1 DEF EventInv, PacketInv
  <2>3. ASSUME NEW v \in Networks, NEW j \in Nat, InInbox(n, v, j, e)' PROVE v = w /\ i = j
    <3>1. j + taken[n][v] \in Nat /\ InInbox(n, v, j + taken[n][v], e)
      BY <1>5, <2>3
    <3>2. v = w /\ i + taken[n][w] = j + taken[n][v]
      BY <2>1, <3>1 DEF EventInv, PacketInv
    <3> DEFINE t == taken[n][w]
    <3>3. t \in Nat /\ v = w /\ i + t = j + t
      BY <3>2
    <3> HIDE DEF t
    <3>4. i = j
      BY <3>3
    <3> QED BY <3>3, <3>4
  <2> QED BY <1>3, <1>6, <2>2, <2>3
<1>8. CallInv(e)'
  <2> SUFFICES ASSUME NEW n \in Nodes, NEW p \in Flows, NEW i \in Nat, InCall(n, p, i, e)'
               PROVE  /\ e \in published'
                      /\ calls'[n][p][i].net = None => OnOwn(n, e)'
                      /\ calls'[n][p][i].net # None =>
                            /\ From(n, calls[n][p][i].net, e)'
                            /\ Unsent(n, e)' \/ Beyond(n, p, i, "forward", e)'
                      /\ \A q \in Flows, j \in Nat : InCall(n, q, j, e)' => q = p /\ i = j
    BY DEF CallInv
  <2>1. /\ e \in published
        /\ calls[n][p][i].net = None => OnOwn(n, e)
        /\ calls[n][p][i].net # None =>
              /\ From(n, calls[n][p][i].net, e)
              /\ Unsent(n, e) \/ Beyond(n, p, i, "forward", e)
        /\ \A q \in Flows, j \in Nat : InCall(n, q, j, e) => q = p /\ i = j
    BY <1>6 DEF EventInv, CallInv
  <2>2. calls'[n][p][i].net = calls[n][p][i].net
    BY <1>6
  <2>3. ASSUME calls[n][p][i].net # None PROVE From(n, calls[n][p][i].net, e)'
    <3> DEFINE w == calls[n][p][i].net
    <3>1. w \in conf.on[n] /\ <<w, e>> \in written /\ Gate(w, e) # n
      BY <2>1, <2>3 DEF From
    <3>2. calls'[n][p][i].net = w
      BY <2>2
    <3> HIDE DEF w
    <3>3. w \in Networks /\ Entry(conf', e)[w] # n /\ <<w, e>> \in written' /\ w \in conf'.on[n]
      BY <1>1, <3>1 DEF Gate
    <3> QED BY <3>2, <3>3 DEF From, Gate
  <2>4. Unsent(n, e) \/ Beyond(n, p, i, "forward", e) =>
           Unsent(n, e)' \/ Beyond(n, p, i, "forward", e)'
    BY <1>3, <1>6
  <2> QED BY <1>3, <1>6, <2>1, <2>2, <2>3, <2>4
<1>9. WrittenInv(e)'
  <2> SUFFICES ASSUME NEW w \in Networks, <<w, e>> \in written'
               PROVE  e \in published' /\ Reached(Gate(w, e), e)'
    BY DEF WrittenInv
  <2>1. e \in published /\ Reached(Gate(w, e), e)
    BY DEF EventInv, WrittenInv
  <2>2. PICK n \in Nodes : n = Gate(w, e)
    BY GateFacts
  <2>3. Reached(n, e)'
    BY <1>4, <2>1, <2>2
  <2>4. Gate(w, e)' = n
    BY <1>2, <2>2
  <2> QED BY <2>1, <2>3, <2>4 DEF Reached, OnOwn, From
<1>10. GotInv(e)'
  <2> SUFFICES ASSUME NEW n \in Nodes, got'[<<n, e>>] # 0
               PROVE  /\ e \in published' /\ Reached(n, e)' /\ Has(n, SubjectOf[e])'
                      /\ \A w \in Networks, i \in Nat : ~InInbox(n, w, i, e)'
                      /\ \A p \in Flows, i \in Nat :
                            InCall(n, p, i, e)' => Beyond(n, p, i, "app", e)'
    BY DEF GotInv
  <2>1. /\ e \in published /\ Reached(n, e) /\ Has(n, SubjectOf[e])
        /\ \A w \in Networks, i \in Nat : ~InInbox(n, w, i, e)
        /\ \A p \in Flows, i \in Nat :
              InCall(n, p, i, e)' => Beyond(n, p, i, "app", e)'
    <3>1. CASE got[<<n, e>>] # 0
      <4>1. /\ e \in published /\ Reached(n, e) /\ Has(n, SubjectOf[e])
            /\ \A w \in Networks, i \in Nat : ~InInbox(n, w, i, e)
            /\ \A p \in Flows, i \in Nat : InCall(n, p, i, e) => Beyond(n, p, i, "app", e)
        BY <3>1 DEF EventInv, GotInv
      <4> QED BY <1>6, <4>1
    <3>2. CASE Notified(n, e)
      <4>1. PICK r \in Flows, l \in Nat :
               InCall(n, r, l, e) /\ Has(n, SubjectOf[e]) /\ Beyond(n, r, l, "app", e)'
        BY <3>2 DEF Notified
      <4>2. /\ e \in published
            /\ calls[n][r][l].net = None => OnOwn(n, e)
            /\ calls[n][r][l].net # None => From(n, calls[n][r][l].net, e)
            /\ \A q \in Flows, j \in Nat : InCall(n, q, j, e) => q = r /\ l = j
        BY <4>1 DEF EventInv, CallInv
      <4>3. Reached(n, e)
        BY <1>1, <4>2 DEF Reached, From
      <4>4. \A w \in Networks, i \in Nat : ~InInbox(n, w, i, e)
        BY <4>1 DEF EventInv, PacketInv
      <4>5. ASSUME NEW p \in Flows, NEW i \in Nat, InCall(n, p, i, e)'
            PROVE  Beyond(n, p, i, "app", e)'
        <5>1. p = r /\ i = l
          BY <1>6, <4>2, <4>5
        <5> QED BY <4>1, <5>1 DEF Beyond
      <4> QED BY <4>1, <4>2, <4>3, <4>4, <4>5
    <3> QED BY <3>1, <3>2
  <2>2. Has(n, SubjectOf[e])'
    BY <2>1 DEF Has, ListsGrow
  <2> QED BY <1>4, <1>5, <1>6, <2>1, <2>2
<1> QED BY <1>7, <1>8, <1>9, <1>10 DEF EventInv

\* Packets after a write.
LEMMA WrittenPackets ==
  ASSUME Types, NEW n \in Nodes, NEW nets, NEW m \in Messages, Write(n, nets, m),
         NEW k \in Nodes, NEW w \in Networks, NEW i \in Nat, NEW e,
         i \in DOMAIN inbox'[k][w], inbox'[k][w][i] = Message(e)
  PROVE  \/ InInbox(k, w, i, e)
         \/ /\ m = Message(e) /\ k # n /\ w \in nets \cap conf.on[k]
            /\ i = Len(inbox[k][w]) + 1
<1> DEFINE q == inbox[k][w]
<1>1. q \in Seq(Messages)
  BY DEF Types
<1>2. inbox'[k][w] = IF k # n /\ w \in nets \cap conf.on[k] THEN Append(q, m) ELSE q
  BY WriteFacts
<1>3. CASE k # n /\ w \in nets \cap conf.on[k]
  <2>1. /\ DOMAIN q = 1 .. Len(q) /\ DOMAIN Append(q, m) = 1 .. Len(q) + 1 /\ Len(q) \in Nat
        /\ \A j \in 1 .. Len(q) : Append(q, m)[j] = q[j]
        /\ Append(q, m)[Len(q) + 1] = m
    BY <1>1, Appended
  <2>2. inbox'[k][w] = Append(q, m)
    BY <1>2, <1>3
  <2> HIDE DEF q
  <2>3. i \in 1 .. Len(q) \/ i = Len(q) + 1
    BY <2>1, <2>2
  <2>4. CASE i \in 1 .. Len(q)
    <3>1. i \in DOMAIN q /\ q[i] = Message(e)
      BY <2>1, <2>2, <2>4
    <3> QED BY <3>1 DEF InInbox, q
  <2>5. CASE i = Len(q) + 1
    <3>1. m = Message(e)
      BY <2>1, <2>2, <2>5
    <3> QED BY <1>3, <2>5, <3>1 DEF q
  <2> QED BY <2>3, <2>4, <2>5
<1>4. CASE ~(k # n /\ w \in nets \cap conf.on[k])
  BY <1>2, <1>4 DEF InInbox
<1> QED BY <1>3, <1>4

\* Nothing is left of an event that is not published.
LEMMA Unpublished ==
  ASSUME Types, NEW e \in Events, EventInv(e), e \notin published
  PROVE  /\ \A w \in Networks : <<w, e>> \notin written
         /\ \A n \in Nodes, w \in Networks, i \in Nat : ~InInbox(n, w, i, e)
         /\ \A n \in Nodes, p \in Flows, i \in Nat : ~InCall(n, p, i, e)
         /\ \A n \in Nodes : got[<<n, e>>] = 0
<1>1. \A w \in Networks : <<w, e>> \notin written
  BY DEF EventInv, WrittenInv
<1>2. \A n \in Nodes, w \in Networks, i \in Nat : ~InInbox(n, w, i, e)
  BY <1>1 DEF EventInv, PacketInv, From
<1>3. \A n \in Nodes, p \in Flows, i \in Nat : ~InCall(n, p, i, e)
  BY DEF EventInv, CallInv
<1>4. \A n \in Nodes : got[<<n, e>>] = 0
  BY DEF EventInv, GotInv
<1> QED BY <1>1, <1>2, <1>3, <1>4

CallPublished(n, p, l, e) == \A k \in Nodes, r \in Flows, i \in Nat :
    i \in DOMAIN calls'[k][r] /\ calls'[k][r][i].msg = Message(e) =>
        \/ InCall(k, r, i, e)
        \/ k = n /\ r = p /\ i = l /\ calls'[k][r][i].net = None

\* A node publishes an event: it is now on all networks of the node, and in the
\* call of its own flow.
LEMMA PublishEvent ==
  ASSUME WellFormed, Types, Types', NEW e \in Events, EventInv(e), UNCHANGED conf,
         NEW n \in Nodes, NEW p \in Flows, n \in Publishers(conf, e),
         e \notin published, published' = published \cup {e},
         written' = written \cup (conf.on[n] \X {e}),
         Write(n, conf.on[n], Message(e)),
         \A k \in Nodes : got'[<<k, e>>] = got[<<k, e>>],
         NEW l, CallPublished(n, p, l, e)
  PROVE  EventInv(e)'
<1>1. /\ \A w \in Networks : <<w, e>> \notin written
      /\ \A k \in Nodes, w \in Networks, i \in Nat : ~InInbox(k, w, i, e)
      /\ \A k \in Nodes, r \in Flows, i \in Nat : ~InCall(k, r, i, e)
      /\ \A k \in Nodes : got[<<k, e>>] = 0
  BY Unpublished
<1>2. \A k \in Nodes : conf.on[k] \subseteq Networks
  BY Configuration
<1>3. \A w \in Networks : Gate(w, e)' = Gate(w, e)
  BY DEF Gate
<1>4. \A w \in Networks : <<w, e>> \in written' <=> w \in conf.on[n]
  BY <1>1
<1>5. \A w \in conf.on[n] : Gate(w, e) = n
  BY GateFacts
<1>6. ASSUME NEW k \in Nodes, NEW w \in Networks, NEW i \in Nat, InInbox(k, w, i, e)'
      PROVE  k # n /\ w \in conf.on[n] /\ w \in conf.on[k] /\ i = Len(inbox[k][w]) + 1
  <2>1. i \in DOMAIN inbox'[k][w] /\ inbox'[k][w][i] = Message(e)
    BY <1>6 DEF InInbox
  <2>2. Message(e) \in Messages /\ ~InInbox(k, w, i, e)
    BY <1>1, MessageFacts
  <2>3. /\ k # n /\ w \in conf.on[n] \cap conf.on[k]
        /\ i = Len(inbox[k][w]) + 1
    BY <2>1, <2>2, WrittenPackets
  <2> QED BY <2>3
<1>7. ASSUME NEW k \in Nodes, NEW r \in Flows, NEW i \in Nat, InCall(k, r, i, e)'
      PROVE  k = n /\ r = p /\ i = l /\ calls'[k][r][i].net = None
  BY <1>1, <1>7 DEF InCall, CallPublished
<1>8. OnOwn(n, e)'
  BY <1>2, <1>4 DEF OnOwn
<1>9. PacketInv(e)'
  <2> SUFFICES ASSUME NEW k \in Nodes, NEW w \in Networks, NEW i \in Nat, InInbox(k, w, i, e)'
               PROVE  /\ From(k, w, e)' /\ Unsent(k, e)'
                      /\ \A v \in Networks, j \in Nat : InInbox(k, v, j, e)' => v = w /\ i = j
                      /\ \A r \in Flows, j \in Nat : ~InCall(k, r, j, e)'
    BY DEF PacketInv
  <2>1. k # n /\ w \in conf.on[n] /\ w \in conf.on[k] /\ i = Len(inbox[k][w]) + 1
    BY <1>6
  <2>2. From(k, w, e)'
    BY <1>2, <1>3, <1>4, <1>5, <2>1 DEF From
  <2>3. Unsent(k, e)'
    BY <1>2, <1>3, <1>4, <1>5, <2>1 DEF Unsent
  <2>4. ASSUME NEW v \in Networks, NEW j \in Nat, InInbox(k, v, j, e)' PROVE v = w /\ i = j
    <3>1. v \in conf.on[n] /\ v \in conf.on[k] /\ j = Len(inbox[k][v]) + 1
      BY <1>6, <2>4
    <3>2. v = w
      BY <1>5, <2>1, <3>1, GateFacts
    <3> QED BY <2>1, <3>1, <3>2
  <2>5. \A r \in Flows, j \in Nat : ~InCall(k, r, j, e)'
    BY <1>7, <2>1
  <2> QED BY <2>2, <2>3, <2>4, <2>5
<1>10. CallInv(e)'
  <2> SUFFICES ASSUME NEW k \in Nodes, NEW r \in Flows, NEW i \in Nat, InCall(k, r, i, e)'
               PROVE  /\ e \in published'
                      /\ calls'[k][r][i].net = None => OnOwn(k, e)'
                      /\ calls'[k][r][i].net # None =>
                            /\ From(k, calls[k][r][i].net, e)'
                            /\ Unsent(k, e)' \/ Beyond(k, r, i, "forward", e)'
                      /\ \A q \in Flows, j \in Nat : InCall(k, q, j, e)' => q = r /\ i = j
    BY DEF CallInv
  <2>1. k = n /\ r = p /\ i = l /\ calls'[k][r][i].net = None
    BY <1>7
  <2>2. OnOwn(k, e)'
    BY <1>8, <2>1 DEF OnOwn
  <2>3. \A q \in Flows, j \in Nat : InCall(k, q, j, e)' => q = r /\ i = j
    BY <1>7, <2>1
  <2> QED BY <2>1, <2>2, <2>3
<1>11. WrittenInv(e)'
  <2> SUFFICES ASSUME NEW w \in Networks, <<w, e>> \in written'
               PROVE  e \in published' /\ Reached(Gate(w, e), e)'
    BY DEF WrittenInv
  <2>1. Gate(w, e)' = n
    BY <1>3, <1>4, <1>5
  <2> QED BY <1>8, <2>1 DEF Reached, OnOwn
<1>12. GotInv(e)'
  BY <1>1 DEF GotInv
<1> QED BY <1>9, <1>10, <1>11, <1>12 DEF EventInv

\* A node takes the packet of an event, which becomes the call of its receive
\* context.
Takes(n, w) == \A k \in Nodes, v \in Networks :
    inbox'[k][v] = IF k = n /\ v = w THEN Tail(inbox[k][v]) ELSE inbox[k][v]
Received(n, w, l, e) == \A k \in Nodes, r \in Flows, i \in Nat :
    i \in DOMAIN calls'[k][r] /\ calls'[k][r][i].msg = Message(e) =>
        \/ InCall(k, r, i, e) /\ calls'[k][r][i] = calls[k][r][i]
        \/ k = n /\ r = "rx" /\ i = l /\ calls'[k][r][i].net = w

LEMMA ReceiveEvent ==
  ASSUME WellFormed, Types, Types', NEW e \in Events, EventInv(e),
         UNCHANGED <<conf, published, got, written>>,
         NEW n \in Nodes, NEW w \in Networks, inbox[n][w] # <<>>,
         Head(inbox[n][w]) = Message(e),
         Takes(n, w), ListsGrow, NEW l, Received(n, w, l, e)
  PROVE  EventInv(e)'
<1>1. \A k \in Nodes : conf.on[k] \subseteq Networks
  BY Configuration
<1>2. \A v \in Networks : Gate(v, e)' = Gate(v, e)
  BY DEF Gate
<1>3. ASSUME NEW k \in Nodes
      PROVE  /\ \A v \in Networks : From(k, v, e)' <=> From(k, v, e)
             /\ OnOwn(k, e)' <=> OnOwn(k, e)
             /\ Unsent(k, e)' <=> Unsent(k, e)
  BY <1>1, <1>2 DEF From, OnOwn, Unsent
<1>4. \A k \in Nodes : Reached(k, e)' <=> Reached(k, e)
  BY <1>3 DEF Reached
<1>5. inbox[n][w] \in Seq(Messages)
  BY DEF Types
<1>6. /\ 1 \in DOMAIN inbox[n][w] /\ inbox[n][w][1] = Message(e)
      /\ \A i \in DOMAIN Tail(inbox[n][w]) : i \in Nat /\ i + 1 \in DOMAIN inbox[n][w]
            /\ Tail(inbox[n][w])[i] = inbox[n][w][i + 1]
  BY <1>5, Rest
<1>7. InInbox(n, w, 1, e)
  BY <1>6 DEF InInbox
<1>8. /\ From(n, w, e) /\ Unsent(n, e)
      /\ \A v \in Networks, j \in Nat : InInbox(n, v, j, e) => v = w /\ j = 1
      /\ \A r \in Flows, j \in Nat : ~InCall(n, r, j, e)
  BY <1>7 DEF EventInv, PacketInv
<1>9. ASSUME NEW k \in Nodes, NEW v \in Networks, NEW i \in Nat, InInbox(k, v, i, e)'
      PROVE  k # n /\ InInbox(k, v, i, e)
  <2>1. i \in DOMAIN inbox'[k][v] /\ inbox'[k][v][i] = Message(e)
    BY <1>9 DEF InInbox
  <2>2. CASE k = n /\ v = w
    <3>1. i \in DOMAIN Tail(inbox[n][w]) /\ Tail(inbox[n][w])[i] = Message(e)
      BY <2>1, <2>2 DEF Takes
    <3>2. InInbox(n, w, i + 1, e) /\ i + 1 \in Nat
      BY <1>6, <3>1 DEF InInbox
    <3>3. i + 1 = 1
      BY <1>8, <3>2
    <3>4. 0 \in DOMAIN Tail(inbox[n][w])
      BY <3>1, <3>3
    <3>5. Tail(inbox[n][w]) \in Seq(Messages)
      BY <1>5, Rest
    <3> QED BY <3>4, <3>5, LenProperties
  <2>3. CASE ~(k = n /\ v = w)
    <3>1. InInbox(k, v, i, e)
      BY <2>1, <2>3 DEF InInbox, Takes
    <3> QED BY <1>8, <2>3, <3>1
  <2> QED BY <2>2, <2>3
<1>10. ASSUME NEW k \in Nodes, NEW r \in Flows, NEW i \in Nat, InCall(k, r, i, e)'
       PROVE  \/ k # n /\ InCall(k, r, i, e) /\ calls'[k][r][i] = calls[k][r][i]
              \/ k = n /\ r = "rx" /\ i = l /\ calls'[k][r][i].net = w
  <2>1. i \in DOMAIN calls'[k][r] /\ calls'[k][r][i].msg = Message(e)
    BY <1>10 DEF InCall
  <2>2. k = n => ~InCall(k, r, i, e)
    BY <1>8
  <2> QED BY <2>1, <2>2 DEF Received
<1>11. ASSUME NEW k \in Nodes, NEW r \in Flows, NEW i \in Nat, NEW kind,
              calls'[k][r][i] = calls[k][r][i], Beyond(k, r, i, kind, e)
       PROVE  Beyond(k, r, i, kind, e)'
  BY <1>11 DEF Beyond, ListsGrow
<1>12. PacketInv(e)'
  <2> SUFFICES ASSUME NEW k \in Nodes, NEW v \in Networks, NEW i \in Nat, InInbox(k, v, i, e)'
               PROVE  /\ From(k, v, e)' /\ Unsent(k, e)'
                      /\ \A u \in Networks, j \in Nat : InInbox(k, u, j, e)' => u = v /\ i = j
                      /\ \A r \in Flows, j \in Nat : ~InCall(k, r, j, e)'
    BY DEF PacketInv
  <2>1. k # n /\ InInbox(k, v, i, e)
    BY <1>9
  <2>2. /\ From(k, v, e) /\ Unsent(k, e)
        /\ \A u \in Networks, j \in Nat : InInbox(k, u, j, e) => u = v /\ i = j
        /\ \A r \in Flows, j \in Nat : ~InCall(k, r, j, e)
    BY <2>1 DEF EventInv, PacketInv
  <2> QED BY <1>3, <1>9, <1>10, <2>1, <2>2
<1>13. CallInv(e)'
  <2> SUFFICES ASSUME NEW k \in Nodes, NEW r \in Flows, NEW i \in Nat, InCall(k, r, i, e)'
               PROVE  /\ e \in published'
                      /\ calls'[k][r][i].net = None => OnOwn(k, e)'
                      /\ calls'[k][r][i].net # None =>
                            /\ From(k, calls[k][r][i].net, e)'
                            /\ Unsent(k, e)' \/ Beyond(k, r, i, "forward", e)'
                      /\ \A q \in Flows, j \in Nat : InCall(k, q, j, e)' => q = r /\ i = j
    BY DEF CallInv
  <2> DEFINE net == calls'[k][r][i].net
  <2>1. CASE k # n /\ InCall(k, r, i, e) /\ calls'[k][r][i] = calls[k][r][i]
    <3>1. /\ e \in published
          /\ net = None => OnOwn(k, e)
          /\ net # None => From(k, net, e) /\ (Unsent(k, e) \/ Beyond(k, r, i, "forward", e))
          /\ \A q \in Flows, j \in Nat : InCall(k, q, j, e) => q = r /\ i = j
      BY <2>1 DEF EventInv, CallInv
    <3> HIDE DEF net
    <3>2. \A q \in Flows, j \in Nat : InCall(k, q, j, e)' => q = r /\ i = j
      BY <1>10, <2>1, <3>1
    <3>3. ASSUME net # None PROVE From(k, calls[k][r][i].net, e)'
      <4>1. PICK v \in Networks : v = net
        BY <1>1, <3>1, <3>3 DEF From
      <4>2. From(k, v, e)
        BY <3>1, <3>3, <4>1
      <4>3. v \in conf'.on[k] /\ <<v, e>> \in written' /\ Gate(v, e)' # k
        BY <1>2, <4>2 DEF From
      <4> QED BY <4>1, <4>3 DEF From, net, Gate
    <3>4. Unsent(k, e) \/ Beyond(k, r, i, "forward", e)
             => Unsent(k, e)' \/ Beyond(k, r, i, "forward", e)'
      BY <1>3, <1>11, <2>1
    <3> QED BY <1>3, <3>1, <3>2, <3>3, <3>4 DEF net
  <2>2. CASE k = n /\ r = "rx" /\ i = l /\ net = w
    <3>1. e \in published
      BY <1>8 DEF EventInv, WrittenInv, From
    <3>2. w # None
      BY Configuration
    <3>3. From(n, w, e)' /\ Unsent(n, e)'
      BY <1>3, <1>8
    <3>4. From(k, calls[k][r][i].net, e)'
      <4>1. w \in conf'.on[n] /\ <<w, e>> \in written' /\ Gate(w, e)' # n
        BY <1>2, <1>8 DEF From
      <4> QED BY <2>2, <4>1 DEF From, Gate
    <3>5. Unsent(k, e)'
      BY <1>3, <1>8, <2>2
    <3>6. \A q \in Flows, j \in Nat : InCall(k, q, j, e)' => q = r /\ i = j
      BY <1>10, <2>2
    <3> QED BY <2>2, <3>1, <3>2, <3>4, <3>5, <3>6
  <2> QED BY <1>10, <2>1, <2>2
<1>14. WrittenInv(e)'
  <2> SUFFICES ASSUME NEW v \in Networks, <<v, e>> \in written'
               PROVE  e \in published' /\ Reached(Gate(v, e), e)'
    BY DEF WrittenInv
  <2>1. e \in published /\ Reached(Gate(v, e), e)
    BY DEF EventInv, WrittenInv
  <2>2. PICK k \in Nodes : k = Gate(v, e)
    BY GateFacts
  <2>3. Reached(k, e)'
    BY <1>4, <2>1, <2>2
  <2>4. Gate(v, e)' = k
    BY <1>2, <2>2
  <2> QED BY <2>1, <2>3, <2>4 DEF Reached, OnOwn, From
<1>15. GotInv(e)'
  <2> SUFFICES ASSUME NEW k \in Nodes, got'[<<k, e>>] # 0
               PROVE  /\ e \in published' /\ Reached(k, e)' /\ Has(k, SubjectOf[e])'
                      /\ \A v \in Networks, i \in Nat : ~InInbox(k, v, i, e)'
                      /\ \A r \in Flows, i \in Nat :
                            InCall(k, r, i, e)' => Beyond(k, r, i, "app", e)'
    BY DEF GotInv
  <2>1. /\ e \in published /\ Reached(k, e) /\ Has(k, SubjectOf[e])
        /\ \A v \in Networks, i \in Nat : ~InInbox(k, v, i, e)
        /\ \A r \in Flows, i \in Nat : InCall(k, r, i, e) => Beyond(k, r, i, "app", e)
    BY DEF EventInv, GotInv
  <2>2. k # n
    BY <1>7, <2>1
  <2>3. Has(k, SubjectOf[e])'
    BY <2>1 DEF Has, ListsGrow
  <2>4. \A r \in Flows, i \in Nat : InCall(k, r, i, e)' => Beyond(k, r, i, "app", e)'
    BY <1>10, <1>11, <2>1, <2>2
  <2> QED BY <1>4, <1>9, <2>1, <2>3, <2>4
<1> QED BY <1>12, <1>13, <1>14, <1>15 DEF EventInv

\* A gateway writes an event to its other network.
LEMMA ForwardEvent ==
  ASSUME WellFormed, Types, Types', NEW e \in Events, EventInv(e),
         UNCHANGED <<conf, channels, published, got>>,
         NEW g \in Nodes, NEW p \in Flows, NEW l \in Nat, InCall(g, p, l, e),
         calls[g][p][l].net # None, Unsent(g, e), Beyond(g, p, l, "forward", e)',
         NEW u \in conf.on[g], u # calls[g][p][l].net,
         Write(g, {u}, Message(e)), written' = written \cup {<<u, e>>},
         CallsFollow(e)
  PROVE  EventInv(e)'
<1>1. (\A k \in Nodes : conf.on[k] \subseteq Networks) /\ u \in Networks
  BY Configuration
<1>2. \A v \in Networks : Gate(v, e)' = Gate(v, e)
  BY DEF Gate
<1>3. /\ e \in published
      /\ From(g, calls[g][p][l].net, e)
      /\ \A q \in Flows, j \in Nat : InCall(g, q, j, e) => q = p /\ l = j
  BY DEF EventInv, CallInv
<1>4. Gate(u, e) = g
  BY <1>3, GateFacts DEF From
<1>5. <<u, e>> \notin written
  BY <1>4 DEF Unsent
<1>6. ASSUME NEW k \in Nodes, k # g, u \in conf.on[k] PROVE ~Reached(k, e)
  <2> SUFFICES ASSUME Reached(k, e) PROVE FALSE
    OBVIOUS
  <2>1. ~OnOwn(k, e)
    BY <1>5, <1>6 DEF OnOwn
  <2>2. PICK v \in Networks : From(k, v, e)
    BY <2>1 DEF Reached
  <2>3. v = u
    BY <1>4, <1>6, <2>2, GateFacts DEF From
  <2> QED BY <1>5, <2>2, <2>3 DEF From
<1>7. ASSUME NEW k \in Nodes, k # g, u \in conf.on[k]
      PROVE  /\ \A v \in Networks, i \in Nat : ~InInbox(k, v, i, e)
             /\ \A q \in Flows, i \in Nat : ~InCall(k, q, i, e)
             /\ got[<<k, e>>] = 0
             /\ Unsent(k, e)'
  <2>1. ~Reached(k, e)
    BY <1>6, <1>7
  <2>2. ~OnOwn(k, e) /\ \A v \in Networks : ~From(k, v, e)
    BY <2>1 DEF Reached
  <2>3. \A v \in Networks, i \in Nat : ~InInbox(k, v, i, e)
    BY <2>2 DEF EventInv, PacketInv
  <2>4. ASSUME NEW q \in Flows, NEW i \in Nat, InCall(k, q, i, e) PROVE FALSE
    <3>1. /\ calls[k][q][i].net = None => OnOwn(k, e)
          /\ calls[k][q][i].net # None => From(k, calls[k][q][i].net, e)
      BY <2>4 DEF EventInv, CallInv
    <3>2. calls[k][q][i].net # None => calls[k][q][i].net \in Networks
      BY <1>1, <3>1 DEF From
    <3> QED BY <2>2, <3>1, <3>2
  <2>5. got[<<k, e>>] = 0
    BY <2>1 DEF EventInv, GotInv
  <2>6. ASSUME NEW v \in conf.on[k], Gate(v, e) = k PROVE <<v, e>> \notin written'
    <3>1. <<v, e>> \notin written
      BY <1>1, <2>1, <2>6 DEF EventInv, WrittenInv
    <3>2. v # u
      BY <1>4, <1>7, <2>6
    <3> QED BY <3>1, <3>2
  <2>7. Unsent(k, e)'
    BY <1>1, <1>2, <2>6 DEF Unsent
  <2> QED BY <2>3, <2>4, <2>5, <2>7
<1>8. ASSUME NEW k \in Nodes
      PROVE  /\ \A v \in Networks : From(k, v, e) => From(k, v, e)'
             /\ OnOwn(k, e) => OnOwn(k, e)'
             /\ Reached(k, e) => Reached(k, e)'
  <2>1. \A v \in Networks : From(k, v, e) => From(k, v, e)'
    BY <1>1, <1>2 DEF From
  <2>2. OnOwn(k, e) => OnOwn(k, e)'
    BY DEF OnOwn
  <2> QED BY <2>1, <2>2 DEF Reached
<1>9. ASSUME NEW k \in Nodes, k # g, Unsent(k, e) PROVE Unsent(k, e)'
  BY <1>1, <1>2, <1>4, <1>9 DEF Unsent
<1>10. ASSUME NEW k \in Nodes, NEW w \in Networks, NEW i \in Nat, InInbox(k, w, i, e)'
       PROVE  \/ k # g /\ InInbox(k, w, i, e) /\ u \notin conf.on[k]
              \/ k # g /\ w = u /\ u \in conf.on[k] /\ i = Len(inbox[k][w]) + 1
  <2>1. i \in DOMAIN inbox'[k][w] /\ inbox'[k][w][i] = Message(e)
    BY <1>10 DEF InInbox
  <2>2. Message(e) \in Messages
    BY MessageFacts
  <2>3. \/ InInbox(k, w, i, e)
        \/ k # g /\ w \in {u} \cap conf.on[k] /\ i = Len(inbox[k][w]) + 1
    BY <2>1, <2>2, WrittenPackets
  <2>4. InInbox(k, w, i, e) => k # g
    BY DEF EventInv, PacketInv
  <2>5. InInbox(k, w, i, e) => u \notin conf.on[k]
    BY <1>7, <2>4
  <2> QED BY <2>3, <2>4, <2>5
<1>11. ASSUME NEW k \in Nodes, NEW r \in Flows, NEW i \in Nat, InCall(k, r, i, e)'
       PROVE  /\ InCall(k, r, i, e)
              /\ calls'[k][r][i].net = calls[k][r][i].net
              /\ \A kind : Beyond(k, r, i, kind, e) => Beyond(k, r, i, kind, e)'
  <2>1. /\ InCall(k, r, i, e)
        /\ calls'[k][r][i].net = calls[k][r][i].net
        /\ calls'[k][r][i].next >= calls[k][r][i].next
        /\ calls[k][r][i].next \in Nat /\ calls'[k][r][i].next \in Nat
    BY <1>11 DEF InCall, CallsFollow
  <2>2. \A j \in DOMAIN channels[k] : j \in Nat
    <3>1. DOMAIN channels[k] = 1 .. Len(channels[k]) /\ Len(channels[k]) \in Nat
      BY LenProperties DEF Types
    <3> QED BY <3>1
  <2>3. ASSUME NEW kind, Beyond(k, r, i, kind, e) PROVE Beyond(k, r, i, kind, e)'
    <3>1. PICK j \in DOMAIN channels[k] :
             /\ channels[k][j].kind = kind /\ channels[k][j].subject = SubjectOf[e]
             /\ j < calls[k][r][i].next
      BY <2>3 DEF Beyond
    <3>2. j \in Nat
      BY <2>2
    <3>3. j < calls'[k][r][i].next
      BY <2>1, <3>1, <3>2
    <3> QED BY <3>1, <3>3 DEF Beyond
  <2> QED BY <2>1, <2>3
<1>12. PacketInv(e)'
  <2> SUFFICES ASSUME NEW k \in Nodes, NEW w \in Networks, NEW i \in Nat, InInbox(k, w, i, e)'
               PROVE  /\ From(k, w, e)' /\ Unsent(k, e)'
                      /\ \A v \in Networks, j \in Nat : InInbox(k, v, j, e)' => v = w /\ i = j
                      /\ \A r \in Flows, j \in Nat : ~InCall(k, r, j, e)'
    BY DEF PacketInv
  <2>1. CASE k # g /\ InInbox(k, w, i, e) /\ u \notin conf.on[k]
    <3>1. /\ From(k, w, e) /\ Unsent(k, e)
          /\ \A v \in Networks, j \in Nat : InInbox(k, v, j, e) => v = w /\ i = j
          /\ \A r \in Flows, j \in Nat : ~InCall(k, r, j, e)
      BY <2>1 DEF EventInv, PacketInv
    <3>2. \A v \in Networks, j \in Nat : InInbox(k, v, j, e)' => InInbox(k, v, j, e)
      BY <1>10, <2>1
    <3> QED BY <1>8, <1>9, <1>11, <2>1, <3>1, <3>2
  <2>2. CASE k # g /\ w = u /\ u \in conf.on[k] /\ i = Len(inbox[k][w]) + 1
    <3>1. From(k, w, e)'
      BY <1>1, <1>2, <1>4, <2>2 DEF From
    <3>2. \A v \in Networks, j \in Nat : InInbox(k, v, j, e)' =>
             v = u /\ j = Len(inbox[k][v]) + 1
      BY <1>10, <2>2
    <3> QED BY <1>7, <1>11, <2>2, <3>1, <3>2
  <2> QED BY <1>10, <2>1, <2>2
<1>13. CallInv(e)'
  <2> SUFFICES ASSUME NEW k \in Nodes, NEW r \in Flows, NEW i \in Nat, InCall(k, r, i, e)'
               PROVE  /\ e \in published'
                      /\ calls'[k][r][i].net = None => OnOwn(k, e)'
                      /\ calls'[k][r][i].net # None =>
                            /\ From(k, calls[k][r][i].net, e)'
                            /\ Unsent(k, e)' \/ Beyond(k, r, i, "forward", e)'
                      /\ \A q \in Flows, j \in Nat : InCall(k, q, j, e)' => q = r /\ i = j
    BY DEF CallInv
  <2> DEFINE net == calls'[k][r][i].net
  <2>1. InCall(k, r, i, e) /\ net = calls[k][r][i].net
    BY <1>11
  <2>2. /\ net = None => OnOwn(k, e)
        /\ net # None => From(k, net, e) /\ (Unsent(k, e) \/ Beyond(k, r, i, "forward", e))
        /\ \A q \in Flows, j \in Nat : InCall(k, q, j, e) => q = r /\ i = j
    BY <2>1 DEF EventInv, CallInv
  <2> HIDE DEF net
  <2>3. \A q \in Flows, j \in Nat : InCall(k, q, j, e)' => q = r /\ i = j
    BY <1>11, <2>2
  <2>4. ASSUME net # None PROVE From(k, calls[k][r][i].net, e)'
    <3>1. PICK v \in Networks : v = net
      BY <1>1, <2>2, <2>4 DEF From
    <3>2. From(k, v, e)
      BY <2>2, <2>4, <3>1
    <3>3. v \in conf'.on[k] /\ <<v, e>> \in written' /\ Gate(v, e)' # k
      BY <1>2, <3>2 DEF From
    <3> QED BY <3>1, <3>3 DEF From, net, Gate
  <2>5. Unsent(k, e) \/ Beyond(k, r, i, "forward", e)
           => Unsent(k, e)' \/ Beyond(k, r, i, "forward", e)'
    <3>1. CASE k # g
      BY <1>9, <1>11, <3>1
    <3>2. CASE k = g
      <4>1. r = p /\ i = l
        BY <1>3, <2>1, <3>2
      <4>2. Beyond(k, r, i, "forward", e)'
        BY <3>2, <4>1 DEF Beyond
      <4> QED BY <4>2
    <3> QED BY <3>1, <3>2
  <2> QED BY <1>3, <1>8, <2>2, <2>3, <2>4, <2>5 DEF net
<1>14. Reached(g, e)'
  <2>1. calls[g][p][l].net \in Networks
    BY <1>1, <1>3 DEF From
  <2>2. Reached(g, e)
    BY <1>3, <2>1 DEF Reached
  <2> QED BY <1>8, <2>2
<1>15. WrittenInv(e)'
  <2> SUFFICES ASSUME NEW v \in Networks, <<v, e>> \in written'
               PROVE  e \in published' /\ Reached(Gate(v, e), e)'
    BY DEF WrittenInv
  <2>1. PICK k \in Nodes : k = Gate(v, e)
    BY GateFacts
  <2>2. CASE v = u
    <3>1. Gate(v, e)' = g
      BY <1>2, <1>4, <2>2
    <3> QED BY <1>3, <1>14, <3>1 DEF Reached, OnOwn, From
  <2>3. CASE <<v, e>> \in written
    <3>1. Reached(k, e)
      BY <2>1, <2>3 DEF EventInv, WrittenInv
    <3>2. Reached(k, e)'
      BY <1>8, <3>1
    <3>3. Gate(v, e)' = k
      BY <1>2, <2>1
    <3> QED BY <1>3, <3>2, <3>3 DEF Reached, OnOwn, From
  <2> QED BY <2>2, <2>3
<1>16. GotInv(e)'
  <2> SUFFICES ASSUME NEW k \in Nodes, got'[<<k, e>>] # 0
               PROVE  /\ e \in published' /\ Reached(k, e)' /\ Has(k, SubjectOf[e])'
                      /\ \A v \in Networks, i \in Nat : ~InInbox(k, v, i, e)'
                      /\ \A r \in Flows, i \in Nat :
                            InCall(k, r, i, e)' => Beyond(k, r, i, "app", e)'
    BY DEF GotInv
  <2>1. /\ e \in published /\ Reached(k, e) /\ Has(k, SubjectOf[e])
        /\ \A v \in Networks, i \in Nat : ~InInbox(k, v, i, e)
        /\ \A r \in Flows, i \in Nat : InCall(k, r, i, e) => Beyond(k, r, i, "app", e)
    BY DEF EventInv, GotInv
  <2>2. k # g => u \notin conf.on[k]
    BY <1>7
  <2>3. \A v \in Networks, i \in Nat : ~InInbox(k, v, i, e)'
    BY <1>10, <2>1, <2>2
  <2>4. Has(k, SubjectOf[e])'
    BY <2>1 DEF Has
  <2> QED BY <1>8, <1>11, <2>1, <2>3, <2>4
<1> QED BY <1>12, <1>13, <1>15, <1>16 DEF EventInv

-----------------------------------------------------------------------------
(* The actions and the way of an event.                                    *)

Untaken == [k \in Nodes |-> [w \in Networks |-> 0]]

LEMMA PacketsKept ==
  ASSUME Types, NEW e \in Events
  PROVE  /\ Untaken \in [Nodes -> [Networks -> Nat]]
         /\ UNCHANGED inbox => PacketsFollow(e, Untaken)
         /\ \A n \in Nodes, m \in Messages : \A nets :
               Write(n, nets, m) /\ m # Message(e) => PacketsFollow(e, Untaken)
<1>1. Untaken \in [Nodes -> [Networks -> Nat]]
  BY DEF Untaken
<1>2. \A k \in Nodes, w \in Networks, i \in Nat : i + Untaken[k][w] = i
  BY DEF Untaken
<1>3. ASSUME UNCHANGED inbox PROVE PacketsFollow(e, Untaken)
  BY <1>2, <1>3 DEF PacketsFollow, InInbox
<1>4. ASSUME NEW n \in Nodes, NEW m \in Messages, NEW nets, Write(n, nets, m), m # Message(e)
      PROVE  PacketsFollow(e, Untaken)
  <2> SUFFICES ASSUME NEW k \in Nodes, NEW w \in Networks, NEW i \in Nat,
                      i \in DOMAIN inbox'[k][w], inbox'[k][w][i] = Message(e)
               PROVE  InInbox(k, w, i + Untaken[k][w], e)
    BY DEF PacketsFollow
  <2>1. InInbox(k, w, i, e)
    BY <1>4, WrittenPackets
  <2> QED BY <1>2, <2>1
<1> QED BY <1>1, <1>3, <1>4

\* The element of a stack is a call.
LEMMA StackElement ==
  ASSUME NEW q \in Seq(Calls), NEW i \in DOMAIN q
  PROVE  i \in Nat /\ q[i] \in Calls /\ q[i].next \in Nat
<1>1. i \in 1 .. Len(q) /\ Len(q) \in Nat
  BY LenProperties
<1>2. q[i] \in Calls
  BY <1>1, ElementOfSeq
<1> QED BY <1>1, <1>2 DEF Calls

LEMMA CallsKept ==
  ASSUME Types, Types', NEW e \in Events,
         \A k \in Nodes, r \in Flows : \A i \in DOMAIN calls'[k][r] :
            calls'[k][r][i].msg = Message(e) =>
                /\ i \in DOMAIN calls[k][r]
                /\ calls'[k][r][i].net = calls[k][r][i].net
                /\ calls'[k][r][i].msg = calls[k][r][i].msg
                /\ calls'[k][r][i].next >= calls[k][r][i].next
  PROVE  CallsFollow(e)
<1> SUFFICES ASSUME NEW k \in Nodes, NEW r \in Flows, NEW i \in Nat,
                    i \in DOMAIN calls'[k][r], calls'[k][r][i].msg = Message(e)
             PROVE  /\ InCall(k, r, i, e)
                    /\ calls'[k][r][i].net = calls[k][r][i].net
                    /\ calls'[k][r][i].next >= calls[k][r][i].next
                    /\ calls[k][r][i].next \in Nat /\ calls'[k][r][i].next \in Nat
  BY DEF CallsFollow
<1>1. calls[k][r] \in Seq(Calls) /\ calls'[k][r] \in Seq(Calls)
  BY DEF Types
<1>2. calls'[k][r][i].next \in Nat
  BY <1>1, StackElement
<1>3. calls[k][r][i].next \in Nat
  BY <1>1, StackElement
<1> QED BY <1>2, <1>3 DEF InCall

LEMMA CallsUnchanged ==
  ASSUME Types, Types', UNCHANGED calls, NEW e \in Events
  PROVE  CallsFollow(e)
<1>1. ASSUME NEW k \in Nodes, NEW r \in Flows, NEW i \in DOMAIN calls[k][r]
      PROVE  calls[k][r][i].next >= calls[k][r][i].next
  <2>1. calls[k][r] \in Seq(Calls)
    BY DEF Types
  <2>2. calls[k][r][i].next \in Nat
    BY <2>1, StackElement
  <2> QED BY <2>2
<1> QED BY <1>1, CallsKept

LEMMA CallsEntered ==
  ASSUME Types, Types', NEW e \in Events, NEW n \in Nodes, NEW p \in Flows, NEW c \in Calls,
         c.msg # Message(e), IsAfter(calls', n, p, Append(calls[n][p], c))
  PROVE  CallsFollow(e)
<1>1. \A k \in Nodes, r \in Flows : \A i \in DOMAIN calls'[k][r] :
         \/ i \in DOMAIN calls[k][r] /\ calls'[k][r][i] = calls[k][r][i]
         \/ calls'[k][r][i] = c
  BY AfterEntering
<1>2. ASSUME NEW k \in Nodes, NEW r \in Flows, NEW i \in DOMAIN calls[k][r]
      PROVE  calls[k][r][i].next >= calls[k][r][i].next
  <2>1. calls[k][r] \in Seq(Calls)
    BY DEF Types
  <2>2. calls[k][r][i].next \in Nat
    BY <2>1, StackElement
  <2> QED BY <2>2
<1> QED BY <1>1, <1>2, CallsKept

LEMMA CallsChanged ==
  ASSUME Types, Types', NEW e \in Events, NEW n \in Nodes, NEW p \in Flows, Busy(n, p),
         NEW c \in Calls, c.net = Call(n, p).net, c.msg = Call(n, p).msg,
         c.next >= Call(n, p).next,
         \/ IsAfter(calls', n, p, SetLast(calls[n][p], c))
         \/ \E d \in Calls : /\ d.msg # Message(e)
                             /\ IsAfter(calls', n, p, Append(SetLast(calls[n][p], c), d))
  PROVE  CallsFollow(e)
<1>1. ASSUME NEW k \in Nodes, NEW r \in Flows, NEW i \in DOMAIN calls[k][r]
      PROVE  calls[k][r][i].next >= calls[k][r][i].next
  <2>1. calls[k][r] \in Seq(Calls)
    BY DEF Types
  <2>2. calls[k][r][i].next \in Nat
    BY <2>1, StackElement
  <2> QED BY <2>2
<1>2. CASE IsAfter(calls', n, p, SetLast(calls[n][p], c))
  <2>1. \A k \in Nodes, r \in Flows : \A i \in DOMAIN calls'[k][r] :
           /\ i \in DOMAIN calls[k][r]
           /\ \/ calls'[k][r][i] = calls[k][r][i]
              \/ calls[k][r][i] = Call(n, p) /\ calls'[k][r][i] = c
    BY <1>2, AfterChange
  <2> QED BY <1>1, <2>1, CallsKept
<1>3. ASSUME NEW d \in Calls, d.msg # Message(e),
             IsAfter(calls', n, p, Append(SetLast(calls[n][p], c), d))
      PROVE  CallsFollow(e)
  <2>1. \A k \in Nodes, r \in Flows : \A i \in DOMAIN calls'[k][r] :
           \/ /\ i \in DOMAIN calls[k][r]
              /\ \/ calls'[k][r][i] = calls[k][r][i]
                 \/ calls[k][r][i] = Call(n, p) /\ calls'[k][r][i] = c
           \/ calls'[k][r][i] = d
    BY <1>3, AfterReacting
  <2> QED BY <1>1, <1>3, <2>1, CallsKept
<1> QED BY <1>2, <1>3

LEMMA CallsLeft ==
  ASSUME Types, Types', NEW e \in Events, NEW n \in Nodes, NEW p \in Flows, Busy(n, p),
         IsAfter(calls', n, p, Front(calls[n][p]))
  PROVE  CallsFollow(e)
<1>1. \A k \in Nodes, r \in Flows : \A i \in DOMAIN calls'[k][r] :
         i \in DOMAIN calls[k][r] /\ calls'[k][r][i] = calls[k][r][i]
  BY AfterLeaving
<1>2. ASSUME NEW k \in Nodes, NEW r \in Flows, NEW i \in DOMAIN calls[k][r]
      PROVE  calls[k][r][i].next >= calls[k][r][i].next
  <2>1. calls[k][r] \in Seq(Calls)
    BY DEF Types
  <2>2. calls[k][r][i].next \in Nat
    BY <2>1, StackElement
  <2> QED BY <2>2
<1> QED BY <1>1, <1>2, CallsKept

\* The next channel of a call is not before the one it has come to.
LEMMA PassedOn ==
  ASSUME Types, NEW n \in Nodes, NEW p \in Flows, NEW kind, AtCallback(n, p, kind)
  PROVE  PassedCall(n, p).next >= Call(n, p).next
<1> DEFINE i == Min(Remaining(n, p))
<1>1. Busy(n, p) /\ i \in Nat /\ i >= Call(n, p).next /\ PassedCall(n, p).next = i + 1
  BY CallbackFacts
<1>2. Call(n, p).next \in Nat
  BY <1>1, CallFacts DEF Calls
<1> HIDE DEF i
<1> QED BY <1>1, <1>2

LEMMA ListensGrow ==
  ASSUME Types, NEW n \in Nodes, NEW c \in Channels, Listen(n, c), NEW e \in Events
  PROVE  ListsGrow /\ PacketsFollow(e, Untaken)
<1>1. ListsGrow
  BY ListKept DEF ListsGrow
<1>2. c.subject \in Subjects \cup {SUBSCRIBE}
  BY DEF Channels, Proxies
<1>3. SubscribeTo(c.subject) # Message(e)
  BY <1>2, MessagesDiffer
<1>4. SubscribeTo(c.subject) \in Messages /\ Write(n, conf.on[n], SubscribeTo(c.subject))
  BY ListenFacts
<1> QED BY <1>1, <1>3, <1>4, PacketsKept

EventsInv == \A e \in Events : EventInv(e)

\* A step that publishes, forwards and receives nothing.
LEMMA QuietStep ==
  ASSUME WellFormed, Types, Types', NEW e \in Events, EventInv(e),
         UNCHANGED <<conf, published, got, written>>,
         ListsGrow, CallsFollow(e), PacketsFollow(e, Untaken)
  PROVE  EventInv(e)'
BY QuietEvent, PacketsKept

LEMMA StartGatewayEvents ==
  ASSUME WellFormed, Types, EventsInv, NEW g \in conf.gateways, StartGateway(g)
  PROVE  EventsInv'
<1> SUFFICES ASSUME NEW e \in Events PROVE EventInv(e)'
  BY DEF EventsInv
<1>1. [kind |-> "gateway", subject |-> SUBSCRIBE] \in Channels
  BY DEF Channels
<1>2. Types' /\ ListsGrow /\ PacketsFollow(e, Untaken)
  BY <1>1, StartGatewayTypes, ListensGrow
<1>3. UNCHANGED <<conf, published, got, written, calls>>
  BY DEF StartGateway
<1> QED BY <1>2, <1>3, CallsUnchanged, QuietStep DEF EventsInv

LEMMA SubscribeEvents ==
  ASSUME WellFormed, Types, EventsInv, NEW n \in Nodes, NEW s \in Subjects, Subscribe(n, s)
  PROVE  EventsInv'
<1> SUFFICES ASSUME NEW e \in Events PROVE EventInv(e)'
  BY DEF EventsInv
<1>1. [kind |-> "app", subject |-> s] \in Channels
  BY DEF Channels
<1>2. Types' /\ ListsGrow /\ PacketsFollow(e, Untaken)
  BY <1>1, SubscribeTypes, ListensGrow
<1>3. UNCHANGED <<conf, published, got, written, calls>>
  BY DEF Subscribe
<1> QED BY <1>2, <1>3, CallsUnchanged, QuietStep DEF EventsInv

\* Nothing happens to the other events when a node publishes one.
LEMMA OtherPublished ==
  ASSUME Types, NEW e \in Events, NEW f \in Events, e # f, NEW n \in Nodes,
         written' = written \cup (conf.on[n] \X {f}), Write(n, conf.on[n], Message(f))
  PROVE  /\ \A w \in Networks : <<w, e>> \in written' <=> <<w, e>> \in written
         /\ PacketsFollow(e, Untaken)
         /\ Message(f) # Message(e)
<1>1. Message(f) \in Messages /\ Message(f) # Message(e)
  BY MessageFacts, MessagesDiffer
<1> QED BY <1>1, PacketsKept

LEMMA PublishEvents ==
  ASSUME WellFormed, Types, EventsInv, NEW n \in Nodes, NEW f \in Events, Publish(n, f)
  PROVE  EventsInv'
<1> SUFFICES ASSUME NEW e \in Events PROVE EventInv(e)'
  BY DEF EventsInv
<1> DEFINE c == NewCall(None, Message(f))
           q == calls[n]["main"]
<1>1. /\ UNCHANGED <<conf, channels, got>> /\ f \notin published
      /\ published' = published \cup {f}
      /\ written' = written \cup (conf.on[n] \X {f})
      /\ Write(n, conf.on[n], Message(f)) /\ <<n, f>> \in conf.publishes
  BY DEF Publish, Publishes
<1>2. c \in Calls /\ c.net = None /\ c.msg = Message(f) /\ "main" \in Flows
  BY MessageFacts, NewCallFacts DEF Flows
<1>3. Types' /\ IsAfter(calls', n, "main", Append(q, c))
  BY PublishTypes
<1>4. EventInv(e)
  BY DEF EventsInv
<1>5. ListsGrow
  BY <1>1 DEF ListsGrow
<1> HIDE DEF c
<1>6. CASE e = f
  <2>1. CallPublished(n, "main", Len(q) + 1, e)
    <3>1. \A k \in Nodes, r \in Flows : \A i \in DOMAIN calls'[k][r] :
             \/ i \in DOMAIN calls[k][r] /\ calls'[k][r][i] = calls[k][r][i]
             \/ k = n /\ r = "main" /\ i = Len(q) + 1 /\ calls'[k][r][i] = c
      BY <1>2, <1>3, AfterEntering
    <3> QED BY <1>2, <3>1 DEF InCall, CallPublished
  <2>2. n \in Publishers(conf, e)
    BY <1>1, <1>6 DEF Publishers
  <2> HIDE DEF q
  <2>3. \A k \in Nodes : got'[<<k, e>>] = got[<<k, e>>]
    BY <1>1
  <2> QED BY <1>1, <1>2, <1>3, <1>4, <1>6, <2>1, <2>2, <2>3, PublishEvent
<1>7. CASE e # f
  <2>1. /\ \A w \in Networks : <<w, e>> \in written' <=> <<w, e>> \in written
        /\ PacketsFollow(e, Untaken) /\ Message(f) # Message(e)
    BY <1>1, <1>7, OtherPublished
  <2>2. CallsFollow(e)
    BY <1>2, <1>3, <2>1, CallsEntered
  <2>3. Untaken \in [Nodes -> [Networks -> Nat]]
    BY PacketsKept
  <2>4. \A k \in Nodes : got'[<<k, e>>] # 0 => got[<<k, e>>] # 0
    BY <1>1
  <2> QED BY <1>1, <1>3, <1>4, <1>5, <2>1, <2>2, <2>3, <2>4, QuietEvent
<1> QED BY <1>6, <1>7

\* One packet less in an inbox.
LEMMA OneTaken ==
  ASSUME Types, NEW n \in Nodes, NEW w \in Networks, inbox[n][w] # <<>>,
         Takes(n, w), NEW e \in Events
  PROVE  \E taken \in [Nodes -> [Networks -> Nat]] : PacketsFollow(e, taken)
<1> DEFINE taken == [k \in Nodes |-> [v \in Networks |-> IF k = n /\ v = w THEN 1 ELSE 0]]
<1>1. taken \in [Nodes -> [Networks -> Nat]]
  OBVIOUS
<1>2. ASSUME NEW k \in Nodes, NEW v \in Networks, NEW i \in Nat,
             i \in DOMAIN inbox'[k][v], inbox'[k][v][i] = Message(e)
      PROVE  InInbox(k, v, i + taken[k][v], e)
  <2>1. CASE k = n /\ v = w
    <3>1. inbox[n][w] \in Seq(Messages) /\ inbox[n][w] # <<>>
      BY DEF Types
    <3>2. \A j \in DOMAIN Tail(inbox[n][w]) :
             j + 1 \in DOMAIN inbox[n][w] /\ Tail(inbox[n][w])[j] = inbox[n][w][j + 1]
      BY <3>1, Rest
    <3>3. taken[k][v] = 1
      BY <2>1
    <3> QED BY <1>2, <2>1, <3>2, <3>3 DEF InInbox, Takes
  <2>2. CASE ~(k = n /\ v = w)
    <3>1. i + taken[k][v] = i
      BY <2>2
    <3>2. inbox'[k][v] = inbox[k][v]
      BY <2>2 DEF Takes
    <3> QED BY <1>2, <3>1, <3>2 DEF InInbox
  <2> QED BY <2>1, <2>2
<1> HIDE DEF taken
<1>3. PacketsFollow(e, taken)
  BY <1>2 DEF PacketsFollow
<1> QED BY <1>1, <1>3

LEMMA ReceiveEvents ==
  ASSUME WellFormed, Types, EventsInv, NEW n \in Nodes, NEW w \in Networks, Receive(n, w)
  PROVE  EventsInv'
<1> SUFFICES ASSUME NEW e \in Events PROVE EventInv(e)'
  BY DEF EventsInv
<1> DEFINE m == Head(inbox[n][w])
           c == NewCall(w, m)
           q == calls[n]["rx"]
<1>1. UNCHANGED <<conf, channels, published, got, written>>
  BY DEF Receive
<1>2. /\ Types' /\ inbox[n][w] # <<>> /\ m \in Messages
      /\ Takes(n, w)
      /\ IsAfter(calls', n, "rx", Append(q, c)) \/ UNCHANGED calls
  BY ReceiveTypes DEF Takes
<1>3. c \in Calls /\ c.net = w /\ c.msg = m /\ "rx" \in Flows
  BY <1>2, NewCallFacts DEF Flows
<1>4. EventInv(e) /\ ListsGrow
  BY <1>1 DEF EventsInv, ListsGrow
<1> HIDE DEF c, m
<1>5. CASE CallsFollow(e)
  <2>1. PICK taken \in [Nodes -> [Networks -> Nat]] : PacketsFollow(e, taken)
    BY <1>2, OneTaken
  <2> QED BY <1>1, <1>2, <1>4, <1>5, <2>1, QuietEvent
<1>6. CASE UNCHANGED calls
  BY <1>2, <1>5, <1>6, CallsUnchanged
<1>7. CASE IsAfter(calls', n, "rx", Append(q, c)) /\ m # Message(e)
  BY <1>2, <1>3, <1>5, <1>7, CallsEntered
<1>8. CASE IsAfter(calls', n, "rx", Append(q, c)) /\ m = Message(e)
  <2>1. \A k \in Nodes, r \in Flows : \A i \in DOMAIN calls'[k][r] :
           \/ i \in DOMAIN calls[k][r] /\ calls'[k][r][i] = calls[k][r][i]
           \/ k = n /\ r = "rx" /\ i = Len(q) + 1 /\ calls'[k][r][i] = c
    BY <1>3, <1>8, AfterEntering
  <2>2. Received(n, w, Len(q) + 1, e)
    BY <1>3, <2>1 DEF InCall, Received
  <2>3. Head(inbox[n][w]) = Message(e)
    BY <1>8 DEF m
  <2> QED BY <1>1, <1>2, <1>4, <2>2, <2>3, ReceiveEvent
<1> QED BY <1>2, <1>6, <1>7, <1>8

\* The call that comes to the channel of the application, and has then passed it.
LEMMA NotifyCall ==
  ASSUME Types, FlowInv, EventsInv, NEW n \in Nodes, NEW p \in Flows, Notify(n, p),
         NEW e, e = Call(n, p).msg.about, NEW l, l = Len(calls[n][p])
  PROVE  LET c == PassedCall(n, p)
         IN  /\ e \in Events /\ l \in Nat /\ InCall(n, p, l, e)
             /\ e \in published /\ Has(n, SubjectOf[e])
             /\ Beyond(n, p, l, "app", e)'
             /\ got[<<n, e>>] = 0
             /\ Busy(n, p) /\ c \in Calls /\ c.net = Call(n, p).net /\ c.msg = Call(n, p).msg
             /\ c.next >= Call(n, p).next
             /\ UNCHANGED <<conf, channels>>
<1> DEFINE q == calls[n][p]
           c == PassedCall(n, p)
           i == Min(Remaining(n, p))
<1>1. AtCallback(n, p, "app") /\ UNCHANGED <<conf, channels>>
  BY DEF Notify
<1>2. /\ Busy(n, p) /\ c \in Calls /\ c.net = Call(n, p).net /\ c.msg = Call(n, p).msg
      /\ c.next = i + 1
      /\ i \in DOMAIN channels[n] /\ i \in Nat /\ i >= Call(n, p).next
      /\ channels[n][i] \in Channels /\ channels[n][i].kind = "app"
      /\ channels[n][i].subject = Call(n, p).msg.subject
  BY <1>1, CallbackFacts
<1>3. c.next >= Call(n, p).next
  BY <1>1, PassedOn
<1>4. e \in Events /\ Call(n, p).msg = Message(e)
  BY NotifyTypes
<1>5. channels[n][i].subject = SubjectOf[e]
  BY <1>2, <1>4, MessageFacts
<1>6. /\ q \in Seq(Calls) /\ q # <<>> /\ l \in Nat /\ l \in DOMAIN q
      /\ q[l] = Call(n, p) /\ Call(n, p).next \in Nat
  <2>1. /\ q \in Seq(Calls) /\ q # <<>> /\ Len(q) \in Nat \ {0} /\ DOMAIN q = 1 .. Len(q)
        /\ Call(n, p) = q[Len(q)] /\ Call(n, p) \in Calls
    BY <1>2, CallFacts
  <2> QED BY <2>1 DEF Calls
<1>7. InCall(n, p, l, e)
  BY <1>4, <1>6 DEF InCall
<1>8. e \in published
  BY <1>4, <1>6, <1>7 DEF EventsInv, EventInv, CallInv
<1>9. channels[n][i] = [kind |-> "app", subject |-> SubjectOf[e]]
  BY <1>2, <1>5 DEF Channels, Proxies
<1>10. Has(n, SubjectOf[e])
  BY <1>2, <1>9 DEF Has
<1>11. got[<<n, e>>] = 0
  <2> SUFFICES ASSUME got[<<n, e>>] # 0 PROVE FALSE
    OBVIOUS
  <2>1. Beyond(n, p, l, "app", e)
    BY <1>4, <1>6, <1>7 DEF EventsInv, EventInv, GotInv
  <2>2. PICK j \in DOMAIN channels[n] :
           /\ channels[n][j].kind = "app" /\ channels[n][j].subject = SubjectOf[e]
           /\ j < q[l].next
    BY <2>1 DEF Beyond
  <2>3. j = i
    BY <1>2, <1>5, <2>2 DEF FlowInv, OneApp
  <2>4. i < Call(n, p).next
    BY <1>6, <2>2, <2>3
  <2> HIDE DEF i
  <2> QED BY <1>2, <1>6, <2>4
<1>12. Beyond(n, p, l, "app", e)'
  <2> DEFINE s == SetLast(q, c)
  <2>1. s \in Seq(Calls) /\ s[l] = c /\ Len(s) = l /\ DOMAIN s = 1 .. l /\ l \in 1 .. l
    <3>1. q \in Seq(Calls) /\ q # <<>> /\ c \in Calls /\ l = Len(q)
      BY <1>2, <1>6
    <3> HIDE DEF q, c
    <3>2. \A r \in Seq(Calls), d \in Calls : r # <<>> =>
             /\ SetLast(r, d) \in Seq(Calls) /\ SetLast(r, d)[Len(r)] = d
             /\ Len(SetLast(r, d)) = Len(r) /\ DOMAIN SetLast(r, d) = 1 .. Len(r)
             /\ Len(r) \in 1 .. Len(r)
      BY LastOne
    <3> QED BY <3>1, <3>2
  <2>2. \/ IsAfter(calls', n, p, s)
        \/ \E f \in Events : IsAfter(calls', n, p, Append(s, NewCall(None, Message(f))))
    BY NotifyTypes
  <2> HIDE DEF s, c, q, i
  <2>3. calls'[n][p][l] = c
    <3>1. CASE IsAfter(calls', n, p, s)
      BY <2>1, <3>1 DEF IsAfter
    <3>2. ASSUME NEW f \in Events, IsAfter(calls', n, p, Append(s, NewCall(None, Message(f))))
          PROVE  calls'[n][p][l] = c
      <4> DEFINE d == NewCall(None, Message(f))
      <4>1. d \in Calls
        BY MessageFacts, NewCallFacts
      <4> HIDE DEF d
      <4>2. \A k \in 1 .. Len(s) : Append(s, d)[k] = s[k]
        BY <2>1, <4>1, Appended
      <4>3. calls'[n][p] = Append(s, d)
        BY <3>2 DEF IsAfter, d
      <4> QED BY <2>1, <4>2, <4>3
    <3> QED BY <2>2, <3>1, <3>2
  <2>4. i < c.next
    BY <1>2
  <2>5. i \in DOMAIN channels'[n] /\ channels'[n][i].kind = "app"
        /\ channels'[n][i].subject = SubjectOf[e]
    BY <1>1, <1>2, <1>5
  <2>6. i < calls'[n][p][l].next
    BY <2>3, <2>4
  <2> QED BY <2>5, <2>6 DEF Beyond
<1> QED BY <1>1, <1>2, <1>3, <1>4, <1>6, <1>7, <1>8, <1>10, <1>11, <1>12

LEMMA NotifyEvents ==
  ASSUME WellFormed, Types, FlowInv, EventsInv, NEW n \in Nodes, NEW p \in Flows, Notify(n, p)
  PROVE  EventsInv'
<1> SUFFICES ASSUME NEW e \in Events PROVE EventInv(e)'
  BY DEF EventsInv
<1>1. PICK e0, l : e0 = Call(n, p).msg.about /\ l = Len(calls[n][p])
  OBVIOUS
<1> DEFINE c == PassedCall(n, p)
           s == SetLast(calls[n][p], c)
<1>2. /\ e0 \in Events /\ l \in Nat /\ InCall(n, p, l, e0)
      /\ e0 \in published /\ Has(n, SubjectOf[e0])
      /\ Beyond(n, p, l, "app", e0)'
      /\ got[<<n, e0>>] = 0
      /\ Busy(n, p) /\ c \in Calls /\ c.net = Call(n, p).net /\ c.msg = Call(n, p).msg
      /\ c.next >= Call(n, p).next
      /\ UNCHANGED <<conf, channels>>
  BY <1>1, NotifyCall
<1>3. /\ Types' /\ Call(n, p).msg = Message(e0)
      /\ got' = [got EXCEPT ![<<n, e0>>] = @ + 1]
      /\ s \in Seq(Calls)
      /\ \/ /\ IsAfter(calls', n, p, s)
            /\ UNCHANGED <<inbox, published, written>>
         \/ \E f \in Events :
              /\ <<n, e0, f>> \in conf.reacts
              /\ f \notin published /\ published' = published \cup {f}
              /\ written' = written \cup (conf.on[n] \X {f})
              /\ Write(n, conf.on[n], Message(f))
              /\ IsAfter(calls', n, p, Append(s, NewCall(None, Message(f))))
  BY <1>1, NotifyTypes
<1>4. EventInv(e) /\ ListsGrow
  BY <1>2 DEF EventsInv, ListsGrow
<1>5. \A k \in Nodes, f \in Events : got'[<<k, f>>] # got[<<k, f>>] => k = n /\ f = e0
  BY <1>3
<1>6. \A k \in Nodes : got'[<<k, e>>] # 0 => got[<<k, e>>] # 0 \/ Notified(k, e)
  <2> SUFFICES ASSUME NEW k \in Nodes, got'[<<k, e>>] # 0, got[<<k, e>>] = 0
               PROVE  Notified(k, e)
    OBVIOUS
  <2>1. k = n /\ e = e0
    BY <1>5
  <2>2. Beyond(k, p, l, "app", e)'
    BY <1>2, <2>1 DEF Beyond
  <2> QED BY <1>2, <2>1, <2>2 DEF Notified
<1> HIDE DEF c
<1>7. CASE /\ IsAfter(calls', n, p, s)
           /\ UNCHANGED <<inbox, published, written>>
  <2>1. CallsFollow(e)
    BY <1>2, <1>3, <1>7, CallsChanged
  <2>2. PacketsFollow(e, Untaken) /\ Untaken \in [Nodes -> [Networks -> Nat]]
    BY <1>7, PacketsKept
  <2> QED BY <1>2, <1>3, <1>4, <1>6, <1>7, <2>1, <2>2, QuietEvent
<1>8. ASSUME NEW f \in Events,
             /\ <<n, e0, f>> \in conf.reacts
             /\ f \notin published /\ published' = published \cup {f}
             /\ written' = written \cup (conf.on[n] \X {f})
             /\ Write(n, conf.on[n], Message(f))
             /\ IsAfter(calls', n, p, Append(s, NewCall(None, Message(f))))
      PROVE  EventInv(e)'
  <2> DEFINE d == NewCall(None, Message(f))
  <2>1. d \in Calls /\ d.net = None /\ d.msg = Message(f)
    BY MessageFacts, NewCallFacts
  <2>2. IsAfter(calls', n, p, Append(s, d))
    BY <1>8
  <2> HIDE DEF d
  <2>3. CASE e = f
    <3>1. e # e0
      BY <1>2, <1>8, <2>3
    <3>2. \A k \in Nodes : got'[<<k, e>>] = got[<<k, e>>]
      BY <1>5, <3>1
    <3>3. \A k \in Nodes, r \in Flows : \A i \in DOMAIN calls'[k][r] :
             \/ /\ i \in DOMAIN calls[k][r]
                /\ \/ calls'[k][r][i] = calls[k][r][i]
                   \/ calls[k][r][i] = Call(n, p) /\ calls'[k][r][i] = c
             \/ k = n /\ r = p /\ i = Len(calls[n][p]) + 1 /\ calls'[k][r][i] = d
      BY <1>2, <2>1, <2>2, AfterReacting
    <3>4. CallPublished(n, p, Len(calls[n][p]) + 1, e)
      BY <1>2, <2>1, <3>3 DEF InCall, CallPublished
    <3>5. n \in Publishers(conf, e)
      BY <1>2, <1>8, <2>3 DEF Publishers
    <3> QED BY <1>2, <1>3, <1>4, <1>8, <2>3, <3>2, <3>4, <3>5, PublishEvent
  <2>4. CASE e # f
    <3>1. /\ \A w \in Networks : <<w, e>> \in written' <=> <<w, e>> \in written
          /\ PacketsFollow(e, Untaken) /\ Message(f) # Message(e)
      BY <1>8, <2>4, OtherPublished
    <3>2. CallsFollow(e)
      BY <1>2, <1>3, <2>1, <2>2, <3>1, CallsChanged
    <3>3. Untaken \in [Nodes -> [Networks -> Nat]] /\ (e \in published => e \in published')
      BY <1>8, PacketsKept
    <3> QED BY <1>2, <1>3, <1>4, <1>6, <3>1, <3>2, <3>3, QuietEvent
  <2> QED BY <2>3, <2>4
<1> QED BY <1>3, <1>7, <1>8

LEMMA SubscribeFromNetworkEvents ==
  ASSUME WellFormed, Types, EventsInv, NEW g \in Nodes, NEW p \in Flows, SubscribeFromNetwork(g, p)
  PROVE  EventsInv'
<1> SUFFICES ASSUME NEW e \in Events PROVE EventInv(e)'
  BY DEF EventsInv
<1>1. AtCallback(g, p, "gateway") /\ UNCHANGED <<conf, channels, inbox, published, got, written>>
  BY DEF SubscribeFromNetwork
<1>2. /\ Busy(g, p) /\ PassedCall(g, p) \in Calls
      /\ PassedCall(g, p).net = Call(g, p).net /\ PassedCall(g, p).msg = Call(g, p).msg
      /\ PassedCall(g, p).next = Min(Remaining(g, p)) + 1
  BY <1>1, CallbackFacts
<1>3. PICK c \in Calls : /\ c.net = Call(g, p).net /\ c.msg = Call(g, p).msg
                         /\ c.next = PassedCall(g, p).next
                         /\ IsAfter(calls', g, p, SetLast(calls[g][p], c))
  BY <1>2, SubscribeFromNetworkTypes
<1>4. Types' /\ c.next >= Call(g, p).next
  BY <1>1, <1>3, PassedOn, SubscribeFromNetworkTypes
<1>5. CallsFollow(e)
  BY <1>2, <1>3, <1>4, CallsChanged
<1>6. PacketsFollow(e, Untaken) /\ ListsGrow /\ EventInv(e)
  BY <1>1, PacketsKept DEF ListsGrow, EventsInv
<1> QED BY <1>1, <1>4, <1>5, <1>6, QuietStep

LEMMA FinishBindEvents ==
  ASSUME WellFormed, Types, EventsInv, NEW g \in Nodes, NEW p \in Flows, FinishBind(g, p)
  PROVE  EventsInv'
<1> SUFFICES ASSUME NEW e \in Events PROVE EventInv(e)'
  BY DEF EventsInv
<1> DEFINE c == BoundCall(g, p)
           b == Call(g, p).binds
<1>1. Busy(g, p) /\ UNCHANGED <<conf, published, got, written>>
  BY DEF FinishBind
<1>2. /\ Types' /\ b \in Channels /\ Listen(g, b)
      /\ c \in Calls /\ c.net = Call(g, p).net /\ c.msg = Call(g, p).msg
      /\ c.next = Call(g, p).next
      /\ IsAfter(calls', g, p, SetLast(calls[g][p], c))
  BY FinishBindTypes
<1>3. Call(g, p).next \in Nat
  BY <1>1, CallFacts DEF Calls
<1> HIDE DEF c, b
<1>4. c.next >= Call(g, p).next
  BY <1>2, <1>3
<1>5. CallsFollow(e)
  BY <1>1, <1>2, <1>4, CallsChanged
<1>6. ListsGrow /\ PacketsFollow(e, Untaken) /\ EventInv(e)
  BY <1>2, ListensGrow DEF EventsInv
<1> QED BY <1>1, <1>2, <1>5, <1>6, QuietStep

LEMMA ReturnEvents ==
  ASSUME WellFormed, Types, EventsInv, NEW n \in Nodes, NEW p \in Flows, Return(n, p)
  PROVE  EventsInv'
<1> SUFFICES ASSUME NEW e \in Events PROVE EventInv(e)'
  BY DEF EventsInv
<1>1. UNCHANGED <<conf, channels, inbox, published, got, written>>
  BY DEF Return
<1>2. Types' /\ CallsFollow(e)
  BY ReturnTypes, CallsLeft
<1>3. PacketsFollow(e, Untaken) /\ ListsGrow /\ EventInv(e)
  BY <1>1, PacketsKept DEF ListsGrow, EventsInv
<1> QED BY <1>1, <1>2, <1>3, QuietStep

\* A forward channel passes on what the receive context processes, and no other
\* forward channel of the gateway has passed it on.
LEMMA ForwardCall ==
  ASSUME Types, ProxyInv, FlowInv, NEW g \in Nodes, NEW p \in Flows, Forward(g, p),
         NEW e, e = Call(g, p).msg.about, NEW l, l = Len(calls[g][p])
  PROVE  /\ e \in Events /\ l \in Nat /\ InCall(g, p, l, e) /\ calls[g][p][l] = Call(g, p)
         /\ ~Beyond(g, p, l, "forward", e) /\ Beyond(g, p, l, "forward", e)'
         /\ bnl[g] # None => Call(g, p).net = bnl[g]
         /\ Channel(g, p).to \in conf.on[g]
<1> DEFINE q == calls[g][p]
           c == PassedCall(g, p)
           i == Min(Remaining(g, p))
<1>1. AtCallback(g, p, "forward") /\ UNCHANGED <<conf, channels, bnl>>
  BY DEF Forward
<1>2. /\ Busy(g, p) /\ c \in Calls /\ c.net = Call(g, p).net /\ c.msg = Call(g, p).msg
      /\ c.next = i + 1
      /\ i \in DOMAIN channels[g] /\ i \in Nat /\ i >= Call(g, p).next
      /\ Channel(g, p) = channels[g][i]
      /\ channels[g][i] \in Channels /\ channels[g][i].kind = "forward"
      /\ channels[g][i].subject = Call(g, p).msg.subject
  BY <1>1, CallbackFacts
<1>3. g \in conf.gateways /\ e \in Events /\ Call(g, p).msg = Message(e)
      /\ IsAfter(calls', g, p, SetLast(q, c))
  BY ForwardTypes
<1>4. channels[g][i].subject = SubjectOf[e] /\ Call(g, p).msg.subject # SUBSCRIBE
  BY <1>2, <1>3, MessageFacts
<1>5. /\ q \in Seq(Calls) /\ q # <<>> /\ l \in Nat /\ l \in DOMAIN q
      /\ q[l] = Call(g, p) /\ Call(g, p).next \in Nat
  <2>1. /\ q \in Seq(Calls) /\ q # <<>> /\ Len(q) \in Nat \ {0} /\ DOMAIN q = 1 .. Len(q)
        /\ Call(g, p) = q[Len(q)] /\ Call(g, p) \in Calls
    BY <1>2, CallFacts
  <2> QED BY <2>1 DEF Calls
<1>6. InCall(g, p, l, e)
  BY <1>3, <1>5 DEF InCall
<1>7. ~Beyond(g, p, l, "forward", e)
  <2> SUFFICES ASSUME Beyond(g, p, l, "forward", e) PROVE FALSE
    OBVIOUS
  <2>1. PICK j \in DOMAIN channels[g] :
           /\ channels[g][j].kind = "forward" /\ channels[g][j].subject = SubjectOf[e]
           /\ j < q[l].next
    BY DEF Beyond
  <2> HIDE DEF i
  <2>2. j = i
    BY <1>2, <1>3, <1>4, <2>1 DEF ProxyInv, ProxiesDiffer
  <2>3. i < Call(g, p).next
    BY <1>5, <2>1, <2>2
  <2> QED BY <1>2, <1>5, <2>3
<1>8. Beyond(g, p, l, "forward", e)'
  <2>1. calls'[g][p][l] = c
    <3>1. \A r \in Seq(Calls), d \in Calls : r # <<>> => SetLast(r, d)[Len(r)] = d
      BY LastOne
    <3>2. calls'[g][p] = SetLast(q, c)
      BY <1>3 DEF IsAfter
    <3> HIDE DEF c
    <3> QED BY <1>2, <1>5, <3>1, <3>2
  <2> HIDE DEF i, c, q
  <2>2. i < c.next
    BY <1>2
  <2> QED BY <1>1, <1>2, <1>4, <2>1, <2>2 DEF Beyond
<1>9. ASSUME bnl[g] # None PROVE Call(g, p).net = bnl[g]
  <2>1. RxStack(calls[g]["rx"], bnl[g])
    BY <1>3 DEF FlowInv, RxInv
  <2>2. CASE p = "rx"
    <3>1. Last(q) = Call(g, p) /\ q = calls[g]["rx"]
      BY <2>2 DEF Call
    <3> QED BY <1>4, <1>5, <2>1, <3>1 DEF RxStack
  <2>3. CASE p = "main"
    <3>1. ~conf.threads
      BY <1>2, <1>3, <2>3 DEF FlowInv, IdleInv
    <3>2. calls[g]["rx"] = <<>>
      BY <1>1, <2>3, <3>1 DEF AtCallback, CanRun, Busy
    <3> QED BY <1>9, <2>1, <3>2 DEF RxStack
  <2> QED BY <2>2, <2>3 DEF Flows
<1>10. Channel(g, p).to \in conf.on[g]
  BY <1>2 DEF FlowInv, OnInv
<1> QED BY <1>3, <1>5, <1>6, <1>7, <1>8, <1>9, <1>10

LEMMA ForwardEvents ==
  ASSUME WellFormed, Types, ProxyInv, FlowInv, EventsInv, NEW g \in Nodes, NEW p \in Flows,
         Forward(g, p)
  PROVE  EventsInv'
<1> SUFFICES ASSUME NEW e \in Events PROVE EventInv(e)'
  BY DEF EventsInv
<1>1. PICK e0, l : e0 = Call(g, p).msg.about /\ l = Len(calls[g][p])
  OBVIOUS
<1>2. PICK u : u = Channel(g, p).to
  OBVIOUS
<1> DEFINE c == PassedCall(g, p)
<1>3. /\ e0 \in Events /\ l \in Nat /\ InCall(g, p, l, e0) /\ calls[g][p][l] = Call(g, p)
      /\ ~Beyond(g, p, l, "forward", e0) /\ Beyond(g, p, l, "forward", e0)'
      /\ bnl[g] # None => Call(g, p).net = bnl[g]
      /\ u \in conf.on[g]
  BY <1>1, <1>2, ForwardCall
<1>4. /\ Types' /\ IsAfter(calls', g, p, SetLast(calls[g][p], c))
      /\ \/ UNCHANGED <<inbox, written>>
         \/ /\ bnl[g] # None /\ bnl[g] # u
            /\ Write(g, {u}, Message(e0))
            /\ written' = written \cup {<<u, e0>>}
  BY <1>1, <1>2, ForwardTypes
<1>5. AtCallback(g, p, "forward") /\ UNCHANGED <<conf, channels, published, got>>
  BY DEF Forward
<1>6. /\ Busy(g, p) /\ c \in Calls /\ c.net = Call(g, p).net /\ c.msg = Call(g, p).msg
      /\ c.next >= Call(g, p).next
  BY <1>5, CallbackFacts, PassedOn
<1> HIDE DEF c
<1>7. CallsFollow(e)
  BY <1>4, <1>6, CallsChanged
<1>8. EventInv(e) /\ EventInv(e0) /\ ListsGrow
  BY <1>3, <1>5 DEF EventsInv, ListsGrow
<1>9. CASE UNCHANGED <<inbox, written>>
  BY <1>4, <1>5, <1>7, <1>8, <1>9, PacketsKept, QuietStep
<1>10. CASE /\ bnl[g] # None /\ bnl[g] # u
            /\ Write(g, {u}, Message(e0))
            /\ written' = written \cup {<<u, e0>>}
  <2>1. CASE e = e0
    <3>1. Call(g, p).net # None /\ u # Call(g, p).net
      BY <1>3, <1>10
    <3>2. Unsent(g, e)
      BY <1>3, <1>8, <2>1, <3>1 DEF EventInv, CallInv
    <3>3. Beyond(g, p, l, "forward", e)'
      BY <1>3, <2>1 DEF Beyond
    <3>4. InCall(g, p, l, e) /\ calls[g][p][l].net # None /\ u # calls[g][p][l].net
      BY <1>3, <2>1, <3>1
    <3>5. Write(g, {u}, Message(e)) /\ written' = written \cup {<<u, e>>}
      BY <1>10, <2>1
    <3> QED BY <1>3, <1>4, <1>5, <1>7, <1>8, <3>2, <3>3, <3>4, <3>5, ForwardEvent
  <2>2. CASE e # e0
    <3>1. Message(e0) \in Messages /\ Message(e0) # Message(e)
      BY <1>3, <2>2, MessageFacts, MessagesDiffer
    <3>2. PacketsFollow(e, Untaken) /\ Untaken \in [Nodes -> [Networks -> Nat]]
      BY <1>10, <3>1, PacketsKept
    <3>3. \A w \in Networks : <<w, e>> \in written' <=> <<w, e>> \in written
      BY <1>10, <2>2
    <3> QED BY <1>4, <1>5, <1>7, <1>8, <3>2, <3>3, QuietEvent
  <2> QED BY <2>1, <2>2
<1> QED BY <1>4, <1>9, <1>10

LEMMA EventsKept ==
  ASSUME WellFormed
  PROVE  Types /\ ProxyInv /\ FlowInv /\ EventsInv /\ [Next]_vars => EventsInv'
<1> SUFFICES ASSUME Types, ProxyInv, FlowInv, EventsInv, [Next]_vars PROVE EventsInv'
  OBVIOUS
<1>1. CASE UNCHANGED vars
  <2> SUFFICES ASSUME NEW e \in Events PROVE EventInv(e)'
    BY DEF EventsInv
  <2>1. Types' /\ UNCHANGED <<conf, channels, inbox, calls, published, got, written>>
    BY <1>1, TypesKept DEF vars
  <2>2. CallsFollow(e) /\ PacketsFollow(e, Untaken) /\ ListsGrow /\ EventInv(e)
    BY <2>1, CallsUnchanged, PacketsKept DEF ListsGrow, EventsInv
  <2> QED BY <2>1, <2>2, QuietStep
<1>2. CASE Next
  BY <1>2, Steps, StartGatewayEvents, SubscribeEvents, PublishEvents, ReceiveEvents, NotifyEvents,
     SubscribeFromNetworkEvents, FinishBindEvents, ForwardEvents, ReturnEvents
<1> QED BY <1>1, <1>2

-----------------------------------------------------------------------------
(* All networks together are one bus.                                      *)

Inv == Types /\ ProxyInv /\ FlowInv /\ EventsInv

LEMMA InitInv == Init => Inv
<1> SUFFICES ASSUME Init PROVE Inv
  OBVIOUS
<1>1. Types /\ ProxyInv
  BY InitTypes, InitProxy
<1>2. /\ \A n \in Nodes : channels[n] = <<>> /\ DOMAIN channels[n] = {}
      /\ \A n \in Nodes, p \in Flows : calls[n][p] = <<>> /\ DOMAIN calls[n][p] = {}
      /\ \A n \in Nodes, w \in Networks : inbox[n][w] = <<>> /\ DOMAIN inbox[n][w] = {}
      /\ \A n \in Nodes : bnl[n] = None
      /\ "rx" \in Flows /\ "main" \in Flows /\ conf.gateways \subseteq Nodes
  BY <1>1, EmptySeq, Configuration DEF Init, Flows
<1>3. FlowInv
  BY <1>2 DEF FlowInv, RxInv, RxStack, MainInv, MainStack, IdleInv, Busy, OnInv, OneApp
<1>4. ASSUME NEW e \in Events PROVE EventInv(e)
  <2>1. \A n \in Nodes : got[<<n, e>>] = 0
    BY DEF Init, Deliveries
  <2>2. written = {}
    BY DEF Init
  <2> QED BY <1>2, <2>1, <2>2 DEF EventInv, PacketInv, InInbox, CallInv, InCall, WrittenInv, GotInv
<1> QED BY <1>1, <1>3, <1>4 DEF Inv, EventsInv

LEMMA InvKept ==
  ASSUME WellFormed
  PROVE  Inv /\ [Next]_vars => Inv'
BY TypesKept, ProxyKept, FlowKept, EventsKept DEF Inv

LEMMA ListenSubscribed ==
  ASSUME Types, NEW n \in Nodes, NEW c \in Channels, Listen(n, c)
  PROVE  \A k \in Nodes, s \in Subjects :
            Has(k, s)' <=> Has(k, s) \/ (k = n /\ c = [kind |-> "app", subject |-> s])
<1> SUFFICES ASSUME NEW k \in Nodes, NEW s \in Subjects
             PROVE  Has(k, s)' <=> Has(k, s) \/ (k = n /\ c = [kind |-> "app", subject |-> s])
  OBVIOUS
<1>1. /\ channels'[n] = Append(channels[n], c)
      /\ k # n => channels'[k] = channels[k]
  BY ListenFacts
<1> DEFINE q == channels[n]
           a == Append(q, c)
           x == [kind |-> "app", subject |-> s]
<1>2. q \in Seq(Channels)
  BY DEF Types
<1>3. /\ Len(q) \in Nat /\ DOMAIN q = 1 .. Len(q) /\ DOMAIN a = 1 .. Len(q) + 1
      /\ a[Len(q) + 1] = c /\ \A i \in 1 .. Len(q) : a[i] = q[i]
  BY <1>2, Appended
<1>4. CASE k # n
  BY <1>1, <1>4 DEF Has
<1>5. CASE k = n
  <2> HIDE DEF a, q, x
  <2>1. \A i \in 1 .. Len(q) + 1 : i \in 1 .. Len(q) \/ i = Len(q) + 1
    BY <1>3
  <2>2. 1 .. Len(q) \subseteq 1 .. Len(q) + 1 /\ Len(q) + 1 \in 1 .. Len(q) + 1
    BY <1>3
  <2>3. (\E i \in DOMAIN a : a[i] = x) <=> (\E i \in DOMAIN q : q[i] = x) \/ c = x
    BY <1>3, <2>1, <2>2
  <2>4. channels'[n] = a
    BY <1>1 DEF a, q
  <2> QED BY <1>5, <2>3, <2>4 DEF Has, q, x
<1> QED BY <1>4, <1>5

\* A callback of an application is a notification of the bus.
LEMMA NotifyOnBus ==
  ASSUME WellFormed, Inv, NEW n \in Nodes, NEW p \in Flows, Notify(n, p)
  PROVE  Bus!Next
<1>1. PICK e, l : e = Call(n, p).msg.about /\ l = Len(calls[n][p])
  OBVIOUS
<1>2. /\ e \in Events /\ e \in published /\ Has(n, SubjectOf[e]) /\ got[<<n, e>>] = 0
      /\ UNCHANGED channels
  BY <1>1, NotifyCall DEF Inv
<1>3. /\ got' = [got EXCEPT ![<<n, e>>] = @ + 1]
      /\ \/ UNCHANGED published
         \/ \E f \in Events : f \notin published /\ published' = published \cup {f}
  BY <1>1, NotifyTypes DEF Inv
<1>4. got' = [got EXCEPT ![<<n, e>>] = 1]
  BY <1>2, <1>3
<1>5. UNCHANGED subscribed
  BY <1>2 DEF subscribed, Has
<1>6. <<n, SubjectOf[e]>> \in subscribed
  BY <1>2, GatewayAssumption DEF subscribed
<1>7. Bus!Notify(n, e)
  BY <1>2, <1>4, <1>5, <1>6 DEF Bus!Notify
<1>8. CASE UNCHANGED published
  BY <1>2, <1>7, <1>8 DEF Bus!Next
<1>9. ASSUME NEW f \in Events, f \notin published, published' = published \cup {f}
      PROVE  Bus!Next
  <2>1. Bus!Publish(f)
    BY <1>5, <1>9 DEF Bus!Publish
  <2> QED BY <1>2, <1>7, <2>1 DEF Bus!Next
<1> QED BY <1>3, <1>8, <1>9

LEMMA StepsOnBus ==
  ASSUME WellFormed
  PROVE  Inv /\ [Next]_vars => [Bus!Next]_(Bus!vars)
<1> SUFFICES ASSUME Inv, [Next]_vars PROVE Bus!Next \/ UNCHANGED <<published, subscribed, got>>
  BY DEF Bus!vars
<1>1. Types
  BY DEF Inv
<1>2. ASSUME UNCHANGED <<channels, published, got>>
      PROVE  UNCHANGED <<published, subscribed, got>>
  BY <1>2 DEF subscribed, Has
<1>3. ASSUME NEW n \in Nodes, NEW c \in Channels, Listen(n, c), c.kind # "app",
             UNCHANGED <<published, got>>
      PROVE  UNCHANGED <<published, subscribed, got>>
  <2>1. \A k \in Nodes, s \in Subjects : Has(k, s)' <=> Has(k, s)
    BY <1>1, <1>3, ListenSubscribed
  <2> QED BY <1>3, <2>1 DEF subscribed
<1>4. ASSUME NEW g \in conf.gateways, StartGateway(g)
      PROVE  UNCHANGED <<published, subscribed, got>>
  <2>1. /\ [kind |-> "gateway", subject |-> SUBSCRIBE] \in Channels
        /\ g \in Nodes
    BY <1>1, Configuration DEF Channels
  <2> QED BY <1>3, <1>4, <2>1 DEF StartGateway
<1>5. ASSUME NEW n \in Nodes, NEW s \in Subjects, Subscribe(n, s) PROVE Bus!Next
  <2> DEFINE x == [kind |-> "app", subject |-> s]
  <2>1. x \in Channels /\ Listen(n, x) /\ UNCHANGED <<published, got>>
    BY <1>5 DEF Channels, Subscribe
  <2>2. \A k \in Nodes, t \in Subjects : Has(k, t)' <=> Has(k, t) \/ (k = n /\ t = s)
    BY <1>1, <2>1, ListenSubscribed
  <2>3. subscribed' = subscribed \cup {<<n, s>>}
    BY <2>2 DEF subscribed
  <2>4. Bus!Subscribe(n, s)
    BY <2>1, <2>3 DEF Bus!Subscribe
  <2> QED BY <2>4 DEF Bus!Next
<1>6. ASSUME NEW n \in Nodes, NEW e \in Events, Publish(n, e) PROVE Bus!Next
  <2>1. /\ e \notin published /\ published' = published \cup {e}
        /\ UNCHANGED <<channels, got>>
    BY <1>6 DEF Publish, Publishes
  <2>2. UNCHANGED subscribed
    BY <2>1 DEF subscribed, Has
  <2>3. Bus!Publish(e)
    BY <2>1, <2>2 DEF Bus!Publish
  <2> QED BY <2>1, <2>3 DEF Bus!Next
<1>7. ASSUME NEW g \in Nodes, NEW p \in Flows, FinishBind(g, p)
      PROVE  UNCHANGED <<published, subscribed, got>>
  <2>1. /\ Call(g, p).binds \in Channels /\ Listen(g, Call(g, p).binds)
        /\ Busy(g, p) /\ Call(g, p).binds # None /\ UNCHANGED <<published, got>>
    BY <1>1, <1>7, FinishBindTypes DEF FinishBind
  <2>2. Call(g, p).binds.kind # "app"
    BY <1>1, <2>1, CallFacts DEF Calls, Proxies
  <2> QED BY <1>3, <2>1, <2>2
<1>8. CASE UNCHANGED vars
  BY <1>2, <1>8 DEF vars
<1>9. CASE Next
  <2>1. ASSUME NEW n \in Nodes, NEW w \in Networks, Receive(n, w)
        PROVE  UNCHANGED <<published, subscribed, got>>
    BY <1>2, <2>1 DEF Receive
  <2>2. ASSUME NEW n \in Nodes, NEW p \in Flows,
               SubscribeFromNetwork(n, p) \/ Forward(n, p) \/ Return(n, p)
        PROVE  UNCHANGED <<published, subscribed, got>>
    BY <1>2, <2>2 DEF SubscribeFromNetwork, Forward, Return
  <2> QED BY <1>1, <1>4, <1>5, <1>6, <1>7, <1>9, <2>1, <2>2, Steps, NotifyOnBus
<1> QED BY <1>8, <1>9

\* "Otherwise the event would arise twice at the subscribers" (Gateway::subscribe):
\* where no event has two ways to a network and no application of a gateway
\* publishes while the gateway forwards, the networks behave as one bus: a node
\* is notified at most once of an event, which was published and to whose subject
\* it subscribes.
THEOREM GatewaysImplementBus ==
  ASSUME WellFormed
  PROVE  Spec => ImplementsBus
<1>1. Init => Bus!Init
  <2> SUFFICES ASSUME Init PROVE Bus!Init
    OBVIOUS
  <2>1. \A n \in Nodes : DOMAIN channels[n] = {}
    BY EmptySeq DEF Init
  <2>2. subscribed = {}
    BY <2>1 DEF subscribed, Has
  <2> QED BY <2>2 DEF Init, Bus!Init, Deliveries
<1> QED BY <1>1, InitInv, InvKept, StepsOnBus, PTL DEF Spec, ImplementsBus, Bus!Spec
=============================================================================
