---------------------------- MODULE AWDSNLProofs ----------------------------
(***************************************************************************)
(* Theorems about the AWDS network layer, for any nodes, subjects, packets *)
(* and intervals: where the process's clock runs like time, subscriptions  *)
(* are kept exactly as long as they should be while their ages are ints,   *)
(* and events go over flows that the flow manager holds.                   *)
(***************************************************************************)
EXTENDS AWDSNL, FiniteSetTheorems, TLAPS

-----------------------------------------------------------------------------
(* The packets.                                                            *)

\* SetToSeq lists all elements of a finite set.
LEMMA SetToSeqLists ==
  ASSUME NEW X, IsFiniteSet(X)
  PROVE  /\ SetToSeq(X) \in [1 .. Cardinality(X) -> X]
         /\ Cardinality(X) \in Nat
         /\ \A x \in X : \E i \in 1 .. Cardinality(X) : SetToSeq(X)[i] = x
         /\ \A i, j \in 1 .. Cardinality(X) : SetToSeq(X)[i] = SetToSeq(X)[j] => i = j
<1> DEFINE D == 1 .. Cardinality(X)
<1>1. Cardinality(X) \in Nat /\ ExistsBijection(D, X)
  BY FS_CardinalityType
<1>2. \E f \in [D -> X] : IsInjective(f)
  BY <1>1 DEF ExistsBijection, Bijection, Injection
<1>3. SetToSeq(X) \in [D -> X] /\ IsInjective(SetToSeq(X))
  BY <1>2 DEF SetToSeq
<1>4. SetToSeq(X) \in Injection(D, X)
  BY <1>3 DEF Injection
<1>5. IsFiniteSet(D) /\ Cardinality(D) = Cardinality(X)
  BY <1>1, FS_Interval
<1>6. SetToSeq(X) \in Surjection(D, X)
  BY <1>4, <1>5, FS_Injection
<1>7. \A i, j \in D : SetToSeq(X)[i] = SetToSeq(X)[j] => i = j
  BY <1>3 DEF IsInjective
<1> QED BY <1>1, <1>3, <1>6, <1>7 DEF Surjection

\* An announcement has all subscriptions and no other subjects.
LEMMA AllInPackets ==
  ASSUME NEW X \in SUBSET Subjects
  PROVE  /\ Packets(X) \in Seq(SUBSET X)
         /\ \A x \in X : \E k \in 1 .. Len(Packets(X)) : x \in Packets(X)[k]
<1> DEFINE s == SetToSeq(X)
           L == Cardinality(X)
           K == (L + PerPacket - 1) \div PerPacket
           P(k) == {s[i] : i \in {j \in 1 .. L : (j - 1) \div PerPacket = k - 1}}
<1>1. IsFiniteSet(X)
  BY AWDSAssumption, FS_Subset
<1>2. /\ s \in [1 .. L -> X] /\ L \in Nat
      /\ \A x \in X : \E i \in 1 .. L : s[i] = x
  BY <1>1, SetToSeqLists
<1>3. s \in Seq(X) /\ Len(s) = L /\ DOMAIN s = 1 .. L
  BY <1>2
<1> HIDE DEF s, L
<1>4. PerPacket \in Nat \ {0}
  BY AWDSAssumption
<1>5. K \in Nat
  BY <1>2, <1>4
<1>6. Packets(X) = [k \in 1 .. K |-> P(k)]
  BY <1>3 DEF Packets, s
<1>7. \A k \in 1 .. K : P(k) \in SUBSET X
  BY <1>2
<1>8. Packets(X) \in Seq(SUBSET X) /\ Len(Packets(X)) = K
  <2> HIDE DEF P, K
  <2> QED BY <1>5, <1>6, <1>7
<1>9. ASSUME NEW x \in X PROVE \E k \in 1 .. K : x \in P(k)
  <2>1. PICK i \in 1 .. L : s[i] = x
    BY <1>2
  <2> DEFINE k == (i - 1) \div PerPacket + 1
  <2>2. i - 1 \in Nat /\ L - 1 \in Nat /\ i - 1 <= L - 1
    BY <1>2
  <2>3. (i - 1) \div PerPacket \in Nat /\ (i - 1) \div PerPacket <= (L - 1) \div PerPacket
    BY <2>2, <1>4
  <2>4. (L - 1 + PerPacket) \div PerPacket = (L - 1) \div PerPacket + 1
    BY <2>2, <1>4
  <2>5. K = (L - 1) \div PerPacket + 1
    <3>1. L + PerPacket - 1 = L - 1 + PerPacket
      BY <1>2, <1>4
    <3> QED BY <3>1, <2>4
  <2>6. (L - 1) \div PerPacket \in Int
    BY <2>2, <1>4
  <2>7. k \in 1 .. K /\ (i - 1) \div PerPacket = k - 1
    <3> HIDE DEF K
    <3> QED BY <2>3, <2>5, <2>6
  <2>8. x \in P(k)
    BY <2>1, <2>7
  <2> QED BY <2>7, <2>8
<1> QED
  <2> HIDE DEF P, K
  <2> QED BY <1>6, <1>8, <1>9

-----------------------------------------------------------------------------
(* The clocks.                                                             *)

\* Multiples of a second.
LEMMA Seconds ==
  /\ CLOCKS_PER_SEC * 0 = 0
  /\ \A u \in Int : CLOCKS_PER_SEC * u \in Int /\ CLOCKS_PER_SEC * (u + 1) = CLOCKS_PER_SEC * u + CLOCKS_PER_SEC
                    /\ CLOCKS_PER_SEC * (u - 1) = CLOCKS_PER_SEC * u - CLOCKS_PER_SEC
  /\ \A u, v \in Int : u <= v => CLOCKS_PER_SEC * u <= CLOCKS_PER_SEC * v
BY AWDSAssumption

\* The clock goes on by a second, or beyond int.
LEMMA ClockGoesOn ==
  ASSUME NEW d \in Nat
  PROVE  /\ ClockAfter(d) \in Nat /\ ClockAfter(d) <= d + CLOCKS_PER_SEC
         /\ ClockAfter(d) >= IntBound \/ ClockAfter(d) = d + CLOCKS_PER_SEC
         /\ d >= IntBound => ClockAfter(d) >= IntBound
BY AWDSAssumption DEF ClockAfter

\* The elapsed seconds of an age that is an int are those of the division, ...
LEMMA ElapsedIsExact ==
  ASSUME NEW d \in Nat, d < IntBound
  PROVE  /\ Elapsed(d) \in Nat
         /\ CLOCKS_PER_SEC * Elapsed(d) <= d
         /\ d < CLOCKS_PER_SEC * (Elapsed(d) + 1)
<1>1. CLOCKS_PER_SEC \in Nat \ {0} /\ IntBound \in Nat \ {0}
  BY AWDSAssumption
<1>2. ToInt(d) = d
  <2>1. d + IntBound \in Nat /\ 2 * IntBound \in Nat \ {0} /\ d + IntBound < 2 * IntBound
    BY <1>1
  <2>2. \A a \in Nat, b \in Nat \ {0} : a < b => a % b = a
    OBVIOUS
  <2> QED BY <1>1, <2>1, <2>2 DEF ToInt
<1>3. Elapsed(d) = d \div CLOCKS_PER_SEC
  BY <1>2 DEF Elapsed
<1> QED BY <1>1, <1>3

\* ... and compare with a number of seconds as the age does.
LEMMA ElapsedBounds ==
  ASSUME NEW d \in Nat, d < IntBound, NEW m \in Nat
  PROVE  /\ Elapsed(d) \in Nat
         /\ CLOCKS_PER_SEC * m <= d => m <= Elapsed(d)
         /\ d <= CLOCKS_PER_SEC * m => Elapsed(d) <= m
         /\ Elapsed(d) <= m => d < CLOCKS_PER_SEC * (m + 1)
<1> DEFINE e == Elapsed(d)
<1>1. e \in Nat /\ CLOCKS_PER_SEC * e <= d /\ d < CLOCKS_PER_SEC * (e + 1)
  BY ElapsedIsExact
<1> HIDE DEF e
<1>2. CLOCKS_PER_SEC \in Nat \ {0}
  BY AWDSAssumption
<1>3. ASSUME CLOCKS_PER_SEC * m <= d PROVE m <= e
  <2>1. CASE e + 1 <= m
    <3>1. CLOCKS_PER_SEC * (e + 1) <= CLOCKS_PER_SEC * m
      BY <1>1, <2>1, Seconds
    <3> QED BY <1>1, <1>2, <1>3, <3>1, Seconds
  <2> QED BY <1>1, <2>1
<1>4. ASSUME d <= CLOCKS_PER_SEC * m PROVE e <= m
  <2>1. CASE m + 1 <= e
    <3>1. m + 1 \in Int /\ e \in Int /\ m \in Int
      BY <1>1
    <3>2. CLOCKS_PER_SEC * (m + 1) <= CLOCKS_PER_SEC * e
      BY <2>1, <3>1, Seconds
    <3>3. CLOCKS_PER_SEC * m \in Int /\ CLOCKS_PER_SEC * e \in Int
          /\ CLOCKS_PER_SEC * (m + 1) = CLOCKS_PER_SEC * m + CLOCKS_PER_SEC
      BY <3>1, Seconds
    <3> QED BY <1>1, <1>2, <1>4, <3>2, <3>3
  <2> QED BY <1>1, <2>1
<1>5. ASSUME e <= m PROVE d < CLOCKS_PER_SEC * (m + 1)
  <2>1. m + 1 \in Int /\ e + 1 \in Int /\ e + 1 <= m + 1
    BY <1>1, <1>5
  <2>2. CLOCKS_PER_SEC * (e + 1) <= CLOCKS_PER_SEC * (m + 1)
    BY <2>1, Seconds
  <2>3. CLOCKS_PER_SEC * (m + 1) \in Int /\ CLOCKS_PER_SEC * (e + 1) \in Int
    BY <2>1, Seconds
  <2> QED BY <1>1, <2>2, <2>3
<1> QED BY <1>1, <1>3, <1>4, <1>5 DEF e

-----------------------------------------------------------------------------
(* The inductive invariant.                                                *)

\* The types of what the invariant is about.  A Subscriber's flow is left open.
Types ==
    /\ conf \in Configs
    /\ subscriptions \in [Nodes -> SUBSET Subjects]
    /\ timer \in [Nodes -> 0 .. interval] /\ expired \in SUBSET Nodes
    /\ net \in [Nodes -> Seq(SUBSET Subjects)]
    /\ subscriber = [p \in Pairs |-> subscriber[p]]
    /\ \A p \in Pairs : subscriber[p] # None => subscriber[p].age \in Nat
    /\ \A p \in Pairs : subscriber[p] # None => p[2] \in _snnmap
    /\ served \in SUBSET Pairs
    /\ unwanted \in [Pairs -> Nat] /\ faults \in Nat

\* An announcement on its way was made in this second by a node that subscribes.
Fresh ==
    /\ \A n \in Nodes : \A s \in subscriptions[n] : unwanted[<<n, s>>] = 0
    /\ \A n \in Nodes : \A i \in 1 .. Len(net[n]) : \A s \in net[n][i] : unwanted[<<n, s>>] = 0

\* A subscription is not older than the last time it was wanted, as far as its age is
\* an int.
AgeBounds == \A p \in Pairs : subscriber[p] # None =>
                 Overflowed(p) \/ CLOCKS_PER_SEC * unwanted[p] <= subscriber[p].age

\* A node with subscriptions waits for its next announcement, ...
Waits == \A n \in Nodes : subscriptions[n] # {} /\ n \notin expired => timer[n] >= 1

\* ... which comes before a subscription gets too old.
Renewed ==
    \A n \in Nodes : \A s \in subscriptions[n] :
        faults = 0 /\ n \notin expired /\ subscriber[<<n, s>>] # None =>
            \/ \E i \in 1 .. Len(net[n]) : s \in net[n][i]
            \/ subscriber[<<n, s>>].age + CLOCKS_PER_SEC * timer[n] <= CLOCKS_PER_SEC * interval

\* Only the event of this second was sent.
ServedNow == \A p \in served : p[2] \in published

\* Where the network attributes fit, each event forgets the subscriptions that are
\* late, so that in the next second they are still ints.
InTime ==
    conf.steady /\ IntHolds(maxAge + 2) =>
        /\ \A n \in Nodes : attr[n]
        /\ \A p \in Pairs : subscriber[p] # None =>
              /\ subscriber[p].age < CLOCKS_PER_SEC * (maxAge + 2)
              /\ p[2] \in published => subscriber[p].age < CLOCKS_PER_SEC * (maxAge + 1)

IInv == Types /\ Fresh /\ AgeBounds /\ Waits /\ Renewed /\ ServedNow /\ InTime /\ GoneForgotten

LEMMA Initially == Init => IInv
<1> SUFFICES ASSUME Init PROVE IInv
  OBVIOUS
<1> USE AWDSAssumption DEF Init
<1>1. Types
  BY DEF Types, Pairs, None
<1>2. Fresh /\ AgeBounds /\ Waits /\ Renewed /\ ServedNow /\ InTime /\ GoneForgotten
  BY DEF Fresh, AgeBounds, Waits, Renewed, ServedNow, InTime, GoneForgotten, Pairs, None
<1> QED BY <1>1, <1>2 DEF IInv

\* Announcing all subscriptions keeps what is known of them.
LEMMA AnnouncesAll ==
  ASSUME IInv, NEW n \in Nodes, AnnounceSubscriptions(n, subscriptions'[n]),
         subscriptions' \in [Nodes -> SUBSET Subjects],
         \A m \in Nodes \ {n} : subscriptions'[m] = subscriptions[m],
         unwanted' \in [Pairs -> Nat],
         \A p \in Pairs : unwanted'[p] = unwanted[p] \/ unwanted'[p] = 0,
         \A s \in subscriptions'[n] : unwanted'[<<n, s>>] = 0,
         expired' = expired \ {n} \/ expired' = expired,
         UNCHANGED <<conf, _snnmap, subscriber, attr, served, published, faults>>
  PROVE  IInv'
<1> DEFINE q == Packets(subscriptions'[n])
<1>1. /\ q \in Seq(SUBSET (subscriptions'[n]))
      /\ \A x \in subscriptions'[n] : \E k \in 1 .. Len(q) : x \in q[k]
  BY AllInPackets
<1>2. net' = [net EXCEPT ![n] = net[n] \o q] /\ timer' = [timer EXCEPT ![n] = interval]
  BY DEF AnnounceSubscriptions
<1> HIDE DEF q
<1>3. q \in Seq(SUBSET Subjects)
  BY <1>1
<1>4. /\ net[n] \in Seq(SUBSET Subjects) /\ net[n] \o q \in Seq(SUBSET Subjects)
      /\ Len(net[n] \o q) = Len(net[n]) + Len(q)
      /\ \A i \in 1 .. Len(net[n]) : (net[n] \o q)[i] = net[n][i]
      /\ \A i \in 1 .. Len(q) : (net[n] \o q)[Len(net[n]) + i] = q[i]
      /\ \A i \in 1 .. Len(net[n]) + Len(q) :
            i \in 1 .. Len(net[n]) \/ i - Len(net[n]) \in 1 .. Len(q)
  BY <1>3 DEF IInv, Types
<1>5. net' \in [Nodes -> Seq(SUBSET Subjects)]
  BY <1>2, <1>4 DEF IInv, Types
<1>6. Types'
  BY <1>2, <1>5, AWDSAssumption DEF IInv, Types
<1>7. ASSUME NEW m \in Nodes, NEW s \in subscriptions'[m] PROVE unwanted'[<<m, s>>] = 0
  <2>1. <<m, s>> \in Pairs
    BY DEF Pairs
  <2> QED BY <2>1 DEF IInv, Fresh
<1>8. ASSUME NEW m \in Nodes, NEW i \in 1 .. Len(net'[m]), NEW s \in net'[m][i]
      PROVE  unwanted'[<<m, s>>] = 0
  <2>1. s \in Subjects /\ <<m, s>> \in Pairs
    BY <1>5 DEF Pairs
  <2>2. CASE m # n
    <3>1. net'[m] = net[m]
      BY <1>2, <2>2 DEF IInv, Types
    <3> QED BY <2>1, <3>1 DEF IInv, Fresh
  <2>3. CASE m = n
    <3>1. net'[m] = net[n] \o q
      BY <1>2, <2>3 DEF IInv, Types
    <3>2. CASE i \in 1 .. Len(net[n])
      <4>1. s \in net[n][i]
        BY <3>1, <3>2, <1>4
      <4> QED BY <4>1, <3>2, <2>1, <2>3 DEF IInv, Fresh
    <3>3. CASE i - Len(net[n]) \in 1 .. Len(q)
      <4>1. s \in q[i - Len(net[n])]
        <5>1. Len(net[n]) + (i - Len(net[n])) = i
          BY <1>4, <3>1
        <5> QED BY <5>1, <3>1, <3>3, <1>4
      <4>2. s \in subscriptions'[n]
        BY <4>1, <1>1, <3>3
      <4> QED BY <4>2, <2>3
    <3> QED BY <3>1, <3>2, <3>3, <1>4
  <2> QED BY <2>2, <2>3
<1>9. Fresh'
  BY <1>7, <1>8 DEF Fresh
<1>10. ASSUME NEW p \in Pairs, subscriber'[p] # None
       PROVE  Overflowed(p)' \/ CLOCKS_PER_SEC * unwanted'[p] <= subscriber'[p].age
  <2>1. /\ Overflowed(p) \/ CLOCKS_PER_SEC * unwanted[p] <= subscriber[p].age
        /\ subscriber[p].age \in Nat
    BY <1>10 DEF IInv, Types, AgeBounds
  <2>2. Overflowed(p)' = Overflowed(p) /\ subscriber'[p].age = subscriber[p].age
    BY DEF Overflowed
  <2>3. CASE unwanted'[p] = unwanted[p]
    BY <2>1, <2>2, <2>3
  <2>4. CASE unwanted'[p] = 0
    <3>1. CLOCKS_PER_SEC * unwanted'[p] = 0
      BY <2>4, Seconds
    <3> QED BY <2>1, <2>2, <3>1
  <2> QED BY <2>3, <2>4
<1>11. Waits'
  BY <1>2, AWDSAssumption DEF IInv, Types, Waits
<1>12. ASSUME NEW m \in Nodes, NEW s \in subscriptions'[m],
              faults' = 0, m \notin expired', subscriber'[<<m, s>>] # None
       PROVE  \/ \E i \in 1 .. Len(net'[m]) : s \in net'[m][i]
              \/ subscriber'[<<m, s>>].age + CLOCKS_PER_SEC * timer'[m] <= CLOCKS_PER_SEC * interval
  <2>1. CASE m # n
    BY <1>2, <1>12, <2>1 DEF IInv, Types, Renewed
  <2>2. CASE m = n
    <3>1. PICK k \in 1 .. Len(q) : s \in q[k]
      BY <1>1, <2>2
    <3>2. Len(net[n]) + k \in 1 .. Len(net'[n]) /\ net'[n] = net[n] \o q
      BY <1>2, <1>4, <1>3 DEF IInv, Types
    <3>3. s \in net'[n][Len(net[n]) + k]
      BY <3>1, <3>2, <1>4
    <3> QED BY <3>2, <3>3, <2>2
  <2> QED BY <2>1, <2>2
<1>13. Renewed'
  BY <1>12 DEF Renewed
<1>14. ASSUME NEW p \in served', unwanted'[p] > maxAge PROVE Overflowed(p)'
  <2>1. p \in Pairs /\ (unwanted[p] > maxAge => Overflowed(p))
    BY DEF IInv, Types, GoneForgotten
  <2>2. unwanted'[p] = unwanted[p] \/ unwanted'[p] = 0
    BY <2>1
  <2> QED BY <1>14, <2>1, <2>2, AWDSAssumption DEF Overflowed
<1>15. ServedNow' /\ InTime'
  BY DEF IInv, ServedNow, InTime, IntHolds
<1> QED BY <1>6, <1>9, <1>10, <1>11, <1>13, <1>14, <1>15 DEF IInv, AgeBounds, GoneForgotten

\* Of a packet that has come or is lost nothing is left.
LEMMA TailOf ==
  ASSUME IInv, NEW n \in Nodes, net[n] # <<>>, net' = [net EXCEPT ![n] = Tail(@)]
  PROVE  /\ net' \in [Nodes -> Seq(SUBSET Subjects)]
         /\ \A m \in Nodes \ {n} : net'[m] = net[m]
         /\ Head(net[n]) = net[n][1] /\ 1 \in 1 .. Len(net[n])
         /\ Len(net'[n]) = Len(net[n]) - 1 /\ Len(net[n]) \in Nat
         /\ \A i \in 1 .. Len(net'[n]) : i + 1 \in 1 .. Len(net[n]) /\ net'[n][i] = net[n][i + 1]
         /\ \A i \in 1 .. Len(net[n]) :
               i = 1 \/ (i - 1 \in 1 .. Len(net'[n]) /\ net'[n][i - 1] = net[n][i])
<1>1. net[n] \in Seq(SUBSET Subjects)
  BY DEF IInv, Types
<1>2. /\ Tail(net[n]) \in Seq(SUBSET Subjects)
      /\ Len(Tail(net[n])) = Len(net[n]) - 1 /\ Len(net[n]) \in Nat \ {0}
      /\ \A i \in 1 .. Len(net[n]) - 1 : Tail(net[n])[i] = net[n][i + 1]
  BY <1>1
<1>3. net'[n] = Tail(net[n]) /\ net' \in [Nodes -> Seq(SUBSET Subjects)]
      /\ \A m \in Nodes \ {n} : net'[m] = net[m]
  BY <1>2 DEF IInv, Types
<1>4. Head(net[n]) = net[n][1] /\ 1 \in 1 .. Len(net[n])
  BY <1>1, <1>2
<1>5. \A i \in 1 .. Len(net[n]) :
          i = 1 \/ (i - 1 \in 1 .. Len(net[n]) - 1 /\ Tail(net[n])[i - 1] = net[n][i])
  <2> SUFFICES ASSUME NEW i \in 1 .. Len(net[n]), i # 1
               PROVE  i - 1 \in 1 .. Len(net[n]) - 1 /\ Tail(net[n])[i - 1] = net[n][i]
    OBVIOUS
  <2>1. i - 1 \in 1 .. Len(net[n]) - 1 /\ (i - 1) + 1 = i
    BY <1>2
  <2> QED BY <2>1, <1>2
<1> QED BY <1>2, <1>3, <1>4, <1>5

LEMMA TailFresh ==
  ASSUME IInv, NEW n \in Nodes, net[n] # <<>>, net' = [net EXCEPT ![n] = Tail(@)],
         UNCHANGED <<subscriptions, unwanted>>
  PROVE  Fresh'
<1>1. ASSUME NEW m \in Nodes, NEW i \in 1 .. Len(net'[m]), NEW s \in net'[m][i]
      PROVE  unwanted[<<m, s>>] = 0
  <2>1. CASE m = n
    <3>1. i + 1 \in 1 .. Len(net[n]) /\ net'[n][i] = net[n][i + 1]
      BY <2>1, TailOf
    <3> QED BY <3>1, <2>1 DEF IInv, Fresh
  <2>2. CASE m # n
    <3>1. net'[m] = net[m]
      BY <2>2, TailOf
    <3> QED BY <3>1 DEF IInv, Fresh
  <2> QED BY <2>1, <2>2
<1> QED BY <1>1 DEF IInv, Fresh

LEMMA LosePacketKeeps ==
  ASSUME IInv, NEW n \in Nodes, LosePacket(n)
  PROVE  IInv'
<1>1. net[n] # <<>> /\ net' = [net EXCEPT ![n] = Tail(@)] /\ faults' = faults + 1
  BY DEF LosePacket, Fault
<1>2. UNCHANGED <<conf, nodeVars, _snnmap, subscriber, attr, served, published>>
  BY DEF LosePacket
<1>3. net' \in [Nodes -> Seq(SUBSET Subjects)]
  BY <1>1, TailOf
<1>4. Types'
  BY <1>1, <1>2, <1>3 DEF IInv, Types, nodeVars
<1>5. Fresh'
  BY <1>1, <1>2, TailFresh DEF nodeVars
<1>6. AgeBounds' /\ Waits' /\ ServedNow' /\ InTime' /\ GoneForgotten'
  BY <1>2 DEF IInv, AgeBounds, Waits, ServedNow, InTime, IntHolds, GoneForgotten, Overflowed, nodeVars
<1>7. faults' # 0
  BY <1>1 DEF IInv, Types
<1>8. Renewed'
  BY <1>7 DEF Renewed
<1> QED BY <1>4, <1>5, <1>6, <1>8 DEF IInv

LEMMA ReceiveSubscriptionsKeeps ==
  ASSUME IInv, NEW n \in Nodes, ReceiveSubscriptions(n)
  PROVE  IInv'
<1> DEFINE q == Head(net[n])
<1>1. net[n] # <<>> /\ net' = [net EXCEPT ![n] = Tail(@)]
  BY DEF ReceiveSubscriptions
<1>2. UNCHANGED <<conf, nodeVars, _snnmap, attr, served, published, faults>>
  BY DEF ReceiveSubscriptions
<1>3. \A p \in Pairs : subscriber'[p] = IF p[1] = n /\ p[2] \in q \cap _snnmap
                                        THEN [age |-> 0, flow |-> 0] ELSE subscriber[p]
  BY DEF ReceiveSubscriptions
<1>4. subscriber' = [p \in Pairs |-> subscriber'[p]]
  BY DEF ReceiveSubscriptions
<1>5. net' \in [Nodes -> Seq(SUBSET Subjects)]
  BY <1>1, TailOf
<1>6. q = net[n][1] /\ 1 \in 1 .. Len(net[n])
  BY <1>1, TailOf
<1> HIDE DEF q
<1>7. ASSUME NEW p \in Pairs, subscriber'[p] # None
      PROVE  /\ subscriber'[p].age \in Nat /\ p[2] \in _snnmap
             /\ Overflowed(p)' \/ CLOCKS_PER_SEC * unwanted[p] <= subscriber'[p].age
             /\ \/ subscriber[p] # None /\ subscriber'[p].age = subscriber[p].age
                \/ subscriber'[p].age = 0 /\ unwanted[p] = 0
  <2>1. CASE p[1] = n /\ p[2] \in q \cap _snnmap
    <3>1. subscriber'[p].age = 0
      BY <1>3, <2>1
    <3>2. p = <<n, p[2]>>
      BY <2>1 DEF Pairs
    <3>3. unwanted[p] = 0
      BY <3>2, <2>1, <1>6 DEF IInv, Fresh
    <3>4. CLOCKS_PER_SEC * unwanted[p] = 0
      BY <3>3, Seconds
    <3> QED BY <3>1, <3>3, <3>4, <2>1
  <2>2. CASE ~(p[1] = n /\ p[2] \in q \cap _snnmap)
    <3>1. subscriber'[p] = subscriber[p]
      BY <1>3, <2>2
    <3> QED BY <1>7, <3>1 DEF IInv, Types, AgeBounds, Overflowed
  <2> QED BY <2>1, <2>2
<1>8. Types' /\ AgeBounds'
  BY <1>2, <1>4, <1>5, <1>7 DEF IInv, Types, AgeBounds, nodeVars
<1>9. Fresh'
  BY <1>1, <1>2, TailFresh DEF nodeVars
<1>10. Waits' /\ ServedNow'
  BY <1>2 DEF IInv, Waits, ServedNow, nodeVars
<1>11. ASSUME NEW m \in Nodes, NEW s \in subscriptions[m],
              faults = 0, m \notin expired, subscriber'[<<m, s>>] # None
       PROVE  \/ \E i \in 1 .. Len(net'[m]) : s \in net'[m][i]
              \/ subscriber'[<<m, s>>].age + CLOCKS_PER_SEC * timer[m] <= CLOCKS_PER_SEC * interval
  <2>1. <<m, s>> \in Pairs /\ timer[m] \in 0 .. interval
    BY DEF Pairs, IInv, Types
  <2>2. CASE m = n /\ s \in q
    <3>1. s \in _snnmap
      BY <1>7, <1>11, <2>1
    <3>2. subscriber'[<<m, s>>].age = 0
      BY <1>3, <2>1, <2>2, <3>1
    <3>3. timer[m] \in Int /\ interval \in Int /\ timer[m] <= interval
      BY <2>1, AWDSAssumption
    <3>4. CLOCKS_PER_SEC * timer[m] \in Int /\ CLOCKS_PER_SEC * timer[m] <= CLOCKS_PER_SEC * interval
      BY <3>3, Seconds
    <3> QED BY <3>2, <3>4
  <2>3. CASE m = n /\ s \notin q
    <3>1. subscriber'[<<m, s>>] = subscriber[<<m, s>>]
      BY <1>3, <2>1, <2>3
    <3>2. CASE subscriber[<<m, s>>].age + CLOCKS_PER_SEC * timer[m] <= CLOCKS_PER_SEC * interval
      BY <3>1, <3>2
    <3>3. CASE \E i \in 1 .. Len(net[n]) : s \in net[n][i]
      <4>1. PICK i \in 1 .. Len(net[n]) : s \in net[n][i]
        BY <3>3
      <4>2. i # 1
        BY <4>1, <2>3, <1>6
      <4>3. i - 1 \in 1 .. Len(net'[n]) /\ net'[n][i - 1] = net[n][i]
        BY <4>2, <1>1, TailOf
      <4> QED BY <4>1, <4>3, <2>3
    <3> QED BY <3>1, <3>2, <3>3, <1>11, <2>3 DEF IInv, Renewed
  <2>4. CASE m # n
    <3>1. subscriber'[<<m, s>>] = subscriber[<<m, s>>]
      BY <1>3, <2>1, <2>4
    <3>2. net'[m] = net[m]
      BY <1>1, <2>4, TailOf
    <3> QED BY <3>1, <3>2, <1>11 DEF IInv, Renewed
  <2> QED BY <2>2, <2>3, <2>4
<1>12. Renewed'
  BY <1>2, <1>11 DEF Renewed, nodeVars
<1>13. InTime'
  <2>1. maxAge + 1 \in Int /\ maxAge + 2 \in Int /\ 1 <= maxAge + 1 /\ 1 <= maxAge + 2
    BY AWDSAssumption
  <2>2. 0 < CLOCKS_PER_SEC * (maxAge + 1) /\ 0 < CLOCKS_PER_SEC * (maxAge + 2)
    <3>1. CLOCKS_PER_SEC * 1 \in Nat \ {0}
      BY AWDSAssumption
    <3>2. /\ CLOCKS_PER_SEC * (maxAge + 1) \in Int /\ CLOCKS_PER_SEC * 1 <= CLOCKS_PER_SEC * (maxAge + 1)
          /\ CLOCKS_PER_SEC * (maxAge + 2) \in Int /\ CLOCKS_PER_SEC * 1 <= CLOCKS_PER_SEC * (maxAge + 2)
      BY <2>1, Seconds
    <3> QED BY <3>1, <3>2
  <2> QED BY <1>2, <1>7, <2>2 DEF IInv, InTime, IntHolds
<1>14. GoneForgotten'
  <2> SUFFICES ASSUME NEW p \in served, unwanted[p] > maxAge PROVE Overflowed(p)'
    BY <1>2 DEF GoneForgotten, nodeVars
  <2>1. p \in Pairs /\ Overflowed(p)
    BY DEF IInv, Types, GoneForgotten
  <2>2. unwanted[p] # 0
    BY AWDSAssumption
  <2>3. CASE p[1] = n /\ p[2] \in q \cap _snnmap
    <3>1. p = <<n, p[2]>>
      BY <2>1, <2>3 DEF Pairs
    <3>2. unwanted[p] = 0
      BY <3>1, <2>3, <1>6 DEF IInv, Fresh
    <3> QED BY <2>2, <3>2
  <2>4. CASE ~(p[1] = n /\ p[2] \in q \cap _snnmap)
    BY <1>3, <2>1, <2>4 DEF Overflowed
  <2> QED BY <2>3, <2>4
<1> QED BY <1>8, <1>9, <1>10, <1>12, <1>13, <1>14 DEF IInv

\* A step that forgets some subscriptions and changes flows keeps the rest.
LEMMA SameAges ==
  ASSUME IInv, UNCHANGED <<conf, subscriptions, timer, expired, net, unwanted>>,
         subscriber' = [p \in Pairs |-> subscriber'[p]],
         \A p \in Pairs : subscriber'[p] # None =>
             subscriber[p] # None /\ subscriber'[p].age = subscriber[p].age,
         _snnmap \subseteq _snnmap', faults' = faults \/ faults' = faults + 1,
         served' \in SUBSET Pairs
  PROVE  (Types /\ Fresh /\ AgeBounds /\ Waits /\ Renewed)'
<1>1. faults' \in Nat /\ (faults' = 0 => faults = 0)
  BY DEF IInv, Types
<1>2. Types'
  BY <1>1 DEF IInv, Types
<1>3. Fresh' /\ Waits'
  BY DEF IInv, Fresh, Waits
<1>4. AgeBounds'
  BY DEF IInv, AgeBounds, Overflowed
<1>5. \A m \in Nodes, s \in Subjects : <<m, s>> \in Pairs
  BY DEF Pairs
<1>6. \A m \in Nodes : subscriptions[m] \subseteq Subjects
  BY DEF IInv, Types
<1>7. ASSUME NEW m \in Nodes, NEW s \in subscriptions[m],
             faults' = 0, m \notin expired, subscriber'[<<m, s>>] # None
      PROVE  \/ \E i \in 1 .. Len(net[m]) : s \in net[m][i]
             \/ subscriber'[<<m, s>>].age + CLOCKS_PER_SEC * timer[m] <= CLOCKS_PER_SEC * interval
  <2>1. subscriber[<<m, s>>] # None /\ subscriber'[<<m, s>>].age = subscriber[<<m, s>>].age
    BY <1>5, <1>6, <1>7
  <2> QED BY <2>1, <1>1, <1>7 DEF IInv, Renewed
<1>8. Renewed'
  BY <1>7 DEF Renewed
<1> QED BY <1>2, <1>3, <1>4, <1>8

\* A flow that changes.
LEMMA UpdateKeepsAges ==
  ASSUME IInv, NEW q, NEW id, Update(q, id)
  PROVE  /\ subscriber' = [p \in Pairs |-> subscriber'[p]]
         /\ \A p \in Pairs : subscriber'[p] # None => subscriber[p] # None
         /\ \A p \in Pairs : subscriber'[p].age = subscriber[p].age
<1>1. subscriber = [p \in Pairs |-> subscriber[p]]
  BY DEF IInv, Types
<1>2. CASE subscriber[q] = None
  BY <1>1, <1>2 DEF Update
<1>3. CASE subscriber[q] # None
  <2>1. subscriber' = [subscriber EXCEPT ![q] = [age |-> subscriber[q].age, flow |-> id]]
    BY <1>3 DEF Update
  <2>2. subscriber' = [p \in Pairs |-> IF p = q THEN [age |-> subscriber[q].age, flow |-> id]
                                                ELSE subscriber[p]]
    BY <2>1, <1>1
  <2> QED BY <2>2, <1>3
<1> QED BY <1>2, <1>3

LEMMA FlowsKeep ==
  ASSUME IInv,
         \/ ReceiveAnswer \/ ManageFlow \/ ChangeManager
         \/ \E p \in Pairs : LoseFlow(p)
         \/ \E n \in Nodes : ReceiveAttributes(n) \/ Start(n)
         \/ UNCHANGED vars
  PROVE  IInv'
<1>1. UNCHANGED <<conf, subscriptions, timer, expired, net, unwanted, _snnmap, served, published>>
      /\ (conf.steady => attr' = attr)
  BY DEF ReceiveAnswer, ManageFlow, ChangeManager, LoseFlow, ReceiveAttributes, Start, vars, nodeVars
<1>2. faults' = faults \/ faults' = faults + 1
  BY DEF ReceiveAnswer, ManageFlow, ChangeManager, LoseFlow, ReceiveAttributes, Start, vars, Fault
<1>3. subscriber' = subscriber \/ \E q, id : Update(q, id)
  BY DEF ReceiveAnswer, ManageFlow, ChangeManager, LoseFlow, ReceiveAttributes, Start, vars
<1>4. /\ subscriber' = [p \in Pairs |-> subscriber'[p]]
      /\ \A p \in Pairs : subscriber'[p] # None => subscriber[p] # None
      /\ \A p \in Pairs : subscriber'[p].age = subscriber[p].age
  <2>1. CASE subscriber' = subscriber
    BY <2>1 DEF IInv, Types
  <2>2. CASE \E q, id : Update(q, id)
    BY <2>2, UpdateKeepsAges
  <2> QED BY <1>3, <2>1, <2>2
<1>5. served' \in SUBSET Pairs /\ ServedNow' /\ GoneForgotten'
  BY <1>1, <1>4 DEF IInv, Types, ServedNow, GoneForgotten, Overflowed
<1>6. InTime'
  BY <1>1, <1>4 DEF IInv, InTime, IntHolds
<1> QED BY <1>1, <1>2, <1>4, <1>5, <1>6, SameAges DEF IInv

LEMMA PublishKeeps ==
  ASSUME IInv, NEW s \in Subjects, Publish(s)
  PROVE  IInv'
<1>1. /\ UNCHANGED <<conf, subscriptions, timer, expired, net, unwanted, attr, faults>>
      /\ s \notin published /\ published' = published \cup {s}
  BY DEF Publish, nodeVars
<1>2. _snnmap \subseteq _snnmap'
  BY DEF Publish
<1>3. subscriber' = [p \in Pairs |->
          IF p[2] = s /\ p[1] \in Late(s) THEN None
          ELSE IF p[2] = s /\ p[1] \in BadFlow(s) THEN [age |-> subscriber[p].age, flow |-> -1]
          ELSE subscriber[p]]
  BY DEF Publish
<1>4. ASSUME NEW p \in Pairs, subscriber'[p] # None
      PROVE  subscriber[p] # None /\ subscriber'[p].age = subscriber[p].age
  <2>1. CASE p[2] = s /\ p[1] \in BadFlow(s)
    <3>1. p = <<p[1], s>>
      BY <2>1 DEF Pairs
    <3>2. subscriber[p] # None
      BY <2>1, <3>1 DEF BadFlow, Found
    <3> QED BY <3>2, <2>1, <1>3, <1>4
  <2>2. CASE ~(p[2] = s /\ p[1] \in BadFlow(s))
    BY <2>2, <1>3, <1>4
  <2> QED BY <2>1, <2>2
<1>5. subscriber' = [p \in Pairs |-> subscriber'[p]]
  BY <1>3
<1>6. ASSUME NEW p \in served'
      PROVE  p \in Pairs /\ p[2] \in published' /\ (unwanted[p] > maxAge => Overflowed(p)')
  <2>1. CASE p \in served
    <3>1. /\ p \in Pairs /\ p[2] \in published
          /\ unwanted[p] > maxAge => Overflowed(p)
      BY <2>1 DEF IInv, Types, ServedNow, GoneForgotten
    <3>2. subscriber'[p] = subscriber[p]
      BY <1>1, <1>3, <3>1
    <3> QED BY <1>1, <3>1, <3>2 DEF Overflowed
  <2>2. CASE p \in {<<n, s>> : n \in {m \in Found(s) \ Late(s) : HasFlow(m, s)}}
    <3>1. PICK n \in Found(s) \ Late(s) : p = <<n, s>> /\ HasFlow(n, s)
      BY <2>2
    <3>2. /\ p \in Pairs /\ subscriber[p] # None /\ ~(Elapsed(subscriber[p].age) > maxAge)
          /\ p[1] = n /\ p[2] = s
      BY <3>1 DEF Pairs, Found, Late
    <3>3. n \notin BadFlow(s)
      BY <3>1 DEF BadFlow
    <3>4. subscriber'[p] = subscriber[p]
      BY <1>3, <3>1, <3>2, <3>3
    <3>5. /\ subscriber[p].age \in Nat /\ unwanted[p] \in Nat /\ maxAge \in Nat
          /\ Overflowed(p) \/ CLOCKS_PER_SEC * unwanted[p] <= subscriber[p].age
      BY <3>2, AWDSAssumption DEF IInv, Types, AgeBounds
    <3>6. CASE Overflowed(p)
      BY <1>1, <3>2, <3>4, <3>6 DEF Overflowed
    <3>7. CASE ~Overflowed(p)
      <4>1. subscriber[p].age < IntBound
        BY <3>5, <3>7, AWDSAssumption DEF Overflowed
      <4>2. unwanted[p] <= Elapsed(subscriber[p].age) /\ Elapsed(subscriber[p].age) \in Nat
        BY <3>5, <3>7, <4>1, ElapsedBounds
      <4> QED BY <1>1, <3>2, <3>5, <4>2
    <3> QED BY <3>6, <3>7
  <2> QED BY <2>1, <2>2 DEF Publish
<1>7. served' \in SUBSET Pairs /\ ServedNow' /\ GoneForgotten'
  BY <1>1, <1>6 DEF ServedNow, GoneForgotten
<1>8. InTime'
  <2> SUFFICES ASSUME conf.steady, IntHolds(maxAge + 2), NEW p \in Pairs, subscriber'[p] # None,
                      p[2] = s
               PROVE  subscriber'[p].age < CLOCKS_PER_SEC * (maxAge + 1)
    BY <1>1, <1>4 DEF IInv, InTime, IntHolds
  <2>1. /\ subscriber[p] # None /\ subscriber'[p].age = subscriber[p].age
        /\ subscriber[p].age \in Nat /\ subscriber[p].age < CLOCKS_PER_SEC * (maxAge + 2)
    BY <1>4 DEF IInv, Types, InTime
  <2>2. p = <<p[1], s>> /\ p[1] \in Nodes
    BY DEF Pairs
  <2>3. p[1] \in Found(s) /\ p[1] \notin Late(s)
    <3>1. attr[p[1]]
      BY <2>2 DEF IInv, InTime
    <3> QED BY <1>3, <2>1, <2>2, <3>1 DEF Found
  <2>4. ~(Elapsed(subscriber[p].age) > maxAge)
    BY <2>2, <2>3 DEF Late
  <2>5. maxAge \in Nat /\ IntBound \in Nat /\ CLOCKS_PER_SEC * (maxAge + 2) \in Int
    BY AWDSAssumption
  <2>6. subscriber[p].age < IntBound
    BY <2>1, <2>5 DEF IntHolds
  <2>7. Elapsed(subscriber[p].age) \in Nat
    BY <2>1, <2>5, <2>6, ElapsedBounds
  <2>8. Elapsed(subscriber[p].age) <= maxAge
    BY <2>4, <2>5, <2>7
  <2> QED BY <2>1, <2>5, <2>6, <2>8, ElapsedBounds
<1> QED BY <1>1, <1>2, <1>4, <1>5, <1>7, <1>8, SameAges DEF IInv

LEMMA LeaveKeeps ==
  ASSUME IInv, NEW n \in Nodes, Leave(n)
  PROVE  IInv'
<1>1. /\ subscriptions' = [subscriptions EXCEPT ![n] = {}]
      /\ timer' = [timer EXCEPT ![n] = 0] /\ expired' = expired \ {n}
      /\ UNCHANGED <<conf, net, unwanted, _snnmap, subscriber, attr, served, published, faults>>
  BY DEF Leave
<1>2. Types'
  BY <1>1, AWDSAssumption DEF IInv, Types
<1>3. Fresh' /\ Waits' /\ Renewed'
  BY <1>1 DEF IInv, Types, Fresh, Waits, Renewed
<1>4. AgeBounds' /\ ServedNow' /\ InTime' /\ GoneForgotten'
  BY <1>1 DEF IInv, AgeBounds, ServedNow, InTime, IntHolds, GoneForgotten, Overflowed
<1> QED BY <1>2, <1>3, <1>4 DEF IInv

LEMMA AnnouncementKeeps ==
  ASSUME IInv, NEW n \in Nodes, Renew(n) \/ \E s \in Subjects : Subscribe(n, s)
  PROVE  IInv'
<1>1. CASE Renew(n)
  BY <1>1, AnnouncesAll DEF Renew, IInv, Types, Fresh
<1>2. ASSUME NEW s \in Subjects, Subscribe(n, s) PROVE IInv'
  <2>1. /\ subscriptions' = [subscriptions EXCEPT ![n] = subscriptions[n] \cup {s}]
        /\ unwanted' = [unwanted EXCEPT ![<<n, s>>] = 0]
        /\ UNCHANGED <<conf, expired, _snnmap, subscriber, attr, served, published, faults>>
        /\ AnnounceSubscriptions(n, subscriptions'[n])
    BY <1>2 DEF Subscribe
  <2>2. /\ subscriptions' \in [Nodes -> SUBSET Subjects]
        /\ \A m \in Nodes \ {n} : subscriptions'[m] = subscriptions[m]
        /\ subscriptions'[n] = subscriptions[n] \cup {s}
    BY <2>1 DEF IInv, Types
  <2>3. <<n, s>> \in Pairs /\ unwanted \in [Pairs -> Nat]
    BY DEF Pairs, IInv, Types
  <2>4. /\ unwanted' \in [Pairs -> Nat]
        /\ \A p \in Pairs : unwanted'[p] = unwanted[p] \/ unwanted'[p] = 0
    BY <2>1, <2>3
  <2>5. \A t \in subscriptions'[n] : unwanted'[<<n, t>>] = 0
    <3> SUFFICES ASSUME NEW t \in subscriptions'[n] PROVE unwanted'[<<n, t>>] = 0
      OBVIOUS
    <3>1. <<n, t>> \in Pairs
      BY <2>2 DEF Pairs
    <3>2. CASE t = s
      BY <2>1, <2>3, <3>2
    <3>3. CASE t # s
      BY <3>1, <3>3, <2>2, <2>4 DEF IInv, Fresh
    <3> QED BY <3>2, <3>3
  <2> QED BY <2>1, <2>2, <2>4, <2>5, AnnouncesAll
<1> QED BY <1>1, <1>2

\* A second makes everything older at the same pace.
LEMMA TickKeeps ==
  ASSUME \A c \in Configs : c.busy, IInv, Tick
  PROVE  IInv'
<1>1. /\ \A n \in Nodes : net[n] = <<>>
      /\ expired = {}
      /\ UNCHANGED <<conf, subscriptions, net, _snnmap, faults>> /\ served' = {}
  BY DEF Tick, Quiet
<1>2. /\ timer' = [n \in Nodes |-> IF timer[n] > 0 THEN timer[n] - 1 ELSE 0]
      /\ expired' = {n \in Nodes : timer[n] = 1}
      /\ unwanted' = [p \in Pairs |-> IF p[2] \in subscriptions[p[1]] THEN 0
                                      ELSE Later(unwanted[p])]
  BY DEF Tick
<1>3. subscriber' = [p \in Pairs |->
          IF subscriber[p] # None
          THEN [age |-> ClockAfter(subscriber[p].age), flow |-> subscriber[p].flow]
          ELSE subscriber[p]]
  <2>1. conf.busy
    BY DEF IInv, Types
  <2>2. \A computes \in {TRUE, conf.busy} : computes
    BY <2>1
  <2> QED BY <2>2 DEF Tick
<1>4. maxAge \in Nat /\ interval \in Nat \ {0}
  BY AWDSAssumption
<1>5. \A x \in Nat : Later(x) \in Nat /\ Later(x) <= x + 1
  BY <1>4 DEF Later
<1>6. \A n \in Nodes : timer[n] \in 0 .. interval
  BY DEF IInv, Types
<1>7. timer' \in [Nodes -> 0 .. interval] /\ expired' \in SUBSET Nodes
  BY <1>2, <1>4, <1>6
<1>8. unwanted' \in [Pairs -> Nat]
  BY <1>2, <1>5 DEF IInv, Types
<1>9. ASSUME NEW p \in Pairs, subscriber'[p] # None
      PROVE  /\ subscriber[p] # None /\ subscriber[p].age \in Nat /\ p[2] \in _snnmap
             /\ subscriber'[p].age = ClockAfter(subscriber[p].age)
             /\ Overflowed(p)' \/ CLOCKS_PER_SEC * unwanted'[p] <= subscriber'[p].age
  <2>1. subscriber[p] # None
    BY <1>3, <1>9
  <2>2. /\ subscriber[p].age \in Nat /\ unwanted[p] \in Nat /\ p[2] \in _snnmap
        /\ Overflowed(p) \/ CLOCKS_PER_SEC * unwanted[p] <= subscriber[p].age
    BY <2>1 DEF IInv, Types, AgeBounds
  <2>3. subscriber'[p].age = ClockAfter(subscriber[p].age)
    BY <2>1, <1>3
  <2>4. unwanted'[p] \in Int /\ unwanted'[p] <= unwanted[p] + 1
    BY <1>2, <1>5, <2>2
  <2>5. Overflowed(p)' \/ CLOCKS_PER_SEC * unwanted'[p] <= subscriber'[p].age
    <3>1. CASE ClockAfter(subscriber[p].age) >= IntBound
      BY <2>3, <3>1 DEF Overflowed
    <3>2. CASE /\ ClockAfter(subscriber[p].age) = subscriber[p].age + CLOCKS_PER_SEC
               /\ CLOCKS_PER_SEC * unwanted[p] <= subscriber[p].age
      <4>1. /\ CLOCKS_PER_SEC * unwanted[p] \in Int
            /\ CLOCKS_PER_SEC * (unwanted[p] + 1) = CLOCKS_PER_SEC * unwanted[p] + CLOCKS_PER_SEC
        <5>1. unwanted[p] \in Int
          BY <2>2
        <5> QED BY <5>1, Seconds
      <4>2. /\ CLOCKS_PER_SEC * unwanted'[p] <= CLOCKS_PER_SEC * (unwanted[p] + 1)
            /\ CLOCKS_PER_SEC * unwanted'[p] \in Int
        <5>1. unwanted[p] + 1 \in Int
          BY <2>2
        <5> QED BY <2>4, <5>1, Seconds
      <4> QED BY <2>2, <2>3, <3>2, <4>1, <4>2, AWDSAssumption
    <3> QED BY <2>2, <3>1, <3>2, ClockGoesOn DEF Overflowed
  <2> QED BY <2>1, <2>2, <2>3, <2>5
<1>10. Types'
  <2>1. subscriber' = [p \in Pairs |-> subscriber'[p]]
    BY <1>3
  <2>2. \A p \in Pairs : subscriber'[p] # None => subscriber'[p].age \in Nat /\ p[2] \in _snnmap
    BY <1>9, ClockGoesOn
  <2> QED BY <1>1, <1>7, <1>8, <2>1, <2>2 DEF IInv, Types
<1>11. Fresh'
  <2>1. \A n \in Nodes : \A s \in subscriptions[n] : <<n, s>> \in Pairs
    BY DEF IInv, Types, Pairs
  <2>2. \A n \in Nodes : \A s \in subscriptions[n] : unwanted'[<<n, s>>] = 0
    BY <1>2, <2>1
  <2>3. \A n \in Nodes : \A i \in 1 .. Len(net[n]) : FALSE
    BY <1>1
  <2> QED BY <1>1, <2>2, <2>3 DEF Fresh
<1>12. AgeBounds'
  BY <1>9 DEF AgeBounds
<1>13. Waits'
  <2> SUFFICES ASSUME NEW n \in Nodes, subscriptions[n] # {}, timer[n] # 1
               PROVE  timer'[n] >= 1
    BY <1>1, <1>2 DEF Waits
  <2>1. timer[n] >= 1
    BY <1>1 DEF IInv, Waits
  <2> QED BY <2>1, <1>2, <1>6, <1>4
<1>14. Renewed'
  <2> SUFFICES ASSUME NEW n \in Nodes, NEW s \in subscriptions[n],
                      faults = 0, timer[n] # 1, subscriber'[<<n, s>>] # None
               PROVE  subscriber'[<<n, s>>].age + CLOCKS_PER_SEC * timer'[n] <= CLOCKS_PER_SEC * interval
    BY <1>1, <1>2 DEF Renewed
  <2>1. <<n, s>> \in Pairs
    BY DEF IInv, Types, Pairs
  <2>2. /\ subscriber[<<n, s>>] # None /\ subscriber[<<n, s>>].age \in Nat
        /\ subscriber'[<<n, s>>].age = ClockAfter(subscriber[<<n, s>>].age)
    BY <1>9, <2>1
  <2>3. subscriber[<<n, s>>].age + CLOCKS_PER_SEC * timer[n] <= CLOCKS_PER_SEC * interval
    <3>1. \A i \in 1 .. Len(net[n]) : FALSE
      BY <1>1
    <3> QED BY <3>1, <2>2, <1>1 DEF IInv, Renewed
  <2>4. timer[n] >= 1 /\ timer[n] \in Nat
    BY <1>1, <1>4, <1>6 DEF IInv, Waits
  <2>5. timer'[n] = timer[n] - 1
    BY <1>2, <2>4
  <2>6. /\ CLOCKS_PER_SEC * timer[n] \in Int /\ CLOCKS_PER_SEC * interval \in Int
        /\ CLOCKS_PER_SEC * timer'[n] = CLOCKS_PER_SEC * timer[n] - CLOCKS_PER_SEC
    <3>1. timer[n] \in Int /\ interval \in Int
      BY <1>4, <2>4
    <3> QED BY <2>5, <3>1, Seconds
  <2>7. /\ subscriber'[<<n, s>>].age \in Nat
        /\ subscriber'[<<n, s>>].age <= subscriber[<<n, s>>].age + CLOCKS_PER_SEC
    BY <2>2, ClockGoesOn
  <2> QED BY <2>2, <2>3, <2>6, <2>7, AWDSAssumption
<1>15. InTime'
  <2> SUFFICES ASSUME conf.steady, IntHolds(maxAge + 2), NEW p \in Pairs, subscriber'[p] # None
               PROVE  subscriber'[p].age < CLOCKS_PER_SEC * (maxAge + 2)
    <3>1. UNCHANGED attr /\ published' = {}
      BY DEF Tick
    <3> QED BY <1>1, <3>1 DEF IInv, InTime, IntHolds
  <2>1. /\ subscriber[p] # None /\ subscriber[p].age \in Nat
        /\ subscriber'[p].age = ClockAfter(subscriber[p].age)
    BY <1>9
  <2>2. p[2] \in published
    BY DEF Tick, Pairs
  <2>3. subscriber[p].age < CLOCKS_PER_SEC * (maxAge + 1)
    BY <2>1, <2>2 DEF IInv, InTime
  <2>4. /\ CLOCKS_PER_SEC * (maxAge + 1) \in Int
        /\ CLOCKS_PER_SEC * ((maxAge + 1) + 1) = CLOCKS_PER_SEC * (maxAge + 1) + CLOCKS_PER_SEC
    <3>1. maxAge + 1 \in Int
      BY <1>4
    <3> QED BY <3>1, Seconds
  <2>5. (maxAge + 1) + 1 = maxAge + 2
    BY <1>4
  <2>6. ClockAfter(subscriber[p].age) \in Nat
        /\ ClockAfter(subscriber[p].age) <= subscriber[p].age + CLOCKS_PER_SEC
    BY <2>1, ClockGoesOn
  <2> QED BY <2>1, <2>3, <2>4, <2>5, <2>6, AWDSAssumption
<1>16. ServedNow' /\ GoneForgotten'
  BY <1>1 DEF ServedNow, GoneForgotten
<1> QED BY <1>10, <1>11, <1>12, <1>13, <1>14, <1>15, <1>16 DEF IInv

LEMMA Inductive ==
  ASSUME \A c \in Configs : c.busy, IInv, [Next]_vars
  PROVE  IInv'
<1>1. CASE Work
  BY <1>1, AnnouncementKeeps, ReceiveSubscriptionsKeeps, PublishKeeps, FlowsKeep DEF Work
<1>2. CASE Environment
  BY <1>2, LeaveKeeps, FlowsKeep, LosePacketKeeps, AnnouncementKeeps DEF Environment
<1>3. CASE Tick
  BY <1>3, TickKeeps
<1>4. CASE UNCHANGED vars
  BY <1>4, FlowsKeep
<1> QED BY <1>1, <1>2, <1>3, <1>4 DEF Next

\* Where the clock runs like time, an event is sent to a node that has not subscribed
\* for longer than the maximum age only when the age of its subscription is no int any
\* more; that does not happen where the network attributes fit and int holds the
\* maximum age; and while no packet gets lost the subscriptions of a node that stays
\* are never older than the announcement interval, if int holds that.
THEOREM SubscriptionsAreKept ==
  ASSUME \A c \in Configs : c.busy
  PROVE  Spec => []LeasesHold
<1>1. Init => IInv
  BY Initially
<1>2. IInv /\ [Next]_vars => IInv'
  BY Inductive
<1>3. IInv => LeasesHold
  <2> SUFFICES ASSUME IInv PROVE LeasesHold
    OBVIOUS
  <2>1. ASSUME NEW n \in Nodes, NEW s \in Subjects, faults = 0, net[n] = <<>>, n \notin expired,
               IntHolds(interval), s \in subscriptions[n], subscriber[<<n, s>>] # None
        PROVE  ~Overflowed(<<n, s>>) /\ Elapsed(subscriber[<<n, s>>].age) <= interval
    <3>1. \A i \in 1 .. Len(net[n]) : FALSE
      BY <2>1
    <3>2. subscriber[<<n, s>>].age + CLOCKS_PER_SEC * timer[n] <= CLOCKS_PER_SEC * interval
      BY <2>1, <3>1 DEF IInv, Renewed
    <3>3. subscriber[<<n, s>>].age \in Nat /\ timer[n] \in Nat /\ interval \in Nat
      BY <2>1, AWDSAssumption DEF IInv, Types, Pairs
    <3>4. CLOCKS_PER_SEC * timer[n] \in Nat /\ CLOCKS_PER_SEC * interval \in Nat
      BY <3>3, AWDSAssumption
    <3>5. subscriber[<<n, s>>].age <= CLOCKS_PER_SEC * interval
      BY <3>2, <3>3, <3>4
    <3>6. subscriber[<<n, s>>].age < IntBound /\ IntBound \in Nat
      BY <2>1, <3>3, <3>4, <3>5, AWDSAssumption DEF IntHolds
    <3>7. Elapsed(subscriber[<<n, s>>].age) <= interval
      BY <3>3, <3>5, <3>6, ElapsedBounds
    <3> QED BY <3>3, <3>6, <3>7 DEF Overflowed
  <2>2. RenewedInTime
    BY <2>1 DEF RenewedInTime
  <2>3. ASSUME conf.steady, IntHolds(maxAge + 2), NEW p \in Pairs PROVE ~Overflowed(p)
    <3>1. IntBound \in Nat /\ IntBound > 0 /\ CLOCKS_PER_SEC * (maxAge + 2) \in Int
      BY AWDSAssumption
    <3>2. CASE subscriber[p] = None
      BY <3>1, <3>2 DEF Overflowed, None
    <3>3. CASE subscriber[p] # None
      <4>1. subscriber[p].age \in Nat /\ subscriber[p].age < CLOCKS_PER_SEC * (maxAge + 2)
        BY <2>3, <3>3 DEF IInv, Types, InTime
      <4> QED BY <2>3, <3>1, <4>1 DEF Overflowed, IntHolds
    <3> QED BY <3>2, <3>3
  <2> QED BY <2>2, <2>3 DEF LeasesHold, NoneOverflows, IInv
<1> QED BY <1>1, <1>2, <1>3, PTL DEF Spec

-----------------------------------------------------------------------------
(* The flows.  A subject has one event in a second, and so one request for *)
(* a flow to a node: no answer comes for a flow that is freed meanwhile.   *)

Asking(p)  == \E i \in 1 .. Len(asked) : asked[i].pair = p
Freeing(p) == \E i \in 1 .. Len(asked) : asked[i].pair = p /\ asked[i].op = "free"
\* An answer for a node that there is a flow, or that it is lost.
Grants(i, p) == answers[i].op = "flow" /\ answers[i].pair = p /\ answers[i].id > 0
Denies(i, p) == answers[i].op = "flow" /\ answers[i].pair = p /\ answers[i].id = 0

Answer == [op : {"flow"}, pair : Pairs, id : {0, 1}] \cup [op : {"avail"}, pair : {<<>>}, id : {0, 1}]
Request == [op : {"reg", "free"}, pair : Pairs, id : Int]

FlowTypes ==
    /\ subscriber \in [Pairs -> [age : Int, flow : Int]]
    /\ asked \in Seq(Request) /\ answers \in Seq(Answer)

\* Requests are made, and answered, in the second of the event, ...
OncePublished == \A p \in Pairs : p[2] \notin published =>
    ~Asking(p) /\ \A i \in 1 .. Len(answers) : ~Grants(i, p)

\* ... each node is the subject of one, ...
AskedOnce == \A i, j \in 1 .. Len(asked) : asked[i].pair = asked[j].pair => i = j
AskedUnanswered == \A p \in Pairs : Asking(p) => \A i \in 1 .. Len(answers) : ~Grants(i, p)

\* ... and whose flow is to be freed has none.
FreedUnused == \A p \in Pairs : Freeing(p) => subscriber[p].flow <= 0

\* What the manager does not hold it has denied after it has granted it.
LossTold == \A p \in Pairs \ flows :
    /\ subscriber[p].flow > 0 => \E j \in 1 .. Len(answers) : Denies(j, p)
    /\ \A i \in 1 .. Len(answers) : Grants(i, p) =>
          \E j \in 1 .. Len(answers) : j > i /\ Denies(j, p)

FlowInv == FlowTypes /\ OncePublished /\ AskedOnce /\ AskedUnanswered /\ FreedUnused /\ LossTold

LEMMA InitFlows == Init => FlowInv
BY AWDSAssumption DEF Init, FlowInv, FlowTypes, OncePublished, AskedOnce, AskedUnanswered, FreedUnused,
   LossTold, Asking, Freeing, None

\* The first of a sequence is taken, or one is appended.
LEMMA TakeFirst ==
  ASSUME NEW S, NEW q \in Seq(S), q # <<>>
  PROVE  /\ Tail(q) \in Seq(S) /\ Head(q) \in S /\ Head(q) = q[1] /\ 1 \in 1 .. Len(q)
         /\ \A i \in 1 .. Len(Tail(q)) : i + 1 \in 1 .. Len(q) /\ Tail(q)[i] = q[i + 1] /\ i + 1 # 1
         /\ \A i \in 1 .. Len(q) : i = 1 \/ (i - 1 \in 1 .. Len(Tail(q)) /\ Tail(q)[i - 1] = q[i])
<1>1. /\ Tail(q) \in Seq(S) /\ Head(q) \in S /\ Head(q) = q[1] /\ Len(q) \in Nat \ {0}
      /\ Len(Tail(q)) = Len(q) - 1
      /\ \A i \in 1 .. Len(q) - 1 : Tail(q)[i] = q[i + 1]
  OBVIOUS
<1>2. \A i \in 1 .. Len(q) : i # 1 => i - 1 \in 1 .. Len(q) - 1 /\ (i - 1) + 1 = i
  BY <1>1
<1> QED BY <1>1, <1>2

LEMMA AppendLast ==
  ASSUME NEW S, NEW q \in Seq(S), NEW x \in S
  PROVE  /\ Append(q, x) \in Seq(S)
         /\ Len(q) + 1 \in 1 .. Len(Append(q, x)) /\ Append(q, x)[Len(q) + 1] = x
         /\ \A i \in 1 .. Len(q) : i \in 1 .. Len(Append(q, x)) /\ Append(q, x)[i] = q[i] /\ Len(q) + 1 > i
         /\ \A i \in 1 .. Len(Append(q, x)) :
               (i \in 1 .. Len(q) /\ Append(q, x)[i] = q[i]) \/ i = Len(q) + 1
OBVIOUS

LEMMA ConcatBoth ==
  ASSUME NEW S, NEW a \in Seq(S), NEW b \in Seq(S)
  PROVE  /\ a \o b \in Seq(S)
         /\ \A i \in 1 .. Len(a \o b) :
               \/ i \in 1 .. Len(a) /\ (a \o b)[i] = a[i]
               \/ /\ i - Len(a) \in 1 .. Len(b) /\ (a \o b)[i] = b[i - Len(a)]
                  /\ i = (i - Len(a)) + Len(a)
OBVIOUS

\* Steps that change nothing but subscribers, and keep or forget their flows.
LEMMA FlowsForgotten ==
  ASSUME FlowInv, UNCHANGED <<asked, answers, flows, published>>,
         subscriber' \in [Pairs -> [age : Int, flow : Int]],
         \A p \in Pairs : subscriber'[p].flow = subscriber[p].flow \/ subscriber'[p].flow <= 0
  PROVE  FlowInv'
<1>1. \A p \in Pairs : subscriber'[p].flow \in Int
  OBVIOUS
<1>2. FlowTypes' /\ OncePublished' /\ AskedOnce' /\ AskedUnanswered'
  BY DEF FlowInv, FlowTypes, OncePublished, AskedOnce, AskedUnanswered, Asking, Grants
<1>3. FreedUnused'
  BY DEF FlowInv, FreedUnused, Freeing
<1>4. LossTold'
  <2> SUFFICES ASSUME NEW p \in Pairs \ flows
               PROVE  /\ subscriber'[p].flow > 0 => \E j \in 1 .. Len(answers) : Denies(j, p)
                      /\ \A i \in 1 .. Len(answers) : Grants(i, p) =>
                            \E j \in 1 .. Len(answers) : j > i /\ Denies(j, p)
    BY DEF LossTold, Grants, Denies
  <2>1. subscriber'[p].flow > 0 => subscriber[p].flow > 0
    BY <1>1
  <2> QED BY <2>1 DEF FlowInv, LossTold
<1> QED BY <1>2, <1>3, <1>4 DEF FlowInv

LEMMA NodesKeepFlows ==
  ASSUME FlowInv,
         \/ \E n \in Nodes : \/ Renew(n) \/ ReceiveSubscriptions(n) \/ Leave(n) \/ Start(n)
                             \/ LosePacket(n) \/ ReceiveAttributes(n)
                             \/ \E s \in Subjects : Subscribe(n, s)
         \/ UNCHANGED vars
  PROVE  FlowInv'
<1>1. UNCHANGED <<asked, answers, flows, published>>
  BY DEF Renew, ReceiveSubscriptions, Leave, Start, LosePacket, ReceiveAttributes, Subscribe, vars,
     daemonVars
<1>2. \/ UNCHANGED subscriber
      \/ \E n \in Nodes : subscriber' = [p \in Pairs |->
            IF p[1] = n /\ p[2] \in Head(net[n]) \cap _snnmap THEN [age |-> 0, flow |-> 0]
                                                              ELSE subscriber[p]]
  BY DEF Renew, ReceiveSubscriptions, Leave, Start, LosePacket, ReceiveAttributes, Subscribe, vars
<1>3. \A p \in Pairs : subscriber'[p] = subscriber[p] \/ subscriber'[p] = [age |-> 0, flow |-> 0]
  BY <1>2
<1>4. subscriber' = [p \in Pairs |-> subscriber'[p]]
  BY <1>2 DEF FlowInv, FlowTypes
<1>5. subscriber' \in [Pairs -> [age : Int, flow : Int]]
  BY <1>3, <1>4 DEF FlowInv, FlowTypes
<1>6. \A p \in Pairs : subscriber'[p].flow = subscriber[p].flow \/ subscriber'[p].flow <= 0
  BY <1>3
<1> QED BY <1>1, <1>5, <1>6, FlowsForgotten

\* A second passes when nothing is asked or answered.
LEMMA TickKeepsFlows == ASSUME FlowInv, Tick PROVE FlowInv'
<1>1. asked = <<>> /\ answers = <<>> /\ UNCHANGED <<asked, answers, flows>>
  BY DEF Tick, Quiet, daemonVars
<1>2. \A p \in Pairs : \/ subscriber'[p] = subscriber[p]
                       \/ subscriber'[p] = [age |-> ClockAfter(subscriber[p].age),
                                            flow |-> subscriber[p].flow]
  BY DEF Tick
<1>3. \A a \in Int : ClockAfter(a) \in Int
  BY AWDSAssumption DEF ClockAfter
<1>4. subscriber' = [p \in Pairs |-> subscriber'[p]]
  BY DEF Tick
<1>5. \A p \in Pairs : subscriber'[p] \in [age : Int, flow : Int] /\ subscriber'[p].flow = subscriber[p].flow
  <2> TAKE p \in Pairs
  <2>1. subscriber[p] \in [age : Int, flow : Int]
    BY DEF FlowInv, FlowTypes
  <2>2. subscriber[p].age \in Int /\ subscriber[p].flow \in Int
    BY <2>1
  <2>3. CASE subscriber'[p] = subscriber[p]
    BY <2>1, <2>3
  <2>4. ASSUME NEW age, NEW flow, age = ClockAfter(subscriber[p].age), flow = subscriber[p].flow,
               subscriber'[p] = [age |-> age, flow |-> flow]
        PROVE  subscriber'[p] \in [age : Int, flow : Int] /\ subscriber'[p].flow = flow
    <3>1. age \in Int /\ flow \in Int
      BY <1>3, <2>2, <2>4
    <3> QED BY <2>4, <3>1
  <2> QED BY <1>2, <2>3, <2>4
<1>6. FlowTypes'
  BY <1>1, <1>4, <1>5 DEF FlowInv, FlowTypes
<1>7. \A i \in 1 .. Len(asked) : FALSE
  BY <1>1
<1>8. \A i \in 1 .. Len(answers) : FALSE
  BY <1>1
<1>9. OncePublished' /\ AskedOnce' /\ AskedUnanswered' /\ FreedUnused'
  BY <1>1, <1>7, <1>8 DEF OncePublished, AskedOnce, AskedUnanswered, FreedUnused, Asking, Freeing
<1>10. LossTold'
  BY <1>1, <1>5, <1>8 DEF FlowInv, LossTold
<1> QED BY <1>6, <1>9, <1>10 DEF FlowInv

\* The node learns of a flow, or that it is lost.
LEMMA AnswerKeepsFlows == ASSUME FlowInv, ReceiveAnswer PROVE FlowInv'
<1> DEFINE a == Head(answers)
           q == Tail(answers)
<1>1. answers # <<>> /\ answers' = q /\ UNCHANGED <<asked, flows, published>>
  BY DEF ReceiveAnswer, daemonVars
<1>2. /\ q \in Seq(Answer) /\ a \in Answer /\ a = answers[1] /\ 1 \in 1 .. Len(answers)
      /\ \A i \in 1 .. Len(q) : i + 1 \in 1 .. Len(answers) /\ q[i] = answers[i + 1] /\ i + 1 # 1
      /\ \A i \in 1 .. Len(answers) : i = 1 \/ (i - 1 \in 1 .. Len(q) /\ q[i - 1] = answers[i])
  BY <1>1, TakeFirst DEF FlowInv, FlowTypes
<1>3. subscriber' = subscriber \/ (a.op = "flow" /\ Update(a.pair, IF a.id > 0 THEN a.id ELSE 0))
  BY DEF ReceiveAnswer
<1> HIDE DEF a, q
<1>4. \A p \in Pairs :
         \/ subscriber'[p] = subscriber[p] /\ (Grants(1, p) \/ Denies(1, p) => subscriber[p] = None)
         \/ Grants(1, p) /\ subscriber'[p] = [age |-> subscriber[p].age, flow |-> a.id]
         \/ Denies(1, p) /\ subscriber'[p] = [age |-> subscriber[p].age, flow |-> 0]
  <2> TAKE p \in Pairs
  <2>1. CASE a.op = "avail"
    BY <1>2, <1>3, <2>1 DEF Grants, Denies
  <2>2. CASE a.op = "flow"
    <3>1. Update(a.pair, IF a.id > 0 THEN a.id ELSE 0) /\ a.pair \in Pairs /\ a.id \in {0, 1}
      BY <2>2, <1>2 DEF ReceiveAnswer, Answer, a
    <3>2. subscriber \in [Pairs -> [age : Int, flow : Int]]
      BY DEF FlowInv, FlowTypes
    <3>3. CASE subscriber[a.pair] = None
      <4>1. subscriber' = subscriber
        BY <3>1, <3>3 DEF Update
      <4> QED BY <1>2, <3>3, <4>1 DEF Grants, Denies
    <3>4. CASE subscriber[a.pair] # None /\ a.pair = p
      <4>1. subscriber'[p] = [age |-> subscriber[p].age, flow |-> IF a.id > 0 THEN a.id ELSE 0]
        BY <3>1, <3>2, <3>4 DEF Update
      <4>2. CASE a.id = 0
        BY <1>2, <2>2, <3>4, <4>1, <4>2 DEF Denies
      <4>3. CASE a.id = 1
        BY <1>2, <2>2, <3>4, <4>1, <4>3 DEF Grants
      <4> QED BY <3>1, <4>2, <4>3
    <3>5. CASE subscriber[a.pair] # None /\ a.pair # p
      <4>1. subscriber'[p] = subscriber[p]
        BY <3>1, <3>2, <3>5 DEF Update
      <4> QED BY <1>2, <3>5, <4>1 DEF Grants, Denies
    <3> QED BY <3>3, <3>4, <3>5
  <2> QED BY <2>1, <2>2, <1>2 DEF Answer
<1>5. FlowTypes'
  <2>1. subscriber' = [p \in Pairs |-> subscriber'[p]]
    <3>1. subscriber = [p \in Pairs |-> subscriber[p]]
      BY DEF FlowInv, FlowTypes
    <3>2. subscriber' = subscriber \/ \E x, y : subscriber' = [subscriber EXCEPT ![x] = y]
      BY <1>3 DEF Update
    <3> QED BY <3>1, <3>2
  <2>2. \A p \in Pairs : subscriber'[p] \in [age : Int, flow : Int]
    <3> TAKE p \in Pairs
    <3>1. subscriber[p] \in [age : Int, flow : Int] /\ a.id \in Int
      BY <1>2 DEF FlowInv, FlowTypes, Answer
    <3>2. ASSUME NEW x \in Int, NEW y \in Int, subscriber'[p] = [age |-> x, flow |-> y]
          PROVE  subscriber'[p] \in [age : Int, flow : Int]
      BY <3>2
    <3>3. subscriber[p].age \in Int /\ 0 \in Int
      BY <3>1
    <3>4. \/ subscriber'[p] = subscriber[p]
          \/ subscriber'[p] = [age |-> subscriber[p].age, flow |-> a.id]
          \/ subscriber'[p] = [age |-> subscriber[p].age, flow |-> 0]
      BY <1>4
    <3> QED BY <3>1, <3>2, <3>3, <3>4
  <2> QED BY <1>1, <1>2, <2>1, <2>2 DEF FlowInv, FlowTypes
<1>6. \A p \in Pairs : \A i \in 1 .. Len(q) : (Grants(i, p)' => Grants(i + 1, p)) /\ i + 1 \in 1 .. Len(answers)
  BY <1>1, <1>2 DEF Grants
<1>7. OncePublished' /\ AskedOnce' /\ AskedUnanswered'
  BY <1>1, <1>6 DEF FlowInv, OncePublished, AskedOnce, AskedUnanswered, Asking
<1>8. FreedUnused'
  <2> SUFFICES ASSUME NEW p \in Pairs, Freeing(p) PROVE subscriber'[p].flow <= 0
    BY <1>1 DEF FreedUnused, Freeing
  <2>1. subscriber[p].flow <= 0 /\ Asking(p)
    BY DEF FlowInv, FreedUnused, Freeing, Asking
  <2>2. ~Grants(1, p)
    BY <1>2, <2>1 DEF FlowInv, AskedUnanswered
  <2>3. \/ subscriber'[p] = subscriber[p]
        \/ subscriber'[p] = [age |-> subscriber[p].age, flow |-> 0]
    BY <1>4, <2>2
  <2>4. CASE subscriber'[p] = [age |-> subscriber[p].age, flow |-> 0]
    BY <2>4
  <2> QED BY <2>1, <2>3, <2>4
<1>9. LossTold'
  <2> SUFFICES ASSUME NEW p \in Pairs \ flows
               PROVE  /\ subscriber'[p].flow > 0 => \E j \in 1 .. Len(q) : Denies(j, p)'
                      /\ \A i \in 1 .. Len(q) : Grants(i, p)' =>
                            \E j \in 1 .. Len(q) : j > i /\ Denies(j, p)'
    BY <1>1 DEF LossTold
  <2>1. \A j \in 1 .. Len(answers) : Denies(j, p) /\ j # 1 =>
           j - 1 \in 1 .. Len(q) /\ Denies(j - 1, p)'
    BY <1>1, <1>2 DEF Denies
  <2>2. ASSUME subscriber'[p].flow > 0 PROVE \E j \in 1 .. Len(q) : Denies(j, p)'
    <3>1. CASE Grants(1, p)
      <4>1. PICK j \in 1 .. Len(answers) : j > 1 /\ Denies(j, p)
        BY <1>2, <3>1 DEF FlowInv, LossTold
      <4> QED BY <2>1, <4>1
    <3>2. CASE ~Grants(1, p)
      <4>0. \A x : ~([age |-> x, flow |-> 0].flow > 0)
        OBVIOUS
      <4>1. subscriber'[p] = subscriber[p] /\ (Denies(1, p) => subscriber[p] = None)
        BY <1>4, <2>2, <3>2, <4>0
      <4>2. ~Denies(1, p)
        BY <2>2, <4>1 DEF None
      <4>3. PICK j \in 1 .. Len(answers) : Denies(j, p)
        BY <2>2, <4>1 DEF FlowInv, LossTold
      <4>4. j # 1
        BY <4>2, <4>3
      <4> QED BY <2>1, <4>3, <4>4
    <3> QED BY <3>1, <3>2
  <2>3. ASSUME NEW i \in 1 .. Len(q), Grants(i, p)' PROVE \E j \in 1 .. Len(q) : j > i /\ Denies(j, p)'
    <3>1. PICK j \in 1 .. Len(answers) : j > i + 1 /\ Denies(j, p)
      BY <1>6, <2>3 DEF FlowInv, LossTold
    <3>2. j # 1 /\ j - 1 > i
      BY <3>1
    <3> QED BY <2>1, <3>1, <3>2
  <2> QED BY <2>2, <2>3
<1> QED BY <1>5, <1>7, <1>8, <1>9 DEF FlowInv

\* The manager loses a flow, or tells that it comes or goes.
LEMMA ManagerKeepsFlows ==
  ASSUME FlowInv, NEW op, NEW p, NEW id, Tell(op, p, id),
         UNCHANGED <<subscriber, asked, published>>,
         \/ op = "avail" /\ p = <<>> /\ id \in {0, 1} /\ UNCHANGED flows
         \/ op = "flow" /\ p \in Pairs /\ id = 0 /\ flows' = flows \ {p}
  PROVE  FlowInv'
<1> DEFINE x == [op |-> op, pair |-> p, id |-> id]
           q == Append(answers, x)
<1>1. answers' = q /\ x \in Answer /\ answers \in Seq(Answer)
  BY DEF Tell, Answer, FlowInv, FlowTypes
<1>2. /\ q \in Seq(Answer)
      /\ Len(answers) + 1 \in 1 .. Len(q) /\ q[Len(answers) + 1] = x
      /\ \A i \in 1 .. Len(answers) : i \in 1 .. Len(q) /\ q[i] = answers[i] /\ Len(answers) + 1 > i
      /\ \A i \in 1 .. Len(q) : (i \in 1 .. Len(answers) /\ q[i] = answers[i]) \/ i = Len(answers) + 1
  BY <1>1, AppendLast
<1>3. x.op = op /\ x.pair = p /\ x.id = id
  OBVIOUS
<1> HIDE DEF x, q
<1>4. \A r \in Pairs : \A i \in 1 .. Len(q) : Grants(i, r)' => i \in 1 .. Len(answers) /\ Grants(i, r)
  BY <1>1, <1>2, <1>3 DEF Grants
<1>5. \A r \in Pairs : \A i \in 1 .. Len(answers) : Denies(i, r) => i \in 1 .. Len(q) /\ Denies(i, r)'
  BY <1>1, <1>2 DEF Denies
<1>6. FlowTypes'
  BY <1>1, <1>2 DEF FlowInv, FlowTypes
<1>7. OncePublished' /\ AskedOnce' /\ AskedUnanswered' /\ FreedUnused'
  BY <1>1, <1>4 DEF FlowInv, OncePublished, AskedOnce, AskedUnanswered, FreedUnused, Asking, Freeing
<1>8. LossTold'
  <2> SUFFICES ASSUME NEW r \in Pairs \ flows'
               PROVE  /\ subscriber[r].flow > 0 => \E j \in 1 .. Len(q) : Denies(j, r)'
                      /\ \A i \in 1 .. Len(q) : Grants(i, r)' =>
                            \E j \in 1 .. Len(q) : j > i /\ Denies(j, r)'
    BY <1>1 DEF LossTold
  <2>1. CASE r \in Pairs \ flows
    <3>1. /\ subscriber[r].flow > 0 => \E j \in 1 .. Len(answers) : Denies(j, r)
          /\ \A i \in 1 .. Len(answers) : Grants(i, r) =>
                \E j \in 1 .. Len(answers) : j > i /\ Denies(j, r)
      BY <2>1 DEF FlowInv, LossTold
    <3> QED BY <1>4, <1>5, <3>1
  <2>2. CASE r \in flows
    <3>1. r = p /\ op = "flow" /\ id = 0
      BY <2>2
    <3>2. PICK k \in 1 .. Len(q) : k = Len(answers) + 1
      BY <1>2
    <3>3. Denies(k, r)'
      BY <1>1, <1>2, <1>3, <3>1, <3>2 DEF Denies
    <3>4. \A i \in 1 .. Len(answers) : k > i
      BY <1>2, <3>2
    <3> QED BY <1>4, <3>3, <3>4
  <2> QED BY <2>1, <2>2
<1> QED BY <1>6, <1>7, <1>8 DEF FlowInv

\* The manager serves a request.
LEMMA ManageFlowKeepsFlows == ASSUME FlowInv, ManageFlow PROVE FlowInv'
<1> DEFINE a == Head(asked)
           rest == Tail(asked)
<1>1. asked # <<>> /\ asked' = rest /\ UNCHANGED <<subscriber, published>>
  BY DEF ManageFlow
<1>2. /\ rest \in Seq(Request) /\ a \in Request /\ a = asked[1] /\ 1 \in 1 .. Len(asked)
      /\ \A i \in 1 .. Len(rest) : i + 1 \in 1 .. Len(asked) /\ rest[i] = asked[i + 1] /\ i + 1 # 1
  BY <1>1, TakeFirst DEF FlowInv, FlowTypes
<1>3. \/ flows' = flows \cup {a.pair} /\ Tell("flow", a.pair, 1)
      \/ a.op = "free" /\ (flows' = flows \/ flows' = flows \ {a.pair}) /\ answers' = answers
      \/ UNCHANGED <<flows, answers>>
  BY DEF ManageFlow
<1> HIDE DEF a, rest
<1>4. \A p : Asking(p)' => Asking(p) /\ p # a.pair
  BY <1>1, <1>2 DEF FlowInv, AskedOnce, Asking
<1>5. \A p : Freeing(p)' => Freeing(p)
  BY <1>1, <1>2 DEF Freeing
<1>6. AskedOnce'
  <2> SUFFICES ASSUME NEW i \in 1 .. Len(rest), NEW j \in 1 .. Len(rest), rest[i].pair = rest[j].pair
               PROVE  i = j
    BY <1>1 DEF AskedOnce
  <2>1. i + 1 = j + 1
    BY <1>2 DEF FlowInv, AskedOnce
  <2> QED BY <2>1
<1>7. Asking(a.pair) /\ a.pair \in Pairs /\ a.pair[2] \in published
      /\ \A i \in 1 .. Len(answers) : ~Grants(i, a.pair)
  <2>1. Asking(a.pair) /\ a.pair \in Pairs
    BY <1>2 DEF Asking, Request
  <2> QED BY <2>1 DEF FlowInv, AskedUnanswered, OncePublished
<1>8. CASE UNCHANGED answers /\ (flows' = flows \/ (a.op = "free" /\ flows' = flows \ {a.pair}))
  <2>1. FlowTypes' /\ OncePublished' /\ AskedUnanswered' /\ FreedUnused'
    BY <1>1, <1>2, <1>4, <1>5, <1>8
       DEF FlowInv, FlowTypes, OncePublished, AskedUnanswered, FreedUnused, Grants
  <2>2. LossTold'
    <3> SUFFICES ASSUME NEW r \in Pairs \ flows'
                 PROVE  /\ subscriber[r].flow > 0 => \E j \in 1 .. Len(answers) : Denies(j, r)
                        /\ \A i \in 1 .. Len(answers) : Grants(i, r) =>
                              \E j \in 1 .. Len(answers) : j > i /\ Denies(j, r)
      BY <1>1, <1>8 DEF LossTold, Grants, Denies
    <3>1. CASE r \notin flows
      BY <3>1 DEF FlowInv, LossTold
    <3>2. CASE r \in flows
      <4>1. r = a.pair /\ a.op = "free"
        BY <1>8, <3>2
      <4>2. Freeing(r) /\ subscriber[r].flow \in Int
        BY <1>2, <4>1 DEF Freeing, FlowInv, FlowTypes
      <4>3. subscriber[r].flow <= 0
        BY <4>2 DEF FlowInv, FreedUnused
      <4> QED BY <1>7, <4>1, <4>2, <4>3
    <3> QED BY <3>1, <3>2
  <2> QED BY <1>6, <2>1, <2>2 DEF FlowInv
<1>9. CASE flows' = flows \cup {a.pair} /\ Tell("flow", a.pair, 1)
  <2> DEFINE x == [op |-> "flow", pair |-> a.pair, id |-> 1]
             q == Append(answers, x)
  <2>1. answers' = q /\ x \in Answer /\ answers \in Seq(Answer)
    BY <1>7, <1>9 DEF Tell, Answer, FlowInv, FlowTypes
  <2>2. /\ q \in Seq(Answer)
        /\ Len(answers) + 1 \in 1 .. Len(q) /\ q[Len(answers) + 1] = x
        /\ \A i \in 1 .. Len(answers) : i \in 1 .. Len(q) /\ q[i] = answers[i] /\ Len(answers) + 1 > i
        /\ \A i \in 1 .. Len(q) : (i \in 1 .. Len(answers) /\ q[i] = answers[i]) \/ i = Len(answers) + 1
    BY <2>1, AppendLast
  <2>3. x.pair = a.pair
    OBVIOUS
  <2> HIDE DEF x, q
  <2>4. \A r \in Pairs : \A i \in 1 .. Len(q) :
           Grants(i, r)' => r = a.pair \/ (i \in 1 .. Len(answers) /\ Grants(i, r))
    BY <2>1, <2>2, <2>3 DEF Grants
  <2>5. \A r \in Pairs : \A i \in 1 .. Len(answers) : Denies(i, r) => i \in 1 .. Len(q) /\ Denies(i, r)'
    BY <2>1, <2>2 DEF Denies
  <2>6. FlowTypes'
    BY <1>1, <1>2, <2>1, <2>2 DEF FlowInv, FlowTypes
  <2>7. OncePublished' /\ AskedUnanswered'
    BY <1>1, <1>4, <1>7, <2>1, <2>4 DEF FlowInv, OncePublished, AskedUnanswered
  <2>8. FreedUnused'
    BY <1>1, <1>5 DEF FlowInv, FreedUnused
  <2>9. LossTold'
    <3> SUFFICES ASSUME NEW r \in Pairs \ flows'
                 PROVE  /\ subscriber[r].flow > 0 => \E j \in 1 .. Len(q) : Denies(j, r)'
                        /\ \A i \in 1 .. Len(q) : Grants(i, r)' =>
                              \E j \in 1 .. Len(q) : j > i /\ Denies(j, r)'
      BY <1>1, <2>1 DEF LossTold
    <3>1. r \notin flows /\ r # a.pair
      BY <1>9
    <3>2. /\ subscriber[r].flow > 0 => \E j \in 1 .. Len(answers) : Denies(j, r)
          /\ \A i \in 1 .. Len(answers) : Grants(i, r) =>
                \E j \in 1 .. Len(answers) : j > i /\ Denies(j, r)
      BY <3>1 DEF FlowInv, LossTold
    <3> QED BY <2>4, <2>5, <3>1, <3>2
  <2> QED BY <1>6, <2>6, <2>7, <2>8, <2>9 DEF FlowInv
<1> QED BY <1>3, <1>8, <1>9

\* The requests of an event: each node is the subject of one.
LEMMA RequestsOnce ==
  ASSUME FlowInv, NEW s \in Subjects, NEW X \in SUBSET Nodes, NEW op \in {"reg", "free"}
  PROVE  /\ Requests(op, X, s) \in Seq(Request)
         /\ \A i \in 1 .. Len(Requests(op, X, s)) :
               /\ Requests(op, X, s)[i].op = op
               /\ \E n \in X : Requests(op, X, s)[i].pair = <<n, s>>
         /\ \A i, j \in 1 .. Len(Requests(op, X, s)) :
               Requests(op, X, s)[i].pair = Requests(op, X, s)[j].pair => i = j
<1> DEFINE q == SetToSeq(X)
           L == Cardinality(X)
           x(i) == [op |-> op, pair |-> <<q[i], s>>, id |-> subscriber[<<q[i], s>>].flow]
<1>1. IsFiniteSet(X)
  BY AWDSAssumption, FS_Subset
<1>2. /\ q \in [1 .. L -> X] /\ L \in Nat
      /\ \A i, j \in 1 .. L : q[i] = q[j] => i = j
  BY <1>1, SetToSeqLists
<1>3. Requests(op, X, s) = [i \in 1 .. L |-> x(i)]
  BY <1>2 DEF Requests
<1> HIDE DEF q, L
<1>4. ASSUME NEW i \in 1 .. L
      PROVE  x(i) \in Request /\ x(i).op = op /\ x(i).pair = <<q[i], s>> /\ q[i] \in X
  <2>1. q[i] \in X /\ <<q[i], s>> \in Pairs
    BY <1>2 DEF Pairs
  <2>2. subscriber[<<q[i], s>>].flow \in Int
    BY <2>1 DEF FlowInv, FlowTypes
  <2> QED BY <2>1, <2>2 DEF Request
<1>5. \A i, j \in 1 .. L : <<q[i], s>> = <<q[j], s>> => i = j
  BY <1>2
<1> HIDE DEF x
<1>6. /\ Requests(op, X, s) \in Seq(Request) /\ Len(Requests(op, X, s)) = L
      /\ \A i \in 1 .. L : Requests(op, X, s)[i] = x(i)
  BY <1>2, <1>3, <1>4
<1> QED BY <1>4, <1>5, <1>6

LEMMA PublishKeepsFlows == ASSUME FlowInv, NEW s \in Subjects, Publish(s) PROVE FlowInv'
<1> DEFINE gone == IF flowMgmtAvail THEN {n \in Late(s) : subscriber[<<n, s>>].flow >= 0} ELSE {}
           a == Requests("reg", BadFlow(s), s)
           b == IF flowMgmtAvail THEN Requests("free", gone, s) ELSE <<>>
           q == asked \o a \o b
<1>1. s \notin published /\ published' = published \cup {s} /\ asked' = q
      /\ UNCHANGED <<flows, answers>>
  BY DEF Publish, daemonVars
<1>2. subscriber' = [p \in Pairs |->
          IF p[2] = s /\ p[1] \in Late(s) THEN None
          ELSE IF p[2] = s /\ p[1] \in BadFlow(s) THEN [age |-> subscriber[p].age, flow |-> -1]
          ELSE subscriber[p]]
  BY DEF Publish
<1>3. /\ BadFlow(s) \in SUBSET Nodes /\ gone \in SUBSET Nodes /\ gone \subseteq Late(s)
      /\ BadFlow(s) \cap Late(s) = {}
  BY DEF BadFlow, Late, Found
<1>4. /\ a \in Seq(Request)
      /\ \A i \in 1 .. Len(a) : a[i].op = "reg" /\ \E n \in BadFlow(s) : a[i].pair = <<n, s>>
      /\ \A i, j \in 1 .. Len(a) : a[i].pair = a[j].pair => i = j
  BY <1>3, RequestsOnce
<1>5. /\ b \in Seq(Request)
      /\ \A i \in 1 .. Len(b) : \E n \in gone : b[i].pair = <<n, s>>
      /\ \A i, j \in 1 .. Len(b) : b[i].pair = b[j].pair => i = j
  <2>1. CASE flowMgmtAvail
    <3> HIDE DEF gone
    <3> QED BY <1>3, <2>1, RequestsOnce
  <2>2. CASE ~flowMgmtAvail
    BY <2>2
  <2> QED BY <2>1, <2>2
<1> HIDE DEF gone, a, b
<1>6. asked \in Seq(Request) /\ answers \in Seq(Answer)
      /\ \A p \in Pairs : subscriber[p] \in [age : Int, flow : Int]
  BY DEF FlowInv, FlowTypes
\* The requests were there, or are for the subject, which had none.
<1>7. \A i \in 1 .. Len(asked) : asked[i].pair \in Pairs /\ asked[i].pair[2] # s
  <2> TAKE i \in 1 .. Len(asked)
  <2>1. asked[i].pair \in Pairs
    <3>1. \A x \in Request : x.pair \in Pairs
      BY DEF Request
    <3>2. asked[i] \in Request
      BY <1>6
    <3> QED BY <3>1, <3>2
  <2>2. Asking(asked[i].pair)
    BY DEF Asking
  <2> QED BY <1>1, <2>1, <2>2 DEF FlowInv, OncePublished
<1>8. /\ asked \o a \in Seq(Request)
      /\ \A i \in 1 .. Len(asked \o a) :
            \/ i \in 1 .. Len(asked) /\ (asked \o a)[i] = asked[i]
            \/ /\ i - Len(asked) \in 1 .. Len(a) /\ (asked \o a)[i] = a[i - Len(asked)]
               /\ i = (i - Len(asked)) + Len(asked)
  BY <1>4, <1>6, ConcatBoth
<1> DEFINE r == asked \o a
<1>9. /\ q \in Seq(Request)
      /\ \A i \in 1 .. Len(q) :
            \/ i \in 1 .. Len(r) /\ q[i] = r[i]
            \/ /\ i - Len(r) \in 1 .. Len(b) /\ q[i] = b[i - Len(r)]
               /\ i = (i - Len(r)) + Len(r)
  BY <1>5, <1>8, ConcatBoth
<1>10. \A i, j \in 1 .. Len(r) : r[i].pair = r[j].pair => i = j
  <2> SUFFICES ASSUME NEW i \in 1 .. Len(r), NEW j \in 1 .. Len(r), r[i].pair = r[j].pair
               PROVE  i = j
    OBVIOUS
  <2>1. \A k \in 1 .. Len(a) : a[k].pair[2] = s
    BY <1>4
  <2>2. CASE i \in 1 .. Len(asked) /\ r[i] = asked[i]
    <3>1. asked[i].pair[2] # s
      BY <1>7, <2>2
    <3>2. j \in 1 .. Len(asked) /\ r[j] = asked[j]
      <4> HIDE DEF r
      <4> QED BY <1>8, <2>1, <2>2, <3>1 DEF r
    <3> HIDE DEF r
    <3> QED BY <2>2, <3>2 DEF FlowInv, AskedOnce
  <2>3. CASE i - Len(asked) \in 1 .. Len(a) /\ r[i] = a[i - Len(asked)] /\ i = (i - Len(asked)) + Len(asked)
    <3>1. r[i].pair[2] = s
      BY <2>1, <2>3
    <3>2. j - Len(asked) \in 1 .. Len(a) /\ r[j] = a[j - Len(asked)] /\ j = (j - Len(asked)) + Len(asked)
      BY <1>7, <1>8, <3>1
    <3>3. i - Len(asked) = j - Len(asked)
      BY <1>4, <2>3, <3>2
    <3> QED BY <2>3, <3>2, <3>3
  <2> QED BY <1>8, <2>2, <2>3
<1>11. \A i \in 1 .. Len(r) : \/ i \in 1 .. Len(asked) /\ r[i] = asked[i]
                              \/ r[i].op = "reg" /\ \E n \in BadFlow(s) : r[i].pair = <<n, s>>
  BY <1>4, <1>8
<1> HIDE DEF r
<1>12. \A i \in 1 .. Len(q) :
          \/ \E k \in 1 .. Len(asked) : q[i] = asked[k]
          \/ q[i].op = "reg" /\ q[i].pair[2] = s
          \/ \E n \in gone : q[i].pair = <<n, s>>
  <2> TAKE i \in 1 .. Len(q)
  <2>1. CASE i \in 1 .. Len(r) /\ q[i] = r[i]
    <3>1. \A n : <<n, s>>[2] = s
      OBVIOUS
    <3> QED BY <1>11, <2>1, <3>1
  <2>2. CASE i - Len(r) \in 1 .. Len(b) /\ q[i] = b[i - Len(r)]
    BY <1>5, <2>2
  <2> HIDE DEF q
  <2> QED BY <1>9, <2>1, <2>2
<1>13. AskedOnce'
  <2> SUFFICES ASSUME NEW i \in 1 .. Len(q), NEW j \in 1 .. Len(q), q[i].pair = q[j].pair
               PROVE  i = j
    BY <1>1 DEF AskedOnce
  <2> HIDE DEF q
  <2>1. \A k \in 1 .. Len(r), l \in 1 .. Len(b) : r[k].pair # b[l].pair
    <3> SUFFICES ASSUME NEW k \in 1 .. Len(r), NEW l \in 1 .. Len(b), r[k].pair = b[l].pair PROVE FALSE
      OBVIOUS
    <3>1. PICK n \in gone : b[l].pair = <<n, s>>
      BY <1>5
    <3>2. r[k].pair[2] = s
      BY <3>1
    <3>3. PICK m \in BadFlow(s) : r[k].pair = <<m, s>>
      BY <1>7, <1>11, <3>2
    <3>4. m = n
      BY <3>1, <3>3
    <3> QED BY <1>3, <3>4
  <2>2. CASE i \in 1 .. Len(r) /\ q[i] = r[i]
    <3>1. j \in 1 .. Len(r) /\ q[j] = r[j]
      BY <1>9, <2>1, <2>2
    <3> QED BY <1>10, <2>2, <3>1
  <2>3. CASE i - Len(r) \in 1 .. Len(b) /\ q[i] = b[i - Len(r)] /\ i = (i - Len(r)) + Len(r)
    <3>1. j - Len(r) \in 1 .. Len(b) /\ q[j] = b[j - Len(r)] /\ j = (j - Len(r)) + Len(r)
      BY <1>9, <2>1, <2>3
    <3>2. i - Len(r) = j - Len(r)
      BY <1>5, <2>3, <3>1
    <3> QED BY <2>3, <3>1, <3>2
  <2> QED BY <1>9, <2>2, <2>3
<1> HIDE DEF q
<1>14. \A p \in Pairs : Asking(p)' => Asking(p) \/ p[2] = s
  BY <1>1, <1>12 DEF Asking
<1>15. \A p \in Pairs : Freeing(p)' => Freeing(p) \/ (p[2] = s /\ p[1] \in Late(s))
  BY <1>1, <1>3, <1>12 DEF Freeing
<1>16. \A p \in Pairs : subscriber'[p].flow = subscriber[p].flow \/ subscriber'[p].flow <= 0
  <2> TAKE p \in Pairs
  <2>1. \A x : [age |-> x, flow |-> -1].flow <= 0
    OBVIOUS
  <2> QED BY <1>2, <2>1 DEF None
<1>17. subscriber' \in [Pairs -> [age : Int, flow : Int]]
  <2>1. \A p \in Pairs : subscriber'[p] \in [age : Int, flow : Int]
    <3> TAKE p \in Pairs
    <3>1. None \in [age : Int, flow : Int] /\ subscriber[p].age \in Int
      BY <1>6 DEF None
    <3>2. \A x \in Int : [age |-> x, flow |-> -1] \in [age : Int, flow : Int]
      OBVIOUS
    <3> QED BY <1>2, <1>6, <3>1, <3>2
  <2> QED BY <1>2, <2>1
<1>18. FlowTypes'
  BY <1>1, <1>6, <1>9, <1>17 DEF FlowTypes
<1>19. OncePublished'
  BY <1>1, <1>14 DEF FlowInv, OncePublished, Grants
<1>20. AskedUnanswered'
  <2> SUFFICES ASSUME NEW p \in Pairs, Asking(p)', NEW i \in 1 .. Len(answers), Grants(i, p) PROVE FALSE
    BY <1>1 DEF AskedUnanswered, Grants
  <2>1. CASE Asking(p)
    BY <2>1 DEF FlowInv, AskedUnanswered
  <2>2. CASE p[2] = s
    BY <1>1, <2>2 DEF FlowInv, OncePublished
  <2> QED BY <1>14, <2>1, <2>2
<1>21. FreedUnused'
  <2> SUFFICES ASSUME NEW p \in Pairs, Freeing(p)' PROVE subscriber'[p].flow <= 0
    BY DEF FreedUnused
  <2>1. CASE Freeing(p)
    BY <1>16, <2>1 DEF FlowInv, FreedUnused
  <2>2. CASE p[2] = s /\ p[1] \in Late(s)
    BY <1>2, <2>2 DEF None
  <2> QED BY <1>15, <2>1, <2>2
<1>22. LossTold'
  <2> SUFFICES ASSUME NEW p \in Pairs \ flows
               PROVE  /\ subscriber'[p].flow > 0 => \E j \in 1 .. Len(answers) : Denies(j, p)
                      /\ \A i \in 1 .. Len(answers) : Grants(i, p) =>
                            \E j \in 1 .. Len(answers) : j > i /\ Denies(j, p)
    BY <1>1 DEF LossTold, Grants, Denies
  <2>1. subscriber'[p].flow \in Int
    BY <1>17
  <2>2. subscriber'[p].flow > 0 => subscriber[p].flow > 0
    BY <1>16, <2>1
  <2> QED BY <2>2 DEF FlowInv, LossTold
<1> QED BY <1>13, <1>18, <1>19, <1>20, <1>21, <1>22 DEF FlowInv

LEMMA NextKeepsFlows == ASSUME FlowInv, [Next]_vars PROVE FlowInv'
<1>1. CASE Work
  BY <1>1, NodesKeepFlows, PublishKeepsFlows, AnswerKeepsFlows, ManageFlowKeepsFlows DEF Work
<1>2. ASSUME NEW p \in Pairs, LoseFlow(p) PROVE FlowInv'
  <2>1. Tell("flow", p, 0) /\ flows' = flows \ {p} /\ UNCHANGED <<subscriber, asked, published>>
    BY <1>2 DEF LoseFlow
  <2> QED BY <2>1, ManagerKeepsFlows
<1>3. CASE ChangeManager
  <2>1. PICK id \in {0, 1} : Tell("avail", <<>>, id)
    BY <1>3 DEF ChangeManager
  <2>2. UNCHANGED <<subscriber, asked, published, flows>>
    BY <1>3 DEF ChangeManager
  <2> QED BY <2>1, <2>2, ManagerKeepsFlows
<1>4. CASE Environment
  BY <1>2, <1>3, <1>4, NodesKeepFlows DEF Environment
<1> QED BY <1>1, <1>4, TickKeepsFlows, NodesKeepFlows DEF Next

\* An event is sent over a flow that the manager holds, or whose loss it has told
\* already, for any faults, and also when a node leaves and comes back while requests
\* and answers for it are on their way.
THEOREM EventsGoOverGoodFlows == Spec => FlowsAreGood
<1> DEFINE Good(p) == flowMgmtAvail => \/ p \in flows
                                       \/ \E i \in DOMAIN answers : answers[i].pair = p /\ answers[i].id = 0
<1>1. ASSUME FlowInv, [Next]_vars, NEW p \in served' \ served PROVE Good(p)
  <2>1. PICK s \in Subjects : Publish(s)
    BY <1>1 DEF Next, Work, Environment, Tick, Renew, ReceiveSubscriptions, ReceiveAnswer, ManageFlow,
       Leave, Start, LosePacket, ReceiveAttributes, Subscribe, LoseFlow, ChangeManager, vars
  <2>2. PICK n \in Found(s) \ Late(s) : HasFlow(n, s) /\ p = <<n, s>>
    BY <1>1, <2>1 DEF Publish
  <2>3. p \in Pairs
    BY <2>2 DEF Found, Pairs
  <2>4. flowMgmtAvail => subscriber[p].flow > 0
    BY <2>2 DEF HasFlow
  <2>5. DOMAIN answers = 1 .. Len(answers)
    BY <1>1 DEF FlowInv, FlowTypes
  <2> QED BY <1>1, <2>3, <2>4, <2>5 DEF FlowInv, LossTold, Denies
<1>2. FlowInv /\ [Next]_vars => [\A p \in served' \ served : Good(p)]_vars
  BY <1>1
<1>3. Init => FlowInv
  BY InitFlows
<1>4. FlowInv /\ [Next]_vars => FlowInv'
  BY NextKeepsFlows
<1> QED BY <1>2, <1>3, <1>4, PTL DEF Spec, FlowsAreGood
=============================================================================
