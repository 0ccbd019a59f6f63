------------------------ MODULE EventLayerStubsProofs ------------------------
(***************************************************************************)
(* Theorems about the stubs, for any clients, channels, calls and events:  *)
(* the daemon's writes to a connection are queued one after the other and  *)
(* counted, nothing of a channel is left when unsubscribe returns, and the *)
(* stubs implement the feeds of EventFeed.                                 *)
(*                                                                         *)
(* Counting bytes is an induction over sequences.  The provers cannot take *)
(* the library's induction theorems, which have an operator as parameter,  *)
(* so that the induction is over sets of numbers here.                     *)
(***************************************************************************)
EXTENDS EventLayerStubs, SequenceTheorems, WellFoundedInduction, TLAPS

-----------------------------------------------------------------------------
(* The bytes of a sequence of events.                                      *)

LEMMA Induction ==
    ASSUME NEW S \in SUBSET Nat, 0 \in S, \A n \in S : n + 1 \in S
    PROVE  S = Nat
<1> DEFINE R == {p \in Nat \X Nat : p[1] < p[2]}
           T == Nat \ S
<1>1. IsWellFoundedOn(R, Nat)
  BY NatLessThanWellFounded DEF OpToRel
<1> SUFFICES ASSUME T # {} PROVE FALSE
  OBVIOUS
<1>2. PICK x \in T : \A y \in T : <<y, x>> \notin R
  <2> HIDE DEF R
  <2>1. T \in SUBSET Nat
    OBVIOUS
  <2> HIDE DEF T
  <2> QED
    BY <1>1, <2>1, WFMin, Zenon
<1>3. x \in Nat /\ x # 0 /\ x - 1 \in Nat /\ x - 1 < x
  BY <1>2
<1>4. x - 1 \notin T
  BY <1>2, <1>3
<1>5. (x - 1) + 1 \in S
  BY <1>3, <1>4
<1> QED
  BY <1>2, <1>3, <1>5

\* Two functions that grow alike, one of them from k on, are at the same distance.
LEMMA GrowAlike ==
    ASSUME NEW n \in Nat, NEW k \in Nat, NEW m \in Nat, k + n <= m,
           NEW f \in [0 .. m -> Int], NEW g \in [0 .. n -> Int],
           \A i \in 1 .. n : f[k + i] - f[k + (i - 1)] = g[i] - g[i - 1]
    PROVE  f[k + n] - f[k] = g[n] - g[0]
<1> DEFINE S == {i \in Nat : i <= n => f[k + i] - f[k] = g[i] - g[0]}
<1>1. k + 0 = k /\ 0 \in 0 .. n
  OBVIOUS
<1>2. 0 \in S
  <2>0. k \in 0 .. m
    OBVIOUS
  <2>1. f[k] \in Int /\ g[0] \in Int
    BY <1>1, <2>0
  <2>2. f[k + 0] - f[k] = 0 /\ g[0] - g[0] = 0
    BY <1>1, <2>1
  <2> QED
    BY <2>2
<1>3. ASSUME NEW i \in S PROVE i + 1 \in S
  <2> SUFFICES ASSUME i + 1 <= n PROVE f[k + (i + 1)] - f[k] = g[i + 1] - g[0]
    BY <1>3
  <2>1. i \in Nat /\ i <= n /\ i + 1 \in 1 .. n /\ (i + 1) - 1 = i
    BY <1>3
  <2>2. f[k + i] - f[k] = g[i] - g[0]
    BY <1>3, <2>1
  <2>3. f[k + (i + 1)] - f[k + i] = g[i + 1] - g[i]
    BY <2>1
  <2>5. i \in 0 .. n /\ i + 1 \in 0 .. n /\ 0 \in 0 .. n
    BY <2>1
  <2> DEFINE a == f[k] b == f[k + i] c == f[k + (i + 1)] d == g[0] e == g[i] h == g[i + 1]
  <2>4. k \in 0 .. m /\ k + i \in 0 .. m /\ k + (i + 1) \in 0 .. m
    BY <2>1
  <2>6. a \in Int /\ b \in Int /\ c \in Int
    BY <2>4
  <2>7. d \in Int /\ e \in Int /\ h \in Int
    BY <2>5
  <2>8. b - a = e - d /\ c - b = h - e
    BY <2>2, <2>3
  <2> HIDE DEF a, b, c, d, e, h
  <2>9. c - a = h - d
    BY <2>6, <2>7, <2>8
  <2> QED
    BY <2>9 DEF a, c, d, h
<1>4. S = Nat
  <2>1. S \in SUBSET Nat
    OBVIOUS
  <2> HIDE DEF S
  <2> QED
    BY <1>2, <1>3, <2>1, Induction
<1>5. n \in S /\ n <= n
  <2> HIDE DEF S
  <2> QED
    BY <1>4
<1> QED
  BY <1>5

\* f counts the bytes of the first events of s.
Counts(f, s) ==
    /\ f \in [0 .. Len(s) -> Int]
    /\ f[0] = 0
    /\ \A i \in 1 .. Len(s) : f[i] = f[i - 1] + Size(s[i])

LEMMA SizeIsNat == \A e \in Events : Size(e) \in Nat /\ Size(e) \in Int
BY StubsAssumption DEF Size

LEMMA CountExists == ASSUME NEW s \in Seq(Events) PROVE \E f : Counts(f, s)
<1> DEFINE n == Len(s)
           Up(f, m) == /\ f \in [0 .. m -> Int] /\ f[0] = 0
                       /\ \A i \in 1 .. m : f[i] = f[i - 1] + Size(s[i])
           S == {m \in Nat : m <= n => \E f : Up(f, m)}
<1>1. n \in Nat /\ \A i \in 1 .. n : s[i] \in Events
  OBVIOUS
<1> HIDE DEF n
<1>2. 0 \in S
  <2>1. Up([i \in 0 .. 0 |-> 0], 0)
    OBVIOUS
  <2> QED
    BY <2>1
<1>3. ASSUME NEW m \in S PROVE m + 1 \in S
  <2> HIDE DEF Up
  <2>0. m \in Nat /\ (m <= n => \E f : Up(f, m))
    BY <1>3
  <2> SUFFICES ASSUME m + 1 <= n PROVE \E f : Up(f, m + 1)
    BY <2>0
  <2>1. m \in Nat /\ m <= n /\ m + 1 \in 1 .. n
    BY <1>1, <2>0
  <2>2. PICK f : Up(f, m)
    BY <2>0, <2>1
  <2> USE DEF Up
  <2> DEFINE g == [i \in 0 .. m + 1 |-> IF i = m + 1 THEN f[m] + Size(s[m + 1]) ELSE f[i]]
  <2>3. Size(s[m + 1]) \in Int
    BY <1>1, <2>1, SizeIsNat
  <2>4. \A i \in 0 .. m : f[i] \in Int /\ g[i] = f[i] /\ i \in 0 .. m + 1
    BY <2>1, <2>2
  <2>5. m \in 0 .. m /\ m + 1 \in 0 .. m + 1 /\ (m + 1) - 1 = m /\ 0 \in 0 .. m
    BY <2>1
  <2>6. g[m + 1] = f[m] + Size(s[m + 1]) /\ f[m] \in Int
    BY <2>4, <2>5
  <2>7. \A i \in 0 .. m + 1 : i \in 0 .. m \/ i = m + 1
    BY <2>1
  <2>8. g \in [0 .. m + 1 -> Int]
    <3>1. \A i \in 0 .. m + 1 : g[i] \in Int
      BY <2>3, <2>4, <2>6, <2>7
    <3>2. g = [i \in 0 .. m + 1 |-> g[i]]
      OBVIOUS
    <3> HIDE DEF g
    <3> QED
      BY <3>1, <3>2
  <2> HIDE DEF g
  <2>9. g[0] = 0
    BY <2>2, <2>4, <2>5
  <2>10. \A i \in 1 .. m + 1 : g[i] = g[i - 1] + Size(s[i])
    <3> TAKE i \in 1 .. m + 1
    <3>1. CASE i = m + 1
      BY <2>4, <2>5, <2>6, <3>1
    <3>2. CASE i # m + 1
      <4>1. i \in 1 .. m /\ i \in 0 .. m /\ i - 1 \in 0 .. m
        BY <2>1, <3>2
      <4>2. f[i] = f[i - 1] + Size(s[i])
        BY <2>2, <4>1
      <4> QED
        BY <2>4, <4>1, <4>2
    <3> QED
      BY <3>1, <3>2
  <2> QED
    BY <2>8, <2>9, <2>10
<1>4. S = Nat
  <2>1. S \in SUBSET Nat
    OBVIOUS
  <2> HIDE DEF S
  <2> QED
    BY <1>2, <1>3, <2>1, Induction
<1>5. \E f : Up(f, n)
  <2> HIDE DEF Up
  <2>1. n \in S /\ n <= n
    <3> HIDE DEF S
    <3> QED
      BY <1>1, <1>4
  <2> QED
    BY <2>1
<1> QED
  BY <1>5 DEF Counts, n

\* The size of a sequence is the count of all its events.
LEMMA SizeCounts == ASSUME NEW s \in Seq(Events)
                    PROVE  \E f : Counts(f, s) /\ SizeOf(s) = f[Len(s)]
<1> DEFINE n == Len(s)
           Step(f) == [i \in 0 .. n |-> IF i = 0 THEN 0 ELSE f[i - 1] + Size(s[i])]
           sum == CHOOSE f : f = Step(f)
<1>1. n \in Nat /\ \A i \in 1 .. n : s[i] \in Events
  OBVIOUS
<1>2. PICK f : Counts(f, s)
  BY CountExists
<1>3. f = Step(f)
  <2>1. \A i \in 0 .. n : f[i] = IF i = 0 THEN 0 ELSE f[i - 1] + Size(s[i])
    BY <1>1, <1>2 DEF Counts
  <2>2. f = [i \in 0 .. n |-> f[i]]
    BY <1>2 DEF Counts
  <2> QED
    BY <2>1, <2>2
<1>4. sum = Step(sum)
  BY <1>3
<1>5. SizeOf(s) = sum[n]
  BY DEF SizeOf
<1> HIDE DEF sum
<1>6. Counts(sum, s)
  <2> DEFINE S == {i \in Nat : i <= n => sum[i] \in Int}
  <2>1. 0 \in 0 .. n /\ sum[0] = 0
    BY <1>1, <1>4
  <2>2. \A i \in 1 .. n : sum[i] = sum[i - 1] + Size(s[i])
    BY <1>1, <1>4
  <2>3. \A i \in 1 .. n : Size(s[i]) \in Int
    BY <1>1, SizeIsNat
  <2>4. 0 \in S
    BY <2>1
  <2>5. ASSUME NEW i \in S PROVE i + 1 \in S
    <3> SUFFICES ASSUME i + 1 <= n PROVE sum[i + 1] \in Int
      BY <2>5
    <3>1. i \in Nat /\ i <= n /\ i + 1 \in 1 .. n /\ (i + 1) - 1 = i
      BY <1>1, <2>5
    <3>2. sum[i] \in Int
      BY <2>5, <3>1
    <3>3. sum[i + 1] = sum[i] + Size(s[i + 1]) /\ Size(s[i + 1]) \in Int
      BY <2>2, <2>3, <3>1
    <3> QED
      BY <3>2, <3>3
  <2>6. S = Nat
    <3>1. S \in SUBSET Nat
      OBVIOUS
    <3> HIDE DEF S
    <3> QED
      BY <2>4, <2>5, <3>1, Induction
  <2>7. \A i \in 0 .. n : sum[i] \in Int
    BY <1>1, <2>6
  <2>8. sum = [i \in 0 .. n |-> sum[i]]
    BY <1>4
  <2>9. sum \in [0 .. n -> Int]
    BY <2>7, <2>8
  <2> QED
    BY <2>1, <2>2, <2>9 DEF Counts
<1> QED
  BY <1>5, <1>6

LEMMA SizeOfConcat ==
    ASSUME NEW a \in Seq(Events), NEW b \in Seq(Events)
    PROVE  SizeOf(a) \in Int /\ SizeOf(b) \in Int /\ SizeOf(a \o b) = SizeOf(a) + SizeOf(b)
<1> DEFINE l == Len(a)
           n == Len(b)
           s == a \o b
<1>1. l \in Nat /\ n \in Nat /\ s \in Seq(Events) /\ Len(s) = l + n
  OBVIOUS
<1>2. (\A i \in 1 .. l : s[i] = a[i] /\ a[i] \in Events)
      /\ \A i \in 1 .. n : s[l + i] = b[i] /\ b[i] \in Events
  OBVIOUS
<1>3. PICK f : Counts(f, s) /\ SizeOf(s) = f[Len(s)]
  BY <1>1, SizeCounts
<1>4. PICK g : Counts(g, a) /\ SizeOf(a) = g[l]
  BY SizeCounts
<1>5. PICK h : Counts(h, b) /\ SizeOf(b) = h[n]
  BY SizeCounts
<1> HIDE DEF l, n, s
<1>6. /\ f \in [0 .. l + n -> Int] /\ \A i \in 0 .. l + n : f[i] \in Int
      /\ f[0] = 0 /\ \A i \in 1 .. l + n : f[i] = f[i - 1] + Size(s[i])
  BY <1>1, <1>3 DEF Counts
<1>7. /\ g \in [0 .. l -> Int] /\ \A i \in 0 .. l : g[i] \in Int
      /\ g[0] = 0 /\ \A i \in 1 .. l : g[i] = g[i - 1] + Size(a[i])
  BY <1>4 DEF Counts, l
<1>8. /\ h \in [0 .. n -> Int] /\ \A i \in 0 .. n : h[i] \in Int
      /\ h[0] = 0 /\ \A i \in 1 .. n : h[i] = h[i - 1] + Size(b[i])
  BY <1>5 DEF Counts, n
<1>9. f[0 + l] - f[0] = g[l] - g[0]
  <2>1. \A i \in 0 .. l : 0 + i = i /\ f[0 + i] \in Int
    BY <1>1, <1>6
  <2>2. \A i \in 1 .. l : f[0 + i] - f[0 + (i - 1)] = g[i] - g[i - 1]
    <3> TAKE i \in 1 .. l
    <3>1. i - 1 \in 0 .. l /\ i \in 0 .. l /\ 0 + i = i /\ 0 + (i - 1) = i - 1 /\ i \in 1 .. l + n
      BY <1>1
    <3>2. f[i] = f[i - 1] + Size(a[i]) /\ g[i] = g[i - 1] + Size(a[i])
      BY <1>2, <1>6, <1>7, <3>1
    <3>3. Size(a[i]) \in Int /\ f[i - 1] \in Int /\ g[i - 1] \in Int
      BY <1>2, <1>7, <2>1, <3>1, SizeIsNat
    <3> QED
      BY <3>1, <3>2, <3>3
  <2>3. 0 \in Nat
    OBVIOUS
  <2>4. l + n \in Nat /\ 0 + l <= l + n
    BY <1>1
  <2> QED
    BY <1>1, <1>6, <1>7, <2>2, <2>3, <2>4, GrowAlike
<1>10. f[l + n] - f[l] = h[n] - h[0]
  <2>1. \A i \in 0 .. n : l + i \in 0 .. l + n /\ f[l + i] \in Int
    BY <1>1, <1>6
  <2>2. \A i \in 1 .. n : f[l + i] - f[l + (i - 1)] = h[i] - h[i - 1]
    <3> TAKE i \in 1 .. n
    <3>1. i - 1 \in 0 .. n /\ i \in 0 .. n /\ l + i \in 1 .. l + n /\ (l + i) - 1 = l + (i - 1)
      BY <1>1
    <3>2. f[l + i] = f[l + (i - 1)] + Size(b[i]) /\ h[i] = h[i - 1] + Size(b[i])
      BY <1>2, <1>6, <1>8, <3>1
    <3>3. Size(b[i]) \in Int /\ f[l + (i - 1)] \in Int /\ h[i - 1] \in Int
      BY <1>2, <1>8, <2>1, <3>1, SizeIsNat
    <3> QED
      BY <3>2, <3>3
  <2>3. l + n \in Nat /\ l + n <= l + n
    BY <1>1
  <2> QED
    BY <1>1, <1>6, <1>8, <2>2, <2>3, GrowAlike
<1>11. 0 + l = l /\ l \in 0 .. l + n /\ l + n \in 0 .. l + n /\ l \in 0 .. l /\ n \in 0 .. n
  BY <1>1
<1>12. f[l] \in Int /\ f[l + n] \in Int /\ g[l] \in Int /\ h[n] \in Int
  BY <1>6, <1>7, <1>8, <1>11
<1>13. f[l] - 0 = g[l] - 0 /\ f[l + n] - f[l] = h[n] - 0
  BY <1>6, <1>7, <1>8, <1>9, <1>10, <1>11
<1>14. f[l + n] = g[l] + h[n]
  BY <1>12, <1>13
<1>15. SizeOf(s) = f[l + n]
  BY <1>1, <1>3
<1> QED
  BY <1>4, <1>5, <1>12, <1>14, <1>15 DEF s

LEMMA SizeOfOne == ASSUME NEW e \in Events PROVE SizeOf(<<e>>) = Size(e)
<1>1. <<e>> \in Seq(Events) /\ Len(<<e>>) = 1 /\ <<e>>[1] = e
  OBVIOUS
<1>2. PICK f : Counts(f, <<e>>) /\ SizeOf(<<e>>) = f[1]
  BY <1>1, SizeCounts
<1>3. 1 \in 1 .. 1 /\ 1 - 1 = 0
  OBVIOUS
<1>4. f[0] = 0 /\ f[1] = f[0] + Size(e)
  BY <1>1, <1>2, <1>3 DEF Counts
<1> QED
  BY <1>2, <1>4, SizeIsNat

LEMMA SizeOfNone == SizeOf(<<>>) = 0
<1>1. <<>> \in Seq(Events) /\ Len(<<>>) = 0
  OBVIOUS
<1>2. PICK f : Counts(f, <<>>) /\ SizeOf(<<>>) = f[0]
  BY <1>1, SizeCounts
<1> QED
  BY <1>2 DEF Counts

LEMMA SizeOfAppend ==
    ASSUME NEW s \in Seq(Events), NEW e \in Events
    PROVE  SizeOf(Append(s, e)) = SizeOf(s) + Size(e)
<1>1. Append(s, e) = s \o <<e>> /\ <<e>> \in Seq(Events)
  OBVIOUS
<1> QED
  BY <1>1, SizeOfConcat, SizeOfOne

LEMMA SizeOfTail ==
    ASSUME NEW s \in Seq(Events), s # <<>>
    PROVE  SizeOf(Tail(s)) = SizeOf(s) - Size(Head(s)) /\ SizeOf(s) \in Int
<1>1. s = <<Head(s)>> \o Tail(s) /\ Head(s) \in Events /\ Tail(s) \in Seq(Events)
  OBVIOUS
<1>2. <<Head(s)>> \in Seq(Events)
  BY <1>1
<1>3. SizeOf(<<Head(s)>> \o Tail(s)) = SizeOf(<<Head(s)>>) + SizeOf(Tail(s))
      /\ SizeOf(Tail(s)) \in Int /\ SizeOf(s) \in Int
  BY <1>1, <1>2, SizeOfConcat
<1>4. SizeOf(<<Head(s)>>) = Size(Head(s)) /\ Size(Head(s)) \in Int
  BY <1>1, SizeOfOne, SizeIsNat
<1> DEFINE t == SizeOf(Tail(s)) h == Size(Head(s)) w == SizeOf(s)
<1>5. w = h + t
  BY <1>1, <1>3, <1>4
<1>6. t \in Int /\ h \in Int /\ w \in Int
  BY <1>3, <1>4
<1> HIDE DEF t, h, w
<1>7. t = w - h
  BY <1>5, <1>6
<1> QED
  BY <1>6, <1>7 DEF t, h, w

LEMMA SizeIsPositive == ASSUME NEW s \in Seq(Events) PROVE SizeOf(s) \in Int /\ SizeOf(s) >= 0
<1>1. PICK f : Counts(f, s) /\ SizeOf(s) = f[Len(s)]
  BY SizeCounts
<1> DEFINE n == Len(s)
           S == {i \in Nat : i <= n => f[i] >= 0}
<1>2. n \in Nat /\ \A i \in 1 .. n : s[i] \in Events
  OBVIOUS
<1> HIDE DEF n
<1>3. /\ \A i \in 0 .. n : f[i] \in Int
      /\ f[0] = 0 /\ \A i \in 1 .. n : f[i] = f[i - 1] + Size(s[i])
  BY <1>1 DEF Counts, n
<1>4. 0 \in S
  BY <1>3
<1>5. ASSUME NEW i \in S PROVE i + 1 \in S
  <2>0. i \in Nat /\ (i <= n => f[i] >= 0)
    BY <1>5
  <2> SUFFICES ASSUME i + 1 <= n PROVE f[i + 1] >= 0
    BY <2>0
  <2>1. i + 1 \in 1 .. n /\ (i + 1) - 1 = i /\ i \in 0 .. n
    BY <1>2, <2>0
  <2>2. f[i + 1] = f[i] + Size(s[i + 1]) /\ f[i] >= 0 /\ f[i] \in Int
    BY <1>3, <2>0, <2>1
  <2>3. Size(s[i + 1]) \in Nat
    BY <1>2, <2>1, SizeIsNat
  <2> QED
    BY <2>2, <2>3
<1>6. n \in S
  <2>1. S \in SUBSET Nat
    OBVIOUS
  <2> HIDE DEF S
  <2> QED
    BY <1>2, <1>4, <1>5, <2>1, Induction
<1>7. f[n] >= 0
  BY <1>2, <1>6
<1> QED
  BY <1>1, <1>2, <1>3, <1>7 DEF n

-----------------------------------------------------------------------------
(* The writes.                                                             *)

Writes == [posted : Seq(Events), queue : Seq(Events), writes : Nat, bytes : Int, late : BOOLEAN]

Queued(o) == /\ Len(o.posted) <= 1
             /\ o.queue # <<>> => o.posted # <<>>
             /\ o.writes = Len(o.posted) + Len(o.queue)

\* cb and write_handler keep the writes of a connection in order.
LEMMA PostedQueues ==
    ASSUME NEW o \in Writes, Queued(o), NEW e \in Events
    PROVE  Posted(o, e) \in Writes /\ Queued(Posted(o, e))
<1>1. Size(e) \in Int
  BY StubsAssumption DEF Size
<1>2. CASE o.writes = 0
  <2>1. o.posted = <<>> /\ o.queue = <<>>
    BY <1>2 DEF Queued, Writes
  <2>2. Append(o.posted, e) = <<e>>
    BY <2>1
  <2> QED
    BY <1>1, <1>2, <2>1, <2>2 DEF Posted, Queued, Writes
<1>3. CASE o.writes # 0
  <2>1. o.posted # <<>>
    BY <1>3 DEF Queued, Writes
  <2> QED
    BY <1>1, <1>3, <2>1 DEF Posted, Queued, Writes
<1> QED
  BY <1>2, <1>3

LEMMA CbQueues ==
    ASSUME NEW o \in Writes, Queued(o), NEW e \in Events
    PROVE  Cb(o, e) \in Writes /\ Queued(Cb(o, e))
<1>1. Timed(o) \in Writes /\ Queued(Timed(o))
  BY DEF Timed, Writes, Queued
<1> QED
  BY <1>1, PostedQueues DEF Cb

LEMMA WriteHandlerQueues ==
    ASSUME NEW o \in Writes, Queued(o), o.posted # <<>>, NEW n \in Int
    PROVE  WriteHandler(o, n) \in Writes /\ Queued(WriteHandler(o, n))
<1> DEFINE rest == Tail(o.posted)
           next == Append(rest, Head(o.queue))
<1>1. /\ o.posted \in Seq(Events) /\ o.queue \in Seq(Events)
      /\ o.writes \in Nat /\ o.bytes \in Int /\ o.late \in BOOLEAN
      /\ o.writes = Len(o.posted) + Len(o.queue)
  BY DEF Writes, Queued
<1>2. Len(o.posted) = 1
  <2>1. Len(o.posted) <= 1
    BY DEF Queued
  <2>2. Len(o.posted) \in Nat /\ Len(o.posted) # 0
    BY <1>1
  <2>3. \A l \in Nat : l <= 1 /\ l # 0 => l = 1
    OBVIOUS
  <2> QED
    BY <2>1, <2>2, <2>3
<1>3. rest \in Seq(Events) /\ Len(rest) = 0
  BY <1>1, <1>2
<1>4. CASE o.queue = <<>>
  <2>1. Len(o.queue) = 0
    BY <1>4
  <2>2. WriteHandler(o, n) = [posted |-> rest, queue |-> o.queue,
           writes |-> o.writes - 1, bytes |-> o.bytes - n, late |-> o.late]
    BY <1>4 DEF WriteHandler
  <2>3. o.writes - 1 = 0
    BY <1>1, <1>2, <2>1
  <2> HIDE DEF rest
  <2> QED
    BY <1>1, <1>3, <1>4, <2>1, <2>2, <2>3 DEF Writes, Queued
<1>5. CASE o.queue # <<>>
  <2>1. Head(o.queue) \in Events /\ Tail(o.queue) \in Seq(Events)
        /\ Len(Tail(o.queue)) = Len(o.queue) - 1 /\ Len(o.queue) \in Nat
    BY <1>1, <1>5
  <2>2. next \in Seq(Events) /\ Len(next) = 1
    BY <1>3, <2>1
  <2>3. WriteHandler(o, n) = [posted |-> next, queue |-> Tail(o.queue),
           writes |-> o.writes - 1, bytes |-> o.bytes - n, late |-> o.late]
    BY <1>5 DEF WriteHandler
  <2>4. next # <<>>
    BY <2>2
  <2>5. o.writes - 1 \in Nat /\ o.writes - 1 = Len(next) + Len(Tail(o.queue))
    <3>1. o.writes = 1 + Len(o.queue) /\ Len(Tail(o.queue)) = Len(o.queue) - 1 /\ Len(o.queue) \in Nat
      BY <1>1, <1>2, <2>1
    <3>2. Len(next) = 1
      BY <2>2
    <3> HIDE DEF next
    <3> QED
      BY <3>1, <3>2
  <2>6. o.bytes - n \in Int
    BY <1>1
  <2> HIDE DEF next
  <2> QED
    BY <1>1, <2>1, <2>2, <2>3, <2>4, <2>5, <2>6 DEF Writes, Queued
<1> QED
  BY <1>4, <1>5

-----------------------------------------------------------------------------
(* Types, and the writes of all connections.                               *)

Types == /\ TypeOK
         /\ out \in [Subscribers -> Writes]
         /\ \A c \in Subscribers : Queued(out[c])
         /\ current = None

LEMMA InitTypes == Init => Types
<1> SUFFICES ASSUME Init PROVE Types
  OBVIOUS
<1>1. TypeOK
  BY StubsAssumption DEF Init, TypeOK, Messages
<1>2. NoWrites \in Writes /\ Queued(NoWrites)
  BY DEF NoWrites, Writes, Queued
<1> QED
  BY <1>1, <1>2 DEF Init, Types

\* publish_local keeps the writes of every connection in order.
LEMMA PublishLocalQueues ==
    ASSUME Types, NEW e \in Events, NEW buffer \in Events \cup {None}, PublishLocal(e, buffer)
    PROVE  /\ out' \in [Subscribers -> Writes]
           /\ \A c \in Subscribers : Queued(out'[c])
           /\ published' \subseteq Events
<1> DEFINE written == IF buffer = None THEN e ELSE buffer
           hit(c) == c \in subscribed /\ SubjectOf[c] = SubjectOf[e]
<1>1. written \in Events
  OBVIOUS
<1>2. out' = [c \in Subscribers |-> IF hit(c) THEN Cb(out[c], written) ELSE out[c]]
  BY DEF PublishLocal
<1>3. \A c \in Subscribers : Cb(out[c], written) \in Writes /\ Queued(Cb(out[c], written))
  BY <1>1, CbQueues DEF Types
<1>4. \A c \in Subscribers : out[c] \in Writes /\ Queued(out[c])
  BY DEF Types
<1> HIDE DEF written, hit
<1>5. \A c \in Subscribers : out'[c] \in Writes /\ Queued(out'[c])
  <2> TAKE c \in Subscribers
  <2>1. CASE hit(c)
    BY <1>2, <1>3, <2>1
  <2>2. CASE ~hit(c)
    BY <1>2, <1>4, <2>2
  <2> QED
    BY <2>1, <2>2
<1>6. out' \in [Subscribers -> Writes]
  BY <1>2, <1>5
<1>7. published' \subseteq Events
  BY DEF PublishLocal, Types, TypeOK
<1> QED
  BY <1>5, <1>6, <1>7

\* The steps of the clients do not change the writes.
LEMMA ClientTypes == ASSUME Types, ClientStep PROVE Types'
<1> USE DEF Types, TypeOK, Messages, daemon
<1>1. ASSUME NEW t \in Threads, NEW p \in Publishers, Announce(t, p) PROVE Types'
  BY <1>1 DEF Announce, Calls, Send, Channels
<1>2. ASSUME NEW t \in Threads, NEW p \in Publishers, Unannounce(t, p) PROVE Types'
  BY <1>2 DEF Unannounce, Calls, Send, Channels
<1>3. ASSUME NEW t \in Threads, NEW p \in Publishers, NEW e \in Events, Publish(t, p, e) PROVE Types'
  BY <1>3 DEF Publish, Calls, Send, Channels
<1>4. ASSUME NEW t \in Threads, NEW c \in Subscribers, Subscribe(t, c) PROVE Types'
  BY <1>4 DEF Subscribe, Calls, Send, Channels
<1>5. ASSUME NEW t \in Threads, NEW c \in Subscribers, Put(t, c) PROVE Types'
  BY <1>5 DEF Put
<1>6. ASSUME NEW t \in Threads, NEW c \in Subscribers, Unsubscribe(t, c) PROVE Types'
  <2>1. \/ UNCHANGED <<mutex, shut, doing>>
        \/ /\ mutex' = [mutex EXCEPT ![ClientOf[t]] = t]
           /\ shut' = shut \cup {c}
           /\ doing' = [doing EXCEPT ![t] = <<"join", c>>]
    BY <1>6 DEF Unsubscribe, ShutDown
  <2>2. mutex' \in [Clients -> Threads \cup {None}] /\ shut' \subseteq Subscribers
    BY <2>1
  <2>3. doing' \in [Threads -> {None} \cup ({"put", "join"} \X Subscribers)]
    <3>1. <<"join", c>> \in {None} \cup ({"put", "join"} \X Subscribers)
      OBVIOUS
    <3>2. doing' = doing \/ doing' = [doing EXCEPT ![t] = <<"join", c>>]
      BY <2>1
    <3>3. doing \in [Threads -> {None} \cup ({"put", "join"} \X Subscribers)]
      OBVIOUS
    <3> DEFINE Doings == {None} \cup ({"put", "join"} \X Subscribers)
    <3> HIDE DEF Doings
    <3>4. <<"join", c>> \in Doings /\ doing \in [Threads -> Doings]
      BY <3>1, <3>3 DEF Doings
    <3>5. doing' \in [Threads -> Doings]
      BY <3>2, <3>4
    <3> QED
      BY <3>5 DEF Doings
  <2> QED
    BY <1>6, <2>2, <2>3 DEF Unsubscribe
<1>7. ASSUME NEW t \in Threads, NEW c \in Subscribers, Join(t, c) PROVE Types'
  <2>1. ClientOf[t] \in Clients
    BY StubsAssumption
  <2>2. up' \in [Channels -> Seq(Messages)] /\ pipe' \in [Subscribers -> Seq(Events)]
    BY <1>7 DEF Join, Send, Channels
  <2>3. mutex' \in [Clients -> Threads \cup {None}] /\ notify_threads' \in [Clients -> SUBSET Subscribers]
    BY <1>7, <2>1 DEF Join
  <2>4. doing' \in [Threads -> {None} \cup ({"put", "join"} \X Subscribers)] /\ closed' \subseteq Channels
    BY <1>7 DEF Join, Channels
  <2> QED
    BY <1>7, <2>2, <2>3, <2>4 DEF Join
<1>8. ASSUME NEW c \in Subscribers, Read(c) PROVE Types'
  <2>1. Head(pipe[c]) \in Events /\ Tail(pipe[c]) \in Seq(Events) /\ pipe' = [pipe EXCEPT ![c] = Tail(pipe[c])]
    BY <1>8 DEF Read
  <2>2. pipe' \in [Subscribers -> Seq(Events)]
    BY <2>1
  <2>3. Append(got[c], Head(pipe[c])) \in Seq(Events)
    BY <2>1
  <2>4. \/ UNCHANGED <<worker, got>>
        \/ /\ worker' = [worker EXCEPT ![c] = "calling"]
           /\ got' = [got EXCEPT ![c] = Append(got[c], Head(pipe[c]))]
    BY <1>8 DEF Read
  <2>5. worker' \in [Subscribers -> {"none", "reading", "calling", "ended"}]
        /\ got' \in [Subscribers -> Seq(Events)]
    <3>1. CASE UNCHANGED <<worker, got>>
      BY <3>1
    <3>2. CASE /\ worker' = [worker EXCEPT ![c] = "calling"]
               /\ got' = [got EXCEPT ![c] = Append(got[c], Head(pipe[c]))]
      <4>1. got' \in [Subscribers -> Seq(Events)]
        BY <2>3, <3>2
      <4>2. worker' \in [Subscribers -> {"none", "reading", "calling", "ended"}]
        BY <3>2
      <4> QED
        BY <4>1, <4>2
    <3> QED
      BY <2>4, <3>1, <3>2
  <2> QED
    BY <1>8, <2>2, <2>5 DEF Read
<1>9. ASSUME NEW c \in Subscribers, Return(c) PROVE Types'
  BY <1>9 DEF Return
<1>10. ASSUME NEW c \in Subscribers, EndOfStream(c) PROVE Types'
  BY <1>10 DEF EndOfStream
<1> QED
  BY <1>1, <1>2, <1>3, <1>4, <1>5, <1>6, <1>7, <1>8, <1>9, <1>10 DEF ClientStep

LEMMA DaemonTypes == ASSUME Types, DaemonStep \/ Environment PROVE Types'
<1> USE DEF Types, TypeOK, Messages, client
<1>1. ASSUME NEW x \in Channels, HandleRequest(x) PROVE Types'
  BY <1>1 DEF HandleRequest, Receives
<1>2. ASSUME NEW x \in Channels, HandleClose(x) PROVE Types'
  BY <1>2 DEF HandleClose, Receives
<1>3. ASSUME NEW p \in Publishers, NEW e \in Events, GetEventData(p, e) PROVE Types'
  <2>1. out' \in [Subscribers -> Writes] /\ (\A c \in Subscribers : Queued(out'[c]))
        /\ published' \subseteq Events
    BY <1>3, PublishLocalQueues DEF GetEventData
  <2>2. up' \in [Channels -> Seq(Messages)]
    BY <1>3 DEF GetEventData, Receives, Channels
  <2> QED
    BY <1>3, <2>1, <2>2 DEF GetEventData
<1>4. ASSUME NEW e \in Events, Fetch(e) PROVE Types'
  <2>1. out' \in [Subscribers -> Writes] /\ (\A c \in Subscribers : Queued(out'[c]))
        /\ published' \subseteq Events
    BY <1>4, PublishLocalQueues DEF Fetch
  <2> QED
    BY <1>4, <2>1 DEF Fetch
<1>5. ASSUME NEW c \in Subscribers, WriteDone(c) PROVE Types'
  <2> DEFINE n == IF c \in closed THEN 0 ELSE Size(Head(out[c].posted))
  <2>1. out[c].posted \in Seq(Events) /\ out[c].posted # <<>>
    BY <1>5 DEF WriteDone, Writes
  <2>2. Head(out[c].posted) \in Events
    BY <2>1
  <2>3. n \in Int
    BY <2>2, StubsAssumption DEF Size
  <2>4. WriteHandler(out[c], n) \in Writes /\ Queued(WriteHandler(out[c], n))
    BY <2>1, <2>3, WriteHandlerQueues
  <2>5. out' = [out EXCEPT ![c] = WriteHandler(out[c], n)]
    BY <1>5 DEF WriteDone
  <2>6. pipe' \in [Subscribers -> Seq(Events)]
    <3>1. Append(pipe[c], Head(out[c].posted)) \in Seq(Events)
      BY <2>2
    <3>2. pipe' = pipe \/ pipe' = [pipe EXCEPT ![c] = Append(pipe[c], Head(out[c].posted))]
      BY <1>5 DEF WriteDone
    <3> QED
      BY <3>1, <3>2
  <2> HIDE DEF n
  <2>7. out' \in [Subscribers -> Writes] /\ \A d \in Subscribers : Queued(out'[d])
    BY <2>4, <2>5
  <2> QED
    BY <1>5, <2>6, <2>7 DEF WriteDone
<1>6. ASSUME NEW c \in Subscribers, DeadlinePasses(c) PROVE Types'
  <2>1. Late(out[c]) \in Writes /\ Queued(Late(out[c]))
    BY DEF Late, Writes, Queued
  <2>2. out' = [out EXCEPT ![c] = Late(out[c])]
    BY <1>6 DEF DeadlinePasses
  <2>5. out' \in [Subscribers -> Writes] /\ \A d \in Subscribers : Queued(out'[d])
    BY <2>1, <2>2
  <2> QED
    BY <1>6, <2>5 DEF DeadlinePasses
<1> QED
  BY <1>1, <1>2, <1>3, <1>4, <1>5, <1>6 DEF DaemonStep, Environment

LEMMA NextTypes == ASSUME Types, [Next]_vars PROVE Types'
<1>1. CASE Next
  BY <1>1, ClientTypes, DaemonTypes DEF Next
<1>2. CASE UNCHANGED vars
  BY <1>2 DEF vars, client, daemon, Types, TypeOK
<1> QED
  BY <1>1, <1>2

\* Every variable keeps its type, for any clients, channels and events.
THEOREM TypeCorrect == Spec => []TypeOK
<1>1. Types => TypeOK
  BY DEF Types
<1> QED
  BY <1>1, InitTypes, NextTypes, PTL DEF Spec

\* At most one write per connection is given to asio, in any order of events,
\* deadlines and failed writes, and none is forgotten in the queue.
THEOREM WritesAreQueued == Spec => []WritesQueued
<1>1. Types => WritesQueued
  BY DEF Types, WritesQueued, Queued
<1> QED
  BY <1>1, InitTypes, NextTypes, PTL DEF Spec

-----------------------------------------------------------------------------
(* The notification threads.  A subscriber is put into the map of one      *)
(* client once, while it is neither closed nor new; it leaves the map only *)
(* when it is joined, under the mutex that keeps all others out.           *)

Putting(t, c) == doing[t] = <<"put", c>>
Joining(t, c) == doing[t] = <<"join", c>>

PutOnce == \A t \in Threads, c \in Subscribers : Putting(t, c) =>
    /\ worker[c] # "none" /\ c \notin closed
    /\ \A k \in Clients : c \notin notify_threads[k]
    /\ \A other \in Threads : Putting(other, c) => other = t

InOneMap == \A k \in Clients, c \in Subscribers : c \in notify_threads[k] =>
    /\ worker[c] # "none" /\ c \notin closed
    /\ \A other \in Clients : c \in notify_threads[other] => other = k

JoinsLocked == \A t \in Threads, c \in Subscribers : Joining(t, c) =>
    mutex[ClientOf[t]] = t /\ c \in notify_threads[ClientOf[t]]

ClosedEnded == \A c \in closed \cap Subscribers : worker[c] = "ended"

Closing == PutOnce /\ InOneMap /\ JoinsLocked /\ ClosedEnded

LEMMA NoneIsNoCall == \A c \in Subscribers : None # <<"put", c>> /\ None # <<"join", c>>
<1> SUFFICES ASSUME NEW c \in Subscribers PROVE None # <<"put", c>> /\ None # <<"join", c>>
  OBVIOUS
<1>1. <<"put", c>> \in {"put", "join"} \X Subscribers /\ <<"join", c>> \in {"put", "join"} \X Subscribers
  OBVIOUS
<1> QED
  BY <1>1, StubsAssumption

\* The steps of the daemon and the other calls do not touch the threads.
threads == <<doing, mutex, notify_threads, worker, closed>>

LEMMA OthersKeepClosing == ASSUME Closing, UNCHANGED threads PROVE Closing'
BY DEF threads, Closing, PutOnce, InOneMap, JoinsLocked, ClosedEnded, Putting, Joining

LEMMA UnannounceKeepsClosing ==
    ASSUME Types, Closing, NEW t \in Threads, NEW p \in Publishers, Unannounce(t, p)
    PROVE  Closing'
<1>1. \A c \in Subscribers : c \in closed' <=> c \in closed
  BY StubsAssumption DEF Unannounce
<1>2. UNCHANGED <<doing, mutex, notify_threads, worker>>
  BY DEF Unannounce
<1> QED
  BY <1>1, <1>2 DEF Closing, PutOnce, InOneMap, JoinsLocked, ClosedEnded, Putting, Joining

\* A notification thread never becomes new again, and one that has ended stays so.
LEMMA WorkerKeepsClosing ==
    ASSUME Types, Closing, NEW c \in Subscribers, Read(c) \/ Return(c) \/ EndOfStream(c)
    PROVE  Closing'
<1>1. UNCHANGED <<doing, mutex, notify_threads, closed>>
  BY DEF Read, Return, EndOfStream
<1>2. \A d \in Subscribers : worker[d] # "none" => worker'[d] # "none"
  BY DEF Read, Return, EndOfStream, Types, TypeOK
<1>3. \A d \in Subscribers : worker[d] = "ended" => worker'[d] = "ended"
  BY DEF Read, Return, EndOfStream, Types, TypeOK
<1> QED
  BY <1>1, <1>2, <1>3 DEF Closing, PutOnce, InOneMap, JoinsLocked, ClosedEnded, Putting, Joining

LEMMA SubscribeKeepsClosing ==
    ASSUME Types, Closing, NEW t \in Threads, NEW c \in Subscribers, Subscribe(t, c)
    PROVE  Closing'
<1>1. UNCHANGED <<mutex, notify_threads, closed>>
  BY DEF Subscribe
<1>2. worker[c] = "none" /\ worker' = [worker EXCEPT ![c] = "reading"]
  BY DEF Subscribe
<1>3. \A d \in Subscribers : worker'[d] = IF d = c THEN "reading" ELSE worker[d]
  BY <1>2 DEF Types, TypeOK
<1>4. doing' = [doing EXCEPT ![t] = <<"put", c>>]
  BY DEF Subscribe
<1>5. \A u \in Threads : u # t => doing'[u] = doing[u]
  BY <1>4 DEF Types, TypeOK
<1>6. doing'[t] = <<"put", c>>
  BY <1>4 DEF Types, TypeOK
<1>7. c \notin closed /\ (\A k \in Clients : c \notin notify_threads[k])
      /\ \A u \in Threads : ~ Putting(u, c)
  BY <1>2 DEF Closing, PutOnce, InOneMap, ClosedEnded
<1>8. PutOnce'
  <2> SUFFICES ASSUME NEW u \in Threads, NEW d \in Subscribers, Putting(u, d)'
               PROVE  /\ worker'[d] # "none" /\ d \notin closed'
                      /\ \A k \in Clients : d \notin notify_threads'[k]
                      /\ \A other \in Threads : Putting(other, d)' => other = u
    BY DEF PutOnce
  <2>1. CASE u = t
    <3>1. d = c
      BY <1>6, <2>1 DEF Putting
    <3>2. \A other \in Threads : Putting(other, c)' => other = t
      BY <1>5, <1>7 DEF Putting
    <3> QED
      BY <1>1, <1>3, <1>7, <2>1, <3>1, <3>2
  <2>2. CASE u # t
    <3>1. Putting(u, d)
      BY <1>5, <2>2 DEF Putting
    <3>2. d # c
      BY <1>7, <3>1
    <3>3. ~ Putting(t, d)'
      BY <1>6, <3>2 DEF Putting
    <3>4. \A other \in Threads : Putting(other, d)' => other = u
      <4> TAKE other \in Threads
      <4>1. CASE other = t
        BY <3>3, <4>1
      <4>2. CASE other # t
        BY <1>5, <3>1, <4>2 DEF Closing, PutOnce, Putting
      <4> QED
        BY <4>1, <4>2
    <3> QED
      BY <1>1, <1>3, <3>1, <3>2, <3>4 DEF Closing, PutOnce
  <2> QED
    BY <2>1, <2>2
<1>9. InOneMap'
  BY <1>1, <1>3, <1>7 DEF Closing, InOneMap
<1>10. JoinsLocked'
  <2> SUFFICES ASSUME NEW u \in Threads, NEW d \in Subscribers, Joining(u, d)'
               PROVE  mutex'[ClientOf[u]] = u /\ d \in notify_threads'[ClientOf[u]]
    BY DEF JoinsLocked
  <2>1. u # t
    BY <1>6 DEF Joining
  <2>2. Joining(u, d)
    BY <1>5, <2>1 DEF Joining
  <2> QED
    BY <1>1, <2>2 DEF Closing, JoinsLocked
<1>11. ClosedEnded'
  BY <1>1, <1>3, <1>7 DEF Closing, ClosedEnded
<1> QED
  BY <1>8, <1>9, <1>10, <1>11 DEF Closing

LEMMA PutKeepsClosing ==
    ASSUME Types, Closing, NEW t \in Threads, NEW c \in Subscribers, Put(t, c)
    PROVE  Closing'
<1> DEFINE k == ClientOf[t]
<1>0. k \in Clients
  BY StubsAssumption
<1>1. UNCHANGED <<mutex, worker, closed>>
  BY DEF Put
<1>2. Putting(t, c)
  BY DEF Put, Putting
<1>3. \A j \in Clients : notify_threads'[j] = IF j = k THEN notify_threads[k] \cup {c} ELSE notify_threads[j]
  BY <1>0 DEF Put, Types, TypeOK
<1>4. \A u \in Threads : doing'[u] = IF u = t THEN None ELSE doing[u]
  BY DEF Put, Types, TypeOK
<1>5. \A d \in Subscribers : ~ Putting(t, d)' /\ ~ Joining(t, d)'
  BY <1>4, NoneIsNoCall DEF Putting, Joining
<1>6. worker[c] # "none" /\ c \notin closed /\ (\A j \in Clients : c \notin notify_threads[j])
      /\ \A u \in Threads : Putting(u, c) => u = t
  BY <1>2 DEF Closing, PutOnce
<1> HIDE DEF k
<1>7. PutOnce'
  <2> SUFFICES ASSUME NEW u \in Threads, NEW d \in Subscribers, Putting(u, d)'
               PROVE  /\ worker'[d] # "none" /\ d \notin closed'
                      /\ \A j \in Clients : d \notin notify_threads'[j]
                      /\ \A other \in Threads : Putting(other, d)' => other = u
    BY DEF PutOnce
  <2>1. u # t /\ Putting(u, d)
    BY <1>4, <1>5 DEF Putting
  <2>2. d # c
    BY <1>6, <2>1
  <2>3. \A other \in Threads : Putting(other, d)' => Putting(other, d)
    BY <1>4, <1>5 DEF Putting
  <2> QED
    BY <1>1, <1>3, <2>1, <2>2, <2>3 DEF Closing, PutOnce
<1>8. InOneMap'
  <2> SUFFICES ASSUME NEW j \in Clients, NEW d \in Subscribers, d \in notify_threads'[j]
               PROVE  /\ worker'[d] # "none" /\ d \notin closed'
                      /\ \A other \in Clients : d \in notify_threads'[other] => other = j
    BY DEF InOneMap
  <2>1. CASE d = c
    BY <1>1, <1>3, <1>6, <2>1
  <2>2. CASE d # c
    <3>1. \A i \in Clients : d \in notify_threads'[i] => d \in notify_threads[i]
      BY <1>3, <2>2
    <3> QED
      BY <1>1, <3>1 DEF Closing, InOneMap
  <2> QED
    BY <2>1, <2>2
<1>9. JoinsLocked'
  <2> SUFFICES ASSUME NEW u \in Threads, NEW d \in Subscribers, Joining(u, d)'
               PROVE  mutex'[ClientOf[u]] = u /\ d \in notify_threads'[ClientOf[u]]
    BY DEF JoinsLocked
  <2>1. Joining(u, d)
    BY <1>4, <1>5 DEF Joining
  <2>2. ClientOf[u] \in Clients
    BY StubsAssumption
  <2> QED
    BY <1>1, <1>3, <2>1, <2>2 DEF Closing, JoinsLocked
<1>10. ClosedEnded'
  BY <1>1 DEF Closing, ClosedEnded
<1> QED
  BY <1>7, <1>8, <1>9, <1>10 DEF Closing

LEMMA UnsubscribeKeepsClosing ==
    ASSUME Types, Closing, NEW t \in Threads, NEW c \in Subscribers, Unsubscribe(t, c)
    PROVE  Closing'
<1> DEFINE k == ClientOf[t]
<1>0. k \in Clients
  BY StubsAssumption
<1>1. UNCHANGED <<notify_threads, worker, closed>>
  BY DEF Unsubscribe
<1>2. CASE UNCHANGED <<mutex, doing>>
  BY <1>1, <1>2, OthersKeepClosing DEF threads
<1>3. CASE /\ c \in notify_threads[k]
           /\ mutex' = [mutex EXCEPT ![k] = t]
           /\ doing' = [doing EXCEPT ![t] = <<"join", c>>]
  <2>1. mutex[k] = None
    BY DEF Unsubscribe
  <2>2. \A j \in Clients : mutex'[j] = IF j = k THEN t ELSE mutex[j]
    BY <1>0, <1>3 DEF Types, TypeOK
  <2>3. \A u \in Threads : doing'[u] = IF u = t THEN <<"join", c>> ELSE doing[u]
    BY <1>3 DEF Types, TypeOK
  <2>4. \A u \in Threads, d \in Subscribers : Putting(u, d)' => Putting(u, d)
    BY <2>3 DEF Putting
  <2>5. PutOnce'
    BY <1>1, <2>4 DEF Closing, PutOnce
  <2>6. InOneMap' /\ ClosedEnded'
    BY <1>1 DEF Closing, InOneMap, ClosedEnded
  <2>7. JoinsLocked'
    <3> SUFFICES ASSUME NEW u \in Threads, NEW d \in Subscribers, Joining(u, d)'
                 PROVE  mutex'[ClientOf[u]] = u /\ d \in notify_threads'[ClientOf[u]]
      BY DEF JoinsLocked
    <3>1. ClientOf[u] \in Clients
      BY StubsAssumption
    <3>2. CASE u = t
      <4>1. d = c
        BY <2>3, <3>2 DEF Joining
      <4> QED
        BY <1>0, <1>1, <1>3, <2>2, <3>2, <4>1
    <3>3. CASE u # t
      <4>1. Joining(u, d)
        BY <2>3, <3>3 DEF Joining
      <4>2. mutex[ClientOf[u]] = u /\ d \in notify_threads[ClientOf[u]]
        BY <4>1 DEF Closing, JoinsLocked
      <4>3. ClientOf[u] # k
        BY <2>1, <4>2, StubsAssumption
      <4> QED
        BY <1>1, <2>2, <3>1, <4>2, <4>3
    <3> QED
      BY <3>2, <3>3
  <2> QED
    BY <2>5, <2>6, <2>7 DEF Closing
<1> QED
  BY <1>2, <1>3 DEF Unsubscribe

LEMMA JoinKeepsClosing ==
    ASSUME Types, Closing, NEW t \in Threads, NEW c \in Subscribers, Join(t, c)
    PROVE  Closing'
<1> DEFINE k == ClientOf[t]
<1>0. k \in Clients
  BY StubsAssumption
<1>1. UNCHANGED worker /\ worker[c] = "ended" /\ closed' = closed \cup {c}
  BY DEF Join
<1>2. Joining(t, c)
  BY DEF Join, Joining
<1>3. mutex[k] = t /\ c \in notify_threads[k] /\ \A j \in Clients : c \in notify_threads[j] => j = k
  BY <1>0, <1>2 DEF Closing, JoinsLocked, InOneMap
<1>4. \A u \in Threads : ~ Putting(u, c)
  BY <1>0, <1>3 DEF Closing, PutOnce
<1>5. \A j \in Clients : notify_threads'[j] = IF j = k THEN notify_threads[k] \ {c} ELSE notify_threads[j]
  BY <1>0 DEF Join, Types, TypeOK
<1>6. \A j \in Clients : mutex'[j] = IF j = k THEN None ELSE mutex[j]
  BY <1>0 DEF Join, Types, TypeOK
<1>7. \A u \in Threads : doing'[u] = IF u = t THEN None ELSE doing[u]
  BY DEF Join, Types, TypeOK
<1>8. \A d \in Subscribers : ~ Putting(t, d)' /\ ~ Joining(t, d)'
  BY <1>7, NoneIsNoCall DEF Putting, Joining
<1>9. \A u \in Threads, d \in Subscribers : Putting(u, d)' => Putting(u, d)
  BY <1>7, <1>8 DEF Putting
<1>10. \A j \in Clients, d \in Subscribers : d \in notify_threads'[j] => d \in notify_threads[j] /\ d # c
  BY <1>3, <1>5
<1> HIDE DEF k
<1>11. PutOnce'
  <2> SUFFICES ASSUME NEW u \in Threads, NEW d \in Subscribers, Putting(u, d)'
               PROVE  /\ worker'[d] # "none" /\ d \notin closed'
                      /\ \A j \in Clients : d \notin notify_threads'[j]
                      /\ \A other \in Threads : Putting(other, d)' => other = u
    BY DEF PutOnce
  <2>1. Putting(u, d) /\ d # c
    BY <1>4, <1>9
  <2> QED
    BY <1>1, <1>9, <1>10, <2>1 DEF Closing, PutOnce
<1>12. InOneMap'
  BY <1>1, <1>10 DEF Closing, InOneMap
<1>13. JoinsLocked'
  <2> SUFFICES ASSUME NEW u \in Threads, NEW d \in Subscribers, Joining(u, d)'
               PROVE  mutex'[ClientOf[u]] = u /\ d \in notify_threads'[ClientOf[u]]
    BY DEF JoinsLocked
  <2>1. ClientOf[u] \in Clients
    BY StubsAssumption
  <2>2. u # t /\ Joining(u, d)
    BY <1>7, <1>8 DEF Joining
  <2>3. mutex[ClientOf[u]] = u /\ d \in notify_threads[ClientOf[u]]
    BY <2>2 DEF Closing, JoinsLocked
  <2>4. ClientOf[u] # k
    BY <1>3, <2>2, <2>3
  <2> QED
    BY <1>5, <1>6, <2>1, <2>3, <2>4
<1>14. ClosedEnded'
  BY <1>1 DEF Closing, ClosedEnded
<1> QED
  BY <1>11, <1>12, <1>13, <1>14 DEF Closing

LEMMA NextClosing == ASSUME Types, Closing, [Next]_vars PROVE Closing'
<1>1. CASE ClientStep
  <2>1. ASSUME NEW t \in Threads, NEW p \in Publishers, Announce(t, p) PROVE UNCHANGED threads
    BY <2>1 DEF Announce, threads
  <2>2. ASSUME NEW t \in Threads, NEW p \in Publishers, NEW e \in Events, Publish(t, p, e)
        PROVE  UNCHANGED threads
    BY <2>2 DEF Publish, threads
  <2> QED
    BY <1>1, <2>1, <2>2, OthersKeepClosing, UnannounceKeepsClosing, WorkerKeepsClosing,
       SubscribeKeepsClosing, PutKeepsClosing, UnsubscribeKeepsClosing, JoinKeepsClosing
       DEF ClientStep
<1>2. CASE DaemonStep \/ Environment
  <2>1. UNCHANGED client
    BY <1>2 DEF DaemonStep, Environment, HandleRequest, HandleClose, GetEventData, WriteDone, Fetch,
       DeadlinePasses
  <2> QED
    BY <2>1, OthersKeepClosing DEF client, threads
<1>3. CASE UNCHANGED vars
  BY <1>3, OthersKeepClosing DEF vars, client, threads
<1> QED
  BY <1>1, <1>2, <1>3 DEF Next

LEMMA InitClosing == Init => Closing
BY NoneIsNoCall DEF Init, Closing, PutOnce, InOneMap, JoinsLocked, ClosedEnded, Putting, Joining

-----------------------------------------------------------------------------
(* What unsubscribe leaves.  A channel is subscribed in its own client, so *)
(* that the map in which unsubscribe looks for it is the only one that can *)
(* have it.  A thread that runs is in the map, or is still to be put       *)
(* there; then an unsubscribe that returns is early.                       *)

OwnCallsTodo == \A t \in Threads : todo[t] \in Seq(OwnCalls(t))

PutsOwn == \A t \in Threads, c \in Subscribers : Putting(t, c) =>
    ClientOf[c] = ClientOf[t] /\ c \notin left \ early

MapsOwn == \A k \in Clients, c \in Subscribers : c \in notify_threads[k] => k = ClientOf[c]

RunningKnown == \A c \in Subscribers : worker[c] \in {"reading", "calling"} =>
    c \in notify_threads[ClientOf[c]] \/ \E t \in Threads : Putting(t, c)

Leaving == OwnCallsTodo /\ PutsOwn /\ MapsOwn /\ RunningKnown /\ NothingLeft

LEMMA InitLeaving == Init => Leaving
<1> SUFFICES ASSUME Init PROVE Leaving
  OBVIOUS
<1>1. OwnCallsTodo
  BY ConfigsAssumption DEF Init, OwnCallsTodo
<1>2. PutsOwn /\ MapsOwn /\ RunningKnown /\ NothingLeft
  BY NoneIsNoCall DEF Init, PutsOwn, MapsOwn, RunningKnown, NothingLeft, Putting
<1> QED
  BY <1>1, <1>2 DEF Leaving

\* The calls that remain, and the one that is made.
LEMMA CallsOwn ==
    ASSUME Types, Leaving, NEW t \in Threads, NEW op, NEW arg, Calls(t, op, arg)
    PROVE  /\ OwnCallsTodo'
           /\ op \in {"subscribe", "unsubscribe"} => ClientOf[arg] = ClientOf[t]
           /\ doing[t] = None
<1>1. todo[t] \in Seq(OwnCalls(t)) /\ todo[t] # <<>>
  BY DEF Leaving, OwnCallsTodo, Calls
<1>2. Head(todo[t]) \in OwnCalls(t) /\ Tail(todo[t]) \in Seq(OwnCalls(t))
  BY <1>1
<1>3. todo' = [todo EXCEPT ![t] = Tail(todo[t])] /\ Head(todo[t]) = <<op, arg>> /\ doing[t] = None
  BY DEF Calls
<1>4. OwnCallsTodo'
  BY <1>2, <1>3 DEF Leaving, OwnCallsTodo, OwnCalls
<1>5. op \in {"subscribe", "unsubscribe"} => ClientOf[arg] = ClientOf[t]
  <2>1. <<op, arg>>[1] = op /\ <<op, arg>>[2] = arg
    OBVIOUS
  <2>2. <<op, arg>> \in OwnCalls(t)
    BY <1>2, <1>3
  <2> HIDE DEF Calls
  <2> QED
    BY <2>1, <2>2 DEF OwnCalls
<1> QED
  BY <1>3, <1>4, <1>5

\* The steps that neither subscribe nor unsubscribe.
LEMMA OthersKeepLeaving ==
    ASSUME Types, Leaving, UNCHANGED <<doing, notify_threads, worker, left, early>>, OwnCallsTodo'
    PROVE  Leaving'
BY DEF Leaving, PutsOwn, MapsOwn, RunningKnown, NothingLeft, Putting

LEMMA WorkerKeepsLeaving ==
    ASSUME Types, Leaving, NEW c \in Subscribers, Read(c) \/ Return(c) \/ EndOfStream(c)
    PROVE  Leaving'
<1>1. UNCHANGED <<todo, doing, notify_threads, left, early>>
  BY DEF Read, Return, EndOfStream
<1>2. \A d \in Subscribers : worker[d] \in {"none", "ended"} => worker'[d] = worker[d]
  BY DEF Read, Return, EndOfStream, Types, TypeOK
<1>3. \A d \in Subscribers : worker[d] \in {"none", "reading", "calling", "ended"}
  BY DEF Types, TypeOK
<1>4. \A d \in Subscribers : worker'[d] \in {"reading", "calling"} => worker[d] \in {"reading", "calling"}
  BY <1>2, <1>3
<1>5. left \subseteq Subscribers
  BY DEF Types, TypeOK
<1>6. OwnCallsTodo' /\ PutsOwn' /\ MapsOwn'
  BY <1>1 DEF Leaving, OwnCallsTodo, PutsOwn, MapsOwn, Putting
<1>7. RunningKnown'
  BY <1>1, <1>4 DEF Leaving, RunningKnown, Putting
<1>8. NothingLeft'
  BY <1>1, <1>2, <1>5 DEF Leaving, NothingLeft
<1> QED
  BY <1>6, <1>7, <1>8 DEF Leaving

LEMMA SubscribeKeepsLeaving ==
    ASSUME Types, Leaving, NEW t \in Threads, NEW c \in Subscribers, Subscribe(t, c)
    PROVE  Leaving'
<1>1. /\ notify_threads' = notify_threads /\ left' = left \ {c} /\ early' = early \ {c}
      /\ Calls(t, "subscribe", c)
  BY DEF Subscribe
<1>2. OwnCallsTodo' /\ ClientOf[c] = ClientOf[t] /\ doing[t] = None
  BY <1>1, CallsOwn
<1>3. \A d \in Subscribers : worker'[d] = IF d = c THEN "reading" ELSE worker[d]
  BY DEF Subscribe, Types, TypeOK
<1>4. \A u \in Threads : doing'[u] = IF u = t THEN <<"put", c>> ELSE doing[u]
  BY DEF Subscribe, Types, TypeOK
<1>5. \A d \in Subscribers : ~Putting(t, d)
  BY <1>2, NoneIsNoCall DEF Putting
<1>6. Putting(t, c)' /\ \A d \in Subscribers : Putting(t, d)' => d = c
  BY <1>4 DEF Putting
<1>7. \A u \in Threads, d \in Subscribers : Putting(u, d) => Putting(u, d)'
  BY <1>4, <1>5 DEF Putting
<1>8. PutsOwn'
  <2> SUFFICES ASSUME NEW u \in Threads, NEW d \in Subscribers, Putting(u, d)'
               PROVE  ClientOf[d] = ClientOf[u] /\ d \notin left' \ early'
    BY DEF PutsOwn
  <2>1. CASE u = t
    BY <1>1, <1>2, <1>6, <2>1
  <2>2. CASE u # t
    <3>1. Putting(u, d)
      BY <1>4, <2>2 DEF Putting
    <3> QED
      BY <1>1, <3>1 DEF Leaving, PutsOwn
  <2> QED
    BY <2>1, <2>2
<1>9. MapsOwn'
  BY <1>1 DEF Leaving, MapsOwn
<1>10. RunningKnown'
  BY <1>1, <1>3, <1>6, <1>7 DEF Leaving, RunningKnown
<1>11. NothingLeft'
  BY <1>1, <1>3 DEF Leaving, NothingLeft, Types, TypeOK
<1> QED
  BY <1>2, <1>8, <1>9, <1>10, <1>11 DEF Leaving

LEMMA PutKeepsLeaving ==
    ASSUME Types, Leaving, NEW t \in Threads, NEW c \in Subscribers, Put(t, c)
    PROVE  Leaving'
<1> DEFINE k == ClientOf[t]
<1>0. k \in Clients
  BY StubsAssumption
<1>1. UNCHANGED <<todo, worker, left, early>>
  BY DEF Put
<1>2. Putting(t, c)
  BY DEF Put, Putting
<1>3. ClientOf[c] = k /\ c \notin left \ early
  BY <1>2 DEF Leaving, PutsOwn
<1>4. \A j \in Clients : notify_threads'[j] = IF j = k THEN notify_threads[k] \cup {c} ELSE notify_threads[j]
  BY <1>0 DEF Put, Types, TypeOK
<1>5. \A u \in Threads : doing'[u] = IF u = t THEN None ELSE doing[u]
  BY DEF Put, Types, TypeOK
<1>6. \A u \in Threads, d \in Subscribers : Putting(u, d)' => Putting(u, d)
  BY <1>5, NoneIsNoCall DEF Putting
<1>7. \A u \in Threads, d \in Subscribers : Putting(u, d) /\ d # c => Putting(u, d)'
  BY <1>2, <1>5 DEF Putting
<1> HIDE DEF k
<1>8. OwnCallsTodo' /\ PutsOwn'
  BY <1>1, <1>6 DEF Leaving, OwnCallsTodo, PutsOwn
<1>9. MapsOwn'
  BY <1>3, <1>4 DEF Leaving, MapsOwn
<1>10. RunningKnown'
  <2> SUFFICES ASSUME NEW d \in Subscribers, worker[d] \in {"reading", "calling"}
               PROVE  d \in notify_threads'[ClientOf[d]] \/ \E u \in Threads : Putting(u, d)'
    BY <1>1 DEF RunningKnown
  <2>1. CASE d = c
    BY <1>0, <1>3, <1>4, <2>1
  <2>2. CASE d # c
    <3>1. ClientOf[d] \in Clients
      BY StubsAssumption DEF Threads
    <3>2. d \in notify_threads[ClientOf[d]] \/ \E u \in Threads : Putting(u, d)
      BY DEF Leaving, RunningKnown
    <3> QED
      BY <1>4, <1>7, <2>2, <3>1, <3>2
  <2> QED
    BY <2>1, <2>2
<1>11. NothingLeft'
  BY <1>1, <1>3, <1>4 DEF Leaving, NothingLeft
<1> QED
  BY <1>8, <1>9, <1>10, <1>11 DEF Leaving

LEMMA UnsubscribeKeepsLeaving ==
    ASSUME Types, Leaving, NEW t \in Threads, NEW c \in Subscribers, Unsubscribe(t, c)
    PROVE  Leaving'
<1> DEFINE k == ClientOf[t]
<1>0. k \in Clients
  BY StubsAssumption
<1>1. UNCHANGED <<notify_threads, worker>> /\ Calls(t, "unsubscribe", c)
  BY DEF Unsubscribe
<1>2. OwnCallsTodo' /\ ClientOf[c] = k /\ doing[t] = None
  BY <1>1, CallsOwn
<1>3. CASE UNCHANGED <<left, early>> /\ doing' = [doing EXCEPT ![t] = <<"join", c>>]
  <2>1. \A u \in Threads : doing'[u] = IF u = t THEN <<"join", c>> ELSE doing[u]
    BY <1>3 DEF Types, TypeOK
  <2>2. \A u \in Threads, d \in Subscribers : Putting(u, d)' <=> Putting(u, d)
    BY <1>2, <2>1, NoneIsNoCall DEF Putting
  <2> QED
    BY <1>1, <1>2, <1>3, <2>2 DEF Leaving, PutsOwn, MapsOwn, RunningKnown, NothingLeft
<1>4. CASE /\ c \notin notify_threads[k] /\ UNCHANGED doing /\ left' = left \cup {c}
           /\ early' = IF \E u \in Threads : doing[u] = <<"put", c>> THEN early \cup {c} ELSE early \ {c}
  <2>1. \A d \in Subscribers : d # c => (d \in left' \ early' <=> d \in left \ early)
    BY <1>4
  <2>2. (\E u \in Threads : Putting(u, c)) => c \notin left' \ early'
    BY <1>4 DEF Putting
  <2>3. \A j \in Clients : c \notin notify_threads[j]
    BY <1>2, <1>4 DEF Leaving, MapsOwn
  <2>4. c \in left' \ early' => worker[c] \in {"none", "ended"}
    <3> SUFFICES ASSUME c \in left' \ early' PROVE worker[c] \in {"none", "ended"}
      OBVIOUS
    <3>1. worker[c] \notin {"reading", "calling"}
      BY <1>2, <1>4, <2>2 DEF Leaving, RunningKnown
    <3>2. worker[c] \in {"none", "reading", "calling", "ended"}
      BY DEF Types, TypeOK
    <3> QED
      BY <3>1, <3>2
  <2>5. PutsOwn'
    BY <1>4, <2>1, <2>2 DEF Leaving, PutsOwn, Putting
  <2>6. MapsOwn' /\ RunningKnown'
    BY <1>1, <1>4 DEF Leaving, MapsOwn, RunningKnown, Putting
  <2>7. NothingLeft'
    <3> SUFFICES ASSUME NEW d \in left' \ early'
                 PROVE  worker[d] \in {"none", "ended"} /\ \A j \in Clients : d \notin notify_threads[j]
      BY <1>1 DEF NothingLeft
    <3>1. d \in Subscribers
      BY <1>4 DEF Types, TypeOK
    <3> QED
      BY <2>1, <2>3, <2>4, <3>1 DEF Leaving, NothingLeft
  <2> QED
    BY <1>2, <2>5, <2>6, <2>7 DEF Leaving
<1> QED
  BY <1>3, <1>4 DEF Unsubscribe

LEMMA JoinKeepsLeaving ==
    ASSUME Types, Closing, Leaving, NEW t \in Threads, NEW c \in Subscribers, Join(t, c)
    PROVE  Leaving'
<1> DEFINE k == ClientOf[t]
<1>0. k \in Clients
  BY StubsAssumption
<1>1. /\ UNCHANGED <<todo, worker>> /\ worker[c] = "ended"
      /\ left' = left \cup {c} /\ early' = early \ {c}
  BY DEF Join
<1>2. c \in notify_threads[k] /\ Joining(t, c)
  BY DEF Join, Joining, Closing, JoinsLocked
<1>3. ClientOf[c] = k
  BY <1>0, <1>2 DEF Leaving, MapsOwn
<1>4. \A u \in Threads : ~Putting(u, c)
  BY <1>0, <1>2 DEF Closing, PutOnce
<1>5. \A j \in Clients : notify_threads'[j] = IF j = k THEN notify_threads[k] \ {c} ELSE notify_threads[j]
  BY <1>0 DEF Join, Types, TypeOK
<1>6. \A u \in Threads : doing'[u] = IF u = t THEN None ELSE doing[u]
  BY DEF Join, Types, TypeOK
<1>7. \A u \in Threads, d \in Subscribers : Putting(u, d)' <=> Putting(u, d)
  BY <1>2, <1>6, NoneIsNoCall DEF Putting, Joining
<1> HIDE DEF k
<1>8. OwnCallsTodo'
  BY <1>1 DEF Leaving, OwnCallsTodo
<1>9. PutsOwn'
  BY <1>1, <1>4, <1>7 DEF Leaving, PutsOwn
<1>10. MapsOwn'
  BY <1>5 DEF Leaving, MapsOwn
<1>11. RunningKnown'
  <2> SUFFICES ASSUME NEW d \in Subscribers, worker[d] \in {"reading", "calling"}
               PROVE  d \in notify_threads'[ClientOf[d]] \/ \E u \in Threads : Putting(u, d)'
    BY <1>1 DEF RunningKnown
  <2>1. d # c /\ ClientOf[d] \in Clients
    BY <1>1, StubsAssumption DEF Threads
  <2>2. d \in notify_threads[ClientOf[d]] \/ \E u \in Threads : Putting(u, d)
    BY DEF Leaving, RunningKnown
  <2> QED
    BY <1>5, <1>7, <2>1, <2>2
<1>12. NothingLeft'
  <2> SUFFICES ASSUME NEW d \in left' \ early'
               PROVE  worker[d] \in {"none", "ended"} /\ \A j \in Clients : d \notin notify_threads'[j]
    BY <1>1 DEF NothingLeft
  <2>1. CASE d = c
    <3>1. \A j \in Clients : c \in notify_threads[j] => j = k
      BY <1>3 DEF Leaving, MapsOwn
    <3> QED
      BY <1>1, <1>5, <2>1, <3>1
  <2>2. CASE d # c
    BY <1>1, <1>5, <2>2 DEF Leaving, NothingLeft
  <2> QED
    BY <2>1, <2>2
<1> QED
  BY <1>8, <1>9, <1>10, <1>11, <1>12 DEF Leaving

LEMMA NextLeaving == ASSUME Types, Closing, Leaving, [Next]_vars PROVE Leaving'
<1>1. CASE ClientStep
  <2>1. ASSUME NEW t \in Threads, NEW p \in Publishers,
               Announce(t, p) \/ Unannounce(t, p) \/ \E e \in Events : Publish(t, p, e)
        PROVE  Leaving'
    <3>1. UNCHANGED <<doing, notify_threads, worker, left, early>>
      BY <2>1 DEF Announce, Unannounce, Publish
    <3>2. PICK op, arg : Calls(t, op, arg)
      BY <2>1 DEF Announce, Unannounce, Publish
    <3> QED
      BY <3>1, <3>2, CallsOwn, OthersKeepLeaving
  <2> QED
    BY <1>1, <2>1, WorkerKeepsLeaving, SubscribeKeepsLeaving, PutKeepsLeaving,
       UnsubscribeKeepsLeaving, JoinKeepsLeaving DEF ClientStep
<1>2. CASE DaemonStep \/ Environment \/ UNCHANGED vars
  <2>1. UNCHANGED <<todo, doing, notify_threads, worker, left, early>>
    BY <1>2 DEF DaemonStep, Environment, HandleRequest, HandleClose, GetEventData, WriteDone, Fetch,
       DeadlinePasses, client, vars
  <2>2. OwnCallsTodo'
    BY <2>1 DEF Leaving, OwnCallsTodo
  <2> QED
    BY <2>1, <2>2, OthersKeepLeaving
<1> QED
  BY <1>1, <1>2 DEF Next

\* On any way unsubscribe returns, the thread of the channel has ended, or was never
\* started, and no client's map has it, whatever the other threads subscribe and
\* unsubscribe meanwhile, unless the subscribe of that very channel has started the
\* thread and not yet put it into the map.
THEOREM UnsubscribeLeavesNothing == Spec => []NothingLeft
<1>1. Leaving => NothingLeft
  BY DEF Leaving
<1> QED
  BY <1>1, InitTypes, NextTypes, InitClosing, NextClosing, InitLeaving, NextLeaving, PTL DEF Spec

-----------------------------------------------------------------------------
(* The bytes that are pending.                                             *)

Pending(o) == o.posted \o o.queue

Counted == \A c \in Subscribers \ closed : out[c].bytes = SizeOf(Pending(out[c]))

LEMMA AppendConcat ==
    ASSUME NEW r \in Seq(Events), NEW q \in Seq(Events), NEW e \in Events
    PROVE  r \o Append(q, e) = Append(r \o q, e)
<1>1. r \o q \in Seq(Events) /\ <<e>> \in Seq(Events)
  OBVIOUS
<1>2. Append(q, e) = q \o <<e>> /\ Append(r \o q, e) = (r \o q) \o <<e>>
  BY <1>1, AppendIsConcat
<1>3. r \o (q \o <<e>>) = (r \o q) \o <<e>>
  BY <1>1, ConcatAssociative
<1> QED
  BY <1>2, <1>3

\* The sequence of the pending writes is a queue.
LEMMA PostedAppends ==
    ASSUME NEW o \in Writes, Queued(o), NEW e \in Events
    PROVE  /\ Pending(Posted(o, e)) = Append(Pending(o), e)
           /\ Posted(o, e).bytes = o.bytes + Size(e)
<1>1. o.posted \in Seq(Events) /\ o.queue \in Seq(Events)
  BY DEF Writes
<1>2. CASE o.writes = 0
  <2>0. \A r, q \in Seq(Events) : Len(r) + Len(q) = 0 => q = <<>>
    OBVIOUS
  <2>1. o.queue = <<>>
    BY <1>1, <1>2, <2>0 DEF Queued
  <2>2. Posted(o, e).posted = Append(o.posted, e) /\ Posted(o, e).queue = <<>>
        /\ Posted(o, e).bytes = o.bytes + Size(e)
    BY <1>2, <2>1 DEF Posted
  <2>3. \A r \in Seq(Events) : Append(r, e) \o <<>> = Append(r \o <<>>, e)
    OBVIOUS
  <2> QED
    BY <1>1, <2>1, <2>2, <2>3 DEF Pending
<1>3. CASE o.writes # 0
  <2>1. Posted(o, e).posted = o.posted /\ Posted(o, e).queue = Append(o.queue, e)
        /\ Posted(o, e).bytes = o.bytes + Size(e)
    BY <1>3 DEF Posted
  <2>2. \A r, q \in Seq(Events) : r \o Append(q, e) = Append(r \o q, e)
    BY AppendConcat
  <2> QED
    BY <1>1, <2>1, <2>2 DEF Pending
<1> QED
  BY <1>2, <1>3

LEMMA WriteHandlerTakes ==
    ASSUME NEW o \in Writes, Queued(o), o.posted # <<>>, NEW n \in Int
    PROVE  /\ Pending(o) # <<>> /\ Pending(o) \in Seq(Events)
           /\ Head(Pending(o)) = Head(o.posted)
           /\ Pending(WriteHandler(o, n)) = Tail(Pending(o))
           /\ WriteHandler(o, n).bytes = o.bytes - n
<1>1. o.posted \in Seq(Events) /\ o.queue \in Seq(Events) /\ Len(o.posted) <= 1
  BY DEF Writes, Queued
<1>2. PICK e \in Events : o.posted = <<e>>
  <2> DEFINE r == o.posted
  <2>0. r \in Seq(Events) /\ r # <<>> /\ Len(r) <= 1
    BY <1>1
  <2> HIDE DEF r
  <2>1. \A l \in Nat : l <= 1 /\ l # 0 => l = 1
    OBVIOUS
  <2>2. Len(r) = 1
    BY <2>0, <2>1
  <2>3. r = <<r[1]>> /\ r[1] \in Events
    BY <2>0, <2>2
  <2> QED
    BY <2>3 DEF r
<1>3. Tail(<<e>>) = <<>> /\ Head(<<e>>) = e
  OBVIOUS
<1> DEFINE q == o.queue
<1>4. q \in Seq(Events) /\ Pending(o) = <<e>> \o q
  BY <1>1, <1>2 DEF Pending
<1>5. /\ <<e>> \o q \in Seq(Events) /\ <<e>> \o q # <<>>
      /\ Head(<<e>> \o q) = e /\ Tail(<<e>> \o q) = q
  <2> HIDE DEF q
  <2> QED
    BY <1>4
<1>6. Pending(WriteHandler(o, n)) = q
  <2>1. CASE q = <<>>
    <3>1. WriteHandler(o, n).posted = <<>> /\ WriteHandler(o, n).queue = <<>>
      BY <1>2, <1>3, <2>1 DEF WriteHandler
    <3> QED
      BY <2>1, <3>1 DEF Pending
  <2>2. CASE q # <<>>
    <3>1. WriteHandler(o, n).posted = Append(<<>>, Head(q)) /\ WriteHandler(o, n).queue = Tail(q)
      BY <1>2, <1>3, <2>2 DEF WriteHandler
    <3>2. Append(<<>>, Head(q)) \o Tail(q) = q
      <4> HIDE DEF q
      <4> QED
        BY <1>4, <2>2
    <3> QED
      BY <3>1, <3>2 DEF Pending
  <2> QED
    BY <2>1, <2>2
<1>7. WriteHandler(o, n).bytes = o.bytes - n
  BY DEF WriteHandler
<1> QED
  BY <1>2, <1>3, <1>4, <1>5, <1>6, <1>7

LEMMA CbAppends ==
    ASSUME NEW o \in Writes, Queued(o), NEW e \in Events
    PROVE  /\ MayWrite(Timed(o)) => /\ Pending(Cb(o, e)) = Append(Pending(o), e)
                                    /\ Cb(o, e).bytes = o.bytes + Size(e)
           /\ ~ MayWrite(Timed(o)) => /\ Pending(Cb(o, e)) = Pending(o)
                                      /\ Cb(o, e).bytes = o.bytes
                                      /\ o.bytes >= Limit
<1>1. Timed(o) \in Writes /\ Queued(Timed(o)) /\ Pending(Timed(o)) = Pending(o)
      /\ Timed(o).bytes = o.bytes
  BY DEF Timed, Writes, Queued, Pending
<1>2. o.bytes \in Int /\ Limit \in Int
  BY StubsAssumption DEF Writes
<1>3. ~ MayWrite(Timed(o)) => o.bytes >= Limit
  BY <1>1, <1>2 DEF MayWrite
<1> QED
  BY <1>1, <1>3, PostedAppends DEF Cb

LEMMA CbCounts ==
    ASSUME NEW o \in Writes, Queued(o), NEW e \in Events, o.bytes = SizeOf(Pending(o))
    PROVE  Cb(o, e).bytes = SizeOf(Pending(Cb(o, e)))
<1>1. Pending(o) \in Seq(Events)
  BY DEF Writes, Pending
<1>2. SizeOf(Append(Pending(o), e)) = SizeOf(Pending(o)) + Size(e)
  BY <1>1, SizeOfAppend
<1> QED
  BY <1>2, CbAppends

LEMMA PublishLocalCounts ==
    ASSUME Types, Counted, NEW e \in Events, NEW buffer \in Events \cup {None},
           PublishLocal(e, buffer), UNCHANGED closed
    PROVE  Counted'
<1> DEFINE written == IF buffer = None THEN e ELSE buffer
<1>1. written \in Events
  OBVIOUS
<1> SUFFICES ASSUME NEW c \in Subscribers \ closed PROVE out'[c].bytes = SizeOf(Pending(out'[c]))
  BY DEF Counted
<1>2. out'[c] = out[c] \/ out'[c] = Cb(out[c], written)
  BY DEF PublishLocal
<1>3. out[c] \in Writes /\ Queued(out[c]) /\ out[c].bytes = SizeOf(Pending(out[c]))
  BY DEF Types, Counted
<1> HIDE DEF written
<1> QED
  BY <1>1, <1>2, <1>3, CbCounts

LEMMA NextCounts == ASSUME Types, Counted, [Next]_vars PROVE Counted'
<1>1. CASE ClientStep
  <2>1. UNCHANGED daemon
    BY <1>1 DEF ClientStep, Announce, Unannounce, Publish, Subscribe, Put, Unsubscribe, Join, Read,
                Return, EndOfStream
  <2>2. closed \subseteq closed'
    BY <1>1 DEF ClientStep, Announce, Unannounce, Publish, Subscribe, Put, Unsubscribe, Join, Read,
                Return, EndOfStream
  <2> QED
    BY <2>1, <2>2 DEF daemon, Counted
<1>2. CASE DaemonStep \/ Environment
  <2>1. UNCHANGED closed
    BY <1>2 DEF client, DaemonStep, Environment, HandleRequest, HandleClose, GetEventData, WriteDone,
                Fetch, DeadlinePasses
  <2>2. ASSUME NEW x \in Channels, HandleRequest(x) \/ HandleClose(x) PROVE Counted'
    BY <2>1, <2>2 DEF HandleRequest, HandleClose, Counted
  <2>3. ASSUME NEW e \in Events, NEW q \in Publishers, GetEventData(q, e) PROVE Counted'
    BY <2>1, <2>3, PublishLocalCounts DEF GetEventData
  <2>4. ASSUME NEW e \in Events, Fetch(e) PROVE Counted'
    <3>1. PublishLocal(e, None)
      BY <2>4 DEF Fetch, Types
    <3> QED
      BY <2>1, <3>1, PublishLocalCounts
  <2>5. ASSUME NEW c \in Subscribers, WriteDone(c) PROVE Counted'
    <3> DEFINE o == out[c]
               n == Size(Head(o.posted))
    <3>1. o.posted # <<>> /\ o \in Writes /\ Queued(o) /\ out \in [Subscribers -> Writes]
      BY <2>5 DEF WriteDone, Types
    <3>2. CASE c \in closed
      <4>1. \A d \in Subscribers \ closed : out'[d] = out[d]
        BY <2>5, <3>1, <3>2 DEF WriteDone
      <4> QED
        BY <2>1, <4>1 DEF Counted
    <3>3. CASE c \notin closed
      <4>1. out' = [out EXCEPT ![c] = WriteHandler(o, n)]
        BY <2>5, <3>3 DEF WriteDone
      <4>2. n \in Int
        BY <3>1, SizeIsNat DEF Writes
      <4>3. o.bytes = SizeOf(Pending(o))
        BY <3>3 DEF Counted
      <4> HIDE DEF o
      <4>4. /\ Pending(o) # <<>> /\ Pending(o) \in Seq(Events) /\ Size(Head(Pending(o))) = n
            /\ Pending(WriteHandler(o, n)) = Tail(Pending(o))
            /\ WriteHandler(o, n).bytes = o.bytes - n
        BY <3>1, <4>2, WriteHandlerTakes
      <4>5. WriteHandler(o, n).bytes = SizeOf(Pending(WriteHandler(o, n)))
        BY <4>3, <4>4, SizeOfTail
      <4>6. \A d \in Subscribers : out'[d] = IF d = c THEN WriteHandler(o, n) ELSE out[d]
        BY <3>1, <4>1
      <4> QED
        BY <2>1, <4>5, <4>6 DEF Counted
    <3> QED
      BY <3>2, <3>3
  <2>6. ASSUME NEW c \in Subscribers, DeadlinePasses(c) PROVE Counted'
    <3>1. out' = [out EXCEPT ![c] = Late(out[c])] /\ out \in [Subscribers -> Writes]
      BY <2>6 DEF DeadlinePasses, Types
    <3>2. \A d \in Subscribers : out'[d].bytes = out[d].bytes /\ Pending(out'[d]) = Pending(out[d])
      BY <3>1 DEF Late, Pending
    <3> QED
      BY <2>1, <3>2 DEF Counted
  <2> QED
    BY <1>2, <2>2, <2>3, <2>4, <2>5, <2>6 DEF DaemonStep, Environment
<1>3. CASE UNCHANGED vars
  BY <1>3 DEF vars, client, daemon, Counted
<1> QED
  BY <1>1, <1>2, <1>3 DEF Next

LEMMA InitCounts == Init => Counted
<1>1. <<>> \o <<>> = <<>>
  OBVIOUS
<1> SUFFICES ASSUME Init, NEW c \in Subscribers \ closed PROVE out[c].bytes = SizeOf(Pending(out[c]))
  BY DEF Counted
<1>2. out[c].posted = <<>> /\ out[c].queue = <<>> /\ out[c].bytes = 0
  BY DEF Init, NoWrites
<1> QED
  BY <1>1, <1>2, SizeOfNone DEF Pending

\* While a client has not closed its connection, the daemon knows how many bytes are
\* pending, in any order of events, deadlines and failed writes.
THEOREM WritesAreCounted == Spec => []WritesCounted
<1>1. Types /\ Counted => WritesCounted
  BY DEF Types, Counted, WritesCounted, WritesQueued, Queued, Pending
<1> QED
  BY <1>1, InitTypes, NextTypes, InitCounts, NextCounts, PTL DEF Spec

-----------------------------------------------------------------------------
(* Each event is published once: it is in one place before, and nowhere    *)
(* else afterwards.                                                        *)

WellFormed == \A k \in Configs : PublishedOnce(k)

Fresh(e) == e \notin published /\ e \notin conf.network

CallsTyped == todo \in [Threads -> Seq(Call)]

CalledOnce == \A e \in Events, t \in Threads : \A i \in 1 .. Len(todo[t]) :
    Publishes(todo[t][i], e) =>
        /\ Fresh(e)
        /\ \A u \in Threads : \A j \in 1 .. Len(todo[u]) : Publishes(todo[u][j], e) => u = t /\ j = i
        /\ \A x \in Channels : \A j \in 1 .. Len(up[x]) : up[x][j] # e

SentOnce == \A e \in Events, x \in Channels : \A i \in 1 .. Len(up[x]) :
    up[x][i] = e =>
        /\ Fresh(e)
        /\ \A y \in Channels : \A j \in 1 .. Len(up[y]) : up[y][j] = e => y = x /\ j = i

\* "close" is the last that a closed channel has sent.
ClosedSaid == \A x \in Channels : \A i \in 1 .. Len(up[x]) : up[x][i] = "close" => x \in closed

Sending == CallsTyped /\ CalledOnce /\ SentOnce /\ ClosedSaid

LEMMA MessageFacts ==
    \A e \in Events : e # "request" /\ e # "close" /\ e # None
BY StubsAssumption

\* A thread makes the first of its calls.
LEMMA CallsShift ==
    ASSUME CallsTyped, NEW t \in Threads, NEW op, NEW arg, Calls(t, op, arg)
    PROVE  /\ CallsTyped'
           /\ 1 \in 1 .. Len(todo[t]) /\ todo[t][1] = <<op, arg>>
           /\ \A u \in Threads : \A j \in 1 .. Len(todo'[u]) :
                 /\ u = t  => j + 1 \in 1 .. Len(todo[u]) /\ todo'[u][j] = todo[u][j + 1]
                              /\ j + 1 # 1
                 /\ u # t => j \in 1 .. Len(todo[u]) /\ todo'[u][j] = todo[u][j]
<1> DEFINE q == todo[t]
<1>1. q \in Seq(Call) /\ q # <<>> /\ Head(q) = <<op, arg>> /\ todo' = [todo EXCEPT ![t] = Tail(q)]
  BY DEF Calls, CallsTyped
<1> HIDE DEF q
<1>2. Tail(q) \in Seq(Call) /\ 1 \in 1 .. Len(q) /\ q[1] = <<op, arg>>
      /\ \A j \in 1 .. Len(Tail(q)) : j + 1 \in 1 .. Len(q) /\ Tail(q)[j] = q[j + 1] /\ j + 1 # 1
  BY <1>1
<1>3. CallsTyped' /\ \A u \in Threads : todo'[u] = IF u = t THEN Tail(q) ELSE todo[u]
  BY <1>1, <1>2 DEF CallsTyped
<1> QED
  BY <1>2, <1>3 DEF q

\* A message is sent.
LEMMA SendAppends ==
    ASSUME Types, NEW x \in Channels, NEW m \in Messages, Send(x, m)
    PROVE  /\ \A y \in Channels : \A j \in 1 .. Len(up'[y]) :
                 \/ j \in 1 .. Len(up[y]) /\ up'[y][j] = up[y][j]
                 \/ y = x /\ j = Len(up[x]) + 1 /\ up'[y][j] = m
           /\ \A y \in Channels : \A j \in 1 .. Len(up[y]) :
                 j \in 1 .. Len(up'[y]) /\ up'[y][j] = up[y][j]
<1> DEFINE q == up[x]
<1>1. q \in Seq(Messages) /\ up \in [Channels -> Seq(Messages)] /\ up' = [up EXCEPT ![x] = Append(q, m)]
  BY DEF Types, TypeOK, Send
<1> HIDE DEF q
<1>2. \A y \in Channels : up'[y] = IF y = x THEN Append(q, m) ELSE up[y]
  BY <1>1
<1>3. /\ \A j \in 1 .. Len(Append(q, m)) : \/ j \in 1 .. Len(q) /\ Append(q, m)[j] = q[j]
                                           \/ j = Len(q) + 1 /\ Append(q, m)[j] = m
      /\ \A j \in 1 .. Len(q) : j \in 1 .. Len(Append(q, m)) /\ Append(q, m)[j] = q[j]
  BY <1>1
<1> QED
  BY <1>2, <1>3 DEF q

\* The first message of a connection is received.
LEMMA ReceivesShift ==
    ASSUME Types, NEW x \in Channels, NEW m, Receives(x, m)
    PROVE  /\ 1 \in 1 .. Len(up[x]) /\ up[x][1] = m
           /\ \A y \in Channels : \A j \in 1 .. Len(up'[y]) :
                 /\ y = x => j + 1 \in 1 .. Len(up[y]) /\ up'[y][j] = up[y][j + 1] /\ j + 1 # 1
                 /\ y # x => j \in 1 .. Len(up[y]) /\ up'[y][j] = up[y][j]
<1> DEFINE q == up[x]
<1>1. /\ q \in Seq(Messages) /\ q # <<>> /\ Head(q) = m
      /\ up \in [Channels -> Seq(Messages)] /\ up' = [up EXCEPT ![x] = Tail(q)]
  BY DEF Types, TypeOK, Receives
<1> HIDE DEF q
<1>2. 1 \in 1 .. Len(q) /\ q[1] = m
      /\ \A j \in 1 .. Len(Tail(q)) : j + 1 \in 1 .. Len(q) /\ Tail(q)[j] = q[j + 1] /\ j + 1 # 1
  BY <1>1
<1>3. \A y \in Channels : up'[y] = IF y = x THEN Tail(q) ELSE up[y]
  BY <1>1
<1> QED
  BY <1>2, <1>3 DEF q

\* Nothing but published events, calls and messages is what Sending is about.
LEMMA OthersKeepSending ==
    ASSUME Sending, UNCHANGED <<conf, todo, up, published>>, closed \subseteq closed'
    PROVE  Sending'
BY DEF Sending, CallsTyped, CalledOnce, SentOnce, ClosedSaid, Fresh

\* A call that publishes nothing.
LEMMA CallKeepsSending ==
    ASSUME Types, Sending, NEW t \in Threads, NEW op, NEW arg, Calls(t, op, arg), op # "publish",
           \/ UNCHANGED up
           \/ \E x \in Channels, m \in {"request", "close"} :
                 Send(x, m) /\ (m = "close" => x \in closed'),
           UNCHANGED <<conf, published>>, closed \subseteq closed'
    PROVE  Sending'
<1>1. CallsTyped'
  BY CallsShift DEF Sending
<1>2. \A u \in Threads : \A j \in 1 .. Len(todo'[u]) :
         /\ u = t  => j + 1 \in 1 .. Len(todo[u]) /\ todo'[u][j] = todo[u][j + 1] /\ j \in Int
         /\ u # t => j \in 1 .. Len(todo[u]) /\ todo'[u][j] = todo[u][j]
  BY CallsShift DEF Sending
<1> DEFINE Known(y, j) ==
         \/ j \in 1 .. Len(up[y]) /\ up'[y][j] = up[y][j]
         \/ up'[y][j] \in {"request", "close"} /\ (up'[y][j] = "close" => y \in closed')
<1>3. \A y \in Channels : \A j \in 1 .. Len(up'[y]) : Known(y, j)
  <2>1. CASE UNCHANGED up
    BY <2>1
  <2>2. ASSUME NEW x \in Channels, NEW m \in {"request", "close"}, Send(x, m), m = "close" => x \in closed'
        PROVE  \A y \in Channels : \A j \in 1 .. Len(up'[y]) : Known(y, j)
    BY <2>2, SendAppends DEF Messages
  <2> QED
    BY <2>1, <2>2
<1>4. \A e \in Events : Fresh(e)' <=> Fresh(e)
  BY DEF Fresh
<1>5. CalledOnce'
  <2> SUFFICES ASSUME NEW e \in Events, NEW u \in Threads, NEW i \in 1 .. Len(todo'[u]),
                      Publishes(todo'[u][i], e)
               PROVE  /\ Fresh(e)'
                      /\ \A v \in Threads : \A j \in 1 .. Len(todo'[v]) :
                            Publishes(todo'[v][j], e) => v = u /\ j = i
                      /\ \A x \in Channels : \A j \in 1 .. Len(up'[x]) : up'[x][j] # e
    BY DEF CalledOnce
  <2> DEFINE k == IF u = t THEN i + 1 ELSE i
  <2>1. k \in 1 .. Len(todo[u]) /\ todo'[u][i] = todo[u][k]
    BY <1>2
  <2>2. /\ Fresh(e)
        /\ \A v \in Threads : \A j \in 1 .. Len(todo[v]) : Publishes(todo[v][j], e) => v = u /\ j = k
        /\ \A x \in Channels : \A j \in 1 .. Len(up[x]) : up[x][j] # e
    <3> HIDE DEF k
    <3> QED
      BY <2>1 DEF Sending, CalledOnce
  <2>3. \A v \in Threads : \A j \in 1 .. Len(todo'[v]) :
           Publishes(todo'[v][j], e) => v = u /\ j = i
    <3> SUFFICES ASSUME NEW v \in Threads, NEW j \in 1 .. Len(todo'[v]), Publishes(todo'[v][j], e)
                 PROVE  v = u /\ j = i
      OBVIOUS
    <3> DEFINE l == IF v = t THEN j + 1 ELSE j
    <3>1. l \in 1 .. Len(todo[v]) /\ todo'[v][j] = todo[v][l]
      BY <1>2
    <3>2. v = u /\ l = k
      <4> HIDE DEF l, k
      <4> QED
        BY <2>2, <3>1
    <3>3. i \in Int /\ j \in Int
      OBVIOUS
    <3> QED
      BY <3>2, <3>3
  <2>4. \A x \in Channels : \A j \in 1 .. Len(up'[x]) : up'[x][j] # e
    BY <1>3, <2>2, MessageFacts
  <2> QED
    BY <1>4, <2>2, <2>3, <2>4
<1>6. SentOnce'
  <2> SUFFICES ASSUME NEW e \in Events, NEW x \in Channels, NEW i \in 1 .. Len(up'[x]), up'[x][i] = e
               PROVE  /\ Fresh(e)'
                      /\ \A y \in Channels : \A j \in 1 .. Len(up'[y]) : up'[y][j] = e => y = x /\ j = i
    BY DEF SentOnce
  <2>1. i \in 1 .. Len(up[x]) /\ up[x][i] = e
    BY <1>3, MessageFacts
  <2> QED
    BY <1>3, <1>4, <2>1, MessageFacts DEF Sending, SentOnce
<1>7. ClosedSaid'
  <2> SUFFICES ASSUME NEW x \in Channels, NEW i \in 1 .. Len(up'[x]), up'[x][i] = "close"
               PROVE  x \in closed'
    BY DEF ClosedSaid
  <2> QED
    BY <1>3 DEF Sending, ClosedSaid
<1> QED
  BY <1>1, <1>5, <1>6, <1>7 DEF Sending

\* The event of the call is sent to the daemon.
LEMMA PublishKeepsSending ==
    ASSUME Types, Sending, NEW t \in Threads, NEW p \in Publishers, NEW f \in Events, Publish(t, p, f)
    PROVE  Sending'
<1>1. Calls(t, "publish", <<p, f>>) /\ Send(p, f) /\ UNCHANGED <<conf, published, closed>>
      /\ p \in Channels /\ f \in Messages
  BY DEF Publish, Channels, Messages
<1>2. /\ CallsTyped'
      /\ 1 \in 1 .. Len(todo[t]) /\ todo[t][1] = <<"publish", <<p, f>>>>
      /\ \A u \in Threads : \A j \in 1 .. Len(todo'[u]) :
            /\ u = t  => j + 1 \in 1 .. Len(todo[u]) /\ todo'[u][j] = todo[u][j + 1] /\ j + 1 # 1
            /\ u # t => j \in 1 .. Len(todo[u]) /\ todo'[u][j] = todo[u][j]
  BY <1>1, CallsShift DEF Sending
<1>3. \A y \in Channels : \A j \in 1 .. Len(up'[y]) :
         \/ j \in 1 .. Len(up[y]) /\ up'[y][j] = up[y][j]
         \/ y = p /\ j = Len(up[p]) + 1 /\ up'[y][j] = f
  BY <1>1, SendAppends
<1>4. \A e \in Events : Fresh(e)' <=> Fresh(e)
  BY <1>1 DEF Fresh
<1>5. Publishes(todo[t][1], f)
  BY <1>2 DEF Publishes
<1>6. /\ Fresh(f)
      /\ \A u \in Threads : \A j \in 1 .. Len(todo[u]) : Publishes(todo[u][j], f) => u = t /\ j = 1
      /\ \A x \in Channels : \A j \in 1 .. Len(up[x]) : up[x][j] # f
  BY <1>2, <1>5 DEF Sending, CalledOnce
<1>7. CalledOnce'
  <2> SUFFICES ASSUME NEW e \in Events, NEW u \in Threads, NEW i \in 1 .. Len(todo'[u]),
                      Publishes(todo'[u][i], e)
               PROVE  /\ Fresh(e)'
                      /\ \A v \in Threads : \A j \in 1 .. Len(todo'[v]) :
                            Publishes(todo'[v][j], e) => v = u /\ j = i
                      /\ \A x \in Channels : \A j \in 1 .. Len(up'[x]) : up'[x][j] # e
    BY DEF CalledOnce
  <2> DEFINE k == IF u = t THEN i + 1 ELSE i
  <2>1. k \in 1 .. Len(todo[u]) /\ todo'[u][i] = todo[u][k] /\ (u = t => k # 1)
    BY <1>2
  <2>2. /\ Fresh(e)
        /\ \A v \in Threads : \A j \in 1 .. Len(todo[v]) : Publishes(todo[v][j], e) => v = u /\ j = k
        /\ \A x \in Channels : \A j \in 1 .. Len(up[x]) : up[x][j] # e
    <3> HIDE DEF k
    <3> QED
      BY <2>1 DEF Sending, CalledOnce
  <2>3. \A v \in Threads : \A j \in 1 .. Len(todo'[v]) :
           Publishes(todo'[v][j], e) => v = u /\ j = i
    <3> SUFFICES ASSUME NEW v \in Threads, NEW j \in 1 .. Len(todo'[v]), Publishes(todo'[v][j], e)
                 PROVE  v = u /\ j = i
      OBVIOUS
    <3> DEFINE l == IF v = t THEN j + 1 ELSE j
    <3>1. l \in 1 .. Len(todo[v]) /\ todo'[v][j] = todo[v][l]
      BY <1>2
    <3>2. v = u /\ l = k
      <4> HIDE DEF l, k
      <4> QED
        BY <2>2, <3>1
    <3>3. i \in Int /\ j \in Int
      OBVIOUS
    <3> QED
      BY <3>2, <3>3
  <2>4. e # f
    <3> HIDE DEF k
    <3>1. Publishes(todo[u][k], e)
      BY <2>1
    <3> QED
      BY <1>6, <2>1, <3>1
  <2>5. \A x \in Channels : \A j \in 1 .. Len(up'[x]) : up'[x][j] # e
    BY <1>3, <2>2, <2>4
  <2> QED
    BY <1>4, <2>2, <2>3, <2>5
<1>8. SentOnce'
  <2> SUFFICES ASSUME NEW e \in Events, NEW x \in Channels, NEW i \in 1 .. Len(up'[x]), up'[x][i] = e
               PROVE  /\ Fresh(e)'
                      /\ \A y \in Channels : \A j \in 1 .. Len(up'[y]) : up'[y][j] = e => y = x /\ j = i
    BY DEF SentOnce
  <2>1. CASE e = f
    <3>1. \A y \in Channels : \A j \in 1 .. Len(up'[y]) : up'[y][j] = f => y = p /\ j = Len(up[p]) + 1
      BY <1>3, <1>6
    <3> QED
      BY <1>4, <1>6, <2>1, <3>1
  <2>2. CASE e # f
    <3>1. i \in 1 .. Len(up[x]) /\ up[x][i] = e
      BY <1>3, <2>2
    <3>2. /\ Fresh(e)
          /\ \A y \in Channels : \A j \in 1 .. Len(up[y]) : up[y][j] = e => y = x /\ j = i
      BY <3>1 DEF Sending, SentOnce
    <3> QED
      BY <1>3, <1>4, <2>2, <3>2
  <2> QED
    BY <2>1, <2>2
<1>9. ClosedSaid'
  <2> SUFFICES ASSUME NEW x \in Channels, NEW i \in 1 .. Len(up'[x]), up'[x][i] = "close"
               PROVE  x \in closed
    BY <1>1 DEF ClosedSaid
  <2>1. i \in 1 .. Len(up[x]) /\ up[x][i] = "close"
    BY <1>3, MessageFacts
  <2> QED
    BY <2>1 DEF Sending, ClosedSaid
<1> QED
  BY <1>2, <1>7, <1>8, <1>9 DEF Sending

\* The daemon receives a message, and publishes it if it is an event.
LEMMA ReceiveKeepsSending ==
    ASSUME Types, Sending, NEW x \in Channels, NEW m, Receives(x, m),
           \/ UNCHANGED published
           \/ m \in Events /\ published' = published \cup {m},
           UNCHANGED <<conf, todo, closed>>
    PROVE  Sending'
<1>1. /\ 1 \in 1 .. Len(up[x]) /\ up[x][1] = m
      /\ \A y \in Channels : \A j \in 1 .. Len(up'[y]) :
            /\ y = x => j + 1 \in 1 .. Len(up[y]) /\ up'[y][j] = up[y][j + 1] /\ j + 1 # 1
            /\ y # x => j \in 1 .. Len(up[y]) /\ up'[y][j] = up[y][j]
  BY ReceivesShift
<1>2. \A e \in Events : e # m => (Fresh(e)' <=> Fresh(e))
  BY DEF Fresh
<1>3. \A y \in Channels : \A j \in 1 .. Len(up'[y]) :
         \E k \in 1 .. Len(up[y]) : up'[y][j] = up[y][k]
  BY <1>1
<1>4. CallsTyped' /\ ClosedSaid'
  BY <1>3 DEF Sending, CallsTyped, ClosedSaid
<1>5. CalledOnce'
  <2> SUFFICES ASSUME NEW e \in Events, NEW u \in Threads, NEW i \in 1 .. Len(todo[u]),
                      Publishes(todo[u][i], e)
               PROVE  /\ Fresh(e)'
                      /\ \A v \in Threads : \A j \in 1 .. Len(todo[v]) :
                            Publishes(todo[v][j], e) => v = u /\ j = i
                      /\ \A y \in Channels : \A j \in 1 .. Len(up'[y]) : up'[y][j] # e
    BY DEF CalledOnce
  <2>1. /\ Fresh(e)
        /\ \A v \in Threads : \A j \in 1 .. Len(todo[v]) : Publishes(todo[v][j], e) => v = u /\ j = i
        /\ \A y \in Channels : \A j \in 1 .. Len(up[y]) : up[y][j] # e
    BY DEF Sending, CalledOnce
  <2>2. e # m
    BY <1>1, <2>1
  <2> QED
    BY <1>2, <1>3, <2>1, <2>2
<1>6. SentOnce'
  <2> SUFFICES ASSUME NEW e \in Events, NEW y \in Channels, NEW i \in 1 .. Len(up'[y]), up'[y][i] = e
               PROVE  /\ Fresh(e)'
                      /\ \A z \in Channels : \A j \in 1 .. Len(up'[z]) : up'[z][j] = e => z = y /\ j = i
    BY DEF SentOnce
  <2> DEFINE k == IF y = x THEN i + 1 ELSE i
  <2>1. k \in 1 .. Len(up[y]) /\ up[y][k] = e /\ (y = x => k # 1)
    BY <1>1
  <2>2. /\ Fresh(e)
        /\ \A z \in Channels : \A j \in 1 .. Len(up[z]) : up[z][j] = e => z = y /\ j = k
    <3> HIDE DEF k
    <3> QED
      BY <2>1 DEF Sending, SentOnce
  <2>3. e # m
    <3> HIDE DEF k
    <3> QED
      BY <1>1, <2>1, <2>2
  <2>4. \A z \in Channels : \A j \in 1 .. Len(up'[z]) : up'[z][j] = e => z = y /\ j = i
    <3> SUFFICES ASSUME NEW z \in Channels, NEW j \in 1 .. Len(up'[z]), up'[z][j] = e
                 PROVE  z = y /\ j = i
      OBVIOUS
    <3> DEFINE l == IF z = x THEN j + 1 ELSE j
    <3>1. l \in 1 .. Len(up[z]) /\ up[z][l] = e
      BY <1>1
    <3>2. z = y /\ l = k
      <4> HIDE DEF l, k
      <4> QED
        BY <2>2, <3>1
    <3>3. i \in Int /\ j \in Int
      OBVIOUS
    <3> QED
      BY <3>2, <3>3
  <2> QED
    BY <1>2, <2>2, <2>3, <2>4
<1> QED
  BY <1>4, <1>5, <1>6 DEF Sending

LEMMA FetchKeepsSending ==
    ASSUME Types, Sending, NEW e \in Events, Fetch(e)
    PROVE  Sending'
<1>1. /\ e \in conf.network /\ published' = published \cup {e}
      /\ UNCHANGED <<conf, todo, up, closed>>
  BY DEF Fetch, PublishLocal, client
<1>2. \A f \in Events : Fresh(f) => Fresh(f)'
  BY <1>1 DEF Fresh
<1>3. CalledOnce'
  BY <1>1, <1>2 DEF Sending, CalledOnce
<1>4. SentOnce'
  BY <1>1, <1>2 DEF Sending, SentOnce
<1> QED
  BY <1>1, <1>3, <1>4 DEF Sending, CallsTyped, ClosedSaid

LEMMA NextSending == ASSUME Types, Sending, [Next]_vars PROVE Sending'
<1>1. CASE ClientStep
  <2>1. ASSUME NEW t \in Threads, NEW p \in Publishers, Announce(t, p) PROVE Sending'
    <3>1. Calls(t, "announce", p) /\ Send(p, "request") /\ p \in Channels
          /\ UNCHANGED <<conf, published, closed>>
      BY <2>1 DEF Announce, Channels
    <3> QED
      BY <3>1, CallKeepsSending
  <2>2. ASSUME NEW t \in Threads, NEW p \in Publishers, Unannounce(t, p) PROVE Sending'
    <3>1. Calls(t, "unannounce", p) /\ Send(p, "close") /\ p \in Channels
          /\ closed' = closed \cup {p} /\ UNCHANGED <<conf, published>>
      BY <2>2 DEF Unannounce, Channels
    <3> QED
      BY <3>1, CallKeepsSending
  <2>3. ASSUME NEW t \in Threads, NEW c \in Subscribers, Subscribe(t, c) PROVE Sending'
    <3>1. Calls(t, "subscribe", c) /\ Send(c, "request") /\ c \in Channels
          /\ UNCHANGED <<conf, published, closed>>
      BY <2>3 DEF Subscribe, Channels
    <3> QED
      BY <3>1, CallKeepsSending
  <2>4. ASSUME NEW t \in Threads, NEW c \in Subscribers, Unsubscribe(t, c) PROVE Sending'
    <3>1. Calls(t, "unsubscribe", c) /\ UNCHANGED <<conf, up, published, closed>>
      BY <2>4 DEF Unsubscribe
    <3> QED
      BY <3>1, CallKeepsSending
  <2>5. ASSUME NEW t \in Threads, NEW c \in Subscribers, Put(t, c) PROVE Sending'
    BY <2>5, OthersKeepSending DEF Put
  <2>6. ASSUME NEW c \in Subscribers, Read(c) \/ Return(c) \/ EndOfStream(c) PROVE Sending'
    BY <2>6, OthersKeepSending DEF Read, Return, EndOfStream
  <2>7. ASSUME NEW t \in Threads, NEW c \in Subscribers, Join(t, c) PROVE Sending'
    <3>1. Send(c, "close") /\ c \in Channels /\ "close" \in Messages /\ closed' = closed \cup {c}
          /\ UNCHANGED <<conf, todo, published>>
      BY <2>7 DEF Join, Channels, Messages
    <3>2. \A y \in Channels : \A j \in 1 .. Len(up'[y]) :
             \/ j \in 1 .. Len(up[y]) /\ up'[y][j] = up[y][j]
             \/ y = c /\ up'[y][j] = "close"
      BY <3>1, SendAppends
    <3>3. \A e \in Events : Fresh(e)' <=> Fresh(e)
      BY <3>1 DEF Fresh
    <3>4. CalledOnce'
      BY <3>1, <3>2, <3>3, MessageFacts DEF Sending, CalledOnce
    <3>5. SentOnce'
      BY <3>1, <3>2, <3>3, MessageFacts DEF Sending, SentOnce
    <3> QED
      BY <3>1, <3>2, <3>4, <3>5 DEF Sending, CallsTyped, ClosedSaid
  <2> QED
    BY <1>1, <2>1, <2>2, <2>3, <2>4, <2>5, <2>6, <2>7, PublishKeepsSending DEF ClientStep
<1>2. CASE DaemonStep \/ Environment
  <2>1. ASSUME NEW x \in Channels, HandleRequest(x) \/ HandleClose(x) PROVE Sending'
    <3>1. PICK m : Receives(x, m) /\ UNCHANGED <<conf, todo, closed, published>>
      BY <2>1 DEF HandleRequest, HandleClose, client
    <3> QED
      BY <3>1, ReceiveKeepsSending
  <2>2. ASSUME NEW p \in Publishers, NEW e \in Events, GetEventData(p, e) PROVE Sending'
    <3>1. Receives(p, e) /\ published' = published \cup {e} /\ p \in Channels
          /\ UNCHANGED <<conf, todo, closed>>
      BY <2>2 DEF GetEventData, PublishLocal, client, Channels
    <3> QED
      BY <3>1, ReceiveKeepsSending
  <2>3. ASSUME NEW c \in Subscribers, WriteDone(c) \/ DeadlinePasses(c) PROVE Sending'
    BY <2>3, OthersKeepSending DEF WriteDone, DeadlinePasses, client
  <2> QED
    BY <1>2, <2>1, <2>2, <2>3, FetchKeepsSending DEF DaemonStep, Environment
<1>3. CASE UNCHANGED vars
  BY <1>3, OthersKeepSending DEF vars, client
<1> QED
  BY <1>1, <1>2, <1>3 DEF Next

LEMMA InitSending == ASSUME WellFormed PROVE Init => Sending
<1> SUFFICES ASSUME Init PROVE Sending
  OBVIOUS
<1>1. /\ todo = conf.calls /\ todo \in [Threads -> Seq(Call)] /\ PublishedOnce(conf)
      /\ published = {}
  BY ConfigsAssumption DEF Init, WellFormed
<1>2. \A x \in Channels : up[x] = <<>> /\ Len(up[x]) = 0
  BY DEF Init
<1>3. \A u \in Threads : \A i \in 1 .. Len(todo[u]) : i \in DOMAIN conf.calls[u]
  BY <1>1
<1>4. CalledOnce
  BY <1>1, <1>2, <1>3 DEF CalledOnce, PublishedOnce, Fresh
<1> QED
  BY <1>1, <1>2, <1>4 DEF Sending, CallsTyped, SentOnce, ClosedSaid

-----------------------------------------------------------------------------
(* The stubs implement the feeds of EventFeed.                             *)

\* The feed of a subscriber, and the feeds.
OnTheWay(c) == pipe[c] \o Pending(out[c])
Feeds == [c \in Subscribers |-> IF c \in closed THEN <<>> ELSE OnTheWay(c)]

LEMMA LagIsSize == \A s : Feed!Lag(s) = SizeOf(s)
BY DEF Feed!Lag, Feed!Size, SizeOf, Size

LEMMA ConcatThree ==
    ASSUME NEW p \in Seq(Events), NEW r \in Seq(Events), NEW q \in Seq(Events)
    PROVE  p \o r \o q = p \o (r \o q)
OBVIOUS

LEMMA FeedsMap ==
    ASSUME Types
    PROVE  Feeds = [c \in Subscribers |->
                IF c \in closed THEN <<>> ELSE pipe[c] \o out[c].posted \o out[c].queue]
<1>1. \A c \in Subscribers : OnTheWay(c) = pipe[c] \o out[c].posted \o out[c].queue
  <2> TAKE c \in Subscribers
  <2>1. pipe[c] \in Seq(Events) /\ out[c].posted \in Seq(Events) /\ out[c].queue \in Seq(Events)
    BY DEF Types, TypeOK, Writes
  <2>2. \A p, r, q \in Seq(Events) : p \o r \o q = p \o (r \o q)
    BY ConcatThree
  <2> QED
    BY <2>1, <2>2 DEF OnTheWay, Pending
<1> QED
  BY <1>1 DEF Feeds

LEMMA FeedsMapAfter ==
    ASSUME Types'
    PROVE  Feeds' = [c \in Subscribers |->
                IF c \in closed' THEN <<>> ELSE pipe'[c] \o out'[c].posted \o out'[c].queue]
<1>1. (Types => Feeds = [c \in Subscribers |->
                IF c \in closed THEN <<>> ELSE pipe[c] \o out[c].posted \o out[c].queue])'
  BY FeedsMap, PTL
<1> QED
  BY <1>1

\* The first of a sequence is moved to the end of the one before it.
LEMMA TailMoves ==
    ASSUME NEW p \in Seq(Events), NEW q \in Seq(Events), q # <<>>
    PROVE  Append(p, Head(q)) \o Tail(q) = p \o q
OBVIOUS

LEMMA PendingTyped ==
    ASSUME Types, NEW c \in Subscribers
    PROVE  /\ pipe[c] \in Seq(Events) /\ Pending(out[c]) \in Seq(Events)
           /\ out[c] \in Writes /\ Queued(out[c])
BY DEF Types, TypeOK, Writes, Pending

\* A step that changes nothing the feeds are made of.
LEMMA OthersStutter ==
    ASSUME Types, Types', UNCHANGED <<published, pipe, out, closed, subscribed, got>>
    PROVE  UNCHANGED Feed!vars
BY DEF Feed!vars

\* An event is written to all subscribers of its subject but those that lag behind.
LEMMA PublishLocalPublishes ==
    ASSUME Types, Types', Counted, NEW e \in Events, NEW buffer \in {e, None}, e \notin published,
           PublishLocal(e, buffer), UNCHANGED <<pipe, closed, subscribed, got>>
    PROVE  Feed!Publish(e)
<1> DEFINE hit(c) == c \in subscribed /\ SubjectOf[c] = SubjectOf[e]
           lost == {c \in Feed!Concerned(e) : ~MayWrite(Timed(out[c]))}
<1>1. out' = [c \in Subscribers |-> IF hit(c) THEN Cb(out[c], e) ELSE out[c]]
      /\ published' = published \cup {e}
  BY MessageFacts DEF PublishLocal
<1>2. \A c : c \in Feed!Concerned(e) <=> hit(c) /\ c \notin closed
  BY DEF Feed!Concerned
<1>3. \A c : hit(c) => c \in Subscribers
  BY DEF Types, TypeOK
<1> HIDE DEF hit
<1>4. \A c \in Subscribers \ closed : hit(c) /\ MayWrite(Timed(out[c])) =>
         OnTheWay(c)' = Append(OnTheWay(c), e)
  <2> SUFFICES ASSUME NEW c \in Subscribers \ closed, hit(c), MayWrite(Timed(out[c]))
               PROVE  OnTheWay(c)' = Append(OnTheWay(c), e)
    OBVIOUS
  <2>1. out'[c] = Cb(out[c], e)
    BY <1>1
  <2>2. Pending(out'[c]) = Append(Pending(out[c]), e)
    BY <2>1, CbAppends, PendingTyped
  <2>3. pipe[c] \o Append(Pending(out[c]), e) = Append(pipe[c] \o Pending(out[c]), e)
    BY AppendConcat, PendingTyped
  <2> QED
    BY <2>2, <2>3 DEF OnTheWay
<1>5. \A c \in Subscribers \ closed : ~(hit(c) /\ MayWrite(Timed(out[c]))) =>
         OnTheWay(c)' = OnTheWay(c)
  <2> SUFFICES ASSUME NEW c \in Subscribers \ closed, ~(hit(c) /\ MayWrite(Timed(out[c])))
               PROVE  OnTheWay(c)' = OnTheWay(c)
    OBVIOUS
  <2>1. CASE ~hit(c)
    BY <1>1, <2>1 DEF OnTheWay
  <2>2. CASE hit(c) /\ ~MayWrite(Timed(out[c]))
    <3>1. out'[c] = Cb(out[c], e)
      BY <1>1, <2>2
    <3>2. Pending(out'[c]) = Pending(out[c])
      BY <2>2, <3>1, CbAppends, PendingTyped
    <3> QED
      BY <3>2 DEF OnTheWay
  <2> QED
    BY <2>1, <2>2
<1>6. \A c \in lost : Feed!Lag(Feeds[c]) >= Limit
  <2> SUFFICES ASSUME NEW c \in lost PROVE Feed!Lag(Feeds[c]) >= Limit
    OBVIOUS
  <2>1. c \in Subscribers \ closed /\ ~MayWrite(Timed(out[c]))
    BY <1>2, <1>3
  <2>2. ~(out[c].bytes < Limit)
    BY <2>1 DEF MayWrite, Timed
  <2>3. out[c].bytes = SizeOf(Pending(out[c])) /\ Feeds[c] = pipe[c] \o Pending(out[c])
    BY <2>1 DEF Counted, Feeds, OnTheWay
  <2>4. SizeOf(pipe[c] \o Pending(out[c])) = SizeOf(pipe[c]) + SizeOf(Pending(out[c]))
        /\ SizeOf(pipe[c]) \in Int /\ SizeOf(Pending(out[c])) \in Int /\ SizeOf(pipe[c]) >= 0
    BY <2>1, SizeOfConcat, SizeIsPositive, PendingTyped
  <2>5. Limit \in Int
    BY StubsAssumption
  <2>6. \A a, b, l \in Int : ~(b < l) /\ a >= 0 => a + b >= l
    OBVIOUS
  <2>7. SizeOf(pipe[c]) + SizeOf(Pending(out[c])) >= Limit
    BY <2>2, <2>3, <2>4, <2>5, <2>6
  <2> QED
    BY <2>3, <2>4, <2>7, LagIsSize
<1>7. \A c \in Subscribers : c \in Feed!Concerned(e) \ lost <=>
         c \notin closed /\ hit(c) /\ MayWrite(Timed(out[c]))
  BY <1>2
<1>8. Feeds' = [c \in Subscribers |->
                   IF c \in Feed!Concerned(e) \ lost THEN Append(Feeds[c], e) ELSE Feeds[c]]
  <2> DEFINE after(c) == IF c \in Feed!Concerned(e) \ lost THEN Append(Feeds[c], e) ELSE Feeds[c]
  <2>1. \A c \in Subscribers : (IF c \in closed' THEN <<>> ELSE OnTheWay(c)') = after(c)
    <3> TAKE c \in Subscribers
    <3>1. Feeds[c] = IF c \in closed THEN <<>> ELSE OnTheWay(c)
      BY DEF Feeds
    <3> HIDE DEF lost
    <3> QED
      BY <1>4, <1>5, <1>7, <3>1
  <2> HIDE DEF after
  <2>2. Feeds' = [c \in Subscribers |-> IF c \in closed' THEN <<>> ELSE OnTheWay(c)']
    BY DEF Feeds
  <2>3. Feeds' = [c \in Subscribers |-> after(c)]
    BY <2>1, <2>2
  <2> QED
    BY <2>3 DEF after
<1>9. lost \in SUBSET {c \in Feed!Concerned(e) : Feed!Lag(Feeds[c]) >= Limit}
  BY <1>6
<1> HIDE DEF lost
<1>10. /\ Feeds = [c \in Subscribers |->
                IF c \in closed THEN <<>> ELSE pipe[c] \o out[c].posted \o out[c].queue]
       /\ Feeds' = [c \in Subscribers |->
                IF c \in closed' THEN <<>> ELSE pipe'[c] \o out'[c].posted \o out'[c].queue]
  BY FeedsMap, FeedsMapAfter
<1> QED
  BY <1>1, <1>8, <1>9, <1>10 DEF Feed!Publish

\* A write is over: its event is in the connection instead.
LEMMA WriteStutters ==
    ASSUME Types, Types', NEW c \in Subscribers, WriteDone(c)
    PROVE  UNCHANGED Feed!vars
<1>1. UNCHANGED <<published, closed, subscribed, got>>
  BY DEF WriteDone, client
<1>2. out[c].posted # <<>> /\ pipe \in [Subscribers -> Seq(Events)] /\ out \in [Subscribers -> Writes]
  BY DEF WriteDone, Types, TypeOK
<1>3. \A d \in Subscribers : d # c => OnTheWay(d)' = OnTheWay(d)
  BY <1>2 DEF WriteDone, OnTheWay
<1>4. c \notin closed => OnTheWay(c)' = OnTheWay(c)
  <2> SUFFICES ASSUME c \notin closed PROVE OnTheWay(c)' = OnTheWay(c)
    OBVIOUS
  <2> DEFINE q == Pending(out[c])
             e == Head(out[c].posted)
  <2>1. pipe' = [pipe EXCEPT ![c] = Append(pipe[c], e)]
        /\ out' = [out EXCEPT ![c] = WriteHandler(out[c], Size(e))]
    BY DEF WriteDone
  <2>2. pipe'[c] = Append(pipe[c], e) /\ out'[c] = WriteHandler(out[c], Size(e))
    BY <1>2, <2>1
  <2>3. out[c].posted \in Seq(Events)
    BY <1>2 DEF Writes
  <2>4. \A s \in Seq(Events) : s # <<>> => Head(s) \in Events
    OBVIOUS
  <2>5. e \in Events /\ Size(e) \in Int
    BY <1>2, <2>3, <2>4, SizeIsNat
  <2>6. q # <<>> /\ q \in Seq(Events) /\ Head(q) = e /\ Pending(out'[c]) = Tail(q)
    BY <1>2, <2>2, <2>5, WriteHandlerTakes, PendingTyped
  <2> HIDE DEF q, e
  <2>7. \A p \in Seq(Events) : Append(p, e) \o Tail(q) = p \o q
    BY <2>5, <2>6, TailMoves
  <2>8. pipe'[c] \o Pending(out'[c]) = pipe[c] \o q
    BY <1>2, <2>2, <2>6, <2>7
  <2> QED
    BY <2>8 DEF OnTheWay, q
<1>5. Feeds' = Feeds
  BY <1>1, <1>3, <1>4 DEF Feeds
<1> QED
  BY <1>1, <1>5, FeedsMapAfter, FeedsMap DEF Feed!vars

\* A notification is read.
LEMMA ReadNotifies ==
    ASSUME Types, Types', Closing, NEW c \in Subscribers, Read(c)
    PROVE  Feed!Notify(c)
<1>1. UNCHANGED <<published, closed, subscribed, out>>
  BY DEF Read, daemon
<1>2. c \notin closed
  BY DEF Read, Closing, ClosedEnded
<1>3. /\ pipe[c] \in Seq(Events) /\ pipe[c] # <<>>
      /\ \A d \in Subscribers : pipe'[d] = IF d = c THEN Tail(pipe[c]) ELSE pipe[d]
  BY DEF Read, Types, TypeOK
<1>4. \A p, q \in Seq(Events) : p # <<>> =>
         p \o q # <<>> /\ Head(p \o q) = Head(p) /\ Tail(p \o q) = Tail(p) \o q
  OBVIOUS
<1>5. Feeds[c] = pipe[c] \o Pending(out[c]) /\ Pending(out[c]) \in Seq(Events)
  BY <1>2, PendingTyped DEF Feeds, OnTheWay
<1>6. Feeds[c] # <<>> /\ Head(Feeds[c]) = Head(pipe[c])
      /\ Tail(Feeds[c]) = Tail(pipe[c]) \o Pending(out[c])
  BY <1>3, <1>4, <1>5
<1>7. Feeds' = [Feeds EXCEPT ![c] = Tail(Feeds[c])]
  <2>1. \A d \in Subscribers : (IF d \in closed' THEN <<>> ELSE OnTheWay(d)')
                               = IF d = c THEN Tail(Feeds[c]) ELSE Feeds[d]
    BY <1>1, <1>2, <1>3, <1>6 DEF OnTheWay, Feeds
  <2>2. Feeds' = [d \in Subscribers |-> IF d \in closed' THEN <<>> ELSE OnTheWay(d)']
    BY DEF Feeds
  <2>3. Feeds' = [d \in Subscribers |-> IF d = c THEN Tail(Feeds[c]) ELSE Feeds[d]]
    BY <2>1, <2>2
  <2>4. Feeds = [d \in Subscribers |-> Feeds[d]]
    BY DEF Feeds
  <2> HIDE DEF Feeds
  <2> QED
    BY <2>3, <2>4
<1>8. got' = IF Length[Head(Feeds[c])] = 0 THEN got
             ELSE [got EXCEPT ![c] = Append(got[c], Head(Feeds[c]))]
  <2>1. Head(pipe[c]) \in Events
    BY <1>3
  <2>2. Length[Head(pipe[c])] \in Nat
    BY <2>1, StubsAssumption
  <2>3. Length[Head(pipe[c])] > 0 <=> Length[Head(pipe[c])] # 0
    BY <2>2
  <2>4. \/ Length[Head(pipe[c])] > 0 /\ got' = [got EXCEPT ![c] = Append(got[c], Head(pipe[c]))]
        \/ Length[Head(pipe[c])] = 0 /\ got' = got
    BY DEF Read
  <2> QED
    BY <1>6, <2>3, <2>4
<1> QED
  BY <1>1, <1>6, <1>7, <1>8, FeedsMap, FeedsMapAfter DEF Feed!Notify

\* The connection is closed with what is on its way.
LEMMA JoinCloses ==
    ASSUME Types, Types', NEW t \in Threads, NEW c \in Subscribers, Join(t, c)
    PROVE  Feed!Close(c)
<1>1. UNCHANGED <<published, subscribed, out, got>> /\ closed' = closed \cup {c}
  BY DEF Join, daemon
<1>2. \A d \in Subscribers : d # c => pipe'[d] = pipe[d]
  BY DEF Join, Types, TypeOK
<1>3. Feeds' = [Feeds EXCEPT ![c] = <<>>]
  <2>1. \A d \in Subscribers : (IF d \in closed' THEN <<>> ELSE OnTheWay(d)')
                               = IF d = c THEN <<>> ELSE Feeds[d]
    BY <1>1, <1>2 DEF OnTheWay, Feeds
  <2>2. Feeds' = [d \in Subscribers |-> IF d \in closed' THEN <<>> ELSE OnTheWay(d)']
    BY DEF Feeds
  <2>3. Feeds' = [d \in Subscribers |-> IF d = c THEN <<>> ELSE Feeds[d]]
    BY <2>1, <2>2
  <2>4. Feeds = [d \in Subscribers |-> Feeds[d]]
    BY DEF Feeds
  <2> HIDE DEF Feeds
  <2> QED
    BY <2>3, <2>4
<1>4. subscribed' \ closed' = (subscribed \ closed) \ {c}
  BY <1>1
<1> QED
  BY <1>1, <1>3, <1>4, FeedsMap, FeedsMapAfter DEF Feed!Close

\* The daemon makes a channel, or destroys one that is closed already.
LEMMA HandleRequestOpens ==
    ASSUME Types, Types', NEW x \in Channels, HandleRequest(x)
    PROVE  (x \in Subscribers /\ Feed!Open(x)) \/ UNCHANGED Feed!vars
<1>1. UNCHANGED <<published, pipe, out, closed, got>>
  BY DEF HandleRequest, client
<1>2. CASE UNCHANGED subscribed
  BY <1>1, <1>2, OthersStutter
<1>3. CASE x \in Subscribers /\ subscribed' = subscribed \cup {x}
  <2>1. CASE x \in closed
    <3>1. subscribed' \ closed' = subscribed \ closed
      BY <1>1, <1>3, <2>1
    <3> QED
      BY <1>1, <3>1 DEF Feed!vars
  <2>2. CASE x \notin closed
    <3>1. subscribed' \ closed' = (subscribed \ closed) \cup {x}
      BY <1>1, <1>3, <2>2
    <3> QED
      BY <1>1, <1>3, <3>1 DEF Feed!Open
  <2> QED
    BY <2>1, <2>2
<1> QED
  BY <1>2, <1>3 DEF HandleRequest

LEMMA HandleCloseStutters ==
    ASSUME Types, Types', Sending, NEW x \in Channels, HandleClose(x)
    PROVE  UNCHANGED Feed!vars
<1>1. UNCHANGED <<published, pipe, out, closed, got>> /\ subscribed' = subscribed \ {x}
  BY DEF HandleClose, client
<1>2. 1 \in 1 .. Len(up[x]) /\ up[x][1] = "close"
  BY ReceivesShift DEF HandleClose
<1>3. x \in closed
  BY <1>2 DEF Sending, ClosedSaid
<1>4. subscribed' \ closed' = subscribed \ closed
  BY <1>1, <1>3
<1> QED
  BY <1>1, <1>4 DEF Feed!vars

FeedInv == Types /\ Closing /\ Counted /\ Sending

\* Every step of the stubs is one of the feeds, or changes none of them.
LEMMA StepImplementsFeed ==
    ASSUME FeedInv, Types', [Next]_vars
    PROVE  [Feed!Next]_(Feed!vars)
<1> USE DEF FeedInv
<1>1. CASE ClientStep
  <2>1. ASSUME NEW t \in Threads, NEW p \in Publishers,
               Announce(t, p) \/ \E e \in Events : Publish(t, p, e)
        PROVE  UNCHANGED Feed!vars
    <3>1. UNCHANGED <<published, pipe, out, closed, subscribed, got>>
      BY <2>1 DEF Announce, Publish, daemon
    <3> QED
      BY <3>1, OthersStutter
  <2>2. ASSUME NEW t \in Threads, NEW p \in Publishers, Unannounce(t, p) PROVE UNCHANGED Feed!vars
    <3>1. UNCHANGED <<published, pipe, out, subscribed, got>> /\ closed' = closed \cup {p}
      BY <2>2 DEF Unannounce, daemon
    <3>2. p \notin Subscribers /\ subscribed \subseteq Subscribers
      BY StubsAssumption DEF Types, TypeOK
    <3>3. subscribed' \ closed' = subscribed \ closed
      BY <3>1, <3>2
    <3>4. \A c \in Subscribers : c \in closed' <=> c \in closed
      BY <3>1, <3>2
    <3> QED
      BY <3>1, <3>3, <3>4 DEF Feed!vars
  <2>3. ASSUME NEW t \in Threads, NEW c \in Subscribers, Subscribe(t, c) \/ Put(t, c) \/ Unsubscribe(t, c)
        PROVE  UNCHANGED Feed!vars
    <3>1. UNCHANGED <<published, pipe, out, closed, subscribed, got>>
      BY <2>3 DEF Subscribe, Put, Unsubscribe, daemon
    <3> QED
      BY <3>1, OthersStutter
  <2>4. ASSUME NEW t \in Threads, NEW c \in Subscribers, Join(t, c) PROVE Feed!Next
    BY <2>4, JoinCloses DEF Feed!Next
  <2>5. ASSUME NEW c \in Subscribers, Read(c) PROVE Feed!Next
    BY <2>5, ReadNotifies DEF Feed!Next
  <2>6. ASSUME NEW c \in Subscribers, Return(c) \/ EndOfStream(c) PROVE UNCHANGED Feed!vars
    <3>1. UNCHANGED <<published, pipe, out, closed, subscribed, got>>
      BY <2>6 DEF Return, EndOfStream, daemon
    <3> QED
      BY <3>1, OthersStutter
  <2> QED
    BY <1>1, <2>1, <2>2, <2>3, <2>4, <2>5, <2>6 DEF ClientStep
<1>2. CASE DaemonStep \/ Environment
  <2>1. ASSUME NEW x \in Channels, HandleRequest(x) PROVE [Feed!Next]_(Feed!vars)
    BY <2>1, HandleRequestOpens DEF Feed!Next
  <2>2. ASSUME NEW x \in Channels, HandleClose(x) PROVE UNCHANGED Feed!vars
    BY <2>2, HandleCloseStutters
  <2>3. ASSUME NEW p \in Publishers, NEW e \in Events, GetEventData(p, e) PROVE Feed!Next
    <3>1. p \in Channels /\ Receives(p, e) /\ PublishLocal(e, e)
          /\ UNCHANGED <<pipe, closed, subscribed, got>>
      BY <2>3 DEF GetEventData, client, Channels
    <3>2. 1 \in 1 .. Len(up[p]) /\ up[p][1] = e
      BY <3>1, ReceivesShift
    <3>3. e \notin published
      BY <3>1, <3>2 DEF Sending, SentOnce, Fresh
    <3> QED
      BY <3>1, <3>3, PublishLocalPublishes DEF Feed!Next
  <2>4. ASSUME NEW e \in Events, Fetch(e) PROVE Feed!Next
    <3>1. PublishLocal(e, None) /\ e \notin published /\ UNCHANGED <<pipe, closed, subscribed, got>>
      BY <2>4 DEF Fetch, client, Types
    <3> QED
      BY <3>1, PublishLocalPublishes DEF Feed!Next
  <2>5. ASSUME NEW c \in Subscribers, WriteDone(c) PROVE UNCHANGED Feed!vars
    BY <2>5, WriteStutters
  <2>6. ASSUME NEW c \in Subscribers, DeadlinePasses(c) PROVE UNCHANGED Feed!vars
    <3>1. UNCHANGED <<published, pipe, closed, subscribed, got>>
          /\ out' = [out EXCEPT ![c] = Late(out[c])]
      BY <2>6 DEF DeadlinePasses, client
    <3>2. \A d \in Subscribers : Pending(out'[d]) = Pending(out[d])
      BY <3>1 DEF Late, Pending, Types
    <3>3. Feeds' = Feeds
      BY <3>1, <3>2 DEF Feeds, OnTheWay
    <3> QED
      BY <3>1, <3>3, FeedsMap, FeedsMapAfter DEF Feed!vars
  <2> QED
    BY <1>2, <2>1, <2>2, <2>3, <2>4, <2>5, <2>6 DEF DaemonStep, Environment
<1>3. CASE UNCHANGED vars
  <2>1. UNCHANGED <<published, pipe, out, closed, subscribed, got>>
    BY <1>3 DEF vars, client, daemon
  <2> QED
    BY <2>1, OthersStutter
<1> QED
  BY <1>1, <1>2, <1>3 DEF Next

LEMMA InitImplementsFeed == Init => Feed!Init
<1> SUFFICES ASSUME Init PROVE Feed!Init
  OBVIOUS
<1>1. \A c \in Subscribers : pipe[c] \o out[c].posted \o out[c].queue = <<>>
  <2>1. <<>> \o <<>> \o <<>> = <<>>
    OBVIOUS
  <2> QED
    BY <2>1 DEF Init, NoWrites
<1> QED
  BY <1>1 DEF Init, Feed!Init

\* A subscriber in another process is notified of what was published, each event once
\* and in the order of the publications, if each event is published once: whatever the
\* clients call, and however the writes, the deadlines and the other connections go.
\* It misses those only that were published while it lagged behind by Limit.
THEOREM StubsImplementFeed == ASSUME WellFormed PROVE Spec => ImplementsFeed
<1> DEFINE I == FeedInv
<1>1. Init => I
  BY InitTypes, InitClosing, InitCounts, InitSending DEF FeedInv
<1>2. I /\ [Next]_vars => I'
  BY NextTypes, NextClosing, NextCounts, NextSending DEF FeedInv
<1>3. I /\ I' /\ [Next]_vars => [Feed!Next]_(Feed!vars)
  BY StepImplementsFeed DEF FeedInv
<1>4. Init => Feed!Init
  BY InitImplementsFeed
<1> HIDE DEF I
<1> QED
  BY <1>1, <1>2, <1>3, <1>4, PTL DEF Spec, ImplementsFeed, Feed!Spec
=============================================================================
