------------------------- MODULE AFPTransferProofs -------------------------
(***************************************************************************)
(* Theorems about AFP, for any lengths of events, packets and headers and  *)
(* any faults of the network: sender and receiver, who count the payload   *)
(* of fragments from opposite ends of an event, agree about the place of   *)
(* every fragment, no assertion of the defragmentation code fails, and the *)
(* subscriber gets whole events, each at most once: AFP implements         *)
(* EventTransfer.  An event of which enough fragments arrive is handed on. *)
(***************************************************************************)
EXTENDS AFPTransfer, FiniteSetTheorems, SequenceTheorems, WellFoundedInduction, TLAPS

-----------------------------------------------------------------------------
(* Numbers.                                                                *)

LEMMA MulNat == \A i, j \in Nat : i * j \in Nat
OBVIOUS

LEMMA MulSum == \A i, j, x \in Int : (i + j) * x = i * x + j * x
OBVIOUS

LEMMA MulOrder == \A i, j, x \in Nat : i <= j => i * x <= j * x
<1> TAKE i, j, x \in Nat
<1> HAVE i <= j
<1>1. j - i \in Nat /\ (j - i) * x \in Nat
  BY MulNat
<1>2. j * x = i * x + (j - i) * x
  <2>1. j = i + (j - i) /\ j - i \in Int
    OBVIOUS
  <2> QED BY <2>1, MulSum
<1>3. i * x \in Nat
  BY MulNat
<1> QED BY <1>1, <1>2, <1>3

\* Parts of b that are needed for all of a: the last one may be short.
LEMMA RoundsUp ==
  ASSUME NEW a \in Nat, NEW b \in Nat \ {0}
  PROVE  /\ DivRoundUp(a, b) \in Nat /\ (a # 0 => DivRoundUp(a, b) # 0)
         /\ DivRoundUp(a, b) * b - a \in 0 .. b - 1
         /\ \A n \in Nat : a <= n * b => DivRoundUp(a, b) <= n
<1> DEFINE d == (a + b - 1) \div b
           m == (a + b - 1) % b
<1>1. d \in Int /\ m \in 0 .. b - 1 /\ a + b - 1 = b * d + m
  OBVIOUS
<1>2. d * b = b * d
  BY <1>1
<1> HIDE DEF d, m
<1>3. d * b - a \in 0 .. b - 1
  BY <1>1, <1>2
<1>4. d \in Nat
  <2> SUFFICES ASSUME d < 0 PROVE FALSE
    BY <1>1
  <2>1. -d \in Nat /\ 1 <= -d
    BY <1>1
  <2>2. 1 * b <= (-d) * b
    BY <2>1, MulOrder
  <2>3. (-d) * b + d * b = 0
    <3>1. (-d) + d = 0 /\ 0 * b = 0
      BY <1>1
    <3> QED BY <1>1, <3>1, MulSum
  <2>4. (-d) * b \in Nat
    BY <2>1, MulNat
  <2> QED BY <1>1, <1>3, <2>2, <2>3, <2>4
<1>5. a # 0 => d # 0
  <2>1. 0 * b = 0
    OBVIOUS
  <2> QED BY <1>3, <2>1
<1>6. ASSUME NEW n \in Nat, a <= n * b PROVE d <= n
  <2> SUFFICES ASSUME n + 1 <= d PROVE FALSE
    BY <1>1
  <2>1. (n + 1) * b <= d * b
    BY <1>4, MulOrder
  <2>2. (n + 1) * b = n * b + 1 * b
    BY MulSum
  <2>3. n * b \in Nat /\ d * b \in Int
    BY <1>1, MulNat
  <2> QED BY <1>3, <1>6, <2>1, <2>2, <2>3
<1> QED BY <1>3, <1>4, <1>5, <1>6 DEF DivRoundUp, d

\* More parts for more, or of smaller size.
LEMMA RoundsUpMonotone ==
  ASSUME NEW a \in Nat, NEW c \in Nat, NEW b \in Nat \ {0}, NEW d \in Nat \ {0}, a <= c, d <= b
  PROVE  DivRoundUp(a, b) <= DivRoundUp(c, d)
<1> DEFINE n == DivRoundUp(c, d)
<1>1. n \in Nat /\ n * d - c \in 0 .. d - 1
  BY RoundsUp
<1> HIDE DEF n
<1>2. n * d <= n * b /\ n * d \in Nat /\ n * b \in Nat
  <2>1. d * n <= b * n
    BY <1>1, MulOrder
  <2>2. d * n = n * d /\ b * n = n * b
    BY <1>1
  <2> QED BY <1>1, <2>1, <2>2, MulNat
<1>3. a <= n * b
  BY <1>1, <1>2
<1> QED BY <1>1, <1>3, RoundsUp DEF n

\* What is left of a number after all whole parts of b.
LEMMA Remainder ==
  \A n \in Nat : \A b \in Nat \ {0} : \A z \in 0 .. b - 1 : (n * b + z) % b = z
<1> TAKE n \in Nat
<1> TAKE b \in Nat \ {0}
<1> TAKE z \in 0 .. b - 1
<1>10. PICK a : a = n * b + z
  OBVIOUS
<1> DEFINE q == a \div b
           m == a % b
<1>1. n * b \in Nat /\ a \in Nat
  BY <1>10, MulNat
<1>2. q \in Int /\ m \in 0 .. b - 1 /\ a = b * q + m /\ b * q = q * b
  BY <1>1
<1> HIDE DEF q, m
<1>3. (q - n) * b = z - m
  <2>1. q = (q - n) + n /\ q - n \in Int
    BY <1>2
  <2>2. q * b = (q - n) * b + n * b
    BY <2>1, MulSum
  <2>3. q * b \in Int /\ (q - n) * b \in Int
    BY <1>2
  <2> QED BY <1>1, <1>2, <1>10, <2>2, <2>3
<1>4. PICK x \in Int : x = q - n
  BY <1>2
<1>5. x * b = z - m
  BY <1>3, <1>4
<1>6. ~(x >= 1)
  <2> SUFFICES ASSUME x >= 1 PROVE FALSE
    OBVIOUS
  <2>1. 1 * b <= x * b
    BY MulOrder
  <2> QED BY <1>2, <1>5, <2>1
<1>7. ~(x <= -1)
  <2> SUFFICES ASSUME x <= -1 PROVE FALSE
    OBVIOUS
  <2>1. -x \in Nat /\ 1 <= -x
    OBVIOUS
  <2>2. 1 * b <= (-x) * b
    BY <2>1, MulOrder
  <2>3. (-x) * b + x * b = 0
    <3>1. (-x) + x = 0 /\ 0 * b = 0 /\ -x \in Int
      OBVIOUS
    <3> QED BY <3>1, MulSum
  <2>4. (-x) * b \in Int
    BY <2>1
  <2> QED BY <1>2, <1>5, <2>2, <2>3, <2>4
<1>8. x = 0
  BY <1>6, <1>7
<1>9. x * b = 0
  BY <1>8
<1>11. a % b = z
  BY <1>2, <1>5, <1>9 DEF m
<1> QED BY <1>10, <1>11

-----------------------------------------------------------------------------
(* Headers.                                                                *)

LEMMA MaxFragmentsGrow ==
  /\ \A h \in 0 .. 3 : MaxFragments(h) \in Nat
  /\ 0 = MaxFragments(0) /\ MaxFragments(1) = ShortFseqs
  /\ MaxFragments(2) = ShortFseqs * Growth
  /\ MaxFragments(0) < MaxFragments(1) /\ MaxFragments(1) < MaxFragments(2)
  /\ MaxFragments(2) < MaxFragments(3)
  /\ MaxFragments(2) - MaxFragments(1) = ShortFseqs * (Growth - 1)
<1> USE HeaderAssumption
<1>1. \A x \in Nat \ {0} : x * Growth \in Nat /\ x < x * Growth /\ x * Growth - x = x * (Growth - 1)
  <2> TAKE x \in Nat \ {0}
  <2>1. x * Growth = x * (Growth - 1) + x
    OBVIOUS
  <2>2. x * (Growth - 1) >= x
    <3>1. (Growth - 1) * x >= 1 * x
      BY MulOrder
    <3> QED BY <3>1
  <2>3. x * (Growth - 1) \in Nat
    BY MulNat
  <2> QED BY <2>1, <2>2, <2>3
<1>2. ShortFseqs * Growth \in Nat /\ ShortFseqs < ShortFseqs * Growth
  BY <1>1
<1>3. ShortFseqs * Growth * Growth \in Nat /\ ShortFseqs * Growth < ShortFseqs * Growth * Growth
  BY <1>1, <1>2
<1> QED BY <1>1, <1>2, <1>3 DEF MaxFragments

\* One fragment more, counted from the last one, adds the payload behind its header.
LEMMA PayloadOfOneMore ==
  ASSUME NEW room \in Int, NEW c \in 1 .. MaxFragments(3)
  PROVE  /\ GetPayload(c, room) \in Int /\ GetPayload(c - 1, room) \in Int
         /\ GetPayload(c, room) = GetPayload(c - 1, room) + (room - GetBasicHeaderLen(c - 1))
<1> DEFINE m1 == MaxFragments(1)
           m2 == MaxFragments(2)
           m3 == MaxFragments(3)
           P1(n, a) == GetPayload(n, room) = a * (room - 1) + 0 * (room - 2) + 0 * (room - 3)
           P2(n, a) == GetPayload(n, room) = m1 * (room - 1) + a * (room - 2) + 0 * (room - 3)
           P3(n, a) == GetPayload(n, room) = m1 * (room - 1) + (m2 - m1) * (room - 2) + a * (room - 3)
<1>1. m1 \in Nat /\ m2 \in Nat /\ m3 \in Nat /\ 0 < m1 /\ m1 < m2 /\ m2 < m3
  BY MaxFragmentsGrow
<1>2. MaxFragments(0) = 0
  BY MaxFragmentsGrow
<1>3. \A n \in 0 .. m3 : /\ n <= m1 => P1(n, n)
                         /\ m1 <= n /\ n <= m2 => P2(n, n - m1)
                         /\ m2 <= n => P3(n, n - m2)
  <2> HIDE DEF m1, m2, m3
  <2> QED BY <1>1, <1>2 DEF GetPayload, m1, m2, m3
<1>4. \A x \in Int : \A a \in Int : a * x = (a - 1) * x + x /\ a * x \in Int /\ (a - 1) * x \in Int
  OBVIOUS
<1>5. GetBasicHeaderLen(c - 1) = IF c <= m1 THEN 1 ELSE IF c <= m2 THEN 2 ELSE 3
  BY <1>1 DEF GetBasicHeaderLen
<1> HIDE DEF m1, m2, m3
<1>6. CASE c <= m1
  BY <1>1, <1>3, <1>4, <1>5, <1>6 DEF m3
<1>7. CASE m1 < c /\ c <= m2
  BY <1>1, <1>3, <1>4, <1>5, <1>7 DEF m3
<1>8. CASE m2 < c
  BY <1>1, <1>3, <1>4, <1>5, <1>8 DEF m3
<1> QED BY <1>1, <1>6, <1>7, <1>8
LEMMA HeaderLengths ==
  ASSUME NEW n \in Nat
  PROVE  /\ GetBasicHeaderLen(n) \in 1 .. 3
         /\ (n < MaxFragments(1) <=> GetBasicHeaderLen(n) = 1)
         /\ (n < MaxFragments(2) <=> GetBasicHeaderLen(n) <= 2)
BY MaxFragmentsGrow DEF GetBasicHeaderLen

\* Where the longest header leaves room, one fragment carries no less than any
\* other but the last does.
LEMMA PayloadAtLeast ==
  ASSUME NEW room \in Int, NEW c \in 1 .. MaxFragments(3), room > GetBasicHeaderLen(c - 1)
  PROVE  GetPayload(c, room) >= room - 1
<1> DEFINE m1 == MaxFragments(1)
           m2 == MaxFragments(2)
<1>1. m1 \in Nat \ {0} /\ m2 \in Nat /\ m1 < m2 /\ MaxFragments(3) \in Nat
  BY MaxFragmentsGrow
<1>2. room - 1 \in Nat /\ (m1 < c => room - 2 \in Nat) /\ (m2 < c => room - 3 \in Nat)
  BY <1>1, HeaderLengths
<1> HIDE DEF m1, m2
<1>3. \A i \in Nat \ {0} : i * (room - 1) \in Nat /\ i * (room - 1) >= room - 1
  <2> TAKE i \in Nat \ {0}
  <2>1. 1 * (room - 1) <= i * (room - 1) /\ i * (room - 1) \in Nat
    BY <1>2, MulOrder, MulNat
  <2> QED BY <1>2, <2>1
<1>4. CASE c <= m1
  <2>1. GetPayload(c, room) = c * (room - 1) + 0 * (room - 2) + 0 * (room - 3)
    BY <1>1, <1>4, MaxFragmentsGrow DEF GetPayload, m1, m2
  <2> QED BY <1>2, <1>3, <2>1
<1>5. CASE m1 < c /\ c <= m2
  <2>1. GetPayload(c, room) = m1 * (room - 1) + (c - m1) * (room - 2) + 0 * (room - 3)
    BY <1>1, <1>5, MaxFragmentsGrow DEF GetPayload, m1, m2
  <2>2. (c - m1) * (room - 2) \in Nat
    <3>1. c - m1 \in Nat
      BY <1>1, <1>5
    <3> QED BY <1>2, <1>5, <3>1, MulNat
  <2>3. m1 * (room - 1) >= room - 1 /\ m1 * (room - 1) \in Nat
    BY <1>1, <1>3
  <2> QED BY <1>2, <2>1, <2>2, <2>3
<1>6. CASE m2 < c
  <2>1. GetPayload(c, room) = m1 * (room - 1) + (m2 - m1) * (room - 2) + (c - m2) * (room - 3)
    BY <1>1, <1>6, MaxFragmentsGrow DEF GetPayload, m1, m2
  <2>2. (m2 - m1) * (room - 2) \in Nat /\ (c - m2) * (room - 3) \in Nat
    <3>1. c - m2 \in Nat /\ m2 - m1 \in Nat /\ room - 2 \in Nat /\ room - 3 \in Nat
      BY <1>1, <1>2, <1>6
    <3> QED BY <3>1, MulNat
  <2>3. m1 * (room - 1) >= room - 1 /\ m1 * (room - 1) \in Nat
    BY <1>1, <1>3
  <2> QED BY <1>2, <2>1, <2>2, <2>3
<1> QED BY <1>1, <1>4, <1>5, <1>6

-----------------------------------------------------------------------------
(* The fragmenter.                                                         *)

\* What an accepted event of len bytes is cut into: the first fragment has the
\* longest header, and only the last one is short.
Cut(len, count, room) ==
    /\ count \in 1 .. MaxFragments(3)
    /\ GetBasicHeaderLen(count - 1) < room
    /\ GetPayload(count, room) - len \in 0 .. room - GetBasicHeaderLen(count - 1) - 1

LEMMA CutByInit ==
  ASSUME NEW len \in Nat \ {0}, NEW room \in Int, Fits(len, room, 3), ~InitNoFEC(len, room).err
  PROVE  \E count \in Nat :
            /\ Cut(len, count, room)
            /\ InitNoFEC(len, room) = Started(len, count, GetBasicHeaderLen(count - 1),
                                              room - GetBasicHeaderLen(count - 1))
<1> DEFINE m(h) == MaxFragments(h)
           h == LongestHeader(len, room)
           rest == Rest(len, room, h)
           d == DivRoundUp(rest, room - h)
           count == m(h - 1) + d
<1>1. /\ m(0) = 0 /\ m(1) \in Nat \ {0} /\ m(2) \in Nat /\ m(3) \in Nat
      /\ m(1) < m(2) /\ m(2) < m(3) /\ m(1) = ShortFseqs /\ m(2) - m(1) = ShortFseqs * (Growth - 1)
  BY MaxFragmentsGrow
<1>2. h \in 1 .. 3
  BY DEF LongestHeader
<1>3. room - h > 0 /\ InitNoFEC(len, room) = Started(len, count, h, room - h)
  <2>1. InitNoFEC(len, room) = IF room - h <= 0 THEN Rejected ELSE Started(len, count, h, room - h)
    BY DEF InitNoFEC
  <2>2. Rejected.err
    BY DEF Rejected
  <2> HIDE DEF h, count
  <2> QED BY <1>2, <2>1, <2>2
<1>4. ShortFseqs * (room - 1) \in Int /\ ShortFseqs * (Growth - 1) * (room - 2) \in Int
  BY HeaderAssumption
<1>5. /\ h > 1 => ~Fits(len, room, 1)
      /\ h > 2 => ~Fits(len, room, 2)
      /\ Fits(len, room, h)
  <2>1. CASE room - 1 <= 0 \/ Fits(len, room, 1)
    BY <1>3, <2>1 DEF LongestHeader
  <2>2. CASE room - 1 > 0 /\ ~Fits(len, room, 1) /\ (room - 2 <= 0 \/ Fits(len, room, 2))
    BY <1>3, <2>2 DEF LongestHeader
  <2>3. CASE room - 1 > 0 /\ ~Fits(len, room, 1) /\ ~(room - 2 <= 0 \/ Fits(len, room, 2))
    BY <2>3 DEF LongestHeader
  <2> QED BY <2>1, <2>2, <2>3
<1>6. /\ Rest(len, room, 1) = len
      /\ Rest(len, room, 2) = len - m(1) * (room - 1)
      /\ Rest(len, room, 3) = len - m(1) * (room - 1) - (m(2) - m(1)) * (room - 2)
  BY <1>1 DEF Rest
<1> HIDE DEF m, h
<1>7. rest \in Nat \ {0} /\ rest <= (m(h) - m(h - 1)) * (room - h)
  <2>1. CASE h = 1
    BY <1>5, <1>6, <2>1 DEF Fits, m
  <2>2. CASE h = 2
    <3>1. Rest(len, room, 1) > (m(1) - m(0)) * (room - 1)
      BY <1>1, <1>4, <1>5, <1>6, <2>2 DEF Fits, m
    <3> QED BY <1>1, <1>4, <1>5, <1>6, <2>2, <3>1 DEF Fits, m
  <2>3. CASE h = 3
    <3>1. Rest(len, room, 2) > (m(2) - m(1)) * (room - 2)
      BY <1>1, <1>4, <1>5, <1>6, <2>3 DEF Fits, m
    <3> QED BY <1>1, <1>4, <1>5, <1>6, <2>3, <3>1 DEF Fits, m
  <2> QED BY <1>2, <2>1, <2>2, <2>3
<1>8. m(h) - m(h - 1) \in Nat /\ m(h) \in Nat /\ m(h - 1) \in Nat /\ room - h \in Nat \ {0} /\ m(h) <= m(3)
  <2>1. CASE h = 1
    BY <1>1, <1>3, <2>1
  <2>2. CASE h = 2
    BY <1>1, <1>3, <2>2
  <2>3. CASE h = 3
    BY <1>1, <1>3, <2>3
  <2> QED BY <1>2, <2>1, <2>2, <2>3
<1> HIDE DEF rest
<1>9. /\ d \in Nat \ {0} /\ d <= m(h) - m(h - 1)
      /\ d * (room - h) - rest \in 0 .. room - h - 1
  BY <1>7, <1>8, RoundsUp
<1> HIDE DEF d
<1>10. count \in 1 .. m(3) /\ m(h - 1) < count /\ count <= m(h)
  BY <1>1, <1>8, <1>9
<1>11. GetBasicHeaderLen(count - 1) = h
  <2>1. CASE h = 1
    BY <1>1, <1>10, <2>1 DEF GetBasicHeaderLen, m
  <2>2. CASE h = 2
    BY <1>1, <1>10, <2>2 DEF GetBasicHeaderLen, m
  <2>3. CASE h = 3
    BY <1>1, <1>10, <2>3 DEF GetBasicHeaderLen, m
  <2> QED BY <1>2, <2>1, <2>2, <2>3
<1>12. GetPayload(count, room) - len = d * (room - h) - rest
  <2>1. CASE h = 1
    <3>1. GetPayload(count, room) = d * (room - 1) + 0 * (room - 2) + 0 * (room - 3)
      BY <1>1, <1>9, <1>10, <2>1 DEF GetPayload, m
    <3> QED BY <1>6, <1>9, <2>1, <3>1 DEF rest
  <2>2. CASE h = 2
    <3>1. GetPayload(count, room) = m(1) * (room - 1) + d * (room - 2) + 0 * (room - 3)
      BY <1>1, <1>9, <1>10, <2>2 DEF GetPayload, m
    <3> QED BY <1>1, <1>4, <1>6, <1>9, <2>2, <3>1 DEF rest
  <2>3. CASE h = 3
    <3>1. GetPayload(count, room) = m(1) * (room - 1) + (m(2) - m(1)) * (room - 2) + d * (room - 3)
      BY <1>1, <1>9, <1>10, <2>3 DEF GetPayload, m
    <3> QED BY <1>1, <1>4, <1>6, <1>9, <2>3, <3>1 DEF rest
  <2> QED BY <1>2, <2>1, <2>2, <2>3
<1>13. Cut(len, count, room)
  <2>1. count \in 1 .. MaxFragments(3)
    BY <1>10 DEF m
  <2> HIDE DEF count
  <2>2. GetPayload(count, room) - len \in 0 .. room - h - 1
    BY <1>9, <1>12
  <2> QED BY <1>2, <1>3, <1>11, <2>1, <2>2 DEF Cut
<1> HIDE DEF count
<1> QED BY <1>3, <1>10, <1>11, <1>13

LEMMA AfterFields ==
  ASSUME NEW f \in Frag
  PROVE  LET g == AfterFragment(f)
         IN  /\ g \in Frag
             /\ g.fec = f.fec /\ g.first = FALSE /\ g.k = f.k /\ g.red = f.red /\ g.rest = f.rest
             /\ g.remaining = f.remaining - 1
             /\ g.shorten = IF Shortens(f) THEN NextShorten(f.remaining - 1) ELSE f.shorten
             /\ g.blen = IF Shortens(f) THEN f.blen - 1 ELSE f.blen
             /\ g.payload = NextPayload(f)
             /\ g.at = f.at + Taken(f) /\ g.left = f.left - Taken(f)
<1> DEFINE shorten == IF Shortens(f) THEN NextShorten(f.remaining - 1) ELSE f.shorten
           blen == IF Shortens(f) THEN f.blen - 1 ELSE f.blen
<1>1. /\ f.remaining \in Int /\ f.shorten \in Int /\ f.blen \in Int /\ f.payload \in Int
      /\ f.at \in Int /\ f.left \in Int
  BY DEF Frag
<1>2. NextShorten(f.remaining - 1) \in Int
  BY HeaderAssumption DEF NextShorten
<1>3. shorten \in Int /\ blen \in Int /\ NextPayload(f) \in Int
  BY <1>1, <1>2 DEF NextPayload
<1>4. Taken(f) \in Int
  BY <1>1, <1>3 DEF Taken
<1>5. AfterFragment(f) = [f EXCEPT !.remaining = f.remaining - 1, !.shorten = shorten, !.blen = blen,
                                   !.payload = NextPayload(f), !.first = FALSE,
                                   !.at = f.at + Taken(f), !.left = f.left - Taken(f)]
  BY DEF AfterFragment
<1>6. \A a \in Int : [f EXCEPT !.remaining = a] \in Frag
  BY DEF Frag
<1> HIDE DEF shorten, blen
<1>7. PICK a \in Int : a = f.remaining - 1
  BY <1>1
<1>8. PICK b \in Int : b = f.at + Taken(f)
  BY <1>1, <1>4
<1>9. PICK c \in Int : c = f.left - Taken(f)
  BY <1>1, <1>4
<1>10. AfterFragment(f) =
          [err |-> f.err, fec |-> f.fec, remaining |-> a, shorten |-> shorten, blen |-> blen,
           payload |-> NextPayload(f), first |-> FALSE, at |-> b, left |-> c,
           k |-> f.k, red |-> f.red, rest |-> f.rest]
  BY <1>5, <1>7, <1>8, <1>9 DEF Frag
<1>11. f.err \in BOOLEAN /\ f.fec \in BOOLEAN /\ f.k \in Int /\ f.red \in Int /\ f.rest \in Int
  BY DEF Frag
<1> QED BY <1>3, <1>7, <1>8, <1>9, <1>10, <1>11 DEF Frag, shorten, blen

LEMMA StartedFields ==
  ASSUME NEW len \in Int, NEW count \in Int, NEW blen \in Int, NEW payload \in Int
  PROVE  LET f == Started(len, count, blen, payload)
         IN  /\ f \in Frag
             /\ ~f.err /\ ~f.fec /\ f.first /\ f.remaining = count /\ f.k = 0
             /\ f.shorten = NextShorten(count - 1) /\ f.blen = blen /\ f.payload = payload
             /\ f.at = 0 /\ f.left = len
<1>1. NextShorten(count - 1) \in Int
  BY HeaderAssumption DEF NextShorten
<1> QED BY <1>1 DEF Started, Frag

\* A fragmenter that stands before a fragment has the header of the fragment
\* before it, ...
Counting(f, count) ==
    LET last == IF f.first THEN count - 1 ELSE f.remaining
    IN  /\ f.remaining \in 1 .. count
        /\ f.first <=> f.remaining = count
        /\ f.blen = GetBasicHeaderLen(last)
        /\ f.shorten = NextShorten(last)

\* ... and what it has sent is what the fragments before carry.
Placed(f, len, count, room) ==
    /\ Counting(f, count)
    /\ f.payload = room - f.blen
    /\ f.at = GetPayload(count, room) - GetPayload(f.remaining, room)
    /\ f.left = len - f.at

\* The header gets shorter exactly where get_next_header_shorten_fseq says.
LEMMA HeaderShortens ==
  ASSUME NEW n \in Nat
  PROVE  /\ n # NextShorten(n)
         /\ n = NextShorten(n + 1) => GetBasicHeaderLen(n) = GetBasicHeaderLen(n + 1) - 1
         /\ n # NextShorten(n + 1) => /\ GetBasicHeaderLen(n) = GetBasicHeaderLen(n + 1)
                                      /\ NextShorten(n) = NextShorten(n + 1)
<1>1. MaxFragments(1) = ShortFseqs /\ MaxFragments(2) = ShortFseqs * Growth
  BY MaxFragmentsGrow
<1>2. ShortFseqs \in Nat /\ ShortFseqs * Growth \in Nat /\ 0 < ShortFseqs
      /\ ShortFseqs < ShortFseqs * Growth
  BY <1>1, MaxFragmentsGrow
<1>3. \A i \in Nat : /\ i < ShortFseqs => GetBasicHeaderLen(i) = 1 /\ NextShorten(i) = -1
                     /\ ShortFseqs <= i /\ i < ShortFseqs * Growth =>
                           GetBasicHeaderLen(i) = 2 /\ NextShorten(i) = ShortFseqs - 1
                     /\ ShortFseqs * Growth <= i =>
                           GetBasicHeaderLen(i) = 3 /\ NextShorten(i) = ShortFseqs * Growth - 1
  BY <1>1, <1>2 DEF GetBasicHeaderLen, NextShorten
<1>4. CASE n + 1 < ShortFseqs
  BY <1>2, <1>3, <1>4
<1>5. CASE n + 1 = ShortFseqs
  BY <1>2, <1>3, <1>5
<1>6. CASE ShortFseqs <= n /\ n + 1 < ShortFseqs * Growth
  BY <1>2, <1>3, <1>6
<1>7. CASE n + 1 = ShortFseqs * Growth
  BY <1>2, <1>3, <1>7
<1>8. CASE ShortFseqs * Growth <= n
  BY <1>2, <1>3, <1>8
<1> QED BY <1>2, <1>4, <1>5, <1>6, <1>7, <1>8

LEMMA AfterCounting ==
  ASSUME NEW f \in Frag, NEW count \in Int, Counting(f, count)
  PROVE  LET r == f.remaining - 1
         IN  /\ r \in 0 .. count - 1
             /\ AfterFragment(f).blen = GetBasicHeaderLen(r)
             /\ Shortens(f) => GetBasicHeaderLen(r) = f.blen - 1
             /\ ~Shortens(f) => GetBasicHeaderLen(r) = f.blen
             /\ r > 0 => Counting(AfterFragment(f), count)
<1> DEFINE r == f.remaining - 1
           h(n) == GetBasicHeaderLen(n)
           g == AfterFragment(f)
<1>1. r \in 0 .. count - 1 /\ f.remaining = r + 1
  BY DEF Counting
<1>2. f.first => r = count - 1 /\ f.blen = h(r) /\ f.shorten = NextShorten(r)
  BY DEF Counting
<1>3. ~f.first => f.blen = h(r + 1) /\ f.shorten = NextShorten(r + 1)
  BY <1>1 DEF Counting
<1>4. Shortens(f) <=> r = f.shorten
  BY DEF Shortens
<1>5. /\ Shortens(f) => ~f.first /\ h(r) = f.blen - 1
      /\ ~Shortens(f) => h(r) = f.blen /\ f.shorten = NextShorten(r)
  <2> HIDE DEF r
  <2>1. r \in Nat
    BY <1>1
  <2> QED BY <1>2, <1>3, <1>4, <2>1, HeaderShortens
<1>6. /\ g.shorten = IF Shortens(f) THEN NextShorten(r) ELSE f.shorten
      /\ g.blen = IF Shortens(f) THEN f.blen - 1 ELSE f.blen
      /\ g.remaining = r /\ g.first = FALSE
  BY AfterFields
<1> HIDE DEF g, h
<1>7. g.blen = h(r) /\ g.shorten = NextShorten(r)
  <2> HIDE DEF r
  <2> QED BY <1>5, <1>6
<1>8. ASSUME r > 0 PROVE Counting(g, count)
  <2>1. r \in 1 .. count /\ r # count
    BY <1>1, <1>8
  <2> HIDE DEF r
  <2> QED BY <1>6, <1>7, <2>1 DEF Counting, h
<1> QED BY <1>1, <1>5, <1>7, <1>8 DEF g, h

LEMMA StartedPlaced ==
  ASSUME NEW len \in Int, NEW room \in Int, NEW count \in Nat, Cut(len, count, room)
  PROVE  Placed(Started(len, count, GetBasicHeaderLen(count - 1),
                        room - GetBasicHeaderLen(count - 1)), len, count, room)
<1>1. count \in 1 .. MaxFragments(3) /\ GetBasicHeaderLen(count - 1) \in Int
  <2>1. count \in 1 .. MaxFragments(3)
    BY DEF Cut
  <2> QED BY <2>1, HeaderLengths
<1>2. GetPayload(count, room) \in Int
  BY <1>1, PayloadOfOneMore
<1> DEFINE h == GetBasicHeaderLen(count - 1)
<1>3. room - h \in Int /\ h \in Int
  BY <1>1
<1>4. PICK payload \in Int : payload = room - h
  BY <1>3
<1> DEFINE f == Started(len, count, h, payload)
<1>5. /\ f.first /\ f.remaining = count /\ f.shorten = NextShorten(count - 1) /\ f.blen = h
      /\ f.payload = payload /\ f.at = 0 /\ f.left = len
  BY DEF Started
<1> HIDE DEF f
<1>6. Placed(f, len, count, room)
  BY <1>1, <1>2, <1>4, <1>5 DEF Placed, Counting
<1> QED BY <1>4, <1>6 DEF f

\* The fragment that a fragmenter makes is the one whose turn it is, and whole
\* unless it is the last.
LEMMA AfterPlaced ==
  ASSUME NEW f \in Frag, NEW len \in Int, NEW room \in Int, NEW count \in Int,
         Cut(len, count, room), Placed(f, len, count, room), ~f.fec
  PROVE  LET r == f.remaining - 1
         IN  /\ AfterFragment(f).blen = GetBasicHeaderLen(r)
             /\ Taken(f) = IF r = 0 THEN len - f.at ELSE room - GetBasicHeaderLen(r)
             /\ r > 0 => Placed(AfterFragment(f), len, count, room)
<1> DEFINE r == f.remaining - 1
           h(n) == GetBasicHeaderLen(n)
           P(n) == GetPayload(n, room)
<1>1. /\ count \in 1 .. MaxFragments(3) /\ h(count - 1) < room /\ MaxFragments(3) \in Nat
      /\ P(count) - len \in 0 .. room - h(count - 1) - 1
  BY MaxFragmentsGrow DEF Cut
<1>2. /\ r \in 0 .. count - 1 /\ f.remaining = r + 1 /\ f.payload = room - f.blen
      /\ f.at = P(count) - P(r + 1) /\ f.left = len - f.at
  BY <1>1 DEF Placed, Counting
<1>3. /\ AfterFragment(f).blen = h(r)
      /\ Shortens(f) => h(r) = f.blen - 1
      /\ ~Shortens(f) => h(r) = f.blen
      /\ r > 0 => Counting(AfterFragment(f), count)
  BY AfterCounting DEF Placed
<1>5. /\ P(r + 1) \in Int /\ P(r) \in Int /\ P(r + 1) = P(r) + (room - h(r))
      /\ P(count) \in Int /\ h(r) \in 1 .. 3 /\ h(count - 1) \in 1 .. 3 /\ f.blen \in Int
  <2>1. h(r) \in 1 .. 3 /\ h(count - 1) \in 1 .. 3
    BY <1>1, <1>2, HeaderLengths
  <2>2. P(count) \in Int
    BY <1>1, PayloadOfOneMore
  <2>3. r + 1 \in 1 .. MaxFragments(3) /\ (r + 1) - 1 = r
    BY <1>1, <1>2
  <2> HIDE DEF r
  <2>4. P(r + 1) \in Int /\ P(r) \in Int /\ P(r + 1) = P(r) + (room - h(r))
    BY <2>3, PayloadOfOneMore
  <2> QED BY <2>1, <2>2, <2>4 DEF Frag
<1>8. NextPayload(f) = room - h(r)
  <2>1. NextPayload(f) = IF Shortens(f) THEN f.payload + 1 ELSE f.payload
    BY DEF NextPayload
  <2> HIDE DEF h, r
  <2> QED BY <1>2, <1>3, <1>5, <2>1
<1>9. f.left = P(r) + (room - h(r)) - (P(count) - len)
  <2> HIDE DEF r, P, h
  <2> QED BY <1>2, <1>5
<1>10. r > 0 => P(r) >= room - 1
  <2> SUFFICES ASSUME r > 0 PROVE P(r) >= room - 1
    OBVIOUS
  <2>1. r \in 1 .. MaxFragments(3)
    BY <1>1, <1>2
  <2>2. room > h(r - 1)
    <3>1. h(r - 1) <= h(count - 1)
      BY <1>1, <1>2, <2>1, MaxFragmentsGrow DEF GetBasicHeaderLen
    <3>2. h(r - 1) \in Int
      BY <2>1, HeaderLengths
    <3> QED BY <1>1, <1>5, <3>1, <3>2
  <2> HIDE DEF r
  <2> QED BY <2>1, <2>2, PayloadAtLeast
<1>11. r = 0 => P(r) = 0
  BY MaxFragmentsGrow DEF GetPayload
<1>12. Taken(f) = IF r = 0 THEN len - f.at ELSE room - h(r)
  <2> HIDE DEF r, P, h
  <2>1. Taken(f) = IF f.left >= room - h(r) THEN room - h(r) ELSE f.left
    BY <1>8 DEF Taken
  <2> QED BY <1>1, <1>2, <1>5, <1>9, <1>10, <1>11, <2>1
<1>13. ASSUME r > 0 PROVE Placed(AfterFragment(f), len, count, room)
  <2> DEFINE g == AfterFragment(f)
  <2>1. /\ g.remaining = r /\ g.first = FALSE /\ g.payload = room - h(r)
        /\ g.at = f.at + (room - h(r)) /\ g.left = f.left - (room - h(r))
    <3>1. /\ g.remaining = r /\ g.first = FALSE /\ g.payload = NextPayload(f)
          /\ g.at = f.at + Taken(f) /\ g.left = f.left - Taken(f)
      BY AfterFields
    <3>2. Taken(f) = room - h(r)
      BY <1>12, <1>13
    <3> HIDE DEF g, r, h
    <3> QED BY <1>8, <3>1, <3>2
  <2>2. g.blen = h(r) /\ Counting(g, count)
    BY <1>3, <1>13
  <2> HIDE DEF r, g
  <2>4. g.at = P(count) - P(r) /\ g.left = len - g.at
    <3> HIDE DEF P, h
    <3> QED BY <1>1, <1>2, <1>5, <2>1
  <2> QED BY <2>1, <2>2, <2>4 DEF Placed, g
<1> QED BY <1>3, <1>12, <1>13

-----------------------------------------------------------------------------
(* The fragmenter with redundancy.                                         *)

\* The even payload of all fragments of an event with redundancy.
FullFEC(count, room) == Even(room - GetBasicHeaderLen(count - 1))

\* k fragments hold an event of len bytes, and only the last of them is short.
CutFEC(len, k, count, room, red) ==
    /\ k \in Nat \ {0} /\ count \in Nat /\ count = WithRedundancy(k, red)
    /\ FullFEC(count, room) \in Nat \ {0}
    /\ k * FullFEC(count, room) - len \in 0 .. FullFEC(count, room) - 1

\* After k fragments there is nothing left, and redundancy follows.
PlacedFEC(f, len, k, count, room, red) ==
    /\ Counting(f, count)
    /\ f.k = k /\ f.red = red /\ f.payload = FullFEC(count, room)
    /\ f.rest = len - (k - 1) * FullFEC(count, room)
    /\ f.left = IF count - f.remaining >= k THEN 0
                ELSE len - (count - f.remaining) * FullFEC(count, room)

LEMMA Redundancy ==
  ASSUME NEW k \in Nat, NEW red \in Nat
  PROVE  /\ WithRedundancy(k, red) \in Nat /\ WithRedundancy(k, red) >= k
         /\ \A n \in Nat : k <= n => WithRedundancy(k, red) <= WithRedundancy(n, red)
<1>1. k * red \in Nat
  BY MulNat
<1>2. DivRoundUp(k * red, 100) \in Nat
  BY <1>1, RoundsUp
<1>3. ASSUME NEW n \in Nat, k <= n PROVE WithRedundancy(k, red) <= WithRedundancy(n, red)
  <2>1. n * red \in Nat /\ k * red <= n * red
    BY <1>3, MulNat, MulOrder
  <2>2. DivRoundUp(k * red, 100) <= DivRoundUp(n * red, 100) /\ DivRoundUp(n * red, 100) \in Nat
    BY <1>1, <2>1, RoundsUp, RoundsUpMonotone
  <2> QED BY <1>2, <1>3, <2>2 DEF WithRedundancy
<1> QED BY <1>2, <1>3 DEF WithRedundancy

\* No redundancy is what no percentage gives.
LEMMA NoRedundancy ==
  ASSUME NEW k \in Nat \ {0}, NEW red \in Nat
  PROVE  WithRedundancy(k, red) = k <=> red = 0
<1>1. k * red \in Nat /\ (k * red = 0 <=> red = 0)
  <2>1. CASE red = 0
    BY <2>1
  <2>2. CASE red # 0
    <3>1. 1 * k <= red * k /\ red * k = k * red
      BY <2>2, MulOrder
    <3> QED BY <2>2, <3>1, MulNat
  <2> QED BY <2>1, <2>2
<1>2. PICK a \in Nat : a = k * red /\ (a = 0 <=> red = 0)
  BY <1>1
<1>3. DivRoundUp(a, 100) \in Nat /\ (a # 0 => DivRoundUp(a, 100) # 0)
  BY RoundsUp
<1>4. a = 0 => DivRoundUp(a, 100) = 0
  BY DEF DivRoundUp
<1> QED BY <1>2, <1>3, <1>4 DEF WithRedundancy

LEMMA EvenFacts == \A x, y \in Int : Even(x) \in Int /\ (x <= y => Even(x) <= Even(y))
BY DEF Even

LEMMA AfterPlacedFEC ==
  ASSUME NEW f \in Frag, NEW len \in Nat \ {0}, NEW k \in Nat, NEW count \in Int, NEW room \in Int,
         NEW red \in Nat, CutFEC(len, k, count, room, red), PlacedFEC(f, len, k, count, room, red),
         f.fec
  PROVE  /\ f.remaining > 1 => PlacedFEC(AfterFragment(f), len, k, count, room, red)
         /\ AfterFragment(f).blen = GetBasicHeaderLen(f.remaining - 1)
         /\ \/ f.remaining - 1 = count - k
            \/ FullFEC(count, room) = IF f.left = 0 THEN f.payload ELSE Taken(f)
<1>1. PICK P \in Nat \ {0} : P = FullFEC(count, room)
  BY DEF CutFEC
<1>2. /\ k \in Nat \ {0} /\ count \in Nat /\ k * P - len \in 0 .. P - 1
      /\ f.k = k /\ f.red = red /\ f.payload = P /\ f.remaining \in 1 .. count
  BY <1>1 DEF CutFEC, PlacedFEC, Counting
<1>3. PICK i \in Nat : i = count - f.remaining /\ f.left = IF i >= k THEN 0 ELSE len - i * P
  BY <1>1, <1>2 DEF PlacedFEC
<1>4. i * P \in Nat /\ (i + 1) * P = i * P + P /\ k * P \in Nat
  <2>1. (i + 1) * P = i * P + 1 * P
    BY MulSum
  <2> QED BY <1>2, <2>1, MulNat
<1>5. i + 1 < k => (i + 1) * P + P <= k * P
  <2> SUFFICES ASSUME i + 1 < k PROVE (i + 1) * P + P <= k * P
    OBVIOUS
  <2>1. (i + 2) * P <= k * P
    BY <1>2, MulOrder
  <2>2. (i + 2) * P = (i + 1) * P + 1 * P
    <3>1. i + 2 = (i + 1) + 1
      OBVIOUS
    <3> QED BY <3>1, MulSum
  <2> QED BY <1>4, <2>1, <2>2
<1>6. /\ Taken(f) = IF f.left >= P THEN P ELSE f.left
      /\ AfterFragment(f).payload = P
  <2>1. NextPayload(f) = P
    BY <1>2 DEF NextPayload
  <2> QED BY <2>1, AfterFields DEF Taken
<1>7. /\ AfterFragment(f).left = f.left - Taken(f) /\ AfterFragment(f).remaining = f.remaining - 1
      /\ AfterFragment(f).k = k /\ AfterFragment(f).red = red /\ AfterFragment(f).rest = f.rest
  BY <1>2, AfterFields
<1>8. i + 1 < k => f.left >= P /\ Taken(f) = P /\ AfterFragment(f).left = len - (i + 1) * P
  BY <1>2, <1>3, <1>4, <1>5, <1>6, <1>7
<1>9. i + 1 = k => Taken(f) = f.left /\ AfterFragment(f).left = 0
  BY <1>2, <1>3, <1>4, <1>6, <1>7
<1>10. i >= k => f.left = 0 /\ Taken(f) = 0 /\ AfterFragment(f).left = 0
  BY <1>2, <1>3, <1>6, <1>7
<1>11. ASSUME f.remaining > 1 PROVE PlacedFEC(AfterFragment(f), len, k, count, room, red)
  <2>1. AfterFragment(f).remaining \in 1 .. count /\ count - AfterFragment(f).remaining = i + 1
    BY <1>2, <1>3, <1>7, <1>11
  <2>2. AfterFragment(f).left = IF i + 1 >= k THEN 0 ELSE len - (i + 1) * P
    BY <1>2, <1>8, <1>9, <1>10
  <2>3. Counting(AfterFragment(f), count)
    BY <1>2, <1>11, AfterCounting DEF PlacedFEC
  <2>4. AfterFragment(f).rest = len - (k - 1) * FullFEC(count, room)
    BY <1>7 DEF PlacedFEC
  <2> QED BY <1>1, <1>6, <1>7, <2>1, <2>2, <2>3, <2>4 DEF PlacedFEC
<1>12. \/ f.remaining - 1 = count - k
       \/ P = IF f.left = 0 THEN f.payload ELSE Taken(f)
  <2>1. PICK a \in Int : a = f.remaining
    BY <1>2
  <2>2. i = count - a /\ k \in Int
    BY <1>3, <2>1
  <2>3. i + 1 = k => a - 1 = count - k
    BY <2>2
  <2>4. i + 1 = k \/ i + 1 < k \/ i >= k
    OBVIOUS
  <2> QED BY <1>2, <1>8, <1>10, <2>1, <2>3, <2>4
<1>13. AfterFragment(f).blen = GetBasicHeaderLen(f.remaining - 1)
  BY <1>2, AfterCounting DEF PlacedFEC
<1> QED BY <1>1, <1>11, <1>12, <1>13

\* What init of the class with redundancy makes of an event.
LEMMA CutByInitFEC ==
  ASSUME NEW len \in Nat \ {0}, NEW mtu \in Nat, NEW eseq \in BOOLEAN, NEW red \in Nat
  PROVE  LET f == InitFEC(len, mtu, eseq, red)
             room == mtu - ExtHeader(eseq, TRUE)
         IN  \/ f = InitNoFEC(len, mtu - ExtHeader(eseq, FALSE)) /\ red = 0
             \/ f = Rejected
             \/ /\ f \in Frag /\ f.fec /\ ~f.err /\ red # 0
                /\ CutFEC(len, f.k, f.remaining, room, red)
                /\ PlacedFEC(f, len, f.k, f.remaining, room, red)
<1> DEFINE room       == mtu - ExtHeader(eseq, TRUE)
           payload(h) == Even(mtu - ExtHeader(eseq, TRUE) - h)
           k(h)       == DivRoundUp(len, payload(h))
           n(h)       == WithRedundancy(k(h), red)
           TooMany(h) == payload(h) > 0 /\ n(h) > MaxFragments(h)
           longest    == IF ~TooMany(1) THEN 1 ELSE IF ~TooMany(2) THEN 2 ELSE 3
           last       == IF longest > 1 /\ payload(longest) <= 0 THEN longest - 1 ELSE longest
           fec        == [Started(len, n(longest), longest, payload(longest)) EXCEPT
                           !.fec = TRUE, !.k = k(longest), !.red = red,
                           !.rest = ((len - 1) % payload(longest)) + 1]
           f          == InitFEC(len, mtu, eseq, red)
<1>1. \/ f = InitNoFEC(len, mtu - ExtHeader(eseq, FALSE)) /\ ~(payload(1) <= 0) /\ n(last) = k(last)
      \/ f = Rejected
      \/ f = fec /\ ~(payload(1) <= 0) /\ ~(payload(longest) <= 0) /\ n(last) # k(last)
  BY DEF InitFEC
<1>2. longest \in 1 .. 3
  OBVIOUS
<1>3. room \in Int
  BY DEF ExtHeader, SeqHeader, FECHeader
<1>4. \A h \in 1 .. 3 : payload(h) \in Int /\ payload(h) = Even(room - h)
  <2> TAKE h \in 1 .. 3
  <2>1. PICK x \in Int : x = room
    BY <1>3
  <2>2. x - h \in Int
    OBVIOUS
  <2>3. Even(x - h) \in Int
    BY <2>2, EvenFacts
  <2> QED BY <2>1, <2>3
<1>5. \A h \in 1 .. 3 : payload(h) > 0 => k(h) \in Nat \ {0} /\ n(h) \in Nat \ {0}
  <2> SUFFICES ASSUME NEW h \in 1 .. 3, payload(h) > 0 PROVE k(h) \in Nat \ {0} /\ n(h) \in Nat \ {0}
    OBVIOUS
  <2>1. PICK b \in Nat \ {0} : b = payload(h)
    <3> HIDE DEF payload
    <3> QED BY <1>4
  <2>2. k(h) = DivRoundUp(len, b)
    BY <2>1
  <2>3. k(h) \in Nat \ {0}
    <3>1. DivRoundUp(len, b) \in Nat \ {0}
      BY RoundsUp
    <3> HIDE DEF k
    <3> QED BY <2>2, <3>1
  <2>4. PICK x \in Nat \ {0} : x = k(h)
    BY <2>3
  <2>5. WithRedundancy(x, red) \in Nat /\ WithRedundancy(x, red) >= x
    BY Redundancy
  <2>6. n(h) = WithRedundancy(x, red)
    BY <2>4
  <2> HIDE DEF k, n
  <2> QED BY <2>3, <2>5, <2>6
<1>6. \A h \in 1 .. 2 : payload(h + 1) > 0 => payload(h) > 0 /\ n(h) <= n(h + 1)
  <2> SUFFICES ASSUME NEW h \in 1 .. 2, payload(h + 1) > 0 PROVE payload(h) > 0 /\ n(h) <= n(h + 1)
    OBVIOUS
  <2>1. PICK i \in 1 .. 3 : i = h + 1
    OBVIOUS
  <2>2. payload(h) \in Int /\ payload(i) \in Int /\ payload(i) <= payload(h) /\ payload(i) > 0
    <3> DEFINE x == room - i
               y == room - h
    <3>1. PICK z \in Int : z = room
      BY <1>3
    <3>2. z - i \in Int /\ z - h \in Int /\ z - i <= z - h
      BY <2>1
    <3>3. x \in Int /\ y \in Int /\ x <= y
      BY <3>1, <3>2
    <3>4. payload(i) = Even(x) /\ payload(h) = Even(y)
      BY <1>4
    <3>5. payload(i) > 0
      BY <2>1
    <3> HIDE DEF payload, x, y
    <3> QED BY <3>3, <3>4, <3>5, EvenFacts
  <2> HIDE DEF payload
  <2>3. k(h) <= k(i)
    BY <2>2, RoundsUpMonotone
  <2>4. k(h) \in Nat /\ k(i) \in Nat
    BY <1>5, <2>2
  <2> HIDE DEF k
  <2>5. n(h) <= n(i)
    BY <2>3, <2>4, Redundancy
  <2> QED BY <2>1, <2>2, <2>5
<1>8. ~(payload(1) <= 0) => (n(last) = k(last) <=> red = 0)
  <2> SUFFICES ASSUME ~(payload(1) <= 0) PROVE n(last) = k(last) <=> red = 0
    OBVIOUS
  <2>1. last \in 1 .. 3 /\ payload(last) > 0
    <3>1. CASE longest = 1
      <4>1. last = 1
        BY <3>1
      <4> HIDE DEF last, payload
      <4> QED BY <1>4, <4>1
    <3>2. CASE longest = 2
      <4>1. payload(1) > 0
        <5>1. TooMany(1)
          <6> HIDE DEF TooMany
          <6> QED BY <3>2
        <5> HIDE DEF n
        <5> QED BY <5>1
      <4>2. 2 > 1 /\ 2 - 1 = 1
        OBVIOUS
      <4>3. last = IF payload(2) <= 0 THEN 1 ELSE 2
        <5> HIDE DEF payload, longest
        <5> QED BY <3>2, <4>2
      <4> HIDE DEF last, payload, longest
      <4> QED BY <1>4, <4>1, <4>3
    <3>3. CASE longest = 3
      <4>1. payload(2) > 0
        <5>1. TooMany(2)
          <6> HIDE DEF TooMany
          <6> QED BY <3>3
        <5> HIDE DEF n
        <5> QED BY <5>1
      <4>2. 3 > 1 /\ 3 - 1 = 2
        OBVIOUS
      <4>3. last = IF payload(3) <= 0 THEN 2 ELSE 3
        <5> HIDE DEF payload, longest
        <5> QED BY <3>3, <4>2
      <4> HIDE DEF last, payload, longest
      <4> QED BY <1>4, <4>1, <4>3
    <3> QED BY <1>2, <3>1, <3>2, <3>3
  <2> HIDE DEF last, payload
  <2>2. k(last) \in Nat \ {0}
    <3> HIDE DEF k
    <3> QED BY <1>5, <2>1
  <2> HIDE DEF k
  <2> QED BY <2>2, NoRedundancy
<1>7. ASSUME f = fec, ~(payload(1) <= 0), ~(payload(longest) <= 0)
      PROVE  /\ f \in Frag /\ f.fec /\ ~f.err
             /\ CutFEC(len, f.k, f.remaining, room, red)
             /\ PlacedFEC(f, len, f.k, f.remaining, room, red)
  <2> HIDE DEF last
  <2>1. PICK ll \in 1 .. 3 : ll = longest
    <3> HIDE DEF longest
    <3> QED BY <1>2
  <2>2. PICK pay \in Nat \ {0} : pay = payload(ll)
    <3> HIDE DEF payload, longest
    <3> QED BY <1>4, <1>7, <2>1
  <2>3. PICK kk \in Nat \ {0} : kk = k(ll)
    <3> HIDE DEF payload, k
    <3> QED BY <1>5, <2>2
  <2>4. PICK nn \in Nat \ {0} : nn = n(ll)
    <3> HIDE DEF payload, n
    <3> QED BY <1>5, <2>2
  <2>5. nn = WithRedundancy(kk, red)
    BY <2>3, <2>4
  <2>6. kk * pay - len \in 0 .. pay - 1
    <3>1. kk = DivRoundUp(len, pay)
      BY <2>2, <2>3
    <3> QED BY <3>1, RoundsUp
  <2>7. GetBasicHeaderLen(nn - 1) = ll
    <3>1. /\ MaxFragments(1) \in Nat /\ MaxFragments(2) \in Nat /\ MaxFragments(1) < MaxFragments(2)
      BY MaxFragmentsGrow
    <3>2. \A h \in 1 .. 3 : payload(h) > 0 => n(h) \in Nat
      BY <1>5
    <3>3. payload(1) > 0 /\ payload(1) \in Int
      <4> HIDE DEF payload
      <4> QED BY <1>4, <1>7
    <3>4. /\ payload(2) > 0 => n(1) <= n(2)
          /\ payload(3) > 0 => n(2) <= n(3) /\ payload(2) > 0
      <4>1. 1 + 1 = 2 /\ 2 + 1 = 3
        OBVIOUS
      <4> HIDE DEF payload, n
      <4> QED BY <1>6, <4>1
    <3>5. CASE ll = 1
      <4>1. n(1) <= MaxFragments(1)
        <5> HIDE DEF payload, n
        <5> QED BY <2>1, <3>1, <3>2, <3>3, <3>5
      <4> HIDE DEF n
      <4> QED BY <2>4, <3>1, <3>5, <4>1 DEF GetBasicHeaderLen
    <3>6. CASE ll = 2
      <4>1. n(1) > MaxFragments(1) /\ n(2) <= MaxFragments(2) /\ n(1) <= n(2) /\ n(1) \in Nat
        <5> HIDE DEF payload, n
        <5> QED BY <2>1, <2>2, <3>1, <3>2, <3>3, <3>4, <3>6
      <4> HIDE DEF n
      <4> QED BY <2>4, <3>1, <3>6, <4>1 DEF GetBasicHeaderLen
    <3>7. CASE ll = 3
      <4>1. n(2) > MaxFragments(2) /\ n(2) <= n(3) /\ n(2) \in Nat
        <5> HIDE DEF payload, n
        <5> QED BY <2>1, <2>2, <3>1, <3>2, <3>3, <3>4, <3>7
      <4> HIDE DEF n
      <4> QED BY <2>4, <3>1, <3>7, <4>1 DEF GetBasicHeaderLen
    <3> QED BY <3>5, <3>6, <3>7
  <2>8. pay = FullFEC(nn, room)
    <3> HIDE DEF room, payload
    <3> QED BY <1>4, <2>2, <2>7 DEF FullFEC
  <2>9. PICK rest \in Int : rest = ((len - 1) % pay) + 1
    OBVIOUS
  <2>10. f = [Started(len, nn, ll, pay) EXCEPT !.fec = TRUE, !.k = kk, !.red = red, !.rest = rest]
    <3> HIDE DEF f, n, k, payload, longest
    <3> QED BY <1>7, <2>1, <2>2, <2>3, <2>4, <2>9
  <2>11. PICK g \in Frag : g = Started(len, nn, ll, pay) /\ g.remaining = nn /\ g.payload = pay
                            /\ g.left = len /\ ~g.err
    <3>1. len \in Int /\ nn \in Int /\ ll \in Int /\ pay \in Int
      OBVIOUS
    <3> HIDE DEF f, n, k, payload, longest, room, fec
    <3>2. Started(len, nn, ll, pay) \in Frag
      BY <3>1, StartedFields
    <3> QED BY <3>2 DEF Started
  <2> HIDE DEF f
  <2>12. f = [err |-> g.err, fec |-> TRUE, remaining |-> nn, shorten |-> g.shorten,
              blen |-> g.blen, payload |-> pay, first |-> g.first, at |-> g.at,
              left |-> len, k |-> kk, red |-> red, rest |-> rest]
    BY <2>10, <2>11 DEF Frag
  <2>13. f \in Frag /\ f.fec /\ ~f.err /\ f.k = kk /\ f.remaining = nn /\ f.red = red
         /\ f.payload = pay /\ f.left = len
    BY <2>11, <2>12 DEF Frag
  <2>20. Counting(f, nn) /\ f.rest = len - (kk - 1) * pay
    <3>1. g.shorten = NextShorten(nn - 1) /\ g.blen = ll /\ g.first
      BY <2>11 DEF Started
    <3>2. f.shorten = NextShorten(nn - 1) /\ f.blen = ll /\ f.first /\ f.rest = rest
      BY <2>12, <3>1
    <3>3. Counting(f, nn)
      BY <2>7, <2>13, <3>2 DEF Counting
    <3>4. (kk - 1) * pay \in Nat /\ kk * pay = (kk - 1) * pay + pay
      <4>1. kk - 1 \in Nat /\ kk * pay = (kk - 1) * pay + 1 * pay
        <5>1. kk = (kk - 1) + 1 /\ kk - 1 \in Int
          OBVIOUS
        <5> QED BY <5>1, MulSum
      <4> QED BY <4>1, MulNat
    <3>5. PICK x, y \in Nat : x = (kk - 1) * pay /\ y = kk * pay
      BY <3>4, MulNat
    <3>6. len - 1 - x \in 0 .. pay - 1
      BY <2>6, <3>4, <3>5
    <3>7. (len - 1) % pay = len - 1 - x
      <4>1. PICK z \in 0 .. pay - 1 : z = len - 1 - x
        BY <3>6
      <4>2. PICK q \in Nat : q = kk - 1
        OBVIOUS
      <4>3. PICK a : a = len - 1
        OBVIOUS
      <4>4. a = q * pay + z
        BY <3>5, <4>1, <4>2, <4>3
      <4>5. a % pay = z
        BY Zenon, <4>4, Remainder
      <4> QED BY <4>1, <4>3, <4>5
    <3> QED BY <2>9, <3>2, <3>3, <3>5, <3>7
  <2> HIDE DEF room
  <2>14. CutFEC(len, kk, nn, room, red)
    BY <2>5, <2>6, <2>8 DEF CutFEC
  <2>15. PlacedFEC(f, len, kk, nn, room, red)
    <3>1. nn - nn = 0 /\ ~(0 >= kk) /\ len - 0 * FullFEC(nn, room) = len
      BY <2>8
    <3> QED BY <2>8, <2>13, <2>20, <3>1 DEF PlacedFEC
  <2> QED BY <2>13, <2>14, <2>15
<1> QED BY <1>1, <1>7, <1>8

-----------------------------------------------------------------------------
(* The inductive invariant.                                                *)

\* no_ext_mtu of fragments without and with redundancy.
RoomFor(c, fec) == c.mtu - ExtHeader(c.eseq, fec)

\* Either all events have redundancy or none has.
HasFEC(c) == c.FEC /\ c.red # 0

\* An event that is cut into fragments, ...
IsCut(c, e) ==
    IF HasFEC(c) THEN CutFEC(e.len, e.k, e.count, RoomFor(c, TRUE), c.red)
                 ELSE e.k = 0 /\ Cut(e.len, e.count, RoomFor(c, FALSE))

\* ... and the fragmenter of it, which stands before one of them.
Stands(c, f, e) ==
    /\ IsCut(c, e)
    /\ f.fec <=> HasFEC(c)
    /\ IF f.fec THEN PlacedFEC(f, e.len, e.k, e.count, RoomFor(c, TRUE), c.red)
                ELSE Placed(f, e.len, e.count, RoomFor(c, FALSE))

\* A fragment is the part of its event that its number stands for.
PartFEC(c, f, e) ==
    /\ f.k = e.k /\ f.red = c.red /\ e.count = WithRedundancy(e.k, c.red)
    /\ f.rest = e.len - (e.k - 1) * FullFEC(e.count, RoomFor(c, TRUE))
    /\ f.len = FullFEC(e.count, RoomFor(c, TRUE)) \/ f.fseq = e.count - e.k
PartNoFEC(c, f, e) ==
    LET P(n) == GetPayload(n, RoomFor(c, FALSE))
    IN  /\ f.from = P(e.count) - P(f.fseq + 1)
        /\ f.len = IF f.fseq = 0 THEN e.len - f.from
                                 ELSE RoomFor(c, FALSE) - GetBasicHeaderLen(f.fseq)
PartOf(c, f, e) ==
    /\ IsCut(c, e)
    /\ f.fseq \in 0 .. e.count - 1
    /\ f.first <=> f.fseq = e.count - 1
    /\ f.blen = GetBasicHeaderLen(f.fseq)
    /\ f.fec <=> HasFEC(c)
    /\ IF f.fec THEN PartFEC(c, f, e) ELSE PartNoFEC(c, f, e)

PubEvent == [len : Nat \ {0}, count : Int, k : Nat, at : Nat]

TypeInv ==
    /\ conf \in Configs /\ now \in Nat
    /\ frag \in [Publishers -> Frag \cup {None}]
    /\ published \in [Publishers -> Seq(PubEvent)]

\* Events are published by the publishers of the configuration, as many as it has.
PublishedInv == \A p \in Publishers : /\ Len(published[p]) <= conf.events
                                      /\ published[p] # <<>> => p \in conf.pubs

\* A fragmenter is at work on the newest event.
PlacedInv == \A p \in Publishers : frag[p] # None =>
    Len(published[p]) > 0 /\ Stands(conf, frag[p], published[p][Len(published[p])])

\* Fragments on the network are parts of published events.
NetInv == \A f \in net : /\ f.src[1] \in Publishers /\ f.src[2] \in 1 .. Len(published[f.src[1]])
                         /\ PartOf(conf, f, EventOf(f.src))

CountInv == TypeInv /\ PublishedInv /\ PlacedInv /\ NetInv

LEMMA InitCounts == Init => CountInv
<1> SUFFICES ASSUME Init PROVE CountInv
  OBVIOUS
<1>1. TypeInv
  BY DEF Init, TypeInv
<1>2. PublishedInv
  <2>1. \A c \in Configs : c.events \in Nat
    <3>1. \A c \in Configs : c.events \in 0 .. MaxEvents
      BY TransferAssumption
    <3>2. MaxEvents \in Nat
      BY TransferAssumption
    <3> QED BY <3>1, <3>2
  <2> QED BY <2>1 DEF Init, PublishedInv
<1>3. PlacedInv /\ NetInv
  BY DEF Init, PlacedInv, NetInv
<1> QED BY <1>1, <1>2, <1>3 DEF CountInv

LEMMA ConfFacts ==
  ASSUME NEW c \in Configs
  PROVE  /\ c.mtu \in Nat /\ c.red \in Nat /\ c.eseq \in BOOLEAN
         /\ RoomFor(c, TRUE) \in Int /\ RoomFor(c, FALSE) \in Int
         /\ \A len \in c.lens : len \in Nat \ {0} /\ Fits(len, RoomFor(c, FALSE), 3)
         /\ c.pubs \subseteq Publishers /\ c.events \in Nat
<1>1. /\ c.mtu \in Nat /\ c.red \in Nat /\ c.eseq \in BOOLEAN
      /\ c.lens \subseteq {len \in Nat \ {0} : Fits(len, c.mtu - ExtHeader(c.eseq, FALSE), 3)}
      /\ c.pubs \subseteq Publishers /\ c.events \in 0 .. MaxEvents /\ MaxEvents \in Nat
  BY Zenon, TransferAssumption
<1>2. \A fec \in BOOLEAN : RoomFor(c, fec) \in Int
  BY <1>1 DEF RoomFor, ExtHeader, SeqHeader, FECHeader
<1>3. \A len \in c.lens : len \in Nat \ {0} /\ Fits(len, RoomFor(c, FALSE), 3)
  BY <1>1 DEF RoomFor
<1>4. c.events \in Nat
  BY <1>1
<1>5. RoomFor(c, TRUE) \in Int /\ RoomFor(c, FALSE) \in Int
  BY <1>2
<1> QED BY Zenon, <1>1, <1>3, <1>4, <1>5

\* Steps that make no fragments.
LEMMA OthersKeepCounts ==
  ASSUME CountInv, UNCHANGED <<conf, frag, published>>, net' \subseteq net, now' \in Nat
  PROVE  CountInv'
<1>1. TypeInv' /\ PublishedInv'
  BY DEF CountInv, TypeInv, PublishedInv
<1>2. PlacedInv'
  BY DEF CountInv, PlacedInv
<1>3. NetInv'
  BY DEF CountInv, NetInv, EventOf
<1> QED BY <1>1, <1>2, <1>3 DEF CountInv

\* The next place of a fragmenter, and the fragment it makes.
LEMMA StandsAndSends ==
  ASSUME NEW c \in Configs, NEW f \in Frag, NEW e \in PubEvent, Stands(c, f, e), NEW src
  PROVE  /\ f.remaining # 1 => Stands(c, AfterFragment(f), e)
         /\ PartOf(c, FragmentOf(f, src), e)
<1>1. RoomFor(c, FALSE) \in Int /\ RoomFor(c, TRUE) \in Int /\ c.red \in Nat
  BY ConfFacts
<1>2. e.len \in Nat \ {0} /\ e.count \in Int /\ e.k \in Nat
  BY DEF PubEvent
<1>3. /\ f.remaining \in Int /\ f.fec \in BOOLEAN /\ f.left \in Int
      /\ AfterFragment(f).fec = f.fec
  BY AfterFields DEF Frag
<1>4. f.remaining \in 1 .. e.count /\ (f.first <=> f.remaining = e.count)
  BY DEF Stands, PlacedFEC, Placed, Counting
<1> DEFINE g == FragmentOf(f, src)
<1>5. /\ g.fseq = f.remaining - 1 /\ g.blen = AfterFragment(f).blen /\ g.from = f.at
      /\ g.fec = f.fec /\ g.k = f.k /\ g.red = f.red /\ g.rest = f.rest /\ g.first = f.first
      /\ g.len = IF f.fec /\ f.left = 0 THEN f.payload ELSE Taken(f)
  BY DEF FragmentOf
<1> HIDE DEF g
<1>6. g.fseq \in 0 .. e.count - 1 /\ (g.first <=> g.fseq = e.count - 1)
  BY <1>2, <1>3, <1>4, <1>5
<1>7. CASE f.fec
  <2>1. HasFEC(c)
    BY <1>7 DEF Stands
  <2>2. PICK room \in Int : room = RoomFor(c, TRUE)
    BY <1>1
  <2>3. /\ CutFEC(e.len, e.k, e.count, room, c.red)
        /\ PlacedFEC(f, e.len, e.k, e.count, room, c.red)
    BY <1>7, <2>1, <2>2 DEF Stands, IsCut
  <2>4. /\ f.remaining > 1 => PlacedFEC(AfterFragment(f), e.len, e.k, e.count, room, c.red)
        /\ \/ f.remaining - 1 = e.count - e.k
           \/ FullFEC(e.count, room) = IF f.left = 0 THEN f.payload ELSE Taken(f)
        /\ AfterFragment(f).blen = GetBasicHeaderLen(f.remaining - 1)
    BY <1>1, <1>2, <1>7, <2>3, AfterPlacedFEC
  <2>5. f.remaining # 1 => f.remaining > 1
    BY <1>2, <1>3, <1>4
  <2>6. f.remaining # 1 => Stands(c, AfterFragment(f), e)
    BY <1>3, <1>7, <2>1, <2>2, <2>3, <2>4, <2>5 DEF Stands, IsCut
  <2>7. /\ f.k = e.k /\ f.red = c.red /\ e.count = WithRedundancy(e.k, c.red)
        /\ f.rest = e.len - (e.k - 1) * FullFEC(e.count, room)
    BY <2>3 DEF PlacedFEC, CutFEC
  <2>8. g.len = FullFEC(e.count, room) \/ g.fseq = e.count - e.k
    BY <1>5, <1>7, <2>4
  <2>9. PartFEC(c, g, e)
    BY <1>5, <2>2, <2>3, <2>7, <2>8 DEF PartFEC
  <2>10. g.blen = GetBasicHeaderLen(g.fseq)
    BY <1>5, <2>4
  <2> QED BY <1>5, <1>6, <1>7, <2>1, <2>6, <2>9, <2>10 DEF Stands, PartOf, g
<1>8. CASE ~f.fec
  <2>1. ~HasFEC(c)
    BY <1>8 DEF Stands
  <2>2. PICK room \in Int : room = RoomFor(c, FALSE)
    BY <1>1
  <2>3. e.k = 0 /\ Cut(e.len, e.count, room) /\ Placed(f, e.len, e.count, room)
    BY <1>8, <2>1, <2>2 DEF Stands, IsCut
  <2>4. PICK r \in Int : r = f.remaining - 1 /\ f.remaining = r + 1
    BY <1>3
  <2>5. /\ AfterFragment(f).blen = GetBasicHeaderLen(r)
        /\ Taken(f) = IF r = 0 THEN e.len - f.at ELSE room - GetBasicHeaderLen(r)
        /\ r > 0 => Placed(AfterFragment(f), e.len, e.count, room)
    <3>1. PICK l, n \in Int : l = e.len /\ n = e.count
      BY <1>2
    <3>2. Cut(l, n, room) /\ Placed(f, l, n, room) /\ r = f.remaining - 1
      BY <2>3, <2>4, <3>1
    <3>3. LET q == f.remaining - 1
          IN  /\ AfterFragment(f).blen = GetBasicHeaderLen(q)
              /\ Taken(f) = IF q = 0 THEN l - f.at ELSE room - GetBasicHeaderLen(q)
              /\ q > 0 => Placed(AfterFragment(f), l, n, room)
      BY <1>8, <3>2, AfterPlaced
    <3> QED BY <3>1, <3>2, <3>3
  <2>6. f.remaining # 1 => r > 0
    BY <1>2, <1>3, <1>4, <2>4
  <2>7. f.remaining # 1 => Stands(c, AfterFragment(f), e)
    BY <1>3, <1>8, <2>1, <2>2, <2>3, <2>5, <2>6 DEF Stands, IsCut
  <2>8. f.at = GetPayload(e.count, room) - GetPayload(r + 1, room)
    BY <2>3, <2>4 DEF Placed
  <2>9. g.fseq = r
    BY <1>5, <2>4
  <2>10. PartNoFEC(c, g, e)
    <3>2. g.from = GetPayload(e.count, room) - GetPayload(g.fseq + 1, room)
      BY <1>5, <2>8, <2>9
    <3>3. g.len = IF g.fseq = 0 THEN e.len - g.from ELSE room - GetBasicHeaderLen(g.fseq)
      BY <1>5, <1>8, <2>5, <2>9
    <3> QED BY <2>2, <3>2, <3>3 DEF PartNoFEC
  <2>11. g.blen = GetBasicHeaderLen(g.fseq)
    BY <1>5, <2>5, <2>9
  <2> QED BY <1>5, <1>6, <1>8, <2>1, <2>7, <2>10, <2>11 DEF Stands, PartOf, g
<1> QED BY <1>3, <1>7, <1>8

LEMMA SendKeepsCounts ==
  ASSUME CountInv, NEW p \in Publishers, SendFragment(p)
  PROVE  CountInv'
<1> DEFINE f == frag[p]
           src == <<p, Len(published[p])>>
           e == published[p][Len(published[p])]
           new == FragmentOf(f, src)
<1>1. /\ f # None /\ net' = net \cup {new}
      /\ frag' = [frag EXCEPT ![p] = IF f.remaining = 1 THEN None ELSE AfterFragment(f)]
      /\ UNCHANGED <<conf, published, now>>
  BY DEF SendFragment
<1>2. f \in Frag /\ e \in PubEvent /\ Len(published[p]) \in Nat \ {0} /\ conf \in Configs
  <2>1. f \in Frag /\ published[p] \in Seq(PubEvent) /\ conf \in Configs
    BY <1>1 DEF CountInv, TypeInv
  <2>2. Len(published[p]) \in Nat \ {0}
    BY <1>1, <2>1 DEF CountInv, PlacedInv
  <2> QED BY <2>1, <2>2
<1>3. Stands(conf, f, e)
  BY <1>1 DEF CountInv, PlacedInv
<1> HIDE DEF f, e, src
<1>4. /\ f.remaining # 1 => Stands(conf, AfterFragment(f), e)
      /\ PartOf(conf, new, e) /\ AfterFragment(f) \in Frag /\ new.src = src
  <2>1. AfterFragment(f) \in Frag
    BY <1>2, AfterFields
  <2>2. new.src = src
    BY DEF FragmentOf
  <2> QED BY <1>2, <1>3, <2>1, <2>2, StandsAndSends
<1> HIDE DEF new
<1>5. TypeInv' /\ PublishedInv'
  <2>1. frag' \in [Publishers -> Frag \cup {None}]
    BY <1>1, <1>4 DEF CountInv, TypeInv
  <2> QED BY <1>1, <2>1 DEF CountInv, TypeInv, PublishedInv
<1>6. PlacedInv'
  <2> SUFFICES ASSUME NEW q \in Publishers, frag'[q] # None
               PROVE  /\ Len(published[q]) > 0
                      /\ Stands(conf, frag'[q], published[q][Len(published[q])])
    BY <1>1 DEF PlacedInv
  <2>1. CASE q = p
    <3>1. frag'[p] = AfterFragment(f) /\ f.remaining # 1
      BY <1>1, <2>1 DEF CountInv, TypeInv
    <3> QED BY <1>2, <1>4, <2>1, <3>1 DEF e
  <2>2. CASE q # p
    <3>1. frag'[q] = frag[q]
      BY <1>1, <2>2 DEF CountInv, TypeInv
    <3> QED BY <3>1 DEF CountInv, PlacedInv
  <2> QED BY <2>1, <2>2
<1>7. NetInv'
  <2> SUFFICES ASSUME NEW g \in net'
               PROVE  /\ g.src[1] \in Publishers /\ g.src[2] \in 1 .. Len(published[g.src[1]])
                      /\ PartOf(conf, g, published[g.src[1]][g.src[2]])
    BY <1>1 DEF NetInv, EventOf
  <2>1. CASE g \in net
    BY <2>1 DEF CountInv, NetInv, EventOf
  <2>2. CASE g = new
    <3>1. g.src[1] = p /\ g.src[2] = Len(published[p])
      BY <1>4, <2>2 DEF src
    <3> QED BY <1>2, <1>4, <2>2, <3>1 DEF e
  <2> QED BY <1>1, <2>1, <2>2
<1> QED BY <1>5, <1>6, <1>7 DEF CountInv

\* The fragmenter that init makes of an event, or the one that rejects it.
LEMMA StandsAtFirst ==
  ASSUME NEW c \in Configs, NEW len \in c.lens, NEW at \in Nat, NEW f,
         f = IF c.FEC THEN InitFEC(len, c.mtu, c.eseq, c.red)
                      ELSE InitNoFEC(len, c.mtu - ExtHeader(c.eseq, FALSE))
  PROVE  LET e == [len |-> len, count |-> f.remaining, k |-> f.k, at |-> at]
         IN  f \in Frag /\ e \in PubEvent /\ IF f.err THEN f.remaining = 0 ELSE Stands(c, f, e)
<1>1. /\ c.mtu \in Nat /\ c.red \in Nat /\ c.eseq \in BOOLEAN
      /\ len \in Nat \ {0} /\ Fits(len, RoomFor(c, FALSE), 3)
  BY ConfFacts
<1>2. PICK room \in Int : room = RoomFor(c, FALSE) /\ Fits(len, room, 3)
  BY <1>1, ConfFacts
<1>3. PICK roomFEC \in Int : roomFEC = RoomFor(c, TRUE)
  BY ConfFacts
<1>4. \/ f = InitNoFEC(len, room) /\ ~HasFEC(c)
      \/ f = Rejected
      \/ /\ f \in Frag /\ f.fec /\ ~f.err /\ HasFEC(c)
         /\ CutFEC(len, f.k, f.remaining, roomFEC, c.red)
         /\ PlacedFEC(f, len, f.k, f.remaining, roomFEC, c.red)
  <2>1. CASE ~c.FEC
    BY <1>2, <2>1 DEF RoomFor, HasFEC
  <2>2. CASE c.FEC
    <3> DEFINE g == InitFEC(len, c.mtu, c.eseq, c.red)
               r == c.mtu - ExtHeader(c.eseq, TRUE)
    <3>1. f = g /\ r = roomFEC /\ c.mtu - ExtHeader(c.eseq, FALSE) = room
      BY <1>2, <1>3, <2>2 DEF RoomFor
    <3>2. \/ g = InitNoFEC(len, c.mtu - ExtHeader(c.eseq, FALSE)) /\ c.red = 0
          \/ g = Rejected
          \/ /\ g \in Frag /\ g.fec /\ ~g.err /\ c.red # 0
             /\ CutFEC(len, g.k, g.remaining, r, c.red)
             /\ PlacedFEC(g, len, g.k, g.remaining, r, c.red)
      BY <1>1, CutByInitFEC
    <3> HIDE DEF g, r
    <3> QED BY <2>2, <3>1, <3>2 DEF HasFEC
  <2> QED BY <2>1, <2>2
<1>5. Rejected \in Frag /\ Rejected.err /\ Rejected.k = 0 /\ Rejected.remaining = 0 /\ ~Rejected.fec
  BY DEF Rejected, Frag
<1>6. ASSUME f = InitNoFEC(len, room), ~f.err
      PROVE  f \in Frag /\ ~f.fec /\ f.k = 0 /\ Cut(len, f.remaining, room) /\ Placed(f, len, f.remaining, room)
  <2>1. PICK count \in Nat : /\ Cut(len, count, room)
                             /\ f = Started(len, count, GetBasicHeaderLen(count - 1),
                                            room - GetBasicHeaderLen(count - 1))
    BY <1>1, <1>2, <1>6, CutByInit
  <2>2. Placed(f, len, count, room)
    <3>1. len \in Int
      BY <1>1
    <3> QED BY <2>1, <3>1, StartedPlaced
  <2>3. GetBasicHeaderLen(count - 1) \in Int
    <3>1. count - 1 \in Nat
      BY <2>1 DEF Cut
    <3> QED BY <3>1, HeaderLengths
  <2>4. PICK b \in Int : b = GetBasicHeaderLen(count - 1)
    BY <2>3
  <2>5. PICK q \in Int : q = room - GetBasicHeaderLen(count - 1)
    BY <2>3
  <2>6. f = Started(len, count, b, q)
    BY <2>1, <2>4, <2>5
  <2>7. len \in Int /\ count \in Int
    BY <1>1
  <2>8. f \in Frag /\ f.remaining = count /\ ~f.fec /\ f.k = 0
    <3>1. PICK g : g = Started(len, count, b, q)
      OBVIOUS
    <3>2. g.remaining = count /\ ~g.fec /\ g.k = 0
      BY <3>1 DEF Started
    <3>3. Started(len, count, b, q) \in Frag
      BY <2>7, StartedFields
    <3> QED BY <2>6, <3>1, <3>2, <3>3
  <2> QED BY <2>1, <2>2, <2>8
<1>7. f = InitNoFEC(len, room) /\ f.err => f = Rejected
  <2>1. \A n, h, q : ~Started(len, n, h, q).err
    BY DEF Started
  <2>2. InitNoFEC(len, room) = Rejected \/ \E n, h, q : InitNoFEC(len, room) = Started(len, n, h, q)
    BY Zenon DEF InitNoFEC
  <2> QED BY <2>1, <2>2
<1>8. f \in Frag /\ f.k \in Nat
  <2>1. CASE f \in Frag /\ f.fec /\ CutFEC(len, f.k, f.remaining, roomFEC, c.red)
    BY <2>1 DEF CutFEC
  <2>2. CASE f = Rejected
    <3>1. f \in Frag
      BY <1>5, <2>2
    <3>2. f.k = 0
      BY <1>5, <2>2
    <3>3. 0 \in Nat
      OBVIOUS
    <3> QED BY Zenon, <3>1, <3>2, <3>3
  <2>3. CASE f = InitNoFEC(len, room) /\ ~f.err
    <3>1. f \in Frag
      BY <1>6, <2>3
    <3>2. f.k = 0
      BY <1>6, <2>3
    <3>3. 0 \in Nat
      OBVIOUS
    <3> QED BY Zenon, <3>1, <3>2, <3>3
  <2> QED BY <1>4, <1>7, <2>1, <2>2, <2>3
<1> DEFINE e == [len |-> len, count |-> f.remaining, k |-> f.k, at |-> at]
<1>9. e.len = len /\ e.count = f.remaining /\ e.k = f.k
  OBVIOUS
<1>10. e \in PubEvent
  <2>1. f.remaining \in Int
    BY <1>8 DEF Frag
  <2> QED BY <1>1, <1>8, <2>1 DEF PubEvent
<1> HIDE DEF e
<1>11. ASSUME ~f.err PROVE Stands(c, f, e)
  <2>1. CASE f = InitNoFEC(len, room)
    <3>1. ~HasFEC(c)
      BY <1>4, <1>5, <1>6, <1>11, <2>1
    <3> QED BY <1>2, <1>6, <1>9, <1>11, <2>1, <3>1 DEF Stands, IsCut
  <2>2. CASE f # InitNoFEC(len, room)
    BY <1>3, <1>4, <1>5, <1>9, <1>11, <2>2 DEF Stands, IsCut
  <2> QED BY <2>1, <2>2
<1>12. f.err => f.remaining = 0
  BY <1>4, <1>5, <1>7
<1> QED BY <1>8, <1>10, <1>11, <1>12 DEF e

LEMMA PublishKeepsCounts ==
  ASSUME CountInv, NEW p \in Publishers, NEW len \in conf.lens, Publish(p, len)
  PROVE  CountInv'
<1> DEFINE f == IF conf.FEC THEN InitFEC(len, conf.mtu, conf.eseq, conf.red)
                            ELSE InitNoFEC(len, conf.mtu - ExtHeader(conf.eseq, FALSE))
           e == [len |-> len, count |-> f.remaining, k |-> f.k, at |-> now]
           n == Len(published[p])
<1>1. /\ published' = [published EXCEPT ![p] = Append(@, e)]
      /\ frag' = [frag EXCEPT ![p] = IF f.err THEN None ELSE f]
      /\ UNCHANGED <<conf, net, now>>
      /\ p \in conf.pubs /\ n < conf.events
  BY DEF Publish
<1>2. conf \in Configs /\ now \in Nat /\ conf.events \in Nat
  <2>1. conf \in Configs /\ now \in Nat
    BY DEF CountInv, TypeInv
  <2> QED BY <2>1, ConfFacts
<1>3. f \in Frag /\ e \in PubEvent /\ IF f.err THEN f.remaining = 0 ELSE Stands(conf, f, e)
  BY <1>2, StandsAtFirst
<1>4. published[p] \in Seq(PubEvent) /\ n \in Nat
  BY DEF CountInv, TypeInv
<1> HIDE DEF f, e
<1>5. /\ Append(published[p], e) \in Seq(PubEvent)
      /\ Len(Append(published[p], e)) = n + 1
      /\ Append(published[p], e)[n + 1] = e
      /\ \A i \in 1 .. n : Append(published[p], e)[i] = published[p][i]
  BY <1>3, <1>4
<1>6. /\ \A q \in Publishers \ {p} : published'[q] = published[q] /\ frag'[q] = frag[q]
      /\ published'[p] = Append(published[p], e)
      /\ frag'[p] = IF f.err THEN None ELSE f
  BY <1>1 DEF CountInv, TypeInv
<1>7. TypeInv' /\ PublishedInv'
  <2>1. published' \in [Publishers -> Seq(PubEvent)]
    BY <1>1, <1>5 DEF CountInv, TypeInv
  <2>2. frag' \in [Publishers -> Frag \cup {None}]
    BY <1>1, <1>3 DEF CountInv, TypeInv
  <2>3. PublishedInv'
    <3> SUFFICES ASSUME NEW q \in Publishers
                 PROVE  Len(published'[q]) <= conf.events /\ (published'[q] # <<>> => q \in conf.pubs)
      BY <1>1 DEF PublishedInv
    <3>1. CASE q = p
      BY <1>1, <1>2, <1>4, <1>5, <1>6, <3>1
    <3>2. CASE q # p
      BY <1>6, <3>2 DEF CountInv, PublishedInv
    <3> QED BY <3>1, <3>2
  <2> QED BY <1>1, <2>1, <2>2, <2>3 DEF CountInv, TypeInv
<1>8. PlacedInv'
  <2> SUFFICES ASSUME NEW q \in Publishers, frag'[q] # None
               PROVE  /\ Len(published'[q]) > 0
                      /\ Stands(conf, frag'[q], published'[q][Len(published'[q])])
    BY <1>1 DEF PlacedInv
  <2>1. CASE q = p
    <3>1. frag'[p] = f /\ ~f.err
      BY <1>6, <2>1
    <3> QED BY <1>3, <1>4, <1>5, <1>6, <2>1, <3>1
  <2>2. CASE q # p
    BY <1>6, <2>2 DEF CountInv, PlacedInv
  <2> QED BY <2>1, <2>2
<1>9. NetInv'
  <2> SUFFICES ASSUME NEW g \in net
               PROVE  /\ g.src[1] \in Publishers /\ g.src[2] \in 1 .. Len(published'[g.src[1]])
                      /\ PartOf(conf, g, published'[g.src[1]][g.src[2]])
    BY <1>1 DEF NetInv, EventOf
  <2>1. /\ g.src[1] \in Publishers /\ g.src[2] \in 1 .. Len(published[g.src[1]])
        /\ PartOf(conf, g, published[g.src[1]][g.src[2]])
    BY DEF CountInv, NetInv, EventOf
  <2>2. CASE g.src[1] = p
    <3>1. /\ g.src[2] \in 1 .. Len(published'[p])
          /\ published'[p][g.src[2]] = published[p][g.src[2]]
      BY <1>4, <1>5, <1>6, <2>1, <2>2
    <3> QED BY <2>1, <2>2, <3>1
  <2>3. CASE g.src[1] # p
    BY <1>6, <2>1, <2>3
  <2> QED BY <2>2, <2>3
<1> QED BY <1>7, <1>8, <1>9 DEF CountInv

LEMMA NextKeepsCounts == ASSUME CountInv, [Next]_vars PROVE CountInv'
<1> DEFINE Quiet == UNCHANGED <<conf, frag, published>> /\ net' \subseteq net /\ now' \in Nat
<1>1. now \in Nat
  BY DEF CountInv, TypeInv
<1>2. ASSUME NEW f \in net, NEW again \in BOOLEAN, Arrives(f, again) PROVE net' \subseteq net
  BY <1>2 DEF Arrives
<1>3. ASSUME NEW f \in net, NEW again \in BOOLEAN, NEW cleans \in BOOLEAN,
             DropFragment(f, again) \/ ProcessFragment(f, again, cleans)
      PROVE  Quiet
  BY <1>1, <1>2, <1>3 DEF DropFragment, ProcessFragment
<1>4. ASSUME NEW f \in net, LoseFragment(f) PROVE Quiet
  BY <1>1, <1>4 DEF LoseFragment
<1>5. ASSUME EventProcessed \/ KeepEvent \/ \E d \in kept : KeptEventProcessed(d) PROVE Quiet
  BY <1>1, <1>5 DEF EventProcessed, KeepEvent, KeptEventProcessed
<1>6. ASSUME Tick PROVE Quiet
  BY <1>1, <1>6 DEF Tick
<1>7. ASSUME UNCHANGED vars PROVE Quiet
  BY <1>1, <1>7 DEF vars
<1>8. Quiet => CountInv'
  BY OthersKeepCounts
<1> HIDE DEF Quiet
<1>9. CASE \E p \in Publishers : (\E len \in conf.lens : Publish(p, len)) \/ SendFragment(p)
  BY <1>9, PublishKeepsCounts, SendKeepsCounts
<1> QED BY <1>3, <1>4, <1>5, <1>6, <1>7, <1>8, <1>9 DEF Next

LEMMA CountInvariant == Spec => []CountInv
<1>1. CountInv /\ [Next]_vars => CountInv'
  BY NextKeepsCounts
<1> QED BY <1>1, InitCounts, PTL DEF Spec

-----------------------------------------------------------------------------
(* The demultiplexer.                                                      *)

IsDef(d) == "room" \in DOMAIN d
IsEntry(e) == /\ e = [def |-> e.def, outdated |-> e.outdated, expire |-> e.expire]
              /\ e.outdated \in BOOLEAN
IsDemux(d) ==
    /\ d = [events |-> d.events, outdated |-> d.outdated]
    /\ d.events = [k \in DOMAIN d.events |-> d.events[k]]
    /\ \A k \in DOMAIN d.events : IsEntry(d.events[k])
    /\ d.outdated \in Seq(DOMAIN d.events)

\* The queue has the keys of outdated events, each once.
QueueOK(d) ==
    /\ \A i \in DOMAIN d.outdated : d.events[d.outdated[i]].outdated
    /\ \A i, j \in DOMAIN d.outdated : d.outdated[i] = d.outdated[j] => i = j

\* The room of the fragments, and of the defragmenters made for them.
RoomOf(c) == RoomFor(c, HasFEC(c))

\* Only the events in open are complete.
EntryOK(c, kind, k, e, open) ==
    /\ k \in Keys(c)
    /\ IF e.outdated
       THEN c.eseq
       ELSE IsDef(e.def) /\ e.def.room \in {0, RoomOf(c)} /\ (Complete(kind, e.def) => k \in open)

DemuxOK(c, kind, d, open) ==
    /\ IsDemux(d) /\ QueueOK(d)
    /\ \A k \in DOMAIN d.events : EntryOK(c, kind, k, d.events[k], open)

\* Some places of a queue have a first one.
LEMMA LeastOf ==
  ASSUME NEW T \in SUBSET Nat, T # {}
  PROVE  \E x \in T : \A y \in T : x <= y
<1> DEFINE R == {p \in Nat \X Nat : p[1] < p[2]}
<1>1. IsWellFoundedOn(R, Nat)
  BY NatLessThanWellFounded DEF OpToRel
<1>2. PICK x \in T : \A y \in T : <<y, x>> \notin R
  <2> HIDE DEF R
  <2> QED BY <1>1, WFMin, Zenon
<1>3. \A y \in T : x <= y
  <2> TAKE y \in T
  <2>1. x \in Nat /\ y \in Nat /\ <<y, x>> \notin R
    BY <1>2
  <2> QED BY <2>1
<1> QED BY <1>3

\* What expired is a part at the front of the queue.
LEMMA ExpiredInFront ==
  ASSUME NEW d, NEW t, NEW n \in Nat, DOMAIN d.outdated = 1 .. n
  PROVE  \E m \in 0 .. n : Expired(d, t) = 1 .. m /\ Cardinality(Expired(d, t)) = m
<1> DEFINE E == Expired(d, t)
           S == {i \in Nat : i # 0 /\ i \notin E}
<1>1. E \subseteq 1 .. n
  BY DEF Expired
<1>2. n + 1 \in S
  BY <1>1
<1>3. \A i \in E : \A j \in 1 .. i : j \in E
  <2> TAKE i \in E
  <2> TAKE j \in 1 .. i
  <2>1. j \in 1 .. n /\ \A x \in 1 .. j : x \in 1 .. i
    BY <1>1
  <2>2. \A x \in 1 .. j : d.events[d.outdated[x]].expire < t
    BY <2>1 DEF Expired
  <2> QED BY <2>1, <2>2 DEF Expired
<1> HIDE DEF E
<1>4. PICK l \in S : \A y \in S : l <= y
  <2>1. S \in SUBSET Nat /\ S # {}
    BY <1>2
  <2> HIDE DEF S
  <2> QED BY <2>1, LeastOf
<1>5. E = 1 .. l - 1
  <2>1. ASSUME NEW i \in 1 .. l - 1 PROVE i \in E
    <3>1. i \in Nat /\ i # 0 /\ ~(l <= i)
      BY <2>1
    <3> QED BY <1>4, <3>1
  <2>2. ASSUME NEW i \in E PROVE i \in 1 .. l - 1
    <3>1. i \in 1 .. n /\ l \in Nat /\ l # 0 /\ l \notin E
      BY <1>1, <1>4
    <3>2. ~(l <= i)
      BY <1>3, <3>1
    <3> QED BY <3>1, <3>2
  <2> QED BY <2>1, <2>2
<1>6. l - 1 \in 0 .. n
  BY <1>2, <1>4
<1>7. PICK m \in 0 .. n : m = l - 1
  BY <1>6
<1>8. Cardinality(1 .. m) = m
  BY FS_Interval
<1> QED BY <1>5, <1>7, <1>8 DEF E

\* The cleaning of the queue forgets outdated events only.
LEMMA CleanKeeps ==
  ASSUME NEW c, NEW kind, NEW d, NEW open, NEW t, DemuxOK(c, kind, d, open),
         NEW e, e = CleanOutdated(d, t)
  PROVE  /\ DemuxOK(c, kind, e, open)
         /\ \A k \in DOMAIN e.events : k \in DOMAIN d.events /\ e.events[k] = d.events[k]
         /\ \A k \in DOMAIN d.events : ~d.events[k].outdated => k \in DOMAIN e.events
<1> DEFINE n == Len(d.outdated)
<1>1. /\ d.outdated \in Seq(DOMAIN d.events) /\ n \in Nat /\ DOMAIN d.outdated = 1 .. n
      /\ \A i \in 1 .. n : d.outdated[i] \in DOMAIN d.events
  BY DEF DemuxOK, IsDemux
<1>2. PICK m \in 0 .. n : Expired(d, t) = 1 .. m /\ Cardinality(Expired(d, t)) = m
  BY <1>1, ExpiredInFront
<1> DEFINE gone == {d.outdated[i] : i \in 1 .. m}
           D == DOMAIN d.events \ gone
           q == SubSeq(d.outdated, m + 1, n)
<1>3. e = [events |-> [k \in D |-> d.events[k]], outdated |-> q]
  BY <1>2 DEF CleanOutdated, Without
<1>4. e.events = [k \in D |-> d.events[k]] /\ e.outdated = q
  BY <1>3
<1>5. \A i \in m + 1 .. n : d.outdated[i] \in D
  <2> TAKE i \in m + 1 .. n
  <2>1. \A j \in 1 .. m : d.outdated[j] # d.outdated[i]
    BY <1>1 DEF DemuxOK, QueueOK
  <2> QED BY <1>1, <2>1
<1>6. q \in Seq(D) /\ Len(q) = n - m /\ \A i \in 1 .. n - m : q[i] = d.outdated[m + i]
  <2>1. m + 1 \in Int /\ n \in Int
    BY <1>1
  <2> HIDE DEF D
  <2>2. /\ q \in Seq(D) /\ Len(q) = IF m + 1 <= n THEN n - (m + 1) + 1 ELSE 0
        /\ \A i \in 1 .. n - (m + 1) + 1 : q[i] = d.outdated[(m + 1) + i - 1]
    BY <1>5, <2>1, SubSeqProperties
  <2> HIDE DEF q
  <2>3. Len(q) = n - m
    BY <1>1, <2>2
  <2>4. ASSUME NEW i \in 1 .. n - m PROVE q[i] = d.outdated[m + i]
    <3>1. i \in 1 .. n - (m + 1) + 1 /\ (m + 1) + i - 1 = m + i
      BY <1>1
    <3> QED BY <2>2, <3>1
  <2> QED BY <2>2, <2>3, <2>4
<1> HIDE DEF q, gone
<1>7. DOMAIN e.events = D /\ DOMAIN e.outdated = 1 .. n - m /\ \A k \in D : e.events[k] = d.events[k]
  BY <1>4, <1>6
<1>8. IsDemux(e)
  <2>1. \A k \in D : IsEntry(d.events[k])
    BY DEF DemuxOK, IsDemux
  <2> HIDE DEF D
  <2> QED BY <1>3, <1>4, <1>6, <1>7, <2>1 DEF IsDemux
<1>9. QueueOK(e)
  <2>1. \A i \in 1 .. n - m : m + i \in 1 .. n /\ e.outdated[i] = d.outdated[m + i] /\ d.outdated[m + i] \in D
    BY <1>1, <1>4, <1>5, <1>6
  <2>2. ASSUME NEW i \in 1 .. n - m PROVE e.events[e.outdated[i]].outdated
    <3>1. PICK j \in 1 .. n : j = m + i
      BY <2>1
    <3>2. d.events[d.outdated[j]].outdated
      BY <1>1 DEF DemuxOK, QueueOK
    <3> QED BY <1>7, <2>1, <3>1, <3>2
  <2>3. ASSUME NEW i \in 1 .. n - m, NEW j \in 1 .. n - m, e.outdated[i] = e.outdated[j] PROVE i = j
    <3>1. PICK a \in 1 .. n : a = m + i
      BY <2>1
    <3>2. PICK b \in 1 .. n : b = m + j
      BY <2>1
    <3>3. d.outdated[a] = d.outdated[b]
      BY <2>1, <2>3, <3>1, <3>2
    <3>4. a = b
      BY <1>1, <3>3 DEF DemuxOK, QueueOK
    <3> QED BY <3>1, <3>2, <3>4
  <2> QED BY <1>7, <2>2, <2>3 DEF QueueOK
<1>10. DemuxOK(c, kind, e, open)
  <2>1. ASSUME NEW k \in D PROVE EntryOK(c, kind, k, e.events[k], open)
    BY <1>7, <2>1 DEF DemuxOK
  <2> QED BY <1>7, <1>8, <1>9, <2>1 DEF DemuxOK
<1>11. ASSUME NEW k \in DOMAIN d.events, ~d.events[k].outdated PROVE k \in D
  <2>1. \A i \in 1 .. m : d.events[d.outdated[i]].outdated
    BY <1>1 DEF DemuxOK, QueueOK
  <2> QED BY <1>11, <2>1 DEF gone
<1> QED BY <1>7, <1>10, <1>11

\* An event that is not outdated goes.
LEMMA RemoveKeeps ==
  ASSUME NEW c, NEW kind, NEW d, NEW open, NEW rest, NEW K, DemuxOK(c, kind, d, open),
         \A k \in K : k \in DOMAIN d.events => ~d.events[k].outdated,
         open \ K \subseteq rest,
         NEW e, e = [events |-> Without(d.events, K), outdated |-> d.outdated]
  PROVE  /\ DemuxOK(c, kind, e, rest)
         /\ DOMAIN e.events = DOMAIN d.events \ K
         /\ \A k \in DOMAIN e.events : e.events[k] = d.events[k]
<1> DEFINE D == DOMAIN d.events \ K
<1>1. /\ e = [events |-> e.events, outdated |-> e.outdated]
      /\ e.events = [k \in D |-> d.events[k]] /\ e.outdated = d.outdated
  BY DEF Without
<1>2. DOMAIN e.events = D /\ \A k \in D : e.events[k] = d.events[k]
  BY <1>1
<1>3. /\ d.outdated \in Seq(DOMAIN d.events)
      /\ \A i \in DOMAIN d.outdated : d.outdated[i] \in DOMAIN d.events
      /\ \A k \in DOMAIN d.events : IsEntry(d.events[k])
  BY DEF DemuxOK, IsDemux
<1>4. \A i \in DOMAIN d.outdated : d.outdated[i] \in D
  BY <1>3 DEF DemuxOK, QueueOK
<1>5. d.outdated \in Seq(D)
  <2> HIDE DEF D
  <2> QED BY <1>3, <1>4
<1>6. IsDemux(e)
  <2>1. \A k \in D : IsEntry(d.events[k])
    BY <1>3
  <2> HIDE DEF D
  <2> QED BY <1>1, <1>2, <1>5, <2>1 DEF IsDemux
<1>7. QueueOK(e)
  BY <1>1, <1>2, <1>4 DEF DemuxOK, QueueOK
<1>8. ASSUME NEW k \in D PROVE EntryOK(c, kind, k, e.events[k], rest)
  <2>1. EntryOK(c, kind, k, d.events[k], open) /\ (k \in open => k \in rest)
    BY DEF DemuxOK
  <2> QED BY <1>2, <2>1 DEF EntryOK
<1> QED BY <1>2, <1>6, <1>7, <1>8 DEF DemuxOK

\* An event comes, or its entry changes.
LEMMA AddKeeps ==
  ASSUME NEW c, NEW kind, NEW d, NEW open, NEW rest, NEW key, NEW x, DemuxOK(c, kind, d, open),
         key \in DOMAIN d.events => ~d.events[key].outdated,
         IsEntry(x), EntryOK(c, kind, key, x, rest), open \ {key} \subseteq rest,
         NEW e, e = [events |-> With(d.events, key, x), outdated |-> d.outdated]
  PROVE  /\ DemuxOK(c, kind, e, rest)
         /\ DOMAIN e.events = DOMAIN d.events \cup {key}
         /\ e.events[key] = x
<1> DEFINE D == DOMAIN d.events \cup {key}
<1>1. /\ e = [events |-> e.events, outdated |-> e.outdated]
      /\ e.events = [k \in D |-> IF k = key THEN x ELSE d.events[k]] /\ e.outdated = d.outdated
  BY DEF With
<1>2. DOMAIN e.events = D /\ e.events[key] = x /\ \A k \in D \ {key} : e.events[k] = d.events[k]
  BY <1>1
<1>3. /\ d.outdated \in Seq(DOMAIN d.events)
      /\ \A i \in DOMAIN d.outdated : d.outdated[i] \in DOMAIN d.events
      /\ \A k \in DOMAIN d.events : IsEntry(d.events[k])
  BY DEF DemuxOK, IsDemux
<1>4. \A i \in DOMAIN d.outdated : d.outdated[i] \in D \ {key}
  BY <1>3 DEF DemuxOK, QueueOK
<1>5. d.outdated \in Seq(D)
  <2> HIDE DEF D
  <2> QED BY <1>3, <1>4
<1>6. IsDemux(e)
  <2>1. \A k \in D : IsEntry(e.events[k])
    BY <1>2, <1>3
  <2>2. e.events = [k \in D |-> e.events[k]]
    BY <1>1
  <2> HIDE DEF D
  <2> QED BY <1>1, <1>2, <1>5, <2>1, <2>2 DEF IsDemux
<1>7. QueueOK(e)
  BY <1>1, <1>2, <1>4 DEF DemuxOK, QueueOK
<1>8. ASSUME NEW k \in D PROVE EntryOK(c, kind, k, e.events[k], rest)
  <2>1. CASE k = key
    BY <1>2, <2>1
  <2>2. CASE k # key
    <3>1. EntryOK(c, kind, k, d.events[k], open) /\ (k \in open => k \in rest)
      BY <2>2 DEF DemuxOK
    <3> QED BY <1>2, <2>2, <3>1 DEF EntryOK
  <2> QED BY <2>1, <2>2
<1> QED BY <1>2, <1>6, <1>7, <1>8 DEF DemuxOK

\* An event becomes outdated, and its key the last of the queue.
LEMMA OutdateKeeps ==
  ASSUME NEW c, NEW kind, NEW d, NEW open, NEW rest, NEW key, NEW x, DemuxOK(c, kind, d, open),
         key \in DOMAIN d.events, ~d.events[key].outdated, c.eseq,
         IsEntry(x), x.outdated, open \ {key} \subseteq rest,
         NEW e, e = [events |-> With(d.events, key, x), outdated |-> Append(d.outdated, key)]
  PROVE  DemuxOK(c, kind, e, rest)
<1> DEFINE D == DOMAIN d.events
           n == Len(d.outdated)
<1>1. /\ e = [events |-> e.events, outdated |-> e.outdated]
      /\ e.events = [k \in D |-> IF k = key THEN x ELSE d.events[k]]
      /\ e.outdated = Append(d.outdated, key)
  BY DEF With
<1>2. /\ d.outdated \in Seq(D) /\ n \in Nat /\ DOMAIN d.outdated = 1 .. n
      /\ \A i \in 1 .. n : d.outdated[i] \in D
      /\ \A k \in D : IsEntry(d.events[k])
  BY DEF DemuxOK, IsDemux
<1>3. DOMAIN e.events = D /\ e.events[key] = x /\ \A k \in D \ {key} : e.events[k] = d.events[k]
  BY <1>1
<1>4. /\ e.outdated \in Seq(D) /\ DOMAIN e.outdated = 1 .. n + 1 /\ e.outdated[n + 1] = key
      /\ \A i \in 1 .. n : e.outdated[i] = d.outdated[i] /\ d.outdated[i] # key
  <2>1. \A i \in 1 .. n : d.outdated[i] # key
    BY <1>2 DEF DemuxOK, QueueOK
  <2>2. key \in D
    OBVIOUS
  <2> HIDE DEF D
  <2>3. PICK q \in Seq(D) : q = d.outdated /\ Len(q) = n /\ DOMAIN q = 1 .. n
    BY <1>2
  <2>4. /\ Append(q, key) \in Seq(D) /\ Len(Append(q, key)) = n + 1 /\ Append(q, key)[n + 1] = key
        /\ \A i \in 1 .. n : Append(q, key)[i] = q[i]
    <3> HIDE DEF n
    <3> QED BY <2>2, <2>3
  <2>5. DOMAIN Append(q, key) = 1 .. n + 1
    BY <2>4
  <2>6. e.outdated = Append(q, key)
    BY <1>1, <2>3
  <2> HIDE DEF n
  <2> QED BY <2>1, <2>3, <2>4, <2>5, <2>6
<1>5. IsDemux(e)
  <2>1. \A k \in D : IsEntry(e.events[k])
    BY <1>2, <1>3
  <2>2. e.events = [k \in D |-> e.events[k]]
    BY <1>1
  <2> HIDE DEF D
  <2> QED BY <1>1, <1>3, <1>4, <2>1, <2>2 DEF IsDemux
<1>6. QueueOK(e)
  <2>1. \A i \in 1 .. n : d.events[d.outdated[i]].outdated
    BY <1>2 DEF DemuxOK, QueueOK
  <2>2. \A i \in 1 .. n + 1 : e.events[e.outdated[i]].outdated
    <3> TAKE i \in 1 .. n + 1
    <3>1. CASE i = n + 1
      BY <1>3, <1>4, <3>1
    <3>2. CASE i \in 1 .. n
      BY <1>2, <1>3, <1>4, <2>1, <3>2
    <3> QED BY <1>2, <3>1, <3>2
  <2>3. \A i, j \in 1 .. n : d.outdated[i] = d.outdated[j] => i = j
    BY <1>2 DEF DemuxOK, QueueOK
  <2>4. \A i, j \in 1 .. n + 1 : e.outdated[i] = e.outdated[j] => i = j
    <3> TAKE i, j \in 1 .. n + 1
    <3>1. (i = n + 1 \/ i \in 1 .. n) /\ (j = n + 1 \/ j \in 1 .. n)
      BY <1>2
    <3> QED BY <1>4, <2>3, <3>1
  <2> QED BY <1>4, <2>2, <2>4 DEF QueueOK
<1>7. ASSUME NEW k \in D PROVE EntryOK(c, kind, k, e.events[k], rest)
  <2>1. EntryOK(c, kind, k, d.events[k], open)
    BY DEF DemuxOK
  <2>2. CASE k = key
    BY <1>3, <2>1, <2>2 DEF EntryOK
  <2>3. CASE k # key
    BY <1>3, <2>1, <2>3 DEF EntryOK
  <2> QED BY <2>2, <2>3
<1> QED BY <1>3, <1>5, <1>6, <1>7 DEF DemuxOK

-----------------------------------------------------------------------------
(* The operations of the demultiplexer.                                    *)

Receiving(d, open) == DemuxOK(conf, Kind, d, open)

\* The queue has room for the key of an event that is not outdated.
LEMMA QueueHasRoom ==
  ASSUME NEW d, NEW open, Receiving(d, open), Suited(conf), conf \in Configs, conf.eseq,
         NEW key \in DOMAIN d.events, ~d.events[key].outdated
  PROVE  ~QueueFull(d)
<1> SUFFICES ASSUME conf.capacity # 0, Len(d.outdated) = conf.capacity PROVE FALSE
  BY DEF QueueFull
<1> DEFINE n == Len(d.outdated)
           q == d.outdated
           K == Keys(conf)
           R == K \ {key}
<1>1. IsFiniteSet(K) /\ Cardinality(K) <= conf.capacity /\ conf.capacity \in Nat
  BY TransferAssumption DEF Suited
<1>2. n \in Nat /\ q \in [1 .. n -> DOMAIN d.events]
  BY DEF Receiving, DemuxOK, IsDemux
<1>3. \A k \in DOMAIN d.events : k \in K
  BY DEF Receiving, DemuxOK, EntryOK
<1>4. \A i \in 1 .. n : q[i] # key
  BY <1>2 DEF Receiving, DemuxOK, QueueOK
<1>5. \A i, j \in 1 .. n : q[i] = q[j] => i = j
  BY <1>2 DEF Receiving, DemuxOK, QueueOK
<1>6. key \in K
  BY <1>3
<1> HIDE DEF K, q
<1>7. q \in Injection(1 .. n, R)
  <2>1. q \in [1 .. n -> R]
    BY <1>2, <1>3, <1>4
  <2> HIDE DEF R
  <2> QED BY <1>5, <2>1 DEF Injection, IsInjective
<1>8. IsFiniteSet(R) /\ Cardinality(R) = Cardinality(K) - 1 /\ Cardinality(K) \in Nat
  BY <1>1, <1>6, FS_RemoveElement, FS_CardinalityType
<1>9. Cardinality(1 .. n) = n
  BY <1>2, FS_Interval
<1>10. Cardinality(1 .. n) <= Cardinality(R)
  <2> HIDE DEF R, n
  <2> QED BY <1>7, <1>8, FS_Injection
<1> HIDE DEF n, R
<1>11. n = conf.capacity
  BY DEF n
<1> QED BY <1>1, <1>2, <1>8, <1>9, <1>10, <1>11

LEMMA EntryOutdated ==
  ASSUME NEW e, IsEntry(e), NEW t
  PROVE  LET x == [e EXCEPT !.def = None, !.outdated = TRUE, !.expire = t]
         IN  IsEntry(x) /\ x.outdated
<1> DEFINE x == [e EXCEPT !.def = None, !.outdated = TRUE, !.expire = t]
<1>1. x = [def |-> None, outdated |-> TRUE, expire |-> t]
  <2>1. PICK a, b, q : a = e.def /\ b = e.outdated /\ q = e.expire
    OBVIOUS
  <2>2. e = [def |-> a, outdated |-> b, expire |-> q]
    BY <2>1 DEF IsEntry
  <2>3. PICK y : y = [[[[def |-> a, outdated |-> b, expire |-> q]
                       EXCEPT !.def = None] EXCEPT !.outdated = TRUE] EXCEPT !.expire = t]
    OBVIOUS
  <2>4. y = [def |-> None, outdated |-> TRUE, expire |-> t]
    BY <2>3
  <2>5. x = y
    BY <2>2, <2>3
  <2> QED BY <2>4, <2>5
<1> HIDE DEF x
<1>2. IsEntry(x) /\ x.outdated
  BY <1>1 DEF IsEntry
<1> QED BY <1>2 DEF x

LEMMA SetOutdatedKeeps ==
  ASSUME NEW d, NEW open, Receiving(d, open), Suited(conf), conf \in Configs, conf.eseq,
         NEW key \in DOMAIN d.events, ~d.events[key].outdated
  PROVE  Receiving(SetOutdated(d, key), open \ {key}) /\ ~FreeFails(d)
<1>0. PICK e : e = CleanOutdated(d, now)
  OBVIOUS
<1> DEFINE old == e.events[key]
           x == [old EXCEPT !.def = None, !.outdated = TRUE, !.expire = now + Keep]
<1>1. /\ Receiving(e, open) /\ key \in DOMAIN e.events /\ ~old.outdated
  BY <1>0, CleanKeeps DEF Receiving
<1>2. IsEntry(old)
  BY <1>1 DEF Receiving, DemuxOK, IsDemux
<1>3. ~QueueFull(e)
  BY <1>1, QueueHasRoom
<1>4. CleanedFor(d) = e
  BY <1>0, <1>3 DEF CleanedFor
<1>5. ~FreeFails(d)
  BY <1>3, <1>4 DEF FreeFails
<1>6. IsEntry(x) /\ x.outdated
  <2> HIDE DEF old
  <2> QED BY <1>2, EntryOutdated
<1>7. SetOutdated(d, key) = [events |-> With(e.events, key, x), outdated |-> Append(e.outdated, key)]
  BY <1>4 DEF SetOutdated
<1> HIDE DEF x
<1>8. Receiving(SetOutdated(d, key), open \ {key})
  BY <1>1, <1>6, <1>7, OutdateKeeps DEF Receiving
<1> QED BY <1>5, <1>8

LEMMA FreeKeeps ==
  ASSUME NEW d, NEW open, Receiving(d, open), Suited(conf), conf \in Configs,
         NEW key \in DOMAIN d.events, ~d.events[key].outdated
  PROVE  Receiving(Free(d, key), open \ {key}) /\ ~FreeFails(d)
<1>1. CASE conf.eseq
  BY <1>1, SetOutdatedKeeps DEF Free
<1>2. CASE ~conf.eseq
  <2>1. Free(d, key) = [events |-> Without(d.events, {key}), outdated |-> d.outdated]
    BY <1>2 DEF Free, Receiving, DemuxOK, IsDemux
  <2>2. Receiving(Free(d, key), open \ {key})
    <3>1. PICK K : K = {key}
      OBVIOUS
    <3>2. open \ K \subseteq open \ {key}
      BY <3>1
    <3> QED BY <2>1, <3>1, <3>2, RemoveKeeps DEF Receiving
  <2> QED BY <1>2, <2>2 DEF FreeFails
<1> QED BY <1>1, <1>2

\* No event is complete, and some go.
LEMMA RemoveFromNone ==
  ASSUME NEW d, Receiving(d, {}), NEW K, \A k \in K : k \in DOMAIN d.events => ~d.events[k].outdated,
         NEW e, e = [events |-> Without(d.events, K), outdated |-> d.outdated]
  PROVE  Receiving(e, {}) /\ DOMAIN e.events = DOMAIN d.events \ K
<1>1. PICK none : none = {}
  OBVIOUS
<1>2. none \ K \subseteq none /\ Receiving(d, none)
  BY <1>1
<1>3. DemuxOK(conf, Kind, d, none) /\ none \ K \subseteq none
  BY <1>2 DEF Receiving
<1>4. \A k \in K : k \in DOMAIN d.events => ~d.events[k].outdated
  OBVIOUS
<1>5. e = [events |-> Without(d.events, K), outdated |-> d.outdated]
  OBVIOUS
<1>6. PICK c, kind : c = conf /\ kind = Kind
  OBVIOUS
<1>7. DemuxOK(c, kind, d, none)
  BY <1>3, <1>6
<1>8. DemuxOK(c, kind, e, none) /\ DOMAIN e.events = DOMAIN d.events \ K
  BY ONLY <1>3, <1>4, <1>5, <1>7, RemoveKeeps
<1> QED BY <1>1, <1>6, <1>8 DEF Receiving

LEMMA CleanIncompleteKeeps ==
  ASSUME NEW d, Receiving(d, {})
  PROVE  Receiving(CleanIncomplete(d), {})
<1> DEFINE K == {k \in DOMAIN d.events : ~d.events[k].outdated /\ d.events[k].expire < now}
<1>1. CleanIncomplete(d) = [events |-> Without(d.events, K), outdated |-> d.outdated]
  BY DEF CleanIncomplete, Receiving, DemuxOK, IsDemux
<1>2. \A k \in K : ~d.events[k].outdated
  OBVIOUS
<1> HIDE DEF K
<1> QED BY <1>1, <1>2, RemoveFromNone

LEMMA Kinds == Kind \in {"inorder", "outoforder", "fec"} /\ (Kind = "fec" <=> conf.FEC)
BY DEF Kind

\* A fragment that is under way, as far as the receiver looks at it.
Legal(f) == \E e : PartOf(conf, f, e) /\ Key(f) \in Keys(conf)

LEMMA NetIsLegal ==
  ASSUME CountInv, NEW f \in net
  PROVE  Legal(f)
<1> DEFINE p == f.src[1]
           n == f.src[2]
<1>1. p \in Publishers /\ n \in 1 .. Len(published[p]) /\ PartOf(conf, f, EventOf(f.src))
  BY DEF CountInv, NetInv
<1>2. conf.events \in Nat /\ Len(published[p]) \in Nat
  <2>1. conf \in Configs /\ published[p] \in Seq(PubEvent)
    BY <1>1 DEF CountInv, TypeInv
  <2>2. conf.events \in Nat
    BY <2>1, ConfFacts
  <2> QED BY <2>1, <2>2
<1>3. p \in conf.pubs /\ Len(published[p]) <= conf.events
  <2>1. published[p] # <<>>
    BY <1>1, <1>2
  <2> QED BY <1>1, <2>1 DEF CountInv, PublishedInv
<1>4. n - 1 \in 0 .. conf.events - 1
  BY <1>1, <1>2, <1>3
<1>5. Key(f) \in Keys(conf)
  BY <1>3, <1>4 DEF Key, Keys, Seq0
<1> QED BY <1>1, <1>5 DEF Legal

LEMMA NewEventOK ==
  ASSUME NEW f, Legal(f)
  PROVE  IsEntry(NewEvent(f)) /\ EntryOK(conf, Kind, Key(f), NewEvent(f), {}) /\ ~NewEvent(f).outdated
<1> DEFINE x == NewEvent(f)
           d == NewDefragmenter(conf.mtu - ExtHeader(conf.eseq, f.fec))
<1>1. x.def = d /\ x.outdated = FALSE /\ IsEntry(x)
  BY DEF NewEvent, IsEntry
<1>2. d.room = RoomOf(conf) /\ IsDef(d)
  <2>1. f.fec <=> HasFEC(conf)
    BY DEF Legal, PartOf
  <2>2. ExtHeader(conf.eseq, f.fec) = ExtHeader(conf.eseq, HasFEC(conf))
    BY <2>1 DEF ExtHeader
  <2> QED BY <2>2 DEF NewDefragmenter, RoomOf, RoomFor, IsDef
<1>3. ~Complete(Kind, d)
  <2>1. d.count = 0 /\ d.final = FALSE /\ d.arrived = 0 /\ d.k = 1
    BY DEF NewDefragmenter
  <2> HIDE DEF d
  <2>2. ~Complete("inorder", d) /\ ~Complete("outoforder", d) /\ ~Complete("fec", d)
    BY <2>1 DEF Complete
  <2> QED BY <2>2, Kinds
<1> HIDE DEF x, d
<1>4. EntryOK(conf, Kind, Key(f), x, {})
  BY <1>1, <1>2, <1>3 DEF EntryOK, Legal
<1> QED BY <1>1, <1>4 DEF x

\* get_defragmenter_handle finds an event that is not complete, or makes one.
LEMMA HandleKeeps ==
  ASSUME NEW d, Receiving(d, {}), Suited(conf), NEW f, Legal(f)
  PROVE  LET h == Handle(d, f)
         IN  /\ Receiving(h.demux, {})
             /\ h.key # None => h.key \in DOMAIN h.demux.events /\ ~h.demux.events[h.key].outdated
             /\ ~WrongEvent(d, f)
<1> DEFINE h == Handle(d, f)
           key == Key(f)
           e1(K) == [events |-> Without(d.events, K), outdated |-> d.outdated]
           With1(e) == [events |-> With(e.events, key, NewEvent(f)), outdated |-> e.outdated]
<1>1. d = [events |-> d.events, outdated |-> d.outdated]
  BY DEF Receiving, DemuxOK, IsDemux
<1>2. ~WrongEvent(d, f)
  <2> SUFFICES ASSUME conf.eseq, NEW k \in Found(d.events, key) PROVE k = key
    BY DEF WrongEvent
  <2>1. CASE conf.capacity # 0
    BY <2>1 DEF Found
  <2>2. CASE conf.capacity = 0
    <3>1. k \in DOMAIN d.events /\ k[1] = key[1]
      BY <2>2 DEF Found
    <3>2. k \in Keys(conf) /\ key \in Keys(conf)
      BY <3>1 DEF Receiving, DemuxOK, EntryOK, Legal
    <3>3. k[2] = key[2]
      BY <2>2, <3>2 DEF Keys, Suited
    <3> QED BY <3>1, <3>2, <3>3 DEF Keys
  <2> QED BY <2>1, <2>2
<1>3. ASSUME NEW e, Receiving(e, {}), key \notin DOMAIN e.events
      PROVE  /\ Receiving(With1(e), {}) /\ key \in DOMAIN With1(e).events
             /\ ~With1(e).events[key].outdated
  <2>1. IsEntry(NewEvent(f)) /\ EntryOK(conf, Kind, key, NewEvent(f), {}) /\ ~NewEvent(f).outdated
    BY NewEventOK
  <2> HIDE DEF key
  <2>2. PICK x, n : x = NewEvent(f) /\ n = [events |-> With(e.events, key, x), outdated |-> e.outdated]
    OBVIOUS
  <2>3. {} \ {key} \subseteq {}
    OBVIOUS
  <2>4. /\ DemuxOK(conf, Kind, n, {})
        /\ DOMAIN n.events = DOMAIN e.events \cup {key}
        /\ n.events[key] = x
    BY <1>3, <2>1, <2>2, <2>3, AddKeeps DEF Receiving
  <2>5. n = With1(e)
    BY <2>2
  <2> HIDE DEF With1
  <2> QED BY <2>1, <2>2, <2>4, <2>5 DEF Receiving
<1>4. CASE conf.eseq
  <2> DEFINE found == Found(d.events, key)
             k == CHOOSE x \in found : TRUE
  <2>1. CASE found = {} /\ ~MapFull(d, 2 * conf.capacity)
    <3>1. h = [key |-> key, demux |-> With1(d)]
      BY <1>1, <1>4, <2>1 DEF Handle, SeqHandle
    <3>2. key \notin DOMAIN d.events
      BY <2>1 DEF Found
    <3> HIDE DEF With1, key
    <3> QED BY <1>2, <1>3, <3>1, <3>2
  <2>2. CASE found = {} /\ MapFull(d, 2 * conf.capacity)
    <3>1. h = [key |-> None, demux |-> d]
      BY <1>4, <2>2 DEF Handle, SeqHandle
    <3> QED BY <1>2, <3>1
  <2>3. CASE found # {} /\ (d.events[k].outdated \/ Complete(Kind, d.events[k].def))
    <3>1. h = [key |-> None, demux |-> d]
      BY <1>4, <2>3 DEF Handle, SeqHandle
    <3> QED BY <1>2, <3>1
  <2>4. CASE found # {} /\ ~(d.events[k].outdated \/ Complete(Kind, d.events[k].def))
    <3> DEFINE x == [d.events[k] EXCEPT !.expire = now + Keep]
               later == [events |-> With(d.events, k, x), outdated |-> d.outdated]
    <3>1. k \in DOMAIN d.events /\ ~d.events[k].outdated
      <4>1. k \in found
        BY <2>4
      <4> HIDE DEF k
      <4> QED BY <2>4, <4>1 DEF Found
    <3>2. IsEntry(d.events[k]) /\ EntryOK(conf, Kind, k, d.events[k], {})
      BY <3>1 DEF Receiving, DemuxOK, IsDemux
    <3>3. [d EXCEPT !.events[k].expire = now + Keep] = later
      <4> HIDE DEF k
      <4>1. d.events = [y \in DOMAIN d.events |-> d.events[y]]
        BY DEF Receiving, DemuxOK, IsDemux
      <4>2. [d EXCEPT !.events[k].expire = now + Keep]
              = [events |-> [d.events EXCEPT ![k] = x], outdated |-> d.outdated]
        BY <1>1
      <4>3. [d.events EXCEPT ![k] = x] = With(d.events, k, x)
        <5> HIDE DEF x
        <5> QED BY <3>1, <4>1 DEF With
      <4> QED BY <4>2, <4>3
    <3>4. h.key = k /\ (h.demux = d \/ h.demux = later)
      <4>1. h = [key |-> k, demux |-> IF Seq0(f) % 4 = 0 THEN [d EXCEPT !.events[k].expire = now + Keep] ELSE d]
        BY <1>4, <2>4 DEF Handle, SeqHandle
      <4> HIDE DEF h, k, later
      <4> QED BY <3>3, <4>1
    <3> HIDE DEF h, k
    <3>5. x.def = d.events[k].def /\ x.outdated = d.events[k].outdated /\ IsEntry(x)
      <4>1. PICK t : t = now + Keep
        OBVIOUS
      <4>2. x = [def |-> d.events[k].def, outdated |-> d.events[k].outdated, expire |-> t]
        BY <3>2, <4>1 DEF IsEntry
      <4> QED BY <3>2, <4>2 DEF IsEntry
    <3> HIDE DEF x
    <3>6. EntryOK(conf, Kind, k, x, {})
      BY <3>2, <3>5 DEF EntryOK
    <3>7. DemuxOK(conf, Kind, later, {}) /\ k \in DOMAIN later.events /\ later.events[k] = x
      <4>1. PICK n : n = [events |-> With(d.events, k, x), outdated |-> d.outdated]
        OBVIOUS
      <4>2. {} \ {k} \subseteq {}
        OBVIOUS
      <4>3. DemuxOK(conf, Kind, n, {}) /\ k \in DOMAIN n.events /\ n.events[k] = x
        <5>1. DOMAIN n.events = DOMAIN d.events \cup {k} /\ DemuxOK(conf, Kind, n, {}) /\ n.events[k] = x
          BY <3>1, <3>5, <3>6, <4>1, <4>2, AddKeeps DEF Receiving
        <5> QED BY <5>1
      <4> QED BY <4>1, <4>3
    <3> HIDE DEF later
    <3> QED BY <1>2, <3>1, <3>4, <3>5, <3>7 DEF Receiving, h
  <2> QED BY <2>1, <2>2, <2>3, <2>4
<1>5. CASE ~conf.eseq
  <2> DEFINE e == e1({key})
  <2>1. \A k \in DOMAIN d.events : ~d.events[k].outdated
    BY <1>5 DEF Receiving, DemuxOK, EntryOK, IsDemux, IsEntry
  <2>2. Receiving(e, {}) /\ key \notin DOMAIN e.events
    <3>1. PICK K, n : K = {key} /\ n = [events |-> Without(d.events, K), outdated |-> d.outdated]
      OBVIOUS
    <3>2. \A k \in K : k \in DOMAIN d.events => ~d.events[k].outdated
      BY <2>1
    <3>3. n = e
      BY <3>1
    <3> HIDE DEF e, key
    <3>4. Receiving(n, {}) /\ DOMAIN n.events = DOMAIN d.events \ K
      BY <3>1, <3>2, RemoveFromNone
    <3> QED BY <3>1, <3>3, <3>4
  <2>3. [d EXCEPT !.events = Without(@, {key})] = e
    BY <1>1
  <2>4. \/ h = [key |-> None, demux |-> e] \/ h = [key |-> key, demux |-> With1(e)]
        \/ h = [key |-> key, demux |-> d] /\ key \in DOMAIN d.events
        \/ h = [key |-> None, demux |-> d]
    <3>1. [e EXCEPT !.events = With(@, key, NewEvent(f))] = With1(e)
      OBVIOUS
    <3> HIDE DEF With1, e
    <3> QED BY <1>5, <2>3, <3>1 DEF Handle, FirstHandle
  <2> HIDE DEF e, With1, h
  <2>5. /\ Receiving(With1(e), {}) /\ key \in DOMAIN With1(e).events
        /\ ~With1(e).events[key].outdated
    BY <1>3, <2>2
  <2> HIDE DEF key
  <2>6. CASE h = [key |-> key, demux |-> With1(e)]
    BY <1>2, <2>5, <2>6 DEF h
  <2>7. CASE h = [key |-> None, demux |-> e] \/ h = [key |-> None, demux |-> d]
    BY <1>2, <2>2, <2>7 DEF h
  <2>8. CASE h = [key |-> key, demux |-> d] /\ key \in DOMAIN d.events
    BY <1>2, <2>1, <2>8 DEF h
  <2> QED BY <2>4, <2>6, <2>7, <2>8
<1> QED BY <1>4, <1>5

-----------------------------------------------------------------------------
(* The defragmenter.                                                       *)

\* What a defragmenter stores changes its other fields alone.
LEMMA StoreKeepsRoom ==
  ASSUME NEW d, IsDef(d), NEW f, NEW place
  PROVE  IsDef(Store(d, f, place)) /\ Store(d, f, place).room = d.room
BY DEF IsDef, Store

LEMMA PutOutOfOrderKeepsRoom ==
  ASSUME NEW d, IsDef(d), NEW f
  PROVE  IsDef(PutOutOfOrder(d, f)) /\ PutOutOfOrder(d, f).room \in {0, d.room}
<1>1. PICK s : s = Store(d, f, GetPayload(f.fseq + 1, d.room))
  OBVIOUS
<1>2. IsDef(s) /\ s.room = d.room
  BY <1>1, StoreKeepsRoom
<1>3. PICK a, b, l : PutOutOfOrder(d, f) \in {SetError(d), [s EXCEPT !.count = a, !.final = b, !.len = l]}
  BY <1>1 DEF PutOutOfOrder
<1>4. IsDef(SetError(d)) /\ SetError(d).room = 0
  BY DEF IsDef, SetError
<1>5. PICK x : x = [s EXCEPT !.count = a, !.final = b, !.len = l]
  OBVIOUS
<1>6. IsDef(x) /\ x.room = d.room
  BY <1>2, <1>5 DEF IsDef
<1>7. PutOutOfOrder(d, f) = SetError(d) \/ PutOutOfOrder(d, f) = x
  BY <1>3, <1>5
<1> QED BY <1>4, <1>6, <1>7

LEMMA PutKeepsRoom ==
  ASSUME NEW d, IsDef(d), NEW kind \in {"inorder", "outoforder", "fec"}, NEW checks, NEW f
  PROVE  /\ IsDef(PutFragment(kind, checks, d, f))
         /\ PutFragment(kind, checks, d, f).room \in {0, d.room}
<1>1. PICK e : e = IF checks THEN [d EXCEPT !.seen = @ \cup {f.fseq}] ELSE d
  OBVIOUS
<1>2. IsDef(e) /\ e.room = d.room
  BY <1>1 DEF IsDef
<1>3. IsDef(SetError(e)) /\ SetError(e).room = 0
  BY <1>2 DEF IsDef, SetError
<1>4. IsDef(PutOutOfOrder(e, f)) /\ PutOutOfOrder(e, f).room \in {0, d.room}
  BY <1>2, PutOutOfOrderKeepsRoom
<1>5. \A place : IsDef(Store(e, f, place)) /\ Store(e, f, place).room = d.room
  BY <1>2, StoreKeepsRoom
<1>6. IsDef(PutInOrder(e, f)) /\ PutInOrder(e, f).room \in {0, d.room}
  <2>1. PICK s, t : s = Store(e, f, 0) /\ t = Store(e, f, e.len)
    OBVIOUS
  <2>2. IsDef(s) /\ s.room = d.room /\ IsDef(t) /\ t.room = d.room
    BY <1>5, <2>1
  <2>3. PICK x, y : /\ x = [s EXCEPT !.count = f.fseq + 1, !.len = f.len]
                    /\ y = [t EXCEPT !.len = e.len + f.len]
    OBVIOUS
  <2>4. IsDef(x) /\ x.room = d.room /\ IsDef(y) /\ y.room = d.room
    BY <2>2, <2>3 DEF IsDef
  <2>5. PutInOrder(e, f) = SetError(e) \/ PutInOrder(e, f) = x \/ PutInOrder(e, f) = y
    BY <2>1, <2>3 DEF PutInOrder
  <2> QED BY <1>3, <2>4, <2>5
<1>7. IsDef(PutFEC(e, f)) /\ PutFEC(e, f).room \in {0, d.room}
  <2>1. PICK s, t : s = Store(e, f, f.from) /\ t = PutOutOfOrder(e, f)
    OBVIOUS
  <2>2. IsDef(s) /\ s.room = d.room /\ IsDef(t) /\ t.room \in {0, d.room}
    BY <1>4, <1>5, <2>1
  <2>3. PICK x, y : /\ x = [s EXCEPT !.k = f.k, !.count = WithRedundancy(f.k, f.red),
                                      !.len = (f.k - 1) * FECPayload(e, f) + f.rest]
                    /\ y = [t EXCEPT !.k = 0]
    OBVIOUS
  <2>4. IsDef(x) /\ x.room = d.room /\ IsDef(y) /\ y.room \in {0, d.room}
    BY <2>2, <2>3 DEF IsDef
  <2>5. PutFEC(e, f) = SetError(e) \/ PutFEC(e, f) = x \/ PutFEC(e, f) = y
    BY <2>1, <2>3 DEF PutFEC
  <2> QED BY <1>3, <2>4, <2>5
<1>8. \/ PutFragment(kind, checks, d, f) = d
      \/ PutFragment(kind, checks, d, f) \in {PutInOrder(e, f), PutOutOfOrder(e, f), PutFEC(e, f)}
  BY <1>1 DEF PutFragment
<1> QED BY <1>4, <1>6, <1>7, <1>8

\* What put_fragment asserts of its argument.
LEMMA FragmentAsExpected ==
  ASSUME NEW d, d.room \in {0, RoomOf(conf)}, ~Complete(Kind, d), NEW f, Legal(f)
  PROVE  AsExpected(Kind, d, f)
<1> SUFFICES ASSUME d.room = RoomOf(conf) PROVE AsExpected(Kind, d, f)
  BY DEF AsExpected, Error
<1>1. PICK e : PartOf(conf, f, e)
  BY DEF Legal
<1>2. CASE f.fec
  <2>1. HasFEC(conf) /\ PartFEC(conf, f, e)
    BY <1>1, <1>2 DEF PartOf
  <2>2. d.room = RoomFor(conf, TRUE)
    BY <2>1 DEF RoomOf, RoomFor, ExtHeader
  <2>3. e.count = WithRedundancy(f.k, f.red)
    BY <2>1 DEF PartFEC
  <2>4. FullFEC(e.count, RoomFor(conf, TRUE)) = FECPayload(d, f)
    BY <2>2, <2>3 DEF FullFEC, FECPayload
  <2>5. f.len = FECPayload(d, f) \/ f.fseq = WithRedundancy(f.k, f.red) - f.k
    BY <2>1, <2>3, <2>4 DEF PartFEC
  <2>6. Kind = "fec"
    BY <2>1, Kinds DEF HasFEC
  <2> QED BY <1>2, <2>5, <2>6 DEF AsExpected
<1>3. CASE ~f.fec
  <2>1. ~HasFEC(conf) /\ PartNoFEC(conf, f, e)
    BY <1>1, <1>3 DEF PartOf
  <2>2. d.room = RoomFor(conf, FALSE)
    BY <2>1 DEF RoomOf, RoomFor, ExtHeader
  <2>3. f.fseq = 0 \/ f.len = d.room - GetBasicHeaderLen(f.fseq)
    BY <2>1, <2>2 DEF PartNoFEC
  <2> QED BY <1>3, <2>3 DEF AsExpected
<1> QED BY <1>2, <1>3

\* The event found gets its fragment.
LEMMA UpdateKeeps ==
  ASSUME NEW d, Receiving(d, {}), NEW key \in DOMAIN d.events, ~d.events[key].outdated,
         NEW put, IsDef(put), put.room \in {0, RoomOf(conf)},
         NEW open, Complete(Kind, put) => key \in open,
         NEW u, u = [d EXCEPT !.events[key].def = put]
  PROVE  Receiving(u, open) /\ key \in DOMAIN u.events /\ ~u.events[key].outdated
<1>1. PICK e : e = d.events[key]
  OBVIOUS
<1>2. PICK x : x = [e EXCEPT !.def = put]
  OBVIOUS
<1>3. IsEntry(e) /\ EntryOK(conf, Kind, key, e, {}) /\ ~e.outdated
  BY <1>1 DEF Receiving, DemuxOK, IsDemux
<1>4. x.def = put /\ x.outdated = e.outdated /\ IsEntry(x)
  <2>1. PICK t : t = e.expire
    OBVIOUS
  <2>2. x = [def |-> put, outdated |-> e.outdated, expire |-> t]
    BY <1>2, <1>3, <2>1 DEF IsEntry
  <2> QED BY <1>3, <2>2 DEF IsEntry
<1>5. EntryOK(conf, Kind, key, x, open)
  BY <1>3, <1>4 DEF EntryOK
<1>6. u = [events |-> With(d.events, key, x), outdated |-> d.outdated]
  <2>1. /\ d = [events |-> d.events, outdated |-> d.outdated]
        /\ d.events = [y \in DOMAIN d.events |-> d.events[y]]
    BY DEF Receiving, DemuxOK, IsDemux
  <2>2. u = [events |-> [d.events EXCEPT ![key] = x], outdated |-> d.outdated]
    BY <1>1, <1>2, <2>1
  <2>3. [d.events EXCEPT ![key] = x] = With(d.events, key, x)
    BY <2>1 DEF With
  <2> QED BY <2>2, <2>3
<1>7. PICK c, kind, none : c = conf /\ kind = Kind /\ none = {}
  OBVIOUS
<1>8. DemuxOK(c, kind, d, none) /\ none \ {key} \subseteq open /\ EntryOK(c, kind, key, x, open)
  BY <1>5, <1>7 DEF Receiving
<1>9. key \in DOMAIN d.events => ~d.events[key].outdated
  OBVIOUS
<1>10. IsEntry(x)
  BY <1>4
<1>11. DemuxOK(c, kind, u, open) /\ DOMAIN u.events = DOMAIN d.events \cup {key} /\ u.events[key] = x
  BY ONLY <1>6, <1>8, <1>9, <1>10, AddKeeps
<1> QED BY <1>3, <1>4, <1>7, <1>11 DEF Receiving

-----------------------------------------------------------------------------
(* The receiver.                                                           *)

\* Only the event whose handle was returned is complete, and it is still kept.
Open == IF handle = None THEN {} ELSE {handle}
ReceiverInv ==
    /\ ~failed
    /\ Receiving(demux, Open)
    /\ handle # None => handle \in DOMAIN demux.events /\ ~demux.events[handle].outdated

LEMMA InitReceives == Init => ReceiverInv
<1> SUFFICES ASSUME Init PROVE ReceiverInv
  OBVIOUS
<1>1. PICK none : none = [k \in {} |-> None]
  OBVIOUS
<1>2. demux = [events |-> none, outdated |-> <<>>]
  BY <1>1 DEF Init
<1>3. demux.events = none /\ demux.outdated = <<>> /\ DOMAIN none = {}
  BY <1>1, <1>2
<1>4. none = [k \in DOMAIN none |-> none[k]]
  BY <1>1
<1>5. IsDemux(demux)
  BY <1>2, <1>3, <1>4 DEF IsDemux
<1>6. QueueOK(demux)
  BY <1>3 DEF QueueOK
<1>7. Receiving(demux, Open)
  BY <1>3, <1>5, <1>6 DEF Receiving, DemuxOK
<1> QED BY <1>7 DEF Init, ReceiverInv

\* Steps of the others.
LEMMA OthersKeepReceiver ==
  ASSUME ReceiverInv, UNCHANGED <<conf, demux, handle, failed>>
  PROVE  ReceiverInv'
BY DEF ReceiverInv, Receiving, Open, DemuxOK, IsDemux, QueueOK, EntryOK, Kind

\* After a step the receiver is in order if its demultiplexer is.
LEMMA ReceivesNext ==
  ASSUME conf' = conf, ~failed', NEW open, Receiving(demux', open),
         \/ handle' = None /\ open = {}
         \/ /\ handle' # None /\ open = {handle'}
            /\ handle' \in DOMAIN demux'.events /\ ~demux'.events[handle'].outdated
  PROVE  ReceiverInv'
<1>1. Kind' = Kind
  BY DEF Kind
<1>2. CASE handle' = None /\ open = {}
  <2>1. DemuxOK(conf', Kind', demux', Open')
    BY <1>1, <1>2 DEF Receiving, Open
  <2> QED BY <1>2, <2>1 DEF ReceiverInv, Receiving
<1>3. CASE handle' # None /\ open = {handle'}
          /\ handle' \in DOMAIN demux'.events /\ ~demux'.events[handle'].outdated
  <2>1. DemuxOK(conf', Kind', demux', Open')
    BY <1>1, <1>3 DEF Receiving, Open
  <2> QED BY <1>3, <2>1 DEF ReceiverInv, Receiving
<1> QED BY <1>2, <1>3

LEMMA ProcessReceives ==
  ASSUME ReceiverInv, CountInv, Suited(conf), NEW f \in net, NEW again, NEW cleans,
         ProcessFragment(f, again, cleans)
  PROVE  ReceiverInv'
<1>1. handle = None /\ conf' = conf /\ conf \in Configs
  BY DEF ProcessFragment, Arrives, CountInv, TypeInv
<1>2. Legal(f)
  BY NetIsLegal
<1>3. PICK d : d = IF cleans THEN CleanIncomplete(demux) ELSE demux
  OBVIOUS
<1>4. Receiving(d, {})
  <2>1. Receiving(demux, {})
    BY <1>1 DEF ReceiverInv, Open
  <2> QED BY <1>3, <2>1, CleanIncompleteKeeps
<1>5. PICK h : h = Handle(d, f)
  OBVIOUS
<1>6. /\ Receiving(h.demux, {}) /\ ~WrongEvent(d, f)
      /\ h.key # None => h.key \in DOMAIN h.demux.events /\ ~h.demux.events[h.key].outdated
  BY <1>2, <1>4, <1>5, HandleKeeps
<1>7. PICK def : def = h.demux.events[h.key].def
  OBVIOUS
<1>8. PICK put : put = PutFragment(Kind, conf.duplicates, def, f)
  OBVIOUS
<1>9. PICK u : u = [h.demux EXCEPT !.events[h.key].def = put]
  OBVIOUS
<1>10. \/ /\ h.key = None /\ demux' = h.demux /\ handle' = handle
          /\ failed' = WrongEvent(d, f)
       \/ /\ h.key # None /\ demux' = Free(u, h.key) /\ handle' = handle
          /\ failed' = (WrongEvent(d, f) \/ FreeFails(u))
       \/ /\ h.key # None /\ demux' = u
          /\ handle' = IF Complete(Kind, put) THEN h.key ELSE None
          /\ failed' = (WrongEvent(d, f) \/ (put # def /\ ~AsExpected(Kind, def, f)))
  BY <1>3, <1>5, <1>7, <1>8, <1>9, Zenon DEF ProcessFragment
<1>11. CASE h.key = None
  <2>1. Receiving(demux', {}) /\ handle' = None /\ ~failed'
    BY <1>1, <1>6, <1>10, <1>11
  <2> QED BY <1>1, <2>1, ReceivesNext
<1>12. CASE h.key # None
  <2>1. PICK key : key = h.key
    OBVIOUS
  <2>2. key # None /\ key \in DOMAIN h.demux.events /\ ~h.demux.events[key].outdated
    BY <1>6, <1>12, <2>1
  <2>3. /\ IsDef(def) /\ def.room \in {0, RoomOf(conf)} /\ ~Complete(Kind, def)
    BY <1>6, <1>7, <2>1, <2>2 DEF Receiving, DemuxOK, EntryOK
  <2>4. IsDef(put) /\ put.room \in {0, RoomOf(conf)}
    <3>1. PICK kind : kind = Kind
      OBVIOUS
    <3>2. kind \in {"inorder", "outoforder", "fec"}
      BY <3>1, Kinds
    <3>3. put = PutFragment(kind, conf.duplicates, def, f)
      BY <1>8, <3>1
    <3>4. IsDef(put) /\ put.room \in {0, def.room}
      BY <2>3, <3>2, <3>3, PutKeepsRoom
    <3> QED BY <2>3, <3>4
  <2>5. AsExpected(Kind, def, f)
    BY <1>2, <2>3, FragmentAsExpected
  <2>6. ASSUME NEW open, Complete(Kind, put) => key \in open
        PROVE  Receiving(u, open) /\ key \in DOMAIN u.events /\ ~u.events[key].outdated
    <3>1. u = [h.demux EXCEPT !.events[key].def = put]
      BY <1>9, <2>1
    <3>2. PICK e : e = h.demux
      OBVIOUS
    <3>3. Receiving(e, {}) /\ key \in DOMAIN e.events /\ ~e.events[key].outdated
      BY <1>6, <2>2, <3>2
    <3>4. u = [e EXCEPT !.events[key].def = put]
      BY <3>1, <3>2
    <3> QED BY <2>4, <2>6, <3>3, <3>4, UpdateKeeps
  <2>7. CASE demux' = Free(u, key) /\ handle' = handle /\ failed' = (WrongEvent(d, f) \/ FreeFails(u))
    <3>1. PICK open : open = {key}
      OBVIOUS
    <3>2. Receiving(u, open) /\ key \in DOMAIN u.events /\ ~u.events[key].outdated
      BY <2>6, <3>1
    <3>3. Receiving(Free(u, key), open \ {key}) /\ ~FreeFails(u)
      BY <1>1, <3>2, FreeKeeps
    <3>4. PICK none : none = open \ {key}
      OBVIOUS
    <3>5. none = {}
      BY <3>1, <3>4
    <3>6. Receiving(demux', none) /\ ~failed' /\ handle' = None
      BY <1>1, <1>6, <2>7, <3>3, <3>4
    <3> QED BY <1>1, <3>5, <3>6, ReceivesNext
  <2>8. CASE /\ demux' = u /\ handle' = IF Complete(Kind, put) THEN key ELSE None
             /\ failed' = (WrongEvent(d, f) \/ (put # def /\ ~AsExpected(Kind, def, f)))
    <3>1. ~failed'
      BY <1>6, <2>5, <2>8
    <3>2. CASE Complete(Kind, put)
      <4>1. PICK open : open = {key}
        OBVIOUS
      <4>2. Receiving(u, open) /\ key \in DOMAIN u.events /\ ~u.events[key].outdated
        BY <2>6, <4>1
      <4>3. handle' = key
        BY <2>8, <3>2
      <4>4. /\ Receiving(demux', open) /\ handle' # None /\ open = {handle'}
            /\ handle' \in DOMAIN demux'.events /\ ~demux'.events[handle'].outdated
        BY <2>2, <2>8, <4>1, <4>2, <4>3
      <4> QED BY <1>1, <3>1, <4>4, ReceivesNext
    <3>3. CASE ~Complete(Kind, put)
      <4>1. PICK open : open = {}
        OBVIOUS
      <4>2. Receiving(u, open)
        BY <2>6, <3>3
      <4>3. handle' = None
        BY <2>8, <3>3
      <4>4. Receiving(demux', open)
        BY <2>8, <4>2
      <4> QED BY <1>1, <3>1, <4>1, <4>3, <4>4, ReceivesNext
    <3> QED BY <3>2, <3>3
  <2> QED BY <1>10, <1>12, <2>1, <2>7, <2>8
<1> QED BY <1>11, <1>12

\* An event that is complete goes to the subscriber or is kept for later.
LEMMA ProcessedReceives ==
  ASSUME ReceiverInv, CountInv, Suited(conf), EventProcessed \/ KeepEvent
  PROVE  ReceiverInv'
<1>1. PICK open : open = {handle}
  OBVIOUS
<1>2. /\ Receiving(demux, open) /\ handle \in DOMAIN demux.events /\ ~demux.events[handle].outdated
      /\ conf \in Configs
  <2>1. handle # None
    BY DEF EventProcessed, KeepEvent
  <2> QED BY <1>1, <2>1 DEF ReceiverInv, Open, CountInv, TypeInv
<1>3. Receiving(Free(demux, handle), open \ {handle}) /\ ~FreeFails(demux)
  BY <1>2, FreeKeeps
<1>4. demux' = Free(demux, handle)
  <2>1. CASE EventProcessed
    BY <2>1 DEF EventProcessed
  <2>2. CASE KeepEvent
    BY <2>2 DEF KeepEvent, Suited, Free
  <2> QED BY <2>1, <2>2
<1>5. conf' = conf /\ handle' = None /\ ~failed'
  BY <1>3 DEF EventProcessed, KeepEvent
<1>6. PICK none : none = open \ {handle}
  OBVIOUS
<1>7. none = {}
  BY <1>1, <1>6
<1>8. Receiving(demux', none)
  BY <1>3, <1>4, <1>6
<1> QED BY <1>5, <1>7, <1>8, ReceivesNext

LEMMA NextReceives == ASSUME ReceiverInv, CountInv, Suited(conf), [Next]_vars PROVE ReceiverInv'
<1> DEFINE Quiet == UNCHANGED <<conf, demux, handle, failed>>
<1>1. ASSUME NEW p \in Publishers, NEW len \in conf.lens, Publish(p, len) PROVE Quiet
  BY <1>1 DEF Publish
<1>2. ASSUME NEW p \in Publishers, SendFragment(p) PROVE Quiet
  BY <1>2 DEF SendFragment
<1>3. ASSUME NEW f \in net, NEW again \in BOOLEAN, DropFragment(f, again) PROVE Quiet
  BY <1>3 DEF DropFragment
<1>4. ASSUME NEW f \in net, NEW again \in BOOLEAN, NEW cleans \in BOOLEAN, ProcessFragment(f, again, cleans)
      PROVE  ReceiverInv'
  BY <1>4, ProcessReceives
<1>5. ASSUME NEW f \in net, LoseFragment(f) PROVE Quiet
  BY <1>5 DEF LoseFragment
<1>6. ASSUME NEW d \in kept, KeptEventProcessed(d) PROVE Quiet
  BY <1>6 DEF KeptEventProcessed
<1>7. ASSUME Tick PROVE Quiet
  BY <1>7 DEF Tick
<1>8. ASSUME UNCHANGED vars PROVE Quiet
  BY <1>8 DEF vars
<1>9. Quiet => ReceiverInv'
  BY OthersKeepReceiver
<1>10. EventProcessed \/ KeepEvent => ReceiverInv'
  BY ProcessedReceives
<1> HIDE DEF Quiet
<1> QED BY <1>1, <1>2, <1>3, <1>4, <1>5, <1>6, <1>7, <1>8, <1>9, <1>10 DEF Next

LEMMA ReceiverHolds == ReceiverInv => AssertionsHold
<1> SUFFICES ASSUME ReceiverInv PROVE AssertionsHold
  OBVIOUS
<1>1. demux.outdated \in Seq(DOMAIN demux.events)
  BY DEF ReceiverInv, Receiving, DemuxOK, IsDemux
<1>2. \A i \in DOMAIN demux.outdated : demux.outdated[i] \in DOMAIN demux.events
  BY <1>1
<1> QED BY <1>2 DEF ReceiverInv, AssertionsHold

-----------------------------------------------------------------------------
(* What the network holds and has brought.                                 *)

\* An event is due while its fragmenter is at work.  A fragment of it is coming, and
\* an event is gone when none is.
Due(e) == frag[e[1]] # None /\ e[2] = Len(published[e[1]])
Coming(e, i) == \/ \E f \in net : f.src = e /\ f.fseq = i
                \/ Due(e) /\ i < frag[e[1]].remaining
Gone(e) == ~Due(e) /\ \A f \in net : f.src # e

\* Fragments the receiver cannot number.
TooLong(i) == GetBasicHeaderLen(i) > conf.width

\* Fragments that arrived are those of published events.
HeardInv ==
    /\ heard \in [Events -> SUBSET Nat]
    /\ \A f \in net : f.src \in Events
    /\ \A e \in Events : heard[e] # {} => /\ IsPublished(e) /\ IsCut(conf, EventOf(e))
                                          /\ heard[e] \subseteq 0 .. EventOf(e).count - 1

\* Fragments are sent once each, from the first to the last.
SentInv ==
    /\ \A f, g \in net : f.src = g.src /\ f.fseq = g.fseq => f = g
    /\ \A e \in Events : Due(e) =>
          /\ \A i \in heard[e] : frag[e[1]].remaining <= i
          /\ \A f \in net : f.src = e => frag[e[1]].remaining <= f.fseq

\* A network that repeats nothing brings each of them once, ...
HeardOnce == "dup" \notin conf.net => \A f \in net : f.fseq \notin heard[f.src]

\* ... one that loses nothing all that the receiver can number, ...
NoneLost == "loss" \notin conf.net =>
    \A e \in Events : IsPublished(e) => \A i \in 0 .. EventOf(e).count - 1 :
        i \in heard[e] \/ Coming(e, i) \/ TooLong(i)

\* ... and a network without faults in their order.
HeardInOrder == conf.net = {} =>
    \A e \in Events : \A i \in heard[e] : \A j \in i + 1 .. EventOf(e).count - 1 :
        j \in heard[e] \/ TooLong(j)

\* Fragments are under way for less time than an event number is remembered.
InTime == \A e \in Events : IsPublished(e) =>
    EventOf(e).at <= now /\ (Gone(e) \/ now <= EventOf(e).at + Keep)

TransportInv == HeardInv /\ SentInv /\ HeardOnce /\ NoneLost /\ HeardInOrder /\ InTime

LEMMA InitTransports == Init => TransportInv
<1> SUFFICES ASSUME Init PROVE TransportInv
  OBVIOUS
<1>1. net = {} /\ heard = [e \in Events |-> {}] /\ frag = [p \in Publishers |-> None]
  BY DEF Init
<1>2. \A e \in Events : e[1] \in Publishers /\ e[2] \in Nat \ {0} /\ published[e[1]] = <<>>
  BY TransferAssumption DEF Events, Init
<1>3. \A e \in Events : ~IsPublished(e) /\ heard[e] = {} /\ ~Due(e)
  BY <1>1, <1>2 DEF IsPublished, Due
<1>4. HeardInv /\ SentInv /\ HeardOnce
  BY <1>1, <1>3 DEF HeardInv, SentInv, HeardOnce
<1>5. NoneLost /\ HeardInOrder /\ InTime
  BY <1>3 DEF NoneLost, HeardInOrder, InTime
<1> QED BY <1>4, <1>5 DEF TransportInv

LEMMA EventFacts ==
  ASSUME CountInv, NEW e \in Events
  PROVE  /\ e[1] \in Publishers /\ e[2] \in Nat \ {0} /\ e = <<e[1], e[2]>>
         /\ Len(published[e[1]]) \in Nat
         /\ IsPublished(e) => /\ EventOf(e) \in PubEvent /\ EventOf(e).count \in Int
                              /\ EventOf(e).at \in Nat
         /\ Due(e) => IsPublished(e) /\ frag[e[1]] \in Frag /\ frag[e[1]].remaining \in Int
                      /\ Stands(conf, frag[e[1]], EventOf(e))
                      /\ frag[e[1]].remaining \in 1 .. EventOf(e).count
<1>1. e[1] \in Publishers /\ e[2] \in Nat \ {0} /\ e = <<e[1], e[2]>>
  BY TransferAssumption DEF Events
<1>2. published[e[1]] \in Seq(PubEvent) /\ Len(published[e[1]]) \in Nat
  BY <1>1 DEF CountInv, TypeInv
<1>3. ASSUME IsPublished(e)
      PROVE  EventOf(e) \in PubEvent /\ EventOf(e).count \in Int /\ EventOf(e).at \in Nat
  <2>1. e[2] \in 1 .. Len(published[e[1]])
    BY <1>1, <1>2, <1>3 DEF IsPublished
  <2>2. EventOf(e) \in PubEvent
    BY <1>2, <2>1 DEF EventOf
  <2> QED BY <2>2 DEF PubEvent
<1>4. ASSUME Due(e)
      PROVE  /\ IsPublished(e) /\ frag[e[1]] \in Frag /\ frag[e[1]].remaining \in Int
             /\ Stands(conf, frag[e[1]], EventOf(e))
             /\ frag[e[1]].remaining \in 1 .. EventOf(e).count
  <2>1. IsPublished(e) /\ frag[e[1]] \in Frag /\ frag[e[1]].remaining \in Int
    BY <1>1, <1>2, <1>4 DEF Due, IsPublished, CountInv, TypeInv, Frag
  <2>2. Stands(conf, frag[e[1]], EventOf(e))
    BY <1>1, <1>4 DEF Due, CountInv, PlacedInv, EventOf
  <2>3. frag[e[1]].remaining \in 1 .. EventOf(e).count
    BY <2>2 DEF Stands, PlacedFEC, Placed, Counting
  <2> QED BY <2>1, <2>2, <2>3
<1> QED BY <1>1, <1>2, <1>3, <1>4

LEMMA NetFacts ==
  ASSUME CountInv, HeardInv, NEW f \in net
  PROVE  /\ f.src \in Events /\ IsPublished(f.src) /\ PartOf(conf, f, EventOf(f.src))
         /\ f.fseq \in 0 .. EventOf(f.src).count - 1 /\ f.fseq \in Nat
         /\ f.blen = GetBasicHeaderLen(f.fseq) /\ IsCut(conf, EventOf(f.src))
<1>1. f.src \in Events
  BY DEF HeardInv
<1>2. f.src[2] \in 1 .. Len(published[f.src[1]]) /\ PartOf(conf, f, EventOf(f.src))
  BY DEF CountInv, NetInv
<1>3. IsPublished(f.src)
  BY <1>1, <1>2, EventFacts DEF IsPublished
<1>4. EventOf(f.src).count \in Int
  BY <1>1, <1>3, EventFacts
<1> QED BY <1>1, <1>2, <1>3, <1>4 DEF PartOf

\* What a publisher's step changes, publisher by publisher.
LEMMA PublishEffect ==
  ASSUME CountInv, NEW p \in Publishers, NEW len \in conf.lens, Publish(p, len)
  PROVE  \E v \in PubEvent, g \in Frag \cup {None} :
            /\ frag[p] = None /\ frag'[p] = g /\ v.at = now
            /\ IF g = None THEN v.count = 0
               ELSE g.remaining = v.count /\ v.count \in Nat
            /\ Len(published'[p]) = Len(published[p]) + 1
            /\ published'[p][Len(published[p]) + 1] = v
            /\ \A i \in 1 .. Len(published[p]) : published'[p][i] = published[p][i]
            /\ \A q \in Publishers \ {p} : published'[q] = published[q] /\ frag'[q] = frag[q]
            /\ UNCHANGED <<conf, net, dups, demux, handle, kept, now, received, corrupt, heard, failed>>
<1> DEFINE f == IF conf.FEC THEN InitFEC(len, conf.mtu, conf.eseq, conf.red)
                            ELSE InitNoFEC(len, conf.mtu - ExtHeader(conf.eseq, FALSE))
           v == [len |-> len, count |-> f.remaining, k |-> f.k, at |-> now]
           n == Len(published[p])
<1>1. /\ published' = [published EXCEPT ![p] = Append(@, v)]
      /\ frag' = [frag EXCEPT ![p] = IF f.err THEN None ELSE f]
      /\ frag[p] = None
      /\ UNCHANGED <<conf, net, dups, demux, handle, kept, now, received, corrupt, heard, failed>>
  BY DEF Publish
<1>2. conf \in Configs /\ now \in Nat
  BY DEF CountInv, TypeInv
<1>3. f \in Frag /\ v \in PubEvent /\ IF f.err THEN f.remaining = 0 ELSE Stands(conf, f, v)
  BY <1>2, StandsAtFirst
<1>4. published[p] \in Seq(PubEvent) /\ n \in Nat
  BY DEF CountInv, TypeInv
<1>5. v.at = now /\ v.count = f.remaining
  OBVIOUS
<1> HIDE DEF f, v
<1>6. /\ Len(Append(published[p], v)) = n + 1
      /\ Append(published[p], v)[n + 1] = v
      /\ \A i \in 1 .. n : Append(published[p], v)[i] = published[p][i]
  BY <1>3, <1>4
<1>7. /\ \A q \in Publishers \ {p} : published'[q] = published[q] /\ frag'[q] = frag[q]
      /\ published'[p] = Append(published[p], v)
      /\ frag'[p] = IF f.err THEN None ELSE f
  BY <1>1 DEF CountInv, TypeInv
<1>8. f.remaining \in Nat
  <2>1. f.remaining \in Int
    BY <1>3 DEF Frag
  <2>2. ~f.err => f.remaining \in 1 .. v.count
    BY <1>3 DEF Stands, PlacedFEC, Placed, Counting
  <2> QED BY <1>3, <1>5, <2>1, <2>2
<1>9. PICK g \in Frag \cup {None} : g = IF f.err THEN None ELSE f
  BY <1>3
<1>10. IF g = None THEN v.count = 0 ELSE g.remaining = v.count /\ v.count \in Nat
  BY <1>3, <1>5, <1>8, <1>9, NoneAssumption
<1> QED BY <1>1, <1>3, <1>5, <1>6, <1>7, <1>9, <1>10

LEMMA SendEffect ==
  ASSUME CountInv, NEW p \in Publishers, SendFragment(p)
  PROVE  LET e == <<p, Len(published[p])>>
         IN  \E f : /\ net' = net \cup {f} /\ f.src = e /\ f.fseq = frag[p].remaining - 1
                    /\ frag[p] # None /\ Len(published[p]) \in Nat \ {0}
                    /\ frag[p].remaining \in Nat \ {0}
                    /\ IF frag[p].remaining = 1 THEN frag'[p] = None
                       ELSE frag'[p] # None /\ frag'[p].remaining = frag[p].remaining - 1
                    /\ \A q \in Publishers \ {p} : frag'[q] = frag[q]
                    /\ UNCHANGED <<conf, published, dups, demux, handle, kept, now, received,
                                   corrupt, heard, failed>>
<1> DEFINE e == <<p, Len(published[p])>>
<1>1. PICK f : f = FragmentOf(frag[p], e)
  OBVIOUS
<1>2. /\ net' = net \cup {f} /\ frag[p] # None
      /\ frag' = [frag EXCEPT ![p] = IF frag[p].remaining = 1 THEN None ELSE AfterFragment(frag[p])]
      /\ UNCHANGED <<conf, published, dups, demux, handle, kept, now, received, corrupt, heard, failed>>
  BY <1>1 DEF SendFragment
<1>3. f.src = e /\ f.fseq = frag[p].remaining - 1
  BY <1>1 DEF FragmentOf
<1>4. /\ frag[p] \in Frag /\ Len(published[p]) \in Nat \ {0}
      /\ Stands(conf, frag[p], published[p][Len(published[p])])
  BY <1>2 DEF CountInv, TypeInv, PlacedInv
<1>5. frag[p].remaining \in Nat \ {0}
  <2>1. frag[p].remaining \in Int
    BY <1>4 DEF Frag
  <2>2. \E n : frag[p].remaining \in 1 .. n
    BY <1>4 DEF Stands, PlacedFEC, Placed, Counting
  <2> QED BY <2>1, <2>2
<1>6. /\ frag'[p] = IF frag[p].remaining = 1 THEN None ELSE AfterFragment(frag[p])
      /\ \A q \in Publishers \ {p} : frag'[q] = frag[q]
  BY <1>2 DEF CountInv, TypeInv
<1>7. AfterFragment(frag[p]) # None /\ AfterFragment(frag[p]).remaining = frag[p].remaining - 1
  BY <1>4, AfterFields, NoneAssumption
<1> QED BY <1>2, <1>3, <1>4, <1>5, <1>6, <1>7

\* A new event, of which nothing was sent yet.
LEMMA PublishTransports ==
  ASSUME CountInv, TransportInv, NEW p \in Publishers, NEW len \in conf.lens, Publish(p, len)
  PROVE  TransportInv'
<1>1. PICK v \in PubEvent, g \in Frag \cup {None} :
            /\ frag[p] = None /\ frag'[p] = g /\ v.at = now
            /\ IF g = None THEN v.count = 0
               ELSE g.remaining = v.count /\ v.count \in Nat
            /\ Len(published'[p]) = Len(published[p]) + 1
            /\ published'[p][Len(published[p]) + 1] = v
            /\ \A i \in 1 .. Len(published[p]) : published'[p][i] = published[p][i]
            /\ \A q \in Publishers \ {p} : published'[q] = published[q] /\ frag'[q] = frag[q]
            /\ UNCHANGED <<conf, net, dups, demux, handle, kept, now, received, corrupt, heard, failed>>
  BY PublishEffect
<1>2. PICK new : new = <<p, Len(published[p]) + 1>>
  OBVIOUS
<1>3. Len(published[p]) \in Nat /\ now \in Nat /\ Keep \in Nat
  BY TransferAssumption DEF CountInv, TypeInv
<1>4. \A e \in Events : /\ IsPublished(e) => /\ e # new /\ IsPublished(e)' /\ EventOf(e)' = EventOf(e)
                                             /\ (Due(e)' <=> Due(e))
                                             /\ (Due(e) => frag'[e[1]] = frag[e[1]])
                        /\ ~IsPublished(e) => (IsPublished(e)' => e = new) /\ (Due(e)' => e = new)
  <2> TAKE e \in Events
  <2>1. e[1] \in Publishers /\ e[2] \in Nat \ {0} /\ e = <<e[1], e[2]>> /\ Len(published[e[1]]) \in Nat
    BY EventFacts
  <2>2. CASE e[1] = p
    BY <1>1, <1>2, <1>3, <2>1, <2>2 DEF IsPublished, EventOf, Due
  <2>3. CASE e[1] # p
    BY <1>1, <1>2, <1>3, <2>1, <2>3 DEF IsPublished, EventOf, Due
  <2> QED BY <2>2, <2>3
<1>5. EventOf(new)' = v /\ (Due(new)' <=> g # None) /\ (g # None => frag'[new[1]].remaining = v.count)
  BY <1>1, <1>2, <1>3 DEF EventOf, Due
<1>6. \A f \in net : f.src \in Events /\ IsPublished(f.src)
  BY NetFacts DEF TransportInv
<1>7. \A e \in Events : heard[e] # {} => IsPublished(e)
  BY DEF TransportInv, HeardInv
<1>8. HeardInv'
  BY <1>1, <1>4 DEF TransportInv, HeardInv
<1>9. SentInv'
  <2>1. \A e \in Events : Due(e)' /\ IsPublished(e) => frag'[e[1]] = frag[e[1]] /\ Due(e)
    BY <1>4
  <2>2. \A e \in Events : ~IsPublished(e) => heard[e] = {} /\ \A f \in net : f.src # e
    BY <1>6, <1>7
  <2> QED BY <1>1, <2>1, <2>2 DEF TransportInv, SentInv
<1>10. HeardOnce'
  BY <1>1 DEF TransportInv, HeardOnce
<1>11. NoneLost'
  <2> SUFFICES ASSUME "loss" \notin conf.net, NEW e \in Events, IsPublished(e)',
                      NEW i \in 0 .. EventOf(e)'.count - 1
               PROVE  i \in heard[e] \/ Coming(e, i)' \/ TooLong(i)
    BY <1>1 DEF NoneLost, TooLong
  <2>1. CASE IsPublished(e)
    <3>1. i \in heard[e] \/ Coming(e, i) \/ TooLong(i)
      BY <1>4, <2>1 DEF TransportInv, NoneLost
    <3>2. Coming(e, i) => Coming(e, i)'
      BY <1>1, <1>4, <2>1 DEF Coming
    <3> QED BY <3>1, <3>2
  <2>2. CASE ~IsPublished(e)
    <3>1. e = new
      BY <1>4, <2>2
    <3>2. g # None /\ i < v.count
      BY <1>1, <1>5, <3>1
    <3> QED BY <1>5, <3>1, <3>2 DEF Coming
  <2> QED BY <2>1, <2>2
<1>12. HeardInOrder'
  <2> SUFFICES ASSUME conf.net = {}, NEW e \in Events, NEW i \in heard[e],
                      NEW j \in i + 1 .. EventOf(e)'.count - 1
               PROVE  j \in heard[e] \/ TooLong(j)
    BY <1>1 DEF HeardInOrder, TooLong
  <2> QED BY <1>4, <1>7 DEF TransportInv, HeardInOrder
<1>13. InTime'
  <2> SUFFICES ASSUME NEW e \in Events, IsPublished(e)'
               PROVE  EventOf(e)'.at <= now /\ (Gone(e)' \/ now <= EventOf(e)'.at + Keep)
    BY <1>1 DEF InTime
  <2>1. CASE IsPublished(e)
    BY <1>1, <1>4, <2>1 DEF TransportInv, InTime, Gone
  <2>2. CASE ~IsPublished(e)
    BY <1>1, <1>3, <1>4, <1>5, <2>2
  <2> QED BY <2>1, <2>2
<1> QED BY <1>8, <1>9, <1>10, <1>11, <1>12, <1>13 DEF TransportInv

\* A fragment that was due is under way.
LEMMA SendTransports ==
  ASSUME CountInv, TransportInv, NEW p \in Publishers, SendFragment(p)
  PROVE  TransportInv'
<1>1. PICK e : e = <<p, Len(published[p])>>
  OBVIOUS
<1>2. PICK f : /\ net' = net \cup {f} /\ f.src = e /\ f.fseq = frag[p].remaining - 1
               /\ frag[p] # None /\ Len(published[p]) \in Nat \ {0}
               /\ frag[p].remaining \in Nat \ {0}
               /\ IF frag[p].remaining = 1 THEN frag'[p] = None
                  ELSE frag'[p] # None /\ frag'[p].remaining = frag[p].remaining - 1
               /\ \A q \in Publishers \ {p} : frag'[q] = frag[q]
               /\ UNCHANGED <<conf, published, dups, demux, handle, kept, now, received,
                              corrupt, heard, failed>>
  BY <1>1, SendEffect
<1>13. PICK n \in Nat \ {0} : n = frag[p].remaining
  BY <1>2
<1>14. PICK r \in Nat : r = n - 1 /\ n = r + 1
  OBVIOUS
<1>3. r = frag[p].remaining - 1 /\ f.fseq = r /\ frag[p].remaining = r + 1
  BY <1>2, <1>13, <1>14
<1>4. e \in Events /\ Due(e) /\ e[1] = p
  <2>1. Len(published[p]) <= conf.events /\ conf \in Configs
    BY DEF CountInv, TypeInv, PublishedInv
  <2>2. conf.events \in 0 .. MaxEvents /\ MaxEvents \in Nat
    BY <2>1, TransferAssumption
  <2>3. Len(published[p]) \in 1 .. MaxEvents
    BY <1>2, <2>1, <2>2
  <2> QED BY <1>1, <1>2, <2>3 DEF Events, Due
<1>5. \A x \in Events : /\ IsPublished(x)' <=> IsPublished(x)
                        /\ EventOf(x)' = EventOf(x)
                        /\ x # e => (Due(x)' <=> Due(x))
                        /\ x # e /\ Due(x) => frag'[x[1]] = frag[x[1]]
  <2> TAKE x \in Events
  <2>1. x[1] \in Publishers /\ x = <<x[1], x[2]>>
    BY EventFacts
  <2>2. (IsPublished(x)' <=> IsPublished(x)) /\ EventOf(x)' = EventOf(x)
    BY <1>2 DEF IsPublished, EventOf
  <2>3. CASE x[1] = p /\ x # e
    <3>1. x[2] # Len(published[p])
      BY <1>1, <2>1, <2>3
    <3> QED BY <1>2, <2>2, <2>3, <3>1 DEF Due
  <2>4. CASE x[1] # p
    <3>1. frag'[x[1]] = frag[x[1]]
      BY <1>2, <2>1, <2>4
    <3> QED BY <1>2, <2>2, <3>1 DEF Due
  <2> QED BY <1>4, <2>2, <2>3, <2>4
<1>15. Due(e)' => frag'[p].remaining = r /\ r # 0
  BY <1>2, <1>3, <1>4 DEF Due
<1>6. /\ \A i \in heard[e] : i \in Nat /\ r < i
      /\ \A g \in net : g.src = e => g.fseq \in Nat /\ r < g.fseq
  <2>1. heard[e] \subseteq Nat /\ \A g \in net : g.fseq \in Nat
    BY <1>4, NetFacts DEF TransportInv, HeardInv
  <2>2. /\ \A i \in heard[e] : r + 1 <= i
        /\ \A g \in net : g.src = e => r + 1 <= g.fseq
    BY <1>3, <1>4 DEF TransportInv, SentInv
  <2> QED BY <2>1, <2>2
<1>7. HeardInv'
  BY <1>2, <1>4, <1>5 DEF TransportInv, HeardInv
<1>8. SentInv'
  <2>1. \A g, h \in net' : g.src = h.src /\ g.fseq = h.fseq => g = h
    BY <1>2, <1>3, <1>6 DEF TransportInv, SentInv
  <2>2. ASSUME NEW x \in Events, Due(x)'
        PROVE  /\ \A i \in heard[x] : frag'[x[1]].remaining <= i
               /\ \A g \in net' : g.src = x => frag'[x[1]].remaining <= g.fseq
    <3>1. CASE x = e
      BY <1>2, <1>3, <1>4, <1>6, <1>15, <2>2, <3>1
    <3>2. CASE x # e
      BY <1>2, <1>5, <2>2, <3>2 DEF TransportInv, SentInv
    <3> QED BY <3>1, <3>2
  <2> QED BY <1>2, <2>1, <2>2 DEF SentInv
<1>9. HeardOnce'
  BY <1>2, <1>3, <1>6 DEF TransportInv, HeardOnce
<1>10. NoneLost'
  <2> SUFFICES ASSUME "loss" \notin conf.net, NEW x \in Events, IsPublished(x)',
                      NEW i \in 0 .. EventOf(x)'.count - 1
               PROVE  i \in heard[x] \/ Coming(x, i)' \/ TooLong(i)
    BY <1>2 DEF NoneLost, TooLong
  <2>1. i \in heard[x] \/ Coming(x, i) \/ TooLong(i)
    BY <1>5 DEF TransportInv, NoneLost
  <2>2. ASSUME Coming(x, i) PROVE Coming(x, i)'
    <3>1. CASE \E g \in net : g.src = x /\ g.fseq = i
      BY <1>2, <3>1 DEF Coming
    <3>2. CASE x # e /\ Due(x) /\ i < frag[x[1]].remaining
      BY <1>5, <3>2 DEF Coming
    <3>3. CASE x = e /\ i < frag[p].remaining
      <4>1. i = r \/ i < r
        BY <1>3, <3>3
      <4>2. i = r => Coming(x, i)'
        BY <1>2, <1>3, <3>3 DEF Coming
      <4>3. ASSUME i < r PROVE Coming(x, i)'
        <5>1. frag'[p] # None /\ frag'[p].remaining = r
          BY <1>2, <1>3, <4>3
        <5> QED BY <1>1, <1>2, <1>4, <3>3, <4>3, <5>1 DEF Coming, Due
      <4> QED BY <4>1, <4>2, <4>3
    <3> QED BY <1>4, <2>2, <3>1, <3>2, <3>3 DEF Coming
  <2> QED BY <2>1, <2>2
<1>11. HeardInOrder'
  BY <1>2, <1>5 DEF TransportInv, HeardInOrder, TooLong
<1>12. InTime'
  <2> SUFFICES ASSUME NEW x \in Events, IsPublished(x)
               PROVE  EventOf(x).at <= now /\ (Gone(x)' \/ now <= EventOf(x).at + Keep)
    BY <1>2, <1>5 DEF InTime
  <2>1. EventOf(x).at <= now /\ (Gone(x) \/ now <= EventOf(x).at + Keep)
    BY DEF TransportInv, InTime
  <2>2. Gone(x) => Gone(x)'
    BY <1>2, <1>4, <1>5 DEF Gone
  <2> QED BY <2>1, <2>2
<1> QED BY <1>7, <1>8, <1>9, <1>10, <1>11, <1>12 DEF TransportInv

\* A fragment goes, to the receiver or nowhere.
LEMMA GoneTransports ==
  ASSUME CountInv, TransportInv, NEW f \in net, net' \in {net, net \ {f}},
         net' = net => "dup" \in conf.net,
         UNCHANGED <<conf, frag, published, now>>,
         \/ UNCHANGED heard /\ ("loss" \in conf.net \/ TooLong(f.fseq))
         \/ heard' = [heard EXCEPT ![f.src] = @ \cup {f.fseq}] /\ MayArrive(f)
  PROVE  TransportInv'
<1> DEFINE e == f.src
<1>1. /\ e \in Events /\ IsPublished(e) /\ f.fseq \in 0 .. EventOf(e).count - 1 /\ f.fseq \in Nat
      /\ IsCut(conf, EventOf(e))
  BY NetFacts DEF TransportInv
<1>2. /\ heard \in [Events -> SUBSET Nat]
      /\ \A x \in Events \ {e} : heard'[x] = heard[x]
      /\ heard'[e] \in {heard[e], heard[e] \cup {f.fseq}}
      /\ heard'[e] = heard[e] => \/ "loss" \in conf.net \/ TooLong(f.fseq) \/ f.fseq \in heard[e]
  BY <1>1 DEF TransportInv, HeardInv
<1>3. /\ \A x : IsPublished(x)' <=> IsPublished(x)
      /\ \A x : EventOf(x)' = EventOf(x)
      /\ \A x : Due(x)' <=> Due(x)
  BY DEF IsPublished, EventOf, Due
<1>4. HeardInv'
  <2>1. heard' \in [Events -> SUBSET Nat]
    BY <1>1, <1>2
  <2>2. ASSUME NEW x \in Events, heard'[x] # {}
        PROVE  IsPublished(x) /\ IsCut(conf, EventOf(x)) /\ heard'[x] \subseteq 0 .. EventOf(x).count - 1
    BY <1>1, <1>2, <2>2 DEF TransportInv, HeardInv
  <2> QED BY <1>3, <2>1, <2>2 DEF TransportInv, HeardInv
<1>5. SentInv'
  <2> SUFFICES ASSUME NEW x \in Events, Due(x), NEW i \in heard'[x]
               PROVE  frag[x[1]].remaining <= i
    BY <1>3 DEF TransportInv, SentInv
  <2> QED BY <1>1, <1>2 DEF TransportInv, SentInv
<1>6. HeardOnce'
  <2> SUFFICES ASSUME "dup" \notin conf.net, NEW g \in net' PROVE g.fseq \notin heard'[g.src]
    BY DEF HeardOnce
  <2>1. g \in net /\ g # f /\ g.fseq \notin heard[g.src] /\ g.src \in Events
    BY NetFacts DEF TransportInv, HeardOnce
  <2>2. g.src = e => g.fseq # f.fseq
    BY <2>1 DEF TransportInv, SentInv
  <2> QED BY <1>2, <2>1, <2>2
<1>7. NoneLost'
  <2> SUFFICES ASSUME "loss" \notin conf.net, NEW x \in Events, IsPublished(x),
                      NEW i \in 0 .. EventOf(x).count - 1
               PROVE  i \in heard'[x] \/ Coming(x, i)' \/ TooLong(i)
    BY <1>3 DEF NoneLost, TooLong
  <2>1. i \in heard[x] \/ Coming(x, i) \/ TooLong(i)
    BY DEF TransportInv, NoneLost
  <2>2. Coming(x, i) => Coming(x, i)' \/ (x = e /\ i = f.fseq)
    BY <1>3 DEF Coming
  <2>3. x = e /\ i = f.fseq => i \in heard'[x] \/ TooLong(i)
    BY <1>2
  <2>4. heard[x] \subseteq heard'[x]
    BY <1>2
  <2> QED BY <2>1, <2>2, <2>3, <2>4
<1>8. HeardInOrder'
  <2> SUFFICES ASSUME conf.net = {}, NEW x \in Events, NEW i \in heard'[x],
                      NEW j \in i + 1 .. EventOf(x).count - 1
               PROVE  j \in heard'[x] \/ TooLong(j)
    BY <1>3 DEF HeardInOrder, TooLong
  <2>1. CASE i \in heard[x]
    BY <1>2, <2>1 DEF TransportInv, HeardInOrder
  <2>2. CASE i \notin heard[x]
    <3>1. x = e /\ i = f.fseq /\ MayArrive(f)
      BY <1>2, <2>2
    <3>2. j \in 0 .. EventOf(e).count - 1 /\ j > f.fseq
      BY <1>1, <3>1
    <3>3. j \in heard[e] \/ Coming(e, j) \/ TooLong(j)
      BY <1>1, <3>2 DEF TransportInv, NoneLost
    <3>4. ~Coming(e, j)
      <4>1. ~\E g \in net : g.src = e /\ g.fseq = j
        BY <3>1, <3>2 DEF MayArrive, Earlier
      <4>2. Due(e) => frag[e[1]].remaining <= f.fseq /\ frag[e[1]].remaining \in Int
        BY <1>1, EventFacts DEF TransportInv, SentInv
      <4> QED BY <1>1, <3>2, <4>1, <4>2 DEF Coming
    <3> QED BY <1>2, <3>1, <3>3, <3>4
  <2> QED BY <2>1, <2>2
<1>9. InTime'
  BY <1>3 DEF TransportInv, InTime, Gone
<1> QED BY <1>4, <1>5, <1>6, <1>7, <1>8, <1>9 DEF TransportInv

\* Time goes on.
LEMMA TickTransports ==
  ASSUME CountInv, TransportInv, Tick
  PROVE  TransportInv'
<1>1. /\ now' = now + 1 /\ UNCHANGED <<conf, frag, published, net, heard>> /\ now \in Nat
      /\ \A f \in net : Fresh(f.src)
      /\ \A p \in Publishers : frag[p] # None => Fresh(<<p, Len(published[p])>>)
  BY DEF Tick, CountInv, TypeInv
<1>2. HeardInv' /\ SentInv' /\ HeardOnce' /\ NoneLost' /\ HeardInOrder'
  BY <1>1 DEF TransportInv, HeardInv, SentInv, HeardOnce, NoneLost, HeardInOrder, IsPublished,
              EventOf, Due, Coming, TooLong
<1>3. InTime'
  <2> SUFFICES ASSUME NEW e \in Events, IsPublished(e)
               PROVE  EventOf(e).at <= now + 1 /\ (Gone(e) \/ now + 1 <= EventOf(e).at + Keep)
    BY <1>1 DEF InTime, IsPublished, EventOf, Gone, Due
  <2>1. EventOf(e).at \in Nat /\ Keep \in Nat /\ EventOf(e).at <= now
    BY EventFacts, TransferAssumption DEF TransportInv, InTime
  <2>2. ~Gone(e) => now - EventOf(e).at < Keep
    <3>1. CASE Due(e)
      <4>1. e[1] \in Publishers /\ e = <<e[1], e[2]>>
        BY EventFacts
      <4>2. Fresh(e)
        BY <1>1, <3>1, <4>1 DEF Due
      <4> QED BY <4>2 DEF Fresh
    <3> QED BY <1>1, <3>1 DEF Gone, Fresh
  <2> QED BY <1>1, <2>1, <2>2
<1> QED BY <1>2, <1>3 DEF TransportInv

LEMMA OthersTransport ==
  ASSUME TransportInv, UNCHANGED <<conf, frag, published, net, heard, now>>
  PROVE  TransportInv'
BY DEF TransportInv, HeardInv, SentInv, HeardOnce, NoneLost, HeardInOrder, InTime, IsPublished,
       EventOf, Due, Coming, Gone, TooLong

LEMMA NextTransports == ASSUME CountInv, TransportInv, [Next]_vars PROVE TransportInv'
<1> DEFINE Quiet == UNCHANGED <<conf, frag, published, net, heard, now>>
<1>1. ASSUME NEW f \in net, NEW again \in BOOLEAN, Arrives(f, again)
      PROVE  net' \in {net, net \ {f}} /\ (net' = net => "dup" \in conf.net) /\ MayArrive(f)
  BY <1>1 DEF Arrives
<1>2. ASSUME NEW f \in net, NEW again \in BOOLEAN, DropFragment(f, again) PROVE TransportInv'
  <2>1. f.blen = GetBasicHeaderLen(f.fseq)
    BY NetFacts DEF TransportInv
  <2>2. TooLong(f.fseq) /\ UNCHANGED <<conf, frag, published, now, heard>> /\ Arrives(f, again)
    BY <1>2, <2>1 DEF DropFragment, HeaderError, TooLong
  <2> QED BY <1>1, <2>2, GoneTransports
<1>3. ASSUME NEW f \in net, NEW again \in BOOLEAN, NEW cleans \in BOOLEAN, ProcessFragment(f, again, cleans)
      PROVE  TransportInv'
  <2>1. /\ Arrives(f, again) /\ UNCHANGED <<conf, frag, published, now>>
        /\ heard' = [heard EXCEPT ![f.src] = @ \cup {f.fseq}]
    BY <1>3 DEF ProcessFragment
  <2> QED BY <1>1, <2>1, GoneTransports
<1>4. ASSUME NEW f \in net, LoseFragment(f) PROVE TransportInv'
  <2>1. /\ net' = net \ {f} /\ "loss" \in conf.net /\ UNCHANGED <<conf, frag, published, now, heard>>
        /\ net' # net
    BY <1>4 DEF LoseFragment
  <2> QED BY <2>1, GoneTransports
<1>5. ASSUME EventProcessed \/ KeepEvent \/ \E d \in kept : KeptEventProcessed(d) PROVE Quiet
  BY <1>5 DEF EventProcessed, KeepEvent, KeptEventProcessed
<1>6. UNCHANGED vars => Quiet
  BY DEF vars
<1>7. Quiet => TransportInv'
  BY OthersTransport
<1> HIDE DEF Quiet
<1>8. CASE \E p \in Publishers : (\E len \in conf.lens : Publish(p, len)) \/ SendFragment(p)
  BY <1>8, PublishTransports, SendTransports
<1> QED BY <1>2, <1>3, <1>4, <1>5, <1>6, <1>7, <1>8, TickTransports DEF Next
-----------------------------------------------------------------------------
(* What put_fragment makes of a defragmenter.                              *)

IsDefragmenter(d) ==
    d = [room |-> d.room, seen |-> d.seen, count |-> d.count, final |-> d.final,
         arrived |-> d.arrived, len |-> d.len, k |-> d.k, data |-> d.data]

\* The part of an event that a fragment carries, at a place.
PartAt(f, place) == [src |-> f.src, fseq |-> f.fseq, from |-> f.from, len |-> f.len, at |-> place]

\* A fragment is stored at a place, and the rest of the defragmenter is new.
Stored(d, seen, f, place, count, final, len, k) ==
    [room |-> d.room, seen |-> seen, count |-> count, final |-> final, arrived |-> d.arrived + 1,
     len |-> len, k |-> k, data |-> d.data \cup {PartAt(f, place)}]

LEMMA StoreIs ==
  ASSUME NEW d, IsDefragmenter(d), NEW f, NEW place, NEW s, s = Store(d, f, place)
  PROVE  s = Stored(d, d.seen, f, place, d.count, d.final, d.len, d.k)
<1>1. PICK a, p : a = d.arrived + 1 /\ p = d.data \cup {PartAt(f, place)}
  OBVIOUS
<1>2. PICK x : x = [d EXCEPT !.arrived = a]
  OBVIOUS
<1>3. x = [room |-> d.room, seen |-> d.seen, count |-> d.count, final |-> d.final,
           arrived |-> a, len |-> d.len, k |-> d.k, data |-> d.data]
  BY <1>2 DEF IsDefragmenter
<1>4. s = [x EXCEPT !.data = p]
  BY <1>1, <1>2 DEF Store, PartAt
<1>5. s = [room |-> d.room, seen |-> d.seen, count |-> d.count, final |-> d.final,
           arrived |-> a, len |-> d.len, k |-> d.k, data |-> p]
  BY <1>3, <1>4
<1> QED BY <1>1, <1>5 DEF Stored

\* Three fields of a record change.
LEMMA ThreeFields ==
  ASSUME NEW s, IsDefragmenter(s), NEW a, NEW b, NEW l
  PROVE  [s EXCEPT !.count = a, !.final = b, !.len = l]
            = [room |-> s.room, seen |-> s.seen, count |-> a, final |-> b,
               arrived |-> s.arrived, len |-> l, k |-> s.k, data |-> s.data]
<1>1. PICK x : x = [s EXCEPT !.count = a]
  OBVIOUS
<1>2. PICK y : y = [x EXCEPT !.final = b]
  OBVIOUS
<1>3. PICK z : z = [y EXCEPT !.len = l]
  OBVIOUS
<1>4. x = [room |-> s.room, seen |-> s.seen, count |-> a, final |-> s.final,
           arrived |-> s.arrived, len |-> s.len, k |-> s.k, data |-> s.data]
  BY <1>1 DEF IsDefragmenter
<1>5. y = [room |-> s.room, seen |-> s.seen, count |-> a, final |-> b,
           arrived |-> s.arrived, len |-> s.len, k |-> s.k, data |-> s.data]
  BY <1>2, <1>4
<1>6. z = [room |-> s.room, seen |-> s.seen, count |-> a, final |-> b,
           arrived |-> s.arrived, len |-> l, k |-> s.k, data |-> s.data]
  BY <1>3, <1>5
<1>7. [s EXCEPT !.count = a, !.final = b, !.len = l] = z
  BY <1>1, <1>2, <1>3
<1> QED BY <1>6, <1>7

\* The number of fragments that OutOfOrderEventDataReconstructor reckons with.
Reckoned(count, f) ==
    CASE count = 0 /\ f.first        -> f.fseq + 1
      [] count = 0 /\ ~f.first       -> f.fseq + 2
      [] count > 0 /\ f.fseq >= count -> f.fseq + 1
      [] OTHER                       -> count

LEMMA PutOutOfOrderIs ==
  ASSUME NEW d, IsDefragmenter(d), NEW f, ~f.fec
  PROVE  PutOutOfOrder(d, f)
            = Stored(d, d.seen, f, GetPayload(f.fseq + 1, d.room), Reckoned(d.count, f),
                     d.final \/ f.first, d.len + f.len, d.k)
<1>1. PICK p, n, b, l : /\ p = GetPayload(f.fseq + 1, d.room) /\ n = Reckoned(d.count, f)
                        /\ b = (d.final \/ f.first) /\ l = d.len + f.len
  OBVIOUS
<1>2. PICK s : s = Store(d, f, p)
  OBVIOUS
<1>3. s = Stored(d, d.seen, f, p, d.count, d.final, d.len, d.k)
  BY <1>2, StoreIs
<1>4. PutOutOfOrder(d, f) = [s EXCEPT !.count = n, !.final = b, !.len = l]
  BY <1>1, <1>2, Zenon DEF PutOutOfOrder, Reckoned
<1>5. IsDefragmenter(s)
  BY <1>3 DEF IsDefragmenter, Stored
<1>6. PutOutOfOrder(d, f) = [room |-> s.room, seen |-> s.seen, count |-> n, final |-> b,
                             arrived |-> s.arrived, len |-> l, k |-> s.k, data |-> s.data]
  BY <1>4, <1>5, ThreeFields
<1>7. PutOutOfOrder(d, f) = Stored(d, d.seen, f, p, n, b, l, d.k)
  BY <1>3, <1>6 DEF Stored
<1> QED BY <1>1, <1>7

\* The four ways to store a fragment.
PutEffect(kind, d, f, seen, put) ==
    \/ /\ kind = "inorder" /\ ~f.fec /\ d.count = 0 /\ f.first
       /\ put = Stored(d, seen, f, 0, f.fseq + 1, d.final, f.len, d.k)
    \/ /\ kind = "inorder" /\ ~f.fec /\ d.count # 0 /\ d.count - f.fseq - 1 = d.arrived
       /\ put = Stored(d, seen, f, d.len, d.count, d.final, d.len + f.len, d.k)
    \/ /\ kind # "inorder" /\ ~f.fec
       /\ put = Stored(d, seen, f, GetPayload(f.fseq + 1, d.room), Reckoned(d.count, f),
                       d.final \/ f.first, d.len + f.len, IF kind = "fec" THEN 0 ELSE d.k)
    \/ /\ kind = "fec" /\ f.fec /\ d.k # 0
       /\ put = Stored(d, seen, f, f.from, WithRedundancy(f.k, f.red), d.final,
                       (f.k - 1) * FECPayload(d, f) + f.rest, f.k)

LEMMA PutIs ==
  ASSUME NEW d, IsDefragmenter(d), d.count \in Nat, NEW f,
         NEW kind \in {"inorder", "outoforder", "fec"}, NEW checks \in BOOLEAN,
         NEW put, put = PutFragment(kind, checks, d, f), put.room # 0,
         f.fec => kind = "fec"
  PROVE  IF checks /\ f.fseq \in d.seen THEN put = d
         ELSE PutEffect(kind, d, f, IF checks THEN d.seen \cup {f.fseq} ELSE d.seen, put)
<1> SUFFICES ASSUME ~(checks /\ f.fseq \in d.seen)
             PROVE  PutEffect(kind, d, f, IF checks THEN d.seen \cup {f.fseq} ELSE d.seen, put)
  BY DEF PutFragment
<1>1. PICK seen : seen = IF checks THEN d.seen \cup {f.fseq} ELSE d.seen
  OBVIOUS
<1>2. PICK e : e = IF checks THEN [d EXCEPT !.seen = @ \cup {f.fseq}] ELSE d
  OBVIOUS
<1>3. e = [room |-> d.room, seen |-> seen, count |-> d.count, final |-> d.final,
           arrived |-> d.arrived, len |-> d.len, k |-> d.k, data |-> d.data]
  <2>1. PICK x : x = [d EXCEPT !.seen = seen]
    OBVIOUS
  <2>2. x = [room |-> d.room, seen |-> seen, count |-> d.count, final |-> d.final,
             arrived |-> d.arrived, len |-> d.len, k |-> d.k, data |-> d.data]
    BY <2>1 DEF IsDefragmenter
  <2>3. ~checks => seen = d.seen /\ e = d
    BY <1>1, <1>2
  <2>4. checks => e = x
    BY <1>1, <1>2, <2>1
  <2> QED BY <2>2, <2>3, <2>4 DEF IsDefragmenter
<1>4. /\ IsDefragmenter(e) /\ e.room = d.room /\ e.seen = seen /\ e.count = d.count /\ e.final = d.final
      /\ e.arrived = d.arrived /\ e.len = d.len /\ e.k = d.k /\ e.data = d.data
  BY <1>3 DEF IsDefragmenter
<1>5. d.room # 0
  BY DEF PutFragment, Error
<1>6. put = CASE kind = "inorder"    -> PutInOrder(e, f)
              [] kind = "outoforder" -> PutOutOfOrder(e, f)
              [] kind = "fec"        -> PutFEC(e, f)
  BY <1>2, <1>5 DEF PutFragment, Error
<1>7. SetError(e).room = 0
  BY <1>4 DEF SetError, IsDefragmenter
<1>8. \A place, n, b, l, k : Stored(e, seen, f, place, n, b, l, k) = Stored(d, seen, f, place, n, b, l, k)
  BY <1>4 DEF Stored
<1>9. CASE kind = "inorder"
  <2>1. put = PutInOrder(e, f) /\ ~f.fec
    BY <1>6, <1>9
  <2>2. CASE e.count = 0
    <3>1. f.first /\ put = [Store(e, f, 0) EXCEPT !.count = f.fseq + 1, !.len = f.len]
      BY <1>7, <2>1, <2>2 DEF PutInOrder
    <3>2. PICK s : s = Store(e, f, 0)
      OBVIOUS
    <3>3. s = Stored(e, seen, f, 0, e.count, e.final, e.len, e.k)
      BY <1>4, <3>2, StoreIs
    <3>4. PICK a, l : a = f.fseq + 1 /\ l = f.len
      OBVIOUS
    <3>5. PICK x : x = [s EXCEPT !.count = a]
      OBVIOUS
    <3>6. x = Stored(e, seen, f, 0, a, e.final, e.len, e.k)
      BY <3>3, <3>5 DEF Stored
    <3>7. put = [x EXCEPT !.len = l]
      BY <3>1, <3>2, <3>4, <3>5
    <3>8. put = Stored(e, seen, f, 0, a, e.final, l, e.k)
      BY <3>6, <3>7 DEF Stored
    <3> QED BY <1>1, <1>4, <1>8, <1>9, <2>1, <2>2, <3>1, <3>4, <3>8 DEF PutEffect
  <2>3. CASE e.count # 0
    <3>1. /\ e.count - f.fseq - 1 = e.arrived
          /\ put = [Store(e, f, e.len) EXCEPT !.len = e.len + f.len]
      BY <1>4, <1>7, <2>1, <2>3 DEF PutInOrder
    <3>2. PICK s, l : s = Store(e, f, e.len) /\ l = e.len + f.len
      OBVIOUS
    <3>3. s = Stored(e, seen, f, e.len, e.count, e.final, e.len, e.k)
      BY <1>4, <3>2, StoreIs
    <3>4. put = [s EXCEPT !.len = l]
      BY <3>1, <3>2
    <3>5. put = Stored(e, seen, f, e.len, e.count, e.final, l, e.k)
      BY <3>3, <3>4 DEF Stored
    <3> QED BY <1>1, <1>4, <1>8, <1>9, <2>1, <2>3, <3>1, <3>2, <3>5 DEF PutEffect
  <2> QED BY <2>2, <2>3
<1>10. CASE kind = "outoforder"
  <2>1. put = PutOutOfOrder(e, f) /\ ~f.fec
    BY <1>6, <1>10
  <2>2. put = Stored(e, seen, f, GetPayload(f.fseq + 1, e.room), Reckoned(e.count, f),
                     e.final \/ f.first, e.len + f.len, e.k)
    BY <1>4, <2>1, PutOutOfOrderIs
  <2> QED BY <1>1, <1>4, <1>8, <1>10, <2>1, <2>2 DEF PutEffect
<1>11. CASE kind = "fec" /\ ~f.fec
  <2>1. put = [PutOutOfOrder(e, f) EXCEPT !.k = 0]
    BY <1>6, <1>11 DEF PutFEC
  <2>2. PICK t, p, n, b, l :
           /\ p = GetPayload(f.fseq + 1, e.room) /\ n = Reckoned(e.count, f)
           /\ b = (e.final \/ f.first) /\ l = e.len + f.len /\ t = PutOutOfOrder(e, f)
    OBVIOUS
  <2>3. t = Stored(e, seen, f, p, n, b, l, e.k)
    BY <1>4, <1>11, <2>2, PutOutOfOrderIs
  <2>4. put = [t EXCEPT !.k = 0]
    BY <2>1, <2>2
  <2>5. put = Stored(e, seen, f, p, n, b, l, 0)
    BY <2>3, <2>4 DEF Stored
  <2> QED BY <1>1, <1>4, <1>8, <1>11, <2>2, <2>5 DEF PutEffect
<1>12. CASE kind = "fec" /\ f.fec
  <2>1. e.k # 0
    BY <1>6, <1>7, <1>12 DEF PutFEC
  <2>2. PICK kk, n, l, s : /\ kk = f.k /\ n = WithRedundancy(f.k, f.red)
                           /\ l = (f.k - 1) * FECPayload(e, f) + f.rest /\ s = Store(e, f, f.from)
    OBVIOUS
  <2>3. put = [s EXCEPT !.k = kk, !.count = n, !.len = l]
    BY <1>6, <1>12, <2>1, <2>2 DEF PutFEC
  <2>4. s = Stored(e, seen, f, f.from, e.count, e.final, e.len, e.k)
    BY <1>4, <2>2, StoreIs
  <2>5. PICK x : x = [s EXCEPT !.k = kk]
    OBVIOUS
  <2>6. PICK y : y = [x EXCEPT !.count = n]
    OBVIOUS
  <2>a. PICK a, p : a = e.arrived + 1 /\ p = e.data \cup {PartAt(f, f.from)}
    OBVIOUS
  <2>b. x = [room |-> e.room, seen |-> seen, count |-> e.count, final |-> e.final,
             arrived |-> a, len |-> e.len, k |-> kk, data |-> p]
    BY <2>4, <2>5, <2>a DEF Stored
  <2>c. y = [room |-> e.room, seen |-> seen, count |-> n, final |-> e.final,
             arrived |-> a, len |-> e.len, k |-> kk, data |-> p]
    BY <2>6, <2>b
  <2>7. y = Stored(e, seen, f, f.from, n, e.final, e.len, kk)
    BY <2>a, <2>c DEF Stored
  <2>8. put = [y EXCEPT !.len = l]
    BY <2>3, <2>5, <2>6
  <2>9. put = Stored(e, seen, f, f.from, n, e.final, l, kk)
    BY <2>7, <2>8 DEF Stored
  <2>10. FECPayload(e, f) = FECPayload(d, f)
    BY <1>4 DEF FECPayload
  <2> QED BY <1>1, <1>4, <1>8, <1>12, <2>1, <2>2, <2>9, <2>10 DEF PutEffect
<1> QED BY <1>9, <1>10, <1>11, <1>12

-----------------------------------------------------------------------------
(* What a defragmenter holds.                                              *)

Numbers(d) == {x.fseq : x \in d.data}

\* The bytes of an event that its fragments from number n on carry.
Before(c, v, n) ==
    IF n = 0 THEN v.len ELSE GetPayload(v.count, RoomOf(c)) - GetPayload(n, RoomOf(c))

\* A part of the event without redundancy is at its place.
PlacedPart(c, kind, x, v) ==
    /\ x.from = Before(c, v, x.fseq + 1)
    /\ x.len = Before(c, v, x.fseq) - x.from
    /\ x.at = IF kind = "inorder" THEN x.from ELSE GetPayload(x.fseq + 1, RoomOf(c))

\* In order, the parts are those before the next one.
HoldsInOrder(c, d, v) ==
    /\ d.arrived \in 0 .. v.count
    /\ d.count = IF d.arrived = 0 THEN 0 ELSE v.count
    /\ Numbers(d) = v.count - d.arrived .. v.count - 1
    /\ d.len = Before(c, v, v.count - d.arrived)

\* Out of order, the lengths of the parts add up.
AddsUp(c, g, d, v) ==
    /\ g \in [0 .. v.count -> Int]
    /\ g[0] = 0 /\ d.len = g[v.count]
    /\ \A n \in 0 .. v.count - 1 :
          g[n + 1] = g[n] + IF n \in Numbers(d) THEN Before(c, v, n) - Before(c, v, n + 1) ELSE 0
HoldsOutOfOrder(c, d, v) ==
    /\ d.count \in 0 .. v.count
    /\ d.final <=> v.count - 1 \in Numbers(d)
    /\ d.final => d.count = v.count
    /\ \E g : AddsUp(c, g, d, v)
    /\ c.FEC => d.k = IF d.data = {} THEN 1 ELSE 0

HoldsFEC(d, v) ==
    /\ d.k = IF d.data = {} THEN 1 ELSE v.k
    /\ d.data # {} => d.len = v.len

\* A defragmenter holds parts of the event e, and no others.
Holds(c, kind, d, e, v) ==
    /\ IsDefragmenter(d) /\ d.count \in Nat
    /\ IsCut(c, v)
    /\ d.room = RoomOf(c)
    /\ \A x \in d.data : x.src = e /\ x.fseq \in 0 .. v.count - 1
    /\ d.arrived = Cardinality(Numbers(d))
    /\ IF HasFEC(c) THEN HoldsFEC(d, v)
       ELSE /\ \A x \in d.data : PlacedPart(c, kind, x, v)
            /\ IF kind = "inorder" THEN HoldsInOrder(c, d, v) ELSE HoldsOutOfOrder(c, d, v)

\* The reconstructor is the one for the configuration.
KindOf(c, kind) == kind \in {"inorder", "outoforder", "fec"} /\ (kind = "fec" <=> c.FEC)

LEMMA CutFacts ==
  ASSUME NEW c \in Configs, NEW v \in PubEvent, IsCut(c, v)
  PROVE  /\ v.count \in Nat \ {0} /\ v.len \in Nat \ {0} /\ RoomOf(c) \in Nat \ {0}
         /\ HasFEC(c) => v.k \in 1 .. v.count /\ v.count = WithRedundancy(v.k, c.red)
<1>1. v.len \in Nat \ {0} /\ RoomFor(c, TRUE) \in Int /\ RoomFor(c, FALSE) \in Int /\ c.red \in Nat
  BY ConfFacts DEF PubEvent
<1>2. CASE HasFEC(c)
  <2>1. /\ v.k \in Nat \ {0} /\ v.count \in Nat /\ v.count = WithRedundancy(v.k, c.red)
        /\ FullFEC(v.count, RoomFor(c, TRUE)) \in Nat \ {0}
    BY <1>2 DEF IsCut, CutFEC
  <2>2. v.count >= v.k
    BY <1>1, <2>1, Redundancy
  <2>3. RoomOf(c) = RoomFor(c, TRUE)
    BY <1>2 DEF RoomOf, RoomFor, ExtHeader
  <2>4. PICK h \in 1 .. 3 : h = GetBasicHeaderLen(v.count - 1)
    <3>1. v.count - 1 \in Nat
      BY <2>1, <2>2
    <3> QED BY <3>1, HeaderLengths
  <2>5. PICK room \in Int : room = RoomFor(c, TRUE)
    BY <1>1
  <2>6. Even(room - h) \in Nat \ {0}
    BY <2>1, <2>4, <2>5 DEF FullFEC
  <2>7. room \in Nat \ {0}
    <3>1. PICK a \in Int : a = room - h
      OBVIOUS
    <3>2. a \div 2 \in Int /\ (a < 0 => a \div 2 <= 0)
      OBVIOUS
    <3>3. a >= 0
      BY <2>6, <3>1, <3>2 DEF Even
    <3> QED BY <3>1, <3>3
  <2>8. v.k \in 1 .. v.count /\ v.count \in Nat \ {0}
    BY <2>1, <2>2
  <2> QED BY ONLY <1>1, <1>2, <2>1, <2>3, <2>5, <2>7, <2>8
<1>3. CASE ~HasFEC(c)
  <2>1. Cut(v.len, v.count, RoomFor(c, FALSE))
    BY <1>3 DEF IsCut
  <2>2. RoomOf(c) = RoomFor(c, FALSE)
    BY <1>3 DEF RoomOf, RoomFor, ExtHeader
  <2>3. v.count \in Nat \ {0} /\ v.count - 1 \in Nat
    BY <2>1, MaxFragmentsGrow DEF Cut
  <2>4. GetBasicHeaderLen(v.count - 1) \in 1 .. 3
    BY <2>3, HeaderLengths
  <2>5. PICK room \in Int, h \in 1 .. 3 : room = RoomFor(c, FALSE) /\ h = GetBasicHeaderLen(v.count - 1)
    BY <1>1, <2>4
  <2>6. h < room
    BY <2>1, <2>5 DEF Cut
  <2>7. room \in Nat \ {0}
    BY <2>6
  <2> QED BY ONLY <1>1, <1>3, <2>2, <2>3, <2>5, <2>7
<1> QED BY <1>2, <1>3

LEMMA BeforeFacts ==
  ASSUME NEW c \in Configs, NEW v \in PubEvent, IsCut(c, v), ~HasFEC(c)
  PROVE  /\ v.count \in Nat \ {0} /\ v.len \in Nat \ {0}
         /\ \A n \in 0 .. v.count : Before(c, v, n) \in Int
         /\ Before(c, v, 0) = v.len /\ Before(c, v, v.count) = 0
         /\ \A n \in 1 .. v.count - 1 :
               Before(c, v, n) - Before(c, v, n + 1) = RoomOf(c) - GetBasicHeaderLen(n)
<1>1. v.count \in Nat \ {0} /\ v.len \in Nat \ {0} /\ RoomOf(c) \in Nat \ {0}
  BY CutFacts
<1>2. v.count \in 1 .. MaxFragments(3) /\ MaxFragments(3) \in Nat
  BY MaxFragmentsGrow DEF IsCut, Cut
<1>3. PICK room \in Int : room = RoomOf(c)
  BY <1>1
<1>4. \A n \in 1 .. v.count : GetPayload(n, room) \in Int
  <2> TAKE n \in 1 .. v.count
  <2>1. n \in 1 .. MaxFragments(3)
    BY <1>1, <1>2
  <2> QED BY <2>1, PayloadOfOneMore
<1>5. ASSUME NEW n \in 1 .. v.count - 1
      PROVE  GetPayload(n + 1, room) = GetPayload(n, room) + (room - GetBasicHeaderLen(n))
  <2>1. PICK a \in 1 .. MaxFragments(3) : a = n + 1
    BY <1>1, <1>2
  <2>2. GetPayload(a, room) = GetPayload(a - 1, room) + (room - GetBasicHeaderLen(a - 1))
    BY PayloadOfOneMore
  <2>3. a - 1 = n
    BY <2>1
  <2> QED BY <2>1, <2>2, <2>3
<1>6. \A n \in 0 .. v.count : Before(c, v, n) \in Int
  BY <1>1, <1>3, <1>4 DEF Before
<1>7. Before(c, v, 0) = v.len /\ Before(c, v, v.count) = 0
  <2>1. GetPayload(v.count, room) \in Int
    BY <1>1, <1>4
  <2> QED BY <1>1, <1>3, <2>1 DEF Before
<1>8. ASSUME NEW n \in 1 .. v.count - 1
      PROVE  Before(c, v, n) - Before(c, v, n + 1) = RoomOf(c) - GetBasicHeaderLen(n)
  <2>1. PICK p, q, r \in Int : p = GetPayload(v.count, room) /\ q = GetPayload(n, room)
                               /\ r = GetPayload(n + 1, room)
    BY <1>1, <1>4
  <2>2. Before(c, v, n) = p - q /\ Before(c, v, n + 1) = p - r
    BY <1>1, <1>3, <2>1 DEF Before
  <2>3. GetBasicHeaderLen(n) \in Int
    BY <1>1, HeaderLengths
  <2>4. r = q + (room - GetBasicHeaderLen(n))
    BY <1>5, <2>1
  <2> QED BY <1>3, <2>2, <2>3, <2>4
<1> QED BY <1>1, <1>6, <1>7, <1>8

\* A fragment is a part of its event.
LEMMA PartIs ==
  ASSUME NEW c \in Configs, NEW v \in PubEvent, NEW f, PartOf(c, f, v), ~HasFEC(c)
  PROVE  /\ f.from = Before(c, v, f.fseq + 1)
         /\ f.len = Before(c, v, f.fseq) - f.from
<1>1. /\ IsCut(c, v) /\ f.fseq \in 0 .. v.count - 1 /\ PartNoFEC(c, f, v)
      /\ RoomOf(c) = RoomFor(c, FALSE)
  BY DEF PartOf, RoomOf, RoomFor, ExtHeader
<1>2. v.count \in Nat \ {0} /\ v.len \in Nat \ {0}
  BY <1>1, CutFacts
<1>3. f.from = Before(c, v, f.fseq + 1)
  <2>1. PICK n \in Nat \ {0} : n = f.fseq + 1
    BY <1>1, <1>2
  <2>2. f.from = GetPayload(v.count, RoomOf(c)) - GetPayload(n, RoomOf(c))
    BY <1>1, <2>1 DEF PartNoFEC
  <2>3. Before(c, v, n) = GetPayload(v.count, RoomOf(c)) - GetPayload(n, RoomOf(c))
    BY <2>1 DEF Before
  <2> QED BY <2>1, <2>2, <2>3
<1>4. CASE f.fseq = 0
  BY <1>1, <1>4 DEF PartNoFEC, Before
<1>5. CASE f.fseq # 0
  <2>1. f.len = RoomOf(c) - GetBasicHeaderLen(f.fseq)
    BY <1>1, <1>5 DEF PartNoFEC
  <2>2. f.fseq \in 1 .. v.count - 1
    BY <1>1, <1>2, <1>5
  <2> QED BY <1>1, <1>3, <2>1, <2>2, BeforeFacts
<1> QED BY <1>3, <1>4, <1>5

\* A new defragmenter holds nothing.
LEMMA NewHolds ==
  ASSUME NEW c \in Configs, NEW v \in PubEvent, IsCut(c, v), NEW kind, KindOf(c, kind), NEW e,
         NEW d, d = NewDefragmenter(RoomOf(c))
  PROVE  Holds(c, kind, d, e, v) /\ Numbers(d) = {} /\ d.seen = {} /\ d.data = {}
<1>1. /\ IsDefragmenter(d) /\ d.count = 0 /\ d.room = RoomOf(c) /\ d.data = {} /\ d.arrived = 0
      /\ d.final = FALSE /\ d.len = 0 /\ d.k = 1 /\ d.seen = {}
  BY DEF NewDefragmenter, IsDefragmenter
<1>2. Numbers(d) = {} /\ Cardinality(Numbers(d)) = 0
  BY <1>1, FS_EmptySet DEF Numbers
<1>3. v.count \in Nat \ {0}
  BY CutFacts
<1>4. CASE HasFEC(c)
  BY <1>1, <1>2, <1>4 DEF Holds, HoldsFEC
<1>5. CASE ~HasFEC(c)
  <2>1. /\ \A n \in 0 .. v.count : Before(c, v, n) \in Int
        /\ Before(c, v, v.count) = 0
    BY <1>5, BeforeFacts
  <2>2. HoldsInOrder(c, d, v)
    BY <1>1, <1>2, <1>3, <2>1 DEF HoldsInOrder
  <2>3. HoldsOutOfOrder(c, d, v)
    <3>1. PICK g : g = [n \in 0 .. v.count |-> 0]
      OBVIOUS
    <3>2. AddsUp(c, g, d, v)
      BY <1>1, <1>2, <1>3, <3>1 DEF AddsUp
    <3> QED BY <1>1, <1>2, <1>3, <3>2 DEF HoldsOutOfOrder
  <2> QED BY <1>1, <1>2, <1>5, <2>2, <2>3 DEF Holds
<1> QED BY <1>1, <1>2, <1>4, <1>5

\* The fragment that arrives is stored.
Took(d, f, put) ==
    /\ Numbers(put) = Numbers(d) \cup {f.fseq}
    /\ f.fseq \notin Numbers(d)
    /\ put.data # {}

LEMMA StoredFields ==
  ASSUME NEW d, NEW f, NEW seen, NEW place, NEW count, NEW final, NEW len, NEW k,
         NEW put, put = Stored(d, seen, f, place, count, final, len, k)
  PROVE  /\ IsDefragmenter(put) /\ put.room = d.room /\ put.seen = seen /\ put.count = count
         /\ put.final = final /\ put.arrived = d.arrived + 1 /\ put.len = len /\ put.k = k
         /\ put.data = d.data \cup {PartAt(f, place)} /\ put.data # {}
         /\ Numbers(put) = Numbers(d) \cup {f.fseq}
<1>1. /\ IsDefragmenter(put) /\ put.room = d.room /\ put.seen = seen /\ put.count = count
      /\ put.final = final /\ put.arrived = d.arrived + 1 /\ put.len = len /\ put.k = k
      /\ put.data = d.data \cup {PartAt(f, place)}
  BY DEF Stored, IsDefragmenter
<1>2. PICK x : x = PartAt(f, place)
  OBVIOUS
<1>3. x.fseq = f.fseq
  BY <1>2 DEF PartAt
<1>4. put.data = d.data \cup {x}
  BY <1>1, <1>2
<1>5. Numbers(put) = Numbers(d) \cup {f.fseq}
  BY <1>3, <1>4 DEF Numbers
<1> QED BY <1>1, <1>5

LEMMA OneMoreNumber ==
  ASSUME NEW n \in Nat, NEW N \in SUBSET (0 .. n - 1), NEW i \in 0 .. n - 1, i \notin N
  PROVE  Cardinality(N \cup {i}) = Cardinality(N) + 1 /\ Cardinality(N) \in Nat
<1>1. IsFiniteSet(0 .. n - 1)
  BY FS_Interval
<1>2. IsFiniteSet(N)
  BY <1>1, FS_Subset
<1> QED BY <1>2, FS_AddElement, FS_CardinalityType

\* The next fragment in order.
LEMMA PutInOrderHolds ==
  ASSUME NEW c \in Configs, NEW v \in PubEvent, NEW d, NEW e, ~HasFEC(c),
         Holds(c, "inorder", d, e, v),
         NEW f, PartOf(c, f, v), f.src = e, NEW seen, NEW put, PutEffect("inorder", d, f, seen, put)
  PROVE  Holds(c, "inorder", put, e, v) /\ Took(d, f, put)
<1>1. /\ IsCut(c, v) /\ HoldsInOrder(c, d, v) /\ d.room = RoomOf(c)
      /\ \A x \in d.data : x.src = e /\ x.fseq \in 0 .. v.count - 1
      /\ \A x \in d.data : PlacedPart(c, "inorder", x, v)
      /\ d.arrived = Cardinality(Numbers(d)) /\ d.count \in Nat
  BY DEF Holds
<1>2. /\ v.count \in Nat \ {0} /\ v.len \in Nat \ {0}
      /\ \A n \in 0 .. v.count : Before(c, v, n) \in Int
      /\ Before(c, v, 0) = v.len /\ Before(c, v, v.count) = 0
  BY <1>1, BeforeFacts
<1>3. f.from = Before(c, v, f.fseq + 1) /\ f.len = Before(c, v, f.fseq) - f.from
  BY PartIs
<1>4. /\ f.fseq \in 0 .. v.count - 1 /\ (f.first <=> f.fseq = v.count - 1)
  BY DEF PartOf
<1>5. d.arrived \in 0 .. v.count /\ d.arrived \in Nat
  BY <1>1 DEF HoldsInOrder
<1>6. PICK i \in 0 .. v.count - 1 : i = f.fseq
  BY <1>4
<1>7. PICK place, count, len : /\ put = Stored(d, seen, f, place, count, d.final, len, d.k)
                               /\ d.arrived = v.count - i - 1 /\ place = f.from
                               /\ count = v.count /\ len = Before(c, v, i)
  <2>1. CASE d.count = 0
    <3>1. f.first /\ put = Stored(d, seen, f, 0, f.fseq + 1, d.final, f.len, d.k)
      BY <2>1 DEF PutEffect
    <3>2. d.arrived = 0 /\ i = v.count - 1
      BY <1>1, <1>2, <1>4, <1>6, <2>1, <3>1 DEF HoldsInOrder
    <3>3. f.fseq + 1 = v.count
      BY <1>2, <1>6, <3>2
    <3>4. f.from = 0 /\ f.len = Before(c, v, i)
      BY <1>2, <1>3, <1>6, <3>3
    <3>5. d.arrived = v.count - i - 1
      BY <1>2, <3>2
    <3> QED BY <3>1, <3>3, <3>4, <3>5
  <2>2. CASE d.count # 0
    <3>1. /\ d.count - f.fseq - 1 = d.arrived
          /\ put = Stored(d, seen, f, d.len, d.count, d.final, d.len + f.len, d.k)
      BY <2>2 DEF PutEffect
    <3>2. d.count = v.count /\ d.len = Before(c, v, v.count - d.arrived)
      BY <1>1, <2>2 DEF HoldsInOrder
    <3>3. v.count - d.arrived = i + 1 /\ d.arrived = v.count - i - 1
      BY <1>2, <1>5, <1>6, <3>1, <3>2
    <3>4. PICK a \in Int, b \in Int : a = Before(c, v, i) /\ b = Before(c, v, i + 1)
      BY <1>2
    <3>5. d.len = b /\ f.from = b /\ f.len = a - b
      BY <1>3, <1>6, <3>2, <3>3, <3>4
    <3>6. d.len + f.len = a
      BY <3>5
    <3> QED BY <3>1, <3>2, <3>3, <3>4, <3>5, <3>6
  <2> QED BY <2>1, <2>2
<1>8. /\ IsDefragmenter(put) /\ put.room = d.room /\ put.count = v.count
      /\ put.arrived = d.arrived + 1 /\ put.len = len
      /\ put.data = d.data \cup {PartAt(f, place)} /\ put.data # {}
      /\ Numbers(put) = Numbers(d) \cup {f.fseq}
  BY <1>7, StoredFields
<1>9. Numbers(d) = i + 1 .. v.count - 1
  <2>1. v.count - d.arrived = i + 1
    BY <1>2, <1>5, <1>7
  <2> QED BY <1>1, <2>1 DEF HoldsInOrder
<1>10. Took(d, f, put)
  BY <1>2, <1>6, <1>8, <1>9 DEF Took
<1>11. put.arrived = Cardinality(Numbers(put))
  <2>1. PICK N : N = Numbers(d)
    OBVIOUS
  <2>2. N \in SUBSET (0 .. v.count - 1) /\ i \notin N
    BY <1>2, <1>9, <2>1
  <2>3. Cardinality(N \cup {i}) = Cardinality(N) + 1
    BY <1>2, <2>2, OneMoreNumber
  <2> QED BY <1>1, <1>6, <1>8, <2>1, <2>3
<1>12. PICK x : x = PartAt(f, place)
  OBVIOUS
<1>13. x.src = e /\ x.fseq = i /\ x.from = f.from /\ x.len = f.len /\ x.at = f.from
  BY <1>6, <1>7, <1>12 DEF PartAt
<1>14. PlacedPart(c, "inorder", x, v)
  BY <1>3, <1>6, <1>13 DEF PlacedPart
<1>15. /\ \A y \in put.data : y.src = e /\ y.fseq \in 0 .. v.count - 1
       /\ \A y \in put.data : PlacedPart(c, "inorder", y, v)
  BY <1>1, <1>8, <1>12, <1>13, <1>14
<1>16. HoldsInOrder(c, put, v)
  <2>1. put.arrived = v.count - i /\ put.arrived \in 1 .. v.count
    BY <1>2, <1>7, <1>8
  <2>2. Numbers(put) = i .. v.count - 1
    BY <1>2, <1>6, <1>8, <1>9
  <2>3. v.count - put.arrived = i
    BY <1>2, <2>1
  <2> QED BY <1>7, <1>8, <2>1, <2>2, <2>3 DEF HoldsInOrder
<1> QED BY <1>1, <1>2, <1>8, <1>10, <1>11, <1>15, <1>16 DEF Holds

\* A fragment in any order.
LEMMA PutOutOfOrderHolds ==
  ASSUME NEW c \in Configs, NEW v \in PubEvent, NEW d, NEW e, ~HasFEC(c),
         NEW kind, KindOf(c, kind), kind # "inorder", Holds(c, kind, d, e, v),
         NEW f, PartOf(c, f, v), f.src = e, f.fseq \notin Numbers(d),
         NEW seen, NEW put, PutEffect(kind, d, f, seen, put)
  PROVE  Holds(c, kind, put, e, v) /\ Took(d, f, put)
<1>1. /\ IsCut(c, v) /\ HoldsOutOfOrder(c, d, v) /\ d.room = RoomOf(c)
      /\ \A x \in d.data : x.src = e /\ x.fseq \in 0 .. v.count - 1
      /\ \A x \in d.data : PlacedPart(c, kind, x, v)
      /\ d.arrived = Cardinality(Numbers(d)) /\ d.count \in Nat
  BY DEF Holds
<1>2. /\ v.count \in Nat \ {0} /\ v.len \in Nat \ {0}
      /\ \A n \in 0 .. v.count : Before(c, v, n) \in Int
  BY <1>1, BeforeFacts
<1>3. f.from = Before(c, v, f.fseq + 1) /\ f.len = Before(c, v, f.fseq) - f.from
  BY PartIs
<1>4. /\ f.fseq \in 0 .. v.count - 1 /\ (f.first <=> f.fseq = v.count - 1) /\ ~f.fec
  BY DEF PartOf
<1>5. PICK i \in 0 .. v.count - 1 : i = f.fseq
  BY <1>4
<1>6. PICK place, count, final, len, k :
        /\ put = Stored(d, seen, f, place, count, final, len, k)
        /\ place = GetPayload(i + 1, RoomOf(c)) /\ count = Reckoned(d.count, f)
        /\ final = (d.final \/ f.first) /\ len = d.len + f.len
        /\ k = IF kind = "fec" THEN 0 ELSE d.k
  BY <1>1, <1>4, <1>5 DEF PutEffect
<1>7. /\ IsDefragmenter(put) /\ put.room = d.room /\ put.count = count /\ put.final = final
      /\ put.arrived = d.arrived + 1 /\ put.len = len /\ put.k = k
      /\ put.data = d.data \cup {PartAt(f, place)} /\ put.data # {}
      /\ Numbers(put) = Numbers(d) \cup {f.fseq}
  BY <1>6, StoredFields
<1>8. Took(d, f, put)
  BY <1>7 DEF Took
<1>9. put.arrived = Cardinality(Numbers(put))
  <2>1. PICK N : N = Numbers(d)
    OBVIOUS
  <2>2. N \in SUBSET (0 .. v.count - 1) /\ i \notin N
    BY <1>1, <1>5, <2>1 DEF Numbers
  <2>3. Cardinality(N \cup {i}) = Cardinality(N) + 1
    BY <1>2, <2>2, OneMoreNumber
  <2> QED BY <1>1, <1>5, <1>7, <2>1, <2>3
<1>10. PICK x : x = PartAt(f, place)
  OBVIOUS
<1>11. /\ x.src = e /\ x.fseq = i /\ x.from = f.from /\ x.len = f.len
       /\ x.at = GetPayload(i + 1, RoomOf(c))
  BY <1>5, <1>6, <1>10 DEF PartAt
<1>12. PlacedPart(c, kind, x, v)
  BY <1>3, <1>5, <1>11 DEF PlacedPart
<1>13. /\ \A y \in put.data : y.src = e /\ y.fseq \in 0 .. v.count - 1
       /\ \A y \in put.data : PlacedPart(c, kind, y, v)
  BY <1>1, <1>7, <1>10, <1>11, <1>12
<1>14. put.final <=> v.count - 1 \in Numbers(put)
  BY <1>1, <1>4, <1>6, <1>7 DEF HoldsOutOfOrder
<1>15. /\ d.count \in 0 .. v.count /\ (d.final => d.count = v.count)
  BY <1>1 DEF HoldsOutOfOrder
<1>16. put.count \in 0 .. v.count /\ put.count \in Nat /\ (put.final => put.count = v.count)
  <2>1. count = IF d.count = 0 THEN (IF f.first THEN i + 1 ELSE i + 2)
                ELSE IF i >= d.count THEN i + 1 ELSE d.count
    BY <1>1, <1>5, <1>6 DEF Reckoned
  <2>2. f.first => i = v.count - 1
    BY <1>4, <1>5
  <2>3. ~f.first => i < v.count - 1
    BY <1>2, <1>4, <1>5
  <2>4. put.final <=> d.final \/ f.first
    BY <1>6, <1>7
  <2>5. PICK n \in Nat \ {0} : n = v.count
    BY <1>2
  <2>6. PICK m \in 0 .. n : m = d.count /\ (d.final => m = n)
    BY <1>15, <2>5
  <2>7. i \in 0 .. n - 1 /\ put.count = count
    BY <1>7, <2>5
  <2> QED BY ONLY <2>1, <2>2, <2>3, <2>4, <2>5, <2>6, <2>7
<1>17. \E g : AddsUp(c, g, put, v)
  <2>1. PICK g : AddsUp(c, g, d, v)
    BY <1>1 DEF HoldsOutOfOrder
  <2>2. PICK a \in Int, b \in Int : a = Before(c, v, i) /\ b = Before(c, v, i + 1)
    BY <1>2
  <2>3. PICK m \in Int : m = a - b
    OBVIOUS
  <2>4. f.len = m
    BY <1>3, <1>5, <2>2, <2>3
  <2>5. PICK h : h = [n \in 0 .. v.count |-> g[n] + IF n > i THEN m ELSE 0]
    OBVIOUS
  <2>6. /\ g \in [0 .. v.count -> Int] /\ g[0] = 0 /\ d.len = g[v.count]
        /\ \A n \in 0 .. v.count - 1 :
              g[n + 1] = g[n] + IF n \in Numbers(d) THEN Before(c, v, n) - Before(c, v, n + 1) ELSE 0
    BY <2>1 DEF AddsUp
  <2>7. h \in [0 .. v.count -> Int] /\ h[0] = 0
    BY <1>2, <2>5, <2>6
  <2>8. put.len = h[v.count]
    BY <1>2, <1>6, <1>7, <2>4, <2>5, <2>6
  <2>9. ASSUME NEW n \in 0 .. v.count - 1
        PROVE  h[n + 1] = h[n] + IF n \in Numbers(put) THEN Before(c, v, n) - Before(c, v, n + 1) ELSE 0
    <3>1. n + 1 \in 0 .. v.count /\ n \in 0 .. v.count
      BY <1>2
    <3>2. h[n + 1] = g[n + 1] + (IF n + 1 > i THEN m ELSE 0) /\ h[n] = g[n] + (IF n > i THEN m ELSE 0)
      BY <2>5, <3>1
    <3>3. n \in Numbers(put) <=> n \in Numbers(d) \/ n = i
      BY <1>5, <1>7
    <3>4. PICK p \in Int, q \in Int, r \in Int :
             p = g[n] /\ q = g[n + 1] /\ r = Before(c, v, n) - Before(c, v, n + 1)
      <4>1. g[n] \in Int /\ g[n + 1] \in Int
        BY <2>6, <3>1
      <4>2. Before(c, v, n) \in Int /\ Before(c, v, n + 1) \in Int
        BY <1>2, <3>1
      <4>3. PICK s \in Int, t \in Int : s = Before(c, v, n) /\ t = Before(c, v, n + 1)
        BY <4>2
      <4>4. s - t \in Int
        OBVIOUS
      <4> QED BY <4>1, <4>3, <4>4
    <3>5. q = p + IF n \in Numbers(d) THEN r ELSE 0
      BY <2>6, <3>4
    <3>6. CASE n = i
      <4>1. r = m /\ q = p
        BY <1>5, <2>2, <2>3, <3>4, <3>5, <3>6
      <4>2. n + 1 > i /\ ~(n > i)
        BY <3>6
      <4> QED BY <3>2, <3>3, <3>4, <3>6, <4>1, <4>2
    <3>7. CASE n # i
      <4>1. n + 1 > i <=> n > i
        BY <3>7
      <4> QED BY <3>2, <3>3, <3>4, <3>5, <3>7, <4>1
    <3> QED BY <3>6, <3>7
  <2>10. AddsUp(c, h, put, v)
    BY <2>7, <2>8, <2>9 DEF AddsUp
  <2> QED BY <2>10
<1>18. c.FEC => put.k = 0
  BY <1>6, <1>7 DEF KindOf
<1>19. HoldsOutOfOrder(c, put, v)
  BY <1>7, <1>14, <1>16, <1>17, <1>18 DEF HoldsOutOfOrder
<1> QED BY <1>1, <1>7, <1>8, <1>9, <1>13, <1>16, <1>19 DEF Holds

\* A fragment of an event with redundancy.
LEMMA PutFECHolds ==
  ASSUME NEW c \in Configs, NEW v \in PubEvent, NEW d, NEW e, HasFEC(c),
         NEW kind, Holds(c, kind, d, e, v),
         NEW f, PartOf(c, f, v), f.src = e, f.fseq \notin Numbers(d),
         NEW seen, NEW put, PutEffect(kind, d, f, seen, put)
  PROVE  Holds(c, kind, put, e, v) /\ Took(d, f, put)
<1>1. /\ IsCut(c, v) /\ d.room = RoomOf(c)
      /\ \A x \in d.data : x.src = e /\ x.fseq \in 0 .. v.count - 1
      /\ d.arrived = Cardinality(Numbers(d))
  BY DEF Holds
<1>2. /\ v.count \in Nat \ {0} /\ v.len \in Nat \ {0} /\ v.k \in Nat
      /\ v.count = WithRedundancy(v.k, c.red) /\ RoomOf(c) \in Nat
  BY <1>1, CutFacts DEF PubEvent
<1>3. f.fec /\ PartFEC(c, f, v) /\ f.fseq \in 0 .. v.count - 1
  BY DEF PartOf
<1>4. PICK i \in 0 .. v.count - 1 : i = f.fseq
  BY <1>3
<1>5. PICK place, len :
        /\ put = Stored(d, seen, f, place, v.count, d.final, len, v.k)
        /\ len = (f.k - 1) * FECPayload(d, f) + f.rest
  BY <1>2, <1>3 DEF PutEffect, PartFEC
<1>6. /\ IsDefragmenter(put) /\ put.room = d.room /\ put.count = v.count
      /\ put.arrived = d.arrived + 1 /\ put.len = len /\ put.k = v.k
      /\ put.data = d.data \cup {PartAt(f, place)} /\ put.data # {}
      /\ Numbers(put) = Numbers(d) \cup {f.fseq}
  BY <1>5, StoredFields
<1>7. Took(d, f, put)
  BY <1>6 DEF Took
<1>8. put.arrived = Cardinality(Numbers(put))
  <2>1. PICK N : N = Numbers(d)
    OBVIOUS
  <2>2. N \in SUBSET (0 .. v.count - 1) /\ i \notin N
    BY <1>1, <1>4, <2>1 DEF Numbers
  <2>3. Cardinality(N \cup {i}) = Cardinality(N) + 1
    BY <1>2, <2>2, OneMoreNumber
  <2> QED BY <1>1, <1>4, <1>6, <2>1, <2>3
<1>9. \A y \in put.data : y.src = e /\ y.fseq \in 0 .. v.count - 1
  <2>1. PICK x : x = PartAt(f, place)
    OBVIOUS
  <2>2. x.src = e /\ x.fseq \in 0 .. v.count - 1
    BY <1>3, <2>1 DEF PartAt
  <2> QED BY <1>1, <1>6, <2>1, <2>2
<1>10. put.len = v.len
  <2>1. d.room = RoomFor(c, TRUE)
    BY <1>1 DEF RoomOf, RoomFor, ExtHeader
  <2>2. v.count = WithRedundancy(f.k, f.red) /\ f.k = v.k
    BY <1>2, <1>3 DEF PartFEC
  <2>3. FullFEC(v.count, RoomFor(c, TRUE)) = FECPayload(d, f)
    BY <2>1, <2>2 DEF FullFEC, FECPayload
  <2>4. PICK p : p = FECPayload(d, f)
    OBVIOUS
  <2>5. p \in Nat
    BY <1>1, <2>3, <2>4 DEF IsCut, CutFEC
  <2>6. PICK m \in Int : m = (v.k - 1) * p
    BY <1>2, <2>5
  <2>7. f.rest = v.len - m
    BY <1>3, <2>3, <2>4, <2>6 DEF PartFEC
  <2>8. len = m + f.rest
    BY <1>5, <2>2, <2>4, <2>6
  <2> QED BY ONLY <1>2, <1>6, <2>7, <2>8
<1>11. HoldsFEC(put, v)
  BY <1>6, <1>10 DEF HoldsFEC
<1> QED BY <1>1, <1>2, <1>6, <1>7, <1>8, <1>9, <1>11 DEF Holds

LEMMA PutHolds ==
  ASSUME NEW c \in Configs, NEW v \in PubEvent, NEW d, NEW e, NEW kind, KindOf(c, kind),
         Holds(c, kind, d, e, v), NEW f, PartOf(c, f, v), f.src = e,
         kind = "inorder" \/ f.fseq \notin Numbers(d),
         NEW seen, NEW put, PutEffect(kind, d, f, seen, put)
  PROVE  Holds(c, kind, put, e, v) /\ Took(d, f, put)
<1>1. CASE HasFEC(c)
  <2>1. kind # "inorder"
    BY <1>1 DEF KindOf, HasFEC
  <2> QED BY <1>1, <2>1, PutFECHolds
<1>2. CASE ~HasFEC(c) /\ kind = "inorder"
  <2>1. /\ Holds(c, "inorder", d, e, v) /\ PutEffect("inorder", d, f, seen, put)
    BY <1>2
  <2>2. Holds(c, "inorder", put, e, v) /\ Took(d, f, put)
    BY <1>2, <2>1, PutInOrderHolds
  <2> QED BY <1>2, <2>2
<1>3. CASE ~HasFEC(c) /\ kind # "inorder"
  BY <1>3, PutOutOfOrderHolds
<1> QED BY <1>1, <1>2, <1>3

\* What is complete is whole.
LEMMA AllNumbers ==
  ASSUME NEW n \in Nat, NEW N \in SUBSET (0 .. n - 1), Cardinality(N) = n
  PROVE  N = 0 .. n - 1
<1>1. PICK M : M = 0 .. n - 1
  OBVIOUS
<1>2. IsFiniteSet(M) /\ Cardinality(M) = n
  BY <1>1, FS_Interval
<1>3. N \subseteq M
  BY <1>1
<1> QED BY <1>1, <1>2, <1>3, FS_Subset

\* The parts cover the event.
LEMMA Covered ==
  ASSUME NEW n \in Nat \ {0}, NEW B, \A i \in 0 .. n : B[i] \in Int, B[n] = 0,
         NEW b \in Nat, b < B[0]
  PROVE  \E i \in 0 .. n - 1 : B[i + 1] <= b /\ b < B[i]
<1> DEFINE T == {i \in 0 .. n : B[i] <= b}
<1>1. n \in T /\ T \in SUBSET Nat
  OBVIOUS
<1>2. PICK m \in T : \A y \in T : m <= y
  <2> HIDE DEF T
  <2> QED BY <1>1, LeastOf
<1>3. m \in 1 .. n /\ B[m] <= b
  OBVIOUS
<1>4. PICK i \in 0 .. n - 1 : m = i + 1
  BY <1>3
<1>5. i \notin T
  BY <1>2, <1>4
<1>6. b < B[i]
  BY <1>5
<1> QED BY <1>3, <1>4, <1>6

\* The lengths of all parts are that of the event.
LEMMA LengthOfAll ==
  ASSUME NEW c \in Configs, NEW v \in PubEvent, IsCut(c, v), ~HasFEC(c),
         NEW d, NEW g, AddsUp(c, g, d, v), Numbers(d) = 0 .. v.count - 1
  PROVE  d.len = v.len
<1>1. /\ v.count \in Nat \ {0} /\ v.len \in Nat \ {0}
      /\ \A n \in 0 .. v.count : Before(c, v, n) \in Int
      /\ Before(c, v, 0) = v.len /\ Before(c, v, v.count) = 0
  BY BeforeFacts
<1>2. /\ g \in [0 .. v.count -> Int] /\ g[0] = 0 /\ d.len = g[v.count]
      /\ \A n \in 0 .. v.count - 1 : g[n + 1] = g[n] + (Before(c, v, n) - Before(c, v, n + 1))
  BY DEF AddsUp
<1> DEFINE T == {n \in 0 .. v.count : g[n] # v.len - Before(c, v, n)}
<1>3. T = {}
  <2> SUFFICES ASSUME T # {} PROVE FALSE
    OBVIOUS
  <2>1. T \in SUBSET Nat
    BY <1>1
  <2>2. PICK m \in T : \A y \in T : m <= y
    <3> HIDE DEF T
    <3> QED BY <2>1, LeastOf
  <2>3. m \in 0 .. v.count /\ m # 0
    BY <1>1, <1>2
  <2>4. PICK n \in 0 .. v.count - 1 : m = n + 1
    BY <1>1, <2>3
  <2>5. n \notin T /\ n \in 0 .. v.count
    BY <1>1, <2>2, <2>4
  <2>6. PICK p \in Int, q \in Int, r \in Int : p = Before(c, v, n) /\ q = Before(c, v, n + 1) /\ r = g[n]
    BY <1>1, <1>2, <2>3, <2>4, <2>5
  <2>7. r = v.len - p
    BY <2>5, <2>6
  <2>8. g[n + 1] = r + (p - q)
    BY <1>2, <2>6
  <2>9. g[m] = v.len - q
    BY <1>1, <2>4, <2>7, <2>8
  <2> QED BY <2>3, <2>4, <2>6, <2>9
<1>4. v.count \in 0 .. v.count
  BY <1>1
<1>5. g[v.count] = v.len - Before(c, v, v.count)
  BY <1>3, <1>4
<1> QED BY <1>1, <1>2, <1>5

\* The bytes of an event are those of its parts.
LEMMA PartsCover ==
  ASSUME NEW c \in Configs, NEW v \in PubEvent, NEW kind, NEW d, NEW e, Holds(c, kind, d, e, v),
         ~HasFEC(c), Numbers(d) = 0 .. v.count - 1, d.count = v.count
  PROVE  /\ \A b \in 0 .. v.len - 1 : \E p \in d.data : p.from <= b /\ b < p.from + p.len
         /\ \A p \in d.data : p.from = IF kind = "inorder" THEN p.at
                                       ELSE GetPayload(d.count, d.room) - p.at
<1>1. /\ IsCut(c, v) /\ \A x \in d.data : x.fseq \in 0 .. v.count - 1 /\ PlacedPart(c, kind, x, v)
      /\ d.room = RoomOf(c)
  BY DEF Holds
<1>2. /\ v.count \in Nat \ {0} /\ v.len \in Nat \ {0}
      /\ \A n \in 0 .. v.count : Before(c, v, n) \in Int
      /\ Before(c, v, 0) = v.len /\ Before(c, v, v.count) = 0
  BY <1>1, BeforeFacts
<1>3. ASSUME NEW b \in 0 .. v.len - 1
      PROVE  \E p \in d.data : p.from <= b /\ b < p.from + p.len
  <2>1. PICK B : B = [n \in 0 .. v.count |-> Before(c, v, n)]
    OBVIOUS
  <2>2. /\ \A n \in 0 .. v.count : B[n] = Before(c, v, n) /\ B[n] \in Int
        /\ B[v.count] = 0 /\ b < B[0] /\ b \in Nat
    BY <1>2, <2>1
  <2>3. PICK i \in 0 .. v.count - 1 : B[i + 1] <= b /\ b < B[i]
    BY <1>2, <2>2, Covered
  <2>4. PICK p \in d.data : p.fseq = i
    BY DEF Numbers
  <2>5. i \in 0 .. v.count /\ i + 1 \in 0 .. v.count
    BY <1>2
  <2>6. PICK x \in Int, y \in Int : x = Before(c, v, i) /\ y = Before(c, v, i + 1) /\ y <= b /\ b < x
    BY <1>2, <2>2, <2>3, <2>5
  <2>7. p.from = y /\ p.len = x - y
    BY <1>1, <2>4, <2>6 DEF PlacedPart
  <2> QED BY <2>6, <2>7
<1>4. ASSUME NEW p \in d.data
      PROVE  p.from = IF kind = "inorder" THEN p.at ELSE GetPayload(d.count, d.room) - p.at
  <2>1. PlacedPart(c, kind, p, v) /\ p.fseq \in 0 .. v.count - 1
    BY <1>1
  <2>2. CASE kind = "inorder"
    BY <2>1, <2>2 DEF PlacedPart
  <2>3. CASE kind # "inorder"
    <3>1. PICK n \in Nat \ {0} : n = p.fseq + 1
      BY <1>2, <2>1
    <3>2. p.at = GetPayload(n, d.room) /\ p.from = Before(c, v, n)
      BY <1>1, <2>1, <2>3, <3>1 DEF PlacedPart
    <3>3. Before(c, v, n) = GetPayload(d.count, d.room) - GetPayload(n, d.room)
      BY <1>1, <3>1 DEF Before
    <3> QED BY <2>3, <3>2, <3>3
  <2> QED BY <2>2, <2>3
<1> QED BY <1>3, <1>4

LEMMA CompleteIsWhole ==
  ASSUME NEW c \in Configs, NEW v \in PubEvent, NEW kind, KindOf(c, kind), NEW d, NEW e,
         Holds(c, kind, d, e, v), Complete(kind, d)
  PROVE  /\ d.data # {} /\ Intact(kind, d, e, v.len)
         /\ ~HasFEC(c) => Numbers(d) = 0 .. v.count - 1
<1>1. /\ IsCut(c, v) /\ d.room = RoomOf(c) /\ d.count \in Nat
      /\ \A x \in d.data : x.src = e /\ x.fseq \in 0 .. v.count - 1
      /\ d.arrived = Cardinality(Numbers(d))
  BY DEF Holds
<1>2. v.count \in Nat \ {0} /\ v.len \in Nat \ {0}
  BY <1>1, CutFacts
<1>3. d.data = {} => Numbers(d) = {} /\ d.arrived = 0
  BY <1>1, FS_EmptySet DEF Numbers
<1>4. Numbers(d) \in SUBSET (0 .. v.count - 1)
  BY <1>1 DEF Numbers
<1>5. CASE HasFEC(c)
  <2>1. kind = "fec" /\ HoldsFEC(d, v)
    BY <1>5 DEF KindOf, HasFEC, Holds
  <2>2. v.k \in 1 .. v.count /\ v.k \in Nat \ {0}
    BY <1>1, <1>2, <1>5, CutFacts
  <2>3. d.k # 0
    BY <2>1, <2>2 DEF HoldsFEC
  <2>4. d.arrived >= d.k
    BY <2>1, <2>3 DEF Complete
  <2>5. d.data # {}
    <3>1. d.data = {} => d.k = 1
      BY <2>1 DEF HoldsFEC
    <3> QED BY <1>3, <2>4, <3>1
  <2>6. Cardinality({p.fseq : p \in d.data}) >= d.k /\ d.len = v.len
    BY <1>1, <2>1, <2>4, <2>5 DEF HoldsFEC, Numbers
  <2> QED BY <1>1, <1>5, <2>1, <2>3, <2>5, <2>6 DEF Intact
<1>6. CASE ~HasFEC(c) /\ kind = "inorder"
  <2>1. HoldsInOrder(c, d, v) /\ d.count > 0 /\ d.arrived = d.count
    BY <1>6 DEF Holds, Complete
  <2>2. d.count = v.count /\ d.arrived = v.count
    BY <2>1 DEF HoldsInOrder
  <2>3. Numbers(d) = 0 .. v.count - 1
    <3>1. v.count - d.arrived = 0
      BY <1>2, <2>2
    <3> QED BY <2>1, <3>1 DEF HoldsInOrder
  <2>4. d.len = v.len
    <3>1. v.count - d.arrived = 0
      BY <1>2, <2>2
    <3> QED BY <2>1, <3>1 DEF HoldsInOrder, Before
  <2>5. d.data # {}
    <3>1. 0 \in Numbers(d)
      BY <1>2, <2>3
    <3> QED BY <3>1 DEF Numbers
  <2>6. /\ \A b \in 0 .. v.len - 1 : \E p \in d.data : p.from <= b /\ b < p.from + p.len
        /\ \A p \in d.data : p.from = IF kind = "inorder" THEN p.at
                                      ELSE GetPayload(d.count, d.room) - p.at
    BY <1>6, <2>2, <2>3, PartsCover
  <2> QED BY <1>1, <1>6, <2>3, <2>4, <2>5, <2>6 DEF Intact
<1>7. CASE ~HasFEC(c) /\ kind # "inorder"
  <2>1. HoldsOutOfOrder(c, d, v)
    BY <1>7 DEF Holds
  <2>2. d.data # {} /\ (kind = "fec" => d.k = 0)
    <3>1. CASE kind = "fec"
      <4>1. d.k = IF d.data = {} THEN 1 ELSE 0
        BY <2>1, <3>1 DEF HoldsOutOfOrder, KindOf
      <4>2. d.data # {}
        <5> SUFFICES ASSUME d.data = {} PROVE FALSE
          OBVIOUS
        <5>1. d.k = 1 /\ d.arrived = 0
          BY <1>3, <4>1
        <5> QED BY <3>1, <5>1 DEF Complete
      <4> QED BY <4>1, <4>2
    <3>2. CASE kind = "outoforder"
      <4>1. d.final
        BY <3>2 DEF Complete
      <4>2. v.count - 1 \in Numbers(d)
        BY <2>1, <4>1 DEF HoldsOutOfOrder
      <4> QED BY <3>2, <4>2 DEF Numbers
    <3> QED BY <1>7, <3>1, <3>2 DEF KindOf
  <2>3. d.final /\ d.arrived = d.count
    BY <1>7, <2>2 DEF Complete, KindOf
  <2>4. d.count = v.count
    BY <2>1, <2>3 DEF HoldsOutOfOrder
  <2>5. Numbers(d) = 0 .. v.count - 1
    <3>1. PICK N, n : N = Numbers(d) /\ n = v.count
      OBVIOUS
    <3>2. n \in Nat /\ N \in SUBSET (0 .. n - 1) /\ Cardinality(N) = n
      BY <1>1, <1>2, <1>4, <2>3, <2>4, <3>1
    <3> QED BY <3>1, <3>2, AllNumbers
  <2>6. d.len = v.len
    <3>1. PICK g : AddsUp(c, g, d, v)
      BY <2>1 DEF HoldsOutOfOrder
    <3> QED BY <1>1, <1>7, <2>5, <3>1, LengthOfAll
  <2>7. /\ \A b \in 0 .. v.len - 1 : \E p \in d.data : p.from <= b /\ b < p.from + p.len
        /\ \A p \in d.data : p.from = IF kind = "inorder" THEN p.at
                                      ELSE GetPayload(d.count, d.room) - p.at
    BY <1>7, <2>4, <2>5, PartsCover
  <2> QED BY <1>1, <1>7, <2>2, <2>5, <2>6, <2>7 DEF Intact
<1> QED BY <1>5, <1>6, <1>7

\* With all fragments an event is complete.
LEMMA AllIsComplete ==
  ASSUME NEW c \in Configs, NEW v \in PubEvent, NEW kind, KindOf(c, kind), NEW d, NEW e,
         Holds(c, kind, d, e, v), Numbers(d) = 0 .. v.count - 1
  PROVE  Complete(kind, d)
<1>1. /\ IsCut(c, v) /\ d.room = RoomOf(c) /\ d.arrived = Cardinality(Numbers(d))
  BY DEF Holds
<1>2. v.count \in Nat \ {0} /\ d.room # 0
  BY <1>1, CutFacts
<1>3. d.arrived = v.count
  BY <1>1, <1>2, FS_Interval
<1>4. ~Error(d) /\ d.data # {}
  BY <1>2 DEF Error, Numbers
<1>5. CASE HasFEC(c)
  <2>1. v.k \in 1 .. v.count /\ HoldsFEC(d, v) /\ kind = "fec"
    BY <1>1, <1>5, CutFacts DEF Holds, KindOf, HasFEC
  <2>2. d.k = v.k /\ d.k # 0
    BY <1>2, <1>4, <2>1 DEF HoldsFEC
  <2> QED BY <1>2, <1>3, <1>4, <2>1, <2>2 DEF Complete
<1>6. CASE ~HasFEC(c) /\ kind = "inorder"
  <2>1. d.count = v.count
    BY <1>2, <1>3, <1>6 DEF Holds, HoldsInOrder
  <2> QED BY <1>2, <1>3, <1>4, <1>6, <2>1 DEF Complete
<1>7. CASE ~HasFEC(c) /\ kind # "inorder"
  <2>1. HoldsOutOfOrder(c, d, v)
    BY <1>7 DEF Holds
  <2>2. v.count - 1 \in Numbers(d)
    BY <1>2
  <2>3. d.final /\ d.count = v.count /\ (kind = "fec" => d.k = 0)
    BY <1>4, <2>1, <2>2 DEF HoldsOutOfOrder, KindOf
  <2> QED BY <1>3, <1>4, <1>7, <2>3 DEF Complete, KindOf
<1> QED BY <1>5, <1>6, <1>7

-----------------------------------------------------------------------------
(* What the demultiplexer does to the entries.                             *)

LiveIn(d, k) == k \in DOMAIN d.events /\ ~d.events[k].outdated
OldIn(d, k) == k \in DOMAIN d.events /\ d.events[k].outdated

\* Of the other events none comes and none gets a fragment, and no number is
\* forgotten before its time, nor is an event given up.
Others(d, e, key) ==
    /\ \A k : k # key /\ k \in DOMAIN e.events => k \in DOMAIN d.events /\ e.events[k] = d.events[k]
    /\ \A k : k \in DOMAIN d.events /\ (k # key \/ OldIn(d, k)) /\ ~(d.events[k].expire < now) =>
          k \in DOMAIN e.events /\ e.events[k] = d.events[k]

\* The event of the key is as it was, or gone.
NoMore(d, e, key) == LiveIn(e, key) => LiveIn(d, key) /\ e.events[key].def = d.events[key].def

LEMMA OthersTwice ==
  ASSUME NEW d, NEW e, NEW g, NEW key, Others(d, e, key), Others(e, g, key)
  PROVE  Others(d, g, key)
<1>1. ASSUME NEW k, k # key, k \in DOMAIN g.events
      PROVE  k \in DOMAIN d.events /\ g.events[k] = d.events[k]
  <2>1. k \in DOMAIN e.events /\ g.events[k] = e.events[k]
    BY <1>1, Zenon DEF Others
  <2> QED BY <1>1, <2>1, Zenon DEF Others
<1>2. ASSUME NEW k \in DOMAIN d.events, k # key \/ OldIn(d, k), ~(d.events[k].expire < now)
      PROVE  k \in DOMAIN g.events /\ g.events[k] = d.events[k]
  <2>1. k \in DOMAIN e.events /\ e.events[k] = d.events[k]
    BY <1>2, Zenon DEF Others
  <2>2. (k # key \/ OldIn(e, k)) /\ ~(e.events[k].expire < now)
    BY <1>2, <2>1 DEF OldIn
  <2>3. k \in DOMAIN g.events /\ g.events[k] = e.events[k]
    BY <2>1, <2>2, Zenon DEF Others
  <2> QED BY <2>1, <2>3
<1> QED BY <1>1, <1>2, Zenon DEF Others

LEMMA WithoutIs ==
  ASSUME NEW ev, NEW K, NEW w, w = Without(ev, K)
  PROVE  DOMAIN w = DOMAIN ev \ K /\ \A k \in DOMAIN w : w[k] = ev[k]
BY DEF Without

\* An entry that is not outdated goes, or changes.
LEMMA RemoveOthers ==
  ASSUME NEW d, NEW key, NEW K,
         \A k \in K : k \in DOMAIN d.events => ~d.events[k].outdated /\ (k = key \/ d.events[k].expire < now),
         NEW e, e.events = Without(d.events, K)
  PROVE  /\ Others(d, e, key) /\ NoMore(d, e, key) /\ (OldIn(d, key) <=> OldIn(e, key))
         /\ key \notin K /\ key \in DOMAIN d.events => key \in DOMAIN e.events
         /\ key \in DOMAIN e.events => e.events[key] = d.events[key]
<1>1. /\ DOMAIN e.events = DOMAIN d.events \ K
      /\ \A k \in DOMAIN e.events : e.events[k] = d.events[k]
  <2>1. PICK ev, w : ev = d.events /\ w = e.events
    OBVIOUS
  <2>2. w = Without(ev, K)
    BY <2>1
  <2>3. DOMAIN w = DOMAIN ev \ K /\ \A k \in DOMAIN w : w[k] = ev[k]
    BY <2>2 DEF Without
  <2> QED BY <2>1, <2>3
<1>2. \A k \in DOMAIN d.events : (k # key \/ OldIn(d, k)) /\ ~(d.events[k].expire < now) =>
          k \in DOMAIN e.events /\ e.events[k] = d.events[k]
  BY <1>1 DEF OldIn
<1>3. OldIn(d, key) <=> OldIn(e, key)
  BY <1>1 DEF OldIn
<1> QED BY <1>1, <1>2, <1>3 DEF Others, NoMore, LiveIn

LEMMA WithOthers ==
  ASSUME NEW d, NEW key, ~OldIn(d, key), NEW x, NEW e, e.events = With(d.events, key, x)
  PROVE  Others(d, e, key) /\ e.events[key] = x /\ key \in DOMAIN e.events
<1>1. /\ DOMAIN e.events = DOMAIN d.events \cup {key} /\ e.events[key] = x
      /\ \A k \in DOMAIN e.events \ {key} : e.events[k] = d.events[k]
  <2>1. PICK ev, w : ev = d.events /\ w = e.events
    OBVIOUS
  <2>2. w = With(ev, key, x)
    BY <2>1
  <2>3. /\ DOMAIN w = DOMAIN ev \cup {key} /\ w[key] = x
        /\ \A k \in DOMAIN w \ {key} : w[k] = ev[k]
    BY <2>2 DEF With
  <2> QED BY <2>1, <2>3
<1>2. \A k : k # key /\ k \in DOMAIN e.events => k \in DOMAIN d.events /\ e.events[k] = d.events[k]
  BY <1>1
<1>3. \A k : OldIn(d, k) => k # key
  OBVIOUS
<1>4. \A k \in DOMAIN d.events : k # key => k \in DOMAIN e.events /\ e.events[k] = d.events[k]
  BY <1>1
<1> QED BY <1>1, <1>2, <1>3, <1>4 DEF Others

LEMMA CleanIncompleteOthers ==
  ASSUME NEW d, Receiving(d, {}), NEW e, e = CleanIncomplete(d), NEW key
  PROVE  /\ Others(d, e, key) /\ NoMore(d, e, key) /\ (OldIn(d, key) <=> OldIn(e, key))
         /\ LiveIn(d, key) => key \in DOMAIN e.events \/ d.events[key].expire < now
         /\ key \in DOMAIN e.events => e.events[key] = d.events[key]
<1>1. PICK K : K = {k \in DOMAIN d.events : ~d.events[k].outdated /\ d.events[k].expire < now}
  OBVIOUS
<1>2. e.events = Without(d.events, K)
  BY <1>1 DEF CleanIncomplete, Receiving, DemuxOK, IsDemux
<1>3. \A k \in K : k \in DOMAIN d.events => ~d.events[k].outdated /\ (k = key \/ d.events[k].expire < now)
  BY <1>1
<1>4. key \in K => d.events[key].expire < now
  BY <1>1
<1>5. Others(d, e, key) /\ NoMore(d, e, key) /\ (OldIn(d, key) <=> OldIn(e, key))
  BY <1>2, <1>3, RemoveOthers
<1>6. key \notin K /\ key \in DOMAIN d.events => key \in DOMAIN e.events
  BY <1>2, <1>3, RemoveOthers
<1>7. key \in DOMAIN e.events => e.events[key] = d.events[key]
  <2>1. PICK ev, w : ev = d.events /\ w = e.events
    OBVIOUS
  <2>2. \A k \in DOMAIN w : w[k] = ev[k]
    BY <1>2, <2>1 DEF Without
  <2> QED BY <2>1, <2>2
<1> QED BY <1>4, <1>5, <1>6, <1>7 DEF LiveIn

\* The cleaning of the queue.
LEMMA CleanOthers ==
  ASSUME NEW d, NEW open, Receiving(d, open), NEW e, e = CleanOutdated(d, now), NEW key
  PROVE  Others(d, e, key) /\ Receiving(e, open) /\ (LiveIn(d, key) => LiveIn(e, key))
<1>1. PICK c, kind : c = conf /\ kind = Kind
  OBVIOUS
<1>2. /\ DemuxOK(c, kind, e, open)
      /\ \A k \in DOMAIN e.events : k \in DOMAIN d.events /\ e.events[k] = d.events[k]
      /\ \A k \in DOMAIN d.events : ~d.events[k].outdated => k \in DOMAIN e.events
  BY <1>1, CleanKeeps DEF Receiving
<1>3. ASSUME NEW k \in DOMAIN d.events, ~(d.events[k].expire < now)
      PROVE  k \in DOMAIN e.events /\ e.events[k] = d.events[k]
  <2>1. PICK K : K = {d.outdated[i] : i \in Expired(d, now)}
    OBVIOUS
  <2>2. DOMAIN e.events = DOMAIN d.events \ K
    <3>1. e.events = Without(d.events, K)
      BY <2>1 DEF CleanOutdated
    <3> QED BY <3>1, WithoutIs
  <2>3. k \notin K
    <3> SUFFICES ASSUME NEW i \in Expired(d, now), k = d.outdated[i] PROVE FALSE
      BY <2>1
    <3>1. d.outdated \in Seq(DOMAIN d.events)
      BY DEF Receiving, DemuxOK, IsDemux
    <3>2. i \in DOMAIN d.outdated /\ \A j \in 1 .. i : d.events[d.outdated[j]].expire < now
      BY DEF Expired
    <3>3. i \in 1 .. i
      BY <3>1, <3>2
    <3> QED BY <1>3, <3>2, <3>3
  <2> QED BY <1>2, <1>3, <2>2, <2>3
<1>4. Others(d, e, key)
  BY <1>2, <1>3 DEF Others
<1> QED BY <1>1, <1>2, <1>4 DEF LiveIn, Receiving

\* An event gets outdated, and its number is remembered.
LEMMA SetOutdatedOthers ==
  ASSUME NEW d, NEW open, Receiving(d, open), Suited(conf), conf \in Configs, conf.eseq,
         NEW key, LiveIn(d, key), NEW e, e = SetOutdated(d, key)
  PROVE  Others(d, e, key) /\ OldIn(e, key) /\ e.events[key].expire = now + Keep
<1>1. PICK g : g = CleanOutdated(d, now)
  OBVIOUS
<1>2. Others(d, g, key) /\ Receiving(g, open) /\ LiveIn(g, key)
  BY <1>1, CleanOthers
<1>3. ~QueueFull(g)
  BY <1>2, QueueHasRoom DEF LiveIn
<1>4. PICK old, t : old = g.events[key] /\ t = now + Keep
  OBVIOUS
<1>5. PICK x : x = [old EXCEPT !.def = None, !.outdated = TRUE, !.expire = t]
  OBVIOUS
<1>6. e.events = With(g.events, key, x)
  BY <1>1, <1>3, <1>4, <1>5 DEF SetOutdated, CleanedFor
<1>7. x.outdated /\ x.expire = t
  <2>1. IsEntry(old)
    BY <1>2, <1>4 DEF Receiving, DemuxOK, IsDemux, LiveIn
  <2>2. PICK a, b, q : old = [def |-> a, outdated |-> b, expire |-> q]
    BY <2>1 DEF IsEntry
  <2>3. PICK y1 : y1 = [old EXCEPT !.def = None]
    OBVIOUS
  <2>4. PICK y2 : y2 = [y1 EXCEPT !.outdated = TRUE]
    OBVIOUS
  <2>5. PICK y3 : y3 = [y2 EXCEPT !.expire = t]
    OBVIOUS
  <2>6. x = y3
    BY <1>5, <2>3, <2>4, <2>5
  <2>7. y1 = [def |-> None, outdated |-> b, expire |-> q]
    BY <2>2, <2>3
  <2>8. y2 = [def |-> None, outdated |-> TRUE, expire |-> q]
    BY <2>4, <2>7
  <2>9. y3 = [def |-> None, outdated |-> TRUE, expire |-> t]
    BY <2>5, <2>8
  <2> QED BY <2>6, <2>9
<1>8. ~OldIn(g, key)
  BY <1>2 DEF OldIn, LiveIn
<1>9. Others(g, e, key) /\ e.events[key] = x /\ key \in DOMAIN e.events
  BY <1>6, <1>8, WithOthers
<1>10. Others(d, e, key)
  BY <1>2, <1>9, OthersTwice
<1> QED BY <1>4, <1>7, <1>9, <1>10 DEF OldIn

LEMMA FreeOthers ==
  ASSUME NEW d, NEW open, Receiving(d, open), Suited(conf), conf \in Configs,
         NEW key, LiveIn(d, key), NEW e, e = Free(d, key)
  PROVE  /\ Others(d, e, key) /\ ~LiveIn(e, key)
         /\ conf.eseq => OldIn(e, key) /\ e.events[key].expire = now + Keep
<1>1. CASE conf.eseq
  <2>1. e = SetOutdated(d, key)
    BY <1>1 DEF Free
  <2> QED BY <1>1, <2>1, SetOutdatedOthers DEF OldIn, LiveIn
<1>2. CASE ~conf.eseq
  <2>1. PICK K : K = {key}
    OBVIOUS
  <2>2. e.events = Without(d.events, K)
    BY <1>2, <2>1 DEF Free, Receiving, DemuxOK, IsDemux
  <2>3. \A k \in K : k \in DOMAIN d.events => ~d.events[k].outdated /\ (k = key \/ d.events[k].expire < now)
    BY <2>1 DEF LiveIn
  <2>4. Others(d, e, key)
    BY <2>2, <2>3, RemoveOthers
  <2>5. ~LiveIn(e, key)
    <3>1. PICK ev, w : ev = d.events /\ w = e.events
      OBVIOUS
    <3>2. w = Without(ev, K)
      BY <2>2, <3>1
    <3>3. DOMAIN w = DOMAIN ev \ K
      BY <3>2, WithoutIs
    <3> QED BY <2>1, <3>1, <3>3 DEF LiveIn
  <2> QED BY <1>2, <2>4, <2>5
<1> QED BY <1>1, <1>2

\* A key is not None, ...
LEMMA KeysAreNotNone ==
  ASSUME NEW c \in Configs, NEW k \in Keys(c)
  PROVE  k # None
<1>1. c.pubs \subseteq Publishers /\ c.events \in Nat
  BY ConfFacts
<1>2. (IF c.eseq THEN 0 .. c.events - 1 ELSE {-1}) \subseteq Int
  BY <1>1
<1>3. (IF c.subjects THEN c.pubs ELSE {None}) \subseteq Publishers \cup {None}
  BY <1>1
<1>4. k \in Int \X (Publishers \cup {None})
  BY <1>2, <1>3 DEF Keys
<1> QED BY <1>4, NoneAssumption

\* ... nor is the key of a fragment.
LEMMA KeyIsNotNone ==
  ASSUME NEW f, Legal(f), conf \in Configs
  PROVE  Key(f) # None
BY KeysAreNotNone DEF Legal

\* The event found for a fragment is one that waits for it, or a new one.
FoundFor(d, e, f) ==
    LET key == Key(f)
    IN  /\ LiveIn(e, key)
        /\ \/ /\ LiveIn(d, key) /\ e.events[key].def = d.events[key].def /\ (conf.eseq \/ ~f.first)
              /\ e.events[key].expire \in {d.events[key].expire, now + Keep}
           \/ /\ e.events[key].def = NewDefragmenter(RoomOf(conf)) /\ e.events[key].expire = now + Keep
              /\ IF conf.eseq THEN key \notin DOMAIN d.events ELSE f.first

\* Without event numbers, a fragment that is not stored ends its event, ...
Misses(d, e, key) == IF conf.eseq THEN NoMore(d, e, key) ELSE ~LiveIn(e, key)

\* ... and one is passed over if its event is outdated, or has not begun.
Passes(d, f) == IF conf.eseq THEN OldIn(d, Key(f)) ELSE ~f.first /\ ~LiveIn(d, Key(f))

\* A map has room for an event with a key that is not in it.
LEMMA MapHasRoom ==
  ASSUME conf \in Configs, NEW d, NEW key \in Keys(conf), DOMAIN d.events \subseteq Keys(conf) \ {key},
         IsFiniteSet(Keys(conf)), Cardinality(Keys(conf)) <= conf.capacity
  PROVE  ~MapFull(d, conf.capacity) /\ ~MapFull(d, 2 * conf.capacity)
<1>1. PICK S, T, n : S = Keys(conf) /\ T = DOMAIN d.events /\ n = conf.capacity /\ n \in Nat
  BY TransferAssumption
<1>2. IsFiniteSet(S) /\ key \in S /\ T \subseteq S \ {key} /\ Cardinality(S) <= n
  BY <1>1
<1>3. IsFiniteSet(S \ {key}) /\ Cardinality(S \ {key}) = Cardinality(S) - 1 /\ Cardinality(S) \in Nat
  BY <1>2, FS_RemoveElement, FS_CardinalityType
<1>4. IsFiniteSet(T) /\ Cardinality(T) <= Cardinality(S \ {key}) /\ Cardinality(T) \in Nat
  BY <1>2, <1>3, FS_Subset, FS_CardinalityType
<1>5. ~(Cardinality(T) >= n) /\ ~(Cardinality(T) >= 2 * n)
  BY <1>1, <1>2, <1>3, <1>4
<1> QED BY <1>1, <1>5 DEF MapFull

LEMMA HandleFinds ==
  ASSUME NEW d, Receiving(d, {}), Suited(conf), conf \in Configs, NEW f, Legal(f),
         NEW h, h = Handle(d, f)
  PROVE  /\ Others(d, h.demux, Key(f))
         /\ h.key \in {None, Key(f)}
         /\ h.key = None => Misses(d, h.demux, Key(f)) /\ (Adequate(conf) => Passes(d, f))
         /\ h.key # None => FoundFor(d, h.demux, f)
<1>1. d = [events |-> d.events, outdated |-> d.outdated] /\ \A k \in DOMAIN d.events : IsEntry(d.events[k])
  BY DEF Receiving, DemuxOK, IsDemux
<1>2. PICK key : key = Key(f) /\ key # None
  BY KeyIsNotNone
<1>3. PICK x : x = NewEvent(f)
  OBVIOUS
<1>4. x.def = NewDefragmenter(RoomOf(conf)) /\ ~x.outdated /\ x.expire = now + Keep
  <2>1. f.fec <=> HasFEC(conf)
    BY DEF Legal, PartOf
  <2>2. ExtHeader(conf.eseq, f.fec) = ExtHeader(conf.eseq, HasFEC(conf))
    BY <2>1 DEF ExtHeader
  <2> QED BY <1>3, <2>2 DEF NewEvent, RoomOf, RoomFor
<1>5. Others(d, d, key) /\ NoMore(d, d, key)
  BY DEF Others, NoMore, OldIn
<1>51. key \in Keys(conf) /\ DOMAIN d.events \subseteq Keys(conf)
  BY <1>2 DEF Legal, Receiving, DemuxOK, EntryOK
<1>6. CASE conf.eseq
  <2>1. \A k \in Found(d.events, key) : k = key
    <3>1. ~WrongEvent(d, f)
      BY HandleKeeps
    <3> QED BY <1>2, <1>6, <3>1 DEF WrongEvent
  <2>2. PICK found : found = Found(d.events, key)
    OBVIOUS
  <2>3. CASE found = {} /\ MapFull(d, 2 * conf.capacity)
    <3>1. key \notin DOMAIN d.events
      BY <2>2, <2>3 DEF Found
    <3>2. conf.capacity # 0
      BY <2>3 DEF MapFull
    <3>3. FALSE
      BY <1>6, <1>51, <2>3, <3>1, <3>2, MapHasRoom DEF Suited
    <3> QED BY <3>3
  <2>4. CASE found = {} /\ ~MapFull(d, 2 * conf.capacity)
    <3>1. PICK e : e = [events |-> With(d.events, key, x), outdated |-> d.outdated]
      OBVIOUS
    <3>2. h = [key |-> key, demux |-> e]
      BY <1>1, <1>2, <1>3, <1>6, <2>2, <2>4, <3>1 DEF Handle, SeqHandle
    <3>3. key \notin DOMAIN d.events
      BY <2>2, <2>4 DEF Found
    <3>4. ~OldIn(d, key) /\ e.events = With(d.events, key, x)
      BY <3>1, <3>3 DEF OldIn
    <3>5. Others(d, e, key) /\ e.events[key] = x /\ key \in DOMAIN e.events
      BY <3>4, WithOthers
    <3> QED BY <1>2, <1>4, <1>6, <3>2, <3>3, <3>5 DEF FoundFor, LiveIn
  <2>5. CASE found # {}
    <3>1. found = {key}
      BY <2>1, <2>2, <2>5
    <3>2. key \in DOMAIN d.events
      BY <2>2, <3>1 DEF Found
    <3>3. (CHOOSE k \in found : TRUE) = key
      BY <3>1
    <3>4. CASE d.events[key].outdated \/ Complete(Kind, d.events[key].def)
      <4>1. h = [key |-> None, demux |-> d]
        BY <1>2, <1>6, <2>2, <2>5, <3>3, <3>4 DEF Handle, SeqHandle
      <4>2. OldIn(d, key)
        BY <3>2, <3>4 DEF Receiving, DemuxOK, EntryOK, OldIn
      <4> QED BY <1>2, <1>5, <1>6, <4>1, <4>2 DEF Misses, Passes
    <3>5. CASE ~(d.events[key].outdated \/ Complete(Kind, d.events[key].def))
      <4>1. PICK y : y = [d.events[key] EXCEPT !.expire = now + Keep]
        OBVIOUS
      <4>2. y.def = d.events[key].def /\ ~y.outdated /\ y.expire = now + Keep
        <5>1. PICK a, b, q, t : /\ d.events[key] = [def |-> a, outdated |-> b, expire |-> q]
                                /\ t = now + Keep
          BY <1>1, <3>2 DEF IsEntry
        <5>2. y = [def |-> a, outdated |-> b, expire |-> t]
          BY <4>1, <5>1
        <5> QED BY <3>5, <5>1, <5>2
      <4>3. PICK e : e = [events |-> With(d.events, key, y), outdated |-> d.outdated]
        OBVIOUS
      <4>4. [d EXCEPT !.events[key].expire = now + Keep] = e
        <5>1. d.events = [z \in DOMAIN d.events |-> d.events[z]]
          BY DEF Receiving, DemuxOK, IsDemux
        <5>2. [d EXCEPT !.events[key].expire = now + Keep]
                = [events |-> [d.events EXCEPT ![key] = y], outdated |-> d.outdated]
          BY <1>1, <4>1
        <5>3. [d.events EXCEPT ![key] = y] = With(d.events, key, y)
          BY <3>2, <5>1 DEF With
        <5> QED BY <4>3, <5>2, <5>3
      <4>5. h.key = key /\ h.demux \in {d, e}
        <5>1. h = [key |-> key, demux |-> IF Seq0(f) % 4 = 0 THEN [d EXCEPT !.events[key].expire = now + Keep] ELSE d]
          BY <1>2, <1>6, <2>2, <2>5, <3>3, <3>5 DEF Handle, SeqHandle
        <5> QED BY <4>4, <5>1
      <4>6. ~OldIn(d, key) /\ e.events = With(d.events, key, y)
        BY <3>5, <4>3 DEF OldIn
      <4>7. Others(d, e, key) /\ e.events[key] = y /\ key \in DOMAIN e.events
        BY <4>6, WithOthers
      <4>8. LiveIn(d, key)
        BY <3>2, <3>5 DEF LiveIn
      <4>9. /\ Others(d, h.demux, key) /\ LiveIn(h.demux, key) /\ h.demux.events[key].def = d.events[key].def
            /\ h.demux.events[key].expire \in {d.events[key].expire, now + Keep}
        BY <1>5, <4>2, <4>5, <4>7, <4>8 DEF LiveIn
      <4> QED BY <1>2, <1>6, <4>5, <4>8, <4>9 DEF FoundFor
    <3> QED BY <3>4, <3>5
  <2> QED BY <2>3, <2>4, <2>5
<1>7. CASE ~conf.eseq
  <2>1. \A k \in DOMAIN d.events : ~d.events[k].outdated
    BY <1>7 DEF Receiving, DemuxOK, EntryOK, IsDemux, IsEntry
  <2>2. PICK K : K = {key}
    OBVIOUS
  <2>3. PICK e : e = [events |-> Without(d.events, K), outdated |-> d.outdated]
    OBVIOUS
  <2>4. PICK g : g = [events |-> With(e.events, key, x), outdated |-> e.outdated]
    OBVIOUS
  <2>5. [d EXCEPT !.events = Without(@, {key})] = e
    BY <1>1, <2>2, <2>3
  <2>6. [e EXCEPT !.events = With(@, key, x)] = g
    BY <2>3, <2>4
  <2>7. \/ (h = [key |-> None, demux |-> e] /\ MapFull(e, conf.capacity)) \/ (h = [key |-> key, demux |-> g] /\ f.first)
        \/ (h = [key |-> key, demux |-> d] /\ key \in DOMAIN d.events /\ ~f.first)
        \/ (h = [key |-> None, demux |-> d] /\ key \notin DOMAIN d.events /\ ~f.first)
    BY <1>2, <1>3, <1>7, <2>5, <2>6 DEF Handle, FirstHandle
  <2>8. Others(d, e, key) /\ ~LiveIn(e, key) /\ DOMAIN e.events \subseteq Keys(conf) \ {key}
    <3>1. /\ e.events = Without(d.events, K)
          /\ \A k \in K : k \in DOMAIN d.events => ~d.events[k].outdated /\ (k = key \/ d.events[k].expire < now)
      BY <2>1, <2>2, <2>3
    <3>2. PICK ev, w : ev = d.events /\ w = e.events
      OBVIOUS
    <3>3. DOMAIN w = DOMAIN ev \ K
      BY <3>1, <3>2 DEF Without
    <3>4. key \notin DOMAIN e.events /\ DOMAIN e.events \subseteq Keys(conf) \ {key}
      BY <1>51, <2>2, <3>2, <3>3
    <3>5. Others(d, e, key)
      BY <3>1, RemoveOthers
    <3> QED BY <3>4, <3>5 DEF LiveIn
  <2>9. Others(d, g, key) /\ g.events[key] = x /\ key \in DOMAIN g.events
    <3>1. PICK ev, w : ev = d.events /\ w = e.events
      OBVIOUS
    <3>2. w = Without(ev, K)
      BY <2>3, <3>1
    <3>3. DOMAIN w = DOMAIN ev \ K
      BY <3>2, WithoutIs
    <3>4. ~OldIn(e, key) /\ g.events = With(e.events, key, x)
      BY <2>2, <2>4, <3>1, <3>3 DEF OldIn
    <3>5. Others(e, g, key) /\ g.events[key] = x /\ key \in DOMAIN g.events
      BY <3>4, WithOthers
    <3> QED BY <2>8, <3>5, OthersTwice
  <2>10. CASE h = [key |-> None, demux |-> e] /\ MapFull(e, conf.capacity)
    <3>1. ~Adequate(conf)
      <4> SUFFICES ASSUME Adequate(conf) PROVE FALSE
        OBVIOUS
      <4>1. conf.capacity # 0
        BY <2>10 DEF MapFull
      <4>2. IsFiniteSet(Keys(conf)) /\ Cardinality(Keys(conf)) <= conf.capacity
        BY <1>7, <4>1 DEF Adequate
      <4> QED BY <1>51, <2>8, <2>10, <4>2, MapHasRoom
    <3> QED BY <1>2, <1>7, <2>8, <2>10, <3>1 DEF Misses
  <2>13. CASE h = [key |-> None, demux |-> d] /\ key \notin DOMAIN d.events /\ ~f.first
    BY <1>2, <1>5, <1>7, <2>13 DEF Misses, Passes, LiveIn
  <2>11. CASE h = [key |-> key, demux |-> g] /\ f.first
    BY <1>2, <1>4, <1>7, <2>9, <2>11 DEF FoundFor, LiveIn
  <2>12. CASE h = [key |-> key, demux |-> d] /\ key \in DOMAIN d.events /\ ~f.first
    BY <1>2, <1>5, <1>7, <2>1, <2>12 DEF FoundFor, LiveIn
  <2> QED BY <2>7, <2>10, <2>11, <2>12, <2>13
<1> QED BY <1>6, <1>7

\* process_fragment takes a defragmenter of the demultiplexer, or a new one, ...
TakesFrom(f, def) ==
    LET key == Key(f)
    IN  \/ LiveIn(demux, key) /\ def = demux.events[key].def /\ (conf.eseq \/ ~f.first)
        \/ /\ def = NewDefragmenter(RoomOf(conf))
           /\ IF conf.eseq
              THEN ~OldIn(demux, key) /\ (LiveIn(demux, key) => demux.events[key].expire < now)
              ELSE f.first

\* ... and stores the fragment there, or gives up the event.
Stores(f, def) ==
    LET key == Key(f)
        put == PutFragment(Kind, conf.duplicates, def, f)
    IN  /\ TakesFrom(f, def)
        /\ LiveIn(demux', key) /\ demux'.events[key].def = put /\ ~Error(put)
        /\ handle' = IF Complete(Kind, put) THEN key ELSE None
        /\ \/ demux'.events[key].expire = now + Keep
           \/ /\ LiveIn(demux, key) /\ def = demux.events[key].def
              /\ demux'.events[key].expire = demux.events[key].expire

Refuses(f, def) ==
    /\ TakesFrom(f, def)
    /\ Error(PutFragment(Kind, conf.duplicates, def, f))
    /\ ~LiveIn(demux', Key(f))

LEMMA ProcessEffect ==
  ASSUME ReceiverInv, CountInv, Suited(conf), NEW f \in net, NEW again, NEW cleans,
         ProcessFragment(f, again, cleans)
  PROVE  /\ Others(demux, demux', Key(f))
         /\ \/ /\ Misses(demux, demux', Key(f)) /\ handle' = None
               /\ (Adequate(conf) => Passes(demux, f)) \/ \E def : Refuses(f, def)
            \/ \E def : Stores(f, def)
<1>1. handle = None /\ conf \in Configs
  BY DEF ProcessFragment, Arrives, CountInv, TypeInv
<1>2. Legal(f)
  BY NetIsLegal
<1>3. PICK d : d = IF cleans THEN CleanIncomplete(demux) ELSE demux
  OBVIOUS
<1>4. PICK key : key = Key(f) /\ key # None
  BY <1>1, <1>2, KeyIsNotNone
<1>5. Receiving(demux, {})
  BY <1>1 DEF ReceiverInv, Open
<1>6. /\ Receiving(d, {}) /\ Others(demux, d, key) /\ NoMore(demux, d, key)
      /\ OldIn(demux, key) <=> OldIn(d, key)
      /\ LiveIn(demux, key) => key \in DOMAIN d.events \/ demux.events[key].expire < now
      /\ key \in DOMAIN d.events => d.events[key] = demux.events[key]
      /\ ~conf.eseq => d = demux
  <2>1. CASE cleans
    <3>1. d = CleanIncomplete(demux) /\ conf.eseq
      BY <1>3, <2>1 DEF ProcessFragment
    <3>2. Receiving(d, {})
      BY <1>5, <3>1, CleanIncompleteKeeps
    <3>3. /\ Others(demux, d, key) /\ NoMore(demux, d, key) /\ (OldIn(demux, key) <=> OldIn(d, key))
          /\ LiveIn(demux, key) => key \in DOMAIN d.events \/ demux.events[key].expire < now
          /\ key \in DOMAIN d.events => d.events[key] = demux.events[key]
      BY <1>5, <3>1, CleanIncompleteOthers
    <3> QED BY <3>1, <3>2, <3>3
  <2>2. CASE ~cleans
    <3>1. d = demux
      BY <1>3, <2>2
    <3> QED BY <1>5, <3>1 DEF Others, NoMore, OldIn, LiveIn
  <2> QED BY <2>1, <2>2
<1>7. PICK h : h = Handle(d, f)
  OBVIOUS
<1>8. /\ Others(d, h.demux, key) /\ h.key \in {None, key}
      /\ h.key = None => Misses(d, h.demux, key) /\ (Adequate(conf) => Passes(d, f))
      /\ h.key # None => FoundFor(d, h.demux, f)
  BY <1>1, <1>2, <1>4, <1>6, <1>7, HandleFinds
<1>9. Receiving(h.demux, {})
  BY <1>2, <1>6, <1>7, HandleKeeps
<1>10. PICK def : def = h.demux.events[h.key].def
  OBVIOUS
<1>11. PICK put : put = PutFragment(Kind, conf.duplicates, def, f)
  OBVIOUS
<1>12. PICK u : u = [h.demux EXCEPT !.events[h.key].def = put]
  OBVIOUS
<1>13. \/ h.key = None /\ demux' = h.demux /\ handle' = handle
       \/ h.key # None /\ Error(put) /\ demux' = Free(u, h.key) /\ handle' = handle
       \/ /\ h.key # None /\ ~Error(put) /\ demux' = u
          /\ handle' = IF Complete(Kind, put) THEN h.key ELSE None
  BY <1>3, <1>7, <1>10, <1>11, <1>12, Zenon DEF ProcessFragment
<1>14. CASE h.key = None
  <2>1. demux' = h.demux /\ handle' = None
    BY <1>1, <1>13, <1>14
  <2>2. Others(demux, demux', key)
    BY <1>6, <1>8, <2>1, OthersTwice
  <2>3. Misses(demux, demux', key)
    BY <1>6, <1>8, <1>14, <2>1 DEF Misses, NoMore
  <2>4. Adequate(conf) => Passes(demux, f)
    BY <1>4, <1>6, <1>8, <1>14 DEF Passes
  <2> QED BY <1>4, <2>1, <2>2, <2>3, <2>4
<1>15. CASE h.key # None
  <2>1. h.key = key /\ LiveIn(h.demux, key)
    BY <1>4, <1>8, <1>15 DEF FoundFor
  <2>2. PICK g : g = h.demux
    OBVIOUS
  <2>3. PICK x : x = [g.events[key] EXCEPT !.def = put]
    OBVIOUS
  <2>4. IsEntry(g.events[key]) /\ key \in DOMAIN g.events /\ ~g.events[key].outdated
    BY <1>9, <2>1, <2>2 DEF Receiving, DemuxOK, IsDemux, LiveIn
  <2>5. x.def = put /\ ~x.outdated /\ x.expire = g.events[key].expire
    <3>1. PICK a, b, q : g.events[key] = [def |-> a, outdated |-> b, expire |-> q]
      BY <2>4 DEF IsEntry
    <3>2. x = [def |-> put, outdated |-> b, expire |-> q]
      BY <2>3, <3>1
    <3> QED BY <2>4, <3>1, <3>2
  <2>6. u.events = With(g.events, key, x)
    <3>1. /\ g = [events |-> g.events, outdated |-> g.outdated]
          /\ g.events = [y \in DOMAIN g.events |-> g.events[y]]
      BY <1>9, <2>2 DEF Receiving, DemuxOK, IsDemux
    <3>2. u = [events |-> [g.events EXCEPT ![key] = x], outdated |-> g.outdated]
      BY <1>12, <2>1, <2>2, <2>3, <3>1
    <3>3. [g.events EXCEPT ![key] = x] = With(g.events, key, x)
      BY <2>4, <3>1 DEF With
    <3> QED BY <3>2, <3>3
  <2>7. ~OldIn(g, key)
    BY <2>4 DEF OldIn
  <2>8. Others(g, u, key) /\ u.events[key] = x /\ key \in DOMAIN u.events
    BY <2>6, <2>7, WithOthers
  <2>9. LiveIn(u, key) /\ u.events[key].def = put /\ u.events[key].expire = g.events[key].expire
    BY <2>5, <2>8 DEF LiveIn
  <2>10. Others(demux, u, key)
    BY <1>6, <1>8, <2>2, <2>8, OthersTwice
  <2>13. /\ TakesFrom(f, def)
         /\ \/ g.events[key].expire = now + Keep
            \/ /\ LiveIn(demux, key) /\ def = demux.events[key].def
               /\ g.events[key].expire = demux.events[key].expire
    <3>1. FoundFor(d, g, f) /\ def = g.events[key].def
      BY <1>8, <1>10, <1>15, <2>1, <2>2
    <3>2. CASE /\ LiveIn(d, key) /\ g.events[key].def = d.events[key].def /\ (conf.eseq \/ ~f.first)
               /\ g.events[key].expire \in {d.events[key].expire, now + Keep}
      <4>1. LiveIn(demux, key) /\ d.events[key] = demux.events[key]
        BY <1>6, <3>2 DEF NoMore, LiveIn
      <4> QED BY <1>4, <3>1, <3>2, <4>1 DEF TakesFrom
    <3>3. CASE /\ g.events[key].def = NewDefragmenter(RoomOf(conf)) /\ g.events[key].expire = now + Keep
               /\ IF conf.eseq THEN key \notin DOMAIN d.events ELSE f.first
      <4>1. conf.eseq => ~OldIn(demux, key) /\ (LiveIn(demux, key) => demux.events[key].expire < now)
        BY <1>6, <3>3 DEF OldIn
      <4> QED BY <1>4, <3>1, <3>3, <4>1 DEF TakesFrom
    <3> QED BY <1>4, <3>1, <3>2, <3>3 DEF FoundFor
  <2>11. CASE Error(put) /\ demux' = Free(u, key) /\ handle' = handle
    <3>1. PICK open : open = {key}
      OBVIOUS
    <3>2. Receiving(u, open)
      <4>1. IsDef(def) /\ def.room \in {0, RoomOf(conf)}
        BY <1>9, <1>10, <2>1 DEF Receiving, DemuxOK, EntryOK, LiveIn
      <4>2. PICK kind : kind = Kind /\ kind \in {"inorder", "outoforder", "fec"}
        BY Kinds
      <4>3. put = PutFragment(kind, conf.duplicates, def, f)
        BY <1>11, <4>2
      <4>4. IsDef(put) /\ put.room \in {0, def.room}
        BY <4>1, <4>2, <4>3, PutKeepsRoom
      <4>5. put.room \in {0, RoomOf(conf)}
        BY <4>1, <4>4
      <4>6. u = [g EXCEPT !.events[key].def = put] /\ Receiving(g, {})
        BY <1>9, <1>12, <2>1, <2>2
      <4>7. Complete(Kind, put) => key \in open
        BY <3>1
      <4> QED BY <2>4, <4>4, <4>5, <4>6, <4>7, UpdateKeeps
    <3>3. Others(u, demux', key) /\ ~LiveIn(demux', key)
      BY <1>1, <2>9, <2>11, <3>2, FreeOthers
    <3>4. Others(demux, demux', key)
      BY <2>10, <3>3, OthersTwice
    <3>5. Refuses(f, def)
      BY <1>4, <1>11, <2>11, <2>13, <3>3 DEF Refuses
    <3> QED BY <1>1, <1>4, <2>11, <3>3, <3>4, <3>5 DEF Misses, NoMore
  <2>12. CASE ~Error(put) /\ demux' = u /\ handle' = IF Complete(Kind, put) THEN key ELSE None
    <3>1. Stores(f, def)
      BY <1>4, <1>11, <2>9, <2>12, <2>13 DEF Stores
    <3> QED BY <1>4, <2>10, <2>12, <3>1
  <2> QED BY <1>13, <1>15, <2>1, <2>11, <2>12
<1> QED BY <1>14, <1>15

-----------------------------------------------------------------------------
(* The data on its way to the subscriber.                                  *)

\* The key of the fragments of an event.
KeyOf(c, e) == <<IF c.eseq THEN e[2] - 1 ELSE -1, IF c.subjects THEN e[1] ELSE None>>

\* An event was handed on, or its defragmenter is kept to be handed on.
Done(e) == received[e] > 0 \/ \E d \in kept : \E x \in d.data : x.src = e

\* A defragmenter holds fragments that arrived.
Waiting(c, kind, d, e, v, arrived) ==
    /\ Holds(c, kind, d, e, v) /\ d.data # {}
    /\ Numbers(d) \subseteq arrived
    /\ c.duplicates => d.seen = Numbers(d)

\* Without event numbers it has all that arrived, the last fragment is yet to come,
\* and no event before it is under way.
Ordered(e, k) ==
    /\ Numbers(demux.events[k].def) = heard[e]
    /\ ~TooLong(EventOf(e).count - 1)
    /\ handle # k => 0 \notin heard[e]
    /\ \A f \in net : f.src[1] = e[1] => e[2] <= f.src[2]

EntryOf(k, e) ==
    /\ IsPublished(e) /\ KeyOf(conf, e) = k
    /\ Waiting(conf, Kind, demux.events[k].def, e, EventOf(e), heard[e])
    /\ ~Done(e)
    /\ ~conf.eseq => Ordered(e, k)

\* An event in the demultiplexer was not handed on before, ...
EntryInv ==
    /\ \A k : LiveIn(demux, k) => \E e \in Events : EntryOf(k, e)
    /\ handle # None => Complete(Kind, demux.events[handle].def)

\* ... nor was one that is kept, which is there once, ...
KeptOf(d, e) ==
    /\ IsPublished(e) /\ Holds(conf, Kind, d, e, EventOf(e)) /\ Complete(Kind, d) /\ received[e] = 0
KeptInv ==
    /\ \A d \in kept : \E e \in Events : KeptOf(d, e)
    /\ \A c, d \in kept : (\E x \in c.data, y \in d.data : x.src = y.src) => c = d

\* ... and what was handed on does not come back: either nothing of it is under way,
\* or its number is remembered longer than a fragment takes, or there are no event
\* numbers and the network does not repeat its first fragment.
Remembered(e) ==
    LET k == KeyOf(conf, e)
    IN  /\ OldIn(demux, k) /\ demux.events[k].expire \in Nat
        /\ EventOf(e).at + Keep <= demux.events[k].expire
DoneInv ==
    /\ received \in [Events -> {0, 1}]
    /\ \A e \in Events : Done(e) =>
          /\ IsPublished(e)
          /\ IF conf.eseq THEN Gone(e) \/ Remembered(e) ELSE EventOf(e).count - 1 \in heard[e]

DataInv == EntryInv /\ KeptInv /\ DoneInv

LEMMA InitData == Init => DataInv
<1> SUFFICES ASSUME Init PROVE DataInv
  OBVIOUS
<1>1. PICK none : none = [k \in {} |-> None]
  OBVIOUS
<1>2. demux = [events |-> none, outdated |-> <<>>]
  BY <1>1 DEF Init
<1>3. \A k : ~LiveIn(demux, k)
  BY <1>1, <1>2 DEF LiveIn
<1>4. received = [e \in Events |-> 0] /\ kept = {} /\ handle = None
  BY DEF Init
<1>5. \A e \in Events : ~Done(e)
  BY <1>4 DEF Done
<1> QED BY <1>3, <1>4, <1>5 DEF DataInv, EntryInv, KeptInv, DoneInv

\* Fragments of two events with the same key are of the same publisher, and with
\* event numbers of the same event.
LEMMA KeysTell ==
  ASSUME CountInv, Separated(conf), NEW e \in Events, NEW g \in Events, IsPublished(e), IsPublished(g),
         KeyOf(conf, e) = KeyOf(conf, g)
  PROVE  e[1] = g[1] /\ (conf.eseq => e = g)
<1>1. ASSUME NEW x \in Events, IsPublished(x) PROVE x[1] \in conf.pubs
  <2>1. x[1] \in Publishers /\ x[2] \in Nat \ {0} /\ Len(published[x[1]]) \in Nat
    BY EventFacts
  <2>2. published[x[1]] # <<>>
    BY <1>1, <2>1 DEF IsPublished
  <2> QED BY <2>1, <2>2 DEF CountInv, PublishedInv
<1>2. e[1] = g[1]
  <2>1. CASE conf.subjects
    BY <2>1 DEF KeyOf
  <2>2. CASE ~conf.subjects
    BY <1>1, <2>2 DEF Separated
  <2> QED BY <2>1, <2>2
<1>3. ASSUME conf.eseq PROVE e = g
  <2>1. e[2] - 1 = g[2] - 1
    BY <1>3 DEF KeyOf
  <2>2. e[2] \in Nat /\ g[2] \in Nat /\ e = <<e[1], e[2]>> /\ g = <<g[1], g[2]>>
    BY EventFacts
  <2>3. e[2] = g[2]
    BY <2>1, <2>2
  <2> QED BY <1>2, <2>2, <2>3
<1> QED BY <1>2, <1>3

LEMMA KeyOfFragment ==
  ASSUME NEW f
  PROVE  Key(f) = KeyOf(conf, f.src)
BY DEF Key, KeyOf, Seq0

LEMMA HeaderGrows ==
  ASSUME NEW i \in Nat, NEW j \in Nat, i <= j
  PROVE  GetBasicHeaderLen(i) <= GetBasicHeaderLen(j)
BY MaxFragmentsGrow DEF GetBasicHeaderLen

LEMMA KindIs == KindOf(conf, Kind)
BY Kinds DEF KindOf

\* What was complete is handed on as one event.
LEMMA HandsOn ==
  ASSUME CountInv, received \in [Events -> {0, 1}], NEW e \in Events, IsPublished(e), received[e] = 0,
         NEW d, Holds(conf, Kind, d, e, EventOf(e)), Complete(Kind, d), HandOn(d)
  PROVE  received' = [received EXCEPT ![e] = 1] /\ corrupt' = corrupt
<1>1. conf \in Configs /\ EventOf(e) \in PubEvent
  BY EventFacts DEF CountInv, TypeInv
<1>2. PICK kind : kind = Kind /\ KindOf(conf, kind)
  BY KindIs
<1>3. PICK v \in PubEvent : v = EventOf(e)
  BY <1>1
<1>4. d.data # {} /\ Intact(kind, d, e, v.len)
  <2>1. Holds(conf, kind, d, e, v) /\ Complete(kind, d)
    BY <1>2, <1>3
  <2> QED BY <1>1, <1>2, <2>1, CompleteIsWhole
<1>5. PICK whole : whole = {x \in Events : IsPublished(x) /\ Intact(Kind, d, x, EventOf(x).len)}
  OBVIOUS
<1>6. e \in whole
  BY <1>2, <1>3, <1>4, <1>5
<1>7. ASSUME NEW x \in whole PROVE x = e
  <2>1. Intact(Kind, d, x, EventOf(x).len) /\ Intact(kind, d, e, v.len)
    BY <1>4, <1>5
  <2>2. \A p \in d.data : p.src = x /\ p.src = e
    BY <2>1 DEF Intact
  <2> QED BY <1>4, <2>2
<1>8. whole = {e}
  BY <1>6, <1>7
<1>9. /\ received' = [x \in Events |-> IF x \in whole THEN received[x] + 1 ELSE received[x]]
      /\ corrupt' = IF whole = {} THEN corrupt + 1 ELSE corrupt
  BY <1>5 DEF HandOn
<1>10. received' = [received EXCEPT ![e] = 1]
  <2>1. \A x \in Events : x \in whole <=> x = e
    BY <1>8
  <2>2. received' = [x \in Events |-> IF x = e THEN 1 ELSE received[x]]
    BY <1>9, <2>1
  <2> QED BY <2>2
<1> QED BY <1>8, <1>9, <1>10

\* Steps that bring the receiver nothing.
LEMMA QuietKeepsData ==
  ASSUME DataInv, UNCHANGED <<conf, demux, handle, kept, received, heard>>,
         \A e \in Events : IsPublished(e) =>
             IsPublished(e)' /\ EventOf(e)' = EventOf(e) /\ (Gone(e) => Gone(e)'),
         \A f \in net' : f \in net \/ \A e \in Events : IsPublished(e) /\ f.src[1] = e[1] => e[2] <= f.src[2]
  PROVE  DataInv'
<1>1. Kind' = Kind
  BY DEF Kind
<1>2. \A e \in Events : Done(e)' <=> Done(e)
  BY DEF Done
<1>3. ASSUME NEW k, LiveIn(demux', k) PROVE \E e \in Events : EntryOf(k, e)'
  <2>1. PICK e \in Events : EntryOf(k, e)
    BY <1>3 DEF DataInv, EntryInv
  <2>2. IsPublished(e) /\ IsPublished(e)' /\ EventOf(e)' = EventOf(e) /\ KeyOf(conf', e) = k
    BY <2>1 DEF EntryOf
  <2>3. Waiting(conf', Kind', demux'.events[k].def, e, EventOf(e)', heard'[e])
    BY <1>1, <2>1, <2>2 DEF EntryOf
  <2>4. ~Done(e)'
    BY <1>2, <2>1 DEF EntryOf
  <2>5. ~conf.eseq => Ordered(e, k)'
    <3> SUFFICES ASSUME ~conf.eseq PROVE Ordered(e, k)'
      OBVIOUS
    <3>1. Ordered(e, k)
      BY <2>1 DEF EntryOf
    <3>2. \A f \in net' : f.src[1] = e[1] => e[2] <= f.src[2]
      BY <2>2, <3>1 DEF Ordered
    <3>3. ~TooLong(EventOf(e).count - 1)'
      BY <2>2, <3>1 DEF Ordered, TooLong
    <3> QED BY <3>1, <3>2, <3>3 DEF Ordered
  <2> QED BY <2>2, <2>3, <2>4, <2>5 DEF EntryOf
<1>4. EntryInv'
  <2>1. handle' # None => Complete(Kind', demux'.events[handle'].def)
    BY <1>1 DEF DataInv, EntryInv
  <2> QED BY <1>3, <2>1 DEF EntryInv
<1>5. KeptInv'
  <2>1. ASSUME NEW d \in kept' PROVE \E e \in Events : KeptOf(d, e)'
    <3>1. PICK e \in Events : KeptOf(d, e)
      BY DEF DataInv, KeptInv
    <3>2. IsPublished(e)' /\ EventOf(e)' = EventOf(e)
      BY <3>1 DEF KeptOf
    <3> QED BY <1>1, <3>1, <3>2 DEF KeptOf
  <2>2. \A c, d \in kept' : (\E x \in c.data, y \in d.data : x.src = y.src) => c = d
    BY DEF DataInv, KeptInv
  <2> QED BY <2>1, <2>2 DEF KeptInv
<1>6. DoneInv'
  <2>1. ASSUME NEW e \in Events, Done(e)'
        PROVE  /\ IsPublished(e)'
               /\ IF conf'.eseq THEN (Gone(e) \/ Remembered(e))' ELSE EventOf(e)'.count - 1 \in heard'[e]
    <3>1. /\ IsPublished(e)
          /\ IF conf.eseq THEN Gone(e) \/ Remembered(e) ELSE EventOf(e).count - 1 \in heard[e]
      BY <1>2, <2>1 DEF DataInv, DoneInv
    <3>2. IsPublished(e)' /\ EventOf(e)' = EventOf(e) /\ (Gone(e) => Gone(e)')
      BY <3>1
    <3>3. Remembered(e) => Remembered(e)'
      BY <3>2 DEF Remembered
    <3> QED BY <3>1, <3>2, <3>3
  <2>2. received' \in [Events -> {0, 1}]
    BY DEF DataInv, DoneInv
  <2> QED BY <2>1, <2>2 DEF DoneInv
<1> QED BY <1>4, <1>5, <1>6 DEF DataInv

LEMMA SendKeepsData ==
  ASSUME DataInv, CountInv, NEW p \in Publishers,
         (\E len \in conf.lens : Publish(p, len)) \/ SendFragment(p)
  PROVE  DataInv'
<1>1. ASSUME NEW len \in conf.lens, Publish(p, len) PROVE DataInv'
  <2>1. PICK v \in PubEvent, g \in Frag \cup {None} :
            /\ Len(published'[p]) = Len(published[p]) + 1
            /\ \A i \in 1 .. Len(published[p]) : published'[p][i] = published[p][i]
            /\ \A q \in Publishers \ {p} : published'[q] = published[q] /\ frag'[q] = frag[q]
            /\ UNCHANGED <<conf, net, dups, demux, handle, kept, now, received, corrupt, heard, failed>>
    BY <1>1, PublishEffect
  <2>2. ASSUME NEW e \in Events, IsPublished(e)
        PROVE  IsPublished(e)' /\ EventOf(e)' = EventOf(e) /\ (Gone(e) => Gone(e)')
    <3>1. e[1] \in Publishers /\ e[2] \in Nat \ {0} /\ Len(published[e[1]]) \in Nat
      BY EventFacts
    <3>2. e[2] \in 1 .. Len(published[e[1]])
      BY <2>2, <3>1 DEF IsPublished
    <3>3. CASE e[1] = p
      <4>1. ~(e[2] = Len(published'[p]))
        BY <2>1, <3>1, <3>2, <3>3
      <4>2. ~Due(e)'
        BY <3>3, <4>1 DEF Due
      <4> QED BY <2>1, <3>1, <3>2, <3>3, <4>2 DEF IsPublished, EventOf, Gone
    <3>4. CASE e[1] # p
      <4>1. published'[e[1]] = published[e[1]] /\ frag'[e[1]] = frag[e[1]]
        BY <2>1, <3>1, <3>4
      <4> QED BY <2>1, <2>2, <4>1 DEF IsPublished, EventOf, Gone, Due
    <3> QED BY <3>3, <3>4
  <2> QED BY <2>1, <2>2, QuietKeepsData
<1>2. ASSUME SendFragment(p) PROVE DataInv'
  <2> DEFINE e0 == <<p, Len(published[p])>>
  <2>1. PICK f : /\ net' = net \cup {f} /\ f.src = e0
                 /\ frag[p] # None /\ Len(published[p]) \in Nat \ {0}
                 /\ \A q \in Publishers \ {p} : frag'[q] = frag[q]
                 /\ UNCHANGED <<conf, published, dups, demux, handle, kept, now, received,
                                corrupt, heard, failed>>
    BY <1>2, SendEffect
  <2>2. ASSUME NEW e \in Events, IsPublished(e)
        PROVE  IsPublished(e)' /\ EventOf(e)' = EventOf(e) /\ (Gone(e) => Gone(e)')
    <3>1. e[1] \in Publishers /\ e[2] \in Nat \ {0} /\ e = <<e[1], e[2]>>
      BY EventFacts
    <3>2. CASE e = e0
      BY <2>1, <2>2, <3>2 DEF IsPublished, EventOf, Gone, Due
    <3>3. CASE e # e0
      <4>1. ASSUME Gone(e) PROVE Gone(e)'
        <5>1. ~Due(e)'
          <6>1. CASE e[1] = p
            BY <2>1, <3>1, <3>3, <6>1 DEF Due
          <6>2. CASE e[1] # p
            BY <2>1, <3>1, <4>1, <6>2 DEF Due, Gone
          <6> QED BY <6>1, <6>2
        <5>2. \A g \in net' : g.src # e
          BY <2>1, <3>3, <4>1 DEF Gone
        <5> QED BY <5>1, <5>2 DEF Gone
      <4> QED BY <2>1, <2>2, <4>1 DEF IsPublished, EventOf
    <3> QED BY <3>2, <3>3
  <2>3. \A g \in net' : g \in net \/ \A e \in Events : IsPublished(e) /\ g.src[1] = e[1] => e[2] <= g.src[2]
    <3>1. ASSUME NEW e \in Events, IsPublished(e), e0[1] = e[1] PROVE e[2] <= e0[2]
      BY <3>1 DEF IsPublished
    <3> QED BY <2>1, <3>1
  <2> QED BY <2>1, <2>2, <2>3, QuietKeepsData
<1> QED BY <1>1, <1>2

LEMMA TransportKeepsData ==
  ASSUME DataInv, UNCHANGED <<conf, frag, published, demux, handle, kept, received, heard>>,
         net' \subseteq net
  PROVE  DataInv'
<1>1. ASSUME NEW e \in Events, IsPublished(e)
      PROVE  IsPublished(e)' /\ EventOf(e)' = EventOf(e) /\ (Gone(e) => Gone(e)')
  BY <1>1 DEF IsPublished, EventOf, Gone, Due
<1> QED BY <1>1, QuietKeepsData

\* An event that was kept is handed on.
LEMMA KeptKeepsData ==
  ASSUME DataInv, CountInv, NEW d \in kept, KeptEventProcessed(d)
  PROVE  /\ DataInv'
         /\ \E e \in Events : IsPublished(e) /\ received[e] = 0 /\ received' = [received EXCEPT ![e] = 1]
         /\ corrupt' = corrupt
         /\ \A e \in Events : Done(e) => Done(e)'
<1>1. PICK e \in Events : KeptOf(d, e)
  BY DEF DataInv, KeptInv
<1>2. received' = [received EXCEPT ![e] = 1] /\ corrupt' = corrupt
  <2>1. received \in [Events -> {0, 1}] /\ HandOn(d)
    BY DEF DataInv, DoneInv, KeptEventProcessed
  <2> QED BY <1>1, <2>1, HandsOn DEF KeptOf
<1>3. /\ UNCHANGED <<conf, frag, published, net, dups, demux, handle, now, heard, failed>>
      /\ kept' = kept \ {d} /\ received \in [Events -> {0, 1}]
  BY DEF KeptEventProcessed, DataInv, DoneInv
<1>4. d.data # {} /\ \A x \in d.data : x.src = e
  <2>1. conf \in Configs /\ EventOf(e) \in PubEvent
    BY <1>1, EventFacts DEF CountInv, TypeInv, KeptOf
  <2>2. PICK v, kind : v \in PubEvent /\ v = EventOf(e) /\ kind = Kind /\ KindOf(conf, kind)
    BY <2>1, KindIs
  <2>3. Holds(conf, kind, d, e, v) /\ Complete(kind, d)
    BY <1>1, <2>2 DEF KeptOf
  <2> QED BY <2>1, <2>2, <2>3, CompleteIsWhole DEF Holds
<1>5. Done(e)
  BY <1>3, <1>4 DEF Done
<1>6. ASSUME NEW g \in Events PROVE Done(g)' => Done(g)
  BY <1>2, <1>3, <1>5 DEF Done
<1>7. Kind' = Kind
  BY <1>3 DEF Kind
<1>8. ASSUME NEW k, LiveIn(demux', k) PROVE \E g \in Events : EntryOf(k, g)'
  <2>1. PICK g \in Events : EntryOf(k, g)
    BY <1>3, <1>8 DEF DataInv, EntryInv
  <2>2. ~Done(g)'
    BY <1>6, <2>1 DEF EntryOf
  <2>3. IsPublished(g)' /\ EventOf(g)' = EventOf(g) /\ KeyOf(conf', g) = k
    BY <1>3, <2>1 DEF EntryOf, IsPublished, EventOf
  <2>4. Waiting(conf', Kind', demux'.events[k].def, g, EventOf(g)', heard'[g])
    BY <1>3, <1>7, <2>1, <2>3 DEF EntryOf
  <2>5. ~conf.eseq => Ordered(g, k)'
    BY <1>3, <2>1, <2>3 DEF EntryOf, Ordered, TooLong
  <2> QED BY <1>3, <2>2, <2>3, <2>4, <2>5 DEF EntryOf
<1>9. EntryInv'
  <2>1. handle' # None => Complete(Kind', demux'.events[handle'].def)
    BY <1>3, <1>7 DEF DataInv, EntryInv
  <2> QED BY <1>8, <2>1 DEF EntryInv
<1>10. KeptInv'
  <2>1. ASSUME NEW b \in kept' PROVE \E g \in Events : KeptOf(b, g)'
    <3>1. PICK g \in Events : KeptOf(b, g)
      BY <1>3 DEF DataInv, KeptInv
    <3>2. g # e
      <4> SUFFICES ASSUME g = e PROVE FALSE
        OBVIOUS
      <4>1. b.data # {} /\ \A x \in b.data : x.src = e
        <5>1. conf \in Configs /\ EventOf(e) \in PubEvent
          BY <1>1, EventFacts DEF CountInv, TypeInv, KeptOf
        <5>2. PICK v, kind : v \in PubEvent /\ v = EventOf(e) /\ kind = Kind /\ KindOf(conf, kind)
          BY <5>1, KindIs
        <5>3. Holds(conf, kind, b, e, v) /\ Complete(kind, b)
          BY <3>1, <5>2 DEF KeptOf
        <5> QED BY <5>1, <5>2, <5>3, CompleteIsWhole DEF Holds
      <4>2. PICK x \in b.data, y \in d.data : x.src = y.src
        BY <1>4, <4>1
      <4>3. b = d
        BY <1>3, <4>2 DEF DataInv, KeptInv
      <4> QED BY <1>3, <4>3
    <3>3. received'[g] = 0
      BY <1>2, <1>3, <3>1, <3>2 DEF KeptOf
    <3>4. IsPublished(g)' /\ EventOf(g)' = EventOf(g)
      BY <1>3, <3>1 DEF KeptOf, IsPublished, EventOf
    <3> QED BY <1>3, <1>7, <3>1, <3>3, <3>4 DEF KeptOf
  <2>2. \A b, c \in kept' : (\E x \in b.data, y \in c.data : x.src = y.src) => b = c
    BY <1>3 DEF DataInv, KeptInv
  <2> QED BY <2>1, <2>2 DEF KeptInv
<1>11. DoneInv'
  <2>1. ASSUME NEW g \in Events, Done(g)'
        PROVE  /\ IsPublished(g)'
               /\ IF conf'.eseq THEN (Gone(g) \/ Remembered(g))' ELSE EventOf(g)'.count - 1 \in heard'[g]
    <3>1. /\ IsPublished(g)
          /\ IF conf.eseq THEN Gone(g) \/ Remembered(g) ELSE EventOf(g).count - 1 \in heard[g]
      BY <1>6, <2>1 DEF DataInv, DoneInv
    <3>2. IsPublished(g)' /\ EventOf(g)' = EventOf(g) /\ (Gone(g) => Gone(g)')
      BY <1>3, <3>1 DEF IsPublished, EventOf, Gone, Due
    <3>3. Remembered(g) => Remembered(g)'
      BY <1>3, <3>2 DEF Remembered
    <3> QED BY <1>3, <3>1, <3>2, <3>3
  <2>2. received' \in [Events -> {0, 1}]
    BY <1>2, <1>3
  <2> QED BY <2>1, <2>2 DEF DoneInv
<1>12. ASSUME NEW g \in Events, Done(g) PROVE Done(g)'
  <2>1. CASE g = e
    BY <1>2, <1>3, <2>1 DEF Done
  <2>2. CASE g # e
    <3>1. received'[g] = received[g]
      BY <1>2, <1>3, <2>2
    <3>2. ~\E x \in d.data : x.src = g
      BY <1>4, <2>2
    <3> QED BY <1>3, <1>12, <3>1, <3>2 DEF Done
  <2> QED BY <2>1, <2>2
<1> QED BY <1>1, <1>2, <1>9, <1>10, <1>11, <1>12 DEF DataInv, KeptOf

\* A number is remembered as long as fragments of its event are under way.
LEMMA StaysRemembered ==
  ASSUME CountInv, InTime, NEW e \in Events, IsPublished(e), Remembered(e), NEW key,
         Others(demux, demux', key), conf' = conf, published' = published
  PROVE  Gone(e) \/ Remembered(e)'
<1> SUFFICES ASSUME ~Gone(e) PROVE Remembered(e)'
  OBVIOUS
<1> DEFINE k == KeyOf(conf, e)
<1>1. OldIn(demux, k) /\ demux.events[k].expire \in Nat /\ EventOf(e).at + Keep <= demux.events[k].expire
  BY DEF Remembered
<1>2. EventOf(e).at \in Nat /\ Keep \in Nat /\ now \in Nat /\ now <= EventOf(e).at + Keep
  BY EventFacts, TransferAssumption DEF CountInv, TypeInv, InTime
<1>3. ~(demux.events[k].expire < now)
  BY <1>1, <1>2
<1>4. EventOf(e)' = EventOf(e) /\ KeyOf(conf', e) = k
  BY DEF EventOf
<1> HIDE DEF k
<1>5. k \in DOMAIN demux'.events /\ demux'.events[k] = demux.events[k]
  BY <1>1, <1>3 DEF Others, OldIn
<1>6. OldIn(demux', k) /\ demux'.events[k].expire \in Nat
      /\ EventOf(e)'.at + Keep <= demux'.events[k].expire
  BY <1>1, <1>4, <1>5 DEF OldIn
<1> QED BY <1>4, <1>6 DEF Remembered

\* What holds of the events that were handed on does not depend on fragments that
\* arrive, nor on what becomes of other events.
LEMMA DoneStays ==
  ASSUME CountInv, InTime, DoneInv, NEW e \in Events, Done(e), NEW key,
         Others(demux, demux', key), UNCHANGED <<conf, published, frag>>, net' \subseteq net,
         heard[e] \subseteq heard'[e]
  PROVE  /\ IsPublished(e)'
         /\ IF conf'.eseq THEN (Gone(e) \/ Remembered(e))' ELSE EventOf(e)'.count - 1 \in heard'[e]
<1>1. /\ IsPublished(e)
      /\ IF conf.eseq THEN Gone(e) \/ Remembered(e) ELSE EventOf(e).count - 1 \in heard[e]
  BY DEF DoneInv
<1>2. IsPublished(e)' /\ EventOf(e)' = EventOf(e) /\ (Gone(e) => Gone(e)')
  BY <1>1 DEF IsPublished, EventOf, Gone, Due
<1>3. Remembered(e) => Gone(e) \/ Remembered(e)'
  BY <1>1, StaysRemembered
<1> QED BY <1>1, <1>2, <1>3

\* A complete event is handed on or kept.
LEMMA DeliveryKeepsData ==
  ASSUME DataInv, CountInv, ReceiverInv, TransportInv, Suited(conf), Separated(conf),
         EventProcessed \/ KeepEvent
  PROVE  /\ DataInv'
         /\ EventProcessed =>
               \E e \in Events : IsPublished(e) /\ received[e] = 0 /\ received' = [received EXCEPT ![e] = 1]
         /\ corrupt' = corrupt
         /\ \A e \in Events : Done(e) => Done(e)'
         /\ Others(demux, demux', handle)
         /\ \E e \in Events : EntryOf(handle, e) /\ Done(e)'
<1>1. PICK k : k = handle /\ k # None
  BY DEF EventProcessed, KeepEvent
<1>2. LiveIn(demux, k) /\ conf \in Configs
  BY <1>1 DEF ReceiverInv, LiveIn, CountInv, TypeInv
<1>3. PICK def : def = demux.events[k].def
  OBVIOUS
<1>4. Complete(Kind, def)
  BY <1>1, <1>3 DEF DataInv, EntryInv
<1>5. PICK e \in Events : EntryOf(k, e)
  BY <1>2 DEF DataInv, EntryInv
<1>6. /\ IsPublished(e) /\ KeyOf(conf, e) = k /\ ~Done(e)
      /\ Holds(conf, Kind, def, e, EventOf(e)) /\ def.data # {} /\ \A x \in def.data : x.src = e
      /\ Numbers(def) \subseteq heard[e]
  BY <1>3, <1>5 DEF EntryOf, Waiting, Holds
<1>7. received \in [Events -> {0, 1}] /\ received[e] = 0
  <2>1. received \in [Events -> {0, 1}]
    BY DEF DataInv, DoneInv
  <2> QED BY <1>6, <2>1 DEF Done
<1>8. /\ UNCHANGED <<conf, frag, published, net, dups, now, heard>> /\ handle' = None
  BY DEF EventProcessed, KeepEvent
<1>9. demux' = Free(demux, k)
  <2>1. CASE EventProcessed
    BY <1>1, <2>1 DEF EventProcessed
  <2>2. CASE KeepEvent
    BY <1>1, <2>2 DEF KeepEvent, Suited, Free
  <2> QED BY <2>1, <2>2
<1>10. /\ Others(demux, demux', k) /\ ~LiveIn(demux', k)
       /\ conf.eseq => OldIn(demux', k) /\ demux'.events[k].expire = now + Keep
  <2>1. PICK open : open = {k}
    OBVIOUS
  <2>2. Receiving(demux, open)
    BY <1>1, <2>1 DEF ReceiverInv, Open
  <2> QED BY <1>2, <1>9, <2>2, FreeOthers
<1>11. /\ EventProcessed => kept' = kept /\ received' = [received EXCEPT ![e] = 1] /\ corrupt' = corrupt
       /\ KeepEvent => kept' = kept \cup {def} /\ received' = received /\ corrupt' = corrupt
  <2>1. ASSUME EventProcessed
        PROVE  kept' = kept /\ received' = [received EXCEPT ![e] = 1] /\ corrupt' = corrupt
    <3>1. HandOn(def) /\ kept' = kept
      BY <1>1, <1>3, <2>1 DEF EventProcessed
    <3> QED BY <1>4, <1>6, <1>7, <3>1, HandsOn
  <2>2. ASSUME KeepEvent
        PROVE  kept' = kept \cup {def} /\ received' = received /\ corrupt' = corrupt
    BY <1>1, <1>3, <2>2 DEF KeepEvent
  <2> QED BY <2>1, <2>2
<1>12. ASSUME NEW g \in Events, g # e PROVE Done(g)' => Done(g)
  <2>1. received'[g] = received[g]
    BY <1>7, <1>11, <1>12
  <2>2. \A d \in kept' : d \in kept \/ d = def
    BY <1>11
  <2>3. ~\E x \in def.data : x.src = g
    BY <1>6, <1>12
  <2> QED BY <2>1, <2>2, <2>3 DEF Done
<1>13. \A d \in kept : \A x \in d.data : x.src # e
  BY <1>6 DEF Done
<1>14. Kind' = Kind
  BY <1>8 DEF Kind
<1>15. EntryInv'
  <2>1. ASSUME NEW j, LiveIn(demux', j) PROVE \E g \in Events : EntryOf(j, g)'
    <3>1. j # k /\ LiveIn(demux, j) /\ demux'.events[j].def = demux.events[j].def
      BY <1>10, <2>1 DEF Others, LiveIn
    <3>2. PICK g \in Events : EntryOf(j, g)
      BY <3>1 DEF DataInv, EntryInv
    <3>3. g # e
      BY <1>6, <3>1, <3>2 DEF EntryOf
    <3>4. IsPublished(g)' /\ EventOf(g)' = EventOf(g) /\ KeyOf(conf', g) = j
      BY <1>8, <3>2 DEF EntryOf, IsPublished, EventOf
    <3>5. Waiting(conf', Kind', demux'.events[j].def, g, EventOf(g)', heard'[g])
      BY <1>8, <1>14, <3>1, <3>2, <3>4 DEF EntryOf
    <3>6. ~Done(g)'
      BY <1>12, <3>2, <3>3 DEF EntryOf
    <3>7. ~conf.eseq => Ordered(g, j)'
      BY <1>1, <1>8, <3>1, <3>2, <3>4 DEF EntryOf, Ordered, TooLong
    <3> QED BY <1>8, <3>4, <3>5, <3>6, <3>7 DEF EntryOf
  <2> QED BY <1>8, <2>1 DEF EntryInv
<1>16. KeptInv'
  <2>1. ASSUME NEW d \in kept PROVE \E g \in Events : KeptOf(d, g)'
    <3>1. PICK g \in Events : KeptOf(d, g)
      BY DEF DataInv, KeptInv
    <3>2. g # e
      <4>1. EventOf(g) \in PubEvent
        BY <3>1, EventFacts DEF KeptOf
      <4>2. PICK v, kind : v \in PubEvent /\ v = EventOf(g) /\ kind = Kind /\ KindOf(conf, kind)
        BY <4>1, KindIs
      <4>3. Holds(conf, kind, d, g, v) /\ Complete(kind, d)
        BY <3>1, <4>2 DEF KeptOf
      <4>4. d.data # {} /\ \A x \in d.data : x.src = g
        BY <1>2, <4>2, <4>3, CompleteIsWhole DEF Holds
      <4> QED BY <1>13, <4>4
    <3>3. received'[g] = 0
      BY <1>7, <1>11, <3>1, <3>2 DEF KeptOf
    <3>4. IsPublished(g)' /\ EventOf(g)' = EventOf(g)
      BY <1>8, <3>1 DEF KeptOf, IsPublished, EventOf
    <3> QED BY <1>8, <1>14, <3>1, <3>3, <3>4 DEF KeptOf
  <2>2. ASSUME KeepEvent PROVE KeptOf(def, e)'
    <3>1. received'[e] = 0
      BY <1>7, <2>2 DEF KeepEvent
    <3>2. IsPublished(e)' /\ EventOf(e)' = EventOf(e)
      BY <1>6, <1>8 DEF IsPublished, EventOf
    <3> QED BY <1>4, <1>6, <1>8, <1>14, <3>1, <3>2 DEF KeptOf
  <2>3. \A c, d \in kept : (\E x \in c.data, y \in d.data : x.src = y.src) => c = d
    BY DEF DataInv, KeptInv
  <2>4. \A c, d \in kept \cup {def} : (\E x \in c.data, y \in d.data : x.src = y.src) => c = d
    BY <1>6, <1>13, <2>3
  <2>5. kept' \subseteq kept \cup {def} /\ (def \in kept' => def \in kept \/ KeepEvent)
    BY <1>11
  <2>6. \A d \in kept' : \E g \in Events : KeptOf(d, g)'
    BY <2>1, <2>2, <2>5
  <2>7. \A c, d \in kept' : (\E x \in c.data, y \in d.data : x.src = y.src) => c = d
    BY <2>4, <2>5
  <2> QED BY <2>6, <2>7 DEF KeptInv
<1>17. DoneInv'
  <2>1. received' \in [Events -> {0, 1}]
    BY <1>7, <1>11
  <2>2. ASSUME NEW g \in Events, Done(g)'
        PROVE  /\ IsPublished(g)'
               /\ IF conf'.eseq THEN (Gone(g) \/ Remembered(g))' ELSE EventOf(g)'.count - 1 \in heard'[g]
    <3>1. CASE g # e
      <4>1. Done(g)
        BY <1>12, <2>2, <3>1
      <4>2. heard[g] \subseteq heard'[g] /\ InTime /\ DoneInv
        BY <1>8 DEF TransportInv, DataInv
      <4> QED BY <1>8, <1>10, <4>1, <4>2, DoneStays
    <3>2. CASE g = e
      <4>1. IsPublished(e)' /\ EventOf(e)' = EventOf(e) /\ KeyOf(conf', e) = k
        BY <1>6, <1>8 DEF IsPublished, EventOf
      <4>2. ASSUME conf.eseq PROVE Remembered(e)'
        <5>1. EventOf(e).at \in Nat /\ EventOf(e).at <= now /\ now \in Nat /\ Keep \in Nat
          BY <1>6, EventFacts, TransferAssumption DEF TransportInv, InTime, CountInv, TypeInv
        <5>2. PICK t \in Nat : t = now + Keep
          BY <5>1
        <5>3. OldIn(demux', k) /\ demux'.events[k].expire = t
          BY <1>10, <4>2, <5>2
        <5>4. EventOf(e)'.at + Keep <= t
          BY <4>1, <5>1, <5>2
        <5> QED BY <4>1, <5>3, <5>4 DEF Remembered
      <4>3. ASSUME ~conf.eseq PROVE EventOf(e).count - 1 \in heard[e]
        <5>1. Ordered(e, k) /\ conf.net = {}
          BY <1>5, <4>3 DEF EntryOf, Separated
        <5>2. PICK i : i \in heard[e]
          BY <1>3, <1>6, <5>1 DEF Ordered, Numbers
        <5>3. i \in 0 .. EventOf(e).count - 1 /\ EventOf(e).count \in Int
          BY <1>6, <5>2, EventFacts DEF TransportInv, HeardInv
        <5>4. CASE i = EventOf(e).count - 1
          BY <5>2, <5>4
        <5>5. CASE i # EventOf(e).count - 1
          <6>1. EventOf(e).count - 1 \in i + 1 .. EventOf(e).count - 1
            BY <5>3, <5>5
          <6> QED BY <5>1, <5>2, <6>1 DEF TransportInv, HeardInOrder, Ordered
        <5> QED BY <5>4, <5>5
      <4> QED BY <1>8, <3>2, <4>1, <4>2, <4>3
    <3> QED BY <3>1, <3>2
  <2> QED BY <2>1, <2>2 DEF DoneInv
<1>18. DataInv'
  BY <1>15, <1>16, <1>17 DEF DataInv
<1>19. ASSUME NEW g \in Events, Done(g) PROVE Done(g)'
  <2>1. g # e
    BY <1>6, <1>19
  <2>2. received'[g] = received[g]
    BY <1>7, <1>11, <2>1
  <2>3. kept \subseteq kept'
    BY <1>11
  <2> QED BY <1>19, <2>2, <2>3 DEF Done
<1>20. Done(e)'
  <2>1. CASE EventProcessed
    BY <1>7, <1>11, <2>1 DEF Done
  <2>2. CASE KeepEvent
    <3>1. def \in kept'
      BY <1>11, <2>2
    <3>2. \E x \in def.data : x.src = e
      BY <1>6
    <3> QED BY <3>1, <3>2 DEF Done
  <2> QED BY <2>1, <2>2
<1>21. Others(demux, demux', handle) /\ EntryOf(handle, e)
  BY <1>1, <1>5, <1>10
<1>22. EventProcessed => \E g \in Events : IsPublished(g) /\ received[g] = 0 /\ received' = [received EXCEPT ![g] = 1]
  BY <1>6, <1>7, <1>11
<1> QED BY <1>11, <1>18, <1>19, <1>20, <1>21, <1>22

-----------------------------------------------------------------------------
(* A fragment arrives.                                                     *)

\* The defragmenter a fragment is put into is one of its event: of those that share
\* its key, an earlier one is complete or its first fragment is under way.
FitsIn(f, def) ==
    LET e == f.src
    IN  /\ Holds(conf, Kind, def, e, EventOf(e)) /\ Numbers(def) \subseteq heard[e]
        /\ conf.duplicates => def.seen = Numbers(def)
        /\ ~Done(e)
        /\ ~conf.eseq => /\ Numbers(def) = heard[e] /\ ~TooLong(EventOf(e).count - 1)
                         /\ \A g \in net : g.src[1] = e[1] => e[2] <= g.src[2]

LEMMA EntryFits ==
  ASSUME DataInv, CountInv, TransportInv, Separated(conf), handle = None,
         NEW f \in net, MayArrive(f), NEW key, key = Key(f), key # None,
         LiveIn(demux, key), NEW def, def = demux.events[key].def
  PROVE  FitsIn(f, def)
<1>1. PICK e \in Events : e = f.src /\ IsPublished(e) /\ KeyOf(conf, e) = key
  BY NetFacts, KeyOfFragment DEF TransportInv
<1>2. PICK g \in Events : EntryOf(key, g)
  BY DEF DataInv, EntryInv
<1>3. /\ IsPublished(g) /\ KeyOf(conf, g) = key /\ ~Done(g)
      /\ Waiting(conf, Kind, def, g, EventOf(g), heard[g])
      /\ ~conf.eseq => Ordered(g, key)
  BY <1>2 DEF EntryOf
<1>4. e[1] = g[1] /\ (conf.eseq => e = g)
  BY <1>1, <1>3, KeysTell
<1>5. ASSUME ~conf.eseq PROVE e = g
  <2>1. conf.net = {}
    BY <1>5 DEF Separated
  <2>2. g[2] <= e[2]
    BY <1>1, <1>3, <1>4, <1>5 DEF Ordered
  <2>3. 0 \notin heard[g] /\ ~TooLong(EventOf(g).count - 1)
    BY <1>3, <1>5 DEF Ordered
  <2>4. EventOf(g) \in PubEvent /\ IsCut(conf, EventOf(g)) /\ conf \in Configs
    BY <1>3, EventFacts DEF Waiting, Holds, CountInv, TypeInv
  <2>5. PICK n \in Nat : n = EventOf(g).count - 1
    <3>1. EventOf(g).count \in Nat \ {0}
      BY <2>4, CutFacts
    <3> QED BY <3>1
  <2>6. ~TooLong(0)
    <3>1. GetBasicHeaderLen(0) <= GetBasicHeaderLen(n)
      BY HeaderGrows
    <3>2. ~(GetBasicHeaderLen(n) > conf.width)
      BY <2>3, <2>5 DEF TooLong
    <3>3. GetBasicHeaderLen(0) \in 1 .. 3 /\ GetBasicHeaderLen(n) \in 1 .. 3
      BY MaxFragmentsGrow DEF GetBasicHeaderLen
    <3>4. conf.width \in Nat
      BY <2>4, TransferAssumption
    <3> QED BY <3>1, <3>2, <3>3, <3>4 DEF TooLong
  <2>7. 0 \in 0 .. EventOf(g).count - 1
    BY <2>5
  <2>8. Coming(g, 0)
    BY <1>3, <2>1, <2>3, <2>6, <2>7 DEF TransportInv, NoneLost
  <2>9. e[2] \in Nat /\ g[2] \in Nat /\ e = <<e[1], e[2]>> /\ g = <<g[1], g[2]>>
        /\ e[2] <= Len(published[e[1]])
    BY <1>1, EventFacts DEF IsPublished
  <2>10. ASSUME g[2] < e[2] PROVE FALSE
    <3>1. CASE Due(g)
      BY <1>4, <2>9, <2>10, <3>1 DEF Due
    <3>2. CASE \E x \in net : x.src = g
      BY <1>1, <1>4, <2>1, <2>10, <3>2 DEF MayArrive, Earlier
    <3> QED BY <2>8, <3>1, <3>2 DEF Coming
  <2>11. g[2] = e[2]
    BY <2>2, <2>9, <2>10
  <2> QED BY <1>4, <2>9, <2>11
<1>6. e = g
  BY <1>4, <1>5
<1>7. ~conf.eseq => /\ Numbers(def) = heard[e] /\ ~TooLong(EventOf(e).count - 1)
                    /\ \A x \in net : x.src[1] = e[1] => e[2] <= x.src[2]
  BY <1>3, <1>6 DEF Ordered
<1> QED BY <1>1, <1>3, <1>6, <1>7 DEF FitsIn, Waiting

LEMMA NewFits ==
  ASSUME DataInv, CountInv, TransportInv, Separated(conf),
         NEW f \in net, MayArrive(f), ~TooLong(f.fseq), NEW def, def = NewDefragmenter(RoomOf(conf)),
         IF conf.eseq THEN ~OldIn(demux, Key(f)) ELSE f.first
  PROVE  FitsIn(f, def)
<1>1. PICK e \in Events : /\ e = f.src /\ IsPublished(e) /\ KeyOf(conf, e) = Key(f)
                          /\ PartOf(conf, f, EventOf(e)) /\ IsCut(conf, EventOf(e))
  BY NetFacts, KeyOfFragment DEF TransportInv
<1>2. conf \in Configs /\ EventOf(e) \in PubEvent
  BY <1>1, EventFacts DEF CountInv, TypeInv
<1>3. Holds(conf, Kind, def, e, EventOf(e)) /\ Numbers(def) = {} /\ def.seen = {}
  <2>1. PICK c \in Configs, v \in PubEvent, kind \in {"inorder", "outoforder", "fec"} :
            c = conf /\ v = EventOf(e) /\ kind = Kind
    BY <1>2, KindIs DEF KindOf
  <2>2. KindOf(c, kind) /\ IsCut(c, v) /\ def = NewDefragmenter(RoomOf(c))
    BY <1>1, <2>1, KindIs
  <2>3. Holds(c, kind, def, e, v) /\ Numbers(def) = {} /\ def.seen = {}
    BY <2>2, NewHolds
  <2> QED BY <2>1, <2>3
<1>4. CASE conf.eseq
  <2>1. ~Done(e)
    <3>1. ~Gone(e)
      BY <1>1 DEF Gone
    <3>2. ~Remembered(e)
      BY <1>1, <1>4 DEF Remembered
    <3> QED BY <1>4, <3>1, <3>2 DEF DataInv, DoneInv
  <2> QED BY <1>1, <1>3, <1>4, <2>1 DEF FitsIn
<1>5. CASE ~conf.eseq
  <2>1. conf.net = {}
    BY <1>5 DEF Separated
  <2>2. f.fseq = EventOf(e).count - 1 /\ f.fseq \notin heard[e]
    BY <1>1, <1>5, <2>1 DEF PartOf, TransportInv, HeardOnce
  <2>3. ~Done(e)
    BY <1>5, <2>2 DEF DataInv, DoneInv
  <2>4. ASSUME NEW i \in heard[e] PROVE FALSE
    <3>1. i \in 0 .. EventOf(e).count - 1 /\ EventOf(e).count \in Int
      BY <1>1, <2>4, EventFacts DEF TransportInv, HeardInv
    <3>2. EventOf(e).count - 1 \in i + 1 .. EventOf(e).count - 1
      BY <2>2, <2>4, <3>1
    <3> QED BY <2>1, <2>2, <2>4, <3>2 DEF TransportInv, HeardInOrder
  <2>5. Numbers(def) = heard[e]
    BY <1>3, <2>4
  <2>6. \A g \in net : g.src[1] = e[1] => e[2] <= g.src[2]
    <3> SUFFICES ASSUME NEW g \in net, g.src[1] = e[1] PROVE e[2] <= g.src[2]
      OBVIOUS
    <3>1. ~Earlier(g, f)
      BY <1>1, <2>1 DEF MayArrive
    <3>2. e[2] \in Nat /\ g.src[2] \in Nat
      BY EventFacts DEF TransportInv, HeardInv
    <3> QED BY <1>1, <3>1, <3>2 DEF Earlier
  <2> QED BY <1>1, <1>3, <1>5, <2>2, <2>3, <2>5, <2>6 DEF FitsIn
<1> QED BY <1>4, <1>5

\* What it is then.
LEMMA PutFits ==
  ASSUME CountInv, TransportInv, Separated(conf), NEW f \in net, NEW def, FitsIn(f, def),
         NEW put, put = PutFragment(Kind, conf.duplicates, def, f), ~Error(put)
  PROVE  /\ Holds(conf, Kind, put, f.src, EventOf(f.src)) /\ put.data # {}
         /\ Numbers(put) \subseteq heard[f.src] \cup {f.fseq}
         /\ conf.duplicates => put.seen = Numbers(put)
         /\ Numbers(def) = heard[f.src] => Numbers(put) = heard[f.src] \cup {f.fseq}
<1>1. PICK e \in Events : e = f.src /\ IsPublished(e) /\ PartOf(conf, f, EventOf(e))
  BY NetFacts DEF TransportInv
<1>2. conf \in Configs /\ EventOf(e) \in PubEvent
  BY <1>1, EventFacts DEF CountInv, TypeInv
<1>3. PICK c \in Configs, v \in PubEvent, kind \in {"inorder", "outoforder", "fec"} :
          c = conf /\ v = EventOf(e) /\ kind = Kind
  BY <1>2, KindIs DEF KindOf
<1>4. PICK checks \in BOOLEAN : checks <=> conf.duplicates
  OBVIOUS
<1>5. KindOf(c, kind) /\ kind \in {"inorder", "outoforder", "fec"} /\ PartOf(c, f, v)
  BY <1>1, <1>3, KindIs DEF KindOf
<1>6. /\ Holds(c, kind, def, e, v) /\ IsDefragmenter(def) /\ def.count \in Nat
      /\ Numbers(def) \subseteq heard[e]
      /\ checks => def.seen = Numbers(def)
  BY <1>1, <1>3, <1>4 DEF FitsIn, Holds
<1>7. f.fec => kind = "fec"
  BY <1>5 DEF PartOf, HasFEC, KindOf
<1>8. put = PutFragment(kind, checks, def, f) /\ put.room # 0
  BY <1>3, <1>4 DEF PutFragment, Error
<1>9. PICK seen : seen = IF checks THEN def.seen \cup {f.fseq} ELSE def.seen
  OBVIOUS
<1>10. IF checks /\ f.fseq \in def.seen THEN put = def ELSE PutEffect(kind, def, f, seen, put)
  BY <1>5, <1>6, <1>7, <1>8, <1>9, PutIs
<1>11. "dup" \notin conf.net => f.fseq \notin heard[e]
  BY <1>1 DEF TransportInv, HeardOnce
<1>12. CASE checks /\ f.fseq \in def.seen
  <2>1. put = def /\ f.fseq \in Numbers(def)
    BY <1>6, <1>10, <1>12
  <2>2. put.data # {}
    BY <2>1 DEF Numbers
  <2> QED BY <1>1, <1>3, <1>4, <1>6, <2>1, <2>2
<1>13. CASE ~(checks /\ f.fseq \in def.seen)
  <2>1. PutEffect(kind, def, f, seen, put)
    BY <1>10, <1>13
  <2>2. kind = "inorder" \/ f.fseq \notin Numbers(def)
    <3>1. CASE checks
      BY <1>6, <1>13, <3>1
    <3>2. CASE ~checks
      BY <1>3, <1>4, <1>6, <1>11, <3>2 DEF Separated, Kind
    <3> QED BY <3>1, <3>2
  <2>3. Holds(c, kind, put, e, v) /\ Took(def, f, put)
    BY <1>1, <1>5, <1>6, <2>1, <2>2, PutHolds
  <2>4. put.seen = seen
    BY <2>1, StoredFields DEF PutEffect
  <2>5. Numbers(put) = Numbers(def) \cup {f.fseq} /\ put.data # {}
    BY <2>3 DEF Took
  <2>6. Numbers(put) \subseteq heard[e] \cup {f.fseq}
    BY <1>6, <2>5
  <2>7. checks => put.seen = Numbers(put)
    BY <1>6, <1>9, <2>4, <2>5
  <2>8. Numbers(def) = heard[e] => Numbers(put) = heard[e] \cup {f.fseq}
    BY <2>5
  <2> QED BY <1>1, <1>3, <1>4, <2>3, <2>5, <2>6, <2>7, <2>8
<1> QED BY <1>12, <1>13

\* The demultiplexer has keys.
LEMMA LiveIsNotNone ==
  ASSUME CountInv, ReceiverInv, NEW k, LiveIn(demux, k)
  PROVE  k # None
<1>1. k \in Keys(conf) /\ conf \in Configs
  BY DEF ReceiverInv, Receiving, DemuxOK, EntryOK, LiveIn, CountInv, TypeInv
<1> QED BY <1>1, KeysAreNotNone

\* Without event numbers an event of which nothing is yet to come is complete.
LEMMA LastCompletes ==
  ASSUME NEW c \in Configs, NEW v \in PubEvent, NEW kind, KindOf(c, kind), NEW e, NEW def,
         Holds(c, kind, def, e, v), NEW H \in SUBSET (0 .. v.count - 1), 0 \in H, Numbers(def) = H,
         ~(GetBasicHeaderLen(v.count - 1) > c.width),
         \A j \in 0 + 1 .. v.count - 1 : j \in H \/ GetBasicHeaderLen(j) > c.width
  PROVE  Complete(kind, def)
<1>1. v.count \in Nat \ {0}
  BY CutFacts DEF Holds
<1>2. ASSUME NEW j \in 1 .. v.count - 1 PROVE j \in H
  <2>1. j \in H \/ GetBasicHeaderLen(j) > c.width
    BY <1>1
  <2>2. ASSUME GetBasicHeaderLen(j) > c.width PROVE FALSE
    <3>1. PICK i \in Nat, n \in Nat : i = j /\ n = v.count - 1 /\ i <= n
      BY <1>1
    <3>2. GetBasicHeaderLen(i) <= GetBasicHeaderLen(n)
      BY <3>1, HeaderGrows
    <3>3. GetBasicHeaderLen(i) > c.width /\ ~(GetBasicHeaderLen(n) > c.width)
      BY <2>2, <3>1
    <3>4. GetBasicHeaderLen(i) \in 1 .. 3 /\ GetBasicHeaderLen(n) \in 1 .. 3
      BY MaxFragmentsGrow DEF GetBasicHeaderLen
    <3>5. c.width \in Nat
      BY TransferAssumption
    <3> QED BY <3>2, <3>3, <3>4, <3>5
  <2> QED BY <2>1, <2>2
<1>3. \A j \in 0 .. v.count - 1 : j \in H
  <2>1. \A j \in 0 .. v.count - 1 : j = 0 \/ j \in 1 .. v.count - 1
    BY <1>1
  <2> QED BY <1>2, <2>1
<1>4. H = 0 .. v.count - 1
  BY <1>3
<1> QED BY <1>4, AllIsComplete

LEMMA ProcessKeepsData ==
  ASSUME DataInv, CountInv, ReceiverInv, TransportInv, TransportInv', Suited(conf), Separated(conf),
         NEW f \in net, NEW again \in BOOLEAN, NEW cleans \in BOOLEAN, ProcessFragment(f, again, cleans)
  PROVE  DataInv'
<1>1. PICK e \in Events : e = f.src /\ IsPublished(e) /\ KeyOf(conf, e) = Key(f)
                          /\ f.blen = GetBasicHeaderLen(f.fseq)
  BY NetFacts, KeyOfFragment DEF TransportInv
<1>2. /\ UNCHANGED <<conf, frag, published, kept, now, received, corrupt>> /\ handle = None
      /\ net' \subseteq net /\ MayArrive(f)
      /\ heard' = [heard EXCEPT ![e] = @ \cup {f.fseq}]
      /\ ~HeaderError(f)
  BY <1>1 DEF ProcessFragment, Arrives
<1>3. /\ heard \in [Events -> SUBSET Nat] /\ heard'[e] = heard[e] \cup {f.fseq}
      /\ \A g \in Events : g # e => heard'[g] = heard[g]
      /\ \A g \in Events : heard[g] \subseteq heard'[g]
  BY <1>2 DEF TransportInv, HeardInv
<1>4. ~TooLong(f.fseq)
  BY <1>1, <1>2 DEF HeaderError, TooLong
<1>5. PICK key : key = Key(f) /\ key # None
  BY NetIsLegal, KeyIsNotNone DEF CountInv, TypeInv
<1>6. /\ Others(demux, demux', key)
      /\ \/ Misses(demux, demux', key) /\ handle' = None
         \/ \E def : Stores(f, def)
  BY <1>5, ProcessEffect
<1>7. /\ Kind' = Kind
      /\ \A g \in Events : /\ (Done(g)' <=> Done(g))
                           /\ IsPublished(g) => IsPublished(g)' /\ EventOf(g)' = EventOf(g)
                           /\ KeyOf(conf', g) = KeyOf(conf, g)
  BY <1>2 DEF Kind, Done, IsPublished, EventOf, KeyOf
<1>8. DoneInv'
  <2>1. ASSUME NEW g \in Events, Done(g)'
        PROVE  /\ IsPublished(g)'
               /\ IF conf'.eseq THEN (Gone(g) \/ Remembered(g))' ELSE EventOf(g)'.count - 1 \in heard'[g]
    <3>1. Done(g) /\ InTime /\ DoneInv /\ heard[g] \subseteq heard'[g]
      BY <1>3, <1>7, <2>1 DEF TransportInv, DataInv
    <3> QED BY <1>2, <1>6, <3>1, DoneStays
  <2>2. received' \in [Events -> {0, 1}]
    BY <1>2 DEF DataInv, DoneInv
  <2> QED BY <2>1, <2>2 DEF DoneInv
<1>9. KeptInv'
  <2>1. ASSUME NEW d \in kept PROVE \E g \in Events : KeptOf(d, g)'
    <3>1. PICK g \in Events : KeptOf(d, g)
      BY DEF DataInv, KeptInv
    <3> QED BY <1>2, <1>7, <3>1 DEF KeptOf
  <2> QED BY <1>2, <2>1 DEF DataInv, KeptInv
\* An entry that is not touched.
<1>10. ASSUME NEW k, LiveIn(demux, k), demux'.events[k].def = demux.events[k].def,
              conf.eseq \/ k # key
       PROVE  \E g \in Events : EntryOf(k, g)'
  <2>1. PICK g \in Events : EntryOf(k, g)
    BY <1>10 DEF DataInv, EntryInv
  <2>2. IsPublished(g)' /\ EventOf(g)' = EventOf(g) /\ KeyOf(conf', g) = k /\ ~Done(g)'
    BY <1>7, <2>1 DEF EntryOf
  <2>3. Waiting(conf', Kind', demux'.events[k].def, g, EventOf(g)', heard'[g])
    BY <1>2, <1>3, <1>7, <1>10, <2>1, <2>2 DEF EntryOf, Waiting
  <2>4. ASSUME ~conf.eseq PROVE Ordered(g, k)'
    <3>1. g # e
      BY <1>1, <1>5, <1>10, <2>1, <2>4 DEF EntryOf
    <3>2. Ordered(g, k)
      BY <2>1, <2>4 DEF EntryOf
    <3>3. heard'[g] = heard[g] /\ handle # k
      <4>1. k # None
        BY <1>10, LiveIsNotNone
      <4> QED BY <1>2, <1>3, <3>1, <4>1
    <3> QED BY <1>2, <1>10, <2>2, <3>2, <3>3 DEF Ordered, TooLong
  <2> QED BY <1>2, <2>2, <2>3, <2>4 DEF EntryOf
<1>11. EntryInv'
  <2>1. CASE Misses(demux, demux', key) /\ handle' = None
    <3>1. ASSUME NEW k, LiveIn(demux', k) PROVE \E g \in Events : EntryOf(k, g)'
      <4>1. LiveIn(demux, k) /\ demux'.events[k].def = demux.events[k].def
        BY <1>6, <2>1, <3>1 DEF Others, Misses, NoMore, LiveIn
      <4>2. conf.eseq \/ k # key
        BY <2>1, <3>1 DEF Misses
      <4> QED BY <1>10, <4>1, <4>2
    <3> QED BY <2>1, <3>1 DEF EntryInv
  <2>2. CASE \E def : Stores(f, def)
    <3>1. PICK def : Stores(f, def)
      BY <2>2
    <3>2. PICK put : put = PutFragment(Kind, conf.duplicates, def, f)
      OBVIOUS
    <3>3. /\ LiveIn(demux', key) /\ demux'.events[key].def = put /\ ~Error(put)
          /\ handle' = IF Complete(Kind, put) THEN key ELSE None
          /\ \/ LiveIn(demux, key) /\ def = demux.events[key].def
             \/ /\ def = NewDefragmenter(RoomOf(conf))
                /\ IF conf.eseq THEN ~OldIn(demux, key) ELSE f.first
      BY <1>5, <3>1, <3>2 DEF Stores, TakesFrom
    <3>4. FitsIn(f, def)
      <4>1. CASE LiveIn(demux, key) /\ def = demux.events[key].def
        BY <1>2, <1>5, <4>1, EntryFits
      <4>2. CASE def = NewDefragmenter(RoomOf(conf)) /\ IF conf.eseq THEN ~OldIn(demux, key) ELSE f.first
        BY <1>2, <1>4, <1>5, <4>2, NewFits
      <4> QED BY <3>3, <4>1, <4>2
    <3>5. /\ Holds(conf, Kind, put, e, EventOf(e)) /\ put.data # {}
          /\ Numbers(put) \subseteq heard'[e]
          /\ conf.duplicates => put.seen = Numbers(put)
          /\ ~conf.eseq => Numbers(put) = heard'[e]
      <4>1. ~conf.eseq => Numbers(def) = heard[e]
        BY <1>1, <3>4 DEF FitsIn
      <4> QED BY <1>1, <1>3, <3>2, <3>3, <3>4, <4>1, PutFits
    <3>6. ASSUME ~conf.eseq PROVE Ordered(e, key)'
      <4>1. /\ conf'.net = {} /\ EventOf(e)' = EventOf(e) /\ conf' = conf
            /\ ~TooLong(EventOf(e).count - 1)
            /\ \A g \in net' : g.src[1] = e[1] => e[2] <= g.src[2]
        BY <1>1, <1>2, <1>7, <3>4, <3>6 DEF FitsIn, Separated
      <4>2. ~TooLong(EventOf(e).count - 1)'
        BY <4>1 DEF TooLong
      <4>3. ASSUME 0 \in heard'[e] PROVE Complete(Kind, put)
        <5>1. PICK c \in Configs, v \in PubEvent, H \in {heard'[e]}, kind \in {"inorder", "outoforder", "fec"} :
                  c = conf /\ v = EventOf(e) /\ kind = Kind
          BY <1>1, EventFacts, KindIs DEF KindOf, CountInv, TypeInv
        <5>2. KindOf(c, kind) /\ Holds(c, kind, put, e, v) /\ Numbers(put) = H /\ 0 \in H
          BY <3>5, <3>6, <4>3, <5>1, KindIs
        <5>3. H \in SUBSET (0 .. v.count - 1)
          BY <4>1, <4>3, <5>1 DEF TransportInv, HeardInv
        <5>4. ~(GetBasicHeaderLen(v.count - 1) > c.width)
          BY <4>1, <5>1 DEF TooLong
        <5>5. \A j \in 0 + 1 .. v.count - 1 : j \in H \/ GetBasicHeaderLen(j) > c.width
          <6>1. HeardInOrder'
            BY DEF TransportInv
          <6>2. \A j \in 0 + 1 .. EventOf(e)'.count - 1 : j \in heard'[e] \/ TooLong(j)'
            BY <4>1, <4>3, <6>1 DEF HeardInOrder
          <6> QED BY <4>1, <5>1, <6>2 DEF TooLong
        <5>6. Complete(kind, put)
          BY <5>2, <5>3, <5>4, <5>5, LastCompletes
        <5> QED BY <5>1, <5>6
      <4>4. handle' # key => 0 \notin heard'[e]
        BY <1>7, <3>3, <4>3
      <4> QED BY <3>3, <3>5, <3>6, <4>1, <4>2, <4>4 DEF Ordered
    <3>7. EntryOf(key, e)'
      <4>1. IsPublished(e)' /\ EventOf(e)' = EventOf(e) /\ KeyOf(conf', e) = key /\ ~Done(e)'
        BY <1>1, <1>5, <1>7, <3>4 DEF FitsIn
      <4>2. Waiting(conf', Kind', demux'.events[key].def, e, EventOf(e)', heard'[e])
        BY <1>2, <1>7, <3>3, <3>5, <4>1 DEF Waiting
      <4> QED BY <1>2, <3>6, <4>1, <4>2 DEF EntryOf
    <3>8. ASSUME NEW k, LiveIn(demux', k) PROVE \E g \in Events : EntryOf(k, g)'
      <4>1. CASE k = key
        BY <3>7, <4>1
      <4>2. CASE k # key
        <5>1. LiveIn(demux, k) /\ demux'.events[k].def = demux.events[k].def
          BY <1>6, <3>8, <4>2 DEF Others, LiveIn
        <5> QED BY <1>10, <4>2, <5>1
      <4> QED BY <4>1, <4>2
    <3>9. handle' # None => Complete(Kind', demux'.events[handle'].def)
      BY <1>7, <3>3
    <3> QED BY <3>8, <3>9 DEF EntryInv
  <2> QED BY <1>6, <2>1, <2>2
<1> QED BY <1>8, <1>9, <1>11 DEF DataInv

\* What a step brings the subscriber: nothing, or one event for the first time.
Brings ==
    /\ corrupt' = corrupt
    /\ \/ received' = received
       \/ \E e \in Events : IsPublished(e) /\ received[e] = 0 /\ received' = [received EXCEPT ![e] = 1]

LEMMA NextKeepsData ==
  ASSUME DataInv, CountInv, ReceiverInv, TransportInv, TransportInv',
         Suited(conf), Separated(conf), [Next]_vars
  PROVE  DataInv' /\ Brings
<1> DEFINE Still == UNCHANGED <<conf, frag, published, demux, handle, kept, received, heard, corrupt>> /\ net' \subseteq net
<1>1. Still => DataInv' /\ Brings
  BY TransportKeepsData DEF Brings
<1>2. ASSUME NEW f \in net, NEW again \in BOOLEAN, DropFragment(f, again) PROVE Still
  BY <1>2 DEF DropFragment, Arrives
<1>3. ASSUME NEW f \in net, LoseFragment(f) PROVE Still
  BY <1>3 DEF LoseFragment
<1>4. ASSUME Tick PROVE Still
  BY <1>4 DEF Tick
<1>5. ASSUME UNCHANGED vars PROVE Still
  BY <1>5 DEF vars
<1>6. ASSUME NEW p \in Publishers, (\E len \in conf.lens : Publish(p, len)) \/ SendFragment(p)
      PROVE  DataInv' /\ Brings
  <2>1. received' = received /\ corrupt' = corrupt
    BY <1>6 DEF Publish, SendFragment
  <2> QED BY <1>6, <2>1, SendKeepsData DEF Brings
<1>7. ASSUME NEW f \in net, NEW again \in BOOLEAN, NEW cleans \in BOOLEAN,
             ProcessFragment(f, again, cleans)
      PROVE  DataInv' /\ Brings
  <2>1. received' = received /\ corrupt' = corrupt
    BY <1>7 DEF ProcessFragment
  <2> QED BY <1>7, <2>1, ProcessKeepsData DEF Brings
<1>8. ASSUME EventProcessed PROVE DataInv' /\ Brings
  BY <1>8, DeliveryKeepsData DEF Brings
<1>9. ASSUME KeepEvent PROVE DataInv' /\ Brings
  <2>1. received' = received
    BY <1>9 DEF KeepEvent
  <2> QED BY <1>9, <2>1, DeliveryKeepsData DEF Brings
<1>10. ASSUME NEW d \in kept, KeptEventProcessed(d) PROVE DataInv' /\ Brings
  BY <1>10, KeptKeepsData DEF Brings
<1> HIDE DEF Still
<1> QED BY <1>1, <1>2, <1>3, <1>4, <1>5, <1>6, <1>7, <1>8, <1>9, <1>10 DEF Next

\* What a step publishes: nothing, or the next event of a publisher.
LEMMA StepPublishes ==
  ASSUME CountInv, NEW p \in Publishers, NEW len \in conf.lens, Publish(p, len)
  PROVE  Transfer!Publish(<<p, Len(published[p]) + 1>>) /\ <<p, Len(published[p]) + 1>> \in Events
<1>1. PICK n \in Nat : n = Len(published[p])
  BY DEF CountInv, TypeInv
<1>2. /\ Len(published'[p]) = n + 1
      /\ \A q \in Publishers \ {p} : published'[q] = published[q]
      /\ received' = received /\ corrupt' = corrupt
  BY <1>1, PublishEffect
<1>3. PICK e : e = <<p, n + 1>>
  OBVIOUS
<1>4. e \in Events
  <2>1. n < conf.events /\ conf.events \in 0 .. MaxEvents /\ MaxEvents \in Nat
    BY <1>1, TransferAssumption DEF Publish, CountInv, TypeInv
  <2>2. n + 1 \in 1 .. MaxEvents
    BY <2>1
  <2> QED BY <1>3, <2>2 DEF Events
<1>5. ASSUME NEW x \in Events PROVE IsPublished(x)' <=> IsPublished(x) \/ x = e
  <2>1. x[1] \in Publishers /\ x[2] \in Nat /\ x = <<x[1], x[2]>>
    BY EventFacts
  <2>2. CASE x[1] = p
    <3>1. IsPublished(x)' <=> x[2] <= n + 1
      BY <1>2, <2>2 DEF IsPublished
    <3>2. IsPublished(x) <=> x[2] <= n
      BY <1>1, <2>2 DEF IsPublished
    <3>3. x = e <=> x[2] = n + 1
      BY <1>3, <2>1, <2>2
    <3> QED BY <2>1, <3>1, <3>2, <3>3
  <2>3. CASE x[1] # p
    BY <1>2, <1>3, <2>1, <2>3 DEF IsPublished
  <2> QED BY <2>2, <2>3
<1>6. ~IsPublished(e)
  BY <1>1, <1>3 DEF IsPublished
<1>7. {x \in Events : IsPublished(x)'} = {x \in Events : IsPublished(x)} \cup {e}
  BY <1>4, <1>5
<1>8. Transfer!Publish(e)
  BY <1>2, <1>6, <1>7 DEF Transfer!Publish
<1> QED BY <1>1, <1>3, <1>4, <1>8

LEMMA StepImplementsTransfer ==
  ASSUME CountInv, Brings, [Next]_vars
  PROVE  [Transfer!Next]_<<{e \in Events : IsPublished(e)}, received, corrupt>>
<1>1. ASSUME NEW p \in Publishers, NEW len \in conf.lens, Publish(p, len) PROVE Transfer!Next
  BY <1>1, StepPublishes DEF Transfer!Next
<1>2. CASE ~\E p \in Publishers, len \in conf.lens : Publish(p, len)
  <2>1. published' = published
    <3>1. ASSUME NEW p \in Publishers, SendFragment(p) PROVE published' = published
      BY <3>1 DEF SendFragment
    <3>2. ASSUME NEW f \in net, NEW again \in BOOLEAN,
                 DropFragment(f, again) \/ \E cleans \in BOOLEAN : ProcessFragment(f, again, cleans)
          PROVE  published' = published
      BY <3>2 DEF DropFragment, ProcessFragment
    <3>3. ASSUME NEW f \in net, LoseFragment(f) PROVE published' = published
      BY <3>3 DEF LoseFragment
    <3>4. ASSUME EventProcessed \/ KeepEvent \/ (\E d \in kept : KeptEventProcessed(d)) \/ Tick
          PROVE  published' = published
      BY <3>4 DEF EventProcessed, KeepEvent, KeptEventProcessed, Tick
    <3>5. UNCHANGED vars => published' = published
      BY DEF vars
    <3> QED BY <1>2, <3>1, <3>2, <3>3, <3>4, <3>5 DEF Next
  <2>2. {e \in Events : IsPublished(e)}' = {e \in Events : IsPublished(e)}
    BY <2>1 DEF IsPublished
  <2>3. CASE received' = received
    BY <2>2, <2>3 DEF Brings
  <2>4. ASSUME NEW e \in Events, IsPublished(e), received[e] = 0, received' = [received EXCEPT ![e] = 1]
        PROVE  Transfer!Next
    <3>1. Transfer!Deliver(e)
      BY <2>2, <2>4 DEF Brings, Transfer!Deliver
    <3> QED BY <3>1 DEF Transfer!Next
  <2> QED BY <2>3, <2>4 DEF Brings
<1> QED BY <1>1, <1>2

LEMMA InitImplementsTransfer == Init => Transfer!Init
<1> SUFFICES ASSUME Init PROVE Transfer!Init
  OBVIOUS
<1>1. \A e \in Events : e[1] \in Publishers /\ e[2] \in Nat \ {0} /\ published[e[1]] = <<>>
  BY TransferAssumption DEF Events, Init
<1>2. \A e \in Events : ~IsPublished(e)
  BY <1>1 DEF IsPublished
<1> QED BY <1>2 DEF Init, Transfer!Init

-----------------------------------------------------------------------------
(* Enough fragments are an event.                                          *)

LEMMA SomeNumbers ==
  ASSUME NEW n \in Nat, NEW N \in SUBSET (0 .. n - 1)
  PROVE  /\ Cardinality(N) \in Nat /\ Cardinality(N) <= n
         /\ \A i \in 0 .. n - 1 : i \notin N => Cardinality(N) < n
<1>1. PICK M : M = 0 .. n - 1
  OBVIOUS
<1>2. IsFiniteSet(M) /\ Cardinality(M) = n
  BY <1>1, FS_Interval
<1>3. N \subseteq M
  BY <1>1
<1>4. Cardinality(N) \in Nat /\ Cardinality(N) <= n
  BY <1>2, <1>3, FS_Subset, FS_CardinalityType
<1>5. ASSUME NEW i \in M, i \notin N PROVE Cardinality(N) < n
  <2>1. N # M
    BY <1>5
  <2>2. Cardinality(N) # n
    BY <1>2, <1>3, <2>1, FS_Subset
  <2> QED BY <1>4, <2>2
<1> QED BY <1>1, <1>4, <1>5

LEMMA EnoughIsComplete ==
  ASSUME NEW c \in Configs, NEW v \in PubEvent, NEW kind, KindOf(c, kind), NEW d, NEW e,
         Holds(c, kind, d, e, v), Cardinality(Numbers(d)) >= IF v.k = 0 THEN v.count ELSE v.k
  PROVE  Complete(kind, d)
<1>1. v.count \in Nat \ {0} /\ v.k \in Nat /\ d.room # 0
  BY CutFacts DEF Holds, PubEvent
<1>2. PICK N, n : N = Numbers(d) /\ n = v.count /\ n \in Nat
  BY <1>1
<1>3. N \in SUBSET (0 .. n - 1)
  BY <1>2 DEF Holds, Numbers
<1>4. Cardinality(N) \in Nat /\ Cardinality(N) <= n
  BY <1>2, <1>3, SomeNumbers
<1>5. CASE ~HasFEC(c)
  <2>1. v.k = 0
    BY <1>5 DEF Holds, IsCut
  <2>2. Cardinality(N) = n
    BY <1>2, <1>4, <2>1
  <2>3. Numbers(d) = 0 .. v.count - 1
    BY <1>2, <1>3, <2>2, AllNumbers
  <2> QED BY <2>3, AllIsComplete
<1>6. CASE HasFEC(c)
  <2>1. kind = "fec" /\ v.k \in Nat \ {0}
    BY <1>6, CutFacts DEF KindOf, HasFEC, Holds
  <2>2. d.arrived >= v.k /\ d.arrived = Cardinality(N)
    BY <1>2, <2>1 DEF Holds
  <2>3. d.data # {}
    <3> SUFFICES ASSUME d.data = {} PROVE FALSE
      OBVIOUS
    <3>1. N = {}
      BY <1>2 DEF Numbers
    <3> QED BY <2>1, <2>2, <3>1, FS_EmptySet
  <2>4. d.k = v.k
    BY <1>6, <2>3 DEF Holds, HoldsFEC
  <2> QED BY <1>1, <2>1, <2>2, <2>4 DEF Complete, Error
<1> QED BY <1>5, <1>6

\* Too few fragments of an event arrive: no more are on their way, or one is lost that
\* is needed.
Short(e) ==
    \/ Gone(e) /\ Cardinality(heard[e]) < Enough(e)
    \/ /\ EventOf(e).k = 0
       /\ \E i \in 0 .. EventOf(e).count - 1 : i \notin heard[e] /\ ~Coming(e, i)

\* All that arrived of an event is in its defragmenter, which is not given up as long as
\* a fragment may come.
Collected(e) ==
    LET k == KeyOf(conf, e)
    IN  /\ LiveIn(demux, k)
        /\ Numbers(demux.events[k].def) = heard[e]
        /\ \A x \in demux.events[k].def.data : x.src = e
        /\ demux.events[k].expire \in Nat /\ EventOf(e).at + Keep <= demux.events[k].expire

\* What arrives is collected, until the event is complete or cannot be any more; and
\* only such an event is outdated.
WholeInv ==
    /\ \A e \in Events : IsPublished(e) /\ heard[e] # {} => Done(e) \/ Short(e) \/ Collected(e)
    /\ \A k : OldIn(demux, k) =>
          \E e \in Events : IsPublished(e) /\ KeyOf(conf, e) = k /\ (Done(e) \/ Short(e))

LEMMA InitWhole == Init => WholeInv
<1> SUFFICES ASSUME Init PROVE WholeInv
  OBVIOUS
<1>1. PICK none : none = [k \in {} |-> None]
  OBVIOUS
<1>2. demux = [events |-> none, outdated |-> <<>>]
  BY <1>1 DEF Init
<1>3. \A k : ~OldIn(demux, k)
  BY <1>1, <1>2 DEF OldIn
<1>4. \A e \in Events : heard[e] = {}
  BY DEF Init
<1> QED BY <1>3, <1>4 DEF WholeInv

\* The fragments of an event that was published get fewer, and those that arrive were
\* on their way.
Goes(e) ==
    /\ IsPublished(e)' /\ EventOf(e)' = EventOf(e)
    /\ Gone(e) => Gone(e)'
    /\ \A i \in Nat : Coming(e, i)' => Coming(e, i)
    /\ heard[e] \subseteq heard'[e]
    /\ \A i \in heard'[e] : i \in heard[e] \/ Coming(e, i)

LEMMA QuietGoes ==
  ASSUME NEW e \in Events, IsPublished(e), UNCHANGED <<frag, published, heard>>, net' \subseteq net
  PROVE  Goes(e)
<1>1. IsPublished(e)' /\ EventOf(e)' = EventOf(e) /\ (Due(e)' <=> Due(e))
  BY DEF IsPublished, EventOf, Due
<1>2. \A i : Coming(e, i)' => Coming(e, i)
  BY <1>1 DEF Coming
<1>3. Gone(e) => Gone(e)'
  BY <1>1 DEF Gone
<1> QED BY <1>1, <1>2, <1>3 DEF Goes

LEMMA ProcessGoes ==
  ASSUME NEW e \in Events, IsPublished(e), NEW f \in net, HeardInv, NEW again, NEW cleans,
         ProcessFragment(f, again, cleans)
  PROVE  Goes(e)
<1>1. /\ UNCHANGED <<frag, published>> /\ net' \subseteq net
      /\ heard' = [heard EXCEPT ![f.src] = @ \cup {f.fseq}]
  BY DEF ProcessFragment, Arrives
<1>2. IsPublished(e)' /\ EventOf(e)' = EventOf(e) /\ (Due(e)' <=> Due(e))
  BY <1>1 DEF IsPublished, EventOf, Due
<1>3. \A i : Coming(e, i)' => Coming(e, i)
  BY <1>1, <1>2 DEF Coming
<1>4. Gone(e) => Gone(e)'
  BY <1>1, <1>2 DEF Gone
<1>5. heard'[e] = IF e = f.src THEN heard[e] \cup {f.fseq} ELSE heard[e]
  BY <1>1 DEF HeardInv
<1>6. \A i \in heard'[e] : i \in heard[e] \/ Coming(e, i)
  BY <1>5 DEF Coming
<1> QED BY <1>2, <1>3, <1>4, <1>5, <1>6 DEF Goes

LEMMA PublishGoes ==
  ASSUME CountInv, NEW e \in Events, IsPublished(e), NEW p \in Publishers, NEW len \in conf.lens,
         Publish(p, len)
  PROVE  Goes(e)
<1>1. PICK v \in PubEvent, g \in Frag \cup {None} :
          /\ Len(published'[p]) = Len(published[p]) + 1
          /\ \A i \in 1 .. Len(published[p]) : published'[p][i] = published[p][i]
          /\ \A q \in Publishers \ {p} : published'[q] = published[q] /\ frag'[q] = frag[q]
          /\ UNCHANGED <<conf, net, dups, demux, handle, kept, now, received, corrupt, heard, failed>>
  BY PublishEffect
<1>2. e[1] \in Publishers /\ e[2] \in Nat \ {0} /\ Len(published[e[1]]) \in Nat
  BY EventFacts
<1>3. e[2] \in 1 .. Len(published[e[1]])
  BY <1>2 DEF IsPublished
<1>4. IsPublished(e)' /\ EventOf(e)' = EventOf(e)
  <2>1. CASE e[1] = p
    BY <1>1, <1>2, <1>3, <2>1 DEF IsPublished, EventOf
  <2>2. CASE e[1] # p
    BY <1>1, <1>2, <2>2 DEF IsPublished, EventOf
  <2> QED BY <2>1, <2>2
<1>5. Due(e)' => Due(e) /\ frag'[e[1]] = frag[e[1]]
  <2>1. CASE e[1] = p
    <3>1. e[2] # Len(published'[p])
      BY <1>1, <1>2, <1>3, <2>1
    <3> QED BY <2>1, <3>1 DEF Due
  <2>2. CASE e[1] # p
    BY <1>1, <1>2, <2>2 DEF Due
  <2> QED BY <2>1, <2>2
<1>6. \A i : Coming(e, i)' => Coming(e, i)
  BY <1>1, <1>5 DEF Coming
<1>7. Gone(e) => Gone(e)'
  BY <1>1, <1>5 DEF Gone
<1> QED BY <1>1, <1>4, <1>6, <1>7 DEF Goes

LEMMA SendGoes ==
  ASSUME CountInv, NEW e \in Events, IsPublished(e), NEW p \in Publishers, SendFragment(p)
  PROVE  Goes(e)
<1> DEFINE e0 == <<p, Len(published[p])>>
           r == frag[p].remaining
<1>1. PICK f : /\ net' = net \cup {f} /\ f.src = e0 /\ f.fseq = r - 1
               /\ frag[p] # None /\ r \in Nat \ {0}
               /\ frag'[p] # None => frag'[p].remaining = r - 1
               /\ \A q \in Publishers \ {p} : frag'[q] = frag[q]
               /\ UNCHANGED <<published, heard>>
  BY SendEffect
<1>2. e[1] \in Publishers /\ e = <<e[1], e[2]>> /\ e[2] \in Nat
  BY EventFacts
<1>3. IsPublished(e)' /\ EventOf(e)' = EventOf(e) /\ heard'[e] = heard[e]
  BY <1>1 DEF IsPublished, EventOf
<1>4. CASE e = e0
  <2>1. e[1] = p /\ Due(e) /\ frag[e[1]].remaining = r
    BY <1>1, <1>4 DEF Due
  <2>2. ASSUME NEW i \in Nat, Coming(e, i)' PROVE Coming(e, i)
    <3>1. CASE \E g \in net' : g.src = e /\ g.fseq = i
      <4>1. PICK g \in net' : g.src = e /\ g.fseq = i
        BY <3>1
      <4>2. CASE g = f
        <5>1. i < r
          BY <1>1, <4>1, <4>2
        <5> QED BY <2>1, <5>1 DEF Coming
      <4> QED BY <1>1, <4>1, <4>2 DEF Coming
    <3>2. CASE Due(e)' /\ i < frag'[e[1]].remaining
      <4>1. Due(e)' => frag'[p] # None
        BY <2>1 DEF Due
      <4>2. i < r - 1
        BY <1>1, <2>1, <3>2, <4>1
      <4>3. i < r
        BY <1>1, <4>2
      <4> QED BY <2>1, <4>3 DEF Coming
    <3> QED BY <2>2, <3>1, <3>2 DEF Coming
  <2>3. ~Gone(e)
    BY <2>1 DEF Gone
  <2> QED BY <1>3, <2>2, <2>3 DEF Goes
<1>5. CASE e # e0
  <2>1. Due(e)' => Due(e) /\ frag'[e[1]] = frag[e[1]]
    BY <1>1, <1>2, <1>5 DEF Due
  <2>2. \A i : Coming(e, i)' => Coming(e, i)
    BY <1>1, <1>5, <2>1 DEF Coming
  <2>3. Gone(e) => Gone(e)'
    BY <1>1, <1>5, <2>1 DEF Gone
  <2> QED BY <1>3, <2>2, <2>3 DEF Goes
<1> QED BY <1>4, <1>5

LEMMA NextGoes ==
  ASSUME CountInv, HeardInv, NEW e \in Events, IsPublished(e), [Next]_vars
  PROVE  Goes(e)
<1> DEFINE Still == UNCHANGED <<frag, published, heard>> /\ net' \subseteq net
<1>1. Still => Goes(e)
  BY QuietGoes
<1>2. ASSUME NEW f \in net, NEW again \in BOOLEAN, DropFragment(f, again) PROVE Still
  BY <1>2 DEF DropFragment, Arrives
<1>3. ASSUME NEW f \in net, LoseFragment(f) PROVE Still
  BY <1>3 DEF LoseFragment
<1>4. ASSUME EventProcessed \/ KeepEvent \/ (\E d \in kept : KeptEventProcessed(d)) \/ Tick PROVE Still
  BY <1>4 DEF EventProcessed, KeepEvent, KeptEventProcessed, Tick
<1>5. ASSUME UNCHANGED vars PROVE Still
  BY <1>5 DEF vars
<1>6. ASSUME NEW p \in Publishers, (\E len \in conf.lens : Publish(p, len)) \/ SendFragment(p)
      PROVE  Goes(e)
  BY <1>6, PublishGoes, SendGoes
<1>7. ASSUME NEW f \in net, NEW again \in BOOLEAN, NEW cleans \in BOOLEAN,
             ProcessFragment(f, again, cleans)
      PROVE  Goes(e)
  BY <1>7, ProcessGoes
<1> HIDE DEF Still
<1> QED BY <1>1, <1>2, <1>3, <1>4, <1>5, <1>6, <1>7 DEF Next

\* Too few stay too few.
LEMMA ShortStays ==
  ASSUME CountInv, NEW e \in Events, IsPublished(e), Goes(e), Short(e)
  PROVE  Short(e)'
<1>1. EventOf(e)' = EventOf(e) /\ Enough(e)' = Enough(e)
  BY DEF Goes, Enough
<1>2. CASE Gone(e) /\ Cardinality(heard[e]) < Enough(e)
  <2>1. \A i : ~Coming(e, i)
    BY <1>2 DEF Gone, Coming
  <2>2. heard'[e] = heard[e]
    BY <2>1 DEF Goes
  <2> QED BY <1>1, <1>2, <2>2 DEF Goes, Short
<1>3. CASE /\ EventOf(e).k = 0
           /\ \E i \in 0 .. EventOf(e).count - 1 : i \notin heard[e] /\ ~Coming(e, i)
  <2>1. PICK i \in 0 .. EventOf(e).count - 1 : i \notin heard[e] /\ ~Coming(e, i)
    BY <1>3
  <2>2. i \in Nat
    BY EventFacts
  <2>3. i \notin heard'[e] /\ ~Coming(e, i)'
    BY <2>1, <2>2 DEF Goes
  <2> QED BY <1>1, <1>3, <2>1, <2>3 DEF Short
<1> QED BY <1>2, <1>3 DEF Short

\* What is collected are the parts of one event, ...
LEMMA CollectedHolds ==
  ASSUME DataInv, NEW e \in Events, Collected(e),
         NEW def, def = demux.events[KeyOf(conf, e)].def
  PROVE  EntryOf(KeyOf(conf, e), e) /\ Holds(conf, Kind, def, e, EventOf(e)) /\ def.data # {}
<1>1. PICK k : k = KeyOf(conf, e) /\ LiveIn(demux, k) /\ def = demux.events[k].def
               /\ \A x \in def.data : x.src = e
  BY DEF Collected
<1>2. PICK g \in Events : EntryOf(k, g)
  BY <1>1 DEF DataInv, EntryInv
<1>3. Holds(conf, Kind, def, g, EventOf(g)) /\ def.data # {}
  BY <1>1, <1>2 DEF EntryOf, Waiting
<1>4. g = e
  BY <1>1, <1>3 DEF Holds
<1> QED BY <1>1, <1>2, <1>3, <1>4

\* ... and too few, unless it is about to be handed on.
LEMMA CollectedIsPart ==
  ASSUME CountInv, ReceiverInv, DataInv, NEW e \in Events, IsPublished(e), Collected(e),
         handle # KeyOf(conf, e)
  PROVE  Cardinality(heard[e]) < Enough(e)
<1>1. PICK k, def : /\ k = KeyOf(conf, e) /\ LiveIn(demux, k) /\ def = demux.events[k].def
                    /\ Numbers(def) = heard[e]
  BY DEF Collected
<1>2. conf \in Configs /\ EventOf(e) \in PubEvent
  BY EventFacts DEF CountInv, TypeInv
<1>3. PICK c, v, kind : /\ c \in Configs /\ v \in PubEvent /\ KindOf(c, kind)
                        /\ c = conf /\ v = EventOf(e) /\ kind = Kind
  BY <1>2, KindIs
<1>4. Holds(c, kind, def, e, v)
  BY <1>1, <1>3, CollectedHolds
<1>5. ~Complete(kind, def)
  BY <1>1, <1>3 DEF ReceiverInv, Receiving, DemuxOK, EntryOK, LiveIn, Open
<1>6. ~(Cardinality(Numbers(def)) >= IF v.k = 0 THEN v.count ELSE v.k)
  BY <1>3, <1>4, <1>5, EnoughIsComplete
<1>7. v.count \in Nat \ {0} /\ v.k \in Nat
  BY <1>3, <1>4, CutFacts DEF Holds, PubEvent
<1>8. Cardinality(Numbers(def)) \in Nat
  <2>1. PICK n \in Nat, N \in {Numbers(def)} : n = v.count
    BY <1>7
  <2>2. N \in SUBSET (0 .. n - 1)
    BY <1>4, <2>1 DEF Holds, Numbers
  <2> QED BY <2>1, <2>2, SomeNumbers
<1>9. Cardinality(Numbers(def)) < IF v.k = 0 THEN v.count ELSE v.k
  BY <1>6, <1>7, <1>8
<1> QED BY <1>1, <1>3, <1>9 DEF Enough

\* What is collected stays when other fragments arrive or go, or there is no more to come.
LEMMA CollectedStays ==
  ASSUME CountInv, ReceiverInv, DataInv, InTime, NEW e \in Events, IsPublished(e), Collected(e),
         handle # KeyOf(conf, e), Goes(e), heard'[e] = heard[e], conf' = conf,
         NEW key, KeyOf(conf, e) # key, Others(demux, demux', key)
  PROVE  Collected(e)' \/ Short(e)'
<1>1. PICK k : k = KeyOf(conf, e)
  OBVIOUS
<1>2. /\ LiveIn(demux, k) /\ Numbers(demux.events[k].def) = heard[e]
      /\ \A x \in demux.events[k].def.data : x.src = e
      /\ demux.events[k].expire \in Nat /\ EventOf(e).at + Keep <= demux.events[k].expire
  BY <1>1 DEF Collected
<1>3. CASE demux.events[k].expire < now
  <2>1. EventOf(e).at \in Nat /\ Keep \in Nat /\ now \in Nat
    BY EventFacts, TransferAssumption DEF CountInv, TypeInv
  <2>2. Gone(e)
    <3>1. Gone(e) \/ now <= EventOf(e).at + Keep
      BY DEF InTime
    <3> QED BY <1>2, <1>3, <2>1, <3>1
  <2>3. Short(e)
    BY <2>2, CollectedIsPart DEF Short
  <2> QED BY <2>3, ShortStays
<1>4. CASE ~(demux.events[k].expire < now)
  <2>1. k \in DOMAIN demux'.events /\ demux'.events[k] = demux.events[k]
    BY <1>1, <1>2, <1>4 DEF Others, LiveIn
  <2>2. EventOf(e)' = EventOf(e) /\ KeyOf(conf', e) = k
    BY <1>1 DEF Goes
  <2>3. LiveIn(demux', k)
    BY <1>2, <2>1 DEF LiveIn
  <2> QED BY <1>2, <2>1, <2>2, <2>3 DEF Collected
<1> QED BY <1>3, <1>4

\* Only the reconstructor in order refuses fragments, unless they are the next.
LEMMA PutRefuses ==
  ASSUME NEW d, IsDefragmenter(d), d.room # 0, d.count \in Nat, NEW f,
         NEW kind \in {"inorder", "outoforder", "fec"}, NEW checks \in BOOLEAN,
         f.fec => kind = "fec" /\ d.k # 0,
         NEW put, put = PutFragment(kind, checks, d, f), put.room = 0
  PROVE  /\ kind = "inorder" /\ ~(checks /\ f.fseq \in d.seen)
         /\ IF d.count = 0 THEN ~f.first ELSE d.count - f.fseq - 1 # d.arrived
<1>1. ~(checks /\ f.fseq \in d.seen)
  BY DEF PutFragment
<1>2. PICK e : e = IF checks THEN [d EXCEPT !.seen = @ \cup {f.fseq}] ELSE d
  OBVIOUS
<1>3. IsDef(e) /\ e.room = d.room /\ e.count = d.count /\ e.arrived = d.arrived /\ e.k = d.k
  BY <1>2 DEF IsDef, IsDefragmenter
<1>4. put = CASE kind = "inorder"    -> PutInOrder(e, f)
              [] kind = "outoforder" -> PutOutOfOrder(e, f)
              [] kind = "fec"        -> PutFEC(e, f)
  BY <1>1, <1>2 DEF PutFragment, Error
<1>5. \A place : IsDef(Store(e, f, place)) /\ Store(e, f, place).room = d.room
  BY <1>3, StoreKeepsRoom
<1>6. ~f.fec => PutOutOfOrder(e, f).room # 0 /\ IsDef(PutOutOfOrder(e, f))
  <2> SUFFICES ASSUME ~f.fec PROVE PutOutOfOrder(e, f).room # 0 /\ IsDef(PutOutOfOrder(e, f))
    OBVIOUS
  <2>1. PICK p, n, b, l, k, t : t = Stored(e, e.seen, f, p, n, b, l, k) /\ t = PutOutOfOrder(e, f)
    <3>1. IsDefragmenter(e)
      <4>1. PICK x, seen : x = [d EXCEPT !.seen = seen] /\ seen = d.seen \cup {f.fseq}
        OBVIOUS
      <4>2. x = [room |-> d.room, seen |-> seen, count |-> d.count, final |-> d.final,
                 arrived |-> d.arrived, len |-> d.len, k |-> d.k, data |-> d.data]
        BY <4>1 DEF IsDefragmenter
      <4>3. IsDefragmenter(x)
        BY <4>2 DEF IsDefragmenter
      <4> QED BY <1>2, <4>1, <4>3
    <3> QED BY <3>1, PutOutOfOrderIs
  <2>2. IsDef(t) /\ t.room = e.room
    BY <2>1 DEF Stored, IsDef
  <2> QED BY <1>3, <2>1, <2>2
<1>7. kind # "outoforder"
  BY <1>4, <1>6
<1>8. kind # "fec"
  <2> SUFFICES ASSUME kind = "fec" PROVE FALSE
    OBVIOUS
  <2>1. put = PutFEC(e, f)
    BY <1>4
  <2>2. CASE ~f.fec
    <3>1. PICK t : t = PutOutOfOrder(e, f)
      OBVIOUS
    <3>2. put = [t EXCEPT !.k = 0] /\ t.room # 0 /\ IsDef(t)
      BY <1>6, <2>1, <2>2, <3>1 DEF PutFEC
    <3> QED BY <3>2 DEF IsDef
  <2>3. CASE f.fec
    <3>1. PICK s : s = Store(e, f, f.from)
      OBVIOUS
    <3>2. put = [s EXCEPT !.k = f.k, !.count = WithRedundancy(f.k, f.red),
                          !.len = (f.k - 1) * FECPayload(e, f) + f.rest]
      BY <1>3, <2>1, <2>3, <3>1 DEF PutFEC
    <3>3. IsDef(s) /\ s.room = d.room
      BY <1>5, <3>1
    <3>4. put.room = d.room
      BY <3>2, <3>3 DEF IsDef
    <3> QED BY <3>4
  <2> QED BY <2>2, <2>3
<1>9. put = PutInOrder(e, f) /\ ~f.fec
  BY <1>4, <1>7, <1>8
<1>10. ~(d.count = 0 /\ f.first)
  <2> SUFFICES ASSUME d.count = 0, f.first PROVE FALSE
    OBVIOUS
  <2>1. PICK s : s = Store(e, f, 0)
    OBVIOUS
  <2>2. put = [s EXCEPT !.count = f.fseq + 1, !.len = f.len]
    BY <1>3, <1>9, <2>1 DEF PutInOrder
  <2>3. IsDef(s) /\ s.room = d.room
    BY <1>5, <2>1
  <2>4. put.room = d.room
    BY <2>2, <2>3 DEF IsDef
  <2> QED BY <2>4
<1>11. ~(d.count # 0 /\ d.count - f.fseq - 1 = d.arrived)
  <2> SUFFICES ASSUME d.count # 0, d.count - f.fseq - 1 = d.arrived PROVE FALSE
    OBVIOUS
  <2>1. PICK s : s = Store(e, f, e.len)
    OBVIOUS
  <2>2. put = [s EXCEPT !.len = e.len + f.len]
    BY <1>3, <1>9, <2>1 DEF PutInOrder
  <2>3. IsDef(s) /\ s.room = d.room
    BY <1>5, <2>1
  <2>4. put.room = d.room
    BY <2>2, <2>3 DEF IsDef
  <2> QED BY <2>4
<1> QED BY <1>1, <1>7, <1>8, <1>10, <1>11

\* A fragment that arrives without the one before it shows that this one is lost.
LEMMA LaterIsLost ==
  ASSUME CountInv, TransportInv, "reorder" \notin conf.net, NEW f \in net, MayArrive(f),
         NEW i \in Nat, f.fseq < i
  PROVE  ~Coming(f.src, i)
<1>1. PICK e \in Events : e = f.src /\ f.fseq \in Nat
  BY NetFacts DEF TransportInv
<1>2. ASSUME NEW g \in net, g.src = e, g.fseq = i PROVE FALSE
  <2>1. g.src[1] = f.src[1] /\ g.src[2] = f.src[2] /\ g.fseq > f.fseq
    BY <1>1, <1>2
  <2>2. Earlier(g, f)
    BY <2>1 DEF Earlier
  <2> QED BY <2>1, <2>2 DEF MayArrive
<1>3. ASSUME Due(e), i < frag[e[1]].remaining PROVE FALSE
  <2>1. frag[e[1]].remaining <= f.fseq /\ frag[e[1]].remaining \in Int
    BY <1>1, <1>3, EventFacts DEF TransportInv, SentInv
  <2> QED BY <1>1, <1>3, <2>1
<1> QED BY <1>1, <1>2, <1>3 DEF Coming

\* When a fragment is refused, one before it is lost.
LEMMA RefusedIsShort ==
  ASSUME CountInv, TransportInv, Adequate(conf), NEW f \in net, MayArrive(f),
         NEW def, FitsIn(f, def), Numbers(def) = heard[f.src],
         Error(PutFragment(Kind, conf.duplicates, def, f))
  PROVE  Short(f.src)
<1>1. PICK e \in Events : e = f.src /\ IsPublished(e) /\ PartOf(conf, f, EventOf(e)) /\ f.fseq \in Nat
  BY NetFacts DEF TransportInv
<1>2. conf \in Configs /\ EventOf(e) \in PubEvent
  BY <1>1, EventFacts DEF CountInv, TypeInv
<1>3. PICK c \in Configs, v \in PubEvent, kind \in {"inorder", "outoforder", "fec"} :
          c = conf /\ v = EventOf(e) /\ kind = Kind
  BY <1>2, KindIs DEF KindOf
<1>4. PICK checks \in BOOLEAN : checks <=> conf.duplicates
  OBVIOUS
<1>5. PICK put : put = PutFragment(kind, checks, def, f) /\ put.room = 0
  BY <1>3, <1>4 DEF PutFragment, Error
<1>6. KindOf(c, kind) /\ PartOf(c, f, v) /\ Holds(c, kind, def, e, v)
  BY <1>1, <1>3, KindIs DEF FitsIn
<1>7. /\ v.count \in Nat \ {0} /\ def.room # 0 /\ IsDefragmenter(def) /\ def.count \in Nat
      /\ f.fec => kind = "fec" /\ def.k # 0
  <2>1. IsCut(c, v) /\ def.room = RoomOf(c) /\ IsDefragmenter(def) /\ def.count \in Nat
    BY <1>6 DEF Holds
  <2>2. v.count \in Nat \ {0} /\ RoomOf(c) # 0 /\ (HasFEC(c) => v.k # 0)
    BY <2>1, CutFacts
  <2>3. f.fec => HasFEC(c)
    BY <1>6 DEF PartOf
  <2>4. HasFEC(c) => kind = "fec" /\ HoldsFEC(def, v)
    BY <1>6 DEF HasFEC, KindOf, Holds
  <2> QED BY <2>1, <2>2, <2>3, <2>4 DEF HoldsFEC
<1>8. /\ kind = "inorder" /\ ~(checks /\ f.fseq \in def.seen)
      /\ IF def.count = 0 THEN ~f.first ELSE def.count - f.fseq - 1 # def.arrived
  BY <1>5, <1>7, PutRefuses
<1>9. ~conf.FEC /\ ~conf.reordering /\ "reorder" \notin conf.net
  BY <1>3, <1>8 DEF Kind, Adequate
<1>10. v.k = 0 /\ HoldsInOrder(c, def, v)
  BY <1>3, <1>6, <1>8, <1>9 DEF Holds, IsCut, HasFEC
<1>11. f.fseq \notin Numbers(def)
  <2> SUFFICES ASSUME f.fseq \in heard[e] PROVE FALSE
    BY <1>1
  <2>1. checks
    BY <1>1, <1>4 DEF TransportInv, HeardOnce, Adequate
  <2>2. def.seen = Numbers(def)
    BY <1>4, <2>1 DEF FitsIn
  <2> QED BY <1>1, <1>8, <2>1, <2>2
<1>12. PICK n, a, i : n = v.count /\ a = def.arrived /\ i = f.fseq
  OBVIOUS
<1>13. /\ n \in Nat \ {0} /\ a \in 0 .. n /\ i \in 0 .. n - 1
       /\ i \notin n - a .. n - 1
       /\ i # n - 1 - a
       /\ Numbers(def) = n - a .. n - 1
  <2>1. i \in 0 .. n - 1 /\ (f.first <=> i = n - 1)
    BY <1>6, <1>12 DEF PartOf
  <2>2. a \in 0 .. n /\ def.count = (IF a = 0 THEN 0 ELSE n) /\ Numbers(def) = n - a .. n - 1
    BY <1>10, <1>12 DEF HoldsInOrder
  <2>3. CASE a = 0
    BY <1>7, <1>8, <1>11, <1>12, <2>1, <2>2, <2>3
  <2>4. CASE a # 0
    BY <1>7, <1>8, <1>11, <1>12, <2>1, <2>2, <2>4
  <2> QED BY <2>3, <2>4
<1>14. PICK j : j = n - 1 - a
  OBVIOUS
<1>15. j \in 0 .. n - 1 /\ j \in Nat /\ i < j /\ j \notin Numbers(def)
  BY <1>13, <1>14
<1>16. ~Coming(e, j)
  BY <1>1, <1>9, <1>12, <1>15, LaterIsLost
<1> QED BY <1>1, <1>3, <1>10, <1>12, <1>15, <1>16 DEF Short

\* Without event numbers, a fragment of an event that has not begun shows that its
\* first is lost.
LEMMA PassedIsShort ==
  ASSUME CountInv, TransportInv, Separated(conf), Adequate(conf), ~conf.eseq,
         NEW f \in net, MayArrive(f), ~f.first, heard[f.src] = {}
  PROVE  Short(f.src)
<1>1. PICK e \in Events : e = f.src /\ IsPublished(e) /\ PartOf(conf, f, EventOf(e)) /\ f.fseq \in Nat
  BY NetFacts DEF TransportInv
<1>2. conf \in Configs /\ EventOf(e) \in PubEvent /\ IsCut(conf, EventOf(e))
  BY <1>1, EventFacts DEF CountInv, TypeInv, PartOf
<1>3. PICK i : i = EventOf(e).count - 1
  OBVIOUS
<1>4. i \in 0 .. EventOf(e).count - 1 /\ i \in Nat /\ f.fseq < i
  <2>1. EventOf(e).count \in Nat \ {0}
    BY <1>2, CutFacts
  <2>2. f.fseq \in 0 .. EventOf(e).count - 1 /\ f.fseq # i
    BY <1>1, <1>3 DEF PartOf
  <2> QED BY <1>3, <2>1, <2>2
<1>5. conf.net = {}
  BY DEF Separated
<1>6. i \notin heard[e] /\ ~Coming(e, i)
  BY <1>1, <1>4, <1>5, LaterIsLost
<1>7. CASE EventOf(e).k = 0
  BY <1>1, <1>4, <1>6, <1>7 DEF Short
<1>8. CASE EventOf(e).k # 0
  <2>1. conf.width >= 3
    BY <1>2, <1>8 DEF IsCut, HasFEC, Adequate
  <2>2. GetBasicHeaderLen(i) \in 1 .. 3
    BY <1>4, MaxFragmentsGrow DEF GetBasicHeaderLen
  <2>3. conf.width \in Nat
    BY <1>2, TransferAssumption
  <2>4. ~TooLong(i)
    BY <2>1, <2>2, <2>3 DEF TooLong
  <2> QED BY <1>1, <1>4, <1>5, <1>6, <2>4 DEF TransportInv, NoneLost
<1> QED BY <1>7, <1>8

\* A fragment that is stored is collected.
LEMMA StoredIsCollected ==
  ASSUME DataInv, CountInv, TransportInv, Separated(conf), handle = None, WholeInv,
         NEW f \in net, MayArrive(f), ~TooLong(f.fseq), Key(f) # None, NEW def, TakesFrom(f, def),
         ~Done(f.src), ~Short(f.src)
  PROVE  FitsIn(f, def) /\ Numbers(def) = heard[f.src]
<1>1. PICK e \in Events : e = f.src /\ IsPublished(e) /\ KeyOf(conf, e) = Key(f)
  BY NetFacts, KeyOfFragment DEF TransportInv
<1>2. PICK key : key = Key(f)
  OBVIOUS
<1>3. heard[e] # {} => Collected(e)
  BY <1>1 DEF WholeInv
<1>4. CASE LiveIn(demux, key) /\ def = demux.events[key].def
  <2>1. FitsIn(f, def)
    BY <1>2, <1>4, EntryFits
  <2>2. Numbers(def) \subseteq heard[e]
    BY <1>1, <2>1 DEF FitsIn
  <2>3. heard[e] # {} => Numbers(def) = heard[e]
    BY <1>1, <1>2, <1>3, <1>4 DEF Collected
  <2> QED BY <1>1, <2>1, <2>2, <2>3
<1>5. CASE /\ def = NewDefragmenter(RoomOf(conf))
           /\ IF conf.eseq
              THEN ~OldIn(demux, key) /\ (LiveIn(demux, key) => demux.events[key].expire < now)
              ELSE f.first
  <2>1. FitsIn(f, def)
    BY <1>2, <1>5, NewFits
  <2>2. CASE ~conf.eseq
    BY <2>1, <2>2 DEF FitsIn
  <2>3. CASE conf.eseq
    <3>1. Numbers(def) = {}
      BY <1>5 DEF NewDefragmenter, Numbers
    <3>2. ASSUME Collected(e) PROVE FALSE
      <4>1. LiveIn(demux, key) /\ demux.events[key].expire < now
        BY <1>1, <1>2, <1>5, <2>3, <3>2 DEF Collected
      <4>2. demux.events[key].expire \in Nat /\ EventOf(e).at + Keep <= demux.events[key].expire
        BY <1>1, <1>2, <3>2 DEF Collected
      <4>3. ~Gone(e)
        BY <1>1 DEF Gone
      <4>4. EventOf(e).at \in Nat /\ Keep \in Nat /\ now \in Nat /\ now <= EventOf(e).at + Keep
        BY <1>1, <4>3, EventFacts, TransferAssumption DEF TransportInv, InTime, CountInv, TypeInv
      <4> QED BY <4>1, <4>2, <4>4
    <3>3. heard[e] = {}
      BY <1>3, <3>2
    <3> QED BY <1>1, <2>1, <3>1, <3>3
  <2> QED BY <2>2, <2>3
<1> QED BY <1>2, <1>4, <1>5 DEF TakesFrom

\* What becomes of the event of a fragment.
LEMMA ArrivalIsWhole ==
  ASSUME DataInv, CountInv, ReceiverInv, TransportInv, WholeInv, Suited(conf), Separated(conf),
         Adequate(conf), NEW f \in net, NEW again \in BOOLEAN, NEW cleans \in BOOLEAN,
         ProcessFragment(f, again, cleans), ~Done(f.src), ~Short(f.src)
  PROVE  Collected(f.src)'
<1>1. PICK e \in Events : e = f.src /\ IsPublished(e) /\ KeyOf(conf, e) = Key(f)
                          /\ f.blen = GetBasicHeaderLen(f.fseq)
  BY NetFacts, KeyOfFragment DEF TransportInv
<1>2. /\ UNCHANGED <<conf, published, now>> /\ handle = None /\ MayArrive(f) /\ ~HeaderError(f)
      /\ heard' = [heard EXCEPT ![e] = @ \cup {f.fseq}]
  BY <1>1 DEF ProcessFragment, Arrives
<1>3. ~TooLong(f.fseq) /\ heard'[e] = heard[e] \cup {f.fseq}
  BY <1>1, <1>2 DEF HeaderError, TooLong, TransportInv, HeardInv
<1>4. PICK key : key = Key(f) /\ key # None
  BY NetIsLegal, KeyIsNotNone DEF CountInv, TypeInv
<1>5. \/ Passes(demux, f) \/ (\E def : Refuses(f, def)) \/ \E def : Stores(f, def)
  BY ProcessEffect
<1>6. heard[e] # {} => Collected(e)
  BY <1>1 DEF WholeInv
<1>7. ~Passes(demux, f)
  <2> SUFFICES ASSUME Passes(demux, f) PROVE FALSE
    OBVIOUS
  <2>1. CASE conf.eseq
    <3>1. OldIn(demux, key)
      BY <1>4, <2>1 DEF Passes
    <3>2. PICK g \in Events : IsPublished(g) /\ KeyOf(conf, g) = key /\ (Done(g) \/ Short(g))
      BY <3>1 DEF WholeInv
    <3>3. g = e
      BY <1>1, <1>4, <2>1, <3>2, KeysTell
    <3> QED BY <1>1, <3>2, <3>3
  <2>2. CASE ~conf.eseq
    <3>1. ~f.first /\ ~LiveIn(demux, key)
      BY <1>4, <2>2 DEF Passes
    <3>2. ~Collected(e)
      BY <1>1, <1>4, <3>1 DEF Collected
    <3> QED BY <1>1, <1>2, <1>6, <2>2, <3>1, <3>2, PassedIsShort
  <2> QED BY <2>1, <2>2
<1>8. ~\E def : Refuses(f, def)
  <2> SUFFICES ASSUME NEW def, Refuses(f, def) PROVE FALSE
    OBVIOUS
  <2>1. TakesFrom(f, def) /\ Error(PutFragment(Kind, conf.duplicates, def, f))
    BY DEF Refuses
  <2>2. FitsIn(f, def) /\ Numbers(def) = heard[f.src]
    BY <1>2, <1>3, <1>4, <2>1, StoredIsCollected
  <2> QED BY <1>2, <2>1, <2>2, RefusedIsShort
<1>9. PICK def : Stores(f, def)
  BY <1>5, <1>7, <1>8
<1>10. PICK put : put = PutFragment(Kind, conf.duplicates, def, f)
  OBVIOUS
<1>11. /\ TakesFrom(f, def) /\ ~Error(put)
       /\ LiveIn(demux', key) /\ demux'.events[key].def = put
       /\ \/ demux'.events[key].expire = now + Keep
          \/ /\ LiveIn(demux, key) /\ def = demux.events[key].def
             /\ demux'.events[key].expire = demux.events[key].expire
  BY <1>4, <1>9, <1>10 DEF Stores
<1>12. FitsIn(f, def) /\ Numbers(def) = heard[e]
  BY <1>1, <1>2, <1>3, <1>4, <1>11, StoredIsCollected
<1>13. Numbers(put) = heard'[e] /\ \A x \in put.data : x.src = e
  <2>1. Holds(conf, Kind, put, e, EventOf(e)) /\ Numbers(put) = heard[e] \cup {f.fseq}
    BY <1>1, <1>10, <1>11, <1>12, PutFits
  <2> QED BY <1>3, <2>1 DEF Holds
<1>14. PICK t : t = demux'.events[key].expire
  OBVIOUS
<1>15. t \in Nat /\ EventOf(e).at + Keep <= t
  <2>1. EventOf(e).at \in Nat /\ EventOf(e).at <= now /\ now \in Nat /\ Keep \in Nat
    BY <1>1, EventFacts, TransferAssumption DEF TransportInv, InTime, CountInv, TypeInv
  <2>2. CASE t = now + Keep
    BY <2>1, <2>2
  <2>3. CASE LiveIn(demux, key) /\ def = demux.events[key].def /\ t = demux.events[key].expire
    <3>1. heard[e] # {}
      <4>1. PICK g \in Events : EntryOf(key, g)
        BY <2>3 DEF DataInv, EntryInv
      <4>2. def.data # {}
        BY <2>3, <4>1 DEF EntryOf, Waiting
      <4> QED BY <1>12, <4>2 DEF Numbers
    <3> QED BY <1>1, <1>4, <1>6, <2>3, <3>1 DEF Collected
  <2> QED BY <1>11, <1>14, <2>2, <2>3
<1>16. EventOf(e)' = EventOf(e) /\ KeyOf(conf', e) = key
  BY <1>1, <1>2, <1>4 DEF EventOf
<1>17. Collected(e)'
  BY <1>11, <1>13, <1>14, <1>15, <1>16 DEF Collected
<1> QED BY <1>1, <1>17

\* The invariant after a step, from what becomes of each event and each number.
LEMMA ProcessKeepsWhole ==
  ASSUME DataInv, CountInv, ReceiverInv, TransportInv, WholeInv, Suited(conf), Separated(conf),
         Adequate(conf), NEW f \in net, NEW again \in BOOLEAN, NEW cleans \in BOOLEAN,
         ProcessFragment(f, again, cleans)
  PROVE  WholeInv'
<1>1. PICK e \in Events : e = f.src /\ IsPublished(e) /\ KeyOf(conf, e) = Key(f)
  BY NetFacts, KeyOfFragment DEF TransportInv
<1>2. /\ UNCHANGED <<conf, published, kept, received, now>> /\ handle = None /\ MayArrive(f)
      /\ heard' = [heard EXCEPT ![e] = @ \cup {f.fseq}]
  BY <1>1 DEF ProcessFragment, Arrives
<1>3. PICK key : key = Key(f) /\ key # None
  BY NetIsLegal, KeyIsNotNone DEF CountInv, TypeInv
<1>4. Others(demux, demux', key)
  BY <1>3, ProcessEffect
<1>5. ASSUME NEW g \in Events, IsPublished(g)
      PROVE  /\ Done(g) => Done(g)'
             /\ Short(g) => Short(g)'
             /\ IsPublished(g)' /\ KeyOf(conf', g) = KeyOf(conf, g) /\ Goes(g)
  <2>1. Goes(g)
    BY <1>5, ProcessGoes DEF TransportInv
  <2>2. Short(g) => Short(g)'
    BY <1>5, <2>1, ShortStays
  <2> QED BY <1>2, <2>1, <2>2 DEF Done, Goes
<1>6. Done(e) \/ Short(e) \/ Collected(e)'
  BY <1>1, ArrivalIsWhole
<1>7. ASSUME NEW g \in Events, g # e, Collected(g), IsPublished(g)
      PROVE  Collected(g)' \/ Short(g)'
  <2>1. KeyOf(conf, g) # key
    <3> SUFFICES ASSUME KeyOf(conf, g) = key PROVE FALSE
      OBVIOUS
    <3>1. PICK def : def = demux.events[key].def /\ LiveIn(demux, key)
      BY <1>7 DEF Collected
    <3>2. FitsIn(f, def)
      BY <1>2, <1>3, <3>1, EntryFits
    <3>3. \A x \in def.data : x.src = e
      BY <1>1, <3>2 DEF FitsIn, Holds
    <3>4. def.data # {} /\ \A x \in def.data : x.src = g
      BY <1>7, <3>1, CollectedHolds DEF Collected
    <3> QED BY <1>7, <3>3, <3>4
  <2>2. heard'[g] = heard[g]
    BY <1>2, <1>7 DEF TransportInv, HeardInv
  <2>3. handle # KeyOf(conf, g)
    BY <1>2, <1>7, LiveIsNotNone DEF Collected
  <2> QED BY <1>2, <1>4, <1>5, <1>7, <2>1, <2>2, <2>3, CollectedStays DEF TransportInv
<1>8. ASSUME NEW g \in Events, IsPublished(g)', heard'[g] # {}
      PROVE  Done(g)' \/ Short(g)' \/ Collected(g)'
  <2>1. IsPublished(g)
    BY <1>2, <1>8 DEF IsPublished
  <2>2. CASE g = e
    BY <1>5, <1>6, <2>1, <2>2
  <2>3. CASE g # e
    <3>1. heard[g] # {}
      BY <1>2, <1>8, <2>3 DEF TransportInv, HeardInv
    <3>2. Done(g) \/ Short(g) \/ Collected(g)
      BY <2>1, <3>1 DEF WholeInv
    <3> QED BY <1>5, <1>7, <2>1, <2>3, <3>2
  <2> QED BY <2>2, <2>3
<1>9. ASSUME NEW k, OldIn(demux', k)
      PROVE  \E g \in Events : IsPublished(g)' /\ KeyOf(conf', g) = k /\ (Done(g) \/ Short(g))'
  <2>1. CASE k = key
    <3>1. ~Collected(e)'
      BY <1>1, <1>2, <1>3, <1>9, <2>1 DEF Collected, LiveIn, OldIn, KeyOf
    <3>2. Done(e)' \/ Short(e)'
      BY <1>1, <1>5, <1>6, <3>1
    <3> QED BY <1>1, <1>3, <1>5, <2>1, <3>2
  <2>2. CASE k # key
    <3>1. OldIn(demux, k)
      BY <1>4, <1>9, <2>2 DEF Others, OldIn
    <3>2. PICK g \in Events : IsPublished(g) /\ KeyOf(conf, g) = k /\ (Done(g) \/ Short(g))
      BY <3>1 DEF WholeInv
    <3> QED BY <1>5, <3>2
  <2> QED BY <2>1, <2>2
<1> QED BY <1>8, <1>9 DEF WholeInv

LEMMA DeliveryKeepsWhole ==
  ASSUME DataInv, CountInv, ReceiverInv, TransportInv, WholeInv, Suited(conf), Separated(conf),
         EventProcessed \/ KeepEvent
  PROVE  WholeInv'
<1>1. PICK e \in Events : EntryOf(handle, e) /\ Done(e)'
  BY DeliveryKeepsData
<1>2. (\A g \in Events : Done(g) => Done(g)') /\ Others(demux, demux', handle)
  BY DeliveryKeepsData
<1>3. UNCHANGED <<conf, frag, published, net, now, heard>>
  BY DEF EventProcessed, KeepEvent
<1>4. ASSUME NEW g \in Events, IsPublished(g)
      PROVE  /\ Short(g) => Short(g)'
             /\ IsPublished(g)' /\ KeyOf(conf', g) = KeyOf(conf, g) /\ Goes(g)
  <2>1. Goes(g)
    BY <1>3, <1>4, QuietGoes
  <2>2. Short(g) => Short(g)'
    BY <1>4, <2>1, ShortStays
  <2> QED BY <1>3, <2>1, <2>2 DEF Goes
<1>5. ASSUME NEW g \in Events, Collected(g), IsPublished(g)
      PROVE  Done(g)' \/ Short(g)' \/ Collected(g)'
  <2>1. CASE KeyOf(conf, g) = handle
    <3>1. PICK def : def = demux.events[handle].def
      OBVIOUS
    <3>2. def.data # {} /\ \A x \in def.data : x.src = g
      BY <1>5, <2>1, <3>1, CollectedHolds DEF Collected
    <3>3. \A x \in def.data : x.src = e
      BY <1>1, <3>1 DEF EntryOf, Waiting, Holds
    <3>4. g = e
      BY <3>2, <3>3
    <3> QED BY <1>1, <3>4
  <2>2. CASE KeyOf(conf, g) # handle
    BY <1>2, <1>3, <1>4, <1>5, <2>2, CollectedStays DEF TransportInv
  <2> QED BY <2>1, <2>2
<1>6. ASSUME NEW g \in Events, IsPublished(g)', heard'[g] # {}
      PROVE  Done(g)' \/ Short(g)' \/ Collected(g)'
  <2>1. IsPublished(g) /\ heard[g] # {}
    BY <1>3, <1>6 DEF IsPublished
  <2>2. Done(g) \/ Short(g) \/ Collected(g)
    BY <2>1 DEF WholeInv
  <2> QED BY <1>2, <1>4, <1>5, <2>1, <2>2
<1>7. ASSUME NEW k, OldIn(demux', k)
      PROVE  \E g \in Events : IsPublished(g)' /\ KeyOf(conf', g) = k /\ (Done(g) \/ Short(g))'
  <2>1. CASE k = handle
    <3>1. IsPublished(e) /\ KeyOf(conf, e) = k
      BY <1>1, <2>1 DEF EntryOf
    <3> QED BY <1>1, <1>4, <3>1
  <2>2. CASE k # handle
    <3>1. OldIn(demux, k)
      BY <1>2, <1>7, <2>2 DEF Others, OldIn
    <3>2. PICK g \in Events : IsPublished(g) /\ KeyOf(conf, g) = k /\ (Done(g) \/ Short(g))
      BY <3>1 DEF WholeInv
    <3> QED BY <1>2, <1>4, <3>2
  <2> QED BY <2>1, <2>2
<1> QED BY <1>6, <1>7 DEF WholeInv

\* Steps that leave the receiver as it is.
LEMMA QuietKeepsWhole ==
  ASSUME CountInv, TransportInv, WholeInv, [Next]_vars, UNCHANGED <<conf, demux, heard>>,
         \A e \in Events : Done(e) => Done(e)'
  PROVE  WholeInv'
<1>1. ASSUME NEW g \in Events, IsPublished(g)
      PROVE  /\ Short(g) => Short(g)'
             /\ Collected(g) => Collected(g)'
             /\ IsPublished(g)' /\ KeyOf(conf', g) = KeyOf(conf, g)
  <2>1. Goes(g)
    BY <1>1, NextGoes DEF TransportInv
  <2>2. Short(g) => Short(g)'
    BY <1>1, <2>1, ShortStays
  <2>3. Collected(g) => Collected(g)'
    BY <2>1 DEF Goes, Collected
  <2> QED BY <2>1, <2>2, <2>3 DEF Goes
<1>2. ASSUME NEW g \in Events, IsPublished(g)', heard'[g] # {}
      PROVE  Done(g)' \/ Short(g)' \/ Collected(g)'
  <2>1. IsPublished(g) /\ heard[g] # {}
    BY <1>2 DEF TransportInv, HeardInv
  <2>2. Done(g) \/ Short(g) \/ Collected(g)
    BY <2>1 DEF WholeInv
  <2> QED BY <1>1, <2>1, <2>2
<1>3. ASSUME NEW k, OldIn(demux', k)
      PROVE  \E g \in Events : IsPublished(g)' /\ KeyOf(conf', g) = k /\ (Done(g) \/ Short(g))'
  <2>1. PICK g \in Events : IsPublished(g) /\ KeyOf(conf, g) = k /\ (Done(g) \/ Short(g))
    BY <1>3 DEF WholeInv
  <2> QED BY <1>1, <2>1
<1> QED BY <1>2, <1>3 DEF WholeInv

LEMMA NextKeepsWhole ==
  ASSUME DataInv, CountInv, ReceiverInv, TransportInv, WholeInv, Suited(conf), Separated(conf),
         Adequate(conf), [Next]_vars
  PROVE  WholeInv'
<1> DEFINE Still == UNCHANGED <<conf, demux, heard, received, kept>>
<1>1. Still => WholeInv'
  <2> SUFFICES ASSUME Still PROVE WholeInv'
    OBVIOUS
  <2>1. \A e \in Events : Done(e) => Done(e)'
    BY DEF Done
  <2> QED BY <2>1, QuietKeepsWhole
<1>2. ASSUME NEW f \in net, NEW again \in BOOLEAN, DropFragment(f, again) PROVE Still
  BY <1>2 DEF DropFragment, Arrives
<1>3. ASSUME NEW f \in net, LoseFragment(f) PROVE Still
  BY <1>3 DEF LoseFragment
<1>4. ASSUME Tick PROVE Still
  BY <1>4 DEF Tick
<1>5. ASSUME UNCHANGED vars PROVE Still
  BY <1>5 DEF vars
<1>6. ASSUME NEW p \in Publishers, (\E len \in conf.lens : Publish(p, len)) \/ SendFragment(p)
      PROVE  Still
  BY <1>6 DEF Publish, SendFragment
<1>7. ASSUME NEW f \in net, NEW again \in BOOLEAN, NEW cleans \in BOOLEAN,
             ProcessFragment(f, again, cleans)
      PROVE  WholeInv'
  BY <1>7, ProcessKeepsWhole
<1>8. ASSUME EventProcessed \/ KeepEvent PROVE WholeInv'
  BY <1>8, DeliveryKeepsWhole
<1>9. ASSUME NEW d \in kept, KeptEventProcessed(d) PROVE WholeInv'
  <2>1. \A e \in Events : Done(e) => Done(e)'
    BY <1>9, KeptKeepsData
  <2>2. UNCHANGED <<conf, demux, heard>>
    BY <1>9 DEF KeptEventProcessed
  <2> QED BY <2>1, <2>2, QuietKeepsWhole
<1> HIDE DEF Still
<1> QED BY <1>1, <1>2, <1>3, <1>4, <1>5, <1>6, <1>7, <1>8, <1>9 DEF Next

\* When nothing waits to be handed on, enough was handed on.
LEMMA WholeIsDelivered ==
  ASSUME DataInv, CountInv, ReceiverInv, TransportInv, WholeInv
  PROVE  EnoughIsDelivered
<1> SUFFICES ASSUME handle = None, kept = {}, NEW e \in Events, IsPublished(e),
                    EventOf(e).count > 0, Cardinality(heard[e]) >= Enough(e)
             PROVE  received[e] > 0
  BY DEF EnoughIsDelivered
<1>1. EventOf(e).count \in Int /\ EventOf(e).k \in Nat /\ received[e] \in {0, 1}
  BY EventFacts DEF PubEvent, DataInv, DoneInv
<1>2. Enough(e) \in Nat \ {0}
  BY <1>1 DEF Enough
<1>3. heard[e] # {}
  <2> SUFFICES ASSUME heard[e] = {} PROVE FALSE
    OBVIOUS
  <2>1. Cardinality(heard[e]) = 0
    BY FS_EmptySet
  <2> QED BY <1>2, <2>1
<1>4. PICK n \in Nat, N \in {heard[e]} : n = EventOf(e).count
  BY <1>1
<1>5. N \in SUBSET (0 .. n - 1)
  BY <1>3, <1>4 DEF TransportInv, HeardInv
<1>6. /\ Cardinality(N) \in Nat /\ \A i \in 0 .. n - 1 : i \notin N => Cardinality(N) < n
  BY <1>5, SomeNumbers
<1>7. ~Short(e)
  <2>1. ~(Cardinality(heard[e]) < Enough(e))
    BY <1>2, <1>4, <1>6
  <2>2. ASSUME EventOf(e).k = 0, NEW i \in 0 .. EventOf(e).count - 1, i \notin heard[e] PROVE FALSE
    <3>1. Cardinality(N) < n
      BY <1>4, <1>6, <2>2
    <3>2. Enough(e) = n
      BY <1>4, <2>2 DEF Enough
    <3> QED BY <1>4, <2>1, <3>1, <3>2
  <2> QED BY <2>1, <2>2 DEF Short
<1>8. ~Collected(e)
  <2> SUFFICES ASSUME Collected(e) PROVE FALSE
    OBVIOUS
  <2>1. handle # KeyOf(conf, e)
    BY LiveIsNotNone DEF Collected
  <2>2. Cardinality(heard[e]) < Enough(e)
    BY <2>1, CollectedIsPart
  <2> QED BY <1>2, <1>4, <1>6, <2>2
<1>9. Done(e)
  BY <1>3, <1>7, <1>8 DEF WholeInv
<1>10. received[e] # 0
  BY <1>1, <1>9 DEF Done
<1> QED BY <1>1, <1>10

-----------------------------------------------------------------------------
(* The theorems.                                                           *)

\* The place that the defragmenter computes for the next fragment, from its number
\* and the number of all of them, is where the fragmenter stands after it has added
\* up the fragments it has sent, for any length of the event and all lengths of
\* the header.
THEOREM CountsAgree == Spec => []BothCountAlike
<1>1. CountInv => BothCountAlike
  BY DEF CountInv, PlacedInv, BothCountAlike, Stands, Placed, RoomFor, EventOf
<1> QED BY <1>1, CountInvariant, PTL

\* A fragment on the network is the part of its event that its number stands for:
\* but the last they fill the payload behind a header of their number, which
\* put_fragment asserts, and together they are the event.
THEOREM FragmentsArePartsOfEvents == Spec => []NetInv
<1>1. CountInv => NetInv
  BY DEF CountInv
<1> QED BY <1>1, CountInvariant, PTL

\* With parts that fit each other no assertion of the defragmentation code fails,
\* whatever the network loses, repeats and reorders and however often the
\* demultiplexer cleans: a fragment gets to a defragmenter of its event that waits
\* for it and has the length its place asks for, the queue of outdated numbers has
\* room, and what the queue and the handle name is still kept.
THEOREM AssertionsNeverFail == (\A c \in Configs : Suited(c)) => (Spec => []AssertionsHold)
<1> SUFFICES ASSUME \A c \in Configs : Suited(c) PROVE Spec => []AssertionsHold
  OBVIOUS
<1> DEFINE Inv == CountInv /\ ReceiverInv
<1>1. Init => Inv
  BY InitCounts, InitReceives
<1>2. Inv /\ [Next]_vars => Inv'
  <2> SUFFICES ASSUME Inv, [Next]_vars PROVE Inv'
    OBVIOUS
  <2>1. Suited(conf)
    BY DEF CountInv, TypeInv
  <2> QED BY <2>1, NextKeepsCounts, NextReceives
<1>3. Inv => AssertionsHold
  BY ReceiverHolds
<1> HIDE DEF Inv
<1> QED BY <1>1, <1>2, <1>3, PTL DEF Spec

\* With parts that fit each other, and event numbers, subjects and a duplicate check
\* where the network asks for them, the subscriber gets whole events, each at most
\* once and none that was not published: whatever is lost, repeated and reordered,
\* what a defragmenter calls complete is one event, and no fragment that comes late
\* makes up an event once more.
THEOREM AFPImplementsTransfer ==
    (\A c \in Configs : Suited(c) /\ Separated(c)) => (Spec => ImplementsTransfer)
<1> SUFFICES ASSUME \A c \in Configs : Suited(c) /\ Separated(c) PROVE Spec => ImplementsTransfer
  OBVIOUS
<1> DEFINE Inv == CountInv /\ ReceiverInv /\ TransportInv /\ DataInv
<1>1. Init => Inv
  BY InitCounts, InitReceives, InitTransports, InitData
<1>2. ASSUME Inv, [Next]_vars
      PROVE  Inv' /\ [Transfer!Next]_<<{e \in Events : IsPublished(e)}, received, corrupt>>
  <2>1. Suited(conf) /\ Separated(conf)
    BY <1>2 DEF CountInv, TypeInv
  <2>2. CountInv' /\ ReceiverInv' /\ TransportInv'
    BY <1>2, <2>1, NextKeepsCounts, NextReceives, NextTransports
  <2>3. DataInv' /\ Brings
    BY <1>2, <2>1, <2>2, NextKeepsData
  <2> QED BY <1>2, <2>2, <2>3, StepImplementsTransfer
<1>3. Inv /\ [Next]_vars => Inv'
  BY <1>2
<1>4. Inv /\ [Next]_vars => [Transfer!Next]_<<{e \in Events : IsPublished(e)}, received, corrupt>>
  BY <1>2
<1>5. Init => Transfer!Init
  BY InitImplementsTransfer
<1> HIDE DEF Inv
<1> QED BY <1>1, <1>3, <1>4, <1>5, PTL DEF Spec, ImplementsTransfer, Transfer!Spec

\* In configurations that besides expect what their network does (Adequate), an event
\* of which enough fragments arrived is handed on or still kept: no refused, late or
\* repeated fragment, no cleaning and no other event costs a fragment of it.
THEOREM EnoughArrivesWhole ==
    (\A c \in Configs : Suited(c) /\ Separated(c) /\ Adequate(c)) => (Spec => []EnoughIsDelivered)
<1> SUFFICES ASSUME \A c \in Configs : Suited(c) /\ Separated(c) /\ Adequate(c)
             PROVE  Spec => []EnoughIsDelivered
  OBVIOUS
<1> DEFINE Inv == CountInv /\ ReceiverInv /\ TransportInv /\ DataInv /\ WholeInv
<1>1. Init => Inv
  BY InitCounts, InitReceives, InitTransports, InitData, InitWhole
<1>2. ASSUME Inv, [Next]_vars PROVE Inv'
  <2>1. Suited(conf) /\ Separated(conf) /\ Adequate(conf)
    BY <1>2 DEF CountInv, TypeInv
  <2>2. CountInv' /\ ReceiverInv' /\ TransportInv'
    BY <1>2, <2>1, NextKeepsCounts, NextReceives, NextTransports
  <2>3. DataInv'
    BY <1>2, <2>1, <2>2, NextKeepsData
  <2>4. WholeInv'
    BY <1>2, <2>1, NextKeepsWhole
  <2> QED BY <2>2, <2>3, <2>4
<1>3. Inv /\ [Next]_vars => Inv'
  BY <1>2
<1>4. Inv => EnoughIsDelivered
  BY WholeIsDelivered
<1> HIDE DEF Inv
<1> QED BY <1>1, <1>3, <1>4, PTL DEF Spec
=============================================================================
