--------------------------- MODULE RealTimeProofs ---------------------------
(***************************************************************************)
(* Theorems about the two parts of the real-time channels.                 *)
(*                                                                         *)
(* The queue of the task dispatcher stays sorted and without duplicates,   *)
(* keeps its tasks, and starts none early, for any tasks, periods, starts  *)
(* and delays; and no task is due farther away than its period and delays  *)
(* of the clock allow.                                                     *)
(*                                                                         *)
(* The temporal firewall, for every number of events: its types, and, for  *)
(* the POSIX class, its promises under either discipline that keeps a      *)
(* second write from beginning during a read: the writer preempts the      *)
(* reader and runs to completion, or it waits for the reader to take an    *)
(* earlier event.                                                          *)
(***************************************************************************)
EXTENDS TaskDispatcher, TemporalFirewall, WellFoundedInduction, TLAPS

-----------------------------------------------------------------------------
(* The first and the last of some places of a queue.                       *)

LEMMA MinOf ==
  ASSUME NEW T \in SUBSET Nat, T # {}
  PROVE  Min(T) \in T /\ \A y \in T : Min(T) <= y
<1> DEFINE R == {p \in Nat \X Nat : p[1] < p[2]}
<1>1. IsWellFoundedOn(R, Nat)
  BY NatLessThanWellFounded DEF OpToRel
<1>2. PICK x \in T : \A y \in T : <<y, x>> \notin R
  <2> HIDE DEF R
  <2> QED BY <1>1, WFMin, Zenon
<1>3. \A y \in T : x <= y
  <2> TAKE y \in T
  <2>1. x \in Nat /\ y \in Nat /\ <<y, x>> \notin R
    BY <1>2
  <2> QED BY <2>1
<1> QED BY <1>3 DEF Min

LEMMA MaxOf ==
  ASSUME NEW hi \in Int, NEW T \in SUBSET (0 .. hi), T # {}
  PROVE  Max(T) \in T /\ \A y \in T : Max(T) >= y
<1> DEFINE D == {hi - y : y \in T}
<1>1. \A y \in T : y \in Nat /\ hi - y \in Nat /\ hi - y \in D
  OBVIOUS
<1>2. D \in SUBSET Nat /\ D # {}
  BY <1>1
<1>3. Min(D) \in D /\ \A e \in D : Min(D) <= e
  <2> HIDE DEF D
  <2> QED BY <1>2, MinOf
<1>4. PICK x \in T : Min(D) = hi - x
  BY <1>3
<1>5. \A y \in T : hi - x <= hi - y
  BY <1>1, <1>3, <1>4
<1>6. \A y \in T : x >= y
  BY <1>1, <1>5
<1> HIDE DEF D
<1> QED BY <1>6 DEF Max

-----------------------------------------------------------------------------
(* Queues of tasks.                                                        *)

In(q, t) == \E i \in 1 .. Len(q) : q[i] = t

\* A queue that is sorted by the starts in dues, and has no task twice.
Ordered(q, dues) ==
    \A i, j \in 1 .. Len(q) : i < j => dues[q[i]] <= dues[q[j]] /\ q[i] # q[j]

\* r is q with e inserted behind the first m elements.
HasInserted(r, q, m, e) ==
    /\ Len(r) = Len(q) + 1
    /\ \A i \in 1 .. m : r[i] = q[i]
    /\ r[m + 1] = e
    /\ \A i \in m + 2 .. Len(q) + 1 : r[i] = q[i - 1]

LEMMA InsertAtPlaces ==
  ASSUME NEW q \in Seq(Tasks), NEW m \in 0 .. Len(q), NEW e \in Tasks
  PROVE  InsertAt(q, m + 1, e) \in Seq(Tasks) /\ HasInserted(InsertAt(q, m + 1, e), q, m, e)
<1> DEFINE a == SubSeq(q, 1, m)
           b == SubSeq(q, m + 1, Len(q))
<1>1. a \in Seq(Tasks) /\ Len(a) = m /\ \A i \in 1 .. m : a[i] = q[i]
  OBVIOUS
<1>2. b \in Seq(Tasks) /\ Len(b) = Len(q) - m /\ \A i \in 1 .. Len(q) - m : b[i] = q[m + i]
  OBVIOUS
<1>3. InsertAt(q, m + 1, e) = a \o <<e>> \o b
  <2>1. (m + 1) - 1 = m
    OBVIOUS
  <2>2. InsertAt(q, m + 1, e) = SubSeq(q, 1, (m + 1) - 1) \o <<e>> \o SubSeq(q, m + 1, Len(q))
    BY DEF InsertAt
  <2> QED BY <2>1, <2>2
<1> HIDE DEF a, b
<1>4. a \o <<e>> \in Seq(Tasks) /\ Len(a \o <<e>>) = m + 1
      /\ (\A i \in 1 .. m : (a \o <<e>>)[i] = a[i]) /\ (a \o <<e>>)[m + 1] = e
  BY <1>1
<1> DEFINE c == a \o <<e>>
<1> HIDE DEF c
<1>5. c \in Seq(Tasks) /\ Len(c) = m + 1 /\ (\A i \in 1 .. m : c[i] = a[i]) /\ c[m + 1] = e
  BY <1>4 DEF c
<1>6. /\ c \o b \in Seq(Tasks) /\ Len(c \o b) = Len(q) + 1
      /\ \A i \in 1 .. m + 1 : (c \o b)[i] = c[i]
      /\ \A i \in m + 2 .. Len(q) + 1 : (c \o b)[i] = b[i - (m + 1)]
  BY <1>2, <1>5
<1>7. \A i \in m + 2 .. Len(q) + 1 : b[i - (m + 1)] = q[i - 1]
  <2> TAKE i \in m + 2 .. Len(q) + 1
  <2>1. i - (m + 1) \in 1 .. Len(q) - m /\ m + (i - (m + 1)) = i - 1
    OBVIOUS
  <2> QED BY <2>1, <1>2
<1>8. InsertAt(q, m + 1, e) = c \o b
  BY <1>3 DEF c
<1>9. 1 .. m \subseteq 1 .. m + 1 /\ m + 1 \in 1 .. m + 1
  OBVIOUS
<1> DEFINE r == InsertAt(q, m + 1, e)
<1>10. r \in Seq(Tasks) /\ Len(r) = Len(q) + 1
  BY <1>6, <1>8
<1>11. (\A i \in 1 .. m : r[i] = q[i]) /\ r[m + 1] = e
  BY <1>1, <1>5, <1>6, <1>8, <1>9
<1>12. \A i \in m + 2 .. Len(q) + 1 : r[i] = q[i - 1]
  BY <1>6, <1>7, <1>8
<1> HIDE DEF r
<1>13. HasInserted(r, q, m, e)
  BY <1>10, <1>11, <1>12 DEF HasInserted
<1> QED BY <1>10, <1>13 DEF r

\* The place insert_task finds is behind all earlier starts and before all others.
LEMMA PlaceFound ==
  ASSUME NEW q \in Seq(Tasks), NEW dues \in [Tasks -> Int], NEW t \in Tasks,
         Ordered(q, dues)
  PROVE  \E m \in 0 .. Len(q) :
            /\ Inserted(q, dues, t) = InsertAt(q, m + 1, t)
            /\ \A j \in 1 .. m : dues[q[j]] < dues[t]
            /\ \A j \in m + 1 .. Len(q) : dues[t] <= dues[q[j]]
<1> DEFINE earlier == {i \in 0 .. Len(q) : \A j \in 1 .. i : dues[q[j]] < dues[t]}
           m == Max(earlier)
<1>1. 0 \in earlier
  OBVIOUS
<1>2. m \in earlier /\ \A i \in earlier : m >= i
  <2>1. earlier \in SUBSET (0 .. Len(q)) /\ earlier # {}
    BY <1>1
  <2>2. Len(q) \in Int
    OBVIOUS
  <2> HIDE DEF earlier
  <2> QED BY <2>1, <2>2, MaxOf
<1>3. Inserted(q, dues, t) = InsertAt(q, m + 1, t)
  BY DEF Inserted
<1> HIDE DEF m
<1>4. m \in 0 .. Len(q) /\ \A j \in 1 .. m : dues[q[j]] < dues[t]
  BY <1>2
<1>5. ASSUME NEW j \in m + 1 .. Len(q) PROVE dues[t] <= dues[q[j]]
  <2>1. j \in 1 .. Len(q) /\ m + 1 \in 1 .. Len(q) /\ m + 1 <= j
    BY <1>4
  <2>2. q[j] \in Tasks /\ q[m + 1] \in Tasks
    BY <2>1
  <2>3. m + 1 \notin earlier
    <3> HIDE DEF earlier
    <3> QED BY <1>2, <1>4
  <2>4. ~(dues[q[m + 1]] < dues[t])
    BY <1>4, <2>1, <2>3
  <2>5. dues[q[m + 1]] <= dues[q[j]]
    BY <2>1, <2>2 DEF Ordered
  <2> QED BY <2>2, <2>4, <2>5
<1> QED BY <1>3, <1>4, <1>5

\* A task that is inserted with its start is one more in a queue that is as sorted.
LEMMA InsertKeepsOrder ==
  ASSUME NEW q \in Seq(Tasks), NEW dues \in [Tasks -> Int], NEW t \in Tasks,
         Ordered(q, dues), ~In(q, t)
  PROVE  /\ Inserted(q, dues, t) \in Seq(Tasks)
         /\ Ordered(Inserted(q, dues, t), dues)
         /\ \A u \in Tasks : In(Inserted(q, dues, t), u) <=> In(q, u) \/ u = t
<1>1. PICK m \in 0 .. Len(q) :
            /\ Inserted(q, dues, t) = InsertAt(q, m + 1, t)
            /\ \A j \in 1 .. m : dues[q[j]] < dues[t]
            /\ \A j \in m + 1 .. Len(q) : dues[t] <= dues[q[j]]
  BY PlaceFound
<1> DEFINE r == Inserted(q, dues, t)
<1>n. m \in Nat /\ Len(q) \in Nat /\ m <= Len(q)
  OBVIOUS
<1>2. /\ r \in Seq(Tasks) /\ Len(r) = Len(q) + 1
      /\ \A i \in 1 .. m : r[i] = q[i]
      /\ r[m + 1] = t
      /\ \A i \in m + 2 .. Len(q) + 1 : r[i] = q[i - 1]
  <2>1. r = InsertAt(q, m + 1, t)
    BY <1>1
  <2> HIDE DEF r
  <2>2. r \in Seq(Tasks) /\ HasInserted(r, q, m, t)
    BY <2>1, InsertAtPlaces
  <2> QED BY <2>2 DEF HasInserted
<1> HIDE DEF r
<1>3. \A i \in 1 .. Len(q) : q[i] \in Tasks /\ q[i] # t
  BY DEF In
<1>4. Ordered(r, dues)
  <2> SUFFICES ASSUME NEW i \in 1 .. Len(r), NEW j \in 1 .. Len(r), i < j
               PROVE  dues[r[i]] <= dues[r[j]] /\ r[i] # r[j]
    BY DEF Ordered
  <2>1. CASE j <= m
    <3>1. i \in 1 .. m /\ j \in 1 .. m /\ i \in 1 .. Len(q) /\ j \in 1 .. Len(q)
      BY <1>n, <2>1
    <3>2. r[i] = q[i] /\ r[j] = q[j]
      BY <1>2, <3>1
    <3> QED BY <3>1, <3>2 DEF Ordered
  <2>2. CASE i <= m /\ j = m + 1
    <3>1. r[i] = q[i] /\ r[j] = t /\ i \in 1 .. Len(q) /\ i \in 1 .. m
      BY <1>2, <1>n, <2>2
    <3> QED BY <1>1, <1>3, <3>1
  <2>3. CASE i <= m /\ j > m + 1
    <3>1. i \in 1 .. m /\ i < j - 1 /\ j - 1 \in 1 .. Len(q) /\ i \in 1 .. Len(q)
          /\ j \in m + 2 .. Len(q) + 1
      BY <1>2, <1>n, <2>3
    <3>2. r[i] = q[i] /\ r[j] = q[j - 1]
      BY <1>2, <3>1
    <3> QED BY <3>1, <3>2 DEF Ordered
  <2>4. CASE i = m + 1 /\ j > m + 1
    <3>1. r[i] = t /\ r[j] = q[j - 1] /\ j - 1 \in m + 1 .. Len(q) /\ j - 1 \in 1 .. Len(q)
      BY <1>2, <1>n, <2>4
    <3> QED BY <1>1, <1>3, <3>1
  <2>5. CASE i > m + 1
    <3>1. /\ i - 1 < j - 1 /\ i - 1 \in 1 .. Len(q) /\ j - 1 \in 1 .. Len(q)
          /\ i \in m + 2 .. Len(q) + 1 /\ j \in m + 2 .. Len(q) + 1
      <4>1. i \in Nat /\ j \in Nat /\ j <= Len(q) + 1 /\ i < j /\ i > m + 1
        BY <1>2, <1>n, <2>5
      <4> QED BY <4>1, <1>n
    <3>2. r[i] = q[i - 1] /\ r[j] = q[j - 1]
      BY <1>2, <3>1
    <3>3. dues[q[i - 1]] <= dues[q[j - 1]] /\ q[i - 1] # q[j - 1]
      BY <3>1 DEF Ordered
    <3> QED BY <3>2, <3>3
  <2> QED BY <2>1, <2>2, <2>3, <2>4, <2>5, <1>2, <1>n
<1>5. ASSUME NEW u \in Tasks PROVE In(r, u) <=> In(q, u) \/ u = t
  <2>1. ASSUME In(r, u) PROVE In(q, u) \/ u = t
    <3>1. PICK i \in 1 .. Len(r) : r[i] = u
      BY <2>1 DEF In
    <3>2. CASE i <= m
      <4>1. i \in 1 .. m /\ i \in 1 .. Len(q)
        BY <3>2, <1>n
      <4>2. q[i] = u
        BY <4>1, <1>2, <3>1
      <4> QED BY <4>1, <4>2 DEF In
    <3>3. CASE i = m + 1
      BY <1>2, <3>1, <3>3
    <3>4. CASE i > m + 1
      <4>1. i - 1 \in 1 .. Len(q) /\ q[i - 1] = u
        BY <1>2, <1>n, <3>1, <3>4
      <4> QED BY <4>1 DEF In
    <3> QED BY <3>2, <3>3, <3>4, <1>2, <1>n
  <2>2. ASSUME In(q, u) PROVE In(r, u)
    <3>1. PICK i \in 1 .. Len(q) : q[i] = u
      BY <2>2 DEF In
    <3>2. CASE i <= m
      <4>1. i \in 1 .. m /\ i \in 1 .. Len(r)
        BY <1>2, <1>n, <3>1, <3>2
      <4>2. r[i] = u
        BY <4>1, <1>2, <3>1
      <4> QED BY <4>1, <4>2 DEF In
    <3>3. CASE i > m
      <4>1. i + 1 \in m + 2 .. Len(q) + 1 /\ i + 1 \in 1 .. Len(r)
        BY <1>2, <1>n, <3>1, <3>3
      <4>2. (i + 1) - 1 = i
        BY <3>1
      <4>3. r[i + 1] = u
        BY <1>2, <3>1, <4>1, <4>2
      <4> QED BY <4>1, <4>3 DEF In
    <3> QED BY <3>1, <3>2, <3>3, <1>n
  <2>3. In(r, t)
    <3>1. m + 1 \in 1 .. Len(r)
      BY <1>2
    <3> QED BY <3>1, <1>2 DEF In
  <2> QED BY <2>1, <2>2, <2>3
<1> QED BY <1>2, <1>4, <1>5 DEF r

\* What is left when a task and all before it are unlinked.
LEMMA RestIsOrdered ==
  ASSUME NEW q \in Seq(Tasks), NEW dues \in [Tasks -> Int], Ordered(q, dues),
         NEW k \in 1 .. Len(q)
  PROVE  /\ SubSeq(q, k + 1, Len(q)) \in Seq(Tasks)
         /\ Ordered(SubSeq(q, k + 1, Len(q)), dues)
         /\ \A u : In(SubSeq(q, k + 1, Len(q)), u) => In(q, u) /\ u # q[k]
<1> DEFINE r == SubSeq(q, k + 1, Len(q))
<1>1. r \in Seq(Tasks) /\ Len(r) = Len(q) - k /\ \A i \in 1 .. Len(q) - k : r[i] = q[k + i]
  OBVIOUS
<1> HIDE DEF r
<1>2. \A i \in 1 .. Len(r) : k + i \in 1 .. Len(q) /\ k < k + i
  BY <1>1
<1>3. Ordered(r, dues)
  <2> SUFFICES ASSUME NEW i \in 1 .. Len(r), NEW j \in 1 .. Len(r), i < j
               PROVE  dues[r[i]] <= dues[r[j]] /\ r[i] # r[j]
    BY DEF Ordered
  <2>1. r[i] = q[k + i] /\ r[j] = q[k + j] /\ k + i < k + j
    BY <1>1
  <2>2. k + i \in 1 .. Len(q) /\ k + j \in 1 .. Len(q)
    BY <1>2
  <2> QED BY <2>1, <2>2 DEF Ordered
<1>4. ASSUME NEW u, In(r, u) PROVE In(q, u) /\ u # q[k]
  <2>1. PICK i \in 1 .. Len(r) : r[i] = u
    BY <1>4 DEF In
  <2>2. u = q[k + i] /\ k + i \in 1 .. Len(q) /\ k < k + i
    BY <2>1, <1>1, <1>2
  <2> QED BY <2>2 DEF In, Ordered
<1> QED BY <1>1, <1>3, <1>4 DEF r

\* The first one alone.
LEMMA TailIsRest ==
  ASSUME NEW q \in Seq(Tasks), q # <<>>
  PROVE  /\ 1 \in 1 .. Len(q) /\ Head(q) = q[1] /\ Head(q) \in Tasks
         /\ Tail(q) = SubSeq(q, 1 + 1, Len(q))
         /\ \A u : In(q, u) => u = Head(q) \/ In(Tail(q), u)
<1>1. Len(q) >= 1 /\ Head(q) = q[1] /\ Tail(q) = SubSeq(q, 2, Len(q))
  OBVIOUS
<1>2. Len(Tail(q)) = Len(q) - 1 /\ \A i \in 1 .. Len(q) - 1 : Tail(q)[i] = q[i + 1]
  OBVIOUS
<1>3. ASSUME NEW u, In(q, u), u # Head(q) PROVE In(Tail(q), u)
  <2>1. PICK i \in 1 .. Len(q) : q[i] = u
    BY <1>3 DEF In
  <2>2. i - 1 \in 1 .. Len(q) - 1 /\ i - 1 + 1 = i
    BY <2>1, <1>1, <1>3
  <2>3. Tail(q)[i - 1] = u
    BY <2>1, <2>2, <1>2
  <2> QED BY <2>2, <2>3, <1>2 DEF In
<1> QED BY <1>1, <1>3

-----------------------------------------------------------------------------
(* The tasks being executed.                                               *)

Execution == [task : Tasks, yielding : BOOLEAN]

Runs(stack, t) == \E i \in 1 .. Len(stack) : stack[i].task = t
NoneTwice(stack) ==
    \A i, j \in 1 .. Len(stack) : stack[i].task = stack[j].task => i = j

LEMMA Push ==
  ASSUME NEW stack \in Seq(Execution), NEW t \in Tasks, NoneTwice(stack), ~Runs(stack, t)
  PROVE  LET after == Append(stack, [task |-> t, yielding |-> FALSE]) IN
         /\ after \in Seq(Execution) /\ NoneTwice(after) /\ after # <<>>
         /\ \A u : Runs(after, u) <=> Runs(stack, u) \/ u = t
         /\ \A i \in 1 .. Len(after) : after[i].yielding => i \in 1 .. Len(stack) /\ stack[i].yielding
<1> DEFINE e == [task |-> t, yielding |-> FALSE]
           after == Append(stack, e)
<1>1. e \in Execution /\ e.task = t /\ e.yielding = FALSE
  BY DEF Execution
<1> HIDE DEF e
<1>2. /\ after \in Seq(Execution) /\ after # <<>> /\ Len(after) = Len(stack) + 1
      /\ \A i \in 1 .. Len(stack) : after[i] = stack[i]
      /\ after[Len(stack) + 1] = e
  BY <1>1
<1>3. \A i \in 1 .. Len(after) : i \in 1 .. Len(stack) \/ i = Len(stack) + 1
  BY <1>2
<1> HIDE DEF after
<1>4. NoneTwice(after)
  BY <1>1, <1>2, <1>3 DEF NoneTwice, Runs
<1>5. ASSUME NEW u PROVE Runs(after, u) <=> Runs(stack, u) \/ u = t
  <2>1. Len(stack) + 1 \in 1 .. Len(after) /\ 1 .. Len(stack) \subseteq 1 .. Len(after)
    BY <1>2
  <2> QED BY <1>1, <1>2, <1>3, <2>1 DEF Runs
<1>6. \A i \in 1 .. Len(after) : after[i].yielding => i \in 1 .. Len(stack) /\ stack[i].yielding
  BY <1>1, <1>2, <1>3
<1> QED BY <1>2, <1>4, <1>5, <1>6 DEF after, e

LEMMA Pop ==
  ASSUME NEW stack \in Seq(Execution), stack # <<>>, NoneTwice(stack)
  PROVE  /\ Front(stack) \in Seq(Execution) /\ NoneTwice(Front(stack))
         /\ Last(stack) \in Execution /\ Runs(stack, Last(stack).task)
         /\ \A u : Runs(Front(stack), u) <=> Runs(stack, u) /\ u # Last(stack).task
         /\ \A i \in 1 .. Len(Front(stack)) :
               i \in 1 .. Len(stack) /\ Front(stack)[i] = stack[i]
         /\ Front(stack) = <<>> <=> Len(stack) = 1
<1> DEFINE f == Front(stack)
           n == Len(stack)
<1>0. n \in Nat \ {0} /\ n - 1 \in 0 .. n
  OBVIOUS
<1>1. /\ n \in Nat \ {0} /\ f \in Seq(Execution) /\ Len(f) = n - 1
      /\ \A i \in 1 .. n - 1 : f[i] = stack[i]
  <2> DEFINE k == n - 1
  <2>1. k \in 0 .. n /\ f = SubSeq(stack, 1, k)
    BY <1>0 DEF Front
  <2> HIDE DEF k, f
  <2>2. f \in Seq(Execution) /\ Len(f) = k /\ \A i \in 1 .. k : f[i] = stack[i]
    BY <2>1
  <2> QED BY <1>0, <2>2 DEF k
<1>2. Last(stack) = stack[n] /\ stack[n] \in Execution /\ n \in 1 .. n
  BY <1>1 DEF Last
<1>3. f = <<>> <=> n = 1
  BY <1>1
<1> HIDE DEF f
<1>4. \A i \in 1 .. n - 1 : i \in 1 .. n /\ i # n
  BY <1>1
<1>5. \A i \in 1 .. n : i \in 1 .. n - 1 \/ i = n
  BY <1>1
<1> HIDE DEF n
<1>6. NoneTwice(f)
  BY <1>1, <1>4 DEF NoneTwice, n
<1>7. Runs(stack, stack[n].task)
  BY <1>2 DEF Runs, n
<1>8. ASSUME NEW u PROVE Runs(f, u) <=> Runs(stack, u) /\ u # stack[n].task
  BY <1>1, <1>2, <1>4, <1>5 DEF Runs, NoneTwice, n
<1> QED BY <1>1, <1>2, <1>3, <1>4, <1>6, <1>7, <1>8 DEF f, n

LEMMA Mark ==
  ASSUME NEW stack \in Seq(Execution), stack # <<>>, NEW b \in BOOLEAN
  PROVE  LET after == [stack EXCEPT ![Len(stack)].yielding = b] IN
         /\ after \in Seq(Execution) /\ Len(after) = Len(stack)
         /\ \A i \in 1 .. Len(stack) : after[i].task = stack[i].task
         /\ ~b => \A i \in 1 .. Len(stack) : after[i].yielding => stack[i].yielding
<1> DEFINE n == Len(stack)
           e == [stack[n] EXCEPT !.yielding = b]
           after == [stack EXCEPT ![n] = e]
<1>1. n \in 1 .. n /\ stack[n] \in Execution /\ n \in Nat
  OBVIOUS
<1>2. e \in Execution /\ e.task = stack[n].task /\ e.yielding = b
  BY <1>1 DEF Execution
<1> HIDE DEF e
<1>3. after \in Seq(Execution) /\ Len(after) = n
      /\ \A i \in 1 .. n : after[i] = IF i = n THEN e ELSE stack[i]
  BY <1>1, <1>2
<1> HIDE DEF after
<1>4. /\ \A i \in 1 .. n : after[i].task = stack[i].task
      /\ ~b => \A i \in 1 .. n : after[i].yielding => stack[i].yielding
  BY <1>2, <1>3
<1> QED BY <1>3, <1>4 DEF after, e

-----------------------------------------------------------------------------
(* The inductive invariant.                                                *)

\* The network scheduler does not start a delivery again that it has stopped.
NotStartedAgain == \A u \in Usages : u.stops # "again"

Types ==
    /\ usage \in Usages
    /\ tasks \in Seq(Tasks)
    /\ due \in [Tasks -> Int]
    /\ phase \in {"startup", "wait", "sleep", "unlink"}
    /\ wake \in Int
    /\ active \in Seq(Execution)
    /\ reservation_state \in [Publishers -> {"NoReservation", "Unused", "Delivering"}]
    /\ enqueued \in SUBSET {t \in Tasks : Period[t] > 0}

\* A delivery that has not been started is nowhere.
NotStarted(p) == \/ reservation_state[p] = "NoReservation"
                 \/ Stops = "never" /\ reservation_state[p] = "Unused"

Places ==
    /\ Ordered(tasks, due)
    /\ NoneTwice(active)
    /\ \A t \in Tasks : ~(In(tasks, t) /\ Runs(active, t))
    /\ \A p \in Publishers : NotStarted(p) => ~In(tasks, p) /\ ~Runs(active, p)

Kept == ~Yields =>
    /\ \A t \in enqueued : In(tasks, t) \/ Runs(active, t)
    /\ \A i \in 1 .. Len(active) : ~active[i].yielding

\* When run() takes a task its start has come, or another context has put it there.
InTime ==
    /\ Executing => phase = "unlink"
    /\ ~Asynchronous /\ tasks # <<>> =>
          /\ phase = "sleep" => due[Head(tasks)] <= wake \/ due[Head(tasks)] <= 0
          /\ phase = "unlink" /\ ~Executing => due[Head(tasks)] <= 0

Inv == Types /\ Places /\ Kept /\ InTime

LEMMA Constants ==
  /\ \A t \in Tasks : Period[t] \in Nat
  /\ \A p \in Publishers : p \in Tasks /\ Period[p] > 0
  /\ \A s \in Starts : s \in Int
  /\ Lead \in Int
  /\ \A t \in Subscribers \cup Background : t \in Tasks /\ t \notin Publishers
  /\ \A u \in Usages : u.stops \in {"never", "once", "again"}
BY TasksAssumption DEF Tasks, Realtime, Usage

LEMMA FuturifyIsInt ==
  ASSUME NEW start \in Int, NEW period \in Nat, period > 0, NEW current \in Int
  PROVE  Futurify(start, period, current) \in Int
<1>1. CASE start < current
  <2>1. current - start \in Nat /\ period \in Nat \ {0}
    BY <1>1
  <2>2. (current - start) \div period \in Nat
    BY <2>1
  <2> DEFINE k == (current - start) \div period
  <2> HIDE DEF k
  <2>3. Futurify(start, period, current) = start + (k + 1) * period
    BY <1>1 DEF Futurify, k
  <2>4. k \in Nat
    BY <2>2 DEF k
  <2>5. (k + 1) * period \in Int
    BY <2>4
  <2> QED BY <2>3, <2>5
<1>2. CASE ~(start < current)
  BY <1>2 DEF Futurify
<1> QED BY <1>1, <1>2

LEMMA ListedIsIn == \A t : (Listed(t) <=> In(tasks, t)) /\ (Running(t) <=> Runs(active, t))
BY DEF Listed, In, Running, Runs

LEMMA InitHolds == Init => Inv
<1> SUFFICES ASSUME Init PROVE Inv
  OBVIOUS
<1>1. tasks = <<>> /\ active = <<>> /\ Len(tasks) = 0 /\ Len(active) = 0
  BY DEF Init
<1>2. Types
  BY <1>1 DEF Init, Types
<1>3. Places
  BY <1>1 DEF Init, Places, Ordered, NoneTwice, In, Runs
<1>4. Kept /\ InTime
  BY <1>1 DEF Init, Kept, InTime, Executing
<1> QED BY <1>2, <1>3, <1>4 DEF Inv

-----------------------------------------------------------------------------
(* insert_task and enqueue.                                                *)

LEMMA InsertFacts ==
  ASSUME Types, Ordered(tasks, due), NEW t \in Tasks, ~In(tasks, t), NEW start \in Int,
         Insert(t, start)
  PROVE  /\ tasks' \in Seq(Tasks) /\ due' \in [Tasks -> Int] /\ Ordered(tasks', due')
         /\ \A u \in Tasks : In(tasks', u) <=> In(tasks, u) \/ u = t
<1>1. due' = [due EXCEPT ![t] = start] /\ tasks' = Inserted(tasks, due', t)
  BY DEF Insert
<1>2. due' \in [Tasks -> Int] /\ \A u \in Tasks : u # t => due'[u] = due[u]
  BY <1>1 DEF Types
<1>3. tasks \in Seq(Tasks) /\ \A i \in 1 .. Len(tasks) : tasks[i] \in Tasks /\ tasks[i] # t
  BY DEF Types, In
<1>4. Ordered(tasks, due')
  BY <1>2, <1>3 DEF Ordered
<1> QED BY <1>1, <1>2, <1>3, <1>4, InsertKeepsOrder

LEMMA EnqueueFacts ==
  ASSUME Types, Ordered(tasks, due), NEW t \in Tasks, ~In(tasks, t), NEW start \in Int,
         Enqueue(t, start)
  PROVE  /\ tasks' \in Seq(Tasks) /\ due' \in [Tasks -> Int] /\ Ordered(tasks', due')
         /\ \A u \in Tasks : In(tasks', u) <=> In(tasks, u) \/ u = t
         /\ enqueued' \in SUBSET {u \in Tasks : Period[u] > 0}
         /\ \A u \in enqueued' : u \in enqueued \/ u = t
<1>1. EnqueueStart(t, start) \in Int
  BY Constants, FuturifyIsInt DEF EnqueueStart
<1>2. Insert(t, EnqueueStart(t, start))
  BY DEF Enqueue
<1>3. enqueued' = enqueued \/ (Period[t] > 0 /\ enqueued' = enqueued \cup {t})
  BY DEF Enqueue
<1>4. enqueued' \in SUBSET {u \in Tasks : Period[u] > 0} /\ \A u \in enqueued' : u \in enqueued \/ u = t
  BY <1>3 DEF Types
<1> QED BY <1>1, <1>2, <1>4, InsertFacts

\* Whoever enqueues a task does it while run() is not about to take one.
LEMMA OutsideInTime ==
  ASSUME Inv, OutsideCode, UNCHANGED <<usage, phase, active>>
  PROVE  InTime'
<1>1. Executing => phase = "unlink"
  BY DEF Inv, InTime
<1>2. CASE Asynchronous
  BY <1>1, <1>2 DEF InTime, Asynchronous, Executing
<1>3. CASE phase = "startup"
  BY <1>1, <1>3 DEF InTime, Asynchronous, Executing
<1>4. CASE Executing
  BY <1>1, <1>4 DEF InTime, Asynchronous, Executing
<1> QED BY <1>2, <1>3, <1>4 DEF OutsideCode

-----------------------------------------------------------------------------
(* The steps.                                                              *)

LEMMA EnqueueTaskKeeps ==
  ASSUME Inv, NEW t \in Tasks, EnqueueTask(t) PROVE Inv'
<1> USE ListedIsIn
<1>1. /\ OutsideCode /\ t \in Subscribers \cup Background /\ ~In(tasks, t) /\ ~Runs(active, t)
      /\ UNCHANGED <<usage, phase, wake, active, reservation_state>>
  BY DEF EnqueueTask
<1>2. PICK s \in Starts : Enqueue(t, s)
  BY DEF EnqueueTask
<1>3. Types /\ Places /\ Kept /\ s \in Int
  BY Constants DEF Inv
<1>4. Ordered(tasks, due)
  BY <1>3 DEF Places
<1>5. /\ tasks' \in Seq(Tasks) /\ due' \in [Tasks -> Int] /\ Ordered(tasks', due')
      /\ \A u \in Tasks : In(tasks', u) <=> In(tasks, u) \/ u = t
      /\ enqueued' \in SUBSET {u \in Tasks : Period[u] > 0}
      /\ \A u \in enqueued' : u \in enqueued \/ u = t
  BY <1>1, <1>2, <1>3, <1>4, EnqueueFacts
<1>6. Types'
  BY <1>1, <1>3, <1>5 DEF Types
<1>7. Places'
  <2>1. \A p \in Publishers : p \in Tasks /\ p # t
    BY <1>1, Constants
  <2>2. \A p \in Publishers : NotStarted(p)' <=> NotStarted(p)
    BY <1>1 DEF NotStarted, Stops
  <2> QED BY <1>1, <1>3, <1>5, <2>1, <2>2 DEF Places
<1>8. Kept'
  <2>1. \A u \in enqueued' : u \in Tasks
    BY <1>5
  <2> QED BY <1>1, <1>3, <1>5, <2>1 DEF Kept, Yields
<1>9. InTime'
  BY <1>1, OutsideInTime
<1> QED BY <1>6, <1>7, <1>8, <1>9 DEF Inv

LEMMA ReserveKeeps ==
  ASSUME Inv, NEW p \in Publishers, Reserve(p) PROVE Inv'
<1>1. /\ OutsideCode /\ reservation_state[p] = "NoReservation"
      /\ reservation_state' = [reservation_state EXCEPT ![p] = "Unused"]
      /\ UNCHANGED <<usage, tasks, phase, wake, active, enqueued>>
  BY DEF Reserve
<1>2. PICK s \in Starts : due' = [due EXCEPT ![p] = s]
  BY DEF Reserve
<1>3. Types /\ Places /\ Kept /\ s \in Int /\ p \in Tasks
  BY Constants DEF Inv
<1>4. ~In(tasks, p) /\ ~Runs(active, p)
  BY <1>1, <1>3 DEF Places, NotStarted
<1>5. Types'
  BY <1>1, <1>2, <1>3 DEF Types
<1>6. Places'
  <2>1. \A i \in 1 .. Len(tasks) : tasks[i] \in Tasks /\ tasks[i] # p
    BY <1>3, <1>4 DEF Types, In
  <2>2. \A i \in 1 .. Len(tasks) : due'[tasks[i]] = due[tasks[i]]
    BY <1>2, <1>3, <2>1 DEF Types
  <2>3. Ordered(tasks, due')
    BY <1>3, <2>2 DEF Places, Ordered
  <2>4. \A q \in Publishers : NotStarted(q)' => NotStarted(q) \/ q = p
    BY <1>1, <1>3 DEF NotStarted, Stops, Types
  <2> QED BY <1>1, <1>3, <1>4, <2>3, <2>4 DEF Places
<1>7. Kept'
  BY <1>1, <1>3 DEF Kept, Yields
<1>8. InTime'
  BY <1>1, OutsideInTime
<1> QED BY <1>5, <1>6, <1>7, <1>8 DEF Inv

LEMMA StartDeliveryKeeps ==
  ASSUME NotStartedAgain, Inv, NEW p \in Publishers, StartDelivery(p) PROVE Inv'
<1> USE ListedIsIn
<1>1. /\ OutsideCode /\ reservation_state[p] = "Unused"
      /\ Stops = "once" => ~In(tasks, p) /\ ~Runs(active, p)
      /\ reservation_state' = [reservation_state EXCEPT ![p] = "Delivering"]
      /\ Enqueue(p, Futurify(due[p], Period[p], 0))
      /\ UNCHANGED <<usage, phase, wake, active>>
  BY DEF StartDelivery
<1>2. Types /\ Places /\ Kept /\ p \in Tasks /\ Period[p] \in Nat /\ Period[p] > 0
  BY Constants DEF Inv
<1>3. Futurify(due[p], Period[p], 0) \in Int
  <2>1. due[p] \in Int /\ 0 \in Int
    BY <1>2 DEF Types
  <2> QED BY <1>2, <2>1, FuturifyIsInt
<1>4. ~In(tasks, p) /\ ~Runs(active, p)
  <2>1. Stops \in {"never", "once"}
    BY <1>2, Constants DEF NotStartedAgain, Stops, Types
  <2>2. CASE Stops = "never"
    BY <1>1, <1>2, <2>2 DEF Places, NotStarted
  <2> QED BY <1>1, <2>1, <2>2
<1>5. Ordered(tasks, due)
  BY <1>2 DEF Places
<1>6. /\ tasks' \in Seq(Tasks) /\ due' \in [Tasks -> Int] /\ Ordered(tasks', due')
      /\ \A u \in Tasks : In(tasks', u) <=> In(tasks, u) \/ u = p
      /\ enqueued' \in SUBSET {u \in Tasks : Period[u] > 0}
      /\ \A u \in enqueued' : u \in enqueued \/ u = p
  BY <1>1, <1>2, <1>3, <1>4, <1>5, EnqueueFacts
<1>7. Types'
  BY <1>1, <1>2, <1>6 DEF Types
<1>8. Places'
  <2>1. \A q \in Publishers : NotStarted(q)' => NotStarted(q) /\ q # p /\ q \in Tasks
    BY <1>1, <1>2, Constants DEF NotStarted, Stops, Types
  <2> QED BY <1>1, <1>2, <1>4, <1>6, <2>1 DEF Places
<1>9. Kept'
  <2>1. \A u \in enqueued' : u \in Tasks
    BY <1>6
  <2> QED BY <1>1, <1>2, <1>6, <2>1 DEF Kept, Yields
<1>10. InTime'
  BY <1>1, OutsideInTime
<1> QED BY <1>7, <1>8, <1>9, <1>10 DEF Inv

LEMMA StopDeliveryKeeps ==
  ASSUME Inv, NEW p \in Publishers, StopDelivery(p) PROVE Inv'
<1>1. /\ OutsideCode /\ Stops # "never" /\ reservation_state[p] = "Delivering"
      /\ reservation_state' = [reservation_state EXCEPT ![p] = "Unused"]
      /\ enqueued' = enqueued \ {p}
      /\ UNCHANGED <<usage, tasks, due, phase, wake, active>>
  BY DEF StopDelivery
<1>2. Types /\ Places /\ Kept
  BY DEF Inv
<1>3. Types'
  BY <1>1, <1>2 DEF Types
<1>4. Places'
  <2>1. \A q \in Publishers : NotStarted(q)' => NotStarted(q)
    BY <1>1, <1>2 DEF NotStarted, Stops, Types
  <2> QED BY <1>1, <1>2, <2>1 DEF Places
<1>5. Kept'
  BY <1>1, <1>2 DEF Kept, Yields
<1>6. InTime'
  BY <1>1, OutsideInTime
<1> QED BY <1>3, <1>4, <1>5, <1>6 DEF Inv

\* Without a change to the queue, the tasks being executed and the reservations.
LEMMA SamePlaces ==
  ASSUME Places, UNCHANGED <<usage, tasks, due, active, reservation_state>> PROVE Places'
BY DEF Places, NotStarted, Stops

LEMMA WaitKeeps == ASSUME Inv, Wait \/ Wake PROVE Inv'
<1>1. UNCHANGED <<usage, tasks, due, active, reservation_state, enqueued>>
  BY DEF Wait, Wake
<1>2. tasks # <<>> => Head(tasks) \in Tasks /\ due[Head(tasks)] \in Int
  BY TailIsRest DEF Inv, Types
<1>3. Types'
  BY <1>1, <1>2 DEF Wait, Wake, Inv, Types
<1>4. Places' /\ Kept'
  BY <1>1, SamePlaces DEF Inv, Kept, Yields
<1>5. InTime'
  <2>1. CASE Wait
    BY <1>1, <1>2, <2>1 DEF Wait, Inv, InTime, Executing, Asynchronous
  <2>2. CASE Wake
    <3>1. phase = "sleep" /\ wake <= 0 /\ phase' = "unlink" /\ wake \in Int
      BY <2>2 DEF Wake, Inv, Types
    <3>2. ~Executing
      BY <3>1 DEF Inv, InTime
    <3> QED BY <1>1, <1>2, <3>1, <3>2 DEF Inv, InTime, Executing, Asynchronous
  <2> QED BY <2>1, <2>2
<1> QED BY <1>3, <1>4, <1>5 DEF Inv

\* A task is taken from the queue, or from behind others, and executed.
LEMMA StartKeeps ==
  ASSUME Inv, NEW k \in 1 .. Len(tasks), tasks' = SubSeq(tasks, k + 1, Len(tasks)),
         Start(tasks[k]), phase = "unlink",
         ~Yields => \A u : In(tasks, u) => u = tasks[k] \/ In(tasks', u),
         UNCHANGED <<usage, due, phase, wake, reservation_state, enqueued>>
  PROVE  Inv'
<1> DEFINE t == tasks[k]
<1>1. Types /\ Places /\ Kept /\ t \in Tasks /\ In(tasks, t)
  BY DEF Inv, Types, In
<1>2. ~Runs(active, t) /\ NoneTwice(active)
  BY <1>1 DEF Places
<1>3. active' = Append(active, [task |-> t, yielding |-> FALSE])
  BY DEF Start
<1>4. /\ tasks' \in Seq(Tasks) /\ Ordered(tasks', due)
      /\ \A u : In(tasks', u) => In(tasks, u) /\ u # t
  <2>1. Ordered(tasks, due)
    BY <1>1 DEF Places
  <2> QED BY <1>1, <2>1, RestIsOrdered DEF Types
<1> HIDE DEF t
<1>5. /\ active' \in Seq(Execution) /\ NoneTwice(active') /\ active' # <<>>
      /\ \A u : Runs(active', u) <=> Runs(active, u) \/ u = t
      /\ \A i \in 1 .. Len(active') :
            active'[i].yielding => i \in 1 .. Len(active) /\ active[i].yielding
  BY <1>1, <1>2, <1>3, Push DEF Types
<1>6. Types'
  BY <1>1, <1>4, <1>5 DEF Types
<1>7. Places'
  <2>1. \A q \in Publishers : q \in Tasks /\ (NotStarted(q)' <=> NotStarted(q))
    BY Constants DEF NotStarted, Stops
  <2>2. \A q \in Publishers : NotStarted(q) => q # t
    BY <1>1 DEF Places
  <2> QED BY <1>1, <1>4, <1>5, <2>1, <2>2 DEF Places
<1>8. Kept'
  <2>1. ~Yields => \A u : In(tasks, u) => u = t \/ In(tasks', u)
    BY DEF t
  <2> QED BY <1>1, <1>5, <2>1 DEF Kept, Yields
<1>9. InTime'
  BY <1>5 DEF InTime, Executing
<1> QED BY <1>6, <1>7, <1>8, <1>9 DEF Inv

LEMMA UnlinkKeeps == ASSUME Inv, Unlink PROVE Inv'
<1>1. CASE tasks = <<>>
  <2>1. phase' = "wait" /\ ~Executing
        /\ UNCHANGED <<usage, tasks, active, due, wake, reservation_state, enqueued>>
    BY <1>1 DEF Unlink
  <2>2. Types'
    BY <2>1 DEF Inv, Types
  <2>3. Places' /\ Kept'
    BY <2>1, SamePlaces DEF Inv, Kept, Yields
  <2>4. InTime'
    BY <2>1 DEF InTime, Executing
  <2> QED BY <2>2, <2>3, <2>4 DEF Inv
<1>2. CASE tasks # <<>>
  <2>1. Start(Head(tasks)) /\ tasks' = Tail(tasks) /\ phase = "unlink"
        /\ UNCHANGED <<usage, due, phase, wake, reservation_state, enqueued>>
    BY <1>2 DEF Unlink
  <2>2. /\ 1 \in 1 .. Len(tasks) /\ Head(tasks) = tasks[1]
        /\ Tail(tasks) = SubSeq(tasks, 1 + 1, Len(tasks))
        /\ \A u : In(tasks, u) => u = Head(tasks) \/ In(Tail(tasks), u)
    BY <1>2, TailIsRest DEF Inv, Types
  <2> QED BY <2>1, <2>2, StartKeeps
<1> QED BY <1>1, <1>2

LEMMA FinishKeeps == ASSUME Inv, Finish PROVE Inv'
<1> DEFINE t == Last(active).task
<1>1. /\ active # <<>> /\ active' = Front(active)
      /\ phase' = IF Len(active) = 1 THEN "wait" ELSE phase
      /\ UNCHANGED <<usage, wake, reservation_state, enqueued>>
      /\ IF Period[t] > 0 THEN Insert(t, Restart(t))
         ELSE due' = [due EXCEPT ![t] = 0] /\ UNCHANGED tasks
  BY DEF Finish, Executing, Current
<1>2. Types /\ Places /\ Kept /\ NoneTwice(active) /\ Ordered(tasks, due)
  BY DEF Inv, Places
<1>3. /\ active' \in Seq(Execution) /\ NoneTwice(active')
      /\ Last(active) \in Execution /\ Runs(active, t)
      /\ \A u : Runs(active', u) <=> Runs(active, u) /\ u # t
      /\ \A i \in 1 .. Len(active') : i \in 1 .. Len(active) /\ active'[i] = active[i]
      /\ active' = <<>> <=> Len(active) = 1
  BY <1>1, <1>2, Pop DEF Types
<1>4. t \in Tasks
  BY <1>3 DEF Execution
<1> HIDE DEF t
<1>5. ~In(tasks, t) /\ Period[t] \in Nat
  BY <1>2, <1>3, <1>4, Constants DEF Places
<1>6. /\ tasks' \in Seq(Tasks) /\ due' \in [Tasks -> Int] /\ Ordered(tasks', due')
      /\ \A u \in Tasks : In(tasks', u) <=> In(tasks, u) \/ (u = t /\ Period[t] > 0)
  <2>1. CASE Period[t] > 0
    <3>1. due[t] + Period[t] \in Int /\ 0 \in Int
      BY <1>2, <1>4, <1>5 DEF Types
    <3>2. Restart(t) \in Int
      BY <2>1, <1>5, <3>1, FuturifyIsInt DEF Restart
    <3>3. Insert(t, Restart(t))
      BY <1>1, <2>1
    <3> QED BY <1>2, <1>4, <1>5, <2>1, <3>2, <3>3, InsertFacts
  <2>2. CASE ~(Period[t] > 0)
    <3>1. due' = [due EXCEPT ![t] = 0] /\ tasks' = tasks
      BY <1>1, <2>2
    <3>2. \A i \in 1 .. Len(tasks) : tasks[i] \in Tasks /\ tasks[i] # t
      BY <1>2, <1>5 DEF Types, In
    <3>3. due' \in [Tasks -> Int] /\ \A i \in 1 .. Len(tasks) : due'[tasks[i]] = due[tasks[i]]
      <4>0. due \in [Tasks -> Int]
        BY <1>2 DEF Types
      <4>1. \A u \in Tasks : u # t => due'[u] = due[u]
        BY <3>1, <4>0
      <4>2. due' \in [Tasks -> Int]
        <5>1. due' = [u \in Tasks |-> IF u = t THEN 0 ELSE due[u]]
          BY <3>1, <4>0
        <5> QED BY <4>0, <5>1
      <4> QED BY <3>2, <4>1, <4>2
    <3>4. Ordered(tasks, due')
      BY <1>2, <3>3 DEF Ordered
    <3> QED BY <1>2, <2>2, <3>1, <3>3, <3>4 DEF Types
  <2> QED BY <2>1, <2>2
<1>7. Types'
  BY <1>1, <1>2, <1>3, <1>6 DEF Types
<1>8. Places'
  <2>1. \A q \in Publishers : q \in Tasks /\ (NotStarted(q)' <=> NotStarted(q))
    BY <1>1, Constants DEF NotStarted, Stops
  <2>2. \A q \in Publishers : NotStarted(q) => q # t
    BY <1>2, <1>3 DEF Places
  <2> QED BY <1>2, <1>3, <1>6, <2>1, <2>2 DEF Places
<1>9. Kept'
  <2>1. \A u \in enqueued : u \in Tasks /\ Period[u] > 0
    BY <1>2 DEF Types
  <2> QED BY <1>1, <1>2, <1>3, <1>6, <2>1 DEF Kept, Yields
<1>10. InTime'
  <2>1. phase = "unlink"
    BY <1>1 DEF Inv, InTime, Executing
  <2> QED BY <1>1, <1>3, <2>1 DEF InTime, Executing
<1> QED BY <1>7, <1>8, <1>9, <1>10 DEF Inv

\* A task begins or ends to wait, and the queue is not longer.
LEMMA YieldingKeeps ==
  ASSUME Inv, active # <<>>, Yields, NEW b \in BOOLEAN, active' = SetYielding(b),
         tasks' \in Seq(Tasks), Ordered(tasks', due), \A u : In(tasks', u) => In(tasks, u),
         UNCHANGED <<usage, due, phase, wake, reservation_state, enqueued>>
  PROVE  Inv'
<1>1. Types /\ Places
  BY DEF Inv
<1>2. /\ active' \in Seq(Execution) /\ Len(active') = Len(active)
      /\ \A i \in 1 .. Len(active) : active'[i].task = active[i].task
  BY <1>1, Mark DEF SetYielding, Types
<1>3. (\A u : Runs(active', u) <=> Runs(active, u)) /\ (NoneTwice(active) => NoneTwice(active'))
  BY <1>2 DEF Runs, NoneTwice
<1>4. Types'
  BY <1>1, <1>2 DEF Types
<1>5. Places'
  BY <1>1, <1>3 DEF Places, NotStarted, Stops
<1>6. Kept'
  BY DEF Kept, Yields
<1>7. InTime'
  <2>1. active' # <<>>
    BY <1>1, <1>2 DEF Types
  <2>2. phase = "unlink"
    BY DEF Inv, InTime, Executing
  <2> QED BY <2>1, <2>2 DEF InTime, Executing
<1> QED BY <1>4, <1>5, <1>6, <1>7 DEF Inv

LEMMA YieldKeeps == ASSUME Inv, Yield PROVE Inv'
<1>1. /\ active # <<>> /\ Yields /\ active' = SetYielding(TRUE)
      /\ UNCHANGED <<usage, tasks, due, phase, wake, reservation_state, enqueued>>
  BY DEF Yield, Executing
<1>2. tasks' \in Seq(Tasks) /\ Ordered(tasks', due)
  BY <1>1 DEF Inv, Types, Places
<1> QED BY <1>1, <1>2, YieldingKeeps

LEMMA YieldLoopFacts ==
  ASSUME Inv, YieldLoop
  PROVE  /\ active # <<>> /\ Yields /\ phase = "unlink"
         /\ UNCHANGED <<usage, due, phase, wake, reservation_state, enqueued>>
         /\ \/ tasks' = <<>> /\ active' = SetYielding(FALSE)
            \/ \E k \in 1 .. Len(tasks) :
                  /\ tasks' = SubSeq(tasks, k + 1, Len(tasks))
                  /\ \/ due[tasks[k]] <= 0 /\ Start(tasks[k])
                     \/ active' = SetYielding(FALSE)
<1> DEFINE rt == {i \in 1 .. Len(tasks) : tasks[i] \in Realtime}
           k == Min(rt)
<1>1. /\ active # <<>> /\ Current.yielding
      /\ UNCHANGED <<usage, due, phase, wake, reservation_state, enqueued>>
  BY DEF YieldLoop, Executing
<1>2. Yields
  <2>1. Len(active) \in 1 .. Len(active)
    BY <1>1 DEF Inv, Types
  <2> QED BY <1>1, <2>1 DEF Inv, Kept, Current, Last
<1>3. phase = "unlink"
  BY <1>1 DEF Inv, InTime, Executing
<1>4. CASE rt = {}
  <2>1. tasks' = <<>> /\ active' = SetYielding(FALSE)
    BY <1>4 DEF YieldLoop
  <2> QED BY <1>1, <1>2, <1>3, <2>1
<1>5. CASE rt # {}
  <2>1. /\ tasks' = SubSeq(tasks, k + 1, Len(tasks))
        /\ IF StartInTime(tasks[k]) THEN Start(tasks[k]) ELSE active' = SetYielding(FALSE)
    BY <1>5 DEF YieldLoop
  <2>2. k \in rt
    <3>1. rt \in SUBSET Nat
      BY DEF Inv, Types
    <3> HIDE DEF rt
    <3> QED BY <1>5, <3>1, MinOf
  <2>3. k \in 1 .. Len(tasks)
    BY <2>2
  <2> HIDE DEF k
  <2> QED BY <1>1, <1>2, <1>3, <2>1, <2>3 DEF StartInTime
<1> QED BY <1>4, <1>5

LEMMA YieldLoopKeeps == ASSUME Inv, YieldLoop PROVE Inv'
<1>1. /\ active # <<>> /\ Yields /\ phase = "unlink"
      /\ UNCHANGED <<usage, due, phase, wake, reservation_state, enqueued>>
  BY YieldLoopFacts
<1>2. tasks \in Seq(Tasks) /\ due \in [Tasks -> Int] /\ Ordered(tasks, due)
  BY DEF Inv, Types, Places
<1>3. CASE tasks' = <<>> /\ active' = SetYielding(FALSE)
  <2>1. tasks' \in Seq(Tasks) /\ Ordered(tasks', due) /\ \A u : In(tasks', u) => In(tasks, u)
    BY <1>3 DEF Ordered, In
  <2> QED BY <1>1, <1>3, <2>1, YieldingKeeps
<1>4. ASSUME NEW k \in 1 .. Len(tasks), tasks' = SubSeq(tasks, k + 1, Len(tasks)),
             active' = SetYielding(FALSE)
      PROVE  Inv'
  <2>1. tasks' \in Seq(Tasks) /\ Ordered(tasks', due) /\ \A u : In(tasks', u) => In(tasks, u)
    BY <1>2, <1>4, RestIsOrdered
  <2> QED BY <1>1, <1>4, <2>1, YieldingKeeps
<1>5. ASSUME NEW k \in 1 .. Len(tasks), tasks' = SubSeq(tasks, k + 1, Len(tasks)),
             Start(tasks[k])
      PROVE  Inv'
  BY <1>1, <1>5, StartKeeps
<1> QED BY <1>3, <1>4, <1>5, YieldLoopFacts

LEMMA TickKeeps == ASSUME Inv, Tick PROVE Inv'
<1>1. /\ due' = [t \in Tasks |-> IF Listed(t) \/ Running(t) THEN due[t] - 1 ELSE due[t]]
      /\ wake' = IF wake > 0 THEN wake - 1 ELSE 0
      /\ UNCHANGED <<usage, tasks, phase, active, reservation_state, enqueued>>
  BY DEF Tick
<1>2. Types /\ Places /\ Kept
  BY DEF Inv
<1>3. \A i \in 1 .. Len(tasks) : tasks[i] \in Tasks /\ due[tasks[i]] \in Int
                                 /\ due'[tasks[i]] = due[tasks[i]] - 1
  <2> TAKE i \in 1 .. Len(tasks)
  <2>1. tasks[i] \in Tasks /\ Listed(tasks[i])
    BY <1>2 DEF Types, Listed
  <2> QED BY <1>1, <1>2, <2>1 DEF Types
<1>4. Types'
  BY <1>1, <1>2 DEF Types
<1>5. Places'
  <2>1. Ordered(tasks, due')
    BY <1>2, <1>3 DEF Places, Ordered
  <2> QED BY <1>1, <1>2, <2>1 DEF Places, NotStarted, Stops
<1>6. Kept'
  BY <1>1, <1>2 DEF Kept, Yields
<1>7. InTime'
  <2>1. tasks # <<>> => due[Head(tasks)] \in Int /\ due'[Head(tasks)] = due[Head(tasks)] - 1
    BY <1>2, <1>3, TailIsRest DEF Types
  <2>2. wake \in Int
    BY <1>2 DEF Types
  <2> QED BY <1>1, <2>1, <2>2 DEF Inv, InTime, Executing, Asynchronous
<1> QED BY <1>4, <1>5, <1>6, <1>7 DEF Inv

LEMMA NextKeeps == ASSUME NotStartedAgain, Inv, [Next]_vars PROVE Inv'
<1>1. CASE Outside
  BY <1>1, EnqueueTaskKeeps, ReserveKeeps, StartDeliveryKeeps, StopDeliveryKeeps DEF Outside
<1>2. CASE Dispatch
  BY <1>2, WaitKeeps, UnlinkKeeps, FinishKeeps, YieldLoopKeeps DEF Dispatch
<1>3. CASE Yield
  BY <1>3, YieldKeeps
<1>4. CASE Tick
  BY <1>4, TickKeeps
<1>5. CASE UNCHANGED vars
  BY <1>5 DEF vars, Inv, Types, Places, NotStarted, Kept, InTime, Executing, Asynchronous,
              Stops, Yields
<1> QED BY <1>1, <1>2, <1>3, <1>4, <1>5 DEF Next

-----------------------------------------------------------------------------
(* The theorems.                                                           *)

LEMMA AlwaysInv == ASSUME NotStartedAgain PROVE Spec => []Inv
<1>1. Init => Inv
  BY InitHolds
<1>2. Inv /\ [Next]_vars => Inv'
  BY NextKeeps
<1> QED BY <1>1, <1>2, PTL DEF Spec

\* The queue is sorted by start and has no task twice, for any tasks, periods, starts
\* and delays, if the network scheduler does not start again what it has stopped.
THEOREM QueueStaysIntact == ASSUME NotStartedAgain PROVE Spec => []QueueIntact
<1>1. Inv => QueueIntact
  <2> SUFFICES ASSUME Inv PROVE QueueIntact
    OBVIOUS
  <2>1. tasks \in Seq(Tasks) /\ Places
    BY DEF Inv, Types
  <2>2. \A i \in 1 .. Len(tasks) - 1 : due[tasks[i]] <= due[tasks[i + 1]]
    <3> TAKE i \in 1 .. Len(tasks) - 1
    <3>1. i \in 1 .. Len(tasks) /\ i + 1 \in 1 .. Len(tasks) /\ i < i + 1
      BY <2>1
    <3> QED BY <2>1, <3>1 DEF Places, Ordered
  <2>3. IsInjective(tasks)
    <3> SUFFICES ASSUME NEW i \in 1 .. Len(tasks), NEW j \in 1 .. Len(tasks), i # j
                 PROVE  tasks[i] # tasks[j]
      BY <2>1 DEF IsInjective
    <3>1. i < j \/ j < i
      BY <2>1
    <3> QED BY <2>1, <3>1 DEF Places, Ordered
  <2>4. \A t \in Tasks : ~(Listed(t) /\ Running(t))
    BY <2>1, ListedIsIn DEF Places
  <2> QED BY <2>2, <2>3, <2>4 DEF QueueIntact
<1> QED BY <1>1, AlwaysInv, PTL

\* A periodic task that was enqueued and not dequeued is in the queue or being
\* executed, as long as nobody calls yield_for_rt().
THEOREM NoTaskIsLost == ASSUME NotStartedAgain PROVE Spec => []NoTaskLost
<1>1. Inv => NoTaskLost
  BY ListedIsIn DEF Inv, Kept, NoTaskLost, TasksKept
<1> QED BY <1>1, AlwaysInv, PTL

\* No task is executed before its start, if other contexts do not enqueue, also when
\* tasks run nested in others that wait.
THEOREM NoneStartsEarly == ASSUME NotStartedAgain PROVE Spec => NeverEarly
<1> DEFINE Early == ~Asynchronous => \A t \in Tasks : ~Running(t) /\ Running(t)' => due[t] <= 0
<1>1. ASSUME Inv, [Next]_vars PROVE Early
  <2> SUFFICES ASSUME ~Asynchronous, NEW t \in Tasks, ~Runs(active, t), Runs(active', t)
               PROVE  due[t] <= 0
    BY ListedIsIn DEF Runs, Running
  <2>1. Types /\ Places /\ NoneTwice(active)
    BY <1>1 DEF Inv, Places
  <2>2. CASE active' = active
    BY <2>2
  <2>3. CASE Finish
    BY <2>1, <2>3, Pop DEF Finish, Executing, Types
  <2>4. ASSUME NEW b \in BOOLEAN, active # <<>>, active' = SetYielding(b) PROVE FALSE
    <3>1. Len(active') = Len(active) /\ \A i \in 1 .. Len(active) : active'[i].task = active[i].task
      BY <2>1, <2>4, Mark DEF SetYielding, Types
    <3> QED BY <3>1 DEF Runs
  <2>5. ASSUME NEW s \in Tasks, In(tasks, s), Start(s), due[s] <= 0 PROVE due[t] <= 0
    <3>1. active' = Append(active, [task |-> s, yielding |-> FALSE]) /\ ~Runs(active, s)
      BY <2>1, <2>5 DEF Start, Places
    <3>2. \A u : Runs(active', u) <=> Runs(active, u) \/ u = s
      BY <2>1, <2>5, <3>1, Push DEF Types
    <3> QED BY <2>5, <3>2
  <2>6. CASE Unlink /\ tasks # <<>>
    <3>1. Start(Head(tasks)) /\ phase = "unlink" /\ ~Executing
      BY <2>6 DEF Unlink
    <3>2. due[Head(tasks)] <= 0
      BY <1>1, <2>6, <3>1 DEF Inv, InTime
    <3>3. Head(tasks) \in Tasks /\ In(tasks, Head(tasks))
      BY <2>1, <2>6, TailIsRest DEF Types, In
    <3> QED BY <2>5, <3>1, <3>2, <3>3
  <2>7. CASE YieldLoop
    <3>1. ASSUME NEW k \in 1 .. Len(tasks), due[tasks[k]] <= 0, Start(tasks[k]) PROVE due[t] <= 0
      <4>1. tasks[k] \in Tasks /\ In(tasks, tasks[k])
        BY <2>1 DEF Types, In
      <4> QED BY <2>5, <3>1, <4>1
    <3> QED BY <1>1, <2>4, <2>7, <3>1, YieldLoopFacts
  <2>8. CASE Yield
    BY <2>4, <2>8 DEF Yield, Executing
  <2>9. active' = active \/ Finish \/ (Unlink /\ tasks # <<>>) \/ YieldLoop \/ Yield
    BY <1>1 DEF Next, Outside, Dispatch, EnqueueTask, Reserve, StartDelivery, StopDelivery,
                Wait, Wake, Unlink, Tick, vars
  <2> QED BY <2>2, <2>3, <2>6, <2>7, <2>8, <2>9
<1>2. Inv /\ [Next]_vars => [Early]_vars
  BY <1>1
<1> QED BY <1>2, AlwaysInv, PTL DEF Spec, NeverEarly

-----------------------------------------------------------------------------
(* Bounds of the starts.  A task is put off to at most one period and Lead *)
(* from now, and lies behind by no more than MaxLate and one sleep.        *)

\* A program whose tasks yield has no other context that enqueues.
Separate == \A u \in Usages : ~(u.asynchronous /\ u.yields)

\* There are tasks, and no start is farther away than some number.
Finite == Tasks # {} /\ \E b \in Nat : Starts \cup Periods \subseteq 0 .. b

Near == Lead + Max(Starts \cup Periods)
Far  == Max(Periods)

DueInv  == \A t \in Tasks : Latest <= due[t] /\ due[t] <= Horizon
RunInv  == \A t \in Tasks : Runs(active, t) => due[t] <= Near
WakeInv == Latest <= wake /\ wake <= Horizon

\* While another context enqueues nothing is dropped, so that a delivery that is
\* not in the queue has not been put off.
OutInv == Asynchronous => \A p \in Publishers : ~In(tasks, p) => due[p] <= Near

\* run() sleeps until the start of a task, or tasks came meanwhile.
HeadInv == Asynchronous /\ tasks # <<>> =>
    /\ phase = "sleep" => \E t \in Tasks : In(tasks, t) /\ (due[t] <= wake \/ due[t] <= Near)
    /\ phase = "unlink" /\ ~Executing => \E t \in Tasks : In(tasks, t) /\ due[t] <= Near

\* The clock may run until run() wakes up.
LateInv == phase = "sleep" /\ wake > 0 =>
    \A t \in Tasks : In(tasks, t) => due[t] >= Latest + wake

BoundInv == DueInv /\ RunInv /\ WakeInv /\ OutInv /\ HeadInv /\ LateInv

LEMMA BoundFacts ==
  ASSUME Finite
  PROVE  /\ Near \in Nat /\ Far \in Nat /\ Horizon = Near + Far /\ Horizon \in Nat
         /\ Latest \in Int /\ Latest <= -MaxLate /\ Latest + Horizon <= 0 /\ Latest <= 0
         /\ MaxLate \in Nat
         /\ \A s \in Starts : s \in Nat /\ s <= Near
         /\ \A t \in Tasks : Period[t] \in Nat /\ Period[t] <= Far /\ Lead + Period[t] <= Near
<1>1. PICK b \in Nat : Starts \cup Periods \in SUBSET (0 .. b)
  BY DEF Finite
<1>2. PICK t \in Tasks : Period[t] \in Periods
  BY DEF Finite, Periods
<1>3. Periods \in SUBSET (0 .. b) /\ Periods # {} /\ Starts \cup Periods # {} /\ b \in Int
  BY <1>1, <1>2
<1>4. Far \in Periods /\ \A y \in Periods : Far >= y
  BY <1>3, MaxOf DEF Far
<1> DEFINE m == Max(Starts \cup Periods)
<1>5. m \in Starts \cup Periods /\ \A y \in Starts \cup Periods : m >= y
  BY <1>1, <1>3, MaxOf
<1>6. m \in Nat /\ Far \in Nat
  BY <1>1, <1>4, <1>5
<1>7. Lead \in Nat /\ MaxLate \in Nat
  BY TasksAssumption
<1>8. Near = Lead + m /\ Horizon = Lead + m + Far /\ Latest = -(MaxLate + Horizon)
  BY DEF Near, Far, Horizon, Latest
<1>9. \A s \in Starts : s \in Nat /\ s <= m
  BY <1>1, <1>5
<1>10. \A u \in Tasks : Period[u] \in Nat /\ Period[u] <= Far /\ Period[u] <= m
  BY <1>4, <1>5, Constants DEF Periods
<1> HIDE DEF m
<1> QED BY <1>6, <1>7, <1>8, <1>9, <1>10

LEMMA FuturifyBounds ==
  ASSUME NEW start \in Int, NEW period \in Nat, period > 0, NEW current \in Int
  PROVE  /\ Futurify(start, period, current) \in Int
         /\ Futurify(start, period, current) >= current
         /\ \/ Futurify(start, period, current) <= current + period
            \/ Futurify(start, period, current) = start
<1>1. CASE start < current
  <2> DEFINE n == current - start
             k == n \div period
  <2>1. n \in Nat /\ period \in Nat \ {0}
    BY <1>1
  <2>2. Futurify(start, period, current) = start + (k + 1) * period
    BY <1>1 DEF Futurify
  <2>3. start = current - n
    OBVIOUS
  <2> HIDE DEF n
  <2>4. k \in Nat /\ k * period <= n /\ n < k * period + period
    BY <2>1
  <2> HIDE DEF k
  <2>5. (k + 1) * period = k * period + period /\ k * period \in Nat
    BY <2>4
  <2> DEFINE m == k * period
  <2> HIDE DEF m
  <2>6. m \in Nat /\ m <= n /\ n < m + period
        /\ Futurify(start, period, current) = start + (m + period)
    BY <2>2, <2>4, <2>5 DEF m
  <2> QED BY <2>1, <2>3, <2>6
<1>2. CASE ~(start < current)
  BY <1>2 DEF Futurify
<1> QED BY <1>1, <1>2

\* A task is enqueued with a start that lies ahead, but not too far.
LEMMA EnqueueBounds ==
  ASSUME Finite, NEW t \in Tasks, NEW s \in Int, 0 <= s
  PROVE  /\ EnqueueStart(t, s) \in Int /\ 0 <= EnqueueStart(t, s)
         /\ EnqueueStart(t, s) <= Near \/ EnqueueStart(t, s) = s
<1>1. Lead \in Int /\ Lead >= 0
  BY TasksAssumption
<1>2. Period[t] \in Nat /\ Lead + Period[t] <= Near
  BY BoundFacts
<1> DEFINE f == Futurify(s, Period[t], Lead)
<1>3. EnqueueStart(t, s) = IF Period[t] > 0 THEN f ELSE s
  BY DEF EnqueueStart
<1>4. CASE Period[t] > 0
  <2>1. f \in Int /\ f >= Lead /\ (f <= Lead + Period[t] \/ f = s)
    BY <1>1, <1>2, <1>4, FuturifyBounds
  <2> HIDE DEF f
  <2>2. Near \in Int
    BY BoundFacts
  <2> QED BY <1>1, <1>2, <1>3, <1>4, <2>1, <2>2
<1>5. CASE ~(Period[t] > 0)
  BY <1>3, <1>5
<1> QED BY <1>4, <1>5

-----------------------------------------------------------------------------
(* The steps keep the bounds.                                              *)

LEMMA BoundTypes ==
  ASSUME Finite, Inv, BoundInv
  PROVE  /\ \A t \in Tasks : due[t] \in Int /\ Latest <= due[t] /\ due[t] <= Horizon
         /\ wake \in Int /\ Latest <= wake /\ wake <= Horizon /\ due \in [Tasks -> Int]
         /\ Near \in Int /\ Horizon \in Int /\ Latest \in Int /\ 0 <= Near /\ Near <= Horizon
         /\ Latest <= 0 /\ Latest + Horizon <= 0 /\ tasks \in Seq(Tasks)
<1>1. Near \in Nat /\ Far \in Nat /\ Horizon = Near + Far /\ Latest \in Int /\ Latest <= 0
      /\ Latest + Horizon <= 0
  BY BoundFacts
<1>2. Near \in Int /\ Horizon \in Int /\ 0 <= Near /\ Near <= Horizon
  BY <1>1
<1>3. due \in [Tasks -> Int] /\ wake \in Int /\ tasks \in Seq(Tasks)
  BY DEF Inv, Types
<1> QED BY <1>1, <1>2, <1>3 DEF BoundInv, DueInv, WakeInv

\* A task that is nowhere gets a start, and may be enqueued with it.
LEMMA PutKeeps ==
  ASSUME Finite, Inv, BoundInv, NEW t \in Tasks, ~In(tasks, t), ~Runs(active, t),
         NEW x \in Int, 0 <= x, x <= Horizon, Asynchronous => x <= Near,
         due' = [due EXCEPT ![t] = x], tasks' \in Seq(Tasks),
         \A u \in Tasks : In(tasks, u) => In(tasks', u),
         \A u \in Tasks : In(tasks', u) => In(tasks, u) \/ u = t,
         UNCHANGED <<usage, phase, wake, active>>
  PROVE  BoundInv'
<1> USE BoundTypes
<1>1. \A u \in Tasks : due'[u] = IF u = t THEN x ELSE due[u]
  OBVIOUS
<1>2. Asynchronous' = Asynchronous /\ Executing' = Executing
  BY DEF Asynchronous, Executing
<1>3. \A p \in Publishers : p \in Tasks
  BY Constants
<1>4. DueInv'
  BY <1>1 DEF DueInv
<1>5. RunInv'
  BY <1>1 DEF RunInv, BoundInv
<1>6. WakeInv'
  BY DEF WakeInv
<1>7. OutInv'
  BY <1>1, <1>2, <1>3 DEF OutInv, BoundInv
<1>8. HeadInv'
  <2> SUFFICES ASSUME Asynchronous, tasks' # <<>>
               PROVE  /\ phase = "sleep" => \E u \in Tasks :
                            In(tasks', u) /\ (due'[u] <= wake \/ due'[u] <= Near)
                      /\ phase = "unlink" /\ ~Executing =>
                            \E u \in Tasks : In(tasks', u) /\ due'[u] <= Near
    BY <1>2 DEF HeadInv
  <2>1. CASE tasks = <<>>
    <3>1. 1 \in 1 .. Len(tasks') /\ tasks'[1] \in Tasks
      OBVIOUS
    <3>2. In(tasks', tasks'[1]) /\ \A u : ~In(tasks, u)
      BY <2>1, <3>1 DEF In
    <3>3. In(tasks', t) /\ due'[t] <= Near
      BY <1>1, <3>1, <3>2
    <3> QED BY <3>3
  <2>2. CASE tasks # <<>>
    BY <1>1, <2>2 DEF BoundInv, HeadInv
  <2> QED BY <2>1, <2>2
<1>9. LateInv'
  <2>1. x >= Latest + wake
    <3> HIDE BoundTypes
    <3>1. Latest \in Int /\ wake \in Int /\ Horizon \in Int /\ wake <= Horizon /\ Latest + Horizon <= 0
      BY BoundTypes
    <3> QED BY <3>1
  <2> QED BY <1>1, <2>1 DEF BoundInv, LateInv
<1> QED BY <1>4, <1>5, <1>6, <1>7, <1>8, <1>9 DEF BoundInv

\* So does whoever enqueues one.
LEMMA EnqueueKeepsBounds ==
  ASSUME Finite, Inv, BoundInv, NEW t \in Tasks, ~In(tasks, t), ~Runs(active, t),
         NEW s \in Int, 0 <= s, s <= Horizon, Asynchronous => s <= Near, Enqueue(t, s),
         UNCHANGED <<usage, phase, wake, active>>
  PROVE  BoundInv'
<1> DEFINE x == EnqueueStart(t, s)
<1>1. x \in Int /\ 0 <= x /\ (x <= Near \/ x = s)
  BY EnqueueBounds
<1>2. Insert(t, x) /\ due' = [due EXCEPT ![t] = x]
  BY DEF Enqueue, Insert
<1> HIDE DEF x
<1>3. Types /\ Ordered(tasks, due) /\ Near \in Int /\ Horizon \in Int /\ Near <= Horizon
  BY BoundTypes DEF Inv, Places
<1>4. tasks' \in Seq(Tasks) /\ \A u \in Tasks : In(tasks', u) <=> In(tasks, u) \/ u = t
  BY <1>1, <1>2, <1>3, InsertFacts
<1>5. x <= Horizon /\ (Asynchronous => x <= Near)
  BY <1>1, <1>3
<1> QED BY <1>1, <1>2, <1>4, <1>5, PutKeeps

LEMMA OutsideKeepsBounds ==
  ASSUME NotStartedAgain, Finite, Inv, BoundInv, Outside PROVE BoundInv'
<1> USE ListedIsIn
<1>0. Near \in Int /\ Horizon \in Int /\ Near <= Horizon
  BY BoundTypes
<1>1. ASSUME NEW t \in Tasks, EnqueueTask(t) PROVE BoundInv'
  <2>1. /\ ~In(tasks, t) /\ ~Runs(active, t) /\ UNCHANGED <<usage, phase, wake, active>>
    BY <1>1 DEF EnqueueTask
  <2>2. PICK s \in Starts : Enqueue(t, s)
    BY <1>1 DEF EnqueueTask
  <2>3. s \in Int /\ 0 <= s /\ s <= Near /\ s <= Horizon
    BY <1>0, BoundFacts
  <2> QED BY <2>1, <2>2, <2>3, EnqueueKeepsBounds
<1>2. ASSUME NEW p \in Publishers, Reserve(p) PROVE BoundInv'
  <2>1. reservation_state[p] = "NoReservation" /\ UNCHANGED <<usage, tasks, phase, wake, active>>
    BY <1>2 DEF Reserve
  <2>2. PICK s \in Starts : due' = [due EXCEPT ![p] = s]
    BY <1>2 DEF Reserve
  <2>3. s \in Int /\ 0 <= s /\ s <= Near /\ s <= Horizon
    BY <1>0, BoundFacts
  <2>4. p \in Tasks /\ ~In(tasks, p) /\ ~Runs(active, p) /\ tasks' \in Seq(Tasks)
    BY <2>1, Constants DEF Inv, Types, Places, NotStarted
  <2> QED BY <2>1, <2>2, <2>3, <2>4, PutKeeps
<1>3. ASSUME NEW p \in Publishers, StartDelivery(p) PROVE BoundInv'
  <2> DEFINE s == Futurify(due[p], Period[p], 0)
  <2>1. /\ reservation_state[p] = "Unused"
        /\ Stops = "once" => ~In(tasks, p) /\ ~Runs(active, p)
        /\ Enqueue(p, s) /\ UNCHANGED <<usage, phase, wake, active>>
    BY <1>3 DEF StartDelivery
  <2>2. p \in Tasks /\ Period[p] \in Nat /\ Period[p] > 0 /\ due[p] \in Int /\ due[p] <= Horizon
    BY Constants, BoundTypes
  <2>3. ~In(tasks, p) /\ ~Runs(active, p)
    <3>1. Stops \in {"never", "once"}
      BY Constants DEF NotStartedAgain, Stops, Inv, Types
    <3> QED BY <2>1, <3>1 DEF Inv, Places, NotStarted
  <2>4. s \in Int /\ s >= 0 /\ (s <= 0 + Period[p] \/ s = due[p])
    <3>1. 0 \in Int
      OBVIOUS
    <3> QED BY <2>2, <3>1, FuturifyBounds
  <2>5. Lead \in Nat /\ Lead + Period[p] <= Near
    BY <2>2, BoundFacts, TasksAssumption
  <2>6. Asynchronous => due[p] <= Near
    BY <2>3 DEF BoundInv, OutInv
  <2> HIDE DEF s
  <2>7. s <= Near \/ s = due[p]
    BY <1>0, <2>2, <2>4, <2>5
  <2>8. s <= Horizon /\ (Asynchronous => s <= Near)
    BY <1>0, <2>2, <2>4, <2>6, <2>7
  <2> QED BY <2>1, <2>2, <2>3, <2>4, <2>8, EnqueueKeepsBounds
<1>4. ASSUME NEW p \in Publishers, StopDelivery(p) PROVE BoundInv'
  <2>1. UNCHANGED <<usage, tasks, due, phase, wake, active>>
    BY <1>4 DEF StopDelivery
  <2> QED BY <2>1 DEF BoundInv, DueInv, RunInv, WakeInv, OutInv, HeadInv, LateInv, Asynchronous,
                      Executing
<1> QED BY <1>1, <1>2, <1>3, <1>4 DEF Outside

LEMMA HeadIsFirst ==
  ASSUME Inv, tasks # <<>>
  PROVE  /\ Head(tasks) \in Tasks /\ In(tasks, Head(tasks)) /\ Head(tasks) = tasks[1]
         /\ \A u \in Tasks : In(tasks, u) => due[Head(tasks)] <= due[u]
<1>1. tasks \in Seq(Tasks) /\ due \in [Tasks -> Int] /\ Ordered(tasks, due)
  BY DEF Inv, Types, Places
<1>2. 1 \in 1 .. Len(tasks) /\ Head(tasks) = tasks[1] /\ tasks[1] \in Tasks
  BY <1>1
<1>3. \A i \in 1 .. Len(tasks) : due[tasks[1]] <= due[tasks[i]]
  <2> TAKE i \in 1 .. Len(tasks)
  <2>1. CASE i = 1
    BY <1>1, <1>2, <2>1
  <2>2. CASE i # 1
    BY <1>1, <1>2, <2>2 DEF Ordered
  <2> QED BY <2>1, <2>2
<1> QED BY <1>2, <1>3 DEF In

LEMMA WaitKeepsBounds ==
  ASSUME Finite, Inv, BoundInv, Wait \/ Wake PROVE BoundInv'
<1>1. UNCHANGED <<usage, tasks, due, active>>
  BY DEF Wait, Wake
<1>2. Asynchronous' = Asynchronous /\ Executing' = Executing
  BY <1>1 DEF Asynchronous, Executing
<1>3. DueInv' /\ RunInv' /\ OutInv'
  BY <1>1, <1>2 DEF BoundInv, DueInv, RunInv, OutInv
<1>4. CASE Wait
  <2>1. phase' = "sleep" /\ wake' = IF tasks = <<>> THEN 0 ELSE due[Head(tasks)]
    BY <1>4 DEF Wait
  <2>2. CASE tasks = <<>>
    <3>1. wake' = 0 /\ tasks' = <<>>
      BY <1>1, <2>1, <2>2
    <3>2. WakeInv' /\ HeadInv' /\ LateInv'
      BY <3>1, BoundTypes DEF WakeInv, HeadInv, LateInv
    <3> QED BY <1>3, <3>2 DEF BoundInv
  <2>3. CASE tasks # <<>>
    <3> DEFINE h == Head(tasks)
    <3>1. wake' = due[h] /\ h \in Tasks /\ In(tasks, h)
          /\ \A u \in Tasks : In(tasks, u) => due[h] <= due[u]
      BY <2>1, <2>3, HeadIsFirst
    <3> HIDE DEF h
    <3>2. due[h] \in Int /\ Latest <= due[h] /\ due[h] <= Horizon /\ \A u \in Tasks : due[u] \in Int
      BY <3>1, BoundTypes
    <3>3. WakeInv'
      BY <3>1, <3>2 DEF WakeInv
    <3>4. HeadInv'
      BY <1>1, <2>1, <3>1, <3>2 DEF HeadInv
    <3>5. Latest \in Int /\ Latest <= 0
      BY BoundTypes
    <3>6. \A u \in Tasks : In(tasks, u) => due[u] >= Latest + due[h]
      BY <3>1, <3>2, <3>5
    <3>7. LateInv'
      BY <1>1, <3>1, <3>6 DEF LateInv
    <3> QED BY <1>3, <3>3, <3>4, <3>7 DEF BoundInv
  <2> QED BY <2>2, <2>3
<1>5. CASE Wake
  <2>1. phase = "sleep" /\ wake <= 0 /\ phase' = "unlink" /\ wake' = 0
    BY <1>5 DEF Wake
  <2>2. WakeInv' /\ LateInv'
    BY <2>1, BoundTypes DEF WakeInv, LateInv
  <2>3. HeadInv'
    <3> SUFFICES ASSUME Asynchronous, tasks # <<>>
                 PROVE  \E u \in Tasks : In(tasks, u) /\ due[u] <= Near
      BY <1>1, <1>2, <2>1 DEF HeadInv
    <3>1. PICK u \in Tasks : In(tasks, u) /\ (due[u] <= wake \/ due[u] <= Near)
      BY <2>1 DEF BoundInv, HeadInv
    <3>2. due[u] \in Int /\ wake \in Int /\ Near \in Int /\ 0 <= Near
      BY BoundTypes
    <3> QED BY <2>1, <3>1, <3>2
  <2> QED BY <1>3, <2>2, <2>3 DEF BoundInv
<1> QED BY <1>4, <1>5

\* A task that is taken from the queue, or from behind others, is soon due.
LEMMA StartKeepsBounds ==
  ASSUME Finite, Inv, BoundInv, NEW k \in 1 .. Len(tasks), Start(tasks[k]), phase = "unlink",
         due[tasks[k]] <= Near, tasks' = SubSeq(tasks, k + 1, Len(tasks)),
         Asynchronous => \A u : In(tasks, u) => u = tasks[k] \/ In(tasks', u),
         UNCHANGED <<usage, due, phase, wake>>
  PROVE  BoundInv'
<1> DEFINE t == tasks[k]
<1>1. Types /\ Places /\ t \in Tasks /\ In(tasks, t) /\ due[t] <= Near
  BY DEF Inv, Types, In
<1>2. active' = Append(active, [task |-> t, yielding |-> FALSE])
  BY DEF Start
<1>3. Asynchronous => \A u : In(tasks, u) => u = t \/ In(tasks', u)
  OBVIOUS
<1> HIDE DEF t
<1>4. active' # <<>> /\ \A u : Runs(active', u) <=> Runs(active, u) \/ u = t
  BY <1>1, <1>2, Push DEF Types, Places
<1>5. DueInv' /\ WakeInv'
  BY DEF BoundInv, DueInv, WakeInv
<1>6. RunInv'
  BY <1>1, <1>4 DEF BoundInv, RunInv
<1>7. OutInv'
  BY <1>1, <1>3 DEF BoundInv, OutInv, Asynchronous
<1>8. HeadInv' /\ LateInv'
  BY <1>4 DEF HeadInv, LateInv, Executing
<1> QED BY <1>5, <1>6, <1>7, <1>8 DEF BoundInv

LEMMA UnlinkKeepsBounds ==
  ASSUME Finite, Inv, BoundInv, Unlink PROVE BoundInv'
<1>0. phase = "unlink" /\ ~Executing /\ UNCHANGED <<usage, due, wake>>
  BY DEF Unlink
<1>1. CASE tasks = <<>>
  <2>1. phase' = "wait" /\ UNCHANGED <<tasks, active>>
    BY <1>1 DEF Unlink
  <2> QED BY <1>0, <2>1 DEF BoundInv, DueInv, RunInv, WakeInv, OutInv, HeadInv, LateInv,
                            Asynchronous
<1>2. CASE tasks # <<>>
  <2>1. Start(Head(tasks)) /\ tasks' = Tail(tasks) /\ phase' = phase
    BY <1>2 DEF Unlink
  <2>2. /\ 1 \in 1 .. Len(tasks) /\ Head(tasks) = tasks[1]
        /\ Tail(tasks) = SubSeq(tasks, 1 + 1, Len(tasks))
        /\ \A u : In(tasks, u) => u = Head(tasks) \/ In(Tail(tasks), u)
    BY <1>2, TailIsRest DEF Inv, Types
  <2> DEFINE h == Head(tasks)
  <2>3. h \in Tasks /\ \A u \in Tasks : In(tasks, u) => due[h] <= due[u]
    BY <1>2, HeadIsFirst
  <2> HIDE DEF h
  <2>4. due[h] <= Near
    <3>1. due[h] \in Int /\ Near \in Int /\ 0 <= Near
      BY <2>3, BoundTypes
    <3>2. CASE Asynchronous
      <4>1. PICK u \in Tasks : In(tasks, u) /\ due[u] <= Near
        BY <1>0, <1>2, <3>2 DEF BoundInv, HeadInv
      <4>2. due[h] <= due[u] /\ due[u] \in Int
        BY <2>3, <4>1, BoundTypes
      <4> QED BY <3>1, <4>1, <4>2
    <3>3. CASE ~Asynchronous
      <4>1. due[h] <= 0
        BY <1>0, <1>2, <3>3 DEF Inv, InTime, h
      <4> QED BY <3>1, <4>1
    <3> QED BY <3>2, <3>3
  <2> QED BY <1>0, <2>1, <2>2, <2>4, StartKeepsBounds DEF h
<1> QED BY <1>1, <1>2

LEMMA FinishKeepsBounds ==
  ASSUME Finite, Inv, BoundInv, Finish PROVE BoundInv'
<1> DEFINE t == Last(active).task
<1>1. /\ active # <<>> /\ active' = Front(active)
      /\ phase' = IF Len(active) = 1 THEN "wait" ELSE phase
      /\ UNCHANGED <<usage, wake>>
      /\ IF Period[t] > 0 THEN Insert(t, Restart(t))
         ELSE due' = [due EXCEPT ![t] = 0] /\ UNCHANGED tasks
  BY DEF Finish, Executing, Current
<1>2. Types /\ Places /\ NoneTwice(active) /\ Ordered(tasks, due)
  BY DEF Inv, Places
<1>3. /\ Last(active) \in Execution /\ Runs(active, t)
      /\ \A u : Runs(active', u) <=> Runs(active, u) /\ u # t
      /\ active' = <<>> <=> Len(active) = 1
  BY <1>1, <1>2, Pop DEF Types
<1>4. t \in Tasks
  BY <1>3 DEF Execution
<1> HIDE DEF t
<1>5. ~In(tasks, t) /\ Period[t] \in Nat /\ Period[t] <= Far
  BY <1>2, <1>3, <1>4, BoundFacts DEF Places
<1>6. due[t] \in Int /\ due[t] <= Near /\ Near \in Int /\ 0 <= Near /\ Far \in Nat
      /\ Horizon = Near + Far
  BY <1>3, <1>4, BoundTypes, BoundFacts DEF BoundInv, RunInv
<1>7. PICK x \in Int :
        /\ 0 <= x /\ x <= Horizon
        /\ due' = [due EXCEPT ![t] = x]
        /\ \A u \in Tasks : In(tasks', u) <=> In(tasks, u) \/ (u = t /\ Period[t] > 0)
  <2>1. CASE Period[t] > 0
    <3> DEFINE x == Restart(t)
    <3>1. x \in Int /\ x >= 0 /\ (x <= 0 + Period[t] \/ x = due[t] + Period[t])
      <4>1. due[t] + Period[t] \in Int /\ 0 \in Int
        BY <1>5, <1>6
      <4> QED BY <1>5, <2>1, <4>1, FuturifyBounds DEF Restart
    <3>2. Insert(t, x) /\ due' = [due EXCEPT ![t] = x]
      BY <1>1, <2>1 DEF Insert
    <3> HIDE DEF x
    <3>3. x <= Horizon
      BY <1>5, <1>6, <3>1
    <3>4. \A u \in Tasks : In(tasks', u) <=> In(tasks, u) \/ u = t
      BY <1>2, <1>4, <1>5, <3>1, <3>2, InsertFacts
    <3> QED BY <2>1, <3>1, <3>2, <3>3, <3>4
  <2>2. CASE ~(Period[t] > 0)
    <3>1. due' = [due EXCEPT ![t] = 0] /\ tasks' = tasks
      BY <1>1, <2>2
    <3>2. 0 \in Int /\ 0 <= 0 /\ 0 <= Horizon
      BY <1>6
    <3>3. \A u \in Tasks : In(tasks', u) <=> In(tasks, u) \/ (u = t /\ Period[t] > 0)
      BY <2>2, <3>1
    <3>4. due' = [due EXCEPT ![t] = 0]
      BY <3>1
    <3> WITNESS 0 \in Int
    <3> QED BY <3>2, <3>3, <3>4
  <2> QED BY <2>1, <2>2
<1>8. \A u \in Tasks : due'[u] = IF u = t THEN x ELSE due[u]
  BY <1>7 DEF Inv, Types
<1>9. DueInv'
  <2>1. Latest \in Int /\ Latest <= 0
    BY BoundTypes
  <2>2. Latest <= x
    BY <1>7, <2>1
  <2> QED BY <1>7, <1>8, <2>2 DEF BoundInv, DueInv
<1>10. RunInv'
  BY <1>3, <1>8 DEF BoundInv, RunInv
<1>11. WakeInv'
  BY <1>1 DEF BoundInv, WakeInv
<1>12. OutInv'
  <2>1. \A p \in Publishers : p \in Tasks /\ Period[p] > 0
    BY Constants
  <2> QED BY <1>1, <1>7, <1>8, <2>1 DEF BoundInv, OutInv, Asynchronous
<1>13. phase = "unlink"
  BY <1>1 DEF Inv, InTime, Executing
<1>14. HeadInv' /\ LateInv'
  BY <1>1, <1>3, <1>13 DEF HeadInv, LateInv, Executing
<1> QED BY <1>9, <1>10, <1>11, <1>12, <1>14 DEF BoundInv

\* A task begins or ends to wait. Then no other context enqueues.
LEMMA YieldingKeepsBounds ==
  ASSUME Separate, Inv, BoundInv, active # <<>>, Yields, NEW b \in BOOLEAN,
         active' = SetYielding(b), phase = "unlink", UNCHANGED <<usage, due, phase, wake>>
  PROVE  BoundInv'
<1>1. active \in Seq(Execution) /\ ~Asynchronous
  BY DEF Inv, Types, Separate, Asynchronous, Yields
<1>2. /\ Len(active') = Len(active)
      /\ \A i \in 1 .. Len(active) : active'[i].task = active[i].task
  BY <1>1, Mark DEF SetYielding
<1>3. \A u : Runs(active', u) <=> Runs(active, u)
  BY <1>2 DEF Runs
<1>4. DueInv' /\ RunInv' /\ WakeInv'
  BY <1>3 DEF BoundInv, DueInv, RunInv, WakeInv
<1>5. OutInv' /\ HeadInv' /\ LateInv'
  BY <1>1 DEF OutInv, HeadInv, LateInv, Asynchronous
<1> QED BY <1>4, <1>5 DEF BoundInv

LEMMA YieldKeepsBounds ==
  ASSUME Separate, Inv, BoundInv, Yield PROVE BoundInv'
<1>1. /\ active # <<>> /\ Yields /\ active' = SetYielding(TRUE)
      /\ UNCHANGED <<usage, due, phase, wake>>
  BY DEF Yield, Executing
<1>2. phase = "unlink"
  BY <1>1 DEF Inv, InTime, Executing
<1> QED BY <1>1, <1>2, YieldingKeepsBounds

LEMMA YieldLoopKeepsBounds ==
  ASSUME Separate, Finite, Inv, BoundInv, YieldLoop PROVE BoundInv'
<1>1. active # <<>> /\ Yields /\ phase = "unlink" /\ UNCHANGED <<usage, due, phase, wake>>
  BY YieldLoopFacts
<1>2. ~Asynchronous
  BY <1>1 DEF Inv, Types, Separate, Asynchronous, Yields
<1>3. CASE active' = SetYielding(FALSE)
  BY <1>1, <1>3, YieldingKeepsBounds
<1>4. ASSUME NEW k \in 1 .. Len(tasks), tasks' = SubSeq(tasks, k + 1, Len(tasks)),
             due[tasks[k]] <= 0, Start(tasks[k])
      PROVE  BoundInv'
  <2>1. tasks[k] \in Tasks
    BY BoundTypes
  <2>2. due[tasks[k]] \in Int /\ Near \in Int /\ 0 <= Near
    BY <2>1, BoundTypes
  <2>3. due[tasks[k]] <= Near
    BY <1>4, <2>2
  <2> QED BY <1>1, <1>2, <1>4, <2>3, StartKeepsBounds
<1> QED BY <1>3, <1>4, YieldLoopFacts

\* A task lies behind by more than MaxLate only while run() sleeps, and it sleeps
\* until the start of a task.
LEMMA TickKeepsBounds ==
  ASSUME Finite, Inv, BoundInv, Tick PROVE BoundInv'
<1>1. /\ due' = [t \in Tasks |-> IF Listed(t) \/ Running(t) THEN due[t] - 1 ELSE due[t]]
      /\ wake' = IF wake > 0 THEN wake - 1 ELSE 0
      /\ UNCHANGED <<usage, tasks, phase, active>>
  BY DEF Tick
<1>2. Asynchronous' = Asynchronous /\ Executing' = Executing
  BY <1>1 DEF Asynchronous, Executing
<1>3. /\ \A t \in Tasks : due[t] \in Int /\ Latest <= due[t] /\ due[t] <= Horizon
      /\ wake \in Int /\ Latest <= wake /\ wake <= Horizon
      /\ Near \in Int /\ Latest \in Int /\ 0 <= Near /\ Latest <= 0 /\ Horizon \in Int
      /\ Near <= Horizon
  BY BoundTypes
<1>4. \A t \in Tasks :
        /\ due'[t] \in Int /\ due'[t] <= due[t]
        /\ In(tasks, t) \/ Runs(active, t) => due'[t] = due[t] - 1
        /\ ~In(tasks, t) /\ ~Runs(active, t) => due'[t] = due[t]
  <2> TAKE t \in Tasks
  <2>1. due'[t] = IF In(tasks, t) \/ Runs(active, t) THEN due[t] - 1 ELSE due[t]
    BY <1>1, ListedIsIn
  <2>2. due[t] \in Int
    BY <1>3
  <2> QED BY <2>1, <2>2
<1>5. wake' \in Int /\ Latest <= wake' /\ wake' <= Horizon
  BY <1>1, <1>3
<1>6. WakeInv'
  BY <1>5 DEF WakeInv
<1>7. \A t \in Tasks : In(tasks, t) \/ Runs(active, t) => due[t] > Latest
  <2> SUFFICES ASSUME NEW t \in Tasks, In(tasks, t) \/ Runs(active, t) PROVE due[t] > Latest
    OBVIOUS
  <2>1. CASE phase = "sleep" /\ wake > 0
    <3>1. ~Executing /\ \A u : ~Runs(active, u)
      BY <2>1 DEF Inv, InTime, Executing, Runs
    <3>2. due[t] >= Latest + wake
      BY <2>1, <3>1 DEF BoundInv, LateInv
    <3> QED BY <1>3, <2>1, <3>2
  <2>2. CASE \A u \in Tasks : Listed(u) \/ Running(u) => due[u] > -MaxLate
    <3>1. due[t] > -MaxLate
      BY <2>2, ListedIsIn
    <3>2. Latest <= -MaxLate /\ MaxLate \in Nat
      BY BoundFacts
    <3> QED BY <1>3, <3>1, <3>2
  <2> QED BY <2>1, <2>2 DEF Tick
<1>8. DueInv'
  <2> SUFFICES ASSUME NEW t \in Tasks PROVE Latest <= due'[t] /\ due'[t] <= Horizon
    BY DEF DueInv
  <2>1. due[t] \in Int /\ Latest <= due[t] /\ due[t] <= Horizon /\ Latest \in Int /\ Horizon \in Int
    BY <1>3
  <2>2. CASE In(tasks, t) \/ Runs(active, t)
    <3>1. due[t] > Latest /\ due'[t] = due[t] - 1
      BY <1>4, <1>7, <2>2
    <3> QED BY <2>1, <3>1
  <2>3. CASE ~(In(tasks, t) \/ Runs(active, t))
    BY <1>4, <2>1, <2>3
  <2> QED BY <2>2, <2>3
<1>9. \A t \in Tasks : due[t] <= Near => due'[t] <= Near
  <2> TAKE t \in Tasks
  <2>1. due[t] \in Int /\ due'[t] \in Int /\ due'[t] <= due[t] /\ Near \in Int
    BY <1>3, <1>4
  <2> QED BY <2>1
<1>10. RunInv'
  BY <1>1, <1>9 DEF BoundInv, RunInv
<1>11. OutInv'
  BY <1>1, <1>2, <1>9, Constants DEF BoundInv, OutInv
<1>12. HeadInv'
  <2> SUFFICES ASSUME Asynchronous, tasks # <<>>
               PROVE  /\ phase = "sleep" => \E u \in Tasks :
                            In(tasks, u) /\ (due'[u] <= wake' \/ due'[u] <= Near)
                      /\ phase = "unlink" /\ ~Executing =>
                            \E u \in Tasks : In(tasks, u) /\ due'[u] <= Near
    BY <1>1, <1>2 DEF HeadInv
  <2>1. \A u \in Tasks : In(tasks, u) /\ due[u] <= wake => due'[u] <= wake' \/ due'[u] <= Near
    <3> SUFFICES ASSUME NEW u \in Tasks, In(tasks, u), due[u] <= wake
                 PROVE  due'[u] <= wake' \/ due'[u] <= Near
      OBVIOUS
    <3>1. due'[u] = due[u] - 1 /\ due[u] \in Int
      BY <1>3, <1>4
    <3> QED BY <1>1, <1>3, <3>1
  <2> QED BY <1>9, <2>1 DEF BoundInv, HeadInv
<1>13. LateInv'
  <2> SUFFICES ASSUME phase = "sleep", wake' > 0, NEW t \in Tasks, In(tasks, t)
               PROVE  due'[t] >= Latest + wake'
    BY <1>1 DEF LateInv
  <2>1. wake > 0 /\ wake' = wake - 1
    BY <1>1, <1>3
  <2>2. due[t] >= Latest + wake
    BY <2>1 DEF BoundInv, LateInv
  <2>3. due'[t] = due[t] - 1 /\ due[t] \in Int /\ wake \in Int /\ Latest \in Int
    BY <1>3, <1>4
  <2> QED BY <2>1, <2>2, <2>3
<1> QED BY <1>6, <1>8, <1>10, <1>11, <1>12, <1>13 DEF BoundInv

LEMMA InitBounds == ASSUME Finite, Init PROVE BoundInv
<1>1. /\ tasks = <<>> /\ active = <<>> /\ due = [t \in Tasks |-> 0] /\ wake = 0
      /\ phase = "startup"
  BY DEF Init
<1>2. Near \in Nat /\ Far \in Nat /\ Horizon = Near + Far /\ Latest \in Int /\ Latest <= 0
  BY BoundFacts
<1>3. \A t \in Tasks : due[t] = 0
  BY <1>1
<1>4. Latest <= 0 /\ 0 <= Near /\ 0 <= Horizon
  BY <1>2
<1>5. DueInv /\ RunInv /\ WakeInv
  BY <1>1, <1>3, <1>4 DEF DueInv, RunInv, WakeInv
<1>6. OutInv
  BY <1>3, <1>4, Constants DEF OutInv
<1>7. HeadInv /\ LateInv
  BY <1>1 DEF HeadInv, LateInv
<1> QED BY <1>5, <1>6, <1>7 DEF BoundInv

LEMMA NextKeepsBounds ==
  ASSUME NotStartedAgain, Separate, Finite, Inv, BoundInv, [Next]_vars PROVE BoundInv'
<1>1. CASE Outside
  BY <1>1, OutsideKeepsBounds
<1>2. CASE Dispatch
  BY <1>2, WaitKeepsBounds, UnlinkKeepsBounds, FinishKeepsBounds, YieldLoopKeepsBounds DEF Dispatch
<1>3. CASE Yield
  BY <1>3, YieldKeepsBounds
<1>4. CASE Tick
  BY <1>4, TickKeepsBounds
<1>5. CASE UNCHANGED vars
  BY <1>5 DEF vars, BoundInv, DueInv, RunInv, WakeInv, OutInv, HeadInv, LateInv, Asynchronous,
              Executing
<1> QED BY <1>1, <1>2, <1>3, <1>4, <1>5 DEF Next

\* A task is never put off farther than a period and Lead from the farthest start,
\* and never lies behind by more than MaxLate and one sleep of run(), for any tasks,
\* periods, starts and delays, if the network scheduler does not start again what it
\* has stopped and no other context enqueues while tasks yield.
THEOREM TypeCorrect ==
  ASSUME NotStartedAgain, Separate, Finite PROVE Spec => []TypeOK
<1>1. Init => Inv /\ BoundInv
  BY InitHolds, InitBounds
<1>2. Inv /\ BoundInv /\ [Next]_vars => Inv' /\ BoundInv'
  BY NextKeeps, NextKeepsBounds
<1>3. Inv /\ BoundInv => TypeOK
  <2> SUFFICES ASSUME Inv, BoundInv PROVE TypeOK
    OBVIOUS
  <2>1. due \in [Tasks -> Latest .. Horizon] /\ wake \in Latest .. Horizon
    BY BoundTypes
  <2> QED BY <2>1 DEF Inv, Types, TypeOK, Execution
<1> QED BY <1>1, <1>2, <1>3, PTL DEF Spec

-----------------------------------------------------------------------------
(* The temporal firewall.                                                  *)


Disciplined == Platform = "posix" /\ (WriterPreempts \/ Paced)

-----------------------------------------------------------------------------
(* Types, for both classes and without any discipline.                     *)

\* A writer at work has an event left to write.
FirewallTypeInv == FirewallTypeOK /\ (wpc # "idle" => published < MaxEvents)

\* Both indices stay within the two buffers, and every step of writer and reader is
\* one of theirs, whichever class is compiled and however the two interleave.
THEOREM FirewallTypeCorrect == FirewallSpec => []FirewallTypeOK
<1> USE FirewallAssumption DEF FirewallTypeInv, FirewallTypeOK
<1>1. 0 \in Events /\ Whole(0) \in Contents
  BY DEF Events, Contents, Whole
<1>2. FirewallInit => FirewallTypeInv
  BY <1>1 DEF FirewallInit
<1>3. ASSUME FirewallTypeInv, [FirewallNext]_firewallVars PROVE FirewallTypeInv'
  <2>1. Newer \in Nat /\ (wpc # "idle" => Newer \in Events)
    BY <1>3 DEF Newer, Events
  <2>2. CASE WriteLock
    BY <1>3, <2>2 DEF WriteLock
  <2>3. CASE StoreData
    <3>1. \A b \in {0, 1} : [buffer[b] EXCEPT !.data = Newer] \in Contents
      BY <1>3, <2>1, <2>3 DEF StoreData, Contents
    <3> QED BY <1>3, <2>3, <3>1 DEF StoreData
  <2>4. CASE StoreExpire
    <3>1. \A b \in {0, 1} : [buffer[b] EXCEPT !.expire = Newer] \in Contents
      BY <1>3, <2>1, <2>4 DEF StoreExpire, Contents
    <3> QED BY <1>3, <2>4, <3>1 DEF StoreExpire
  <2>5. CASE WriteUnlock
    <3>1. write' \in {0, 1} /\ published' \in Events /\ wpc' = "idle"
      BY <1>3, <2>1, <2>5 DEF WriteUnlock
    <3>2. swap_after_reading' \in BOOLEAN
      BY <1>3, <2>5, Zenon DEF WriteUnlock
    <3> QED BY <1>3, <2>5, <3>1, <3>2 DEF WriteUnlock
  <2>6. CASE ReadLock
    BY <1>1, <1>3, <2>6 DEF ReadLock, read
  <2>7. CASE ReadExpire
    <3>1. [got EXCEPT !.expire = buffer[rbuf].expire] \in Contents
      BY <1>3 DEF Contents
    <3> QED BY <1>3, <2>7, <3>1 DEF ReadExpire
  <2>8. CASE ReadData
    <3>1. [got EXCEPT !.data = buffer[rbuf].data] \in Contents
      BY <1>3 DEF Contents
    <3> QED BY <1>3, <2>8, <3>1 DEF ReadData
  <2>9. CASE ReadUnlock
    <3>1. write' \in {0, 1}
      BY <1>3, <2>9 DEF ReadUnlock
    <3> QED BY <1>3, <2>9, <3>1 DEF ReadUnlock
  <2>10. CASE UNCHANGED firewallVars
    BY <1>3, <2>10 DEF firewallVars
  <2> QED
    BY <1>3, <2>2, <2>3, <2>4, <2>5, <2>6, <2>7, <2>8, <2>9, <2>10 DEF FirewallNext, Writer, Reader
<1> QED
  BY <1>2, <1>3, PTL DEF FirewallSpec

-----------------------------------------------------------------------------
(* The inductive invariant.                                                *)

\* The reader holds the buffer it locked, and only then a swap is pending.
ReaderInv ==
    /\ reading <=> rpc # "idle"
    /\ swap_after_reading => reading
    /\ rpc # "idle" => rbuf = read

\* The writer is at work on its own buffer, which is not about to be swapped
\* unless the reader cannot move.
WriterInv ==
    /\ wpc # "idle" => wbuf = write /\ published < MaxEvents
    /\ wpc # "idle" /\ ~WriterPreempts => ~swap_after_reading
    /\ wpc \in {"expire", "unlock"} => buffer[write].data = Newer
    /\ wpc = "unlock" => buffer[write].expire = Newer

\* The reader's buffer holds one event, the newest one unless a swap is pending,
\* when the writer's buffer holds it.
BufferInv ==
    /\ buffer[read] = Whole(buffer[read].data)
    /\ buffer[read].data <= published
    /\ ~swap_after_reading => buffer[read] = Whole(published)
    /\ swap_after_reading => buffer[read].data < published
    /\ swap_after_reading /\ wpc = "idle" => buffer[write] = Whole(published)

\* What the reader has read is in its buffer.
GotInv ==
    /\ got.data \in {0, got.expire}
    /\ rpc = "expire" => got = Whole(0)
    /\ rpc = "data" => got.expire = buffer[read].expire

FirewallInv == FirewallTypeOK /\ ReaderInv /\ WriterInv /\ BufferInv /\ GotInv

-----------------------------------------------------------------------------
LEMMA FirewallInitHolds == FirewallInit => FirewallInv
<1> SUFFICES ASSUME FirewallInit PROVE FirewallInv
  OBVIOUS
<1>1. read = 1 /\ buffer[0] = Whole(0) /\ buffer[1] = Whole(0) /\ published = 0
  BY DEF FirewallInit, read
<1>2. FirewallTypeOK
  <2>1. 0 \in Events /\ Whole(0) \in Contents
    BY FirewallAssumption DEF Events, Contents, Whole
  <2> QED
    BY <2>1 DEF FirewallInit, FirewallTypeOK
<1>3. ReaderInv /\ WriterInv /\ GotInv
  BY DEF FirewallInit, ReaderInv, WriterInv, GotInv, Whole
<1>4. BufferInv
  BY <1>1 DEF FirewallInit, BufferInv, Whole
<1> QED
  BY <1>2, <1>3, <1>4 DEF FirewallInv

\* The two indices, and the two fields of a buffer.
LEMMA BufferFacts ==
    ASSUME FirewallTypeOK
    PROVE  /\ read \in {0, 1} /\ read # write /\ 1 - read = write
           /\ \A b \in {0, 1} : \A e \in Events :
                buffer[b].data = e /\ buffer[b].expire = e => buffer[b] = Whole(e)
<1>1. read \in {0, 1} /\ read # write /\ 1 - read = write
  BY DEF FirewallTypeOK, read
<1>2. \A b \in {0, 1} : buffer[b] \in Contents
  BY DEF FirewallTypeOK
<1> QED
  BY <1>1, <1>2 DEF Contents, Whole

LEMMA WriterKeeps ==
    ASSUME Disciplined, FirewallInv, Writer
    PROVE  FirewallInv'
<1> USE FirewallAssumption DEF FirewallInv, FirewallTypeOK, Contents, Events, Whole, read, Newer, Disciplined
<1>1. CASE WriteLock
  BY <1>1 DEF WriteLock, ReaderInv, WriterInv, BufferInv, GotInv
<1>2. CASE StoreData
  BY <1>2 DEF StoreData, ReaderInv, WriterInv, BufferInv, GotInv
<1>3. CASE StoreExpire
  BY <1>3 DEF StoreExpire, ReaderInv, WriterInv, BufferInv, GotInv
<1>4. CASE WriteUnlock
  <2>1. wbuf = write /\ buffer[write].data = Newer /\ buffer[write].expire = Newer
    BY <1>4 DEF WriteUnlock, WriterInv
  <2>2. Newer \in Events /\ published < Newer
    BY <1>4 DEF WriteUnlock, WriterInv
  <2>3. buffer[write] = Whole(Newer)
    BY <2>1, <2>2, BufferFacts
  <2>4. FirewallTypeOK'
    <3>1. write' \in {0, 1} /\ published' \in Events /\ wpc' = "idle"
      BY <1>4, <2>2 DEF WriteUnlock
    <3>3. swap_after_reading' \in BOOLEAN
      BY <1>4, Zenon DEF WriteUnlock
    <3>2. UNCHANGED <<buffer, reading, wbuf, rpc, rbuf, got>>
      BY <1>4 DEF WriteUnlock
    <3> HIDE DEF Contents, Events
    <3> QED
      BY <3>1, <3>2, <3>3
  <2>6. WriterInv' /\ ReaderInv'
    BY <1>4, <2>2 DEF WriteUnlock, WriterInv, ReaderInv
  <2>5. BufferInv' /\ GotInv'
    <3>1. CASE reading
      BY <1>4, <2>2, <2>3, <3>1 DEF WriteUnlock, ReaderInv, BufferInv, GotInv
    <3>2. CASE ~reading
      <4>1. read' = write /\ ~swap_after_reading' /\ rpc' = "idle" /\ rpc' = rpc
        BY <1>4, <3>2 DEF WriteUnlock, ReaderInv
      <4> QED
        BY <1>4, <2>2, <2>3, <3>2, <4>1 DEF WriteUnlock, BufferInv, GotInv
    <3> QED
      BY <3>1, <3>2
  <2> QED
    BY <2>4, <2>5, <2>6
<1> QED
  BY <1>1, <1>2, <1>3, <1>4 DEF Writer

LEMMA ReaderKeeps ==
    ASSUME Disciplined, FirewallInv, Reader
    PROVE  FirewallInv'
<1> USE FirewallAssumption DEF FirewallInv, FirewallTypeOK, Contents, Events, Whole, read, Newer, CanRead,
                               Disciplined
<1>1. CASE ReadLock
  BY <1>1 DEF ReadLock, ReaderInv, WriterInv, BufferInv, GotInv
<1>2. CASE ReadExpire
  BY <1>2 DEF ReadExpire, ReaderInv, WriterInv, BufferInv, GotInv
<1>3. CASE ReadData
  BY <1>3 DEF ReadData, ReaderInv, WriterInv, BufferInv, GotInv
<1>4. CASE ReadUnlock
  <2>1. write' = IF swap_after_reading THEN 1 - write ELSE write
    BY <1>4 DEF ReadUnlock, SwapAtUnlock
  <2>2. swap_after_reading => wpc = "idle"
    BY <1>4 DEF ReadUnlock, WriterInv
  <2>3. FirewallTypeOK' /\ ReaderInv' /\ WriterInv' /\ GotInv'
    BY <1>4, <2>1, <2>2 DEF ReadUnlock, ReaderInv, WriterInv, GotInv
  <2>4. BufferInv'
    <3>1. CASE swap_after_reading
      <4>1. read' = write /\ buffer[write] = Whole(published)
        BY <2>1, <2>2, <3>1 DEF BufferInv
      <4> QED
        BY <1>4, <4>1 DEF ReadUnlock, BufferInv
    <3>2. CASE ~swap_after_reading
      BY <1>4, <2>1, <3>2 DEF ReadUnlock, BufferInv
    <3> QED
      BY <3>1, <3>2
  <2> QED
    BY <2>3, <2>4
<1> QED
  BY <1>1, <1>2, <1>3, <1>4 DEF Reader

LEMMA FirewallInvariant ==
    ASSUME Disciplined
    PROVE  FirewallSpec => []FirewallInv
<1>1. FirewallInv /\ [FirewallNext]_firewallVars => FirewallInv'
  <2> SUFFICES ASSUME FirewallInv, [FirewallNext]_firewallVars PROVE FirewallInv'
    OBVIOUS
  <2>1. CASE UNCHANGED firewallVars
    BY <2>1 DEF firewallVars, FirewallInv, FirewallTypeOK, ReaderInv, WriterInv, BufferInv, GotInv, read, Newer
  <2> QED
    BY <2>1, WriterKeeps, ReaderKeeps DEF FirewallNext
<1> QED
  BY <1>1, FirewallInitHolds, PTL DEF FirewallSpec

\* The event a reader delivers is never mixed from two writes: read_lock() and
\* write_lock() hand out different buffers for as long as they are used.
THEOREM ReadsAreWhole ==
    ASSUME Disciplined
    PROVE  FirewallSpec => []NoTornRead
<1>1. FirewallInv => NoTornRead
  BY DEF FirewallInv, GotInv, NoTornRead
<1> QED
  BY <1>1, FirewallInvariant, PTL

\* read_lock() returns the newest event whose write_unlock() has completed.
THEOREM ReadsAreLatest ==
    ASSUME Disciplined
    PROVE  FirewallSpec => ReaderSeesLatest
<1>1. FirewallInv /\ ReadLock => buffer[read] = Whole(published)
  BY DEF FirewallInv, ReaderInv, BufferInv, ReadLock, FirewallTypeOK
<1>2. FirewallInv /\ [FirewallNext]_firewallVars => [ReadLock => buffer[read] = Whole(published)]_firewallVars
  BY <1>1
<1> QED
  BY <1>2, FirewallInvariant, PTL DEF FirewallSpec, ReaderSeesLatest

\* The buffers are swapped only when the writer has a newer event for the reader.
THEOREM SwapsBringNewer ==
    ASSUME Disciplined
    PROVE  FirewallSpec => SwapBringsNewer
<1>1. ASSUME FirewallInv, FirewallNext, read' # read
      PROVE  buffer[read'].data > buffer[read].data
  <2> USE FirewallAssumption DEF FirewallInv, FirewallTypeOK, Contents, Events, Whole, read, Newer, Disciplined
  <2>1. CASE WriteUnlock
    BY <1>1, <2>1 DEF WriteUnlock, ReaderInv, WriterInv, BufferInv
  <2>2. CASE ReadUnlock
    BY <1>1, <2>2 DEF ReadUnlock, CanRead, SwapAtUnlock, ReaderInv, WriterInv, BufferInv
  <2>3. CASE WriteLock \/ StoreData \/ StoreExpire \/ ReadLock \/ ReadExpire \/ ReadData
    BY <1>1, <2>3 DEF WriteLock, StoreData, StoreExpire, ReadLock, ReadExpire, ReadData
  <2> QED
    BY <1>1, <2>1, <2>2, <2>3 DEF FirewallNext, Writer, Reader
<1>2. FirewallInv /\ [FirewallNext]_firewallVars => [read' # read => buffer[read'].data > buffer[read].data]_firewallVars
  BY <1>1 DEF firewallVars, read
<1> QED
  BY <1>2, FirewallInvariant, PTL DEF FirewallSpec, SwapBringsNewer
=============================================================================
