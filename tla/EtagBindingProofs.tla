------------------------- MODULE EtagBindingProofs -------------------------
(* Theorems about EtagBinding.                                             *)
EXTENDS EtagBinding, FiniteSetTheorems, SequenceTheorems, WellFoundedInduction, TLAPS

Halves == {s[i] : s \in Subjects, i \in {1, 2}}
Frames == [half : Halves, part : {0, 1}, etag : Etags \cup {0}]

\* Whoever is not idle binds a subject.
BusyBinds == \A c \in Clients, x \in 1 .. Contexts :
                 pc[c][x] # "idle" => bsi[c][x].subject \in Subjects

LocalTyped == local = {} \/ \E s \in Subjects, e \in Etags \cup {0} : local = {<<s, e>>}

TypeInv ==
    /\ pc \in [Clients -> [1 .. Contexts -> {"idle", "send", "wait"}]]
    /\ bsi \in [Clients -> [1 .. Contexts -> Info]]
    /\ _bsi \in [Clients -> 0 .. Contexts]
    /\ requests \in [Clients -> Seq(Subjects)]
    /\ etags \in [Etags -> Subjects \cup {UID}]
    /\ answers \in Seq(Frames)
    /\ LocalTyped
    /\ BusyBinds

-----------------------------------------------------------------------------
(* The broker's search for the greatest place of a table.                  *)

LEMMA MinOf ==
  ASSUME NEW T \in SUBSET Nat, T # {}
  PROVE  Min(T) \in T /\ \A y \in T : Min(T) <= y
<1> DEFINE R == {p \in Nat \X Nat : p[1] < p[2]}
<1>1. IsWellFoundedOn(R, Nat)
  BY NatLessThanWellFounded DEF OpToRel
<1>2. PICK x \in T : \A y \in T : <<y, x>> \notin R
  <2> HIDE DEF R
  <2> QED BY <1>1, WFMin, Zenon
<1>3. \A y \in T : x <= y
  <2> TAKE y \in T
  <2>1. x \in Nat /\ y \in Nat /\ <<y, x>> \notin R
    BY <1>2
  <2> QED BY <2>1
<1> QED BY <1>3 DEF Min

LEMMA MaxOf ==
  ASSUME NEW hi \in Int, NEW T \in SUBSET (0 .. hi), T # {}
  PROVE  Max(T) \in T /\ \A y \in T : Max(T) >= y
<1> DEFINE D == {hi - y : y \in T}
<1>1. \A y \in T : y \in Nat /\ hi - y \in Nat /\ hi - y \in D
  OBVIOUS
<1>2. D \in SUBSET Nat /\ D # {}
  BY <1>1
<1>3. Min(D) \in D /\ \A e \in D : Min(D) <= e
  <2> HIDE DEF D
  <2> QED BY <1>2, MinOf
<1>4. PICK x \in T : Min(D) = hi - x
  BY <1>3
<1>5. \A y \in T : hi - x <= hi - y
  BY <1>1, <1>3, <1>4
<1>6. \A y \in T : x >= y
  BY <1>1, <1>5
<1> HIDE DEF D
<1> QED BY <1>6 DEF Max

LEMMA EtagFacts == reserved \in Nat /\ count - 1 \in Int /\ 0 \notin Etags /\ Etags \subseteq Int
BY BindingAssumption DEF Etags

LEMMA PlaceFacts ==
  ASSUME NEW s
  PROVE  \/ Usable(s) = {} /\ Place(s) = 0
         \/ Place(s) \in Usable(s) /\ \A e \in Usable(s) : Place(s) >= e
<1>1. CASE Usable(s) = {}
  BY <1>1 DEF Place
<1>2. CASE Usable(s) # {}
  <2>1. Usable(s) \in SUBSET (0 .. count - 1) BY EtagFacts DEF Usable, Etags
  <2>2. Max(Usable(s)) \in Usable(s) /\ \A e \in Usable(s) : Max(Usable(s)) >= e
    BY <1>2, <2>1, EtagFacts, MaxOf
  <2> QED BY <1>2, <2>2 DEF Place
<1> QED BY <1>1, <1>2

LEMMA PlaceTyped ==
  ASSUME NEW s
  PROVE  Place(s) \in Etags \cup {0}
BY PlaceFacts DEF Usable

LEMMA EnteredTyped ==
  ASSUME etags \in [Etags -> Subjects \cup {UID}], NEW s \in Subjects, NEW e \in Etags \cup {0}
  PROVE  Entered(e, s) \in [Etags -> Subjects \cup {UID}]
BY DEF Entered

LEMMA AnswerTyped ==
  ASSUME NEW s \in Subjects, NEW e \in Etags \cup {0}
  PROVE  /\ Answer(s, e) \in Seq(Frames) /\ Len(Answer(s, e)) = 2
         /\ Answer(s, e)[1] = Half(s, 0, e) /\ Answer(s, e)[2] = Half(s, 1, e)
<1>1. s[1] \in Halves /\ s[2] \in Halves BY DEF Halves
<1>2. Half(s, 0, e) = [half |-> s[1], part |-> 0, etag |-> e] BY DEF Half
<1>3. Half(s, 1, e) = [half |-> s[2], part |-> 1, etag |-> e] BY DEF Half
<1>4. Half(s, 0, e) \in Frames /\ Half(s, 1, e) \in Frames BY <1>1, <1>2, <1>3 DEF Frames
<1> QED BY <1>4 DEF Answer

LEMMA InfoUpdate ==
  ASSUME NEW S, NEW E, NEW R, NEW i \in [subject : S, etag : E, round : R],
         NEW r \in R, NEW e \in E
  PROVE  [i EXCEPT !.round = r, !.etag = e] \in [subject : S, etag : E, round : R]
OBVIOUS

LEMMA AdvanceTyped ==
  ASSUME NEW i \in Info, NEW f \in Frames
  PROVE  Advance(i, f) \in Info /\ Advance(i, f).subject = i.subject
<1>1. i = [subject |-> i.subject, etag |-> i.etag, round |-> i.round] BY DEF Info
<1>2. i.subject \in Subjects \cup {UID} /\ i.etag \in Etags \cup {0} /\ f.etag \in Etags \cup {0}
  BY DEF Info, Frames
<1>3. Advance(i, f) \in Info
  <2>1. [i EXCEPT !.round = 0] \in Info /\ [i EXCEPT !.round = 1] \in Info
    BY <1>1, <1>2 DEF Info
  <2>2. [i EXCEPT !.round = 2, !.etag = f.etag] \in Info
    <3> DEFINE S == Subjects \cup {UID}  E == Etags \cup {0}  R == 0 .. 2
    <3>1. 2 \in R /\ f.etag \in E BY <1>2
    <3>2. i \in [subject : S, etag : E, round : R] BY DEF Info
    <3>3. Info = [subject : S, etag : E, round : R] BY DEF Info
    <3> HIDE DEF S, E, R
    <3> QED BY <3>1, <3>2, <3>3, InfoUpdate
  <2> QED BY <2>1, <2>2 DEF Advance
<1>4. Advance(i, f).subject = i.subject BY <1>1 DEF Advance
<1> QED BY <1>3, <1>4

-----------------------------------------------------------------------------
LEMMA TypeInit == Init => TypeInv
<1> SUFFICES ASSUME Init PROVE TypeInv
  OBVIOUS
<1>1. [subject |-> UID, etag |-> 0, round |-> 0] \in Info BY DEF Info
<1>2. Contexts \in Nat BY BindingAssumption
<1> QED BY <1>1, <1>2 DEF Init, TypeInv, LocalTyped, BusyBinds, NULL

LEMMA TypeStep == TypeInv /\ [Next]_vars => TypeInv'
<1> SUFFICES ASSUME TypeInv, [Next]_vars PROVE TypeInv'
  OBVIOUS
<1>0. Contexts \in Nat BY BindingAssumption
<1>1. ASSUME NEW s \in Subjects, LocalFind(s) PROVE TypeInv'
  BY <1>1, PlaceTyped DEF LocalFind, TypeInv, LocalTyped, BusyBinds, clientVars
<1>2. CASE LocalWrite
  <2>1. PICK s \in Subjects, e \in Etags \cup {0} : local = {<<s, e>>}
    BY <1>2 DEF LocalWrite, TypeInv, LocalTyped
  <2>2. etags' = Entered(e, s) BY <1>2, <2>1 DEF LocalWrite
  <2> QED BY <1>2, <2>2, EnteredTyped DEF LocalWrite, TypeInv, LocalTyped, BusyBinds, clientVars
<1>3. ASSUME NEW c \in Clients, TransmitGet(c) PROVE TypeInv'
  <2> DEFINE s == Head(requests[c])
  <2>1. s \in Subjects /\ Tail(requests[c]) \in Seq(Subjects)
    BY <1>3 DEF TransmitGet, TypeInv
  <2>2. etags' \in [Etags -> Subjects \cup {UID}]
    BY <1>3, <2>1, PlaceTyped, EnteredTyped DEF TransmitGet, TypeInv
  <2>3. answers' \in Seq(Frames)
    BY <1>3, <2>1, PlaceTyped, AnswerTyped DEF TransmitGet, TypeInv
  <2>4. requests' \in [Clients -> Seq(Subjects)]
    BY <1>3, <2>1 DEF TransmitGet, TypeInv
  <2> QED BY <1>3, <2>2, <2>3, <2>4 DEF TransmitGet, TypeInv, LocalTyped, BusyBinds
<1>4. ASSUME NEW c \in Clients, NEW x \in 1 .. Contexts, NEW s \in Subjects, Begin(c, x, s)
      PROVE TypeInv'
  <2>1. [subject |-> s, etag |-> 0, round |-> 0] \in Info BY DEF Info
  <2>2. bsi' \in [Clients -> [1 .. Contexts -> Info]] BY <1>4, <2>1 DEF Begin, TypeInv
  <2>3. pc' \in [Clients -> [1 .. Contexts -> {"idle", "send", "wait"}]]
    BY <1>4 DEF Begin, TypeInv
  <2>4. _bsi' \in [Clients -> 0 .. Contexts] BY <1>0, <1>4 DEF Begin, TypeInv
  <2>5. BusyBinds' BY <1>4 DEF Begin, TypeInv, BusyBinds
  <2> QED BY <1>4, <2>2, <2>3, <2>4, <2>5 DEF Begin, TypeInv, LocalTyped, brokerVars
<1>5. ASSUME NEW c \in Clients, NEW x \in 1 .. Contexts, Send(c, x) PROVE TypeInv'
  <2>1. bsi[c][x].subject \in Subjects BY <1>5 DEF Send, TypeInv, BusyBinds
  <2>2. requests' \in [Clients -> Seq(Subjects)] BY <1>5, <2>1 DEF Send, TypeInv
  <2>3. pc' \in [Clients -> [1 .. Contexts -> {"idle", "send", "wait"}]]
    BY <1>5 DEF Send, TypeInv
  <2>4. BusyBinds' BY <1>5 DEF Send, TypeInv, BusyBinds
  <2> QED BY <1>5, <2>2, <2>3, <2>4 DEF Send, TypeInv, LocalTyped, brokerVars
<1>6. ASSUME NEW c \in Clients, NEW x \in 1 .. Contexts, Return(c, x) PROVE TypeInv'
  BY <1>6 DEF Return, TypeInv, LocalTyped, BusyBinds, brokerVars
<1>7. CASE TransmitSupply
  <2>1. Head(answers) \in Frames /\ answers' \in Seq(Frames)
    BY <1>7 DEF TransmitSupply, TypeInv
  <2>2. PICK served \in SUBSET Clients :
          /\ \A c \in served : _bsi[c] # NULL
          /\ bsi' = [c \in Clients |-> IF c \in served
                       THEN [bsi[c] EXCEPT ![_bsi[c]] = Advance(bsi[c][_bsi[c]], Head(answers))]
                       ELSE bsi[c]]
          /\ _bsi' = [c \in Clients |->
                       IF c \in served /\ Advance(bsi[c][_bsi[c]], Head(answers)).round = 2
                       THEN NULL ELSE _bsi[c]]
    BY <1>7 DEF TransmitSupply
  <2>3. bsi' \in [Clients -> [1 .. Contexts -> Info]]
    <3>1. ASSUME NEW c \in served
          PROVE [bsi[c] EXCEPT ![_bsi[c]] = Advance(bsi[c][_bsi[c]], Head(answers))]
                   \in [1 .. Contexts -> Info]
      <4>1. _bsi[c] \in 1 .. Contexts BY <1>0, <2>2 DEF TypeInv, NULL
      <4>2. Advance(bsi[c][_bsi[c]], Head(answers)) \in Info
        BY <2>1, <4>1, AdvanceTyped DEF TypeInv
      <4> QED BY <4>2 DEF TypeInv
    <3> QED BY <2>2, <3>1 DEF TypeInv
  <2>4. _bsi' \in [Clients -> 0 .. Contexts] BY <1>0, <2>2 DEF TypeInv, NULL
  <2>5. BusyBinds'
    <3> SUFFICES ASSUME NEW c \in Clients, NEW x \in 1 .. Contexts, pc'[c][x] # "idle"
                 PROVE  bsi'[c][x].subject \in Subjects
      BY DEF BusyBinds
    <3>1. pc' = pc BY <1>7 DEF TransmitSupply
    <3>2. bsi[c][x].subject \in Subjects BY <3>1 DEF TypeInv, BusyBinds
    <3>3. bsi[c][x] \in Info /\ bsi[c] \in [1 .. Contexts -> Info] BY DEF TypeInv
    <3>4. CASE c \in served /\ _bsi[c] = x
      <4>1. bsi'[c][x] = Advance(bsi[c][x], Head(answers)) BY <2>2, <3>3, <3>4
      <4> QED BY <4>1, <3>2, <3>3, <2>1, AdvanceTyped
    <3>5. CASE ~(c \in served /\ _bsi[c] = x)
      <4>1. bsi'[c][x] = bsi[c][x] BY <2>2, <3>3, <3>5
      <4> QED BY <4>1, <3>2
    <3> QED BY <3>4, <3>5
  <2> QED BY <1>7, <2>1, <2>3, <2>4, <2>5 DEF TransmitSupply, TypeInv, LocalTyped
<1>8. CASE UNCHANGED vars
  BY <1>8 DEF vars, clientVars, brokerVars, TypeInv, LocalTyped, BusyBinds
<1> QED BY <1>1, <1>2, <1>3, <1>4, <1>5, <1>6, <1>7, <1>8 DEF Next

-----------------------------------------------------------------------------
(* The protocol as the code relies on it: one bind at a time on a client, a *)
(* bus that loses nothing, and no request within a bind of the broker.      *)
Reliable == Contexts = 1 /\ MaxLost = 0 /\ LocalPreempted = FALSE

\* A reply that tells the truth, now and ever after.
Entry(s, e) ==
    /\ s \in Subjects
    /\ \/ e = 0 /\ Usable(s) = {}
       \/ e \in Etags /\ etags[e] = s

TopDown == \A d, e \in Etags : etags[d] = UID /\ etags[e] # UID => d < e

Pair(j) == Entry(<<answers[j].half, answers[j + 1].half>>, answers[j + 1].etag)

Pairs == \A j \in 1 .. Len(answers) : answers[j].part = 0 =>
             j + 1 \in 1 .. Len(answers) /\ answers[j + 1].part = 1 /\ Pair(j)

Waiting(c) == _bsi[c] = 1 =>
    /\ pc[c][1] # "idle"
    /\ bsi[c][1].round \in {0, 1}
    /\ bsi[c][1].round = 1 =>
         /\ answers # <<>> /\ answers[1].part = 1
         /\ Entry(<<bsi[c][1].subject[1], answers[1].half>>, answers[1].etag)

Answered(c) == _bsi[c] = NULL /\ pc[c][1] # "idle" => Entry(bsi[c][1].subject, bsi[c][1].etag)

LocalPlace == \A p \in local : p[1] \in Subjects /\ p[2] = Place(p[1])

BindInv ==
    /\ TopDown
    /\ Pairs
    /\ LocalPlace
    /\ lost = 0
    /\ \A c \in Clients : Waiting(c) /\ Answered(c)

-----------------------------------------------------------------------------
(* Entering a subject.                                                     *)

LEMMA EnterCases ==
  ASSUME TypeInv, TopDown, NEW s \in Subjects
  PROVE  \/ Place(s) = 0 /\ Usable(s) = {} /\ Entered(Place(s), s) = etags
         \/ Place(s) \in Etags /\ etags[Place(s)] = s /\ Entered(Place(s), s) = etags
         \/ /\ Place(s) \in Etags /\ etags[Place(s)] = UID
            /\ \A e \in Etags : etags[e] # s
            /\ \A e \in Etags : etags[e] = UID => e <= Place(s)
            /\ Entered(Place(s), s) = [etags EXCEPT ![Place(s)] = s]
<1> DEFINE p == Place(s)
<1>1. CASE p = 0
  BY <1>1, PlaceFacts, EtagFacts DEF Usable, Entered
<1>2. CASE p # 0
  <2>1. p \in Etags /\ (etags[p] = UID \/ etags[p] = s) /\ \A e \in Usable(s) : p >= e
    BY <1>2, PlaceFacts DEF Usable
  <2>2. p \in Int /\ \A e \in Etags : e \in Int BY <2>1, EtagFacts
  <2>3. s # UID BY BindingAssumption
  <2>4. Entered(p, s) = [etags EXCEPT ![p] = s] BY <1>2 DEF Entered
  <2>5. CASE etags[p] = s
    <3>1. [etags EXCEPT ![p] = s] = etags BY <2>5, <2>1 DEF TypeInv
    <3> QED BY <2>1, <2>4, <2>5, <3>1
  <2>6. CASE etags[p] = UID
    <3>1. ASSUME NEW e \in Etags, etags[e] = s PROVE FALSE
      <4>1. p < e BY <2>1, <2>3, <2>6, <3>1 DEF TopDown
      <4>2. e \in Usable(s) BY <3>1 DEF Usable
      <4> QED BY <2>1, <2>2, <4>1, <4>2
    <3>2. ASSUME NEW e \in Etags, etags[e] = UID PROVE e <= p
      <4>1. e \in Usable(s) BY <3>2 DEF Usable
      <4> QED BY <2>1, <2>2, <4>1
    <3> QED BY <2>1, <2>4, <2>6, <3>1, <3>2
  <2> QED BY <2>1, <2>5, <2>6
<1> QED BY <1>1, <1>2

\* No reply becomes untrue by it, and the reply that is given is true.
LEMMA EnterKeeps ==
  ASSUME TypeInv, TopDown, NEW s \in Subjects, NEW p, p = Place(s), etags' = Entered(p, s)
  PROVE  /\ TopDown'
         /\ \A t, e : Entry(t, e) => Entry(t, e)'
         /\ Entry(s, p)'
<1>0. s # UID /\ 0 \notin Etags /\ Etags \subseteq Int BY BindingAssumption, EtagFacts
<1>1. CASE etags' = etags /\ Entry(s, p)
  BY <1>1 DEF TopDown, Entry, Usable
<1>2. CASE /\ p \in Etags /\ etags[p] = UID
           /\ \A e \in Etags : etags[e] # s
           /\ \A e \in Etags : etags[e] = UID => e <= p
           /\ etags' = [etags EXCEPT ![p] = s]
  <2>1. etags'[p] = s /\ \A e \in Etags \ {p} : etags'[e] = etags[e]
    BY <1>2 DEF TypeInv
  <2>2. TopDown'
    <3> SUFFICES ASSUME NEW d \in Etags, NEW e \in Etags, etags'[d] = UID, etags'[e] # UID
                 PROVE  d < e
      BY DEF TopDown
    <3>1. d # p /\ etags[d] = UID BY <2>1, <1>0
    <3>2. CASE e = p
      BY <3>1, <3>2, <1>2, <1>0
    <3>3. CASE e # p
      BY <3>1, <3>3, <2>1 DEF TopDown
    <3> QED BY <3>2, <3>3
  <2>3. ASSUME NEW t, NEW e, Entry(t, e) PROVE Entry(t, e)'
    <3>1. t \in Subjects /\ t # UID BY <2>3, BindingAssumption DEF Entry
    <3>2. p \in Usable(t) BY <1>2 DEF Usable
    <3>3. e \in Etags /\ etags[e] = t BY <2>3, <3>2 DEF Entry
    <3>4. e # p BY <3>1, <3>3, <1>2
    <3> QED BY <3>1, <3>3, <3>4, <2>1 DEF Entry
  <2>4. Entry(s, p)'
    BY <1>2, <2>1 DEF Entry
  <2> QED BY <2>2, <2>3, <2>4
<1> QED BY <1>1, <1>2, EnterCases DEF Entry

-----------------------------------------------------------------------------
LEMMA BindInit ==
  ASSUME Reliable
  PROVE  Init => BindInv
<1> SUFFICES ASSUME Init PROVE BindInv
  OBVIOUS
<1>1. TopDown BY DEF Init, TopDown
<1>2. Pairs BY DEF Init, Pairs
<1>3. \A c \in Clients : Waiting(c) /\ Answered(c)
  BY DEF Init, Waiting, Answered, NULL, Reliable
<1> QED BY <1>1, <1>2, <1>3 DEF Init, BindInv, LocalPlace

Kept == \A t, e : Entry(t, e) => Entry(t, e)'

\* What the broker does disturbs no client.
LEMMA ClientsKept ==
  ASSUME BindInv, Kept, UNCHANGED clientVars,
         answers # <<>> => answers' # <<>> /\ answers'[1] = answers[1]
  PROVE  \A c \in Clients : (Waiting(c) /\ Answered(c))'
<1> SUFFICES ASSUME NEW c \in Clients PROVE Waiting(c)' /\ Answered(c)'
  OBVIOUS
<1>1. Waiting(c) /\ Answered(c) BY DEF BindInv
<1>2. pc' = pc /\ bsi' = bsi /\ _bsi' = _bsi BY DEF clientVars
<1>3. Answered(c)' BY <1>1, <1>2 DEF Answered, Kept
<1>4. Waiting(c)' BY <1>1, <1>2 DEF Waiting, Kept
<1> QED BY <1>3, <1>4

LEMMA PairsKept ==
  ASSUME Pairs, Kept, UNCHANGED answers
  PROVE  Pairs'
BY DEF Pairs, Pair, Kept

LEMMA EntriesUnchanged == UNCHANGED etags => Kept /\ (TopDown => TopDown') /\ \A s : Place(s)' = Place(s)
BY DEF Kept, Entry, Usable, TopDown, Place

LEMMA ConcatTwo ==
  ASSUME NEW S, NEW a \in Seq(S), NEW b \in Seq(S), Len(b) = 2
  PROVE  /\ Len(a \o b) = Len(a) + 2
         /\ \A k \in 1 .. Len(a) : (a \o b)[k] = a[k]
         /\ (a \o b)[Len(a) + 1] = b[1] /\ (a \o b)[Len(a) + 2] = b[2]
<1>1. Len(a) \in Nat OBVIOUS
<1>2. /\ Len(a \o b) = Len(a) + 2
      /\ \A i \in 1 .. Len(a) + 2 : (a \o b)[i] = IF i <= Len(a) THEN a[i] ELSE b[i - Len(a)]
  <2>1. /\ Len(a \o b) = Len(a) + Len(b)
        /\ \A i \in 1 .. Len(a) + Len(b) :
              (a \o b)[i] = IF i <= Len(a) THEN a[i] ELSE b[i - Len(a)]
    BY ConcatProperties, Zenon
  <2> QED BY <2>1, Zenon
<1>3. (a \o b)[Len(a) + 1] = b[1] /\ (a \o b)[Len(a) + 2] = b[2]
  <2> DEFINE n == Len(a)
  <2>1. n + 1 \in 1 .. n + 2 /\ n + 2 \in 1 .. n + 2 /\ ~(n + 1 <= n) /\ ~(n + 2 <= n) BY <1>1
  <2>2. (n + 1) - n = 1 /\ (n + 2) - n = 2 BY <1>1
  <2>3. (a \o b)[n + 1] = b[(n + 1) - n] /\ (a \o b)[n + 2] = b[(n + 2) - n] BY <1>2, <2>1
  <2> QED BY <2>2, <2>3
<1>4. \A k \in 1 .. Len(a) : k \in 1 .. Len(a) + 2 /\ k <= Len(a) BY <1>1
<1> QED BY <1>2, <1>3, <1>4

LEMMA StepGet ==
  ASSUME Reliable, TypeInv, BindInv, NEW c \in Clients, TransmitGet(c)
  PROVE  BindInv'
<1> DEFINE n == Len(answers)
<1>1. requests[c] \in Seq(Subjects) /\ requests[c] # <<>> BY DEF TypeInv, TransmitGet
<1>2. PICK s \in Subjects : s = Head(requests[c]) BY <1>1
<1>3. PICK p : p = Place(s) OBVIOUS
<1>4. /\ etags' = Entered(p, s) /\ answers' = answers \o Answer(s, p)
      /\ local' = local /\ lost' = lost /\ pc' = pc /\ bsi' = bsi /\ _bsi' = _bsi
  BY <1>2, <1>3 DEF TransmitGet
<1>5. TopDown' /\ Kept /\ Entry(s, p)'
  BY <1>2, <1>3, <1>4, EnterKeeps DEF BindInv, Kept
<1>6. local = {} BY DEF TransmitGet, Reliable
<1>7. p \in Etags \cup {0} BY <1>3, PlaceTyped
<1>8. /\ answers \in Seq(Frames) /\ Answer(s, p) \in Seq(Frames) /\ Len(Answer(s, p)) = 2
      /\ Answer(s, p)[1] = Half(s, 0, p) /\ Answer(s, p)[2] = Half(s, 1, p)
  BY <1>7, AnswerTyped DEF TypeInv
<1>9. /\ Len(answers') = n + 2 /\ n \in Nat
      /\ \A k \in 1 .. n : answers'[k] = answers[k]
      /\ answers'[n + 1] = Half(s, 0, p) /\ answers'[n + 2] = Half(s, 1, p)
  <2> DEFINE m == Answer(s, p)
  <2>1. answers \in Seq(Frames) /\ m \in Seq(Frames) /\ Len(m) = 2 /\ answers' = answers \o m
    BY <1>4, <1>8
  <2>2. m[1] = Half(s, 0, p) /\ m[2] = Half(s, 1, p) BY <1>8
  <2> HIDE DEF m
  <2>3. n \in Nat BY <2>1
  <2>4. PICK ab : ab = answers \o m OBVIOUS
  <2>5. Len(ab) = n + 2 /\ (\A k \in 1 .. n : ab[k] = answers[k])
        /\ ab[n + 1] = m[1] /\ ab[n + 2] = m[2]
    BY <2>1, <2>4, ConcatTwo
  <2> HIDE DEF n
  <2>6. answers' = ab BY <2>1, <2>4
  <2> QED BY <2>2, <2>3, <2>5, <2>6
<1>10. Pairs'
  <2> SUFFICES ASSUME NEW j \in 1 .. Len(answers'), answers'[j].part = 0
               PROVE  /\ j + 1 \in 1 .. Len(answers') /\ answers'[j + 1].part = 1
                      /\ Pair(j)'
    BY DEF Pairs
  <2>1. CASE j \in 1 .. n
    <3>1. answers[j].part = 0 BY <1>9, <2>1
    <3>2. j + 1 \in 1 .. n /\ answers[j + 1].part = 1 /\ Pair(j)
      BY <2>1, <3>1 DEF BindInv, Pairs
    <3>3. answers'[j] = answers[j] /\ answers'[j + 1] = answers[j + 1] BY <1>9, <2>1, <3>2
    <3>4. j + 1 \in 1 .. Len(answers') BY <1>9, <3>2
    <3>5. Entry(<<answers[j].half, answers[j + 1].half>>, answers[j + 1].etag) BY <3>2 DEF Pair
    <3>6. Pair(j)' BY <1>5, <3>3, <3>5 DEF Pair, Kept
    <3> QED BY <3>2, <3>3, <3>4, <3>6
  <2>2. CASE j = n + 1
    <3>1. s = <<s[1], s[2]>> BY BindingAssumption
    <3>2. answers'[j] = [half |-> s[1], part |-> 0, etag |-> p] BY <1>9, <2>2 DEF Half
    <3>3. answers'[j + 1] = [half |-> s[2], part |-> 1, etag |-> p] BY <1>9, <2>2 DEF Half
    <3>4. j + 1 \in 1 .. Len(answers') BY <1>9, <2>2
    <3>5. Pair(j)' BY <1>5, <3>1, <3>2, <3>3 DEF Pair
    <3> QED BY <3>3, <3>4, <3>5
  <2>3. CASE j = n + 2
    BY <1>9, <2>3 DEF Half
  <2> QED BY <1>9, <2>1, <2>2, <2>3
<1>11. \A d \in Clients : (Waiting(d) /\ Answered(d))'
  <2> SUFFICES ASSUME NEW d \in Clients PROVE Waiting(d)' /\ Answered(d)'
    OBVIOUS
  <2>1. Waiting(d) /\ Answered(d) BY DEF BindInv
  <2>2. Answered(d)' BY <1>4, <1>5, <2>1 DEF Answered, Kept
  <2>3. answers # <<>> => answers' # <<>> /\ answers'[1] = answers[1]
    BY <1>8, <1>9
  <2>4. Waiting(d)' BY <1>4, <1>5, <2>1, <2>3 DEF Waiting, Kept
  <2> QED BY <2>2, <2>4
<1> QED BY <1>4, <1>5, <1>6, <1>10, <1>11 DEF BindInv, LocalPlace

LEMMA StepLocal ==
  ASSUME Reliable, TypeInv, BindInv, LocalWrite \/ \E s \in Subjects : LocalFind(s)
  PROVE  BindInv'
<1>1. ASSUME NEW s \in Subjects, LocalFind(s) PROVE BindInv'
  <2>1. etags' = etags /\ answers' = answers /\ UNCHANGED clientVars /\ lost' = lost
    BY <1>1 DEF LocalFind
  <2>2. Kept /\ TopDown' /\ Place(s)' = Place(s)
    BY <2>1, EntriesUnchanged DEF BindInv
  <2>3. LocalPlace' BY <1>1, <2>2 DEF LocalFind, LocalPlace
  <2> QED BY <2>1, <2>2, <2>3, PairsKept, ClientsKept DEF BindInv
<1>2. CASE LocalWrite
  <2>1. PICK s \in Subjects, e \in Etags \cup {0} : local = {<<s, e>>}
    BY <1>2 DEF LocalWrite, TypeInv, LocalTyped
  <2>2. e = Place(s) BY <2>1 DEF BindInv, LocalPlace
  <2>3. etags' = Entered(e, s) BY <1>2, <2>1 DEF LocalWrite
  <2>4. TopDown' /\ Kept BY <2>2, <2>3, EnterKeeps DEF BindInv, Kept
  <2>5. answers' = answers /\ UNCHANGED clientVars /\ lost' = lost /\ local' = {}
    BY <1>2 DEF LocalWrite
  <2>6. LocalPlace' BY <2>5 DEF LocalPlace
  <2> QED BY <2>4, <2>5, <2>6, PairsKept, ClientsKept DEF BindInv
<1> QED BY <1>1, <1>2

\* A step of a client that leaves the broker alone.
LEMMA BrokerKept ==
  ASSUME BindInv, UNCHANGED <<brokerVars, lost>>
  PROVE  Kept /\ TopDown' /\ Pairs' /\ LocalPlace' /\ lost' = 0
<1>1. etags' = etags /\ answers' = answers /\ local' = local /\ lost' = lost BY DEF brokerVars
<1>2. Kept /\ TopDown' /\ \A s : Place(s)' = Place(s) BY <1>1, EntriesUnchanged DEF BindInv
<1>3. Pairs' BY <1>1, <1>2, PairsKept DEF BindInv
<1>4. LocalPlace' BY <1>1, <1>2 DEF BindInv, LocalPlace
<1> QED BY <1>1, <1>2, <1>3, <1>4 DEF BindInv

LEMMA StepClient ==
  ASSUME Reliable, TypeInv, BindInv, NEW c \in Clients,
         \/ Send(c, 1)
         \/ Return(c, 1)
         \/ \E s \in Subjects : Begin(c, 1, s)
  PROVE  BindInv'
<1>0. 1 .. Contexts = {1} /\ 0 .. Contexts = {0, 1} BY DEF Reliable
<1>1. UNCHANGED <<brokerVars, lost>> BY DEF Send, Return, Begin
<1>2. Kept /\ TopDown' /\ Pairs' /\ LocalPlace' /\ lost' = 0 /\ answers' = answers
  BY <1>1, BrokerKept DEF brokerVars
<1>3. ASSUME NEW d \in Clients PROVE Waiting(d)' /\ Answered(d)'
  <2>1. Waiting(d) /\ Answered(d) BY DEF BindInv
  <2>2. pc[d] \in [{1} -> {"idle", "send", "wait"}] /\ bsi[d] \in [{1} -> Info] /\ _bsi[d] \in {0, 1}
    BY <1>0 DEF TypeInv
  <2>3. CASE d # c
    <3>1. pc'[d] = pc[d] /\ bsi'[d] = bsi[d] /\ _bsi'[d] = _bsi[d]
      BY <2>3 DEF Send, Return, Begin, TypeInv
    <3> QED BY <1>2, <2>1, <3>1 DEF Waiting, Answered, Kept
  <2>4. ASSUME d = c, Send(c, 1) PROVE Waiting(d)' /\ Answered(d)'
    <3>1. pc'[d][1] = "wait" /\ pc[d][1] # "idle" /\ bsi' = bsi /\ _bsi' = _bsi
      BY <2>2, <2>4 DEF Send, TypeInv
    <3> QED BY <1>2, <2>1, <3>1 DEF Waiting, Answered, Kept
  <2>5. ASSUME d = c, Return(c, 1) PROVE Waiting(d)' /\ Answered(d)'
    <3>1. pc'[d][1] = "idle" /\ _bsi'[d] = NULL
      BY <2>2, <2>5 DEF Return, TypeInv
    <3> QED BY <3>1 DEF Waiting, Answered, NULL
  <2>6. ASSUME d = c, NEW s \in Subjects, Begin(c, 1, s) PROVE Waiting(d)' /\ Answered(d)'
    <3>1. pc'[d][1] = "send" /\ _bsi'[d] = 1 BY <2>2, <2>6 DEF Begin, TypeInv
    <3>2. bsi'[d][1] = [subject |-> s, etag |-> 0, round |-> 0] BY <2>2, <2>6 DEF Begin, TypeInv
    <3> QED BY <3>1, <3>2 DEF Waiting, Answered, NULL
  <2> QED BY <2>3, <2>4, <2>5, <2>6
<1> QED BY <1>2, <1>3 DEF BindInv

\* With no frame lost, the frame reaches every client that binds.
LEMMA AllServed ==
  ASSUME Reliable, TypeInv, BindInv, TransmitSupply
  PROVE  /\ lost' = 0
         /\ \A c \in Clients :
              LET after == Advance(bsi[c][1], Head(answers)) IN
              IF _bsi[c] = 1
              THEN /\ bsi'[c][1] = after
                   /\ _bsi'[c] = IF after.round = 2 THEN NULL ELSE 1
              ELSE bsi'[c] = bsi[c] /\ _bsi'[c] = _bsi[c]
<1>0. 1 .. Contexts = {1} /\ 0 .. Contexts = {0, 1} BY DEF Reliable
<1>1. PICK deaf \in SUBSET Clients :
        LET f        == Head(answers)
            served   == {c \in Clients \ deaf : _bsi[c] # NULL}
            after(c) == Advance(bsi[c][_bsi[c]], f)
        IN  /\ lost + Cardinality(deaf) <= MaxLost
            /\ lost' = lost + Cardinality(deaf)
            /\ bsi' = [c \in Clients |-> IF c \in served THEN [bsi[c] EXCEPT ![_bsi[c]] = after(c)]
                                         ELSE bsi[c]]
            /\ _bsi' = [c \in Clients |-> IF c \in served /\ after(c).round = 2 THEN NULL
                                          ELSE _bsi[c]]
  BY DEF TransmitSupply
<1>2. deaf = {} /\ lost' = 0
  <2>1. IsFiniteSet(deaf) BY BindingAssumption, FS_Subset
  <2>2. Cardinality(deaf) \in Nat BY <2>1, FS_CardinalityType
  <2>3. lost = 0 /\ MaxLost = 0 BY DEF BindInv, Reliable
  <2>4. Cardinality(deaf) = 0 /\ lost' = 0 BY <1>1, <2>2, <2>3
  <2> QED BY <2>1, <2>4, FS_EmptySet
<1>3. ASSUME NEW c \in Clients, _bsi[c] = 1
      PROVE  LET after == Advance(bsi[c][1], Head(answers)) IN
             bsi'[c][1] = after /\ _bsi'[c] = IF after.round = 2 THEN NULL ELSE 1
  <2>1. c \in {d \in Clients \ deaf : _bsi[d] # NULL} BY <1>2, <1>3 DEF NULL
  <2>2. bsi'[c] = [bsi[c] EXCEPT ![1] = Advance(bsi[c][1], Head(answers))]
    BY <1>1, <1>3, <2>1
  <2>3. bsi[c] \in [{1} -> Info] BY <1>0 DEF TypeInv
  <2>4. _bsi'[c] = IF Advance(bsi[c][1], Head(answers)).round = 2 THEN NULL ELSE 1
    BY <1>1, <1>3, <2>1
  <2> QED BY <2>2, <2>3, <2>4
<1>4. ASSUME NEW c \in Clients, _bsi[c] # 1
      PROVE  bsi'[c] = bsi[c] /\ _bsi'[c] = _bsi[c]
  <2>1. _bsi[c] = NULL BY <1>0, <1>4 DEF TypeInv, NULL
  <2> QED BY <1>1, <2>1
<1> QED BY <1>2, <1>3, <1>4

LEMMA AdvanceCases ==
  ASSUME NEW i \in Info, NEW f \in Frames, i.round \in {0, 1}
  PROVE  LET after == Advance(i, f) IN
         /\ after.subject = i.subject
         /\ \/ after.round = 0
            \/ i.round = 1 /\ f.part = 0 /\ after = i
            \/ i.round = 0 /\ f.part = 0 /\ i.subject[1] = f.half /\ after.round = 1
            \/ i.round = 1 /\ f.part = 1 /\ i.subject[2] = f.half /\ after.round = 2 /\ after.etag = f.etag
<1>1. Advance(i, f).subject = i.subject BY AdvanceTyped
<1>2. f.part \in {0, 1} BY DEF Frames
<1>3. [i EXCEPT !.round = 0].round = 0 /\ [i EXCEPT !.round = 1].round = 1 BY DEF Info
<1>4. /\ [i EXCEPT !.round = 2, !.etag = f.etag].round = 2
      /\ [i EXCEPT !.round = 2, !.etag = f.etag].etag = f.etag
  BY DEF Info
<1>5. CASE i.round = 0 /\ f.part = 0
  BY <1>1, <1>3, <1>5 DEF Advance
<1>6. CASE i.round = 1 /\ f.part = 1
  BY <1>1, <1>3, <1>4, <1>6 DEF Advance
<1>7. CASE i.round # f.part
  BY <1>1, <1>2, <1>7 DEF Advance
<1> QED BY <1>2, <1>5, <1>6, <1>7

LEMMA StepSupply ==
  ASSUME Reliable, TypeInv, BindInv, TransmitSupply
  PROVE  BindInv'
<1>1. /\ etags' = etags /\ local' = local /\ pc' = pc
      /\ answers \in Seq(Frames) /\ answers # <<>> /\ answers' = Tail(answers)
  BY DEF TransmitSupply, TypeInv
<1>2. Kept /\ TopDown' /\ \A s : Place(s)' = Place(s)
  BY <1>1, EntriesUnchanged DEF BindInv
<1>3. LocalPlace' BY <1>1, <1>2 DEF BindInv, LocalPlace
<1>4. /\ Len(answers) \in Nat /\ Len(answers') = Len(answers) - 1
      /\ \A j \in 1 .. Len(answers') : answers'[j] = answers[j + 1]
  BY <1>1
<1>5. Pairs'
  <2> SUFFICES ASSUME NEW j \in 1 .. Len(answers'), answers'[j].part = 0
               PROVE  j + 1 \in 1 .. Len(answers') /\ answers'[j + 1].part = 1 /\ Pair(j)'
    BY DEF Pairs
  <2>1. j + 1 \in 1 .. Len(answers) /\ answers[j + 1].part = 0 BY <1>4
  <2>2. (j + 1) + 1 \in 1 .. Len(answers) /\ answers[(j + 1) + 1].part = 1 /\ Pair(j + 1)
    BY <2>1 DEF BindInv, Pairs
  <2>3. j + 1 \in 1 .. Len(answers') BY <1>4, <2>2
  <2>4. answers'[j] = answers[j + 1] /\ answers'[j + 1] = answers[(j + 1) + 1] BY <1>4, <2>3
  <2>5. Pair(j)' BY <1>2, <2>2, <2>4 DEF Pair, Kept
  <2> QED BY <2>2, <2>3, <2>4, <2>5
<1>6. ASSUME NEW c \in Clients PROVE Waiting(c)' /\ Answered(c)'
  <2>1. Waiting(c) /\ Answered(c) BY DEF BindInv
  <2>2. 1 .. Contexts = {1} /\ 0 .. Contexts = {0, 1} BY DEF Reliable
  <2>3. bsi[c][1] \in Info /\ _bsi[c] \in {0, 1} BY <2>2 DEF TypeInv
  <2>4. CASE _bsi[c] # 1
    <3>1. bsi'[c] = bsi[c] /\ _bsi'[c] = _bsi[c] BY <2>4, AllServed
    <3> QED BY <1>1, <1>2, <2>1, <2>4, <3>1 DEF Waiting, Answered, Kept
  <2>5. CASE _bsi[c] = 1
    <3> DEFINE i == bsi[c][1]
               f == answers[1]
    <3>1. f \in Frames /\ f = Head(answers) BY <1>1
    <3>2. PICK after : after = Advance(i, f) OBVIOUS
    <3>3. bsi'[c][1] = after /\ _bsi'[c] = IF after.round = 2 THEN NULL ELSE 1
      BY <2>5, <3>1, <3>2, AllServed
    <3>4. pc[c][1] # "idle" /\ i.round \in {0, 1}
          /\ (i.round = 1 => f.part = 1 /\ Entry(<<i.subject[1], f.half>>, f.etag))
      BY <2>1, <2>5 DEF Waiting
    <3>5. i.subject \in Subjects BY <2>2, <3>4 DEF TypeInv, BusyBinds
    <3>6. /\ after.subject = i.subject
          /\ \/ after.round = 0
             \/ i.round = 0 /\ f.part = 0 /\ i.subject[1] = f.half /\ after.round = 1
             \/ i.round = 1 /\ i.subject[2] = f.half /\ after.round = 2 /\ after.etag = f.etag
      BY <2>3, <3>1, <3>2, <3>4, AdvanceCases
    <3>7. pc'[c][1] # "idle" BY <1>1, <3>4
    <3>8. CASE after.round = 0
      <4>1. _bsi'[c] = 1 /\ bsi'[c][1].round = 0 BY <3>3, <3>8
      <4> QED BY <3>7, <4>1 DEF Waiting, Answered, NULL
    <3>9. CASE f.part = 0 /\ i.subject[1] = f.half /\ after.round = 1
      <4>1. 1 \in 1 .. Len(answers) BY <1>1
      <4>2. 1 + 1 \in 1 .. Len(answers) /\ answers[1 + 1].part = 1 /\ Pair(1)
        BY <3>9, <4>1 DEF BindInv, Pairs
      <4>3. 1 \in 1 .. Len(answers') /\ answers'[1] = answers[1 + 1] BY <1>4, <4>2
      <4>4. answers' # <<>> BY <4>3
      <4>5. _bsi'[c] = 1 /\ bsi'[c][1].round = 1 /\ bsi'[c][1].subject[1] = f.half
        BY <3>3, <3>6, <3>9
      <4>6. Entry(<<f.half, answers[1 + 1].half>>, answers[1 + 1].etag) BY <4>2 DEF Pair
      <4>7. Entry(<<bsi[c][1].subject[1], answers[1].half>>, answers[1].etag)'
        BY <1>2, <4>3, <4>5, <4>6 DEF Kept
      <4> QED BY <3>7, <4>2, <4>3, <4>4, <4>5, <4>7 DEF Waiting, Answered, NULL
    <3>10. CASE i.round = 1 /\ i.subject[2] = f.half /\ after.round = 2 /\ after.etag = f.etag
      <4>1. i.subject = <<i.subject[1], i.subject[2]>> BY <3>5, BindingAssumption
      <4>2. Entry(i.subject, f.etag) BY <3>4, <3>10, <4>1
      <4>3. _bsi'[c] = NULL /\ bsi'[c][1].subject = i.subject /\ bsi'[c][1].etag = f.etag
        BY <3>3, <3>6, <3>10
      <4>4. Entry(bsi[c][1].subject, bsi[c][1].etag)' BY <1>2, <4>2, <4>3 DEF Kept
      <4> QED BY <4>3, <4>4 DEF Waiting, Answered, NULL
    <3> QED BY <3>6, <3>8, <3>9, <3>10
  <2> QED BY <2>4, <2>5
<1>7. lost' = 0 BY AllServed
<1> QED BY <1>2, <1>3, <1>5, <1>6, <1>7 DEF BindInv

LEMMA BindStep ==
  ASSUME Reliable
  PROVE  TypeInv /\ BindInv /\ [Next]_vars => BindInv'
<1> SUFFICES ASSUME TypeInv, BindInv, [Next]_vars PROVE BindInv'
  OBVIOUS
<1>1. ASSUME NEW c \in Clients, NEW x \in 1 .. Contexts,
             Send(c, x) \/ Return(c, x) \/ \E s \in Subjects : Begin(c, x, s)
      PROVE  BindInv'
  <2>1. x = 1 BY DEF Reliable
  <2> QED BY <1>1, <2>1, StepClient
<1>2. CASE UNCHANGED vars
  <2>1. UNCHANGED <<brokerVars, lost>> /\ UNCHANGED clientVars /\ answers' = answers
    BY <1>2 DEF vars, brokerVars
  <2>2. Kept /\ TopDown' /\ Pairs' /\ LocalPlace' /\ lost' = 0 BY <2>1, BrokerKept
  <2> QED BY <2>1, <2>2, ClientsKept DEF BindInv
<1> QED BY <1>1, <1>2, StepLocal, StepGet, StepSupply DEF Next

-----------------------------------------------------------------------------
(* Every step is a step of the directory, or none of its business.         *)

LEMMA EnterIsAssign ==
  ASSUME TypeInv, TopDown, NEW s \in Subjects, NEW p, p = Place(s), etags' = Entered(p, s),
         \/ bound' = bound
         \/ bound' = bound \cup {<<s, p>>}
  PROVE  [Directory!Next]_<<etags, bound>>
<1>1. CASE etags' = etags /\ bound' = bound
  BY <1>1
<1>2. CASE p = 0 /\ Usable(s) = {} /\ etags' = etags /\ bound' = bound \cup {<<s, p>>}
  <2>1. Directory!Refuse(s)
    BY <1>2 DEF Directory!Refuse, Directory!Assigned, Usable
  <2> QED BY <2>1 DEF Directory!Next
<1>3. CASE p \in Etags /\ etags[p] = s /\ etags' = etags /\ bound' = bound \cup {<<s, p>>}
  <2>1. Directory!Learn(s, p) BY <1>3 DEF Directory!Learn
  <2> QED BY <1>3, <2>1 DEF Directory!Next
<1>4. CASE /\ p \in Etags /\ etags[p] = UID /\ \A e \in Etags : etags[e] # s
           /\ etags' = [etags EXCEPT ![p] = s]
  <2>1. Directory!Assign(s) BY <1>4 DEF Directory!Assign, Directory!Assigned
  <2> QED BY <2>1 DEF Directory!Next
<1> QED BY <1>1, <1>2, <1>3, <1>4, EnterCases

LEMMA RefinedStep ==
  ASSUME Reliable
  PROVE  TypeInv /\ BindInv /\ [Next]_vars => [Directory!Next]_<<etags, bound>>
<1> SUFFICES ASSUME TypeInv, BindInv, [Next]_vars
             PROVE  [Directory!Next]_<<etags, bound>>
  OBVIOUS
<1>1. CASE LocalWrite
  <2>1. PICK s \in Subjects, e \in Etags \cup {0} : local = {<<s, e>>}
    BY <1>1 DEF LocalWrite, TypeInv, LocalTyped
  <2>2. e = Place(s) BY <2>1 DEF BindInv, LocalPlace
  <2>3. etags' = Entered(e, s) /\ bound' = bound \cup {<<s, e>>} BY <1>1, <2>1 DEF LocalWrite
  <2> QED BY <2>2, <2>3, EnterIsAssign DEF BindInv
<1>2. ASSUME NEW c \in Clients, TransmitGet(c) PROVE [Directory!Next]_<<etags, bound>>
  <2>1. Head(requests[c]) \in Subjects BY <1>2 DEF TransmitGet, TypeInv
  <2>2. etags' = Entered(Place(Head(requests[c])), Head(requests[c])) /\ bound' = bound
    BY <1>2 DEF TransmitGet
  <2> QED BY <2>1, <2>2, EnterIsAssign DEF BindInv
<1>3. ASSUME NEW c \in Clients, NEW x \in 1 .. Contexts, Return(c, x)
      PROVE  [Directory!Next]_<<etags, bound>>
  <2>1. x = 1 BY DEF Reliable
  <2> DEFINE s == bsi[c][1].subject
             e == bsi[c][1].etag
  <2>2. _bsi[c] = NULL /\ pc[c][1] # "idle" BY <1>3, <2>1 DEF Return
  <2>3. Entry(s, e) BY <2>2 DEF BindInv, Answered
  <2>4. bound' = bound \cup {<<s, e>>} /\ etags' = etags BY <1>3, <2>1 DEF Return, brokerVars
  <2> HIDE DEF s, e
  <2>5. CASE e = 0 /\ Usable(s) = {}
    <3>1. Directory!Refuse(s)
      BY <2>4, <2>5 DEF Directory!Refuse, Directory!Assigned, Usable
    <3> QED BY <2>3, <3>1 DEF Directory!Next, Entry
  <2>6. CASE e \in Etags /\ etags[e] = s
    <3>1. Directory!Learn(s, e) BY <2>4, <2>6 DEF Directory!Learn
    <3> QED BY <2>3, <2>6, <3>1 DEF Directory!Next, Entry
  <2> QED BY <2>3, <2>5, <2>6 DEF Entry
<1>4. ASSUME NEW s \in Subjects, LocalFind(s) PROVE UNCHANGED <<etags, bound>>
  BY <1>4 DEF LocalFind
<1>5. ASSUME NEW c \in Clients, NEW x \in 1 .. Contexts, NEW s \in Subjects,
             Send(c, x) \/ Begin(c, x, s)
      PROVE  UNCHANGED <<etags, bound>>
  BY <1>5 DEF Send, Begin, brokerVars
<1>6. CASE TransmitSupply
  BY <1>6 DEF TransmitSupply
<1>7. CASE UNCHANGED vars
  BY <1>7 DEF vars, brokerVars
<1>8. CASE \E c \in Clients, x \in 1 .. Contexts : Send(c, x) \/ \E s \in Subjects : Begin(c, x, s)
  <2>1. PICK c \in Clients, x \in 1 .. Contexts : Send(c, x) \/ \E s \in Subjects : Begin(c, x, s)
    BY <1>8
  <2>2. CASE Send(c, x) BY <2>2 DEF Send, brokerVars
  <2>3. CASE \E s \in Subjects : Begin(c, x, s) BY <2>3, <1>5
  <2> QED BY <2>1, <2>2, <2>3
<1> QED BY <1>1, <1>2, <1>3, <1>4, <1>6, <1>7, <1>8 DEF Next

LEMMA RefinedInit == Init => Directory!Init
BY DEF Init, Directory!Init

-----------------------------------------------------------------------------
(* The theorems.                                                           *)

\* The broker's table and what is under way keep their types, whatever frames are
\* lost, whoever binds at the same time and whatever preempts the broker.
THEOREM TypeCorrect == Spec => []TypeOK
<1>1. TypeInv => TypeOK
  <2> SUFFICES ASSUME TypeInv PROVE TypeOK
    OBVIOUS
  <2>1. Cardinality(local) <= 1
    <3>1. CASE local = {} BY <3>1, FS_EmptySet
    <3>2. CASE \E s \in Subjects, e \in Etags \cup {0} : local = {<<s, e>>}
      <4>1. PICK t : local = {t} BY <3>2
      <4>2. Cardinality(local) = 1 BY <4>1, FS_Singleton
      <4> QED BY <4>2
    <3> QED BY <3>1, <3>2 DEF TypeInv, LocalTyped
  <2> QED BY <2>1 DEF TypeInv, TypeOK
<1> QED BY <1>1, TypeInit, TypeStep, PTL DEF Spec

\* The two frames of an answer, the rounds the client counts and the scan of the
\* broker's table bring every bind the entry the directory has for its subject.
THEOREM BindingImplementsDirectory ==
  ASSUME Reliable
  PROVE  Spec => ImplementsDirectory
<1>1. TypeInv /\ BindInv /\ [Next]_vars => [Directory!Next]_<<etags, bound>>
  BY RefinedStep
<1>2. TypeInv /\ BindInv /\ [Next]_vars => BindInv' BY BindStep
<1>3. Init => BindInv BY BindInit
<1> QED BY <1>1, <1>2, <1>3, TypeInit, TypeStep, RefinedInit, PTL
       DEF Spec, ImplementsDirectory, Directory!Spec

-----------------------------------------------------------------------------
(* What the directory promises.                                            *)

OneEtagEach == \A d, e \in Etags : etags[d] = etags[e] /\ etags[d] # UID => d = e
LearntIsEntered == \A p \in bound : p[2] # 0 =>
                       p[1] \in Subjects /\ p[2] \in Etags /\ etags[p[2]] = p[1]
DirectoryInv == etags \in [Etags -> Subjects \cup {UID}] /\ OneEtagEach /\ LearntIsEntered

LEMMA DirectoryInit == Directory!Init => DirectoryInv
BY DEF Directory!Init, DirectoryInv, OneEtagEach, LearntIsEntered

LEMMA DirectoryStep == DirectoryInv /\ [Directory!Next]_<<etags, bound>> => DirectoryInv'
<1> SUFFICES ASSUME DirectoryInv, [Directory!Next]_<<etags, bound>> PROVE DirectoryInv'
  OBVIOUS
<1>0. UID \notin Subjects /\ 0 \notin Etags BY BindingAssumption, EtagFacts
<1>1. ASSUME NEW s \in Subjects, Directory!Assign(s) PROVE DirectoryInv'
  <2>1. PICK e \in Etags : /\ etags[e] = UID /\ etags' = [etags EXCEPT ![e] = s]
                           /\ bound' \in {bound, bound \cup {<<s, e>>}}
    BY <1>1 DEF Directory!Assign
  <2>2. \A d \in Etags : etags[d] # s BY <1>1 DEF Directory!Assign, Directory!Assigned
  <2>3. etags'[e] = s /\ \A d \in Etags \ {e} : etags'[d] = etags[d]
    BY <2>1 DEF DirectoryInv
  <2>4. OneEtagEach' BY <2>2, <2>3 DEF DirectoryInv, OneEtagEach
  <2>5. LearntIsEntered' BY <1>0, <2>1, <2>3 DEF DirectoryInv, LearntIsEntered
  <2> QED BY <2>1, <2>4, <2>5 DEF DirectoryInv
<1>2. ASSUME NEW s \in Subjects, Directory!Refuse(s) PROVE DirectoryInv'
  BY <1>2 DEF Directory!Refuse, DirectoryInv, OneEtagEach, LearntIsEntered
<1>3. ASSUME NEW s \in Subjects, NEW e \in Etags, Directory!Learn(s, e) PROVE DirectoryInv'
  BY <1>3 DEF Directory!Learn, DirectoryInv, OneEtagEach, LearntIsEntered
<1>4. CASE UNCHANGED <<etags, bound>>
  BY <1>4 DEF DirectoryInv, OneEtagEach, LearntIsEntered
<1> QED BY <1>1, <1>2, <1>3, <1>4 DEF Directory!Next

LEMMA DirectoryAgrees == DirectoryInv => EtagsNameSubjects
<1> SUFFICES ASSUME DirectoryInv, NEW p \in bound, NEW q \in bound, p[2] # 0, q[2] # 0
             PROVE  p[1] = q[1] <=> p[2] = q[2]
  BY DEF EtagsNameSubjects, Directory!EtagsNameSubjects
<1>1. /\ p[1] \in Subjects /\ p[2] \in Etags /\ etags[p[2]] = p[1]
      /\ q[1] \in Subjects /\ q[2] \in Etags /\ etags[q[2]] = q[1]
  BY DEF DirectoryInv, LearntIsEntered
<1>2. p[1] # UID BY <1>1, BindingAssumption
<1>3. p[1] = q[1] => p[2] = q[2] BY <1>1, <1>2 DEF DirectoryInv, OneEtagEach
<1> QED BY <1>1, <1>3

\* Nodes that bound the same subject hold the same etag, and nodes that bound
\* different subjects never hold the same one.
THEOREM EtagsAgree ==
  ASSUME Reliable
  PROVE  Spec => []EtagsNameSubjects
<1>1. Spec => ImplementsDirectory BY BindingImplementsDirectory
<1> QED BY <1>1, DirectoryInit, DirectoryStep, DirectoryAgrees, PTL
       DEF ImplementsDirectory, Directory!Spec
=============================================================================
