----------------------- MODULE CANConfigurationProofs -----------------------
(***************************************************************************)
(* The configuration protocol gives out unique numbers, for any nodes and  *)
(* identifiers, however late the nodes are, and whoever is switched off.   *)
(***************************************************************************)
EXTENDS CANConfiguration, WellFoundedInduction, TLAPS

-----------------------------------------------------------------------------
(* The least and the greatest of some places of a table.                   *)

LEMMA MinOf ==
  ASSUME NEW T \in SUBSET Nat, T # {}
  PROVE  Min(T) \in T /\ \A y \in T : Min(T) <= y
<1> DEFINE R == {p \in Nat \X Nat : p[1] < p[2]}
<1>1. IsWellFoundedOn(R, Nat)
  BY NatLessThanWellFounded DEF OpToRel
<1>2. PICK x \in T : \A y \in T : <<y, x>> \notin R
  <2> HIDE DEF R
  <2> QED BY <1>1, WFMin, Zenon
<1>3. \A y \in T : x <= y
  <2> TAKE y \in T
  <2>1. x \in Nat /\ y \in Nat /\ <<y, x>> \notin R
    BY <1>2
  <2> QED BY <2>1
<1> QED BY <1>3 DEF Min

LEMMA MaxOf ==
  ASSUME NEW hi \in Int, NEW T \in SUBSET (0 .. hi), T # {}
  PROVE  Max(T) \in T /\ \A y \in T : Max(T) >= y
<1> DEFINE D == {hi - y : y \in T}
<1>1. \A y \in T : y \in Nat /\ hi - y \in Nat /\ hi - y \in D
  OBVIOUS
<1>2. D \in SUBSET Nat /\ D # {}
  BY <1>1
<1>3. Min(D) \in D /\ \A e \in D : Min(D) <= e
  <2> HIDE DEF D
  <2> QED BY <1>2, MinOf
<1>4. PICK x \in T : Min(D) = hi - x
  BY <1>3
<1>5. \A y \in T : hi - x <= hi - y
  BY <1>1, <1>3, <1>4
<1>6. \A y \in T : x >= y
  BY <1>1, <1>5
<1> HIDE DEF D
<1> QED BY <1>6 DEF Max

-----------------------------------------------------------------------------
LEMMA CountIsInt == count \in Int /\ Half \in Int /\ Width \in Int
<1>1. ccp_stages + 1 \in Int BY ConfigurationAssumption
<1>2. Half \in Int BY <1>1 DEF Half
<1>3. Width \in Int BY ConfigurationAssumption
<1> QED BY <1>2, <1>3 DEF count, Broker_tx_node

-----------------------------------------------------------------------------
(* The inductive invariant.                                                *)

\* An identifier is known at one place.
KnownOnce == \A i, j \in Places : knownNodes[i] # Zero /\ knownNodes[j] = knownNodes[i] => j = i

\* What an answer says is so: a number belongs to the identifier it comes with,
\* and an answer without a number is not about the last stage.
True(m) == IF m.tx = Broker_tx_node THEN m.uid[0] # 0
           ELSE m.uid # Zero => knownNodes[m.tx] = m.uid

AnswersTrue ==
    /\ \A k \in 1 .. Len(answers) : True(answers[k])
    /\ \A c \in Clients : \A k \in 1 .. Len(inbox[c]) : True(inbox[c][k])

NumbersKnown ==
    \A c \in Clients : pc[c] = "done" =>
      tx_node[c] \in Places /\ knownNodes[tx_node[c]] = UIDOf[c]

CCPInv == TypeOK /\ KnownOnce /\ AnswersTrue /\ NumbersKnown

-----------------------------------------------------------------------------
LEMMA StageFacts ==
  /\ 0 \in Stages /\ ccp_stages \in Stages /\ Stages \subseteq Nibbles
  /\ Zero \in UIDs /\ Broker_tx_node \notin Places
  /\ \A u \in UIDs : u = Zero <=> \A k \in Stages : u[k] = 0
BY ConfigurationAssumption, CountIsInt DEF Stages, Nibbles, Zero, UIDs, Places, count

LEMMA InitHolds == Init => CCPInv
<1> SUFFICES ASSUME Init PROVE CCPInv
  OBVIOUS
<1>1. TypeOK
  BY StageFacts, ConfigurationAssumption DEF Init, TypeOK, RSI, SSI
<1>2. KnownOnce
  BY StageFacts DEF Init, KnownOnce
<1>3. AnswersTrue /\ NumbersKnown
  BY DEF Init, AnswersTrue, NumbersKnown
<1> QED BY <1>1, <1>2, <1>3 DEF CCPInv

\* search_tx_node finds the place of a known identifier, or else a free one.
LEMMA SearchFindsPlace ==
  ASSUME TypeOK, NEW u \in UIDs
  PROVE  LET tx == SearchTxNode(u) IN
         \/ tx = Broker_tx_node + 1
         \/ /\ tx \in Places
            /\ knownNodes[tx] = Zero => \A i \in Places : knownNodes[i] = u => u = Zero
            /\ knownNodes[tx] # Zero => knownNodes[tx] = u
<1> DEFINE known == {i \in Places : knownNodes[i] # Zero /\ knownNodes[i] = u}
<1>1. CASE known # {}
  <2>1. Min(known) \in known
    <3>1. known \in SUBSET Nat BY CountIsInt DEF Places
    <3> HIDE DEF known
    <3> QED BY <1>1, <3>1, MinOf
  <2>2. SearchTxNode(u) = Min(known) BY <1>1 DEF SearchTxNode
  <2> QED BY <2>1, <2>2
<1>2. CASE known = {} /\ Free # {}
  <2>1. Max(Free) \in Free
    <3>1. count - 1 \in Int BY CountIsInt
    <3>2. Free \in SUBSET (0 .. count - 1) BY DEF Free, Places
    <3> QED BY <1>2, <3>1, <3>2, MaxOf
  <2>2. SearchTxNode(u) = Max(Free) BY <1>2 DEF SearchTxNode
  <2> QED BY <1>2, <2>1, <2>2 DEF Free
<1>3. CASE known = {} /\ Free = {}
  BY <1>3 DEF SearchTxNode
<1> QED BY <1>1, <1>2, <1>3

LEMMA CollectFacts ==
  ASSUME TypeOK, NEW m \in RSI
  PROVE  Collect(m) \in UIDs /\ (m.stage > 0 => Collect(m)[0] # 0)
<1>1. m.stage \in Stages /\ m.stage \in Nibbles /\ m.nibble \in Nibbles /\ 0 \in Stages
  BY StageFacts DEF RSI
<1>2. uid \in [Stages -> Nibbles] BY DEF TypeOK, UIDs
<1>3. Collect(m) \in UIDs BY <1>1, <1>2 DEF Collect, UIDs
<1>4. ASSUME m.stage > 0 PROVE Collect(m)[0] = m.stage
  BY <1>1, <1>2, <1>4 DEF Collect, Stages
<1> QED BY <1>3, <1>4, <1>1 DEF Stages

\* The broker keeps the type, never forgets a node and never lists one twice, and
\* its answer is true.
LEMMA RequestHandled ==
  ASSUME CCPInv, NEW m \in RSI, HandleRSI(m)
  PROVE  /\ ccp_stage' \in Stages \cup {-1} /\ uid' \in UIDs /\ knownNodes' \in [Places -> UIDs]
         /\ answers' \in Seq(SSI)
         /\ KnownOnce'
         /\ \A i \in Places : knownNodes[i] # Zero => knownNodes'[i] = knownNodes[i]
         /\ \A k \in 1 .. Len(answers') : True(answers[k])'
<1>0. TypeOK /\ KnownOnce /\ AnswersTrue BY DEF CCPInv
<1>1. CASE ~Accepts(m)
  <2>1. UNCHANGED <<ccp_stage, uid, knownNodes, answers>>
    BY <1>1 DEF HandleRSI, brokerVars
  <2> QED BY <2>1, <1>0 DEF TypeOK, KnownOnce, AnswersTrue, True
<1> DEFINE u == Collect(m)
           new(tx) == [tx |-> tx, uid |-> u, high |-> m.stage >= Half]
<1>u. u \in UIDs /\ (m.stage > 0 => u[0] # 0) BY <1>0, CollectFacts
<1>s. m.stage \in Stages /\ m.stage \in Nat BY DEF RSI, Stages
<1>n. ASSUME NEW tx \in Places \cup {Broker_tx_node} PROVE new(tx) \in SSI
  BY <1>u DEF SSI
<1>2. CASE Accepts(m) /\ m.stage > 0
  <2>1. /\ ccp_stage' = m.stage - 1 /\ uid' = u /\ knownNodes' = knownNodes
        /\ answers' = Append(answers, new(Broker_tx_node))
    BY <1>2, <1>s DEF HandleRSI, Answer
  <2>2. ccp_stage' \in Stages
    BY <2>1, <1>2, <1>s, ConfigurationAssumption DEF Stages
  <2>3. answers' \in Seq(SSI)
    BY <2>1, <1>n, <1>0 DEF TypeOK
  <2>4. ASSUME NEW k \in 1 .. Len(answers') PROVE True(answers[k])'
    <3>1. CASE k \in 1 .. Len(answers)
      <4>1. answers'[k] = answers[k] BY <2>1, <3>1, <1>0 DEF TypeOK
      <4> QED BY <4>1, <3>1, <2>1, <1>0 DEF AnswersTrue, True
    <3>2. CASE k = Len(answers) + 1
      <4>1. answers'[k] = new(Broker_tx_node) BY <2>1, <3>2, <1>0 DEF TypeOK
      <4> QED BY <4>1, <1>u, <1>2 DEF True
    <3> QED BY <3>1, <3>2, <2>1, <1>0 DEF TypeOK
  <2>5. KnownOnce' BY <2>1, <1>0 DEF KnownOnce
  <2> QED BY <2>1, <2>2, <2>3, <2>4, <2>5, <1>u, <1>0 DEF TypeOK
<1> DEFINE tx == SearchTxNode(u)
<1>3. CASE Accepts(m) /\ m.stage = 0 /\ tx > Broker_tx_node
  <2>1. ccp_stage' = -1 /\ uid' = u /\ UNCHANGED <<knownNodes, answers>>
    BY <1>3 DEF HandleRSI
  <2> QED BY <2>1, <1>u, <1>0 DEF TypeOK, KnownOnce, AnswersTrue, True
<1>4. CASE Accepts(m) /\ m.stage = 0 /\ ~(tx > Broker_tx_node)
  <2>1. /\ knownNodes' = [knownNodes EXCEPT ![tx] = u]
        /\ answers' = Append(answers, new(tx))
        /\ ccp_stage' = ccp_stages /\ uid' = Zero
    BY <1>4 DEF HandleRSI, Answer
  <2>2. /\ tx \in Places
        /\ knownNodes[tx] = Zero => \A i \in Places : knownNodes[i] = u => u = Zero
        /\ knownNodes[tx] # Zero => knownNodes[tx] = u
    <3>1. Broker_tx_node + 1 > Broker_tx_node BY CountIsInt DEF count
    <3> HIDE DEF u
    <3> QED BY <3>1, <1>4, <1>0, <1>u, SearchFindsPlace
  <2> HIDE DEF tx, u
  <2>3. knownNodes' \in [Places -> UIDs] BY <2>1, <1>u, <1>0 DEF TypeOK
  <2>4. \A i \in Places : knownNodes'[i] = IF i = tx THEN u ELSE knownNodes[i]
    BY <2>1, <1>0 DEF TypeOK
  <2>5. \A i \in Places : knownNodes[i] # Zero => knownNodes'[i] = knownNodes[i]
    BY <2>4, <2>2
  <2>6. KnownOnce'
    BY <2>4, <2>2, <1>0 DEF KnownOnce
  <2>7. answers' \in Seq(SSI) BY <2>1, <2>2, <1>n, <1>0 DEF TypeOK
  <2>8. ASSUME NEW k \in 1 .. Len(answers') PROVE True(answers[k])'
    <3>1. CASE k \in 1 .. Len(answers)
      <4>1. answers'[k] = answers[k] /\ answers[k] \in SSI
        BY <2>1, <3>1, <1>0 DEF TypeOK
      <4>2. True(answers[k]) BY <3>1, <1>0 DEF AnswersTrue
      <4>3. answers[k].tx \in Places \cup {Broker_tx_node} BY <4>1 DEF SSI
      <4> QED BY <4>1, <4>2, <4>3, <2>5 DEF True
    <3>2. CASE k = Len(answers) + 1
      <4>1. answers'[k] = new(tx) BY <2>1, <3>2, <1>0 DEF TypeOK
      <4>2. knownNodes'[tx] = u BY <2>4, <2>2
      <4> QED BY <4>1, <4>2, <2>2, StageFacts DEF True
    <3> QED BY <3>1, <3>2, <2>1, <1>0 DEF TypeOK
  <2> QED BY <2>1, <2>3, <2>5, <2>6, <2>7, <2>8, StageFacts
<1> QED BY <1>1, <1>2, <1>3, <1>4, <1>s
-----------------------------------------------------------------------------
\* A node reads one answer: it stays in its stages, and takes a number only with
\* its own identifier.
LEMMA AnswerRead ==
  ASSUME CCPInv, NEW c \in Clients, ReceiveSSI(c)
  PROVE  CCPInv'
<1>0. TypeOK /\ KnownOnce /\ AnswersTrue /\ NumbersKnown BY DEF CCPInv
<1> DEFINE m == Head(inbox[c])
<1>1. inbox[c] \in Seq(SSI) /\ inbox[c] # <<>> /\ m \in SSI /\ Tail(inbox[c]) \in Seq(SSI)
  BY <1>0 DEF ReceiveSSI, TypeOK
<1>2. m = inbox[c][1] /\ 1 \in 1 .. Len(inbox[c]) BY <1>1
<1>3. True(m)
  BY <1>2, <1>0 DEF AnswersTrue
<1>4. /\ inbox' = [inbox EXCEPT ![c] = Tail(inbox[c])]
      /\ UNCHANGED <<requests, ccp_stage, uid, knownNodes, answers, dropOuts>>
  BY DEF ReceiveSSI, brokerVars
<1>t. /\ pc' \in [Clients -> {"off", "send", "wait", "done"}]
      /\ stage' \in [Clients -> Stages]
      /\ tx_node' \in [Clients -> Places \cup {Broker_tx_node}]
  <2>1. CASE UNCHANGED nodeVars BY <2>1, <1>0 DEF nodeVars, TypeOK
  <2>2. CASE m.tx = Broker_tx_node /\ Selected(c, m) /\ NextStage(c)
    <3>1. stage[c] = m.uid[0] /\ stage[c] \in Stages BY <2>2, <1>0 DEF Selected, TypeOK
    <3>2. stage[c] # 0 BY <3>1, <2>2, <1>3 DEF True
    <3>3. stage[c] - 1 \in Stages BY <3>1, <3>2, ConfigurationAssumption DEF Stages
    <3> QED BY <3>3, <2>2, <1>0 DEF NextStage, TypeOK
  <2>3. CASE m.tx # Broker_tx_node /\ IsMine(c, m) /\ TakeNumber(c, m.tx)
    <3>1. m.tx \in Places \cup {Broker_tx_node} BY <1>1 DEF SSI
    <3> QED BY <3>1, <2>3, <1>0 DEF TakeNumber, TypeOK
  <2>4. CASE Restart(c)
    BY <2>4, <1>0, StageFacts DEF Restart, TypeOK
  <2> QED BY <2>1, <2>2, <2>3, <2>4 DEF ReceiveSSI
<1>n. NumbersKnown'
  <2>1. CASE UNCHANGED nodeVars BY <2>1, <1>4, <1>0 DEF nodeVars, NumbersKnown
  <2>2. CASE NextStage(c) BY <2>2, <1>4, <1>0 DEF NextStage, NumbersKnown, TypeOK
  <2>3. CASE m.tx # Broker_tx_node /\ IsMine(c, m) /\ TakeNumber(c, m.tx)
    <3>1. m.tx \in Places /\ m.uid \in UIDs /\ UIDOf[c] \in UIDs /\ UIDOf[c] # Zero
      BY <2>3, <1>1, ConfigurationAssumption DEF SSI
    <3>2. m.uid = UIDOf[c]
      <4>1. \A k \in Stages : m.uid[k] = UIDOf[c][k]
        BY <2>3 DEF IsMine, SameFrom, Stages
      <4> QED BY <4>1, <3>1 DEF UIDs
    <3>3. knownNodes[m.tx] = UIDOf[c] BY <3>1, <3>2, <2>3, <1>3 DEF True
    <3> HIDE DEF m
    <3> QED BY <3>1, <3>3, <2>3, <1>4, <1>0 DEF TakeNumber, NumbersKnown, TypeOK
  <2>4. CASE Restart(c)
    BY <2>4, <1>4, <1>0 DEF Restart, NumbersKnown, TypeOK
  <2> QED BY <2>1, <2>2, <2>3, <2>4 DEF ReceiveSSI
<1>a. AnswersTrue'
  <2>1. ASSUME NEW d \in Clients, NEW k \in 1 .. Len(inbox'[d]) PROVE True(inbox[d][k])'
    <3>1. CASE d = c
      <4>1. inbox'[c] = Tail(inbox[c]) BY <1>4, <1>0 DEF TypeOK
      <4>2. inbox'[c][k] = inbox[c][k+1] /\ k + 1 \in 1 .. Len(inbox[c])
        <5>1. k \in 1 .. Len(Tail(inbox[c])) BY <4>1, <3>1
        <5> QED BY <5>1, <4>1, <1>1
      <4> QED BY <4>2, <3>1, <1>4, <1>0 DEF AnswersTrue, True
    <3>2. CASE d # c
      <4>1. inbox'[d] = inbox[d] BY <3>2, <1>4, <1>0 DEF TypeOK
      <4> QED BY <4>1, <1>4, <1>0 DEF AnswersTrue, True
    <3> QED BY <3>1, <3>2
  <2> QED BY <2>1, <1>4, <1>0 DEF AnswersTrue, True
<1>y. TypeOK'
  BY <1>t, <1>4, <1>1, <1>0 DEF TypeOK
<1>k. KnownOnce' BY <1>4, <1>0 DEF KnownOnce
<1> QED BY <1>y, <1>k, <1>a, <1>n DEF CCPInv

LEMMA RequestSent ==
  ASSUME CCPInv, NEW c \in Clients, TransmitRSI(c)
  PROVE  CCPInv'
<1>0. TypeOK /\ KnownOnce /\ AnswersTrue /\ NumbersKnown BY DEF CCPInv
<1> DEFINE m == Head(requests[c])
<1>1. requests[c] \in Seq(RSI) /\ requests[c] # <<>> /\ m \in RSI
  BY <1>0 DEF TransmitRSI, TypeOK
<1>2. HandleRSI(m) /\ UNCHANGED <<pc, stage, tx_node, inbox, dropOuts>>
  BY DEF TransmitRSI, nodeVars
<1>3. requests' = [d \in Clients |-> IF requests[d] # <<>> /\ Head(requests[d]) = m
                                     THEN Tail(requests[d]) ELSE requests[d]]
  BY DEF TransmitRSI
<1>4. requests' \in [Clients -> Seq(RSI)]
  <2>1. \A d \in Clients : requests[d] \in Seq(RSI) BY <1>0 DEF TypeOK
  <2>2. \A d \in Clients : requests[d] # <<>> => Tail(requests[d]) \in Seq(RSI) BY <2>1
  <2> HIDE DEF m
  <2> QED BY <2>1, <2>2, <1>3
<1> HIDE DEF m
<1>5. /\ ccp_stage' \in Stages \cup {-1} /\ uid' \in UIDs /\ knownNodes' \in [Places -> UIDs]
      /\ answers' \in Seq(SSI)
      /\ KnownOnce'
      /\ \A i \in Places : knownNodes[i] # Zero => knownNodes'[i] = knownNodes[i]
      /\ \A k \in 1 .. Len(answers') : True(answers[k])'
  BY <1>1, <1>2, RequestHandled
<1>6. TypeOK' BY <1>5, <1>4, <1>2, <1>0 DEF TypeOK
<1>7. AnswersTrue'
  <2>1. ASSUME NEW d \in Clients, NEW k \in 1 .. Len(inbox[d]) PROVE True(inbox[d][k])'
    <3>0. inbox[d] \in Seq(SSI) BY <1>0 DEF TypeOK
    <3>1. inbox[d][k] \in SSI /\ True(inbox[d][k]) BY <3>0, <1>0 DEF AnswersTrue
    <3>2. inbox[d][k].tx \in Places \cup {Broker_tx_node} BY <3>1 DEF SSI
    <3> QED BY <3>1, <3>2, <1>2, <1>5 DEF True
  <2> QED BY <2>1, <1>2, <1>5 DEF AnswersTrue
<1>8. NumbersKnown'
  <2>1. \A d \in Clients : UIDOf[d] # Zero BY ConfigurationAssumption
  <2> QED BY <2>1, <1>2, <1>5, <1>0 DEF NumbersKnown
<1> QED BY <1>5, <1>6, <1>7, <1>8 DEF CCPInv

LEMMA AnswerSent ==
  ASSUME CCPInv, TransmitSSI
  PROVE  CCPInv'
<1>0. TypeOK /\ KnownOnce /\ AnswersTrue /\ NumbersKnown BY DEF CCPInv
<1> DEFINE m == Head(answers)
<1>1. /\ answers # <<>> /\ answers' = Tail(answers)
      /\ inbox' = [c \in Clients |-> IF pc[c] \in {"send", "wait"}
                                     THEN Append(inbox[c], m) ELSE inbox[c]]
      /\ UNCHANGED <<pc, stage, tx_node, requests, ccp_stage, uid, knownNodes, dropOuts>>
  BY DEF TransmitSSI, nodeVars, brokerVars
<1>2. answers \in Seq(SSI) /\ m \in SSI /\ Tail(answers) \in Seq(SSI)
  BY <1>1, <1>0 DEF TypeOK
<1>3. m = answers[1] /\ 1 \in 1 .. Len(answers) BY <1>1, <1>2
<1>4. True(m) BY <1>3, <1>0 DEF AnswersTrue
<1> HIDE DEF m
<1>5. TypeOK'
  <2>1. inbox' \in [Clients -> Seq(SSI)] BY <1>1, <1>2, <1>0 DEF TypeOK
  <2> QED BY <2>1, <1>1, <1>2, <1>0 DEF TypeOK
<1>6. AnswersTrue'
  <2>1. ASSUME NEW k \in 1 .. Len(answers') PROVE True(answers[k])'
    <3>1. answers'[k] = answers[k+1] /\ k + 1 \in 1 .. Len(answers) BY <1>1, <1>2
    <3> QED BY <3>1, <1>1, <1>0 DEF AnswersTrue, True
  <2>2. ASSUME NEW c \in Clients, NEW k \in 1 .. Len(inbox'[c]) PROVE True(inbox[c][k])'
    <3>1. inbox[c] \in Seq(SSI) BY <1>0 DEF TypeOK
    <3>2. inbox'[c] = inbox[c] \/ inbox'[c] = Append(inbox[c], m) BY <1>1
    <3>3. CASE k \in 1 .. Len(inbox[c])
      <4>1. inbox'[c][k] = inbox[c][k] BY <3>1, <3>2, <3>3, <1>2
      <4> QED BY <4>1, <3>3, <1>1, <1>0 DEF AnswersTrue, True
    <3>4. CASE k \notin 1 .. Len(inbox[c])
      <4>1. inbox'[c][k] = m BY <3>1, <3>2, <3>4, <1>2
      <4> QED BY <4>1, <1>4, <1>1 DEF True
    <3> QED BY <3>3, <3>4
  <2> QED BY <2>1, <2>2 DEF AnswersTrue
<1>7. KnownOnce' /\ NumbersKnown' BY <1>1, <1>0 DEF KnownOnce, NumbersKnown
<1> QED BY <1>5, <1>6, <1>7 DEF CCPInv

LEMMA NodeSteps ==
  ASSUME CCPInv, NEW c \in Clients, SwitchOn(c) \/ DropOut(c) \/ SendRSI(c)
  PROVE  CCPInv'
<1>0. TypeOK /\ KnownOnce /\ AnswersTrue /\ NumbersKnown BY DEF CCPInv
<1>1. CASE SwitchOn(c)
  <2>1. TypeOK' BY <1>1, <1>0, StageFacts DEF SwitchOn, TypeOK, brokerVars
  <2>2. KnownOnce' /\ AnswersTrue' BY <1>1, <1>0 DEF SwitchOn, brokerVars, KnownOnce, AnswersTrue, True
  <2>3. NumbersKnown' BY <1>1, <1>0 DEF SwitchOn, brokerVars, NumbersKnown, TypeOK
  <2> QED BY <2>1, <2>2, <2>3 DEF CCPInv
<1>2. CASE DropOut(c)
  <2>1. TypeOK' BY <1>2, <1>0, ConfigurationAssumption DEF DropOut, TypeOK, brokerVars
  <2>2. KnownOnce' BY <1>2, <1>0 DEF DropOut, brokerVars, KnownOnce
  <2>3. AnswersTrue'
    <3>1. \A d \in Clients : inbox'[d] = IF d = c THEN <<>> ELSE inbox[d]
      BY <1>2, <1>0 DEF DropOut, TypeOK
    <3> QED BY <3>1, <1>2, <1>0 DEF DropOut, brokerVars, AnswersTrue, True
  <2>4. NumbersKnown' BY <1>2, <1>0 DEF DropOut, brokerVars, NumbersKnown, TypeOK
  <2> QED BY <2>1, <2>2, <2>3, <2>4 DEF CCPInv
<1>3. CASE SendRSI(c)
  <2>1. [stage |-> stage[c], nibble |-> UIDOf[c][stage[c]]] \in RSI
    BY <1>0, ConfigurationAssumption DEF TypeOK, UIDs, RSI
  <2>2. requests' \in [Clients -> Seq(RSI)]
    BY <2>1, <1>3, <1>0 DEF SendRSI, TypeOK
  <2>3. TypeOK' BY <2>2, <1>3, <1>0 DEF SendRSI, TypeOK, brokerVars
  <2>4. KnownOnce' /\ AnswersTrue' BY <1>3, <1>0 DEF SendRSI, brokerVars, KnownOnce, AnswersTrue, True
  <2>5. NumbersKnown' BY <1>3, <1>0 DEF SendRSI, brokerVars, NumbersKnown, TypeOK
  <2> QED BY <2>3, <2>4, <2>5 DEF CCPInv
<1> QED BY <1>1, <1>2, <1>3

LEMMA StepsPreserve == CCPInv /\ [Next]_vars => CCPInv'
<1> SUFFICES ASSUME CCPInv, [Next]_vars PROVE CCPInv'
  OBVIOUS
<1>1. ASSUME NEW c \in Clients, SwitchOn(c) \/ DropOut(c) \/ SendRSI(c) PROVE CCPInv'
  BY <1>1, NodeSteps
<1>2. ASSUME NEW c \in Clients, ReceiveSSI(c) PROVE CCPInv'
  BY <1>2, AnswerRead
<1>3. ASSUME NEW c \in Clients, TransmitRSI(c) PROVE CCPInv'
  BY <1>3, RequestSent
<1>4. CASE TransmitSSI
  BY <1>4, AnswerSent
<1>5. CASE UNCHANGED vars
  BY <1>5 DEF vars, nodeVars, brokerVars, CCPInv, TypeOK, KnownOnce, AnswersTrue, True, NumbersKnown
<1> QED BY <1>1, <1>2, <1>3, <1>4, <1>5 DEF Next

-----------------------------------------------------------------------------
\* Every variable of the protocol keeps its type; in particular no node counts
\* its stage below 0, and the broker answers only while it has a place.
THEOREM TypeCorrect == Spec => []TypeOK
<1>1. CCPInv => TypeOK BY DEF CCPInv
<1> QED BY <1>1, InitHolds, StepsPreserve, PTL DEF Spec

\* No two nodes that end ccp_configure_tx_node hold the same tx_node, for any
\* number of nodes, any identifiers, any lag and any drop-outs.
THEOREM UniqueNumbers == Spec => []NumbersAreUnique
<1>1. CCPInv => NumbersAreUnique
  <2> SUFFICES ASSUME CCPInv, NEW c \in Clients, pc[c] = "done"
               PROVE  /\ tx_node[c] \in Places /\ knownNodes[tx_node[c]] = UIDOf[c]
                      /\ \A d \in Clients : pc[d] = "done" /\ tx_node[d] = tx_node[c] => d = c
    BY DEF NumbersAreUnique
  <2>1. NumbersKnown BY DEF CCPInv
  <2> QED BY <2>1, ConfigurationAssumption DEF NumbersKnown
<1> QED BY <1>1, InitHolds, StepsPreserve, PTL DEF Spec
=============================================================================
