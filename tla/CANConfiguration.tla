-------------------------- MODULE CANConfiguration --------------------------
(***************************************************************************)
(* The CAN configuration protocol: a broker gives every node that is       *)
(* switched on a short number, its tx_node.  The node sends its unique     *)
(* identifier nibble by nibble, in stages that count down to 0 (RSI); the  *)
(* broker accepts the first nibble it gets in each stage and answers all   *)
(* nodes with the part it has collected (SSI).  A node that finds another  *)
(* one selected waits for that one's number and begins again.              *)
(***************************************************************************)
EXTENDS Integers, Sequences, FiniteSets, FiniteSetsExt

CONSTANTS
    Clients,      \* the nodes to be configured
    Broker,       \* the node the broker runs on
    ccp_stages,   \* the stage the protocol begins with (15 in the code)
    Width,        \* the number of values of a nibble (16 in the code)
    UIDOf,        \* the unique identifier of each node, a nibble per stage
    Lag,          \* how far a node may be behind the bus (0: it reacts to a frame before the next)
    MaxDropOuts   \* bound on the nodes that are switched off while they configure

Stages  == 0 .. ccp_stages
Nibbles == 0 .. Width - 1
\* The upper half of the stages has the top bit of the stage set.
Half    == (ccp_stages + 1) \div 2
\* All ones in the tx_node bits: 127 in the code, and the size of the table.
Broker_tx_node == Half * Width - 1
count == Broker_tx_node
UIDs   == [Stages -> Nibbles]
Zero   == [k \in Stages |-> 0]          \* UID(): no identifier
Places == 0 .. count - 1

\* "... dass die UID = 0x0 von keinem Knoten verwendet wird."
ASSUME ConfigurationAssumption ==
    /\ ccp_stages \in Nat \ {0} /\ ccp_stages % 2 = 1
    /\ Width \in Nat /\ Width > ccp_stages
    /\ Lag \in Nat /\ MaxDropOuts \in Nat
    /\ Broker \notin Clients
    /\ UIDOf \in [Clients \cup {Broker} -> UIDs \ {Zero}]
    /\ \A c, d \in Clients \cup {Broker} : UIDOf[c] = UIDOf[d] => c = d

VARIABLES
    pc,         \* per node: off, at a transmission, waiting for an answer, or done
    stage,      \* per node: the stage it is in
    tx_node,    \* per node: the number it got
    requests,   \* per node: the RSI messages in its transmit queue
    inbox,      \* per node: the SSI messages it has not looked at yet
    ccp_stage,  \* the stage the broker waits for
    uid,        \* the identifier the broker has collected
    knownNodes, \* the table of the broker
    answers,    \* the SSI messages in the broker's transmit queue
    dropOuts    \* history: how many nodes were switched off in the protocol

nodeVars   == <<pc, stage, tx_node>>
brokerVars == <<ccp_stage, uid, knownNodes>>
vars == <<nodeVars, requests, inbox, brokerVars, answers, dropOuts>>

Init ==
    /\ pc = [c \in Clients |-> "off"]
    /\ stage = [c \in Clients |-> ccp_stages]
    /\ tx_node = [c \in Clients |-> Broker_tx_node]
    /\ requests = [c \in Clients |-> <<>>]
    /\ inbox = [c \in Clients |-> <<>>]
    /\ ccp_stage = ccp_stages
    /\ uid = Zero
    /\ knownNodes = [i \in Places |-> IF i = Max(Places) THEN UIDOf[Broker] ELSE Zero]
    /\ answers = <<>>
    /\ dropOuts = 0

-----------------------------------------------------------------------------
(* The broker.                                                             *)

Free == {i \in Places : knownNodes[i] = Zero}

\* search_tx_node: the place of a known node, or else the last free one.
SearchTxNode(u) ==
    LET known == {i \in Places : knownNodes[i] # Zero /\ knownNodes[i] = u}
    IN  IF known # {} THEN Min(known)
        ELSE IF Free # {} THEN Max(Free)
        ELSE Broker_tx_node + 1

\* The last nibble carries the stage until its own turn comes.
Collect(m) == [uid EXCEPT ![0] = m.stage, ![m.stage] = m.nibble]

\* The answer reuses the frame of the request: the bit above the tx_node bits
\* stays the top bit of the stage.
Answer(m, tx, u) ==
    answers' = Append(answers, [tx |-> tx, uid |-> u, high |-> m.stage >= Half])

\* A nibble of another stage is dropped.
Accepts(m) == m.stage = ccp_stage

\* handle_ccp_rsi. If no place is free the broker does not answer, and stays
\* in the stage after the last one (-1, 0xff in the code).
HandleRSI(m) ==
    \/ /\ ~Accepts(m)
       /\ UNCHANGED <<brokerVars, answers>>
    \/ /\ Accepts(m) /\ m.stage > 0
       /\ ccp_stage' = m.stage - 1
       /\ uid' = Collect(m)
       /\ Answer(m, Broker_tx_node, uid')
       /\ UNCHANGED knownNodes
    \/ /\ Accepts(m) /\ m.stage = 0
       /\ LET u  == Collect(m)
              tx == SearchTxNode(u)
          IN  IF tx > Broker_tx_node
              THEN ccp_stage' = -1 /\ uid' = u /\ UNCHANGED <<knownNodes, answers>>
              ELSE /\ knownNodes' = [knownNodes EXCEPT ![tx] = u]
                   /\ Answer(m, tx, u)
                   /\ ccp_stage' = ccp_stages
                   /\ uid' = Zero

-----------------------------------------------------------------------------
(* The nodes: ccp_configure_tx_node, called by CANNL::init.                *)

SwitchOn(c) ==
    /\ pc[c] = "off"
    /\ pc' = [pc EXCEPT ![c] = "send"]
    /\ stage' = [stage EXCEPT ![c] = ccp_stages]
    /\ UNCHANGED <<tx_node, requests, inbox, brokerVars, answers, dropOuts>>

\* A node is switched off before it is configured; it may be switched on again.
DropOut(c) ==
    /\ pc[c] \in {"send", "wait"}
    /\ dropOuts < MaxDropOuts
    /\ dropOuts' = dropOuts + 1
    /\ pc' = [pc EXCEPT ![c] = "off"]
    /\ requests' = [requests EXCEPT ![c] = <<>>]
    /\ inbox' = [inbox EXCEPT ![c] = <<>>]
    /\ UNCHANGED <<stage, tx_node, brokerVars, answers>>

SendRSI(c) ==
    /\ pc[c] = "send"
    /\ requests' = [requests EXCEPT ![c] =
                      Append(@, [stage |-> stage[c], nibble |-> UIDOf[c][stage[c]]])]
    /\ pc' = [pc EXCEPT ![c] = "wait"]
    /\ UNCHANGED <<stage, tx_node, inbox, brokerVars, answers, dropOuts>>

\* compareUID: the nibbles from the first one down to that of a stage.
SameFrom(u, v, low) == \A k \in low .. ccp_stages : u[k] = v[k]

\* Mutant: a node takes any number.
TakesAny(c, m) == TRUE

\* The broker has got this node's nibble of this stage, and all those before.
Selected(c, m) == stage[c] = m.uid[0] /\ SameFrom(m.uid, UIDOf[c], stage[c])

\* The number in the message is for this node.
IsMine(c, m) == SameFrom(m.uid, UIDOf[c], 0)

\* Mutants: a node that is not selected does not begin again, or above the first stage.
RestartNot(c) == UNCHANGED nodeVars
RestartAbove(c) ==
    /\ stage' = [stage EXCEPT ![c] = ccp_stages + 1]
    /\ pc' = [pc EXCEPT ![c] = "send"]
    /\ UNCHANGED tx_node

Restart(c) ==
    /\ stage' = [stage EXCEPT ![c] = ccp_stages]
    /\ pc' = [pc EXCEPT ![c] = "send"]
    /\ UNCHANGED tx_node

NextStage(c) ==
    /\ stage' = [stage EXCEPT ![c] = @ - 1]
    /\ pc' = [pc EXCEPT ![c] = "send"]
    /\ UNCHANGED tx_node

TakeNumber(c, tx) ==
    /\ tx_node' = [tx_node EXCEPT ![c] = tx]
    /\ pc' = [pc EXCEPT ![c] = "done"]
    /\ UNCHANGED stage

\* An intermediate answer that is not for this node is ignored; the number of
\* another node, or an empty identifier, sends it back to the first stage.
ReceiveSSI(c) ==
    /\ pc[c] = "wait" /\ inbox[c] # <<>>
    /\ inbox' = [inbox EXCEPT ![c] = Tail(@)]
    /\ LET m == Head(inbox[c]) IN
       IF m.tx = Broker_tx_node
       THEN IF SameFrom(m.uid, Zero, 0) THEN Restart(c)
            ELSE IF Selected(c, m) THEN NextStage(c) ELSE UNCHANGED nodeVars
       ELSE IF IsMine(c, m) THEN TakeNumber(c, m.tx) ELSE Restart(c)
    /\ UNCHANGED <<requests, brokerVars, answers, dropOuts>>

-----------------------------------------------------------------------------
(* The bus: of the frames that head a transmit queue the one with the lowest *)
(* identifier is sent. Nodes that send the same frame send it together. The  *)
(* broker handles a request in its receive interrupt; every node that is     *)
(* configuring receives every answer.                                        *)

\* The identifiers without their common part; an answer wins a tie (CCP_SSI).
RequestId(m) == 2 * (m.stage * Width + m.nibble) + 1
AnswerId(m)  == 2 * ((IF m.high THEN Half * Width ELSE 0) + m.tx)

Pending == {RequestId(Head(requests[c])) : c \in {d \in Clients : requests[d] # <<>>}}
             \cup (IF answers # <<>> THEN {AnswerId(Head(answers))} ELSE {})

\* What a node has still to do about the frames that were sent.
Behind(c) == Len(inbox[c]) + (IF pc[c] = "send" THEN 1 ELSE 0)
BusReady  == \A c \in Clients : pc[c] \in {"send", "wait"} => Behind(c) <= Lag

TransmitRSI(c) ==
    /\ BusReady /\ requests[c] # <<>>
    /\ LET m == Head(requests[c]) IN
       /\ RequestId(m) = Min(Pending)
       /\ requests' = [d \in Clients |-> IF requests[d] # <<>> /\ Head(requests[d]) = m
                                         THEN Tail(requests[d]) ELSE requests[d]]
       /\ HandleRSI(m)
    /\ UNCHANGED <<nodeVars, inbox, dropOuts>>

TransmitSSI ==
    /\ BusReady /\ answers # <<>>
    /\ AnswerId(Head(answers)) = Min(Pending)
    /\ answers' = Tail(answers)
    /\ inbox' = [c \in Clients |-> IF pc[c] \in {"send", "wait"}
                                   THEN Append(inbox[c], Head(answers)) ELSE inbox[c]]
    /\ UNCHANGED <<nodeVars, requests, brokerVars, dropOuts>>

Next == \/ \E c \in Clients : SwitchOn(c) \/ DropOut(c) \/ SendRSI(c) \/ ReceiveSSI(c)
                              \/ TransmitRSI(c)
        \/ TransmitSSI

\* The bus delivers, and a node that is on executes its loop.
Fairness == /\ \A c \in Clients : WF_vars(SendRSI(c) \/ ReceiveSSI(c)) /\ WF_vars(TransmitRSI(c))
            /\ WF_vars(TransmitSSI)

Spec == Init /\ [][Next]_vars /\ Fairness
-----------------------------------------------------------------------------
RSI == [stage : Stages, nibble : Nibbles]
SSI == [tx : Places \cup {Broker_tx_node}, uid : UIDs, high : BOOLEAN]

TypeOK ==
    /\ pc \in [Clients -> {"off", "send", "wait", "done"}]
    /\ stage \in [Clients -> Stages]
    /\ tx_node \in [Clients -> Places \cup {Broker_tx_node}]
    /\ requests \in [Clients -> Seq(RSI)]
    /\ inbox \in [Clients -> Seq(SSI)]
    /\ ccp_stage \in Stages \cup {-1}
    /\ uid \in UIDs
    /\ knownNodes \in [Places -> UIDs]
    /\ answers \in Seq(SSI)
    /\ dropOuts \in 0 .. MaxDropOuts

\* No two nodes get the same number, and the broker knows whose it is: although
\* the identifier is collected from messages of several nodes that do not name
\* their sender, a node never takes an answer made from another one's nibbles.
NumbersAreUnique ==
    \A c \in Clients : pc[c] = "done" =>
      /\ tx_node[c] \in Places /\ knownNodes[tx_node[c]] = UIDOf[c]
      /\ \A d \in Clients : pc[d] = "done" /\ tx_node[d] = tx_node[c] => d = c

\* Every node that is switched on, and stays on, is configured: "ist ein knoten
\* vielleicht ausgestiegen, dann generiert der Broker eine Nachricht mit leerem
\* Inhalt, um unselektierte Knoten zur Neukonfiguration zu bewegen".
EveryNodeConfigured == \A c \in Clients : pc[c] # "off" ~> pc[c] \in {"done", "off"}

\* Nodes that are switched on at any time while others are in the protocol are all
\* configured if nobody drops out: no restart goes on for ever, nobody is forgotten.
ConfiguredUnlessDropOut == [](dropOuts = 0) => EveryNodeConfigured
=============================================================================
