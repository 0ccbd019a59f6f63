---------------------------- MODULE EtagBinding ----------------------------
(***************************************************************************)
(* The etag binding protocol of the CAN network layer. A client sends the   *)
(* broker its subject; the broker answers with the etag and the subject, in *)
(* two frames of half a subject each, to all nodes. bind_subject blocks     *)
(* until both halves were right, while interrupts (or another thread) go on *)
(* and may bind as well.                                                    *)
(***************************************************************************)
EXTENDS Integers, Sequences, FiniteSets, FiniteSetsExt

CONSTANTS
    Clients,    \* the nodes beside the broker
    Subjects,   \* pairs of the halves of a subject
    reserved,   \* the first etag that is given out (100 in the code)
    count,      \* the number of etags (2^14 in the code)
    Contexts,   \* how many binds a client may have under way at once
    LocalPreempted, \* TRUE: requests arrive during a bind of the broker's own node
    MaxBinds,   \* bound on the binds that are begun
    MaxLost     \* bound on the frames a client misses

UID   == <<0, 0>>
Etags == reserved .. count - 1
NULL  == 0

ASSUME BindingAssumption ==
    /\ reserved \in Nat \ {0} /\ count \in Nat /\ count > reserved
    /\ IsFiniteSet(Clients)
    /\ Contexts \in Nat \ {0} /\ MaxBinds \in Nat /\ MaxLost \in Nat
    /\ LocalPreempted \in BOOLEAN
    /\ UID \notin Subjects /\ \A s \in Subjects : s = <<s[1], s[2]>>

VARIABLES
    pc,       \* per client and context: "idle", "send" or "wait"
    bsi,      \* per client and context: its BindSubjectInfo
    _bsi,     \* per client: the context whose info the receive interrupt serves
    requests, \* per client: the GET_ETAG frames in its transmit queue
    etags,    \* the broker's table
    local,    \* the place the broker's own bind has found and not yet written
    answers,  \* the SUPPLY_ETAG_NEW_BP frames in the broker's transmit queue
    bound,    \* history: what the binds returned
    binds,    \* history: how many binds were begun
    lost      \* history: how many frames were missed

clientVars == <<pc, bsi, _bsi, requests>>
brokerVars == <<etags, local, answers>>
vars == <<clientVars, brokerVars, bound, binds, lost>>

Info == [subject : Subjects \cup {UID}, etag : Etags \cup {0}, round : 0 .. 2]

Init ==
    /\ pc = [c \in Clients |-> [x \in 1 .. Contexts |-> "idle"]]
    /\ bsi \in [Clients -> [1 .. Contexts -> {[subject |-> UID, etag |-> 0, round |-> 0]}]]
    /\ _bsi = [c \in Clients |-> NULL]
    /\ requests = [c \in Clients |-> <<>>]
    /\ etags = [e \in Etags |-> UID]
    /\ local = {}
    /\ answers = <<>>
    /\ bound = {} /\ binds = 0 /\ lost = 0

-----------------------------------------------------------------------------
(* The broker.                                                             *)

Usable(s) == {e \in Etags : etags[e] = UID \/ etags[e] = s}

\* Mutants: a full table is overwritten; the place above the one found is taken.
PlaceAny(s)   == IF Usable(s) = {} THEN reserved ELSE Max(Usable(s))
PlaceAbove(s) == IF Usable(s) = {} THEN 0 ELSE Max(Usable(s)) + 1

\* bind_subject_to_etag: the first free place, or the subject's own, from the top.
Place(s) == IF Usable(s) = {} THEN 0 ELSE Max(Usable(s))

Entered(e, s) == IF e = 0 THEN etags ELSE [etags EXCEPT ![e] = s]

\* bind_subject on the broker's node: the scan finds a place, then it is written.
LocalFind(s) ==
    /\ local = {} /\ binds < MaxBinds
    /\ binds' = binds + 1
    /\ local' = {<<s, Place(s)>>}
    /\ UNCHANGED <<clientVars, etags, answers, bound, lost>>

LocalWrite ==
    /\ \E p \in local : etags' = Entered(p[2], p[1])
    /\ bound' = bound \cup local
    /\ local' = {}
    /\ UNCHANGED <<clientVars, answers, binds, lost>>

Half(s, part, e) == [half |-> s[part + 1], part |-> part, etag |-> e]

\* Mutant: a request that gets no etag is not answered.
AnswerNotFull(s, e) == IF e = 0 THEN <<>> ELSE <<Half(s, 0, e), Half(s, 1, e)>>

Answer(s, e) == <<Half(s, 0, e), Half(s, 1, e)>>

\* The bus brings a request to the broker's receive interrupt.
TransmitGet(c) ==
    /\ requests[c] # <<>>
    /\ LocalPreempted \/ local = {}
    /\ LET s == Head(requests[c]) IN
       /\ etags' = Entered(Place(s), s)
       /\ answers' = answers \o Answer(s, Place(s))
    /\ requests' = [requests EXCEPT ![c] = Tail(@)]
    /\ UNCHANGED <<pc, bsi, _bsi, local, bound, binds, lost>>

-----------------------------------------------------------------------------
(* The clients.                                                            *)

Begin(c, x, s) ==
    /\ pc[c][x] = "idle" /\ binds < MaxBinds
    /\ binds' = binds + 1
    /\ pc' = [pc EXCEPT ![c][x] = "send"]
    /\ bsi' = [bsi EXCEPT ![c][x] = [subject |-> s, etag |-> 0, round |-> 0]]
    /\ _bsi' = [_bsi EXCEPT ![c] = x]
    /\ UNCHANGED <<requests, brokerVars, bound, lost>>

Send(c, x) ==
    /\ pc[c][x] = "send"
    /\ pc' = [pc EXCEPT ![c][x] = "wait"]
    /\ requests' = [requests EXCEPT ![c] = Append(@, bsi[c][x].subject)]
    /\ UNCHANGED <<bsi, _bsi, brokerVars, bound, binds, lost>>

Return(c, x) ==
    /\ pc[c][x] = "wait" /\ _bsi[c] = NULL
    /\ pc' = [pc EXCEPT ![c][x] = "idle"]
    /\ bound' = bound \cup {<<bsi[c][x].subject, bsi[c][x].etag>>}
    /\ UNCHANGED <<bsi, _bsi, requests, brokerVars, binds, lost>>

\* Mutant: the first half decides.
AdvanceEarly(i, f) ==
    IF f.part = 0 /\ i.subject[1] = f.half THEN [i EXCEPT !.round = 2, !.etag = f.etag] ELSE i

\* A frame of the round the bind is in counts one up, or back to 0 if the half is
\* another subject's; the second right half brings the etag.
Advance(i, f) ==
    IF i.round # f.part THEN i
    ELSE IF i.subject[f.part + 1] # f.half THEN [i EXCEPT !.round = 0]
    ELSE IF i.round = 0 THEN [i EXCEPT !.round = 1]
    ELSE [i EXCEPT !.round = 2, !.etag = f.etag]

\* handle_subject_bind_request on each client the frame reaches.
TransmitSupply ==
    /\ answers # <<>>
    /\ answers' = Tail(answers)
    /\ \E deaf \in SUBSET Clients :
       LET f        == Head(answers)
           served   == {c \in Clients \ deaf : _bsi[c] # NULL}
           after(c) == Advance(bsi[c][_bsi[c]], f)
       IN  /\ lost + Cardinality(deaf) <= MaxLost
           /\ lost' = lost + Cardinality(deaf)
           /\ bsi' = [c \in Clients |-> IF c \in served THEN [bsi[c] EXCEPT ![_bsi[c]] = after(c)]
                                        ELSE bsi[c]]
           /\ _bsi' = [c \in Clients |-> IF c \in served /\ after(c).round = 2 THEN NULL
                                         ELSE _bsi[c]]
    /\ UNCHANGED <<pc, requests, etags, local, bound, binds>>

Next ==
    \/ \E s \in Subjects : LocalFind(s)
    \/ LocalWrite
    \/ TransmitSupply
    \/ \E c \in Clients :
       \/ TransmitGet(c)
       \/ \E x \in 1 .. Contexts :
          Send(c, x) \/ Return(c, x) \/ \E s \in Subjects : Begin(c, x, s)

\* The bus delivers, the broker's bind goes on and so do the clients' loops.
Fairness ==
    /\ WF_vars(TransmitSupply) /\ WF_vars(LocalWrite)
    /\ \A c \in Clients : /\ WF_vars(TransmitGet(c))
                          /\ \A x \in 1 .. Contexts : WF_vars(Send(c, x)) /\ WF_vars(Return(c, x))

Spec == Init /\ [][Next]_vars /\ Fairness
-----------------------------------------------------------------------------
TypeOK ==
    /\ pc \in [Clients -> [1 .. Contexts -> {"idle", "send", "wait"}]]
    /\ bsi \in [Clients -> [1 .. Contexts -> Info]]
    /\ _bsi \in [Clients -> 0 .. Contexts]
    /\ requests \in [Clients -> Seq(Subjects)]
    /\ etags \in [Etags -> Subjects \cup {UID}]
    /\ Cardinality(local) <= 1

\* The protocol implements the directory: every bind, on any node, returns what the
\* broker's table says of its subject, and no entry is ever changed.
Directory == INSTANCE EtagDirectory
ImplementsDirectory == Directory!Spec

\* All nodes that bound a subject use the same etag for it, and no other subject's:
\* publishers and subscribers of a subject meet on the bus, and only they.
EtagsNameSubjects == Directory!EtagsNameSubjects

\* Every bind returns, on a bus that loses nothing.
BindsReturn == \A c \in Clients, x \in 1 .. Contexts : pc[c][x] = "wait" ~> pc[c][x] = "idle"
=============================================================================
