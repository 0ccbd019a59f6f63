---------------------------- MODULE Defragmenter ----------------------------
(***************************************************************************)
(* The receiving half of the abstract fragmentation protocol: a            *)
(* Defragmenter (include/mw/afp/defrag) with its duplicate checker and one *)
(* of the three event data reconstructors, as a record with operators.     *)
(*                                                                         *)
(* The buffer is the set of the parts copied into it: which part of which  *)
(* event, and the place it was written to.                                 *)
(***************************************************************************)
EXTENDS Fragmenter, FiniteSets

\* VarHeaderLength: the most that c fragments carry, and the header length of
\* a fragment.  room is the MTU without the extension headers (no_ext_mtu).
GetPayload(c, room) ==
    LET inClass(h) == IF c > MaxFragments(h)
                      THEN MaxFragments(h) - MaxFragments(h - 1)
                      ELSE IF c > MaxFragments(h - 1) THEN c - MaxFragments(h - 1) ELSE 0
    IN  inClass(1) * (room - 1) + inClass(2) * (room - 2) + inClass(3) * (room - 3)

GetBasicHeaderLen(fseq) ==
    CASE fseq < MaxFragments(1)                            -> 1
      [] fseq >= MaxFragments(1) /\ fseq < MaxFragments(2) -> 2
      [] OTHER                                             -> 3

\* A new Defragmenter; room = 0 is the error status.
NewDefragmenter(room) ==
    [room |-> room, seen |-> {}, count |-> 0, final |-> FALSE, arrived |-> 0, len |-> 0,
     k |-> 1, data |-> {}]

Error(d) == d.room = 0
SetError(d) == [d EXCEPT !.room = 0]

Complete(kind, d) ==
    /\ ~Error(d)
    /\ CASE kind = "inorder"                -> d.count > 0 /\ d.arrived = d.count
         [] kind = "outoforder"             -> d.final /\ d.arrived = d.count
         [] kind = "fec" /\ d.k = 0         -> d.final /\ d.arrived = d.count
         [] kind = "fec" /\ d.k # 0         -> d.arrived >= d.k

\* Copies the part of a fragment to a place of the buffer.
Store(d, f, place) ==
    [d EXCEPT !.arrived = d.arrived + 1,
              !.data = d.data \cup {[src |-> f.src, fseq |-> f.fseq, from |-> f.from,
                                     len |-> f.len, at |-> place]}]

\* InOrderEventDataReconstructor::put_fragment: the buffer is filled from its
\* start, and anything but the next fragment is an error.
PutInOrder(d, f) ==
    CASE f.fec                                          -> SetError(d)
      [] ~f.fec /\ d.count = 0 /\ ~f.first              -> SetError(d)
      [] ~f.fec /\ d.count = 0 /\ f.first               ->
            [Store(d, f, 0) EXCEPT !.count = f.fseq + 1, !.len = f.len]
      [] ~f.fec /\ d.count > 0 /\ d.count - f.fseq - 1 # d.arrived -> SetError(d)
      [] OTHER                                          ->
            [Store(d, f, d.len) EXCEPT !.len = d.len + f.len]

\* OutOfOrderEventDataReconstructor::put_fragment: the place is counted from
\* the end of the buffer, which grows in front until the first fragment says
\* how many there are.  A place in the model is a distance from the end.

\* Mutant: a buffer that grew keeps the number of fragments it had.
PutOutOfOrderNoCount(d, f) ==
    IF f.fec THEN SetError(d) ELSE
    LET count == CASE d.count = 0 /\ f.first  -> f.fseq + 1
                   [] d.count = 0 /\ ~f.first -> f.fseq + 2
                   [] OTHER                   -> d.count
    IN  [Store(d, f, GetPayload(f.fseq + 1, d.room)) EXCEPT
            !.count = count, !.final = d.final \/ f.first, !.len = d.len + f.len]
PutOutOfOrder(d, f) ==
    IF f.fec THEN SetError(d) ELSE
    LET count == CASE d.count = 0 /\ f.first        -> f.fseq + 1
                   [] d.count = 0 /\ ~f.first       -> f.fseq + 2
                   [] d.count > 0 /\ f.fseq >= d.count -> f.fseq + 1
                   [] OTHER                         -> d.count
    IN  [Store(d, f, GetPayload(f.fseq + 1, d.room)) EXCEPT
            !.count = count, !.final = d.final \/ f.first, !.len = d.len + f.len]

\* FECEventDataReconstructor::put_fragment: any k fragments of an event with
\* redundancy suffice; k = 0 is the mode for events without.
FECPayload(d, f) == Even(d.room - GetBasicHeaderLen(WithRedundancy(f.k, f.red) - 1))

PutFEC(d, f) ==
    CASE ~f.fec            -> [PutOutOfOrder(d, f) EXCEPT !.k = 0]
      [] f.fec /\ d.k = 0  -> SetError(d)
      [] OTHER             ->
            [Store(d, f, f.from) EXCEPT
                !.k = f.k, !.count = WithRedundancy(f.k, f.red),
                !.len = (f.k - 1) * FECPayload(d, f) + f.rest]

\* Defragmenter::put_fragment with the duplicate checker, if there is one.
PutFragment(kind, checks, d, f) ==
    CASE checks /\ f.fseq \in d.seen -> d
      [] Error(d)                    -> d
      [] OTHER ->
            LET e == IF checks THEN [d EXCEPT !.seen = @ \cup {f.fseq}] ELSE d
            IN  CASE kind = "inorder"    -> PutInOrder(e, f)
                  [] kind = "outoforder" -> PutOutOfOrder(e, f)
                  [] kind = "fec"        -> PutFEC(e, f)

\* The assertions of put_fragment on its argument: only the last fragment with
\* data may be short, and nothing comes after an event is complete.
AsExpected(kind, d, f) ==
    \/ Error(d)
    \/ /\ ~Complete(kind, d)
       /\ IF f.fec /\ kind = "fec"
          THEN f.len = FECPayload(d, f) \/ f.fseq = WithRedundancy(f.k, f.red) - f.k
          ELSE f.fseq = 0 \/ f.len = d.room - GetBasicHeaderLen(f.fseq)

\* The data is that of the event src of len bytes: every part of that event,
\* each at its place.
Intact(kind, d, src, len) ==
    /\ d.len = len
    /\ \A p \in d.data : p.src = src
    /\ \/ /\ kind = "fec" /\ d.k # 0
          /\ Cardinality({p.fseq : p \in d.data}) >= d.k
       \/ /\ ~(kind = "fec" /\ d.k # 0)
          /\ \A b \in 0 .. len - 1 : \E p \in d.data : p.from <= b /\ b < p.from + p.len
          /\ \A p \in d.data : p.from = IF kind = "inorder"
                                        THEN p.at
                                        ELSE GetPayload(d.count, d.room) - p.at
=============================================================================
