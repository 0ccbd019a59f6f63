--------------------------- MODULE MCAFPTransfer ---------------------------
(***************************************************************************)
(* Instances of AFPTransfer for TLC.  Basic headers grow after 2 and 4     *)
(* fragments instead of 32 and 4096, so that short events have headers of  *)
(* three lengths.                                                          *)
(***************************************************************************)
EXTENDS AFPTransfer, TLC

CONSTANTS p1, p2

\* DefaultConfig on an ideal network, events with headers of up to three bytes.
Ideal == [eseq |-> FALSE, subjects |-> FALSE, reordering |-> FALSE, duplicates |-> FALSE,
          FEC |-> FALSE, red |-> 0, capacity |-> 0, width |-> 2, mtu |-> 5, keeps |-> FALSE,
          net |-> {}, pubs |-> {p1}, events |-> 2, lens |-> 1 .. 17]

\* MultiSubjectConfig: two publishers, no event numbers.
MultiSubject == [Ideal EXCEPT !.subjects = TRUE, !.pubs = {p1, p2}, !.lens = {3, 9}]

\* Event numbers only, for a network that loses fragments.
Lossy == [Ideal EXCEPT !.eseq = TRUE, !.mtu = 10, !.net = {"loss"}, !.lens = {5, 9}]

\* Everything switched on, for a network that repeats and reorders, and for one
\* that loses fragments besides.
Reordered == [Ideal EXCEPT !.eseq = TRUE, !.reordering = TRUE, !.duplicates = TRUE,
              !.mtu = 10, !.net = {"reorder", "dup"}, !.events = 1, !.lens = {9, 12}]
Unreliable == [Reordered EXCEPT !.net = {"loss", "reorder", "dup"}, !.keeps = TRUE,
               !.events = 2, !.lens = {5}]

\* The same with forward error correction: 2 fragments with data and 1 more.
Redundant == [Unreliable EXCEPT !.FEC = TRUE, !.red = 50, !.mtu = 19, !.keeps = FALSE,
              !.lens = {7}]

\* MultiSubjectESeqReorderDuplicateConfig with containers of fixed size.
FixedSize == [Reordered EXCEPT !.subjects = TRUE, !.pubs = {p1, p2}, !.capacity = 2,
              !.net = {"reorder"}, !.lens = {5}]

AllConfigs == {Ideal, MultiSubject, Lossy, Reordered, Unreliable, Redundant, FixedSize}

\* What the theorems about the assertions, the transfer and events of which enough
\* arrives ask of the configurations.
ASSUME AllSuited == \A c \in AllConfigs : Suited(c) /\ Separated(c) /\ Adequate(c)

\* The same configuration as it is: with containers of dynamic size.
DynamicConfigs == {[FixedSize EXCEPT !.capacity = 0]}

\* One publisher whose second event is complete while the queue of outdated events
\* is full of the number of the first.
FullConfigs == {[FixedSize EXCEPT !.pubs = {p1}, !.capacity = 1, !.events = 2]}
=============================================================================
