------------------------- MODULE MCCANConfiguration -------------------------
(* Instances of CANConfiguration for TLC.                                  *)
EXTENDS CANConfiguration

CONSTANTS n1, n2, n3

\* n1 and n2 differ in the last nibble only, n3 and the others in all.
MCUIDOf == [c \in Clients \cup {Broker} |->
              [k \in Stages |-> CASE c = n1 -> IF k = 0 THEN 1 ELSE 2
                                  [] c = n2 -> 2
                                  [] c = n3 -> 1
                                  [] OTHER -> 0 + (IF k = 0 THEN 1 ELSE 0)]]
=============================================================================
