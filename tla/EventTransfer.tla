---------------------------- MODULE EventTransfer ----------------------------
(***************************************************************************)
(* What a subscriber may rely on when events travel as fragments: it gets  *)
(* an event only after it was published, at most once, and as a whole.     *)
(***************************************************************************)
EXTENDS Naturals

CONSTANT Events

VARIABLES sent,     \* the events published so far
          got,      \* how often each event was handed to the subscriber
          corrupt   \* how often the subscriber was handed anything else

Init == sent = {} /\ got = [e \in Events |-> 0] /\ corrupt = 0

Publish(e) ==
    /\ e \notin sent
    /\ sent' = sent \cup {e}
    /\ UNCHANGED <<got, corrupt>>

Deliver(e) ==
    /\ e \in sent
    /\ got[e] = 0
    /\ got' = [got EXCEPT ![e] = 1]
    /\ UNCHANGED <<sent, corrupt>>

Next == \E e \in Events : Publish(e) \/ Deliver(e)

Spec == Init /\ [][Next]_<<sent, got, corrupt>>
=============================================================================
