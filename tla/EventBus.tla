------------------------------ MODULE EventBus ------------------------------
(***************************************************************************)
(* What applications may rely on, however many networks there are between  *)
(* them: a node gets an event only after it was published and while it     *)
(* subscribes to its subject, and at most once.                            *)
(***************************************************************************)
EXTENDS Naturals

CONSTANTS Nodes, Subjects, Events, SubjectOf

VARIABLES published,   \* the events published so far
          subscribed,  \* pairs of a node and a subject it subscribes to
          got          \* how often each node was notified of each event

vars == <<published, subscribed, got>>

Init == published = {} /\ subscribed = {} /\ got = [d \in Nodes \X Events |-> 0]

Publish(e) ==
    /\ e \notin published
    /\ published' = published \cup {e}
    /\ UNCHANGED subscribed

Subscribe(n, s) ==
    /\ subscribed' = subscribed \cup {<<n, s>>}
    /\ UNCHANGED <<published, got>>

Notify(n, e) ==
    /\ e \in published
    /\ <<n, SubjectOf[e]>> \in subscribed
    /\ got[<<n, e>>] = 0
    /\ got' = [got EXCEPT ![<<n, e>>] = 1]
    /\ UNCHANGED subscribed

\* A callback may publish: then both happen at once.
Next ==
    \/ \E e \in Events : Publish(e) /\ UNCHANGED got
    \/ \E n \in Nodes, s \in Subjects : Subscribe(n, s)
    \/ \E n \in Nodes, e \in Events : Notify(n, e) /\ UNCHANGED published
    \/ \E n \in Nodes, e, f \in Events : Notify(n, e) /\ Publish(f)

Spec == Init /\ [][Next]_vars
=============================================================================
