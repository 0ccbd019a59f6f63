------------------------------ MODULE EventFeed ------------------------------
(***************************************************************************)
(* What a subscriber in another process may rely on: it gets the events of *)
(* its subject in the order of their publication, each once, but those     *)
(* that were published while it lagged behind by Limit, and empty ones.    *)
(***************************************************************************)
EXTENDS Naturals, Sequences

CONSTANTS Subscribers, Events, SubjectOf, Length, Limit

VARIABLES published,  \* the events published so far
          open,       \* the subscribers known to the event channel handler
          feed,       \* per subscriber: the events on their way to it
          got         \* per subscriber: the events it was notified of

vars == <<published, open, feed, got>>

Size(e) == Length[e] + 1
Lag(s) == LET sum[i \in 0 .. Len(s)] == IF i = 0 THEN 0 ELSE sum[i - 1] + Size(s[i])
          IN  sum[Len(s)]

Init == /\ published = {}
        /\ open = {}
        /\ feed = [c \in Subscribers |-> <<>>]
        /\ got = [c \in Subscribers |-> <<>>]

Open(c) == open' = open \cup {c} /\ UNCHANGED <<published, feed, got>>

Close(c) == /\ open' = open \ {c}
            /\ feed' = [feed EXCEPT ![c] = <<>>]
            /\ UNCHANGED <<published, got>>

Concerned(e) == {c \in open : SubjectOf[c] = SubjectOf[e]}

Publish(e) ==
    /\ e \notin published
    /\ published' = published \cup {e}
    /\ \E lost \in SUBSET {c \in Concerned(e) : Lag(feed[c]) >= Limit} :
        feed' = [c \in Subscribers |->
                    IF c \in Concerned(e) \ lost THEN Append(feed[c], e) ELSE feed[c]]
    /\ UNCHANGED <<open, got>>

Notify(c) ==
    /\ feed[c] # <<>>
    /\ feed' = [feed EXCEPT ![c] = Tail(@)]
    /\ got' = IF Length[Head(feed[c])] = 0 THEN got
              ELSE [got EXCEPT ![c] = Append(@, Head(feed[c]))]
    /\ UNCHANGED <<published, open>>

Next == \/ \E c \in Subscribers : Open(c) \/ Close(c) \/ Notify(c)
        \/ \E e \in Events : Publish(e)

Spec == Init /\ [][Next]_vars
=============================================================================
