-------------------------- MODULE MCEventLayerStubs --------------------------
(* Instances of EventLayerStubs for TLC.                                   *)
EXTENDS EventLayerStubs, TLC

CONSTANTS k1, k2,           \* clients
          c1, c2, p,        \* channels
          S1,               \* a subject
          e1, e2, e3, n1    \* events, n1 of the network

MCClientOf  == (k1 :> k1) @@ (k2 :> k2) @@ (c1 :> k1) @@ (c2 :> k1)
MCSubjectOf == [x \in {c1, c2, p, e1, e2, e3, n1} |-> S1]
MCLength    == (e1 :> 2) @@ (e2 :> 1) @@ (e3 :> 0) @@ (n1 :> 1)

NoCalls == [t \in Threads |-> <<>>]
PublishAll == << <<"announce", p>>, <<"publish", <<p, e1>>>>, <<"publish", <<p, e2>>>>,
                 <<"publish", <<p, e3>>>>, <<"unannounce", p>> >>

\* One subscriber's callback never returns.
Stuck == [calls |-> (k1 :> << <<"subscribe", c2>>, <<"subscribe", c1>> >>)
                    @@ (k2 :> PublishAll) @@ NoCalls,
          stuck |-> {c2}, network |-> {n1}]

\* A subscriber leaves while events arrive.
Leaving == [calls |-> (k1 :> << <<"subscribe", c1>>, <<"subscribe", c2>>, <<"unsubscribe", c1>> >>)
                      @@ (k2 :> << <<"announce", p>>, <<"publish", <<p, e1>>>>, <<"publish", <<p, e2>>>> >>)
                      @@ NoCalls,
            stuck |-> {}, network |-> {n1}]

\* Callbacks that unsubscribe another channel and publish, and one that is called
\* before its channel is in the map.
Nested == [calls |-> (k1 :> << <<"subscribe", c1>>, <<"announce", p>>, <<"subscribe", c2>> >>)
                     @@ (c1 :> << <<"unsubscribe", c2>> >>)
                     @@ (c2 :> << <<"publish", <<p, e2>>>>, <<"unannounce", p>> >>) @@ NoCalls,
           stuck |-> {}, network |-> {n1, e1}]

MCConfigs == {Stuck, Leaving, Nested}

ASSUME WellFormed == \A k \in MCConfigs : PublishedOnce(k)

\* A callback that unsubscribes its own channel.
UnsubscribesItself == {[Leaving EXCEPT !.calls = (c1 :> << <<"unsubscribe", c1>> >>) @@ @]}
\* A callback that subscribes while the main thread unsubscribes its channel.
SubscribesMeanwhile ==
    {[Leaving EXCEPT !.calls = (k1 :> << <<"subscribe", c1>>, <<"unsubscribe", c1>> >>)
                               @@ (c1 :> << <<"subscribe", c2>> >>) @@ @]}
=============================================================================
