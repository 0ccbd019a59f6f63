----------------------------- MODULE MCGateway -----------------------------
(* Instances of Gateway for TLC.                                           *)
EXTENDS Gateway, TLC

CONSTANTS a, b, c, g, h,     \* nodes
          A, B, C,           \* networks
          S1, S2,            \* subjects
          e1, e2, f1         \* events

MCSubjectOf == (e1 :> S1) @@ (e2 :> S1) @@ (f1 :> S2)

\* Two networks with a gateway between them.
Two == [on |-> (a :> {A}) @@ (b :> {B}) @@ (c :> {}) @@ (g :> {A, B}) @@ (h :> {}),
        gateways |-> {g}, subscribes |-> {<<a, S1>>, <<b, S2>>},
        publishes |-> {<<b, e1>>, <<g, e2>>}, reacts |-> {},
        storage |-> 2, threads |-> FALSE, blocks |-> FALSE, late |-> FALSE]

\* A bind on the gateway lets packets in; it has room for one forward channel.
Blocking == [Two EXCEPT !.blocks = TRUE, !.storage = 1, !.publishes = {<<b, e1>>, <<a, f1>>}]

\* The gateway's application runs in parallel to its receive context.
Threads == [Two EXCEPT !.threads = TRUE, !.subscribes = {<<a, S1>>, <<g, S1>>},
                       !.publishes = {<<b, e1>>, <<b, e2>>}]

\* Two nodes of one network subscribe, and one of the other, which waits in vain.
Spread == [Two EXCEPT !.on = (a :> {A}) @@ (b :> {B}) @@ (c :> {A}) @@ (g :> {A, B}) @@ (h :> {}),
           !.subscribes = {<<a, S1>>, <<c, S1>>, <<b, S1>>}, !.blocks = TRUE,
           !.publishes = {<<b, e2>>}]

\* Three networks in a row; a node answers an event with another one.
Row == [Two EXCEPT !.on = (a :> {A}) @@ (b :> {}) @@ (c :> {C}) @@ (g :> {A, B}) @@ (h :> {B, C}),
        !.gateways = {g, h}, !.subscribes = {<<a, S1>>, <<c, S2>>},
        !.publishes = {<<a, f1>>}, !.reacts = {<<c, f1, e1>>}]

MCConfigs == {Two, Blocking, Threads, Spread, Row}

\* What the theorem about the bus asks of the configurations.
ASSUME WellFormed == \A k \in MCConfigs : LoopFree(k) /\ Undisturbed(k)

\* An application on the gateway answers an event.
AnswersOnGateway == {[Two EXCEPT !.subscribes = {<<g, S1>>, <<b, S2>>}, !.publishes = {<<a, e1>>}, !.reacts = {<<g, e1, f1>>}]}
\* An application on the gateway publishes while an event is being forwarded.
PublishesInParallel == {[Threads EXCEPT !.publishes = {<<b, e1>>, <<g, e2>>}]}
\* A subscription before the gateway runs.
LateGateway == {[Two EXCEPT !.late = TRUE]}
=============================================================================
