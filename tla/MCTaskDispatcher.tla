-------------------------- MODULE MCTaskDispatcher --------------------------
(* Instances of TaskDispatcher for TLC.                                    *)
EXTENDS TaskDispatcher

CONSTANTS p1, s1, s2, b1

\* Periods with a common multiple, and a task that is executed once.
MCPeriod == [t \in Tasks |-> IF t = p1 THEN 2 ELSE IF t \in Subscribers THEN 3 ELSE 0]

\* Another context enqueues and reserves while the dispatcher sleeps or executes; or
\* background tasks yield to real-time tasks.
Concurrent == [asynchronous |-> TRUE, stops |-> "once", yields |-> FALSE]
Yielding   == [asynchronous |-> FALSE, stops |-> "once", yields |-> TRUE]
MCUsages   == {Concurrent, Yielding}

\* Background tasks yield, the network scheduler stops nothing.
YieldingOnly == {[Yielding EXCEPT !.stops = "never"]}
\* Everything is enqueued before run() or by tasks.
Sequential == {[Concurrent EXCEPT !.asynchronous = FALSE]}
=============================================================================
