-------------------------- MODULE MCEventDispatcher --------------------------
(***************************************************************************)
(* Instances of EventDispatcher for TLC: how the contexts of a node are    *)
(* divided, per platform.                                                  *)
(***************************************************************************)
EXTENDS EventDispatcher

CONSTANTS App, Net, p1, s1, s2, s3

\* s1 and s2 subscribe to the subject that p1 publishes, s3 to another one.
MCSubjectOf == (p1 :> "a") @@ (s1 :> "a") @@ (s2 :> "a") @@ (s3 :> "b")

\* A microcontroller: the main program owns the channels, the receive interrupt
\* fetches events, and its callbacks publish answers.
MayInterrupt == (App :> {"register", "destroy", "publish"}) @@ (Net :> {"fetch", "publish"})

\* A gateway: forwarding channels are registered in the receive context, the
\* main program only publishes.
MayGateway == (App :> {"publish"}) @@ (Net :> {"register", "fetch", "publish"})
=============================================================================
