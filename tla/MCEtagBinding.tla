---------------------------- MODULE MCEtagBinding ----------------------------
(* Instances of EtagBinding for TLC.                                       *)
EXTENDS EtagBinding

\* Subjects that share their first or their second half.
MCSubjects == {<<1, 1>>, <<1, 2>>, <<2, 2>>}
=============================================================================
