------------------------------ MODULE MCAWDSNL ------------------------------
(* Instances of AWDSNL for TLC.                                            *)
EXTENDS AWDSNL, TLC

CONSTANTS n1, n2, s1, s2

\* One node with a flow manager that comes and goes, and with two subjects; two nodes
\* whose network attributes stay.
MCConfigs ==
    {[wants |-> w @@ [n \in Nodes |-> {}], manager |-> m, busy |-> TRUE, steady |-> a] :
        <<w, m, a>> \in {<<n1 :> {s1}, TRUE, FALSE>>, <<n1 :> {s1, s2}, FALSE, FALSE>>,
                        <<n1 :> {s1} @@ n2 :> {s1}, FALSE, TRUE>>}}
=============================================================================
