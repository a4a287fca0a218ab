----------------------------- MODULE MCReplicas -----------------------------
EXTENDS Replicas

CONSTANTS c1, c2

\* Three letters, one of them with two names
MCNames == << <<"Acatl">>, <<"Xoxipepe", "Xipil">>, <<"Zolin">> >>

MCActions == <<"SACRIFICE", "FESTIVAL">>

\* The easy text is for an affinity that a sacrifice takes away.
MCminAffinity == [a \in {"SACRIFICE", "FESTIVAL"} |-> {0, 1}]

MCSeed == {<<0, 1, 1, 2, 1>>, <<2, 0, 1, 1>>}
=============================================================================
