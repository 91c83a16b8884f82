------------------------------ MODULE MCKahnSort ------------------------------
EXTENDS KahnSort

\* Three nodes; two of which c is not one, so that edges dangle; an id used twice.
MCNodeLists == {<<"a", "b", "c">>, <<"b", "a">>, <<"a", "b", "a">>}
MCEdgeIds == {"a", "b", "c"}
=============================================================================
