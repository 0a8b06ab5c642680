--------------------------- MODULE MCSearchChurn ---------------------------
(* Instances of SearchChurn.  Nodes are the table's indices, node 0 is the *)
(* bootnode, a searcher is a pair of its node and its topic.               *)
EXTENDS SearchChurn

ThreeNodes == 0..2

NodeOfPair == [s \in Searchers |-> s[1]]

\* One node searches for two topics.
TwoTopics == {<<1, 1>>, <<1, 2>>}

\* ... and another one for one of them.
TwoNodesDial == TwoTopics \cup {<<2, 1>>}

SearcherOfOne == {<<1, 1>>}
=============================================================================
