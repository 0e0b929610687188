--------------------------- MODULE XbftNodeTree ---------------------------
(***************************************************************************)
(* The node tree of one replica with its list of leaves,                   *)
(* src/lib/engine/XbftNodeTree.cpp. Nothing in lib calls ReleaseFrom: a     *)
(* tree only grows. A node received again takes its place in m_nodes and is *)
(* put at the end of m_leafNodes, so that the list may hold a node twice,   *)
(* or one that has children.                                               *)
(***************************************************************************)
EXTENDS Integers, SequencesExt

VARIABLES
  node,       \* what each hash stands for: a record with sequence and parent
  nodes,      \* m_nodes: the hashes of the nodes in the tree
  leafNodes   \* m_leafNodes, as hashes

CanAppend(n) == n.parent \in nodes => node[n.parent].sequence = n.sequence - 1

\* Mutant: the node is only put into the list of leaves.
AppendLeaf(h, n) ==
  /\ CanAppend(n)
  /\ nodes' = nodes
  /\ leafNodes' = Append(RemoveFirst(leafNodes, n.parent), h)

\* The parent's first entry in the list of leaves goes.
AppendNode(h, n) ==
  /\ CanAppend(n)
  /\ nodes' = nodes \cup {h}
  /\ leafNodes' = Append(RemoveFirst(leafNodes, n.parent), h)

LeafSequence(i) == node[leafNodes[i]].sequence

\* Mutant: the newest leaf.
NewestLeafHash == Last(leafNodes)

\* The first of the leaves with the highest sequence.
GetHighestLeafHash ==
  leafNodes[CHOOSE i \in DOMAIN leafNodes :
              /\ \A j \in DOMAIN leafNodes : LeafSequence(j) <= LeafSequence(i)
              /\ \A j \in 1 .. (i - 1) : LeafSequence(j) < LeafSequence(i)]

-----------------------------------------------------------------------------

\* The sequence of GetHighestLeafHash is the highest in the tree, in whatever
\* order nodes arrive, and again: a new value is proposed on top of it, and it is
\* the only node that the pacemaker's timer looks at (XbftLiveness.cpp:196).
HighestLeafIsHighest ==
  /\ GetHighestLeafHash \in nodes
  /\ \A h \in nodes : node[h].sequence <= node[GetHighestLeafHash].sequence
=============================================================================
