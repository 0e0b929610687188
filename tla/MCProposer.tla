---------------------------- MODULE MCProposer ----------------------------
EXTENDS XbftProposer

CONSTANTS b, c, d

MCCertifiers == {{b, c, d}}

\* With the first list b leads view 0, and Self view 1; with the second Self leads
\* view 0, and with the third c and d have exchanged their ids.
MCLists == << <<b, Self, c, d>>, <<Self, b, c, d>>, <<Self, b, d, c>> >>

\* b does not hear of the exchange.
MCReplaces == {<<a, 2, 3>> : a \in {Self, c, d}}

\* b proposes in view 0 and is not heard of again.
MCHearing == <<{c, d}, {b, c, d}, {b, c, d}>>

MCMaxView == <<1, 0, 0>>
=============================================================================
