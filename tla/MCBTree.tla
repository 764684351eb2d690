------------------------------ MODULE MCBTree --------------------------------
(* The B+ tree for TLC.  Nodes are small (4 entries, 3 routers), so that a dozen
   keys make a tree of three levels. *)
EXTENDS BTree

MCUpTo(n) == [i \in 1..n |-> i]
\* Two leaves; a root about to split; three levels, in ascending order and not;
\* and with a router that has a single child left.
MCLoads == {MCUpTo(6), MCUpTo(10), <<12, 1, 10, 3, 8, 5, 6, 7, 4, 9, 2, 11>>,
            MCUpTo(12) \o <<-2, -1>>}

\* Two leaves under a root.
MCTwoLeaves == {MCUpTo(6)}
==============================================================================
