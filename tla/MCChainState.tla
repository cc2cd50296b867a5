---------------------------- MODULE MCChainState ----------------------------
(* ChainState on small block trees, for TLC. *)
EXTENDS ChainState

CONSTANTS g, a1, a2, a3, a4, b1, b2    \* block names

\* Two branches of two blocks; the blocks of the second one carry more work.
ForkParent == [x \in Blocks \ {g} |-> CASE x = a2 -> a1 [] x = b2 -> b1 [] OTHER -> g]
ForkWork == [x \in Blocks |-> CASE x = g -> 0 [] x \in {a1, b1} -> 1 [] x = a2 -> 2 [] x = b2 -> 3]

\* A block with two children, one of them extended, and a rival of it.
TreeParent == [x \in Blocks \ {g} |-> CASE x \in {a2, b2} -> a1 [] x = a3 -> a2 [] x = a4 -> a3
                                        [] OTHER -> g]

MCHeight == [x \in Blocks |-> CASE x = g -> 0 [] x \in {a1, b1} -> 1 [] x \in {a2, b2} -> 2
                                [] x = a3 -> 3 [] x = a4 -> 4]

\* Addresses that agree neither with the heights nor with the names.
MCAddr == [x \in Blocks |-> CASE x = g -> 0 [] x = a1 -> 2 [] x = b1 -> 1 [] x = a2 -> 4
                              [] x = b2 -> 3 [] x = a3 -> 6 [] x = a4 -> 5]

\* A block and its ancestors, from the parents.
MCChain == LET C[n \in Nat] == [x \in {y \in Blocks : Height[y] <= n} |->
                                  IF x = Genesis THEN {x}
                                  ELSE IF Height[x] < n THEN C[n - 1][x]
                                  ELSE {x} \cup C[n - 1][Parent[x]]]
           IN  C[Cardinality(Blocks)]
=============================================================================
