------------------------------- MODULE Lists -------------------------------
(* The loop over a list that several parts of the node have: a for loop over a std::vector   *)
(* or a std::deque that carries its result from one element to the next.                     *)
EXTENDS Integers, Sequences, FiniteSetsExt

\* The result of op(result so far, element), from start and over the elements in their order.
InOrder(op(_, _), start, list) ==
    MapThenFoldSet(LAMBDA x, y : op(y, x), start, LAMBDA i : list[i], LAMBDA S : Max(S), DOMAIN list)

=============================================================================
