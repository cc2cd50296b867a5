---------------------------- MODULE MCCoinsCache ----------------------------
(* CoinsCache on small sets, for TLC. *)
EXTENDS CoinsCache

CONSTANTS f    \* a root other than the empty one

\* The chain has had a shielded output that no reorganisation removes.
MCFloor == [t \in Types |-> f]

\* A new chain: no shielded output yet.
MCEmptyFloor == [t \in Types |-> EmptyRoot]
=============================================================================
