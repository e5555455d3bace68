--------------------------- MODULE MCTransactionPool ---------------------------
(* TransactionPool on small sets.                                          *)
EXTENDS TransactionPool, TLC

CONSTANTS h1, h2, t1, t2, t3, t4, c1, c2, c3, c4, c5

MCSymmetry == Permutations(Threads) \cup Permutations(Connections)

=============================================================================
