----------------------------- MODULE MCEntityTable -----------------------------
(* Three states of an entity, with and without a dependent object and with *)
(* lists of all lengths up to two.                                         *)
EXTENDS EntityTable, TLC

CONSTANTS h1, h2

MCContents ==
    {[value |-> "a", part |-> None, list |-> <<"x", "y">>],
     [value |-> "a", part |-> "p", list |-> <<>>],
     [value |-> "b", part |-> "q", list |-> <<"y">>]}

MCSymmetry == Permutations(Threads)
===============================================================================
