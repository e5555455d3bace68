------------------------------ MODULE MCCodeCache ------------------------------
(* CodeCache on small sets, with the references the code classes have.     *)
EXTENDS CodeCache, TLC

CONSTANTS h1, h2, h3, A, B, C, i1, i2, i3, i4, i5, i6

(* A refers to B, B to nothing.                                            *)
ChainRef == [c \in Classes |-> IF c = A THEN {B} ELSE {}]

(* Rows of A refer to rows of A: "only Codes are allowed to reference      *)
(* itself" (SelfReferenceAllowed.java).                                    *)
SelfRef == [c \in Classes |-> IF c = A THEN {A} ELSE {}]

(* The same, and A refers to B and C, B refers to C.                       *)
MixedRef == [c \in Classes |-> IF c = A THEN {A, B, C} ELSE IF c = B THEN {C} ELSE {}]

(* Rows of A refer to B, rows of B to A: ModelTest accepts that, too.      *)
CyclicRef == [c \in Classes |-> IF c = A THEN {B} ELSE {A}]

MCSymmetry == Permutations(Threads)

(* What can still make a difference: an item is known by where it is used, *)
(* a call that takes its item has no versions, a reading transaction has   *)
(* no class, a committed one no snapshot, and a version of d known to c    *)
(* matters only if rows of c refer to d.                                   *)
Later(a, b) == IF a < b THEN b ELSE a

Uses(i) ==
    <<{c \in Classes : cache[c] = i},
      UNION {{<<h, n>> : n \in {m \in DOMAIN frames[h] : frames[h][m].item = i}} : h \in Threads}>>

ItemView(i) ==
    IF content[i].stamp = "unset" THEN <<Uses(i)>>
    ELSE <<Uses(i), content[i].stamp, Later(content[i].version, content[i].queried)>>

FrameView(f) ==
    IF f.at = "rows" THEN <<f.cl, f.todo, f.version, Later(f.version, f.queried)>>
                     ELSE <<f.cl, f.at>>

TxView(t) ==
    CASE t.at = "none" -> <<>>
      [] t.at = "committed" -> <<IF t.kind = "read" THEN "read" ELSE <<t.kind, t.cl, t.version>> >>
      [] t.at \notin {"none", "committed"} ->
            <<t.at, t.isolation, t.taken, t.snapshot, t.kind,
              IF t.kind = "read" THEN {} ELSE {t.cl}, t.version>>

MCView == <<committed, latest, completed, monitor,
            {ItemView(i) : i \in {j \in Items : Reachable(j)}},
            [h \in Threads |-> [n \in DOMAIN frames[h] |-> FrameView(frames[h][n])]],
            [h \in Threads |-> TxView(tx[h])],
            [c \in Classes |-> [v \in Versions |-> [d \in Ref[c] |-> known[c][v][d]]]]>>

=============================================================================
