------------------------------- MODULE TopLayer -------------------------------
(***************************************************************************)
(* What a page with modal dialogs shows its user, as browsers with a       *)
(* native dialog element do it: the modal dialogs lie on top of each other *)
(* in the order in which they were shown, and only the topmost can be      *)
(* used.  Dialogs leave the layer one at a time, from any place.           *)
(***************************************************************************)
EXTENDS Naturals, Sequences

CONSTANT Dialogs

VARIABLES
    layer,   \* the modal dialogs, topmost first
    usable   \* the dialogs the user can reach

TopOf(s) == IF s = <<>> THEN Dialogs ELSE {Head(s)}

Init == layer = <<>> /\ usable = Dialogs

Show(d) ==
    /\ \A i \in 1 .. Len(layer) : layer[i] # d
    /\ layer' = <<d>> \o layer
    /\ usable' = {d}

Leave(i) ==
    /\ layer' = [j \in 1 .. Len(layer) - 1 |-> IF j < i THEN layer[j] ELSE layer[j + 1]]
    /\ usable' = TopOf(layer')

Next ==
    \/ \E d \in Dialogs : Show(d)
    \/ \E i \in 1 .. Len(layer) : Leave(i)

Spec == Init /\ [][Next]_<<layer, usable>>
===============================================================================
