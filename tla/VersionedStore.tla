---------------------------- MODULE VersionedStore ----------------------------
(***************************************************************************)
(* What optimistic locking promises about an entity: its row, the objects  *)
(* that depend on it and its list are one thing with one version, and who  *)
(* updates it has seen exactly what the update replaces.  Who reads while  *)
(* others write may see an outdated, even a mixed state, and keep it.      *)
(***************************************************************************)
EXTENDS Naturals

CONSTANTS
    Threads, Contents,
    None

VARIABLES
    entity,   \* the entity, None before its insert and after its deletion
    born,     \* has it been inserted?  (Ids are not used again.)
    seen      \* what the threads have read of it

Versioned(v, c) == [version |-> v, content |-> c]

Outdated(o) == entity # None => o.version < entity.version

Init == entity = None /\ born = FALSE /\ seen = [t \in Threads |-> None]

Insert(c) ==
    /\ ~born
    /\ born' = TRUE
    /\ entity' = Versioned(0, c)
    /\ UNCHANGED seen

Read(t) ==
    /\ \/ seen'[t] \in {entity, None}
       \/ Outdated(seen'[t])
    /\ seen' = [seen EXCEPT ![t] = seen'[t]]
    /\ UNCHANGED <<entity, born>>

(* With or without the read that ends Backend.save.                        *)
Update(t, c) ==
    /\ entity # None /\ seen[t] = entity
    /\ entity' = Versioned(entity.version + 1, c)
    /\ seen' \in {seen, [seen EXCEPT ![t] = entity']}
    /\ UNCHANGED born

Delete ==
    /\ entity' = None
    /\ UNCHANGED <<born, seen>>

Next ==
    \/ \E c \in Contents : Insert(c) \/ \E t \in Threads : Update(t, c)
    \/ \E t \in Threads : Read(t)
    \/ Delete

Spec == Init /\ [][Next]_<<entity, born, seen>>
===============================================================================
