------------------------------ MODULE EntityTable ------------------------------
(***************************************************************************)
(* An entity in the database: a row with a version, the row of an object   *)
(* that depends on it (DependableTable) and the rows of a list (SubTable). *)
(* Threads insert, read, update, save and delete it in transactions of     *)
(* several statements each, which run interleaved.  An update compares the *)
(* version of the object with the one of the row.                          *)
(*                                                                         *)
(* The database is external: a row that a transaction has written is       *)
(* locked until it ends, statements see what is committed (or what was     *)
(* committed when the transaction began) and what their own transaction    *)
(* wrote, primary and foreign keys are kept.  Any statement may fail: the  *)
(* connection is lost, a lock is waited for too long, transactions are in  *)
(* a deadlock or cannot be serialized.                                     *)
(***************************************************************************)
EXTENDS Integers, Sequences, FiniteSets

CONSTANTS
    Threads,
    Values,       \* of columns
    Contents,     \* the states of the entity that occur: value, part and list
    MaxLength,    \* of the lists
    MaxVersion,   \* bound on the updates
    None

RowType == [version : Nat, value : Values]
ContentType == [value : Values, part : Values \cup {None}, list : Seq(Values)]
ObjectType == [version : Nat, content : ContentType]

ASSUME EntityAssumption ==
    /\ MaxLength \in Nat /\ MaxVersion \in Nat
    /\ None \notin Values /\ None \notin RowType /\ None \notin ObjectType
    /\ Contents \subseteq ContentType
    /\ \A c \in Contents : Len(c.list) <= MaxLength

VARIABLES
    committed,    \* the rows of all tables, as they are committed
    written,      \* what the transaction of a thread has written, and locked
    snapshot,     \* what is committed when it begins, if it only sees that
    job,          \* the transaction of a thread
    copy,         \* the entity as a thread last read it
    born          \* has the entity been inserted?

vars == <<committed, written, snapshot, job, copy, born>>

Positions == 0 .. MaxLength - 1
TheRow == <<"row", 0>>
ThePart == <<"part", 0>>
ListRow(p) == <<"list", p>>
ListRows == {ListRow(p) : p \in Positions}
Parts == {ThePart} \cup ListRows
Rows == {TheRow} \cup Parts

Nothing == [r \in Rows |-> None]
NoWrites == [r \in {} |-> None]

Versioned(v, c) == [version |-> v, content |-> c]

-----------------------------------------------------------------------------
(* The database *)

Over(w, d) == [r \in Rows |-> IF r \in DOMAIN w THEN w[r] ELSE d[r]]
Latest(t) == Over(written[t], committed)
Visible(t) == IF job[t].isolated THEN Over(written[t], snapshot[t]) ELSE Latest(t)

(* The rows that an UPDATE or DELETE finds.                                *)
Found(t, rows) == {r \in rows : Visible(t)[r] # None}

MayWrite(t, rows) ==
    \A r \in rows :
        /\ \A o \in Threads \ {t} : r \notin DOMAIN written[o]
        /\ r \in DOMAIN written[t] \/ ~job[t].isolated \/ committed[r] = snapshot[t][r]

Write(t, rows, row) ==
    /\ MayWrite(t, rows)
    /\ written' = [written EXCEPT ![t] =
          [r \in DOMAIN @ \cup rows |-> IF r \in rows THEN row ELSE @[r]]]

InsertInto(t, r, row) == Visible(t)[r] = None /\ Write(t, {r}, row)
UpdateIn(t, r, row) == Write(t, Found(t, {r}), row)
DeleteFrom(t, rows) == Write(t, Found(t, rows), None)

(* SELECT ... ORDER BY position                                            *)
ListIn(d) ==
    LET filled == {p \in Positions : d[ListRow(p)] # None}
    IN  [i \in 1 .. Cardinality(filled) |->
           d[ListRow(CHOOSE p \in filled : Cardinality({q \in filled : q < p}) = i - 1)]]

-----------------------------------------------------------------------------
(* The transactions: the statements they execute, one after the other *)

Steps == [
    none   |-> <<>>,
    read   |-> <<"SelectRow", "SelectPart", "SelectList">>,
    insert |-> <<"InsertRow", "InsertPart", "AddList">>,
    update |-> <<"UpdateRow", "FindPart", "StorePart", "GetList", "ReplaceList">>,
    save   |-> <<"UpdateRow", "FindPart", "StorePart", "GetList", "ReplaceList",
                 "SelectRow", "SelectPart", "SelectList">>,
    delete |-> <<"DeletePart", "SelectRow", "SelectPart", "SelectList",
                 "GetList", "ReplaceList", "DeleteRow">>]

NoContent == [value |-> None, part |-> None, list |-> <<>>]

(* A transaction: its parameter, its place and its local variables.        *)
Job(op, isolated, new) ==
    [op |-> op, step |-> 1, isolated |-> isolated, new |-> new,
     object |-> None, existing |-> None, size |-> 0, position |-> 0]

Idle == Job("none", FALSE, NoContent)

Init ==
    /\ committed = Nothing /\ born = FALSE
    /\ written = [t \in Threads |-> NoWrites]
    /\ snapshot = [t \in Threads |-> Nothing]
    /\ job = [t \in Threads |-> Idle]
    /\ copy = [t \in Threads |-> None]

Begin(t, op, isolated, new) ==
    /\ job[t] = Idle
    /\ job' = [job EXCEPT ![t] = Job(op, isolated, new)]
    /\ snapshot' = IF isolated THEN [snapshot EXCEPT ![t] = committed] ELSE snapshot
    /\ UNCHANGED <<committed, written, copy, born>>

BeginInsert(t, isolated) ==
    /\ ~born /\ \A o \in Threads : job[o].op # "insert"
    /\ \E c \in Contents : Begin(t, "insert", isolated, c)

(* The user has edited the object he has read.                             *)
BeginUpdate(t, isolated) ==
    /\ copy[t] # None /\ copy[t].version < MaxVersion
    /\ \E c \in Contents, op \in {"update", "save"} : Begin(t, op, isolated, c)

BeginOther(t, isolated) ==
    /\ born
    /\ \E op \in {"read", "delete"} : Begin(t, op, isolated, NoContent)

-----------------------------------------------------------------------------
(* The statements *)

LastStep(t) == Len(Steps[job[t].op])
At(t, step) == job[t].step <= LastStep(t) /\ Steps[job[t].op][job[t].step] = step
Done(t) == job' = [job EXCEPT ![t].step = @ + 1]
Query(t) == UNCHANGED <<committed, written, snapshot, copy, born>>
Statement(t) == UNCHANGED <<committed, snapshot, copy, born>>

Rollback(t) ==
    /\ written' = [written EXCEPT ![t] = NoWrites]
    /\ snapshot' = [snapshot EXCEPT ![t] = Nothing]
    /\ job' = [job EXCEPT ![t] = Idle]
    /\ UNCHANGED <<committed, copy, born>>

(* Mutant: the column has no default.                                      *)
RowWithoutVersion(v, value) == [version |-> None, value |-> value]

Row(v, value) == [version |-> v, value |-> value]

(* The version of a new row is the default of the column.                  *)
InsertRow(t) ==
    /\ At(t, "InsertRow")
    /\ InsertInto(t, TheRow, Row(0, job[t].new.value))
    /\ Done(t) /\ Statement(t)

InsertPart(t) ==
    /\ At(t, "InsertPart")
    /\ IF job[t].new.part # None THEN InsertInto(t, ThePart, job[t].new.part)
                                 ELSE UNCHANGED written
    /\ Done(t) /\ Statement(t)

(* Mutant: WHERE id = ?.                                                   *)
UpdateAnyVersion(t) ==
    LET row == Visible(t)[TheRow]
    IN  /\ At(t, "UpdateRow")
        /\ MayWrite(t, Found(t, {TheRow}))
        /\ IF row # None
           THEN /\ UpdateIn(t, TheRow, Row(row.version + 1, job[t].new.value))
                /\ Done(t) /\ Statement(t)
           ELSE Rollback(t)

(* Mutant: a new version only for a changed row.                           *)
UpdateChangedRow(t) ==
    LET row == Visible(t)[TheRow]
        step == IF row.value = job[t].new.value THEN 0 ELSE 1
    IN  /\ At(t, "UpdateRow")
        /\ MayWrite(t, Found(t, {TheRow}))
        /\ IF row # None /\ row.version = copy[t].version
           THEN /\ UpdateIn(t, TheRow, Row(row.version + step, job[t].new.value))
                /\ Done(t) /\ Statement(t)
           ELSE Rollback(t)

(* WHERE id = ? AND version = ?.  An exception if no row is updated.       *)
UpdateRow(t) ==
    LET row == Visible(t)[TheRow]
    IN  /\ At(t, "UpdateRow")
        /\ MayWrite(t, Found(t, {TheRow}))
        /\ IF row # None /\ row.version = copy[t].version
           THEN /\ UpdateIn(t, TheRow, Row(row.version + 1, job[t].new.value))
                /\ Done(t) /\ Statement(t)
           ELSE Rollback(t)

FindPart(t) ==
    /\ At(t, "FindPart")
    /\ job' = [job EXCEPT ![t].step = @ + 1,
                          ![t].existing = IF job[t].new.part = None THEN None
                                          ELSE Visible(t)[ThePart]]
    /\ Query(t)

StorePart(t) ==
    LET part == job[t].new.part
    IN  /\ At(t, "StorePart")
        /\ \/ part = None /\ DeleteFrom(t, {ThePart})
           \/ part # None /\ part = job[t].existing /\ UNCHANGED written
           \/ part # None /\ job[t].existing = None /\ InsertInto(t, ThePart, part)
           \/ part # None /\ job[t].existing \notin {None, part} /\ UpdateIn(t, ThePart, part)
        /\ Done(t) /\ Statement(t)

GetList(t) ==
    /\ At(t, "GetList")
    /\ job' = [job EXCEPT ![t].step = @ + 1, ![t].position = 0,
                          ![t].size = Len(ListIn(Visible(t)))]
    /\ Query(t)

Element(t) == job[t].new.list[job[t].position + 1]
MoveOn(t) == job' = [job EXCEPT ![t].position = @ + 1]

(* Mutant: WHERE position = ?.                                              *)
ReplaceListAndDeleteOne(t) ==
    LET p == job[t].position
        n == Len(job[t].new.list)
    IN  /\ At(t, "ReplaceList")
        /\ \/ p < n /\ p < job[t].size  /\ UpdateIn(t, ListRow(p), Element(t)) /\ MoveOn(t)
           \/ p < n /\ p >= job[t].size /\ InsertInto(t, ListRow(p), Element(t)) /\ MoveOn(t)
           \/ p >= n /\ p < job[t].size
              /\ DeleteFrom(t, {ListRow(p)}) /\ Done(t)
           \/ p >= n /\ p >= job[t].size /\ UNCHANGED written /\ Done(t)
        /\ Statement(t)

(* Mutant: WHERE position > ?.                                              *)
ReplaceListAndKeepOne(t) ==
    LET p == job[t].position
        n == Len(job[t].new.list)
    IN  /\ At(t, "ReplaceList")
        /\ \/ p < n /\ p < job[t].size  /\ UpdateIn(t, ListRow(p), Element(t)) /\ MoveOn(t)
           \/ p < n /\ p >= job[t].size /\ InsertInto(t, ListRow(p), Element(t)) /\ MoveOn(t)
           \/ p >= n /\ p < job[t].size
              /\ DeleteFrom(t, {ListRow(q) : q \in p + 1 .. MaxLength - 1}) /\ Done(t)
           \/ p >= n /\ p >= job[t].size /\ UNCHANGED written /\ Done(t)
        /\ Statement(t)

(* Rows of the list are updated as long as there are any, then inserted,   *)
(* and the rest is deleted at once.  A deletion replaces by an empty list. *)
ReplaceList(t) ==
    LET p == job[t].position
        n == Len(job[t].new.list)
    IN  /\ At(t, "ReplaceList")
        /\ \/ p < n /\ p < job[t].size  /\ UpdateIn(t, ListRow(p), Element(t)) /\ MoveOn(t)
           \/ p < n /\ p >= job[t].size /\ InsertInto(t, ListRow(p), Element(t)) /\ MoveOn(t)
           \/ p >= n /\ p < job[t].size
              /\ DeleteFrom(t, {ListRow(q) : q \in p .. MaxLength - 1}) /\ Done(t)
           \/ p >= n /\ p >= job[t].size /\ UNCHANGED written /\ Done(t)
        /\ Statement(t)

AddList(t) ==
    /\ At(t, "AddList")
    /\ IF job[t].position < Len(job[t].new.list)
       THEN InsertInto(t, ListRow(job[t].position), Element(t)) /\ MoveOn(t)
       ELSE UNCHANGED written /\ Done(t)
    /\ Statement(t)

(* No row: read returns null, and a deletion throws.                       *)
SelectRow(t) ==
    LET row == Visible(t)[TheRow]
    IN  /\ At(t, "SelectRow")
        /\ CASE row # None ->
                  /\ job' = [job EXCEPT ![t].step = @ + 1,
                        ![t].object = Versioned(row.version, [NoContent EXCEPT !.value = row.value])]
                  /\ Query(t)
             [] row = None /\ job[t].op = "delete" -> Rollback(t)
             [] OTHER -> job' = [job EXCEPT ![t].step = LastStep(t) + 1] /\ Query(t)

SelectPart(t) ==
    /\ At(t, "SelectPart")
    /\ job' = [job EXCEPT ![t].step = @ + 1, ![t].object.content.part = Visible(t)[ThePart]]
    /\ Query(t)

SelectList(t) ==
    /\ At(t, "SelectList")
    /\ job' = [job EXCEPT ![t].step = @ + 1, ![t].object.content.list = ListIn(Visible(t))]
    /\ Query(t)

DeletePart(t) ==
    /\ At(t, "DeletePart")
    /\ DeleteFrom(t, {ThePart})
    /\ Done(t) /\ Statement(t)

(* The foreign keys: nothing may refer to the row.                         *)
DeleteRow(t) ==
    /\ At(t, "DeleteRow")
    /\ Found(t, {TheRow}) # {} => \A r \in Parts : Latest(t)[r] = None
    /\ DeleteFrom(t, {TheRow})
    /\ Done(t) /\ Statement(t)

Commit(t) ==
    /\ job[t].op # "none" /\ job[t].step > LastStep(t)
    /\ committed' = Latest(t)
    /\ written' = [written EXCEPT ![t] = NoWrites]
    /\ snapshot' = [snapshot EXCEPT ![t] = Nothing]
    /\ copy' = IF job[t].op \in {"read", "save"}
               THEN [copy EXCEPT ![t] = job[t].object] ELSE copy
    /\ born' = (born \/ job[t].op = "insert")
    /\ job' = [job EXCEPT ![t] = Idle]

(* A statement, or the commit, fails.                                      *)
Fail(t) == job[t].op # "none" /\ Rollback(t)

Next ==
    \E t \in Threads :
        \/ \E isolated \in BOOLEAN :
              BeginInsert(t, isolated) \/ BeginUpdate(t, isolated) \/ BeginOther(t, isolated)
        \/ InsertRow(t) \/ InsertPart(t) \/ AddList(t)
        \/ UpdateRow(t) \/ FindPart(t) \/ StorePart(t) \/ GetList(t) \/ ReplaceList(t)
        \/ SelectRow(t) \/ SelectPart(t) \/ SelectList(t)
        \/ DeletePart(t) \/ DeleteRow(t)
        \/ Commit(t) \/ Fail(t)

Spec == Init /\ [][Next]_vars

-----------------------------------------------------------------------------

TypeOK ==
    /\ DOMAIN committed = Rows /\ committed[TheRow] \in RowType \cup {None}
    /\ \A r \in Parts : committed[r] \in Values \cup {None}
    /\ \A t \in Threads :
          /\ DOMAIN written[t] \subseteq Rows
          /\ TheRow \in DOMAIN written[t] => written[t][TheRow] \in RowType \cup {None}
          /\ \A r \in Parts \cap DOMAIN written[t] : written[t][r] \in Values \cup {None}
          /\ job[t].op \in DOMAIN Steps /\ job[t].step \in 1 .. LastStep(t) + 1
          /\ job[t].position \in 0 .. MaxLength /\ job[t].size \in 0 .. MaxLength
          /\ copy[t] # None => copy[t].version \in Nat
    /\ born \in BOOLEAN

(* What is committed of an entity is whole: its list has the positions     *)
(* from 0 on without a gap, and of a deleted entity nothing is left.       *)
StoredWhole ==
    /\ \A p, q \in Positions : p < q /\ committed[ListRow(q)] # None => committed[ListRow(p)] # None
    /\ committed[TheRow] = None => committed = Nothing

Content(d) == [value |-> d[TheRow].value, part |-> d[ThePart], list |-> ListIn(d)]
Entity ==
    IF committed[TheRow] = None THEN None
    ELSE Versioned(committed[TheRow].version, Content(committed))

(* A mixed state, read while another thread was writing, does not have the *)
(* version of the entity.                                                  *)
CopiesAreTrue ==
    \A t \in Threads :
        copy[t] # None /\ Entity # None /\ copy[t].version = Entity.version => copy[t] = Entity

(* What is committed is the object that was given to insert, update or     *)
(* save, all of it.                                                        *)
StoresTheObject ==
    [][\A t \in Threads :
          job[t].op \in {"insert", "update", "save"} /\ Commit(t) => Entity'.content = job[t].new]_vars

(* Optimistic locking keeps its promise.                                   *)
Store == INSTANCE VersionedStore WITH entity <- Entity, seen <- copy
ImplementsStore == Store!Spec
===============================================================================
