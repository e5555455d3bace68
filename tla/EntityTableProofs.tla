---------------------------- MODULE EntityTableProofs ----------------------------
(***************************************************************************)
(* Theorems about EntityTable, for any number of threads, any contents,    *)
(* any length of the lists and any number of updates.                      *)
(***************************************************************************)
EXTENDS EntityTable, FiniteSetTheorems, TLAPS

(* What each variable holds.                                               *)
IsData(d) ==
    /\ d = [r \in Rows |-> d[r]]
    /\ d[TheRow] \in RowType \cup {None}
    /\ \A r \in Parts : d[r] \in Values \cup {None}

IsWrites(w) ==
    /\ DOMAIN w \subseteq Rows
    /\ TheRow \in DOMAIN w => w[TheRow] \in RowType \cup {None}
    /\ \A r \in Parts \cap DOMAIN w : w[r] \in Values \cup {None}

JobType ==
    [op : {"none", "read", "insert", "update", "save", "delete"},
     step : Nat \ {0}, isolated : BOOLEAN,
     new : Contents \cup {NoContent}, object : ObjectType \cup {None},
     existing : Values \cup {None}, size : 0 .. MaxLength, position : 0 .. MaxLength]

TypeInv ==
    /\ IsData(committed)
    /\ written = [t \in Threads |-> written[t]] /\ \A t \in Threads : IsWrites(written[t])
    /\ snapshot = [t \in Threads |-> snapshot[t]] /\ \A t \in Threads : IsData(snapshot[t])
    /\ job \in [Threads -> JobType]
    /\ copy \in [Threads -> ObjectType \cup {None}]
    /\ born \in BOOLEAN

(* No row is locked by two transactions.                                   *)
Locks ==
    \A t, o \in Threads : t # o => DOMAIN written[t] \cap DOMAIN written[o] = {}

Filled(d, n) == \A p \in Positions : d[ListRow(p)] # None <=> p < n
Dense(d) == \E n \in 0 .. MaxLength : Filled(d, n)
Whole(d) == Dense(d) /\ (d[TheRow] = None => d = Nothing)

Shared ==
    /\ Whole(committed)
    /\ ~born => committed = Nothing
    /\ \A t, o \in Threads : job[t].op = "insert" /\ job[o].op = "insert" => t = o

(* A state of the entity is not newer than another one, and not another    *)
(* one of the same version.                                                *)
Older(d, e) ==
    d[TheRow] # None /\ e[TheRow] # None =>
        /\ d[TheRow].version <= e[TheRow].version
        /\ d[TheRow].version = e[TheRow].version => d = e

(* The same of an object of which k tables have been read.                 *)
TrueSoFar(o, k, d) ==
    d[TheRow] # None =>
        /\ o.version <= d[TheRow].version
        /\ o.version = d[TheRow].version =>
              /\ o.content.value = d[TheRow].value
              /\ k > 1 => o.content.part = d[ThePart]
              /\ k > 2 => o.content.list = ListIn(d)

HasList(d, list) ==
    \A p \in Positions : d[ListRow(p)] = IF p < Len(list) THEN list[p + 1] ELSE None

(* The first p elements are those of the list, the rest is as it was.      *)
HasElements(d, list, p, old) ==
    \A q \in Positions : d[ListRow(q)] = IF q < p THEN list[q + 1] ELSE old[ListRow(q)]

Basics(t) ==
    /\ job[t].step <= LastStep(t) + 1
    /\ job[t].op \notin {"none", "insert"} => born
    /\ job[t].op = "insert" => ~born
    /\ job[t].op \in {"insert", "update", "save"} => job[t].new \in Contents
    /\ job[t].op \notin {"insert", "update", "save"} => job[t].new = NoContent
    /\ job[t].op \in {"none", "read"} => DOMAIN written[t] = {}
    /\ job[t].step = 1 => DOMAIN written[t] = {}
    /\ job[t].op = "none" => ~job[t].isolated
    /\ job[t].isolated => Whole(snapshot[t]) /\ Older(snapshot[t], committed)

Copied(t) == copy[t] # None => born /\ TrueSoFar(copy[t], 3, committed)

Reading(t) ==
    job[t].op = "read" =>
        /\ job[t].step = 1 => job[t].object = None
        /\ job[t].step \in {2, 3} => job[t].object # None
        /\ job[t].step > 1 /\ job[t].object # None =>
              /\ TrueSoFar(job[t].object, job[t].step - 1, committed)
              /\ job[t].isolated =>
                    /\ snapshot[t][TheRow] # None
                    /\ job[t].object.version = snapshot[t][TheRow].version

Inserting(t) ==
    job[t].op = "insert" =>
        /\ job[t].isolated => snapshot[t] = Nothing
        /\ job[t].step > 1 => Latest(t)[TheRow] = Row(0, job[t].new.value)
        /\ job[t].step <= 2 => Latest(t)[ThePart] = None
        /\ job[t].step > 2 => Latest(t)[ThePart] = job[t].new.part
        /\ job[t].step < 3 => job[t].position = 0
        /\ job[t].step <= 3 =>
              /\ job[t].position <= Len(job[t].new.list)
              /\ HasElements(Latest(t), job[t].new.list, job[t].position, Nothing)
        /\ job[t].step > 3 => HasList(Latest(t), job[t].new.list)

Updating(t) ==
    job[t].op \in {"update", "save"} =>
        /\ copy[t] # None
        /\ job[t].step > 1 =>
              /\ TheRow \in DOMAIN written[t]
              /\ committed[TheRow] # None /\ committed[TheRow].version = copy[t].version
              /\ written[t][TheRow] = Row(copy[t].version + 1, job[t].new.value)
              /\ job[t].isolated => snapshot[t] = committed
        /\ job[t].step = 3 =>
              job[t].existing = IF job[t].new.part = None THEN None ELSE Latest(t)[ThePart]
        /\ job[t].step > 3 => Latest(t)[ThePart] = job[t].new.part
        /\ job[t].step <= 4 => \A p \in Positions : ListRow(p) \notin DOMAIN written[t]
        /\ job[t].step = 5 =>
              /\ job[t].position <= Len(job[t].new.list)
              /\ Filled(committed, job[t].size)
              /\ HasElements(Latest(t), job[t].new.list, job[t].position, committed)
        /\ job[t].step > 5 => HasList(Latest(t), job[t].new.list)
        /\ job[t].step > 6 =>
              /\ job[t].object # None
              /\ job[t].object.version = Latest(t)[TheRow].version
              /\ TrueSoFar(job[t].object, job[t].step - 6, Latest(t))

Deleting(t) ==
    job[t].op = "delete" =>
        /\ job[t].position = 0
        /\ \A r \in DOMAIN written[t] : written[t][r] = None
        /\ job[t].step <= 7 => TheRow \notin DOMAIN written[t]
        /\ job[t].step <= 6 => \A p \in Positions : ListRow(p) \notin DOMAIN written[t]
        /\ job[t].step > 2 =>
              /\ job[t].object # None
              /\ job[t].isolated => snapshot[t][TheRow] # None
        /\ job[t].step > 7 =>
              \A r \in Rows : IF TheRow \in DOMAIN written[t] THEN Latest(t)[r] = None
                                                             ELSE committed[r] = None

ThreadInv(t) ==
    Basics(t) /\ Copied(t) /\ Reading(t) /\ Inserting(t) /\ Updating(t) /\ Deleting(t)

Inv == TypeInv /\ Locks /\ Shared /\ \A t \in Threads : ThreadInv(t)

-----------------------------------------------------------------------------
(* Rows and lists *)

(* The rows of the tables are all different.                               *)
LEMMA DistinctRows ==
    /\ TheRow \in Rows /\ ThePart \in Parts /\ ThePart \in Rows /\ TheRow \notin Parts
    /\ \A p \in Positions :
          /\ ListRow(p) \in Parts /\ ListRow(p) \in Rows /\ ListRow(p) \in ListRows
          /\ ListRow(p) # TheRow /\ ListRow(p) # ThePart
          /\ \A q \in Positions : ListRow(p) = ListRow(q) => p = q
    /\ \A r \in Rows : r = TheRow \/ r = ThePart \/ \E p \in Positions : r = ListRow(p)
<1>1. TheRow # ThePart
  BY DEF TheRow, ThePart
<1>2. ASSUME NEW p \in Positions
      PROVE  /\ ListRow(p) # TheRow /\ ListRow(p) # ThePart
             /\ \A q \in Positions : ListRow(p) = ListRow(q) => p = q
  BY DEF ListRow, TheRow, ThePart
<1> QED
  BY <1>1, <1>2 DEF Rows, Parts, ListRows

(* Of a list without gaps, SELECT ... ORDER BY position returns the rows.  *)
LEMMA ListOfFilled ==
    ASSUME NEW d, NEW n \in 0 .. MaxLength, Filled(d, n)
    PROVE  ListIn(d) = [i \in 1 .. n |-> d[ListRow(i - 1)]]
<1> DEFINE filled == {p \in Positions : d[ListRow(p)] # None}
           place(i) == CHOOSE p \in filled : Cardinality({q \in filled : q < p}) = i - 1
<1>1. MaxLength \in Nat
  BY EntityAssumption
<1>2. filled = 0 .. n - 1
  BY <1>1 DEF Filled, Positions
<1>3. \A m \in 0 .. n : Cardinality(0 .. m - 1) = m
  <2>1. ASSUME NEW m \in 0 .. n PROVE Cardinality(0 .. m - 1) = m
    <3>1. Cardinality(0 .. m - 1) = IF 0 > m - 1 THEN 0 ELSE (m - 1) - 0 + 1
      BY FS_Interval
    <3> QED
      BY <3>1
  <2> QED
    BY <2>1
<1>4. Cardinality(filled) = n
  <2>1. n \in 0 .. n
    BY <1>1
  <2> QED
    BY <1>2, <1>3, <2>1
<1>5. ASSUME NEW p \in filled PROVE Cardinality({q \in filled : q < p}) = p
  <2>1. {q \in filled : q < p} = 0 .. p - 1 /\ p \in 0 .. n
    BY <1>2
  <2> QED
    BY <2>1, <1>3
<1>6. ASSUME NEW i \in 1 .. n PROVE place(i) = i - 1
  <2>1. i - 1 \in filled
    BY <1>2
  <2>2. \E p \in filled : Cardinality({q \in filled : q < p}) = i - 1
    BY <2>1, <1>5
  <2>3. place(i) \in filled /\ Cardinality({q \in filled : q < place(i)}) = i - 1
    BY <2>2
  <2> QED
    BY <2>3, <1>5
<1>7. ListIn(d) = [i \in 1 .. Cardinality(filled) |-> d[ListRow(place(i))]]
  BY DEF ListIn
<1> HIDE DEF filled, place
<1> QED
  BY <1>4, <1>6, <1>7

(* Its elements and its length.                                            *)
LEMMA FilledList ==
    ASSUME NEW d, NEW n \in 0 .. MaxLength, Filled(d, n),
           \A r \in Parts : d[r] \in Values \cup {None}
    PROVE  ListIn(d) \in Seq(Values) /\ Len(ListIn(d)) = n
<1>1. MaxLength \in Nat
  BY EntityAssumption
<1>2. ASSUME NEW i \in 1 .. n PROVE d[ListRow(i - 1)] \in Values
  <2>1. i - 1 \in Positions /\ i - 1 < n
    BY <1>1 DEF Positions
  <2> QED
    BY <2>1, DistinctRows DEF Filled
<1>3. [i \in 1 .. n |-> d[ListRow(i - 1)]] \in Seq(Values)
  BY <1>1, <1>2
<1>4. Len([i \in 1 .. n |-> d[ListRow(i - 1)]]) = n
  BY <1>1
<1> QED
  BY <1>3, <1>4, ListOfFilled

(* Rows written by position are read as the list they were written from.   *)
LEMMA ListOfElements ==
    ASSUME NEW d, NEW list \in Seq(Values), Len(list) <= MaxLength, HasList(d, list)
    PROVE  Filled(d, Len(list)) /\ Len(list) \in 0 .. MaxLength /\ ListIn(d) = list
<1>1. MaxLength \in Nat /\ Len(list) \in Nat /\ None \notin Values
  BY EntityAssumption
<1>2. \A i \in 1 .. Len(list) : list[i] \in Values
  OBVIOUS
<1>3. Filled(d, Len(list))
  <2>1. ASSUME NEW p \in Positions, p < Len(list) PROVE list[p + 1] # None
    <3>1. p + 1 \in 1 .. Len(list)
      BY <1>1, <2>1 DEF Positions
    <3> QED
      BY <1>1, <1>2, <3>1
  <2> QED
    BY <2>1 DEF Filled, HasList
<1>4. Len(list) \in 0 .. MaxLength
  BY <1>1
<1>5. ListIn(d) = [i \in 1 .. Len(list) |-> d[ListRow(i - 1)]]
  BY <1>3, <1>4, ListOfFilled
<1>6. ASSUME NEW i \in 1 .. Len(list) PROVE d[ListRow(i - 1)] = list[i]
  <2>1. i - 1 \in Positions /\ i - 1 < Len(list) /\ (i - 1) + 1 = i
    BY <1>1 DEF Positions
  <2> QED
    BY <2>1 DEF HasList
<1>7. list = [i \in 1 .. Len(list) |-> list[i]]
  OBVIOUS
<1> QED
  BY <1>3, <1>4, <1>5, <1>6, <1>7

(* The list depends on its rows only.                                      *)
LEMMA SameList ==
    ASSUME NEW d, NEW e, Dense(d), \A p \in Positions : d[ListRow(p)] = e[ListRow(p)]
    PROVE  Dense(e) /\ ListIn(d) = ListIn(e)
<1>1. PICK n \in 0 .. MaxLength : Filled(d, n)
  BY DEF Dense
<1>2. Filled(e, n)
  BY <1>1 DEF Filled
<1>3. ASSUME NEW i \in 1 .. n PROVE d[ListRow(i - 1)] = e[ListRow(i - 1)]
  <2>1. i - 1 \in Positions
    BY EntityAssumption DEF Positions
  <2> QED
    BY <2>1
<1> QED
  BY <1>1, <1>2, <1>3, ListOfFilled DEF Dense

-----------------------------------------------------------------------------
(* Statements *)

(* Which statements the transactions have, and where.                      *)
LEMMA Places ==
    ASSUME NEW t \in Threads, job \in [Threads -> JobType]
    PROVE  /\ LastStep(t) = CASE job[t].op = "none" -> 0 [] job[t].op = "read" -> 3
                               [] job[t].op = "insert" -> 3 [] job[t].op = "update" -> 5
                               [] job[t].op = "save" -> 8 [] job[t].op = "delete" -> 7
           /\ At(t, "InsertRow")  => job[t].op = "insert" /\ job[t].step = 1
           /\ At(t, "InsertPart") => job[t].op = "insert" /\ job[t].step = 2
           /\ At(t, "AddList")    => job[t].op = "insert" /\ job[t].step = 3
           /\ At(t, "UpdateRow")  => job[t].op \in {"update", "save"} /\ job[t].step = 1
           /\ At(t, "FindPart")   => job[t].op \in {"update", "save"} /\ job[t].step = 2
           /\ At(t, "StorePart")  => job[t].op \in {"update", "save"} /\ job[t].step = 3
           /\ At(t, "GetList") => \/ job[t].op \in {"update", "save"} /\ job[t].step = 4
                                  \/ job[t].op = "delete" /\ job[t].step = 5
           /\ At(t, "ReplaceList") => \/ job[t].op \in {"update", "save"} /\ job[t].step = 5
                                      \/ job[t].op = "delete" /\ job[t].step = 6
           /\ At(t, "SelectRow") => \/ job[t].op = "read" /\ job[t].step = 1
                                    \/ job[t].op = "save" /\ job[t].step = 6
                                    \/ job[t].op = "delete" /\ job[t].step = 2
           /\ At(t, "SelectPart") => \/ job[t].op = "read" /\ job[t].step = 2
                                     \/ job[t].op = "save" /\ job[t].step = 7
                                     \/ job[t].op = "delete" /\ job[t].step = 3
           /\ At(t, "SelectList") => \/ job[t].op = "read" /\ job[t].step = 3
                                     \/ job[t].op = "save" /\ job[t].step = 8
                                     \/ job[t].op = "delete" /\ job[t].step = 4
           /\ At(t, "DeletePart") => job[t].op = "delete" /\ job[t].step = 1
           /\ At(t, "DeleteRow")  => job[t].op = "delete" /\ job[t].step = 7
<1> DEFINE op == job[t].op
           step == job[t].step
<1>0. step \in Nat \ {0} /\ op \in {"none", "read", "insert", "update", "save", "delete"}
  BY DEF JobType
<1>1. CASE op = "none"
  <2>1. LastStep(t) = 0
    BY <1>1 DEF LastStep, Steps
  <2> QED
    BY <1>0, <1>1, <2>1 DEF At
<1>2. CASE op = "read"
  <2>1. Steps[op] = <<"SelectRow", "SelectPart", "SelectList">>
    BY <1>2 DEF Steps
  <2>2. LastStep(t) = 3
    BY <2>1 DEF LastStep
  <2> QED
    BY <1>0, <1>2, <2>1, <2>2 DEF At
<1>3. CASE op = "insert"
  <2>1. Steps[op] = <<"InsertRow", "InsertPart", "AddList">>
    BY <1>3 DEF Steps
  <2>2. LastStep(t) = 3
    BY <2>1 DEF LastStep
  <2> QED
    BY <1>0, <1>3, <2>1, <2>2 DEF At
<1>4. CASE op = "update"
  <2>1. Steps[op] = <<"UpdateRow", "FindPart", "StorePart", "GetList", "ReplaceList">>
    BY <1>4 DEF Steps
  <2>2. LastStep(t) = 5
    BY <2>1 DEF LastStep
  <2> QED
    BY <1>0, <1>4, <2>1, <2>2 DEF At
<1>5. CASE op = "save"
  <2>1. Steps[op] = <<"UpdateRow", "FindPart", "StorePart", "GetList", "ReplaceList",
                      "SelectRow", "SelectPart", "SelectList">>
    BY <1>5 DEF Steps
  <2>2. LastStep(t) = 8
    BY <2>1 DEF LastStep
  <2> QED
    BY <1>0, <1>5, <2>1, <2>2 DEF At
<1>6. CASE op = "delete"
  <2>1. Steps[op] = <<"DeletePart", "SelectRow", "SelectPart", "SelectList",
                      "GetList", "ReplaceList", "DeleteRow">>
    BY <1>6 DEF Steps
  <2>2. LastStep(t) = 7
    BY <2>1 DEF LastStep
  <2> QED
    BY <1>0, <1>6, <2>1, <2>2 DEF At
<1> QED
  BY <1>0, <1>1, <1>2, <1>3, <1>4, <1>5, <1>6

(* What a transaction sees of a row.                                       *)
LEMMA Seen ==
    ASSUME NEW t \in Threads
    PROVE  /\ \A r \in Rows :
                 /\ Latest(t)[r] = IF r \in DOMAIN written[t] THEN written[t][r] ELSE committed[r]
                 /\ Visible(t)[r] = IF r \in DOMAIN written[t] THEN written[t][r]
                                    ELSE IF job[t].isolated THEN snapshot[t][r] ELSE committed[r]
           /\ ~job[t].isolated \/ snapshot[t] = committed => Visible(t) = Latest(t)
  BY DEF Latest, Visible, Over

LEMMA SeenTypes ==
    ASSUME TypeInv, NEW t \in Threads
    PROVE  IsData(Latest(t)) /\ IsData(Visible(t))
<1>1. IsWrites(written[t]) /\ IsData(snapshot[t]) /\ IsData(committed)
  BY DEF TypeInv
<1>2. Latest(t) = [r \in Rows |-> Latest(t)[r]] /\ Visible(t) = [r \in Rows |-> Visible(t)[r]]
  BY DEF Latest, Visible, Over
<1> QED
  BY <1>1, <1>2, Seen, DistinctRows DEF IsData, IsWrites, Rows

LEMMA NoWritesNothingNew ==
    ASSUME TypeInv, NEW t \in Threads, DOMAIN written[t] = {}
    PROVE  Latest(t) = committed
  BY DEF TypeInv, IsData, Latest, Over

(* UPDATE, INSERT and DELETE change what the transaction sees of the rows  *)
(* they find, and what no other transaction sees.                          *)
LEMMA Writing ==
    ASSUME TypeInv, NEW t \in Threads, NEW rows \in SUBSET Rows, NEW row,
           Write(t, rows, row), committed' = committed
    PROVE  /\ DOMAIN written'[t] = DOMAIN written[t] \cup rows
           /\ \A r \in DOMAIN written'[t] :
                 written'[t][r] = IF r \in rows THEN row ELSE written[t][r]
           /\ \A o \in Threads \ {t} : written'[o] = written[o]
           /\ written' = [o \in Threads |-> written'[o]]
           /\ \A r \in Rows : Latest(t)'[r] = IF r \in rows THEN row ELSE Latest(t)[r]
           /\ Locks => Locks'
<1>1. written = [o \in Threads |-> written[o]] /\ DOMAIN written[t] \subseteq Rows
  BY DEF TypeInv, IsWrites
<1>2. /\ written' = [written EXCEPT ![t] =
            [r \in DOMAIN written[t] \cup rows |-> IF r \in rows THEN row ELSE written[t][r]]]
      /\ \A r \in rows : \A o \in Threads \ {t} : r \notin DOMAIN written[o]
  BY DEF Write, MayWrite
<1>3. written'[t] = [r \in DOMAIN written[t] \cup rows |-> IF r \in rows THEN row ELSE written[t][r]]
  BY <1>1, <1>2
<1>4. \A o \in Threads \ {t} : written'[o] = written[o]
  BY <1>1, <1>2
<1>5. \A r \in Rows : Latest(t)'[r] = IF r \in rows THEN row ELSE Latest(t)[r]
  BY <1>3 DEF Latest, Over
<1>6. ASSUME Locks PROVE Locks'
  BY <1>2, <1>3, <1>4, <1>6 DEF Locks
<1> QED
  BY <1>1, <1>2, <1>3, <1>4, <1>5, <1>6

(* A step of one transaction that is not its end keeps what is true of the *)
(* others.                                                                 *)
LEMMA OthersKeep ==
    ASSUME NEW t \in Threads, NEW o \in Threads \ {t}, ThreadInv(o),
           UNCHANGED <<committed, born>>,
           written'[o] = written[o], snapshot'[o] = snapshot[o],
           job'[o] = job[o], copy'[o] = copy[o]
    PROVE  ThreadInv(o)'
<1>1. Latest(o)' = Latest(o) /\ LastStep(o)' = LastStep(o)
  BY DEF Latest, Over, LastStep
<1>2. Basics(o)' /\ Copied(o)'
  BY <1>1 DEF ThreadInv, Basics, Copied
<1>3. Reading(o)' /\ Inserting(o)'
  BY <1>1 DEF ThreadInv, Reading, Inserting
<1>4. Updating(o)' /\ Deleting(o)'
  BY <1>1 DEF ThreadInv, Updating, Deleting
<1> QED
  BY <1>2, <1>3, <1>4 DEF ThreadInv

LEMMA WritingOne ==
    ASSUME Inv, NEW t \in Threads, NEW x \in Rows, NEW row,
           Write(t, {x}, row), committed' = committed
    PROVE  \A r \in Rows : Latest(t)'[r] = IF r = x THEN row ELSE Latest(t)[r]
<1>1. TypeInv
  BY DEF Inv
<1> DEFINE rows == {x}
<1>2. rows \in SUBSET Rows /\ Write(t, rows, row)
  OBVIOUS
<1> HIDE DEF rows
<1>3. \A r \in Rows : Latest(t)'[r] = IF r \in rows THEN row ELSE Latest(t)[r]
  BY <1>1, <1>2, Writing
<1> QED
  BY <1>3 DEF rows

LEMMA StepOf ==
    ASSUME Inv, NEW t \in Threads, UNCHANGED <<committed, born>>, TypeInv', Locks', ThreadInv(t)',
           \A o \in Threads \ {t} :
               /\ written'[o] = written[o] /\ snapshot'[o] = snapshot[o]
               /\ job'[o] = job[o] /\ copy'[o] = copy[o]
               /\ job'[t].op = "insert" => job[o].op # "insert"
    PROVE  Inv'
<1>1. \A o \in Threads \ {t} : ThreadInv(o)'
  BY OthersKeep DEF Inv
<1>2. Shared'
  BY DEF Inv, Shared, Whole, Dense, Filled
<1> QED
  BY <1>1, <1>2 DEF Inv

(* A query changes the local variables of its transaction.                 *)
LEMMA QueryStep ==
    ASSUME Inv, NEW t \in Threads, Query(t), NEW j \in JobType, j.op = job[t].op,
           job' = [job EXCEPT ![t] = j], ThreadInv(t)'
    PROVE  Inv'
<1>1. job' \in [Threads -> JobType] /\ job'[t] = j /\ \A o \in Threads \ {t} : job'[o] = job[o]
  BY DEF Inv, TypeInv
<1>2. TypeInv' /\ Locks'
  BY <1>1 DEF Inv, TypeInv, Locks, Query
<1>3. \A o \in Threads \ {t} : job[t].op = "insert" => job[o].op # "insert"
  BY DEF Inv, Shared
<1> QED
  BY <1>1, <1>2, <1>3, StepOf DEF Query

(* Another statement writes rows, too.                                     *)
LEMMA WriteStep ==
    ASSUME Inv, NEW t \in Threads, Statement(t), NEW rows \in SUBSET Rows, NEW row,
           Write(t, rows, row),
           TheRow \in rows => row \in RowType \cup {None},
           rows \cap Parts # {} => row \in Values \cup {None},
           NEW j \in JobType, j.op = job[t].op, job' = [job EXCEPT ![t] = j], ThreadInv(t)'
    PROVE  Inv'
<1>1. job' \in [Threads -> JobType] /\ job'[t] = j /\ \A o \in Threads \ {t} : job'[o] = job[o]
  BY DEF Inv, TypeInv
<1>2. /\ DOMAIN written'[t] = DOMAIN written[t] \cup rows
      /\ \A r \in DOMAIN written'[t] :
            written'[t][r] = IF r \in rows THEN row ELSE written[t][r]
      /\ \A o \in Threads \ {t} : written'[o] = written[o]
      /\ written' = [o \in Threads |-> written'[o]]
      /\ Locks'
  BY Writing DEF Inv, Statement
<1>3. \A o \in Threads : IsWrites(written[o])
  BY DEF Inv, TypeInv
<1>4. \A o \in Threads : IsWrites(written'[o])
  <2>1. IsWrites(written'[t])
    BY <1>2, <1>3 DEF IsWrites
  <2> QED
    BY <1>2, <1>3, <2>1
<1>5. TypeInv'
  BY <1>1, <1>2, <1>4 DEF Inv, TypeInv, Statement
<1>6. \A o \in Threads \ {t} : job[t].op = "insert" => job[o].op # "insert"
  BY DEF Inv, Shared
<1> QED
  BY <1>1, <1>2, <1>5, <1>6, StepOf DEF Statement

(* A statement keeps what does not depend on it.                           *)
LEMMA BasicsKept ==
    ASSUME Inv, NEW t \in Threads, UNCHANGED <<committed, born>>,
           copy'[t] = copy[t], snapshot'[t] = snapshot[t],
           job'[t].op = job[t].op, job'[t].new = job[t].new, job'[t].isolated = job[t].isolated,
           job'[t].step <= LastStep(t) + 1, job'[t].step > 1,
           job[t].op \in {"none", "read"} => DOMAIN written'[t] = {}
    PROVE  Basics(t)' /\ Copied(t)'
<1>1. Basics(t) /\ Copied(t)
  BY DEF Inv, ThreadInv
<1>2. LastStep(t)' = LastStep(t)
  BY DEF LastStep
<1> QED
  BY <1>1, <1>2 DEF Basics, Copied, Whole, Dense, Filled, Older, TrueSoFar

LEMMA StepOn ==
    ASSUME Inv, NEW t \in Threads
    PROVE  LET j == [job[t] EXCEPT !.step = @ + 1]
           IN  /\ j \in JobType /\ j.step = job[t].step + 1
               /\ j.op = job[t].op /\ j.new = job[t].new /\ j.isolated = job[t].isolated
               /\ j.object = job[t].object /\ j.existing = job[t].existing
               /\ j.size = job[t].size /\ j.position = job[t].position
               /\ Done(t) => job' = [job EXCEPT ![t] = j] /\ job'[t] = j
<1>1. job[t] \in JobType /\ job \in [Threads -> JobType]
  BY DEF Inv, TypeInv
<1> QED
  BY <1>1 DEF JobType, Done

LEMMA PositionOn ==
    ASSUME Inv, NEW t \in Threads, job[t].position < MaxLength
    PROVE  LET j == [job[t] EXCEPT !.position = @ + 1]
           IN  /\ j \in JobType /\ j.position = job[t].position + 1
               /\ j.op = job[t].op /\ j.new = job[t].new /\ j.isolated = job[t].isolated
               /\ j.object = job[t].object /\ j.existing = job[t].existing
               /\ j.size = job[t].size /\ j.step = job[t].step
               /\ MoveOn(t) => job' = [job EXCEPT ![t] = j] /\ job'[t] = j
<1>1. job[t] \in JobType /\ job \in [Threads -> JobType] /\ MaxLength \in Nat
  BY EntityAssumption DEF Inv, TypeInv
<1>2. job[t].position + 1 \in 0 .. MaxLength
  BY <1>1 DEF JobType
<1> QED
  BY <1>1, <1>2 DEF JobType, MoveOn

(* The parameter of an insert or update.                                   *)
LEMMA Parameter ==
    ASSUME Inv, NEW t \in Threads, job[t].op \in {"insert", "update", "save"}
    PROVE  /\ job[t].new \in Contents /\ job[t].new \in ContentType
           /\ job[t].new.list \in Seq(Values) /\ Len(job[t].new.list) \in 0 .. MaxLength
           /\ job[t].new.value \in Values /\ job[t].new.part \in Values \cup {None}
           /\ \A p \in Nat : p < Len(job[t].new.list) =>
                 p \in Positions /\ job[t].new.list[p + 1] \in Values
<1>1. job[t].new \in Contents
  BY DEF Inv, ThreadInv, Basics
<1>2. job[t].new \in ContentType /\ Len(job[t].new.list) <= MaxLength /\ MaxLength \in Nat
  BY <1>1, EntityAssumption
<1>3. job[t].new.list \in Seq(Values)
  BY <1>2 DEF ContentType
<1>4. Len(job[t].new.list) \in Nat
  BY <1>3
<1>5. ASSUME NEW p \in Nat, p < Len(job[t].new.list)
      PROVE  p \in Positions /\ job[t].new.list[p + 1] \in Values
  <2>1. p + 1 \in 1 .. Len(job[t].new.list)
    BY <1>4, <1>5
  <2> QED
    BY <1>2, <1>3, <1>4, <1>5, <2>1 DEF Positions
<1> QED
  BY <1>1, <1>2, <1>3, <1>4, <1>5 DEF ContentType

-----------------------------------------------------------------------------
(* Insert *)

LEMMA InsertRowKeeps == ASSUME Inv, NEW t \in Threads, InsertRow(t) PROVE Inv'
<1> DEFINE row == Row(0, job[t].new.value)
           j == [job[t] EXCEPT !.step = @ + 1]
<1>1. job[t].op = "insert" /\ job[t].step = 1 /\ LastStep(t) = 3
  BY Places DEF InsertRow, Inv, TypeInv
<1>2. /\ Write(t, {TheRow}, row) /\ Done(t) /\ Statement(t)
      /\ UNCHANGED <<committed, snapshot, copy, born>>
  BY DEF InsertRow, InsertInto, Statement
<1>3. /\ j \in JobType /\ j.step = 2 /\ j.op = job[t].op /\ j.new = job[t].new
      /\ j.isolated = job[t].isolated /\ j.position = job[t].position
      /\ job' = [job EXCEPT ![t] = j] /\ job'[t] = j
  BY <1>1, <1>2, StepOn
<1>4. row \in RowType
  BY <1>1, Parameter DEF Row, RowType
<1>5. \A r \in Rows : Latest(t)'[r] = IF r = TheRow THEN row ELSE Latest(t)[r]
  BY <1>2, WritingOne, DistinctRows
<1> HIDE DEF j, row
<1>6. Basics(t)' /\ Copied(t)'
  BY <1>1, <1>2, <1>3, BasicsKept
<1>7. Inserting(t)
  BY DEF Inv, ThreadInv
<1>8. Inserting(t)'
  BY <1>1, <1>2, <1>3, <1>5, <1>7, DistinctRows DEF Inserting, HasElements, row
<1>9. Reading(t)' /\ Updating(t)' /\ Deleting(t)'
  BY <1>1, <1>3 DEF Reading, Updating, Deleting
<1> QED
  BY <1>2, <1>3, <1>4, <1>6, <1>8, <1>9, WriteStep, DistinctRows DEF ThreadInv

LEMMA InsertPartKeeps == ASSUME Inv, NEW t \in Threads, InsertPart(t) PROVE Inv'
<1> DEFINE part == job[t].new.part
           j == [job[t] EXCEPT !.step = @ + 1]
<1>1. job[t].op = "insert" /\ job[t].step = 2 /\ LastStep(t) = 3
  BY Places DEF InsertPart, Inv, TypeInv
<1>2. Done(t) /\ Statement(t) /\ UNCHANGED <<committed, snapshot, copy, born>>
  BY DEF InsertPart, Statement
<1>3. /\ j \in JobType /\ j.step = 3 /\ j.op = job[t].op /\ j.new = job[t].new
      /\ j.isolated = job[t].isolated /\ j.position = job[t].position
      /\ job' = [job EXCEPT ![t] = j] /\ job'[t] = j
  BY <1>1, <1>2, StepOn
<1>4. part \in Values \cup {None}
  BY <1>1, Parameter
<1> HIDE DEF j
<1>5. Basics(t)' /\ Copied(t)'
  BY <1>1, <1>2, <1>3, BasicsKept
<1>6. Reading(t)' /\ Updating(t)' /\ Deleting(t)'
  BY <1>1, <1>3 DEF Reading, Updating, Deleting
<1>7. Inserting(t)
  BY DEF Inv, ThreadInv
<1>8. CASE part # None
  <2>1. Write(t, {ThePart}, part)
    BY <1>8 DEF InsertPart, InsertInto
  <2>2. \A r \in Rows : Latest(t)'[r] = IF r = ThePart THEN part ELSE Latest(t)[r]
    BY <1>2, <2>1, WritingOne, DistinctRows
  <2>3. Inserting(t)'
    BY <1>1, <1>2, <1>3, <1>7, <2>2, DistinctRows DEF Inserting, HasElements
  <2> QED
    BY <1>2, <1>3, <1>4, <1>5, <1>6, <2>1, <2>3, WriteStep, DistinctRows DEF ThreadInv
<1>9. CASE part = None
  <2>1. UNCHANGED written /\ Query(t)
    BY <1>2, <1>9 DEF InsertPart, Query
  <2>2. Latest(t)' = Latest(t)
    BY <1>2, <2>1 DEF Latest, Over
  <2>3. Inserting(t)'
    BY <1>1, <1>2, <1>3, <1>7, <1>9, <2>2 DEF Inserting
  <2> QED
    BY <1>3, <1>5, <1>6, <2>1, <2>3, QueryStep DEF ThreadInv
<1> QED
  BY <1>8, <1>9

LEMMA AddListKeeps == ASSUME Inv, NEW t \in Threads, AddList(t) PROVE Inv'
<1> DEFINE p == job[t].position
           list == job[t].new.list
           next == [job[t] EXCEPT !.position = @ + 1]
           last == [job[t] EXCEPT !.step = @ + 1]
<1>1. job[t].op = "insert" /\ job[t].step = 3 /\ LastStep(t) = 3
  BY Places DEF AddList, Inv, TypeInv
<1>2. Statement(t) /\ UNCHANGED <<committed, snapshot, copy, born>>
  BY DEF AddList, Statement
<1>3. p \in Nat /\ Len(list) \in 0 .. MaxLength /\ MaxLength \in Nat
  BY <1>1, Parameter, EntityAssumption DEF Inv, TypeInv, JobType
<1>4. Inserting(t)
  BY DEF Inv, ThreadInv
<1>5. CASE p < Len(list)
  <2>1. Write(t, {ListRow(p)}, Element(t)) /\ MoveOn(t)
    BY <1>5 DEF AddList, InsertInto
  <2>2. Element(t) = list[p + 1] /\ Element(t) \in Values /\ p \in Positions
    BY <1>1, <1>3, <1>5, Parameter DEF Element
  <2>3. /\ next \in JobType /\ next.step = 3 /\ next.op = job[t].op /\ next.new = job[t].new
        /\ next.isolated = job[t].isolated /\ next.position = p + 1
        /\ job' = [job EXCEPT ![t] = next] /\ job'[t] = next
    BY <1>1, <1>3, <1>5, <2>1, PositionOn
  <2>4. \A r \in Rows : Latest(t)'[r] = IF r = ListRow(p) THEN Element(t) ELSE Latest(t)[r]
    BY <1>2, <2>1, <2>2, WritingOne, DistinctRows
  <2> HIDE DEF next
  <2>5. Basics(t)' /\ Copied(t)'
    BY <1>1, <1>2, <2>3, BasicsKept
  <2>6. HasElements(Latest(t)', list, p + 1, Nothing)
    <3>1. HasElements(Latest(t), list, p, Nothing)
      BY <1>1, <1>4 DEF Inserting
    <3>2. ASSUME NEW q \in Positions
          PROVE  Latest(t)'[ListRow(q)] = IF q < p + 1 THEN list[q + 1] ELSE Nothing[ListRow(q)]
      <4>1. CASE q = p
        BY <1>3, <2>2, <2>4, <4>1, DistinctRows
      <4>2. CASE q # p
        <5>1. Latest(t)'[ListRow(q)] = Latest(t)[ListRow(q)]
          BY <2>2, <2>4, <4>2, DistinctRows
        <5>2. q \in Int /\ (q < p + 1 <=> q < p)
          BY <1>3, <4>2 DEF Positions
        <5> QED
          BY <3>1, <5>1, <5>2 DEF HasElements
      <4> QED
        BY <4>1, <4>2
    <3> QED
      BY <3>2 DEF HasElements
  <2>7. Inserting(t)'
    BY <1>1, <1>2, <1>3, <1>4, <1>5, <2>2, <2>3, <2>4, <2>6, DistinctRows DEF Inserting
  <2>8. Reading(t)' /\ Updating(t)' /\ Deleting(t)'
    BY <1>1, <2>3 DEF Reading, Updating, Deleting
  <2> QED
    BY <1>2, <2>1, <2>2, <2>3, <2>5, <2>7, <2>8, WriteStep, DistinctRows DEF ThreadInv
<1>6. CASE ~(p < Len(list))
  <2>1. UNCHANGED written /\ Done(t) /\ Query(t)
    BY <1>2, <1>6 DEF AddList, Query
  <2>2. /\ last \in JobType /\ last.step = 4 /\ last.op = job[t].op /\ last.new = job[t].new
        /\ last.isolated = job[t].isolated /\ last.position = p
        /\ job' = [job EXCEPT ![t] = last] /\ job'[t] = last
    BY <1>1, <2>1, StepOn
  <2> HIDE DEF last
  <2>3. Latest(t)' = Latest(t)
    BY <1>2, <2>1 DEF Latest, Over
  <2>4. Basics(t)' /\ Copied(t)'
    BY <1>1, <1>2, <2>2, BasicsKept
  <2>5. HasList(Latest(t), list)
    <3>1. p = Len(list) /\ HasElements(Latest(t), list, p, Nothing)
      BY <1>1, <1>3, <1>4, <1>6 DEF Inserting
    <3> QED
      BY <3>1, DistinctRows DEF HasElements, HasList, Nothing
  <2>6. Inserting(t)'
    BY <1>1, <1>2, <1>4, <2>2, <2>3, <2>5 DEF Inserting
  <2>7. Reading(t)' /\ Updating(t)' /\ Deleting(t)'
    BY <1>1, <2>2 DEF Reading, Updating, Deleting
  <2> QED
    BY <2>1, <2>2, <2>4, <2>6, <2>7, QueryStep DEF ThreadInv
<1> QED
  BY <1>5, <1>6

-----------------------------------------------------------------------------
(* The end of a transaction without commit *)

LEMMA IdleFacts ==
    /\ Idle \in JobType /\ Idle.op = "none" /\ Idle.step = 1 /\ Idle.isolated = FALSE
    /\ Idle.new = NoContent
    /\ DOMAIN NoWrites = {} /\ IsWrites(NoWrites) /\ IsData(Nothing)
<1>1. Idle \in JobType
  BY EntityAssumption DEF Idle, Job, JobType
<1>2. /\ Idle.op = "none" /\ Idle.step = 1 /\ Idle.isolated = FALSE
      /\ Idle.new = NoContent
  BY DEF Idle, Job
<1>3. DOMAIN NoWrites = {} /\ IsWrites(NoWrites)
  BY DEF NoWrites, IsWrites
<1>4. IsData(Nothing)
  BY DistinctRows DEF Nothing, IsData, Rows
<1> QED
  BY <1>1, <1>2, <1>3, <1>4

LEMMA RollbackKeeps == ASSUME Inv, NEW t \in Threads, Rollback(t) PROVE Inv'
<1>1. /\ job' = [job EXCEPT ![t] = Idle]
      /\ written' = [written EXCEPT ![t] = NoWrites]
      /\ snapshot' = [snapshot EXCEPT ![t] = Nothing]
      /\ UNCHANGED <<committed, copy, born>>
  BY DEF Rollback
<1>2. TypeInv
  BY DEF Inv
<1>3. /\ job'[t] = Idle /\ written'[t] = NoWrites /\ snapshot'[t] = Nothing
      /\ \A o \in Threads \ {t} :
            job'[o] = job[o] /\ written'[o] = written[o] /\ snapshot'[o] = snapshot[o]
      /\ written' = [o \in Threads |-> written'[o]]
      /\ snapshot' = [o \in Threads |-> snapshot'[o]]
      /\ job' \in [Threads -> JobType]
  BY <1>1, <1>2, IdleFacts DEF TypeInv
<1>4. TypeInv' /\ Locks'
  <2>1. \A o \in Threads : IsWrites(written'[o]) /\ IsData(snapshot'[o])
    BY <1>2, <1>3, IdleFacts DEF TypeInv
  <2>2. TypeInv'
    BY <1>1, <1>2, <1>3, <2>1 DEF TypeInv
  <2>3. Locks'
    BY <1>3, IdleFacts DEF Inv, Locks
  <2> QED
    BY <2>2, <2>3
<1>5. ThreadInv(t)'
  <2>1. Copied(t)'
    <3>1. Copied(t)
      BY DEF Inv, ThreadInv
    <3> QED
      BY <1>1, <3>1 DEF Copied, TrueSoFar
  <2>2. Basics(t)'
    BY <1>3, IdleFacts DEF Basics, LastStep, Steps
  <2>3. Reading(t)' /\ Inserting(t)' /\ Updating(t)' /\ Deleting(t)'
    BY <1>3, IdleFacts DEF Reading, Inserting, Updating, Deleting
  <2> QED
    BY <2>1, <2>2, <2>3 DEF ThreadInv
<1>6. job'[t].op # "insert"
  BY <1>3, IdleFacts
<1> QED
  BY <1>1, <1>3, <1>4, <1>5, <1>6, StepOf

-----------------------------------------------------------------------------
(* Update and save *)

LEMMA UpdateRowKeeps == ASSUME Inv, NEW t \in Threads, UpdateRow(t) PROVE Inv'
<1> DEFINE seen == Visible(t)[TheRow]
           row == Row(seen.version + 1, job[t].new.value)
           j == [job[t] EXCEPT !.step = @ + 1]
<1>1. job[t].op \in {"update", "save"} /\ job[t].step = 1 /\ LastStep(t) \in {5, 8}
  BY Places DEF UpdateRow, Inv, TypeInv
<1>2. CASE ~(seen # None /\ seen.version = copy[t].version)
  <2>1. Rollback(t)
    BY <1>2 DEF UpdateRow
  <2> QED
    BY <2>1, RollbackKeeps
<1>3. CASE seen # None /\ seen.version = copy[t].version
  <2>1. UpdateIn(t, TheRow, row) /\ Done(t) /\ Statement(t)
    BY <1>3 DEF UpdateRow
  <2>2. Found(t, {TheRow}) = {TheRow}
    BY <1>3 DEF Found
  <2>3. Write(t, {TheRow}, row) /\ UNCHANGED <<committed, snapshot, copy, born>>
    BY <2>1, <2>2 DEF UpdateIn, Statement
  <2>4. Basics(t) /\ Updating(t) /\ Whole(committed)
    BY DEF Inv, ThreadInv, Shared
  <2>5. DOMAIN written[t] = {} /\ copy[t] # None
    BY <1>1, <2>4 DEF Basics, Updating
  <2>6. /\ seen = committed[TheRow]
        /\ job[t].isolated => snapshot[t] = committed
    <3>1. CASE job[t].isolated
      <4>1. seen = snapshot[t][TheRow] /\ committed[TheRow] = snapshot[t][TheRow]
        BY <2>3, <2>5, <3>1, Seen, DistinctRows DEF Write, MayWrite
      <4>2. Older(snapshot[t], committed)
        BY <2>4, <3>1 DEF Basics
      <4> QED
        BY <1>3, <4>1, <4>2 DEF Older
    <3>2. CASE ~job[t].isolated
      BY <2>5, <3>2, Seen, DistinctRows
    <3> QED
      BY <3>1, <3>2
  <2>7. /\ committed[TheRow] # None /\ committed[TheRow].version = copy[t].version
        /\ copy[t].version \in Nat
        /\ row = Row(copy[t].version + 1, job[t].new.value)
    <3>1. committed[TheRow] \in RowType
      BY <1>3, <2>6 DEF Inv, TypeInv, IsData
    <3> QED
      BY <1>3, <2>6, <3>1 DEF RowType
  <2>8. /\ j \in JobType /\ j.step = 2 /\ j.op = job[t].op /\ j.new = job[t].new
        /\ j.isolated = job[t].isolated
        /\ job' = [job EXCEPT ![t] = j] /\ job'[t] = j
    BY <1>1, <2>1, StepOn
  <2>9. row \in RowType
    BY <1>1, <2>7, Parameter DEF Row, RowType
  <2> HIDE DEF j, row
  <2>10. /\ TheRow \in DOMAIN written'[t] /\ written'[t][TheRow] = row
         /\ DOMAIN written'[t] = {TheRow}
    <3> DEFINE rows == {TheRow}
    <3>1. rows \in SUBSET Rows /\ Write(t, rows, row) /\ TypeInv
      BY <2>3, DistinctRows DEF Inv
    <3> HIDE DEF rows
    <3>2. /\ DOMAIN written'[t] = DOMAIN written[t] \cup rows
          /\ \A r \in DOMAIN written'[t] : written'[t][r] = IF r \in rows THEN row ELSE written[t][r]
      BY <2>3, <3>1, Writing
    <3> QED
      BY <2>5, <3>2 DEF rows
  <2>11. Basics(t)' /\ Copied(t)'
    BY <1>1, <2>3, <2>8, BasicsKept
  <2>12. Updating(t)'
    BY <1>1, <2>3, <2>5, <2>6, <2>7, <2>8, <2>10, DistinctRows DEF Updating
  <2>13. Reading(t)' /\ Inserting(t)' /\ Deleting(t)'
    BY <1>1, <2>8 DEF Reading, Inserting, Deleting
  <2> QED
    BY <2>1, <2>3, <2>8, <2>9, <2>11, <2>12, <2>13, WriteStep, DistinctRows DEF ThreadInv
<1> QED
  BY <1>2, <1>3

LEMMA FindPartKeeps == ASSUME Inv, NEW t \in Threads, FindPart(t) PROVE Inv'
<1> DEFINE found == IF job[t].new.part = None THEN None ELSE Visible(t)[ThePart]
           j == [job[t] EXCEPT !.step = @ + 1, !.existing = found]
<1>1. job[t].op \in {"update", "save"} /\ job[t].step = 2 /\ LastStep(t) \in {5, 8}
  BY Places DEF FindPart, Inv, TypeInv
<1>2. Query(t) /\ UNCHANGED <<committed, written, snapshot, copy, born>>
  BY DEF FindPart, Query
<1>3. found \in Values \cup {None}
  BY SeenTypes, DistinctRows DEF Inv, IsData
<1>4. job[t] \in JobType /\ job \in [Threads -> JobType]
  BY DEF Inv, TypeInv
<1>5. job' = [job EXCEPT ![t] = j]
  BY DEF FindPart
<1> HIDE DEF found
<1>6. /\ j \in JobType /\ j.step = 3 /\ j.op = job[t].op /\ j.new = job[t].new
      /\ j.isolated = job[t].isolated /\ j.existing = found /\ job'[t] = j
  <2>1. job[t].step + 1 \in Nat \ {0} /\ job[t].step + 1 = 3
    BY <1>1
  <2>2. job'[t] = j
    BY <1>4, <1>5
  <2>3. j \in JobType
    BY <1>3, <1>4, <2>1 DEF JobType
  <2>4. /\ j.step = 3 /\ j.op = job[t].op /\ j.new = job[t].new
        /\ j.isolated = job[t].isolated /\ j.existing = found
    BY <1>4, <2>1 DEF JobType
  <2> QED
    BY <2>2, <2>3, <2>4
<1> HIDE DEF j
<1>7. Basics(t)' /\ Copied(t)'
  BY <1>1, <1>2, <1>6, BasicsKept
<1>8. Latest(t)' = Latest(t)
  BY <1>2 DEF Latest, Over
<1>9. Updating(t)
  BY DEF Inv, ThreadInv
<1>10. found = IF job[t].new.part = None THEN None ELSE Latest(t)[ThePart]
  BY <1>1, <1>9, Seen DEF Updating, found
<1>11. Updating(t)'
  BY <1>1, <1>2, <1>6, <1>8, <1>9, <1>10 DEF Updating
<1>12. Reading(t)' /\ Inserting(t)' /\ Deleting(t)'
  BY <1>1, <1>6 DEF Reading, Inserting, Deleting
<1> QED
  BY <1>2, <1>5, <1>6, <1>7, <1>11, <1>12, QueryStep DEF ThreadInv

LEMMA StorePartKeeps == ASSUME Inv, NEW t \in Threads, StorePart(t) PROVE Inv'
<1> DEFINE part == job[t].new.part
           j == [job[t] EXCEPT !.step = @ + 1]
<1>1. job[t].op \in {"update", "save"} /\ job[t].step = 3 /\ LastStep(t) \in {5, 8}
  BY Places DEF StorePart, Inv, TypeInv
<1>2. Done(t) /\ Statement(t) /\ UNCHANGED <<committed, snapshot, copy, born>>
  BY DEF StorePart, Statement
<1>3. /\ j \in JobType /\ j.step = 4 /\ j.op = job[t].op /\ j.new = job[t].new
      /\ j.isolated = job[t].isolated
      /\ job' = [job EXCEPT ![t] = j] /\ job'[t] = j
  BY <1>1, <1>2, StepOn
<1>4. part \in Values \cup {None}
  BY <1>1, Parameter
<1> HIDE DEF j
<1>5. Basics(t)' /\ Copied(t)'
  BY <1>1, <1>2, <1>3, BasicsKept
<1>6. Reading(t)' /\ Inserting(t)' /\ Deleting(t)'
  BY <1>1, <1>3 DEF Reading, Inserting, Deleting
<1>7. Updating(t)
  BY DEF Inv, ThreadInv
<1>8. /\ job[t].existing = IF part = None THEN None ELSE Latest(t)[ThePart]
      /\ Visible(t) = Latest(t)
  BY <1>1, <1>7, Seen DEF Updating
<1>9. ASSUME NEW rows \in SUBSET {ThePart}, Write(t, rows, part),
             ThePart \notin rows => Latest(t)[ThePart] = part
      PROVE  Inv'
  <2>1. rows \in SUBSET Rows /\ TypeInv
    BY DistinctRows DEF Inv
  <2>2. /\ DOMAIN written'[t] = DOMAIN written[t] \cup rows
        /\ \A r \in DOMAIN written'[t] :
              written'[t][r] = IF r \in rows THEN part ELSE written[t][r]
        /\ \A r \in Rows : Latest(t)'[r] = IF r \in rows THEN part ELSE Latest(t)[r]
    BY <1>2, <1>9, <2>1, Writing
  <2>3. Latest(t)'[ThePart] = part /\ TheRow \notin rows
    BY <1>9, <2>2, DistinctRows
  <2>4. \A p \in Positions : ListRow(p) \notin DOMAIN written'[t]
    BY <1>1, <1>7, <2>2, DistinctRows DEF Updating
  <2>5. TheRow \in DOMAIN written'[t] /\ written'[t][TheRow] = written[t][TheRow]
    BY <1>1, <1>7, <2>2, <2>3 DEF Updating
  <2>6. Updating(t)'
    BY <1>1, <1>2, <1>3, <1>7, <2>3, <2>4, <2>5 DEF Updating
  <2> QED
    BY <1>2, <1>3, <1>4, <1>5, <1>6, <1>9, <2>1, <2>3, <2>6, WriteStep DEF ThreadInv
<1>10. CASE part = None /\ DeleteFrom(t, {ThePart})
  <2>1. /\ Found(t, {ThePart}) \in SUBSET {ThePart} /\ Write(t, Found(t, {ThePart}), part)
        /\ ThePart \notin Found(t, {ThePart}) => Latest(t)[ThePart] = part
    BY <1>8, <1>10 DEF DeleteFrom, Found
  <2> QED
    BY <1>9, <2>1
<1>11. CASE part # None /\ part = job[t].existing /\ UNCHANGED written
  <2>1. Query(t) /\ Latest(t)' = Latest(t)
    BY <1>2, <1>11 DEF Query, Latest, Over
  <2>2. Latest(t)'[ThePart] = part /\ written'[t] = written[t]
    BY <1>8, <1>11, <2>1
  <2>3. Updating(t)'
    BY <1>1, <1>2, <1>3, <1>7, <2>2 DEF Updating
  <2> QED
    BY <1>3, <1>5, <1>6, <2>1, <2>3, QueryStep DEF ThreadInv
<1>12. CASE part # None /\ job[t].existing = None /\ InsertInto(t, ThePart, part)
  <2>1. Write(t, {ThePart}, part)
    BY <1>12 DEF InsertInto
  <2> QED
    BY <1>9, <2>1
<1>13. CASE part # None /\ job[t].existing \notin {None, part} /\ UpdateIn(t, ThePart, part)
  <2>1. Found(t, {ThePart}) = {ThePart}
    BY <1>8, <1>13 DEF Found
  <2>2. Write(t, {ThePart}, part)
    BY <1>13, <2>1 DEF UpdateIn
  <2> QED
    BY <1>9, <2>2
<1> QED
  BY <1>10, <1>11, <1>12, <1>13 DEF StorePart

(* The length of the list that a statement finds.                          *)
LEMMA VisibleList ==
    ASSUME Inv, NEW t \in Threads, \A p \in Positions : ListRow(p) \notin DOMAIN written[t]
    PROVE  /\ Dense(Visible(t))
           /\ \A n \in 0 .. MaxLength :
                 Filled(Visible(t), n) => Len(ListIn(Visible(t))) = n /\ ListIn(Visible(t)) \in Seq(Values)
           /\ Len(ListIn(Visible(t))) \in 0 .. MaxLength
           /\ Filled(Visible(t), Len(ListIn(Visible(t))))
           /\ ListIn(Visible(t)) \in Seq(Values)
<1>1. Whole(committed) /\ (job[t].isolated => Whole(snapshot[t]))
  BY DEF Inv, Shared, ThreadInv, Basics
<1>2. CASE job[t].isolated
  <2>1. \A p \in Positions : Visible(t)[ListRow(p)] = snapshot[t][ListRow(p)]
    BY <1>2, Seen, DistinctRows
  <2>2. Dense(Visible(t))
    BY <1>1, <1>2, <2>1, SameList DEF Whole
  <2> QED
    BY <2>2, FilledList, SeenTypes DEF Dense, Inv, IsData
<1>3. CASE ~job[t].isolated
  <2>1. \A p \in Positions : Visible(t)[ListRow(p)] = committed[ListRow(p)]
    BY <1>3, Seen, DistinctRows
  <2>2. Dense(Visible(t))
    BY <1>1, <1>3, <2>1, SameList DEF Whole
  <2> QED
    BY <2>2, FilledList, SeenTypes DEF Dense, Inv, IsData
<1> QED
  BY <1>2, <1>3

LEMMA GetListKeeps == ASSUME Inv, NEW t \in Threads, GetList(t) PROVE Inv'
<1> DEFINE size == Len(ListIn(Visible(t)))
           j == [job[t] EXCEPT !.step = @ + 1, !.position = 0, !.size = size]
<1>1. \/ job[t].op \in {"update", "save"} /\ job[t].step = 4 /\ LastStep(t) \in {5, 8}
      \/ job[t].op = "delete" /\ job[t].step = 5 /\ LastStep(t) = 7
  BY Places DEF GetList, Inv, TypeInv
<1>2. Query(t) /\ UNCHANGED <<committed, written, snapshot, copy, born>>
  BY DEF GetList, Query
<1>3. Updating(t) /\ Deleting(t)
  BY DEF Inv, ThreadInv
<1>4. \A p \in Positions : ListRow(p) \notin DOMAIN written[t]
  BY <1>1, <1>3 DEF Updating, Deleting
<1>5. size \in 0 .. MaxLength /\ Filled(Visible(t), size)
  BY <1>4, VisibleList
<1>6. job[t] \in JobType /\ job \in [Threads -> JobType] /\ 0 \in 0 .. MaxLength
  BY EntityAssumption DEF Inv, TypeInv
<1>7. job' = [job EXCEPT ![t] = j]
  BY DEF GetList
<1> HIDE DEF size
<1>8. /\ j \in JobType /\ j.step = job[t].step + 1 /\ j.op = job[t].op /\ j.new = job[t].new
      /\ j.isolated = job[t].isolated /\ j.position = 0 /\ j.size = size
      /\ j.object = job[t].object /\ job'[t] = j
  <2>1. job[t].step + 1 \in Nat \ {0}
    BY <1>6 DEF JobType
  <2>2. job'[t] = j
    BY <1>6, <1>7
  <2>3. j \in JobType
    BY <1>5, <1>6, <2>1 DEF JobType
  <2>4. /\ j.step = job[t].step + 1 /\ j.op = job[t].op /\ j.new = job[t].new
        /\ j.isolated = job[t].isolated /\ j.position = 0 /\ j.size = size
        /\ j.object = job[t].object
    BY <1>6 DEF JobType
  <2> QED
    BY <2>2, <2>3, <2>4
<1> HIDE DEF j
<1>9. Basics(t)' /\ Copied(t)'
  BY <1>1, <1>2, <1>8, BasicsKept
<1>10. Latest(t)' = Latest(t)
  BY <1>2 DEF Latest, Over
<1>11. Reading(t)' /\ Inserting(t)'
  BY <1>1, <1>8 DEF Reading, Inserting
<1>12. CASE job[t].op = "delete"
  <2>1. Deleting(t)'
    BY <1>1, <1>2, <1>3, <1>8, <1>12 DEF Deleting
  <2>2. Updating(t)'
    BY <1>8, <1>12 DEF Updating
  <2> QED
    BY <1>2, <1>7, <1>8, <1>9, <1>11, <2>1, <2>2, QueryStep DEF ThreadInv
<1>13. CASE job[t].op \in {"update", "save"}
  <2>1. \A p \in Positions :
           Latest(t)[ListRow(p)] = committed[ListRow(p)] /\ Visible(t)[ListRow(p)] = committed[ListRow(p)]
    BY <1>1, <1>3, <1>4, <1>13, Seen, DistinctRows DEF Updating
  <2>2. Filled(committed, size)
    BY <1>5, <2>1 DEF Filled
  <2>3. 0 <= Len(job[t].new.list)
    BY <1>13, Parameter
  <2>4. HasElements(Latest(t), job[t].new.list, 0, committed)
    BY <2>1 DEF HasElements, Positions
  <2>5. Updating(t)'
    BY <1>1, <1>2, <1>3, <1>8, <1>10, <1>13, <2>2, <2>3, <2>4 DEF Updating, Filled, HasElements
  <2>6. Deleting(t)'
    BY <1>8, <1>13 DEF Deleting
  <2> QED
    BY <1>2, <1>7, <1>8, <1>9, <1>11, <2>5, <2>6, QueryStep DEF ThreadInv
<1> QED
  BY <1>1, <1>12, <1>13

(* One round of the loop in which a row is updated or inserted.            *)
LEMMA ElementStored ==
    ASSUME Inv, NEW t \in Threads, At(t, "ReplaceList"), Statement(t),
           job[t].op \in {"update", "save"}, job[t].position < Len(job[t].new.list),
           Write(t, {ListRow(job[t].position)}, Element(t)), MoveOn(t)
    PROVE  Inv'
<1> DEFINE p == job[t].position
           list == job[t].new.list
           j == [job[t] EXCEPT !.position = @ + 1]
<1>1. job[t].op \in {"update", "save"} /\ job[t].step = 5 /\ LastStep(t) \in {5, 8}
  BY Places DEF Inv, TypeInv
<1>2. UNCHANGED <<committed, snapshot, copy, born>>
  BY DEF Statement
<1>3. p \in Nat /\ Len(list) \in 0 .. MaxLength /\ MaxLength \in Nat
  BY <1>1, Parameter, EntityAssumption DEF Inv, TypeInv, JobType
<1>4. Updating(t)
  BY DEF Inv, ThreadInv
<1>5. Element(t) = list[p + 1] /\ Element(t) \in Values /\ p \in Positions
  BY <1>1, <1>3, Parameter DEF Element
<1>6. /\ j \in JobType /\ j.step = 5 /\ j.op = job[t].op /\ j.new = job[t].new
      /\ j.isolated = job[t].isolated /\ j.position = p + 1 /\ j.size = job[t].size
      /\ job' = [job EXCEPT ![t] = j] /\ job'[t] = j
  BY <1>1, <1>3, PositionOn
<1>7. \A r \in Rows : Latest(t)'[r] = IF r = ListRow(p) THEN Element(t) ELSE Latest(t)[r]
  BY <1>2, <1>5, WritingOne, DistinctRows
<1> HIDE DEF j
<1>8. Basics(t)' /\ Copied(t)'
  BY <1>1, <1>2, <1>6, BasicsKept
<1>9. HasElements(Latest(t)', list, p + 1, committed)
  <2>1. HasElements(Latest(t), list, p, committed)
    BY <1>1, <1>4 DEF Updating
  <2>2. ASSUME NEW q \in Positions
        PROVE  Latest(t)'[ListRow(q)] = IF q < p + 1 THEN list[q + 1] ELSE committed[ListRow(q)]
    <3>1. CASE q = p
      BY <1>3, <1>5, <1>7, <3>1, DistinctRows
    <3>2. CASE q # p
      <4>1. Latest(t)'[ListRow(q)] = Latest(t)[ListRow(q)]
        BY <1>5, <1>7, <3>2, DistinctRows
      <4>2. q \in Int /\ (q < p + 1 <=> q < p)
        BY <1>3, <3>2 DEF Positions
      <4> QED
        BY <2>1, <4>1, <4>2 DEF HasElements
    <3> QED
      BY <3>1, <3>2
  <2> QED
    BY <2>2 DEF HasElements
<1>10. /\ Latest(t)'[ThePart] = Latest(t)[ThePart]
       /\ TheRow \in DOMAIN written'[t] /\ written'[t][TheRow] = written[t][TheRow]
  <2> DEFINE rows == {ListRow(p)}
  <2>1. rows \in SUBSET Rows /\ Write(t, rows, Element(t)) /\ TypeInv /\ TheRow \notin rows
    BY <1>5, DistinctRows DEF Inv
  <2> HIDE DEF rows
  <2>2. /\ DOMAIN written'[t] = DOMAIN written[t] \cup rows
        /\ \A r \in DOMAIN written'[t] :
              written'[t][r] = IF r \in rows THEN Element(t) ELSE written[t][r]
    BY <1>2, <2>1, Writing
  <2> QED
    BY <1>1, <1>4, <1>5, <1>7, <2>1, <2>2, DistinctRows DEF Updating
<1>11. p + 1 <= Len(list)
  BY <1>3
<1>12. Updating(t)'
  BY <1>1, <1>2, <1>4, <1>6, <1>9, <1>10, <1>11 DEF Updating, Filled, HasElements
<1>13. Reading(t)' /\ Inserting(t)' /\ Deleting(t)'
  BY <1>1, <1>6 DEF Reading, Inserting, Deleting
<1> QED
  BY <1>5, <1>6, <1>8, <1>12, <1>13, WriteStep, DistinctRows DEF ThreadInv

(* The end of the loop: rows are deleted, or there is nothing to do.       *)
LEMMA RestDeleted ==
    ASSUME Inv, NEW t \in Threads, At(t, "ReplaceList"), Statement(t), Done(t),
           job[t].position >= Len(job[t].new.list),
           NEW rows \in SUBSET Parts, Write(t, rows, None) \/ (rows = {} /\ UNCHANGED written),
           \A r \in rows : \E q \in Positions : q >= job[t].position /\ r = ListRow(q),
           job[t].op # "delete" =>
              \A q \in Positions : q >= job[t].position /\ ListRow(q) \notin rows =>
                 Latest(t)[ListRow(q)] = None
    PROVE  Inv'
<1> DEFINE p == job[t].position
           list == job[t].new.list
           j == [job[t] EXCEPT !.step = @ + 1]
<1>1. \/ job[t].op \in {"update", "save"} /\ job[t].step = 5 /\ LastStep(t) \in {5, 8}
      \/ job[t].op = "delete" /\ job[t].step = 6 /\ LastStep(t) = 7
  BY Places DEF Inv, TypeInv
<1>2. UNCHANGED <<committed, snapshot, copy, born>>
  BY DEF Statement
<1>3. rows \in SUBSET Rows /\ TypeInv
  BY DEF Inv, Rows
<1>4. /\ DOMAIN written'[t] = DOMAIN written[t] \cup rows
      /\ \A r \in DOMAIN written'[t] :
            written'[t][r] = IF r \in rows THEN None ELSE written[t][r]
      /\ \A r \in Rows : Latest(t)'[r] = IF r \in rows THEN None ELSE Latest(t)[r]
  <2>1. CASE Write(t, rows, None)
    <3>1. committed' = committed
      BY <1>2
    <3> QED
      BY <1>3, <2>1, <3>1, Writing, SMTT(60)
  <2>2. CASE rows = {} /\ UNCHANGED written
    BY <1>2, <2>2 DEF Latest, Over
  <2> QED
    BY <2>1, <2>2
<1>5. /\ j \in JobType /\ j.step = job[t].step + 1 /\ j.op = job[t].op /\ j.new = job[t].new
      /\ j.isolated = job[t].isolated /\ j.position = p /\ j.object = job[t].object
      /\ job' = [job EXCEPT ![t] = j] /\ job'[t] = j
  BY <1>1, StepOn
<1> HIDE DEF j
<1>6. Basics(t)' /\ Copied(t)'
  BY <1>1, <1>2, <1>5, BasicsKept
<1>7. Reading(t)' /\ Inserting(t)'
  BY <1>1, <1>5 DEF Reading, Inserting
<1>8. Updating(t) /\ Deleting(t)
  BY DEF Inv, ThreadInv
<1>9. TheRow \notin rows /\ ThePart \notin rows
  BY DistinctRows
<1>10. ASSUME job[t].op = "delete" PROVE ThreadInv(t)'
  <2>1. Deleting(t)'
    BY <1>1, <1>2, <1>4, <1>5, <1>8, <1>9, <1>10 DEF Deleting
  <2>2. Updating(t)'
    BY <1>5, <1>10 DEF Updating
  <2> QED
    BY <1>6, <1>7, <2>1, <2>2 DEF ThreadInv
<1>11. ASSUME job[t].op \in {"update", "save"} PROVE ThreadInv(t)'
  <2>1. p = Len(list) /\ MaxLength \in Nat /\ Len(list) \in 0 .. MaxLength
    BY <1>1, <1>8, <1>11, Parameter, EntityAssumption DEF Updating, JobType, TypeInv, Inv
  <2>2. HasElements(Latest(t), list, p, committed)
    BY <1>1, <1>8, <1>11 DEF Updating
  <2>3. ASSUME NEW q \in Positions
        PROVE  Latest(t)'[ListRow(q)] = IF q < Len(list) THEN list[q + 1] ELSE None
    <3>1. q \in Int /\ ListRow(q) \in Rows
      BY DistinctRows DEF Positions
    <3>2. CASE q < p
      <4>1. ListRow(q) \notin rows
        <5>1. ASSUME NEW x \in Positions, x >= p, ListRow(q) = ListRow(x) PROVE FALSE
          BY <2>1, <3>1, <3>2, <5>1, DistinctRows
        <5> QED
          BY <5>1
      <4> QED
        BY <1>4, <2>1, <2>2, <3>1, <3>2, <4>1 DEF HasElements
    <3>3. CASE ~(q < p)
      <4>1. q >= p
        BY <2>1, <3>1, <3>3
      <4>2. Latest(t)'[ListRow(q)] = None
        BY <1>4, <1>11, <3>1, <4>1
      <4> QED
        BY <2>1, <3>3, <4>2
    <3> QED
      BY <3>2, <3>3
  <2>4. HasList(Latest(t)', list)
    BY <2>3 DEF HasList
  <2>5. Latest(t)'[ThePart] = Latest(t)[ThePart]
    BY <1>4, <1>9, DistinctRows
  <2>6. TheRow \in DOMAIN written'[t] /\ written'[t][TheRow] = written[t][TheRow]
    BY <1>1, <1>4, <1>8, <1>9, <1>11 DEF Updating
  <2>7. Updating(t)'
    BY <1>1, <1>2, <1>5, <1>8, <1>11, <2>4, <2>5, <2>6 DEF Updating, HasList
  <2>8. Deleting(t)'
    BY <1>5, <1>11 DEF Deleting
  <2> QED
    BY <1>6, <1>7, <2>7, <2>8 DEF ThreadInv
<1>12. ThreadInv(t)'
  BY <1>1, <1>10, <1>11
<1>13. CASE Write(t, rows, None)
  BY <1>3, <1>5, <1>9, <1>12, <1>13, WriteStep
<1>14. CASE rows = {} /\ UNCHANGED written
  <2>1. Query(t)
    BY <1>2, <1>14 DEF Query
  <2> QED
    BY <1>5, <1>12, <2>1, QueryStep
<1> QED
  BY <1>13, <1>14

LEMMA ReplaceListKeeps == ASSUME Inv, NEW t \in Threads, ReplaceList(t) PROVE Inv'
<1> DEFINE p == job[t].position
           n == Len(job[t].new.list)
           rest == {ListRow(q) : q \in p .. MaxLength - 1}
<1>1. \/ job[t].op \in {"update", "save"} /\ job[t].step = 5
      \/ job[t].op = "delete" /\ job[t].step = 6
  BY Places DEF ReplaceList, Inv, TypeInv
<1>2. At(t, "ReplaceList") /\ Statement(t)
  BY DEF ReplaceList
<1>3. Updating(t) /\ Deleting(t) /\ Basics(t)
  BY DEF Inv, ThreadInv
<1>4. p \in Nat /\ job[t].size \in 0 .. MaxLength /\ MaxLength \in Nat
  BY EntityAssumption DEF Inv, TypeInv, JobType
<1>5. n \in Nat /\ (job[t].op = "delete" => n = 0)
  <2>1. CASE job[t].op = "delete"
    BY <1>3, <2>1 DEF Basics, NoContent
  <2>2. CASE job[t].op # "delete"
    BY <1>1, <2>2, Parameter
  <2> QED
    BY <2>1, <2>2
<1>6. job[t].op # "delete" =>
         /\ Visible(t) = Latest(t) /\ Filled(committed, job[t].size)
         /\ HasElements(Latest(t), job[t].new.list, p, committed)
  BY <1>1, <1>3, Seen DEF Updating
<1>7. ASSUME NEW q \in Positions, q >= p, job[t].op # "delete"
      PROVE  /\ Latest(t)[ListRow(q)] = committed[ListRow(q)]
             /\ Latest(t)[ListRow(q)] # None <=> q < job[t].size
  <2>1. ~(q < p)
    BY <1>4, <1>7 DEF Positions
  <2> QED
    BY <1>6, <1>7, <2>1 DEF HasElements, Filled
<1>8. CASE p < n /\ p < job[t].size /\ UpdateIn(t, ListRow(p), Element(t)) /\ MoveOn(t)
  <2>1. p \in Positions /\ p >= p /\ job[t].op # "delete"
    BY <1>4, <1>5, <1>8 DEF Positions
  <2>2. Found(t, {ListRow(p)}) = {ListRow(p)}
    BY <1>6, <1>7, <1>8, <2>1 DEF Found
  <2>3. Write(t, {ListRow(p)}, Element(t))
    BY <1>8, <2>2 DEF UpdateIn
  <2> QED
    BY <1>1, <1>2, <1>8, <2>1, <2>3, ElementStored
<1>9. CASE p < n /\ p >= job[t].size /\ InsertInto(t, ListRow(p), Element(t)) /\ MoveOn(t)
  <2>1. Write(t, {ListRow(p)}, Element(t)) /\ job[t].op # "delete"
    BY <1>4, <1>5, <1>9 DEF InsertInto
  <2> QED
    BY <1>1, <1>2, <1>9, <2>1, ElementStored
<1>10. CASE p >= n /\ p < job[t].size /\ DeleteFrom(t, rest) /\ Done(t)
  <2> DEFINE rows == Found(t, rest)
  <2>1. Write(t, rows, None)
    BY <1>10 DEF DeleteFrom
  <2>2. \A q \in p .. MaxLength - 1 : q \in Positions
    BY <1>4 DEF Positions
  <2>3. /\ rows \in SUBSET Parts
        /\ \A r \in rows : \E q \in Positions : q >= p /\ r = ListRow(q)
    BY <1>4, <2>2, DistinctRows DEF Found
  <2>4. ASSUME job[t].op # "delete", NEW q \in Positions, q >= p, ListRow(q) \notin rows
        PROVE  Latest(t)[ListRow(q)] = None
    <3>1. ListRow(q) \in rest
      BY <1>4, <2>4 DEF Positions
    <3> QED
      BY <1>6, <2>4, <3>1 DEF Found
  <2>5. Done(t) /\ p >= n
    BY <1>10
  <2>6. Write(t, rows, None) \/ (rows = {} /\ UNCHANGED written)
    BY <2>1
  <2> HIDE DEF rows, rest
  <2> QED
    <3>1. job[t].op # "delete" =>
             \A q \in Positions : q >= p /\ ListRow(q) \notin rows => Latest(t)[ListRow(q)] = None
      BY <2>4
    <3> HIDE DEF p, n
    <3> QED
      BY <1>2, <2>3, <2>5, <2>6, <3>1, RestDeleted DEF p, n
<1>11. CASE p >= n /\ p >= job[t].size /\ UNCHANGED written /\ Done(t)
  <2> DEFINE rows == {}
  <2>1. ASSUME job[t].op # "delete", NEW q \in Positions, q >= p
        PROVE  Latest(t)[ListRow(q)] = None
    <3>1. ~(q < job[t].size)
      BY <1>4, <1>11, <2>1 DEF Positions
    <3> QED
      BY <1>7, <2>1, <3>1
  <2>2. rows \in SUBSET Parts /\ \A r \in rows : FALSE
    OBVIOUS
  <2>3. rows = {} /\ UNCHANGED written
    BY <1>11
  <2> HIDE DEF rows
  <2> QED
    BY <1>2, <1>11, <2>1, <2>2, <2>3, RestDeleted
<1> QED
  BY <1>8, <1>9, <1>10, <1>11 DEF ReplaceList

-----------------------------------------------------------------------------
(* Reading *)

(* The transactions that read the entity, and what they see of it.         *)
LEMMA Readers ==
    ASSUME Inv, NEW t \in Threads
    PROVE  /\ job[t].op = "read" =>
                 /\ Latest(t) = committed
                 /\ ~job[t].isolated => Visible(t) = committed
                 /\ job[t].isolated => Visible(t)[TheRow] = snapshot[t][TheRow]
                 /\ job[t].isolated /\ snapshot[t] = committed => Visible(t) = committed
           /\ job[t].op = "save" /\ job[t].step > 5 =>
                 /\ Visible(t) = Latest(t) /\ Visible(t)[TheRow] \in RowType
                 /\ ListIn(Visible(t)) \in Seq(Values)
<1>1. Basics(t) /\ Updating(t) /\ TypeInv
  BY DEF Inv, ThreadInv
<1>2. ASSUME job[t].op = "read"
      PROVE  /\ Latest(t) = committed
             /\ ~job[t].isolated => Visible(t) = committed
             /\ job[t].isolated => Visible(t)[TheRow] = snapshot[t][TheRow]
             /\ job[t].isolated /\ snapshot[t] = committed => Visible(t) = committed
  <2>1. DOMAIN written[t] = {}
    BY <1>1, <1>2 DEF Basics
  <2>2. Latest(t) = committed
    BY <1>1, <2>1, NoWritesNothingNew
  <2> QED
    BY <2>1, <2>2, Seen, DistinctRows
<1>3. ASSUME job[t].op = "save", job[t].step > 5
      PROVE  /\ Visible(t) = Latest(t) /\ Visible(t)[TheRow] \in RowType
             /\ ListIn(Visible(t)) \in Seq(Values)
  <2>0. job[t].step \in Nat
    BY <1>1 DEF TypeInv, JobType
  <2>1. /\ TheRow \in DOMAIN written[t]
        /\ written[t][TheRow] = Row(copy[t].version + 1, job[t].new.value)
        /\ job[t].isolated => snapshot[t] = committed
        /\ HasList(Latest(t), job[t].new.list)
        /\ copy[t] # None
    BY <1>1, <1>3, <2>0 DEF Updating
  <2>2. Visible(t) = Latest(t)
    BY <2>1, Seen
  <2>3. Row(copy[t].version + 1, job[t].new.value) \in RowType
    <3>1. copy[t].version \in Nat
      BY <1>1, <2>1 DEF TypeInv, ObjectType
    <3> QED
      BY <1>3, <3>1, Parameter DEF Row, RowType
  <2>4. Visible(t)[TheRow] \in RowType
    BY <2>1, <2>3, Seen, DistinctRows
  <2>5. ListIn(Latest(t)) = job[t].new.list
    BY <1>3, <2>1, Parameter, ListOfElements
  <2> QED
    BY <1>3, <2>2, <2>4, <2>5, Parameter
<1> QED
  BY <1>2, <1>3

LEMMA SelectRowKeeps == ASSUME Inv, NEW t \in Threads, SelectRow(t) PROVE Inv'
<1> DEFINE row == Visible(t)[TheRow]
<1>1. \/ job[t].op = "read" /\ job[t].step = 1 /\ LastStep(t) = 3
      \/ job[t].op = "save" /\ job[t].step = 6 /\ LastStep(t) = 8
      \/ job[t].op = "delete" /\ job[t].step = 2 /\ LastStep(t) = 7
  BY Places DEF SelectRow, Inv, TypeInv
<1>2. Reading(t) /\ Updating(t) /\ Deleting(t) /\ Basics(t)
  BY DEF Inv, ThreadInv
<1>3. job[t] \in JobType /\ job \in [Threads -> JobType]
  BY DEF Inv, TypeInv
<1>4. row \in RowType \cup {None} /\ None \notin RowType /\ None \notin ObjectType
  BY SeenTypes, EntityAssumption DEF Inv, IsData
<1>5. CASE row = None /\ job[t].op = "delete"
  <2>1. Rollback(t)
    BY <1>5 DEF SelectRow
  <2> QED
    BY <2>1, RollbackKeeps
<1>6. CASE row = None /\ job[t].op # "delete"
  <2> DEFINE j == [job[t] EXCEPT !.step = LastStep(t) + 1]
  <2>1. job[t].op = "read" /\ job[t].step = 1 /\ LastStep(t) = 3
    BY <1>1, <1>4, <1>6, Readers
  <2>2. job' = [job EXCEPT ![t] = j] /\ Query(t)
    BY <1>6 DEF SelectRow
  <2>3. /\ j \in JobType /\ j.step = 4 /\ j.op = job[t].op /\ j.new = job[t].new
        /\ j.isolated = job[t].isolated /\ j.object = job[t].object /\ job'[t] = j
    BY <1>3, <2>1, <2>2 DEF JobType
  <2> HIDE DEF j
  <2>4. UNCHANGED <<committed, written, snapshot, copy, born>>
    BY <2>2 DEF Query
  <2>5. Basics(t)' /\ Copied(t)'
    BY <1>2, <2>1, <2>3, <2>4, BasicsKept DEF Basics
  <2>6. Reading(t)'
    BY <1>2, <2>1, <2>3, <2>4 DEF Reading
  <2>7. Inserting(t)' /\ Updating(t)' /\ Deleting(t)'
    BY <2>1, <2>3 DEF Inserting, Updating, Deleting
  <2> QED
    BY <2>2, <2>3, <2>5, <2>6, <2>7, QueryStep DEF ThreadInv
<1>7. CASE row # None
  <2> DEFINE content == [NoContent EXCEPT !.value = row.value]
             object == Versioned(row.version, content)
             j == [job[t] EXCEPT !.step = @ + 1, !.object = object]
  <2>1. job' = [job EXCEPT ![t] = j] /\ Query(t)
    BY <1>7 DEF SelectRow
  <2>2. UNCHANGED <<committed, written, snapshot, copy, born>>
    BY <2>1 DEF Query
  <2>3. row.version \in Nat /\ row.value \in Values
    BY <1>4, <1>7 DEF RowType
  <2>4. content \in ContentType /\ content.value = row.value
    <3>1. content = [value |-> row.value, part |-> None, list |-> <<>>]
      BY DEF NoContent
    <3>2. <<>> \in Seq(Values)
      OBVIOUS
    <3> HIDE DEF content
    <3> QED
      BY <2>3, <3>1, <3>2 DEF ContentType
  <2> HIDE DEF content
  <2>5. /\ object \in ObjectType /\ object.version = row.version /\ object.content.value = row.value
        /\ object # None
    BY <1>4, <2>3, <2>4 DEF Versioned, ObjectType
  <2> HIDE DEF object
  <2>6. /\ j \in JobType /\ j.step = job[t].step + 1 /\ j.op = job[t].op /\ j.new = job[t].new
        /\ j.isolated = job[t].isolated /\ j.object = object /\ j.position = job[t].position
        /\ job'[t] = j
    <3>1. job[t].step + 1 \in Nat \ {0}
      BY <1>1
    <3>2. j \in JobType
      BY <1>3, <2>5, <3>1 DEF JobType
    <3> QED
      BY <1>3, <2>1, <3>2 DEF JobType
  <2> HIDE DEF j
  <2>7. Basics(t)' /\ Copied(t)'
    BY <1>1, <1>2, <2>2, <2>6, BasicsKept DEF Basics
  <2>8. Inserting(t)'
    BY <1>1, <2>6 DEF Inserting
  <2>9. Latest(t)' = Latest(t)
    BY <2>2 DEF Latest, Over
  <2>10. ASSUME job[t].op = "read" PROVE ThreadInv(t)'
    <3>1. /\ TrueSoFar(object, 1, committed)
          /\ job[t].isolated => snapshot[t][TheRow] # None /\ object.version = snapshot[t][TheRow].version
      <4>1. CASE job[t].isolated
        <5>1. row = snapshot[t][TheRow] /\ Older(snapshot[t], committed)
          BY <1>2, <2>10, <4>1, Readers DEF Basics
        <5> QED
          BY <1>7, <2>5, <5>1 DEF Older, TrueSoFar
      <4>2. CASE ~job[t].isolated
        <5>1. row = committed[TheRow]
          BY <2>10, <4>2, Readers
        <5> QED
          BY <2>3, <2>5, <4>2, <5>1 DEF TrueSoFar
      <4> QED
        BY <4>1, <4>2
    <3>2. Reading(t)'
      BY <1>1, <2>2, <2>5, <2>6, <2>10, <3>1 DEF Reading, TrueSoFar, ListIn
    <3> QED
      BY <2>6, <2>7, <2>8, <2>10, <3>2 DEF ThreadInv, Updating, Deleting
  <2>11. ASSUME job[t].op = "save" PROVE ThreadInv(t)'
    <3>1. row = Latest(t)[TheRow]
      BY <1>1, <2>11, Readers
    <3>2. TrueSoFar(object, 1, Latest(t))
      BY <2>3, <2>5, <3>1 DEF TrueSoFar
    <3>3. Updating(t)'
      BY <1>1, <1>2, <2>2, <2>5, <2>6, <2>9, <2>11, <3>1, <3>2 DEF Updating, TrueSoFar, HasList
    <3> QED
      BY <2>6, <2>7, <2>8, <2>11, <3>3 DEF ThreadInv, Reading, Deleting
  <2>12. ASSUME job[t].op = "delete" PROVE ThreadInv(t)'
    <3>1. job[t].isolated => snapshot[t][TheRow] # None
      BY <1>1, <1>2, <1>7, <2>12, Seen, DistinctRows DEF Deleting
    <3>2. Deleting(t)'
      BY <1>1, <1>2, <2>2, <2>5, <2>6, <2>12, <3>1 DEF Deleting
    <3> QED
      BY <2>6, <2>7, <2>8, <2>12, <3>2 DEF ThreadInv, Reading, Updating
  <2> QED
    BY <1>1, <2>1, <2>6, <2>10, <2>11, <2>12, QueryStep
<1> QED
  BY <1>5, <1>6, <1>7

LEMMA SelectPartKeeps == ASSUME Inv, NEW t \in Threads, SelectPart(t) PROVE Inv'
<1> DEFINE part == Visible(t)[ThePart]
           object == [job[t].object EXCEPT !.content.part = part]
           j == [job[t] EXCEPT !.step = @ + 1, !.object = object]
<1>1. \/ job[t].op = "read" /\ job[t].step = 2 /\ LastStep(t) = 3
      \/ job[t].op = "save" /\ job[t].step = 7 /\ LastStep(t) = 8
      \/ job[t].op = "delete" /\ job[t].step = 3 /\ LastStep(t) = 7
  BY Places DEF SelectPart, Inv, TypeInv
<1>2. Reading(t) /\ Updating(t) /\ Deleting(t) /\ Basics(t)
  BY DEF Inv, ThreadInv
<1>3. job[t] \in JobType /\ job \in [Threads -> JobType]
  BY DEF Inv, TypeInv
<1>4. part \in Values \cup {None} /\ None \notin ObjectType
  BY SeenTypes, DistinctRows, EntityAssumption DEF Inv, IsData
<1>5. job[t].object # None /\ job[t].object \in ObjectType
  BY <1>1, <1>2, <1>3 DEF Reading, Updating, Deleting, JobType
<1>6. job' = [job EXCEPT ![t] = j] /\ Query(t)
  BY <1>3, <1>5 DEF SelectPart, JobType, ObjectType, ContentType
<1>7. UNCHANGED <<committed, written, snapshot, copy, born>>
  BY <1>6 DEF Query
<1> HIDE DEF part
<1>8. /\ object \in ObjectType /\ object.version = job[t].object.version /\ object # None
      /\ object.content.value = job[t].object.content.value /\ object.content.part = part
  BY <1>4, <1>5 DEF ObjectType, ContentType
<1> HIDE DEF object
<1>9. /\ j \in JobType /\ j.step = job[t].step + 1 /\ j.op = job[t].op /\ j.new = job[t].new
      /\ j.isolated = job[t].isolated /\ j.object = object /\ j.position = job[t].position
      /\ job'[t] = j
  <2>1. job[t].step + 1 \in Nat \ {0}
    BY <1>1
  <2>2. j \in JobType
    BY <1>3, <1>8, <2>1 DEF JobType
  <2> QED
    BY <1>3, <1>6, <2>2 DEF JobType
<1> HIDE DEF j
<1>10. Basics(t)' /\ Copied(t)'
  BY <1>1, <1>2, <1>7, <1>9, BasicsKept DEF Basics
<1>11. Inserting(t)'
  BY <1>1, <1>9 DEF Inserting
<1>12. Latest(t)' = Latest(t)
  BY <1>7 DEF Latest, Over
<1>13. ASSUME job[t].op = "read" PROVE ThreadInv(t)'
  <2>1. TrueSoFar(job[t].object, 1, committed)
    BY <1>1, <1>2, <1>5, <1>13 DEF Reading
  <2>2. ASSUME committed[TheRow] # None, object.version = committed[TheRow].version
        PROVE  part = committed[ThePart]
    <3>1. job[t].isolated => snapshot[t] = committed
      BY <1>1, <1>2, <1>5, <1>8, <1>13, <2>2 DEF Reading, Basics, Older
    <3>2. Visible(t) = committed
      BY <1>13, <3>1, Readers
    <3> QED
      BY <3>2 DEF part
  <2>3. TrueSoFar(object, 2, committed)
    BY <1>8, <2>1, <2>2 DEF TrueSoFar
  <2>4. Reading(t)'
    BY <1>1, <1>2, <1>5, <1>7, <1>8, <1>9, <1>13, <2>3 DEF Reading, TrueSoFar
  <2> QED
    BY <1>9, <1>10, <1>11, <1>13, <2>4 DEF ThreadInv, Updating, Deleting
<1>14. ASSUME job[t].op = "save" PROVE ThreadInv(t)'
  <2>1. TrueSoFar(job[t].object, 1, Latest(t)) /\ part = Latest(t)[ThePart]
    BY <1>1, <1>2, <1>14, Readers DEF Updating, part
  <2>2. TrueSoFar(object, 2, Latest(t))
    BY <1>8, <2>1 DEF TrueSoFar
  <2>3. Updating(t)'
    BY <1>1, <1>2, <1>7, <1>8, <1>9, <1>12, <1>14, <2>2 DEF Updating, TrueSoFar, HasList
  <2> QED
    BY <1>9, <1>10, <1>11, <1>14, <2>3 DEF ThreadInv, Reading, Deleting
<1>15. ASSUME job[t].op = "delete" PROVE ThreadInv(t)'
  <2>1. Deleting(t)'
    BY <1>1, <1>2, <1>7, <1>8, <1>9, <1>15 DEF Deleting
  <2> QED
    BY <1>9, <1>10, <1>11, <1>15, <2>1 DEF ThreadInv, Reading, Updating
<1> QED
  BY <1>1, <1>6, <1>9, <1>13, <1>14, <1>15, QueryStep

LEMMA SelectListKeeps == ASSUME Inv, NEW t \in Threads, SelectList(t) PROVE Inv'
<1> DEFINE list == ListIn(Visible(t))
           object == [job[t].object EXCEPT !.content.list = list]
           j == [job[t] EXCEPT !.step = @ + 1, !.object = object]
<1>1. \/ job[t].op = "read" /\ job[t].step = 3 /\ LastStep(t) = 3
      \/ job[t].op = "save" /\ job[t].step = 8 /\ LastStep(t) = 8
      \/ job[t].op = "delete" /\ job[t].step = 4 /\ LastStep(t) = 7
  BY Places DEF SelectList, Inv, TypeInv
<1>2. Reading(t) /\ Updating(t) /\ Deleting(t) /\ Basics(t)
  BY DEF Inv, ThreadInv
<1>3. job[t] \in JobType /\ job \in [Threads -> JobType]
  BY DEF Inv, TypeInv
<1>4. list \in Seq(Values) /\ None \notin ObjectType
  <2>1. CASE job[t].op = "save"
    BY <1>1, <2>1, Readers, EntityAssumption
  <2>2. CASE job[t].op # "save"
    <3>1. \A p \in Positions : ListRow(p) \notin DOMAIN written[t]
      BY <1>1, <1>2, <2>2 DEF Basics, Deleting
    <3> QED
      BY <3>1, VisibleList, EntityAssumption
  <2> QED
    BY <2>1, <2>2
<1>5. job[t].object # None /\ job[t].object \in ObjectType
  BY <1>1, <1>2, <1>3 DEF Reading, Updating, Deleting, JobType
<1>6. job' = [job EXCEPT ![t] = j] /\ Query(t)
  BY <1>3, <1>5 DEF SelectList, JobType, ObjectType, ContentType
<1>7. UNCHANGED <<committed, written, snapshot, copy, born>>
  BY <1>6 DEF Query
<1> HIDE DEF list
<1>8. /\ object \in ObjectType /\ object.version = job[t].object.version /\ object # None
      /\ object.content.value = job[t].object.content.value
      /\ object.content.part = job[t].object.content.part /\ object.content.list = list
  BY <1>4, <1>5 DEF ObjectType, ContentType
<1> HIDE DEF object
<1>9. /\ j \in JobType /\ j.step = job[t].step + 1 /\ j.op = job[t].op /\ j.new = job[t].new
      /\ j.isolated = job[t].isolated /\ j.object = object /\ j.position = job[t].position
      /\ job'[t] = j
  <2>1. job[t].step + 1 \in Nat \ {0}
    BY <1>1
  <2>2. j \in JobType
    BY <1>3, <1>8, <2>1 DEF JobType
  <2> QED
    BY <1>3, <1>6, <2>2 DEF JobType
<1> HIDE DEF j
<1>10. Basics(t)' /\ Copied(t)'
  BY <1>1, <1>2, <1>7, <1>9, BasicsKept DEF Basics
<1>11. Inserting(t)'
  BY <1>1, <1>9 DEF Inserting
<1>12. Latest(t)' = Latest(t)
  BY <1>7 DEF Latest, Over
<1>13. ASSUME job[t].op = "read" PROVE ThreadInv(t)'
  <2>1. TrueSoFar(job[t].object, 2, committed)
    BY <1>1, <1>2, <1>5, <1>13 DEF Reading
  <2>2. ASSUME committed[TheRow] # None, object.version = committed[TheRow].version
        PROVE  list = ListIn(committed)
    <3>1. job[t].isolated => snapshot[t] = committed
      BY <1>1, <1>2, <1>5, <1>8, <1>13, <2>2 DEF Reading, Basics, Older
    <3>2. Visible(t) = committed
      BY <1>13, <3>1, Readers
    <3> QED
      BY <3>2 DEF list
  <2>3. TrueSoFar(object, 3, committed)
    BY <1>8, <2>1, <2>2 DEF TrueSoFar
  <2>4. Reading(t)'
    BY <1>1, <1>2, <1>5, <1>7, <1>8, <1>9, <1>13, <2>3 DEF Reading, TrueSoFar
  <2> QED
    BY <1>9, <1>10, <1>11, <1>13, <2>4 DEF ThreadInv, Updating, Deleting
<1>14. ASSUME job[t].op = "save" PROVE ThreadInv(t)'
  <2>1. TrueSoFar(job[t].object, 2, Latest(t)) /\ list = ListIn(Latest(t))
    BY <1>1, <1>2, <1>14, Readers DEF Updating, list
  <2>2. TrueSoFar(object, 3, Latest(t))
    BY <1>8, <2>1 DEF TrueSoFar
  <2>3. Updating(t)'
    BY <1>1, <1>2, <1>7, <1>8, <1>9, <1>12, <1>14, <2>2 DEF Updating, TrueSoFar, HasList
  <2> QED
    BY <1>9, <1>10, <1>11, <1>14, <2>3 DEF ThreadInv, Reading, Deleting
<1>15. ASSUME job[t].op = "delete" PROVE ThreadInv(t)'
  <2>1. Deleting(t)'
    BY <1>1, <1>2, <1>7, <1>8, <1>9, <1>15 DEF Deleting
  <2> QED
    BY <1>9, <1>10, <1>11, <1>15, <2>1 DEF ThreadInv, Reading, Updating
<1> QED
  BY <1>1, <1>6, <1>9, <1>13, <1>14, <1>15, QueryStep

-----------------------------------------------------------------------------
(* Deletion *)

LEMMA DeletionWrites ==
    ASSUME Inv, NEW t \in Threads, job[t].op = "delete", Statement(t), Done(t),
           job[t].step <= LastStep(t),
           NEW rows \in SUBSET Rows, Write(t, rows, None),
           DOMAIN written'[t] = DOMAIN written[t] \cup rows
              /\ (\A r \in DOMAIN written'[t] : written'[t][r] = IF r \in rows THEN None ELSE written[t][r])
              => Deleting(t)'
    PROVE  Inv'
<1> DEFINE j == [job[t] EXCEPT !.step = @ + 1]
<1>1. UNCHANGED <<committed, snapshot, copy, born>> /\ TypeInv
  BY DEF Statement, Inv
<1>2. /\ j \in JobType /\ j.step = job[t].step + 1 /\ j.op = job[t].op /\ j.new = job[t].new
      /\ j.isolated = job[t].isolated
      /\ job' = [job EXCEPT ![t] = j] /\ job'[t] = j
  BY StepOn
<1>3. Deleting(t)'
  BY <1>1, Writing
<1>4. job[t].step \in Nat \ {0} /\ LastStep(t) = 7
  BY <1>1, Places DEF TypeInv, JobType
<1> HIDE DEF j
<1>5. Basics(t)' /\ Copied(t)'
  BY <1>1, <1>2, <1>4, BasicsKept
<1>6. Reading(t)' /\ Inserting(t)' /\ Updating(t)'
  BY <1>2 DEF Reading, Inserting, Updating
<1> QED
  BY <1>2, <1>3, <1>5, <1>6, WriteStep DEF ThreadInv

LEMMA DeletePartKeeps == ASSUME Inv, NEW t \in Threads, DeletePart(t) PROVE Inv'
<1> DEFINE rows == Found(t, {ThePart})
<1>1. job[t].op = "delete" /\ job[t].step = 1 /\ LastStep(t) = 7
  BY Places DEF DeletePart, Inv, TypeInv
<1>2. Write(t, rows, None) /\ Done(t) /\ Statement(t)
  BY DEF DeletePart, DeleteFrom
<1>3. rows \in SUBSET Rows /\ rows \subseteq {ThePart}
  BY DistinctRows DEF Found
<1>4. DOMAIN written[t] = {} /\ Deleting(t) /\ TypeInv
  BY <1>1 DEF Inv, ThreadInv, Basics
<1>5. job'[t].step = 2 /\ job'[t].position = job[t].position
  <2> DEFINE j == [job[t] EXCEPT !.step = @ + 1]
  <2>1. job'[t] = j /\ j.step = job[t].step + 1 /\ j.position = job[t].position
    BY <1>2, StepOn
  <2> QED
    BY <1>1, <2>1
<1> HIDE DEF rows
<1>6. ASSUME DOMAIN written'[t] = DOMAIN written[t] \cup rows,
             \A r \in DOMAIN written'[t] : written'[t][r] = IF r \in rows THEN None ELSE written[t][r]
      PROVE  Deleting(t)'
  BY <1>1, <1>3, <1>4, <1>5, <1>6, DistinctRows DEF Deleting
<1> QED
  BY <1>1, <1>2, <1>3, <1>6, DeletionWrites

LEMMA DeleteRowKeeps == ASSUME Inv, NEW t \in Threads, DeleteRow(t) PROVE Inv'
<1> DEFINE rows == Found(t, {TheRow})
<1>1. job[t].op = "delete" /\ job[t].step = 7 /\ LastStep(t) = 7
  BY Places DEF DeleteRow, Inv, TypeInv
<1>2. Write(t, rows, None) /\ Done(t) /\ Statement(t) /\ UNCHANGED <<committed, snapshot>>
  BY DEF DeleteRow, DeleteFrom, Statement
<1>3. rows \in SUBSET Rows /\ rows \subseteq {TheRow}
  BY DistinctRows DEF Found
<1>4. Deleting(t) /\ TypeInv /\ Whole(committed)
  BY <1>1 DEF Inv, ThreadInv, Shared
<1>5. /\ job'[t].step = 8 /\ job'[t].position = job[t].position
      /\ job'[t].object = job[t].object /\ job'[t].isolated = job[t].isolated
  <2> DEFINE j == [job[t] EXCEPT !.step = @ + 1]
  <2>1. /\ job'[t] = j /\ j.step = job[t].step + 1 /\ j.position = job[t].position
        /\ j.object = job[t].object /\ j.isolated = job[t].isolated
    BY <1>2, StepOn
  <2> QED
    BY <1>1, <2>1
<1>6. rows # {} => \A r \in Parts : Latest(t)[r] = None
  BY DEF DeleteRow
<1>7. rows = {} => \A r \in Rows : committed[r] = None
  <2>1. TheRow \notin DOMAIN written[t] /\ (job[t].isolated => snapshot[t][TheRow] # None)
    BY <1>1, <1>4 DEF Deleting
  <2>2. ASSUME rows = {} PROVE committed[TheRow] = None
    BY <2>1, <2>2, Seen, DistinctRows DEF Found
  <2> QED
    BY <1>4, <2>2 DEF Whole, Nothing
<1> HIDE DEF rows
<1>8. \A r \in Rows : Latest(t)'[r] = IF r \in rows THEN None ELSE Latest(t)[r]
  BY <1>2, <1>3, <1>4, Writing
<1>9. ASSUME DOMAIN written'[t] = DOMAIN written[t] \cup rows,
             \A r \in DOMAIN written'[t] : written'[t][r] = IF r \in rows THEN None ELSE written[t][r]
      PROVE  Deleting(t)'
  <2>1. TheRow \notin DOMAIN written[t]
    BY <1>1, <1>4 DEF Deleting
  <2>2. ASSUME TheRow \in DOMAIN written'[t], NEW r \in Rows PROVE Latest(t)'[r] = None
    <3>1. rows # {}
      BY <1>9, <2>1, <2>2
    <3> QED
      BY <1>3, <1>6, <1>8, <3>1 DEF Rows
  <2>3. ASSUME TheRow \notin DOMAIN written'[t], NEW r \in Rows PROVE committed'[r] = None
    <3>1. rows = {}
      BY <1>3, <1>9, <2>3
    <3> QED
      BY <1>2, <1>7, <3>1
  <2> QED
    BY <1>1, <1>2, <1>4, <1>5, <1>9, <2>2, <2>3 DEF Deleting
<1> QED
  BY <1>1, <1>2, <1>3, <1>9, DeletionWrites

-----------------------------------------------------------------------------
(* The begin of a transaction *)

LEMMA BeginKeeps ==
    ASSUME Inv, NEW t \in Threads, NEW op \in {"read", "insert", "update", "save", "delete"},
           NEW isolated \in BOOLEAN, NEW new \in Contents \cup {NoContent}, Begin(t, op, isolated, new),
           op = "insert" => ~born /\ new \in Contents /\ \A o \in Threads : job[o].op # "insert",
           op \in {"update", "save"} => copy[t] # None /\ new \in Contents,
           op \in {"read", "delete"} => born /\ new = NoContent
    PROVE  Inv'
<1> DEFINE j == Job(op, isolated, new)
<1>1. /\ job[t] = Idle /\ job' = [job EXCEPT ![t] = j]
      /\ snapshot' = IF isolated THEN [snapshot EXCEPT ![t] = committed] ELSE snapshot
      /\ UNCHANGED <<committed, written, copy, born>>
  BY DEF Begin
<1>2. /\ j \in JobType /\ j.op = op /\ j.step = 1 /\ j.isolated = isolated /\ j.new = new
      /\ j.object = None /\ j.position = 0
  BY EntityAssumption DEF Job, JobType
<1> HIDE DEF j
<1>3. TypeInv /\ Whole(committed) /\ Basics(t) /\ Copied(t) /\ (~born => committed = Nothing)
  BY DEF Inv, ThreadInv, Shared
<1>4. DOMAIN written[t] = {} /\ Latest(t) = committed /\ written'[t] = written[t]
  BY <1>1, <1>3, IdleFacts, NoWritesNothingNew DEF Basics
<1>5. /\ job' \in [Threads -> JobType] /\ job'[t] = j
      /\ \A o \in Threads \ {t} : job'[o] = job[o] /\ snapshot'[o] = snapshot[o]
      /\ snapshot' = [o \in Threads |-> snapshot'[o]]
      /\ snapshot'[t] = IF isolated THEN committed ELSE snapshot[t]
  BY <1>1, <1>2, <1>3 DEF TypeInv
<1>6. TypeInv' /\ Locks'
  <2>1. \A o \in Threads : IsData(snapshot'[o])
    BY <1>3, <1>5 DEF TypeInv
  <2>2. TypeInv'
    BY <1>1, <1>3, <1>5, <2>1 DEF TypeInv
  <2> QED
    BY <1>1, <2>2 DEF Inv, Locks
<1>7. Latest(t)' = committed
  BY <1>1, <1>4 DEF Latest, Over
<1>8. Basics(t)'
  <2>1. LastStep(t)' \in Nat
    BY <1>2, <1>5 DEF LastStep, Steps
  <2>2. job'[t].isolated => Whole(snapshot'[t]) /\ Older(snapshot'[t], committed')
    <3>1. committed[TheRow] # None => committed[TheRow].version \in Nat
      BY <1>3 DEF TypeInv, IsData, RowType
    <3> QED
      BY <1>1, <1>2, <1>3, <1>5, <3>1 DEF Older
  <2>3. op \in {"update", "save"} => born
    BY <1>3 DEF Copied
  <2> QED
    BY <1>1, <1>2, <1>4, <1>5, <2>1, <2>2, <2>3 DEF Basics
<1>9. Copied(t)'
  BY <1>1, <1>3 DEF Copied, TrueSoFar
<1>10. Reading(t)' /\ Deleting(t)'
  BY <1>1, <1>2, <1>4, <1>5 DEF Reading, Deleting
<1>11. Updating(t)'
  BY <1>1, <1>2, <1>4, <1>5 DEF Updating
<1>12. Inserting(t)'
  <2>1. ASSUME op = "insert"
        PROVE  /\ committed = Nothing /\ committed[ThePart] = None
               /\ HasElements(committed, new.list, 0, Nothing)
    <3>1. committed = Nothing
      BY <1>3, <2>1
    <3>2. HasElements(Nothing, new.list, 0, Nothing)
      BY DEF HasElements, Positions
    <3> QED
      BY <3>1, <3>2, DistinctRows DEF Nothing
  <2>2. op = "insert" => 0 <= Len(new.list) /\ (isolated => snapshot'[t] = Nothing)
    BY <1>3, <1>5, EntityAssumption DEF ContentType
  <2> QED
    BY <1>1, <1>2, <1>4, <1>5, <1>7, <2>1, <2>2 DEF Inserting, HasElements
<1> QED
  BY <1>1, <1>2, <1>5, <1>6, <1>8, <1>9, <1>10, <1>11, <1>12, StepOf DEF ThreadInv

-----------------------------------------------------------------------------
(* Commit *)

(* What a transaction has written when it commits.                         *)
LEMMA Written ==
    ASSUME Inv, NEW t \in Threads, job[t].op # "none", job[t].step > LastStep(t)
    PROVE  /\ job[t].op = "read" => Latest(t) = committed
           /\ job[t].op \in {"insert", "update", "save"} =>
                 /\ Latest(t)[TheRow] \in RowType /\ Latest(t)[TheRow] # None
                 /\ Content(Latest(t)) = job[t].new
                 /\ Filled(Latest(t), Len(job[t].new.list))
                 /\ Len(job[t].new.list) \in 0 .. MaxLength
           /\ job[t].op = "insert" => Latest(t)[TheRow].version = 0 /\ committed = Nothing /\ ~born
           /\ job[t].op \in {"update", "save"} =>
                 /\ copy[t] \in ObjectType /\ committed[TheRow] \in RowType
                 /\ committed[TheRow].version = copy[t].version
                 /\ Latest(t)[TheRow].version = copy[t].version + 1
                 /\ TheRow \in DOMAIN written[t] /\ born
           /\ job[t].op = "save" =>
                 /\ job[t].object \in ObjectType /\ job[t].object # None
                 /\ job[t].object.version = Latest(t)[TheRow].version
                 /\ job[t].object.content = Content(Latest(t))
           /\ job[t].op = "delete" =>
                 /\ \A r \in Rows : Latest(t)[r] = None
                 /\ \A r \in DOMAIN written[t] : written[t][r] = None
                 /\ TheRow \in DOMAIN written[t] \/ committed[TheRow] = None
                 /\ born
<1>1. /\ TypeInv /\ Basics(t) /\ Inserting(t) /\ Updating(t) /\ Deleting(t)
      /\ ~born => committed = Nothing
  BY DEF Inv, ThreadInv, Shared
<1>2. job[t].step \in Nat /\ job[t] \in JobType
  BY <1>1 DEF TypeInv, JobType
<1>3. ASSUME job[t].op = "read" PROVE Latest(t) = committed
  BY <1>3, Readers
<1>4. ASSUME job[t].op \in {"insert", "update", "save"}, NEW v \in Nat,
             Latest(t)[TheRow] = Row(v, job[t].new.value),
             Latest(t)[ThePart] = job[t].new.part, HasList(Latest(t), job[t].new.list)
      PROVE  /\ Latest(t)[TheRow] \in RowType /\ Latest(t)[TheRow] # None
             /\ Latest(t)[TheRow].version = v
             /\ Content(Latest(t)) = job[t].new
             /\ Filled(Latest(t), Len(job[t].new.list))
             /\ Len(job[t].new.list) \in 0 .. MaxLength
  <2>1. /\ Row(v, job[t].new.value) \in RowType /\ Row(v, job[t].new.value).version = v
        /\ Row(v, job[t].new.value).value = job[t].new.value
    BY <1>4, Parameter DEF Row, RowType
  <2>2. /\ Filled(Latest(t), Len(job[t].new.list)) /\ Len(job[t].new.list) \in 0 .. MaxLength
        /\ ListIn(Latest(t)) = job[t].new.list
    BY <1>4, Parameter, ListOfElements
  <2>3. Content(Latest(t)) = job[t].new
    <3>1. job[t].new = [value |-> job[t].new.value, part |-> job[t].new.part, list |-> job[t].new.list]
      BY <1>4, Parameter DEF ContentType
    <3> QED
      BY <1>4, <2>1, <2>2, <3>1 DEF Content
  <2> QED
    BY <1>4, <2>1, <2>2, <2>3, EntityAssumption
<1>5. ASSUME job[t].op = "insert"
      PROVE  /\ Latest(t)[TheRow] = Row(0, job[t].new.value)
             /\ Latest(t)[ThePart] = job[t].new.part /\ HasList(Latest(t), job[t].new.list)
             /\ committed = Nothing /\ ~born
  <2>1. job[t].step > 3
    BY <1>1, <1>5, Places DEF TypeInv
  <2> QED
    BY <1>1, <1>2, <1>5, <2>1 DEF Inserting, Basics
<1>6. ASSUME job[t].op \in {"update", "save"}
      PROVE  /\ Latest(t)[TheRow] = Row(copy[t].version + 1, job[t].new.value)
             /\ copy[t].version + 1 \in Nat
             /\ Latest(t)[ThePart] = job[t].new.part /\ HasList(Latest(t), job[t].new.list)
             /\ copy[t] \in ObjectType /\ committed[TheRow] \in RowType
             /\ committed[TheRow].version = copy[t].version
             /\ TheRow \in DOMAIN written[t] /\ born
  <2>1. job[t].step > 5
    <3>1. LastStep(t) \in {5, 8}
      BY <1>1, <1>6, Places DEF TypeInv
    <3> QED
      BY <1>2, <3>1
  <2>2. /\ TheRow \in DOMAIN written[t]
        /\ written[t][TheRow] = Row(copy[t].version + 1, job[t].new.value)
        /\ committed[TheRow] # None /\ committed[TheRow].version = copy[t].version
        /\ Latest(t)[ThePart] = job[t].new.part /\ HasList(Latest(t), job[t].new.list)
        /\ copy[t] # None /\ born
    BY <1>1, <1>2, <1>6, <2>1 DEF Updating, Basics
  <2>3. copy[t] \in ObjectType /\ committed[TheRow] \in RowType
    BY <1>1, <2>2 DEF TypeInv, IsData
  <2>4. copy[t].version + 1 \in Nat
    BY <2>3 DEF ObjectType
  <2>5. Latest(t)[TheRow] = written[t][TheRow]
    BY <2>2, Seen, DistinctRows
  <2> QED
    BY <2>2, <2>3, <2>4, <2>5
<1>7. ASSUME job[t].op = "save"
      PROVE  /\ job[t].object \in ObjectType /\ job[t].object # None
             /\ job[t].object.version = Latest(t)[TheRow].version
             /\ job[t].object.content = Content(Latest(t))
  <2>1. job[t].step = 9
    BY <1>1, <1>2, <1>7, Places DEF TypeInv, Basics
  <2>2. /\ job[t].object # None
        /\ job[t].object.version = Latest(t)[TheRow].version
        /\ TrueSoFar(job[t].object, 3, Latest(t))
    BY <1>1, <1>7, <2>1 DEF Updating
  <2>3. job[t].object \in ObjectType
    BY <1>2, <2>2 DEF JobType
  <2>4. Latest(t)[TheRow] # None
    BY <1>4, <1>6, <1>7
  <2>5. /\ job[t].object.content.value = Latest(t)[TheRow].value
        /\ job[t].object.content.part = Latest(t)[ThePart]
        /\ job[t].object.content.list = ListIn(Latest(t))
    BY <2>2, <2>4 DEF TrueSoFar
  <2>6. job[t].object.content = [value |-> job[t].object.content.value,
           part |-> job[t].object.content.part, list |-> job[t].object.content.list]
    BY <2>3 DEF ObjectType, ContentType
  <2> QED
    BY <2>2, <2>3, <2>5, <2>6 DEF Content
<1>8. ASSUME job[t].op = "delete"
      PROVE  /\ \A r \in Rows : Latest(t)[r] = None
             /\ \A r \in DOMAIN written[t] : written[t][r] = None
             /\ TheRow \in DOMAIN written[t] \/ committed[TheRow] = None
             /\ born
  <2>1. job[t].step > 7
    BY <1>1, <1>8, Places DEF TypeInv
  <2> QED
    BY <1>1, <1>8, <2>1, Seen, DistinctRows DEF Deleting, Basics
<1> QED
  BY <1>3, <1>4, <1>5, <1>6, <1>7, <1>8

(* What Commit changes.                                                    *)
LEMMA CommitFrame ==
    ASSUME Inv, NEW t \in Threads, Commit(t)
    PROVE  /\ committed' = Latest(t) /\ born' = (born \/ job[t].op = "insert")
           /\ job'[t] = Idle /\ written'[t] = NoWrites /\ snapshot'[t] = Nothing
           /\ copy'[t] = IF job[t].op \in {"read", "save"} THEN job[t].object ELSE copy[t]
           /\ \A o \in Threads \ {t} :
                 /\ job'[o] = job[o] /\ written'[o] = written[o]
                 /\ snapshot'[o] = snapshot[o] /\ copy'[o] = copy[o]
           /\ TypeInv' /\ Locks'
<1>1. /\ committed' = Latest(t) /\ born' = (born \/ job[t].op = "insert")
      /\ written' = [written EXCEPT ![t] = NoWrites]
      /\ snapshot' = [snapshot EXCEPT ![t] = Nothing]
      /\ copy' = IF job[t].op \in {"read", "save"} THEN [copy EXCEPT ![t] = job[t].object] ELSE copy
      /\ job' = [job EXCEPT ![t] = Idle]
  BY DEF Commit
<1>2. TypeInv /\ job[t].object \in ObjectType \cup {None}
  BY DEF Inv, TypeInv, JobType
<1>3. /\ job'[t] = Idle /\ written'[t] = NoWrites /\ snapshot'[t] = Nothing
      /\ \A o \in Threads \ {t} :
            job'[o] = job[o] /\ written'[o] = written[o] /\ snapshot'[o] = snapshot[o]
      /\ written' = [o \in Threads |-> written'[o]]
      /\ snapshot' = [o \in Threads |-> snapshot'[o]]
      /\ job' \in [Threads -> JobType]
  BY <1>1, <1>2, IdleFacts DEF TypeInv
<1>4. /\ copy'[t] = IF job[t].op \in {"read", "save"} THEN job[t].object ELSE copy[t]
      /\ \A o \in Threads \ {t} : copy'[o] = copy[o]
      /\ copy' \in [Threads -> ObjectType \cup {None}]
  BY <1>1, <1>2 DEF TypeInv
<1>5. IsData(committed')
  BY <1>1, <1>2, SeenTypes
<1>6. \A o \in Threads : IsWrites(written'[o]) /\ IsData(snapshot'[o])
  BY <1>2, <1>3, IdleFacts DEF TypeInv
<1>7. TypeInv'
  BY <1>1, <1>2, <1>3, <1>4, <1>5, <1>6 DEF TypeInv
<1>8. Locks'
  BY <1>3, IdleFacts DEF Inv, Locks
<1> QED
  BY <1>1, <1>3, <1>4, <1>7, <1>8

(* An insert is the only transaction while it runs.                        *)
LEMMA InsertCommitted ==
    ASSUME Inv, NEW t \in Threads, Commit(t), NEW o \in Threads \ {t}, job[t].op = "insert"
    PROVE  ThreadInv(o)'
<1>1. /\ job'[o] = job[o] /\ written'[o] = written[o] /\ copy'[o] = copy[o]
      /\ Basics(o) /\ Copied(o) /\ ~born /\ job[o].op # "insert"
  BY CommitFrame DEF Inv, ThreadInv, Shared, Basics
<1>2. job[o].op = "none" /\ copy[o] = None /\ LastStep(o)' = LastStep(o)
  BY <1>1 DEF Basics, Copied, LastStep
<1>3. Basics(o)' /\ Copied(o)'
  BY <1>1, <1>2 DEF Basics, Copied
<1> QED
  BY <1>1, <1>2, <1>3 DEF ThreadInv, Reading, Inserting, Updating, Deleting

(* After an update all that was read before is older, and no other updater *)
(* or deleter is beyond its access to the row.                             *)
LEMMA UpdateCommitted ==
    ASSUME Inv, NEW t \in Threads, Commit(t), NEW o \in Threads \ {t},
           job[t].op \in {"update", "save"}
    PROVE  ThreadInv(o)'
<1>1. /\ job'[o] = job[o] /\ written'[o] = written[o] /\ snapshot'[o] = snapshot[o]
      /\ copy'[o] = copy[o] /\ committed' = Latest(t) /\ LastStep(o)' = LastStep(o)
      /\ job[t].op # "none" /\ job[t].step > LastStep(t)
      /\ born' = (born \/ job[t].op = "insert")
  BY CommitFrame DEF Commit, LastStep
<1>2. /\ committed[TheRow] \in RowType /\ committed'[TheRow] \in RowType
      /\ committed'[TheRow].version = committed[TheRow].version + 1
      /\ TheRow \in DOMAIN written[t] /\ born /\ born'
  BY <1>1, Written
<1>3. committed[TheRow] # None /\ committed[TheRow].version \in Nat
  BY <1>2, EntityAssumption DEF RowType
<1>4. /\ ThreadInv(o) /\ TheRow \notin DOMAIN written[o] /\ IsData(snapshot[o])
      /\ copy[o] \in ObjectType \cup {None} /\ job[o] \in JobType
  BY <1>2 DEF Inv, Locks, TypeInv
<1>5. Basics(o)'
  <2>1. ASSUME Older(snapshot[o], committed) PROVE Older(snapshot[o], committed')
    BY <1>2, <1>3, <1>4, <2>1 DEF Older, IsData, RowType
  <2> QED
    BY <1>1, <1>2, <1>4, <2>1 DEF ThreadInv, Basics
<1>6. ASSUME NEW x \in ObjectType, NEW k \in Nat, TrueSoFar(x, k, committed)
      PROVE  TrueSoFar(x, k, committed')
  <2>1. x.version \in Nat /\ x.version <= committed[TheRow].version
    BY <1>3, <1>6 DEF TrueSoFar, ObjectType
  <2> QED
    BY <1>2, <1>3, <2>1 DEF TrueSoFar
<1>7. Copied(o)'
  <2>1. copy[o] # None => TrueSoFar(copy[o], 3, committed)
    BY <1>4 DEF ThreadInv, Copied
  <2>2. copy[o] # None => TrueSoFar(copy[o], 3, committed')
    BY <1>4, <1>6, <2>1
  <2> QED
    BY <1>1, <1>2, <2>2 DEF Copied
<1>8. Reading(o)'
  <2>1. job[o].step \in Nat /\ job[o].object \in ObjectType \cup {None}
    BY <1>4 DEF JobType
  <2>2. ASSUME job[o].step > 1, job[o].object # None, TrueSoFar(job[o].object, job[o].step - 1, committed)
        PROVE  TrueSoFar(job[o].object, job[o].step - 1, committed')
    <3>1. job[o].step - 1 \in Nat /\ job[o].object \in ObjectType
      BY <2>1, <2>2
    <3> QED
      BY <1>6, <2>2, <3>1
  <2> QED
    BY <1>1, <1>4, <2>2 DEF ThreadInv, Reading
<1>9. Inserting(o)'
  BY <1>1, <1>2, <1>4 DEF ThreadInv, Basics, Inserting
<1>10. Updating(o)'
  <2>1. job[o].op \in {"update", "save"} => job[o].step = 1
    BY <1>4 DEF ThreadInv, Updating, JobType
  <2> QED
    BY <1>1, <1>4, <2>1 DEF ThreadInv, Updating
<1>11. Deleting(o)'
  <2>1. job[o].op = "delete" => ~(job[o].step > 7)
    BY <1>3, <1>4, DistinctRows DEF ThreadInv, Deleting
  <2> QED
    BY <1>1, <1>4, <2>1 DEF ThreadInv, Deleting
<1> QED
  BY <1>5, <1>7, <1>8, <1>9, <1>10, <1>11 DEF ThreadInv

(* After a deletion nothing is left that something could differ from.      *)
LEMMA DeleteCommitted ==
    ASSUME Inv, NEW t \in Threads, Commit(t), NEW o \in Threads \ {t}, job[t].op = "delete"
    PROVE  ThreadInv(o)'
<1>1. /\ job'[o] = job[o] /\ written'[o] = written[o] /\ snapshot'[o] = snapshot[o]
      /\ copy'[o] = copy[o] /\ committed' = Latest(t) /\ LastStep(o)' = LastStep(o)
      /\ job[t].op # "none" /\ job[t].step > LastStep(t)
      /\ born' = (born \/ job[t].op = "insert")
  BY CommitFrame DEF Commit, LastStep
<1>2. /\ \A r \in Rows : committed'[r] = None
      /\ TheRow \in DOMAIN written[t] \/ committed[TheRow] = None
      /\ born /\ born'
  BY <1>1, Written
<1>3. committed'[TheRow] = None
  BY <1>2, DistinctRows
<1>4. ThreadInv(o) /\ DOMAIN written[t] \cap DOMAIN written[o] = {}
  BY DEF Inv, Locks
<1>5. Basics(o)' /\ Copied(o)'
  BY <1>1, <1>2, <1>3, <1>4 DEF ThreadInv, Basics, Copied, Older, TrueSoFar
<1>6. Reading(o)' /\ Inserting(o)'
  BY <1>1, <1>2, <1>3, <1>4 DEF ThreadInv, Basics, Reading, Inserting, TrueSoFar
<1>7. Updating(o)'
  <2>1. job[o].op \in {"update", "save"} => ~(job[o].step > 1) /\ job[o].step \in Nat
    BY <1>2, <1>4 DEF ThreadInv, Updating, Inv, TypeInv, JobType
  <2> QED
    BY <1>1, <1>4, <2>1 DEF ThreadInv, Updating
<1>8. Deleting(o)'
  <2>1. \A r \in Rows : Latest(o)'[r] = IF r \in DOMAIN written[o] THEN written[o][r] ELSE None
    BY <1>1, <1>2 DEF Latest, Over
  <2> QED
    BY <1>1, <1>2, <1>4, <2>1 DEF ThreadInv, Deleting
<1> QED
  BY <1>5, <1>6, <1>7, <1>8 DEF ThreadInv

LEMMA CommitKeeps == ASSUME Inv, NEW t \in Threads, Commit(t) PROVE Inv'
<1>1. /\ committed' = Latest(t) /\ born' = (born \/ job[t].op = "insert")
      /\ job'[t] = Idle /\ written'[t] = NoWrites /\ snapshot'[t] = Nothing
      /\ copy'[t] = IF job[t].op \in {"read", "save"} THEN job[t].object ELSE copy[t]
      /\ \A o \in Threads \ {t} :
            /\ job'[o] = job[o] /\ written'[o] = written[o]
            /\ snapshot'[o] = snapshot[o] /\ copy'[o] = copy[o]
      /\ TypeInv' /\ Locks'
  BY CommitFrame
<1>2. /\ job[t].op \in {"read", "insert", "update", "save", "delete"}
      /\ job[t].step > LastStep(t) /\ job[t].step \in Nat /\ TypeInv
      /\ job[t].object \in ObjectType \cup {None}
  BY DEF Commit, Inv, TypeInv, JobType
<1>3. ASSUME NEW o \in Threads \ {t} PROVE ThreadInv(o)'
  <2>1. CASE job[t].op = "read"
    <3>1. committed' = committed /\ born' = born
      BY <1>1, <1>2, <2>1, Written DEF TypeInv
    <3> QED
      BY <1>1, <3>1, OthersKeep DEF Inv
  <2> QED
    BY <1>2, <2>1, InsertCommitted, UpdateCommitted, DeleteCommitted
<1>4. Shared'
  <2>1. Whole(committed')
    <3>1. CASE job[t].op = "read"
      BY <1>1, <1>2, <3>1, Written DEF Inv, Shared
    <3>2. CASE job[t].op \in {"insert", "update", "save"}
      BY <1>1, <1>2, <3>2, Written DEF Whole, Dense
    <3>3. CASE job[t].op = "delete"
      <4>1. \A r \in Rows : committed'[r] = None
        BY <1>1, <1>2, <3>3, Written
      <4>2. committed' = Nothing
        BY <1>1, <4>1 DEF TypeInv, IsData, Nothing
      <4>3. Filled(committed', 0) /\ 0 \in 0 .. MaxLength
        BY <4>1, DistinctRows, EntityAssumption DEF Filled, Positions
      <4> QED
        BY <4>2, <4>3 DEF Whole, Dense
    <3> QED
      BY <1>2, <3>1, <3>2, <3>3
  <2>2. ~born' => committed' = Nothing
    <3>1. job[t].op # "read" => born'
      BY <1>1, <1>2, Written
    <3>2. job[t].op = "read" => committed' = committed /\ born' = born
      BY <1>1, <1>2, Written DEF TypeInv
    <3> QED
      BY <3>1, <3>2 DEF Inv, Shared
  <2>3. \A x, y \in Threads : job'[x].op = "insert" /\ job'[y].op = "insert" => x = y
    BY <1>1, IdleFacts DEF Inv, Shared
  <2> QED
    BY <2>1, <2>2, <2>3 DEF Shared
<1>5. Copied(t)'
  <2>1. CASE job[t].op = "read"
    <3>1. committed' = committed /\ born' = born /\ born /\ Reading(t) /\ Basics(t) /\ LastStep(t) = 3
      BY <1>1, <1>2, <2>1, Written, Places DEF Inv, ThreadInv, Basics, TypeInv
    <3>2. job[t].step = 4
      BY <1>2, <3>1 DEF Basics
    <3>3. job[t].step - 1 = 3
      BY <3>2
    <3>4. job[t].object # None => TrueSoFar(job[t].object, 3, committed)
      BY <2>1, <3>1, <3>2, <3>3 DEF Reading
    <3> QED
      BY <1>1, <2>1, <3>1, <3>4 DEF Copied, TrueSoFar
  <2>2. CASE job[t].op = "save"
    <3>1. /\ job[t].object.version = committed'[TheRow].version /\ born'
          /\ job[t].object.content = Content(committed')
          /\ committed'[TheRow] \in RowType
      BY <1>1, <1>2, <2>2, Written
    <3>2. committed'[TheRow].version \in Nat
      BY <3>1 DEF RowType
    <3>3. /\ job[t].object.content.value = committed'[TheRow].value
          /\ job[t].object.content.part = committed'[ThePart]
          /\ job[t].object.content.list = ListIn(committed')
      BY <3>1 DEF Content
    <3> QED
      BY <1>1, <2>2, <3>1, <3>2, <3>3 DEF TrueSoFar, Copied
  <2>3. CASE job[t].op = "update"
    <3>1. /\ copy[t] \in ObjectType /\ committed'[TheRow].version = copy[t].version + 1 /\ born'
      BY <1>1, <1>2, <2>3, Written
    <3>2. copy[t].version \in Nat
      BY <3>1 DEF ObjectType
    <3> QED
      BY <1>1, <2>3, <3>1, <3>2 DEF TrueSoFar, Copied
  <2>4. CASE job[t].op = "insert"
    <3>1. ~born /\ Copied(t)
      BY <1>2, <2>4, Written DEF Inv, ThreadInv
    <3> QED
      BY <1>1, <2>4, <3>1 DEF Copied
  <2>5. CASE job[t].op = "delete"
    <3>1. born' /\ committed'[TheRow] = None
      BY <1>1, <1>2, <2>5, Written, DistinctRows
    <3> QED
      BY <3>1 DEF Copied, TrueSoFar
  <2> QED
    BY <1>2, <2>1, <2>2, <2>3, <2>4, <2>5
<1>6. ThreadInv(t)'
  <2>1. Basics(t)'
    BY <1>1, IdleFacts DEF Basics, LastStep, Steps
  <2>2. Reading(t)' /\ Inserting(t)' /\ Updating(t)' /\ Deleting(t)'
    BY <1>1, IdleFacts DEF Reading, Inserting, Updating, Deleting
  <2> QED
    BY <1>5, <2>1, <2>2 DEF ThreadInv
<1> QED
  BY <1>1, <1>3, <1>4, <1>6 DEF Inv

-----------------------------------------------------------------------------
(* The invariant *)

LEMMA InitInv == ASSUME Init PROVE Inv
<1>1. IsData(Nothing) /\ IsWrites(NoWrites) /\ Idle \in JobType
  BY IdleFacts
<1>2. TypeInv
  BY <1>1 DEF Init, TypeInv
<1>3. Locks
  BY IdleFacts DEF Init, Locks
<1>4. Shared
  <2>1. Filled(Nothing, 0) /\ 0 \in 0 .. MaxLength
    BY DistinctRows, EntityAssumption DEF Filled, Positions, Nothing
  <2> QED
    BY <2>1, IdleFacts DEF Init, Shared, Whole, Dense
<1>5. ASSUME NEW t \in Threads PROVE ThreadInv(t)
  <2>1. job[t] = Idle /\ written[t] = NoWrites /\ copy[t] = None
    BY DEF Init
  <2>2. Basics(t) /\ Copied(t)
    BY <2>1, IdleFacts DEF Basics, Copied, LastStep, Steps
  <2> QED
    BY <2>1, <2>2, IdleFacts DEF ThreadInv, Reading, Inserting, Updating, Deleting
<1> QED
  BY <1>2, <1>3, <1>4, <1>5 DEF Inv

LEMMA NextInv == ASSUME Inv, [Next]_vars PROVE Inv'
<1>1. CASE UNCHANGED vars
  BY <1>1 DEF vars, Inv, TypeInv, Locks, Shared, ThreadInv, Basics, Copied, Reading, Inserting,
              Updating, Deleting, Latest, LastStep
<1>2. ASSUME NEW t \in Threads, NEW isolated \in BOOLEAN, BeginInsert(t, isolated) PROVE Inv'
  <2>1. PICK c \in Contents : Begin(t, "insert", isolated, c)
    BY <1>2 DEF BeginInsert
  <2> QED
    BY <1>2, <2>1, BeginKeeps DEF BeginInsert
<1>3. ASSUME NEW t \in Threads, NEW isolated \in BOOLEAN, BeginUpdate(t, isolated) PROVE Inv'
  <2>1. PICK c \in Contents, op \in {"update", "save"} : Begin(t, op, isolated, c)
    BY <1>3 DEF BeginUpdate
  <2> QED
    BY <1>3, <2>1, BeginKeeps DEF BeginUpdate
<1>4. ASSUME NEW t \in Threads, NEW isolated \in BOOLEAN, BeginOther(t, isolated) PROVE Inv'
  <2>1. PICK op \in {"read", "delete"} : Begin(t, op, isolated, NoContent)
    BY <1>4 DEF BeginOther
  <2> QED
    BY <1>4, <2>1, BeginKeeps DEF BeginOther
<1>5. ASSUME NEW t \in Threads, Fail(t) PROVE Inv'
  BY <1>5, RollbackKeeps DEF Fail
<1> QED
  BY <1>1, <1>2, <1>3, <1>4, <1>5,
     InsertRowKeeps, InsertPartKeeps, AddListKeeps, UpdateRowKeeps, FindPartKeeps,
     StorePartKeeps, GetListKeeps, ReplaceListKeeps, SelectRowKeeps, SelectPartKeeps,
     SelectListKeeps, DeletePartKeeps, DeleteRowKeeps, CommitKeeps DEF Next

LEMMA Invariant == Spec => []Inv
  BY InitInv, NextInv, PTL DEF Spec

-----------------------------------------------------------------------------
(* What follows *)

(* Rows, transactions and copies have their types: a row is None or has a  *)
(* version and a value, the place of a transaction is within its           *)
(* statements, and lists are never longer than MaxLength.                  *)
THEOREM TypeCorrect == Spec => []TypeOK
<1>1. ASSUME Inv PROVE TypeOK
  <2>1. TypeInv /\ \A t \in Threads : Basics(t)
    BY <1>1 DEF Inv, ThreadInv
  <2>2. DOMAIN committed = Rows
    BY <2>1 DEF TypeInv, IsData
  <2>3. DOMAIN Steps = {"none", "read", "insert", "update", "save", "delete"}
    BY DEF Steps
  <2>4. ASSUME NEW t \in Threads
        PROVE  /\ job[t].op \in DOMAIN Steps /\ job[t].step \in 1 .. LastStep(t) + 1
               /\ job[t].position \in 0 .. MaxLength /\ job[t].size \in 0 .. MaxLength
    <3>1. job[t] \in JobType /\ job[t].step <= LastStep(t) + 1 /\ LastStep(t) \in Nat
      BY <2>1, Places DEF TypeInv, Basics, JobType
    <3> QED
      BY <2>3, <3>1 DEF JobType
  <2>5. ASSUME NEW t \in Threads, copy[t] # None PROVE copy[t].version \in Nat
    <3>1. copy[t] \in ObjectType
      BY <2>1, <2>5 DEF TypeInv
    <3> QED
      BY <3>1 DEF ObjectType
  <2> QED
    BY <2>1, <2>2, <2>4, <2>5 DEF TypeOK, TypeInv, IsData, IsWrites
<1> QED
  BY <1>1, Invariant, PTL

(* Whatever transactions interleave, and wherever they fail: the list that *)
(* is committed has no gap, and nothing is left of a deleted entity.       *)
THEOREM StaysWhole == Spec => []StoredWhole
<1>1. ASSUME Inv PROVE StoredWhole
  <2>1. Whole(committed)
    BY <1>1 DEF Inv, Shared
  <2>2. PICK n \in 0 .. MaxLength : Filled(committed, n)
    BY <2>1 DEF Whole, Dense
  <2> QED
    BY <2>1, <2>2, EntityAssumption DEF StoredWhole, Filled, Whole, Positions
<1> QED
  BY <1>1, Invariant, PTL

(* An object with the version of the row is the entity.                    *)
LEMMA SameVersion ==
    ASSUME NEW x \in ObjectType, TrueSoFar(x, 3, committed), committed[TheRow] # None,
           x.version = committed[TheRow].version
    PROVE  x = Entity
<1>1. x = [version |-> x.version, content |-> x.content] /\ x.content \in ContentType
  BY DEF ObjectType
<1>2. x.content = [value |-> x.content.value, part |-> x.content.part, list |-> x.content.list]
  BY <1>1 DEF ContentType
<1>3. /\ x.content.value = committed[TheRow].value
      /\ x.content.part = committed[ThePart]
      /\ x.content.list = ListIn(committed)
  BY DEF TrueSoFar
<1>4. x.content = Content(committed)
  BY <1>2, <1>3 DEF Content
<1> QED
  BY <1>1, <1>4 DEF Entity, Versioned

(* An entity is an object.                                                 *)
LEMMA WholeObject ==
    ASSUME NEW d, IsData(d), Dense(d), d[TheRow] # None
    PROVE  /\ Versioned(d[TheRow].version, Content(d)) \in ObjectType
           /\ Versioned(d[TheRow].version, Content(d)) # None
           /\ Versioned(d[TheRow].version, Content(d)).version = d[TheRow].version
           /\ Versioned(d[TheRow].version, Content(d)).content = Content(d)
<1>1. d[TheRow].version \in Nat /\ d[TheRow].value \in Values
  BY DEF IsData, RowType
<1>2. ListIn(d) \in Seq(Values)
  BY FilledList DEF IsData, Dense
<1>3. Content(d) \in ContentType
  BY <1>1, <1>2, DistinctRows DEF Content, ContentType, IsData
<1> QED
  BY <1>1, <1>3, EntityAssumption DEF Versioned, ObjectType

(* A copy, whenever it was read and whatever was being written meanwhile,  *)
(* is the entity if it has its version.                                    *)
THEOREM CopiesStayTrue == Spec => []CopiesAreTrue
<1>1. ASSUME Inv PROVE CopiesAreTrue
  <2>1. SUFFICES ASSUME NEW t \in Threads, copy[t] # None, Entity # None,
                        copy[t].version = Entity.version
                 PROVE  copy[t] = Entity
    BY DEF CopiesAreTrue
  <2>2. /\ copy[t] \in ObjectType /\ TrueSoFar(copy[t], 3, committed)
        /\ IsData(committed) /\ Dense(committed)
    BY <1>1, <2>1 DEF Inv, TypeInv, ThreadInv, Copied, Shared, Whole
  <2>3. committed[TheRow] # None
    BY <2>1 DEF Entity
  <2>4. Entity.version = committed[TheRow].version
    BY <2>2, <2>3, WholeObject DEF Entity
  <2> QED
    BY <2>1, <2>2, <2>3, <2>4, SameVersion
<1> QED
  BY <1>1, Invariant, PTL

(* After an insert, update or save the entity is the object that was given *)
(* to it: its row, its dependent object and its list.                      *)
THEOREM WhatIsGivenIsStored == Spec => StoresTheObject
<1> DEFINE A == \A t \in Threads :
                  job[t].op \in {"insert", "update", "save"} /\ Commit(t) => Entity'.content = job[t].new
<1>1. ASSUME Inv PROVE A
  <2>1. SUFFICES ASSUME NEW t \in Threads, job[t].op \in {"insert", "update", "save"}, Commit(t)
                 PROVE  Entity'.content = job[t].new
    OBVIOUS
  <2>2. /\ committed' = Latest(t) /\ job[t].op # "none" /\ job[t].step > LastStep(t)
        /\ IsData(committed')
    BY <1>1, <2>1, CommitFrame DEF Commit, TypeInv
  <2>3. /\ committed'[TheRow] # None /\ Content(committed') = job[t].new
        /\ Dense(committed')
    BY <1>1, <2>1, <2>2, Written DEF Dense
  <2> QED
    BY <2>2, <2>3, WholeObject DEF Entity
<1>2. Inv => [A]_vars
  BY <1>1
<1> QED
  BY <1>2, Invariant, PTL DEF StoresTheObject

-----------------------------------------------------------------------------
(* Refinement *)

LEMMA NoCommitStutters ==
    ASSUME UNCHANGED <<committed, born, copy>>
    PROVE  UNCHANGED <<Entity, born, copy>>
  BY DEF Entity, Content, ListIn

(* The commit of each transaction is an operation of the store.            *)
LEMMA CommitImplements ==
    ASSUME Inv, NEW t \in Threads, Commit(t)
    PROVE  [Store!Next]_<<Entity, born, copy>>
<1>1. /\ committed' = Latest(t) /\ born' = (born \/ job[t].op = "insert")
      /\ copy' = IF job[t].op \in {"read", "save"} THEN [copy EXCEPT ![t] = job[t].object] ELSE copy
      /\ job[t].op \in {"read", "insert", "update", "save", "delete"}
      /\ job[t].op # "none" /\ job[t].step > LastStep(t)
      /\ TypeInv /\ Dense(committed) /\ IsData(committed) /\ IsData(committed')
      /\ copy'[t] = IF job[t].op \in {"read", "save"} THEN job[t].object ELSE copy[t]
      /\ ThreadInv(t)
  BY CommitFrame DEF Commit, Inv, TypeInv, JobType, Shared, Whole
<1>2. CASE job[t].op = "insert"
  <2>1. /\ committed'[TheRow] # None /\ committed'[TheRow].version = 0 /\ ~born
        /\ Content(committed') = job[t].new /\ job[t].new \in Contents
    BY <1>1, <1>2, Written, Parameter
  <2>2. Entity' = Store!Versioned(0, job[t].new) /\ born' = TRUE /\ copy' = copy
    BY <1>1, <1>2, <2>1 DEF Entity, Versioned, Store!Versioned
  <2> QED
    BY <2>1, <2>2 DEF Store!Next, Store!Insert
<1>3. CASE job[t].op \in {"update", "save"}
  <2>1. /\ committed'[TheRow] \in RowType /\ committed'[TheRow] # None
        /\ Content(committed') = job[t].new /\ job[t].new \in Contents
        /\ committed[TheRow] \in RowType /\ committed[TheRow] # None
        /\ committed[TheRow].version = copy[t].version
        /\ committed'[TheRow].version = copy[t].version + 1
        /\ copy[t] \in ObjectType /\ copy[t] # None /\ born
    BY <1>1, <1>3, Written, Parameter, EntityAssumption
  <2>2. Entity # None /\ copy[t] = Entity
    BY <1>1, <2>1, SameVersion, WholeObject DEF Entity, ThreadInv, Copied
  <2>3. Entity' = Versioned(Entity.version + 1, job[t].new)
    BY <2>1, <2>2 DEF Entity
  <2>4. copy' \in {copy, [copy EXCEPT ![t] = Entity']}
    <3>1. CASE job[t].op = "save"
      <4>1. /\ job[t].object \in ObjectType
            /\ job[t].object.version = committed'[TheRow].version
            /\ job[t].object.content = Content(committed')
        BY <1>1, <3>1, Written
      <4>2. job[t].object = [version |-> job[t].object.version, content |-> job[t].object.content]
        BY <4>1 DEF ObjectType
      <4>3. job[t].object = Entity'
        BY <2>1, <4>1, <4>2 DEF Entity, Versioned
      <4> QED
        BY <1>1, <3>1, <4>3
    <3> QED
      BY <1>1, <1>3, <3>1
  <2> QED
    BY <1>1, <1>3, <2>1, <2>2, <2>3, <2>4 DEF Store!Next, Store!Update, Versioned, Store!Versioned
<1>4. CASE job[t].op = "read"
  <2>1. committed' = committed /\ born' = born /\ copy'[t] = job[t].object
    BY <1>1, <1>4, Written DEF TypeInv
  <2>2. Entity' = Entity
    BY <2>1 DEF Entity, Content, ListIn
  <2>3. job[t].step = 4 /\ job[t].object \in ObjectType \cup {None}
    BY <1>1, <1>4, Places DEF ThreadInv, Basics, TypeInv, JobType
  <2>4. job[t].object # None => TrueSoFar(job[t].object, 3, committed)
    <3>1. job[t].step - 1 = 3
      BY <2>3
    <3> QED
      BY <1>1, <1>4, <2>3, <3>1 DEF ThreadInv, Reading
  <2>5. job[t].object \in {Entity, None} \/ Store!Outdated(job[t].object)
    <3>1. CASE job[t].object # None /\ committed[TheRow] # None
      <4>1. /\ committed[TheRow].version \in Nat /\ job[t].object.version \in Nat
            /\ job[t].object.version <= committed[TheRow].version
        BY <1>1, <2>3, <2>4, <3>1 DEF IsData, RowType, ObjectType, TrueSoFar
      <4>2. Entity.version = committed[TheRow].version
        BY <1>1, <3>1, WholeObject DEF Entity
      <4>3. job[t].object.version = committed[TheRow].version => job[t].object = Entity
        BY <2>3, <2>4, <3>1, SameVersion
      <4> QED
        BY <4>1, <4>2, <4>3 DEF Store!Outdated
    <3>2. CASE committed[TheRow] = None
      BY <3>2 DEF Entity, Store!Outdated
    <3> QED
      BY <3>1, <3>2
  <2>6. Store!Read(t)
    BY <1>1, <1>4, <2>1, <2>2, <2>5 DEF Store!Read
  <2> QED
    BY <2>6 DEF Store!Next
<1>5. CASE job[t].op = "delete"
  <2>1. committed'[TheRow] = None /\ born
    BY <1>1, <1>5, Written, DistinctRows
  <2>2. Entity' = None
    BY <2>1 DEF Entity
  <2> QED
    BY <1>1, <1>5, <2>1, <2>2 DEF Store!Next, Store!Delete
<1> QED
  BY <1>1, <1>2, <1>3, <1>4, <1>5

(* Optimistic locking: the transactions of several statements, interleaved *)
(* and failing anywhere, are single steps of a versioned store, and who    *)
(* updates it has seen exactly what the update replaces.                   *)
THEOREM OptimisticLocking == Spec => ImplementsStore
<1>1. Init => Store!Init
  BY DistinctRows DEF Init, Store!Init, Entity, Nothing
<1>2. ASSUME Inv, [Next]_vars PROVE [Store!Next]_<<Entity, born, copy>>
  <2>1. CASE UNCHANGED vars
    BY <2>1, NoCommitStutters DEF vars
  <2>2. CASE Next
    <3>1. PICK t \in Threads : Commit(t) \/ UNCHANGED <<committed, born, copy>>
      BY <2>2 DEF Next, BeginInsert, BeginUpdate, BeginOther, Begin, InsertRow, InsertPart, AddList,
            UpdateRow, FindPart, StorePart, GetList, ReplaceList, SelectRow, SelectPart, SelectList,
            DeletePart, DeleteRow, Fail, Rollback, Query, Statement
    <3> QED
      BY <1>2, <3>1, CommitImplements, NoCommitStutters
  <2> QED
    BY <1>2, <2>1, <2>2
<1> QED
  BY <1>1, <1>2, Invariant, PTL DEF Spec, ImplementsStore, Store!Spec

=================================================================================
