------------------------------ MODULE CodeCache ------------------------------
(***************************************************************************)
(* The cache of code tables (Codes.DefaultCodeCache) between the readers   *)
(* of codes, the reading of rows in SqlRepository, which resolves the      *)
(* references to codes through the same cache, and the transactions that   *)
(* change codes and remove them from the cache.                            *)
(*                                                                         *)
(* The rows of a code class are abstracted to a version: the number of the *)
(* last write to the class they contain; a version contains the earlier    *)
(* committed ones.  At most MaxVersion writes are done to a class.         *)
(***************************************************************************)
EXTENDS Naturals, Sequences, FiniteSets

CONSTANTS
    Threads,
    Classes,      \* code classes
    NoThread,
    Items,        \* CodeCacheItem objects; the unreachable ones are reused
    NoItem,       \* Java's null
    Ref,          \* Ref[c]: the code classes the rows of c refer to; c itself
                  \*   if a row refers to a row of c that is read after it
    Kinds,        \* the kinds of transactions that run
    Isolations,   \* "current": the queries of a transaction see what is
                  \*   committed at their time (READ_COMMITTED, or locks);
                  \*   "snapshot": what was at its first statement, as many
                  \*   databases implement SERIALIZABLE, the default
    LoadMayFail,  \* may the query of a load throw?
    MaxVersion    \* bound on the writes to one class

(* "write": insert, update and save; "deleteEntity"; "deleteBy": delete by *)
(* criteria; "custom": a transaction of the application that inserts or    *)
(* updates codes; "read": any transaction that does not write.             *)
AllKinds == {"write", "deleteEntity", "deleteBy", "custom", "read"}

ASSUME CodeCacheAssumption ==
    /\ NoThread \notin Threads
    /\ NoItem \notin Items
    /\ Ref \in [Classes -> SUBSET Classes]
    /\ Kinds \subseteq AllKinds
    /\ Isolations \subseteq {"current", "snapshot"}
    /\ LoadMayFail \in BOOLEAN
    /\ MaxVersion \in Nat

VARIABLES
    committed,  \* committed[c]: the version of c the database has committed
    latest,     \* latest[c]: the version of the last write to c
    completed,  \* completed[c]: the version when the last Backend.execute
                \*   that wrote to c returned to its caller
    cache,      \* cache[c]: DefaultCodeCache.cache
    content,    \* content[i]: the codes in item i and its timestamp
    monitor,    \* monitor[c]: the thread in synchronized (clazz)
    frames,     \* frames[h]: the running getCacheItems calls, innermost first
    tx,         \* tx[h]: the transaction thread h is in
    known       \* known[c][v][d]: history; the version of d that was
                \*   completed when write v of c was done, which contains
                \*   the codes of d its rows may refer to

vars == <<committed, latest, completed, cache, content, monitor, frames, tx, known>>

Versions == 0 .. MaxVersion

Stamp == {"unset", "fresh", "old"}   \* timestamp: null, < 10 s ago, >= 10 s ago

(* queried (history): for codes read in the snapshot of a transaction, the *)
(* version that was committed when they were read.                         *)
Content == [stamp : Stamp, version : Versions, queried : Versions]

Empty == [stamp |-> "unset", version |-> 0, queried |-> 0]

Frame == [cl : Classes, item : Items \cup {NoItem},
          at : {"enter", "find", "rows", "leave"}, todo : SUBSET Classes,
          version : Versions, queried : Versions]

NoTx == [at |-> "none"]

(* version: the transaction's own write to cl, if not 0; snapshot: once it *)
(* is taken, what was committed at the first statement.                    *)
Tx == [at : {"begun", "written", "body", "committed"}, kind : Kinds,
       cl : Classes, version : Versions, isolation : Isolations,
       taken : BOOLEAN, snapshot : [Classes -> Versions]]

TypeOK ==
    /\ committed \in [Classes -> Versions]
    /\ latest \in [Classes -> Versions]
    /\ completed \in [Classes -> Versions]
    /\ cache \in [Classes -> Items \cup {NoItem}]
    /\ content \in [Items -> Content]
    /\ monitor \in [Classes -> Threads \cup {NoThread}]
    /\ frames \in [Threads -> Seq(Frame)]
    /\ \A h \in Threads : \A n \in 1 .. Len(frames[h]) :
          frames[h][n].at # "enter" => frames[h][n].item # NoItem
    /\ tx \in [Threads -> Tx \cup {NoTx}]
    /\ known \in [Classes -> [Versions -> [Classes -> Versions]]]

Init ==
    /\ committed = [c \in Classes |-> 0]
    /\ latest = [c \in Classes |-> 0]
    /\ completed = [c \in Classes |-> 0]
    /\ cache = [c \in Classes |-> NoItem]
    /\ content = [i \in Items |-> Empty]
    /\ monitor = [c \in Classes |-> NoThread]
    /\ frames = [h \in Threads |-> <<>>]
    /\ tx = [h \in Threads |-> NoTx]
    /\ known = [c \in Classes |-> [v \in Versions |-> [d \in Classes |-> 0]]]

Top(h) == Head(frames[h])

At(h, p) == frames[h] # <<>> /\ Top(h).at = p

-----------------------------------------------------------------------------
(* Codes.get, and readResultSetRow for a row that refers to a code.        *)
Call(c) == [cl |-> c, item |-> NoItem, at |-> "enter", todo |-> {},
            version |-> 0, queried |-> 0]

(* A thread asks for codes outside of a transaction or in the body of one. *)
Get(h, c) ==
    /\ frames[h] = <<>>
    /\ tx[h].at \in {"none", "begun", "body"}
    /\ frames' = [frames EXCEPT ![h] = <<Call(c)>>]
    /\ UNCHANGED <<committed, latest, completed, cache, content, monitor, tx, known>>

IsValid(i) == content[i].stamp # "old"

Reachable(i) ==
    \/ \E c \in Classes : cache[c] = i
    \/ \E h \in Threads : \E n \in 1 .. Len(frames[h]) : frames[h][n].item = i

(* Mutant: getCacheItems is not synchronized.                              *)
MonitorIsIgnored(h, c) == TRUE

MonitorFree(h, c) == monitor[c] \in {NoThread, h}

(* synchronized (clazz), then a valid item is taken from the cache or a    *)
(* new one put there before its codes are read.  Bound: there are at most  *)
(* as many items at a time as Items has.                                   *)
EnterMonitor(h) ==
    LET c == Top(h).cl
        i == cache[c]
    IN  /\ At(h, "enter")
        /\ MonitorFree(h, c)
        /\ monitor' = [monitor EXCEPT ![c] = h]
        /\ IF i # NoItem /\ IsValid(i)
           THEN /\ frames' = [frames EXCEPT ![h][1] = [@ EXCEPT !.item = i, !.at = "leave"]]
                /\ UNCHANGED <<cache, content>>
           ELSE LET new == CHOOSE j \in Items : ~Reachable(j)
                IN  /\ \E j \in Items : ~Reachable(j)
                    /\ cache' = [cache EXCEPT ![c] = new]
                    /\ content' = [content EXCEPT ![new] = Empty]
                    /\ frames' = [frames EXCEPT ![h][1] =
                                        [@ EXCEPT !.item = new, !.at = "find"]]
        /\ UNCHANGED <<committed, latest, completed, tx, known>>

(* Thread h is in a transaction that reads from a snapshot.                *)
InSnapshot(h) == tx[h].at # "none" /\ tx[h].isolation = "snapshot"

(* The first statement of such a transaction takes the snapshot.           *)
TakeSnapshot(h) ==
    IF InSnapshot(h) /\ ~tx[h].taken
    THEN [tx EXCEPT ![h] = [@ EXCEPT !.taken = TRUE, !.snapshot = committed]]
    ELSE tx

(* What a query of thread h finds: what others have committed, and its own *)
(* uncommitted write.  That makes a version which contains the earlier     *)
(* ones only if none was committed since the snapshot.  Outside of a       *)
(* transaction ReadCodesTransaction runs in one of its own, without        *)
(* isolation; inside it is executed in the current one.                    *)
Seen(h, c) ==
    LET others == IF InSnapshot(h) /\ tx[h].taken THEN tx[h].snapshot[c] ELSE committed[c]
        wrote == tx[h].at # "none" /\ tx[h].cl = c /\ tx[h].version > 0
    IN  IF wrote /\ others = committed[c] THEN tx[h].version ELSE others

(* The query of find(clazz, By.ALL).                                       *)
Find(h) ==
    LET c == Top(h).cl
    IN  /\ At(h, "find")
        /\ frames' = [frames EXCEPT ![h][1] =
                [@ EXCEPT !.version = Seen(h, c),
                          !.queried = IF InSnapshot(h) THEN committed[c] ELSE 0,
                          !.todo = Ref[c], !.at = "rows"]]
        /\ tx' = TakeSnapshot(h)
        /\ UNCHANGED <<committed, latest, completed, cache, content, monitor, known>>

(* readResultSetRow / loadReference: a referenced code (or the code that a *)
(* view is made of) is taken from the cache.                               *)
ResolveReference(h, d) ==
    /\ At(h, "rows")
    /\ d \in Top(h).todo
    /\ frames' = [frames EXCEPT ![h] = <<Call(d), [Top(h) EXCEPT !.todo = Top(h).todo \ {d}]>>
                                        \o Tail(frames[h])]
    /\ UNCHANGED <<committed, latest, completed, cache, content, monitor, tx, known>>

(* Mutant: the item is put into the cache (again) when it is loaded.       *)
PutAfterLoad(h) ==
    /\ At(h, "rows")
    /\ Top(h).todo = {}
    /\ content' = [content EXCEPT ![Top(h).item] =
            [stamp |-> "fresh", version |-> Top(h).version, queried |-> Top(h).queried]]
    /\ cache' = [cache EXCEPT ![Top(h).cl] = Top(h).item]
    /\ frames' = [frames EXCEPT ![h][1].at = "leave"]
    /\ UNCHANGED <<committed, latest, completed, monitor, tx, known>>

(* Mutant: what is returned is looked up in the cache once more.           *)
ReturnFromCache(h) ==
    /\ At(h, "rows")
    /\ Top(h).todo = {}
    /\ content' = [content EXCEPT ![Top(h).item] =
            [stamp |-> "fresh", version |-> Top(h).version, queried |-> Top(h).queried]]
    /\ frames' = [frames EXCEPT ![h][1].at = "leave", ![h][1].item = cache[Top(h).cl]]
    /\ UNCHANGED <<committed, latest, completed, cache, monitor, tx, known>>

(* All references are resolved: setCodes, which also sets the timestamp.   *)
SetCodes(h) ==
    /\ At(h, "rows")
    /\ Top(h).todo = {}
    /\ content' = [content EXCEPT ![Top(h).item] =
            [stamp |-> "fresh", version |-> Top(h).version, queried |-> Top(h).queried]]
    /\ frames' = [frames EXCEPT ![h][1] = [@ EXCEPT !.at = "leave"]]
    /\ UNCHANGED <<committed, latest, completed, cache, monitor, tx, known>>

(* A query fails: the exception leaves all running getCacheItems calls.    *)
LoadFails(h) ==
    /\ LoadMayFail
    /\ At(h, "find")
    /\ frames' = [frames EXCEPT ![h] = <<>>]
    /\ monitor' = [c \in Classes |-> IF monitor[c] = h THEN NoThread ELSE monitor[c]]
    /\ UNCHANGED <<committed, latest, completed, cache, content, tx, known>>

(* Mutant: the monitors are kept until the outermost call returns.         *)
LeaveKeepsMonitor(h) ==
    LET outer == Tail(frames[h])
    IN  /\ At(h, "leave")
        /\ monitor' = IF outer # <<>> THEN monitor
                      ELSE [c \in Classes |-> IF monitor[c] = h THEN NoThread ELSE monitor[c]]
        /\ frames' = [frames EXCEPT ![h] = outer]
        /\ UNCHANGED <<committed, latest, completed, cache, content, tx, known>>

(* End of synchronized (the monitor is free when its outermost block is    *)
(* left); the caller goes on with getCodes or, for a reference, getCode of *)
(* the item, which yields null for a code it does not contain.             *)
Leave(h) ==
    LET f == Top(h)
        outer == Tail(frames[h])
        kept == \E n \in 1 .. Len(outer) : outer[n].cl = f.cl
    IN  /\ At(h, "leave")
        /\ monitor' = [monitor EXCEPT ![f.cl] = IF kept THEN h ELSE NoThread]
        /\ frames' = [frames EXCEPT ![h] = outer]
        /\ UNCHANGED <<committed, latest, completed, cache, content, tx, known>>

(* Ten seconds pass for the item of class c.                               *)
Expire(c) ==
    /\ cache[c] # NoItem
    /\ content[cache[c]].stamp = "fresh"
    /\ content' = [content EXCEPT ![cache[c]].stamp = "old"]
    /\ UNCHANGED <<committed, latest, completed, cache, monitor, frames, tx, known>>

-----------------------------------------------------------------------------
InvalidateCodeCache(c) == cache' = [cache EXCEPT ![c] = NoItem]

(* Backend.execute for a transaction of kind k about class c.              *)
BeginTransaction(h, k, c) ==
    /\ tx[h] = NoTx /\ frames[h] = <<>>
    /\ \E level \in Isolations :
          tx' = [tx EXCEPT ![h] = [at |-> "begun", kind |-> k, cl |-> c, version |-> 0,
                                   isolation |-> level, taken |-> FALSE,
                                   snapshot |-> [d \in Classes |-> 0]]]
    /\ UNCHANGED <<committed, latest, completed, cache, content, monitor, frames, known>>

(* Any statement about something else than codes.                          *)
OtherStatement(h) ==
    /\ tx[h].at = "begun" /\ frames[h] = <<>>
    /\ tx' = TakeSnapshot(h)
    /\ UNCHANGED <<committed, latest, completed, cache, content, monitor, frames, known>>

(* The statement that changes the codes; the database makes a second       *)
(* writer of the same rows wait until the first has ended.  (A write that  *)
(* conflicts with the snapshot fails instead, which is Rollback.)          *)
WriteCodes(h) ==
    LET c == tx[h].cl
    IN  /\ tx[h].at = "begun" /\ frames[h] = <<>>
        /\ tx[h].kind # "read"
        /\ latest[c] < MaxVersion
        /\ \A g \in Threads \ {h} :
              tx[g].at \in {"written", "body"} => tx[g].cl # c \/ tx[g].version = 0
        /\ latest' = [latest EXCEPT ![c] = @ + 1]
        /\ tx' = [TakeSnapshot(h) EXCEPT ![h].version = latest[c] + 1, ![h].at = "written"]
        /\ known' = [known EXCEPT ![c][latest[c] + 1] = completed]
        /\ UNCHANGED <<committed, completed, cache, content, monitor, frames>>

(* Table.insert and Table.updateWithId invalidate after the statement;     *)
(* Table.delete does not.                                                  *)
InvalidateInTable(h) ==
    /\ tx[h].at = "written" /\ frames[h] = <<>>
    /\ IF tx[h].kind \in {"write", "custom"} THEN InvalidateCodeCache(tx[h].cl)
                                             ELSE UNCHANGED cache
    /\ tx' = [tx EXCEPT ![h].at = "body"]
    /\ UNCHANGED <<committed, latest, completed, content, monitor, frames, known>>

(* The JDBC transaction ends; the call of doExecute goes on with           *)
(* handleCodeCache only if it has committed.                               *)
Commit(h) ==
    LET t == tx[h]
    IN  /\ t.at = "body" \/ (t.at = "begun" /\ t.kind = "read")
        /\ frames[h] = <<>>
        /\ committed' = IF t.version > 0 THEN [committed EXCEPT ![t.cl] = t.version]
                                         ELSE committed
        /\ tx' = [tx EXCEPT ![h].at = "committed"]
        /\ UNCHANGED <<latest, completed, cache, content, monitor, frames, known>>

Rollback(h) ==
    /\ tx[h].at \in {"begun", "written", "body"} /\ frames[h] = <<>>
    /\ tx' = [tx EXCEPT ![h] = NoTx]
    /\ UNCHANGED <<committed, latest, completed, cache, content, monitor, frames, known>>

(* Mutant: the cache is invalidated in Table only, before the commit.      *)
HandleWithoutInvalidation(h) ==
    /\ tx[h].at = "committed"
    /\ completed' = IF tx[h].version > completed[tx[h].cl]
                    THEN [completed EXCEPT ![tx[h].cl] = tx[h].version]
                    ELSE completed
    /\ tx' = [tx EXCEPT ![h] = NoTx]
    /\ UNCHANGED <<committed, latest, cache, content, monitor, frames, known>>

(* handleCodeCache after the commit, and the return of doExecute: from now *)
(* on the caller knows that its version is written.                        *)
HandleCodeCache(h) ==
    /\ tx[h].at = "committed"
    /\ IF tx[h].kind \in {"write", "deleteEntity"} THEN InvalidateCodeCache(tx[h].cl)
                                                   ELSE UNCHANGED cache
    /\ completed' = IF tx[h].version > completed[tx[h].cl]
                    THEN [completed EXCEPT ![tx[h].cl] = tx[h].version]
                    ELSE completed
    /\ tx' = [tx EXCEPT ![h] = NoTx]
    /\ UNCHANGED <<committed, latest, content, monitor, frames, known>>

-----------------------------------------------------------------------------
Next ==
    \/ \E h \in Threads :
          \/ EnterMonitor(h) \/ Find(h) \/ SetCodes(h) \/ LoadFails(h) \/ Leave(h)
          \/ OtherStatement(h) \/ WriteCodes(h) \/ InvalidateInTable(h)
          \/ Commit(h) \/ Rollback(h) \/ HandleCodeCache(h)
          \/ \E c \in Classes :
                \/ Get(h, c)
                \/ ResolveReference(h, c)
                \/ \E k \in Kinds : BeginTransaction(h, k, c)
    \/ \E c \in Classes : Expire(c)

Spec == Init /\ [][Next]_vars

-----------------------------------------------------------------------------
(* The codes in item i contain write v of their class, or a transaction    *)
(* read them after its commit, in a snapshot of its own that is older.     *)
ReadAfter(i, v) == content[i].version >= v \/ content[i].queried >= v

(* When Backend.execute has returned from a transaction that changed codes *)
(* of a class, the cache holds nothing that was read before: not an item   *)
(* that was there, nor one whose query ran while the transaction did       *)
(* ("Codes: clear cache when write a code", release_notes.adoc).           *)
NothingCachedFromBeforeWrite ==
    \A c \in Classes : cache[c] # NoItem =>
        content[cache[c]].stamp = "unset" \/ ReadAfter(cache[c], completed[c])

(* getCacheItems returns an item whose codes are not set (for Codes.get:   *)
(* an empty code table) only to the thread that is just loading it.        *)
OnlyLoaderSeesUnloaded ==
    \A h \in Threads : At(h, "leave") /\ content[Top(h).item].stamp = "unset" =>
        \E n \in 2 .. Len(frames[h]) : frames[h][n].item = Top(h).item

(* A reference that is resolved through the cache is not lost: if the code *)
(* it refers to was written before the referring row, by a call of         *)
(* Backend.execute that had returned, then the item in which getCode looks *)
(* for it has its codes and was not read before that code was there.       *)
ReferencesResolved ==
    \A h \in Threads : At(h, "leave") /\ Len(frames[h]) > 1 =>
        LET row == frames[h][2]
        IN  /\ content[Top(h).item].stamp # "unset"
            /\ ReadAfter(Top(h).item, known[row.cl][row.version][Top(h).cl])

Waiting(h) == At(h, "enter") /\ ~MonitorFree(h, Top(h).cl)

(* The monitors of the code classes are never waited for in a circle,      *)
(* however the loads of classes that refer to each other interleave.       *)
NoMonitorDeadlock ==
    \A S \in (SUBSET Threads) \ {{}} :
        \E h \in S : Waiting(h) => monitor[Top(h).cl] \notin S

=============================================================================
