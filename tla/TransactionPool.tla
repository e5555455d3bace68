--------------------------- MODULE TransactionPool ---------------------------
(***************************************************************************)
(* Backend.doExecute on top of the connection handling of SqlRepository:   *)
(* every Transaction runs on a connection of its own, taken from a pool of *)
(* idle connections (connectionDeque) or opened at the database.  The      *)
(* connections a thread's nested transactions use form a stack kept in a   *)
(* ThreadLocal; SQL statements always go to the top of that stack.         *)
(*                                                                         *)
(* A transaction object is used once.  What its execute() does is left     *)
(* open: it writes up to MaxWrites times, runs nested transactions (whose  *)
(* exceptions it may catch), and then returns or throws.  The database     *)
(* may refuse a connection beyond MaxConnections, drop connections (at     *)
(* most MaxBreaks) and, if CommitMayFail, answer a commit with an error.   *)
(***************************************************************************)
EXTENDS Naturals, Sequences, FiniteSets

CONSTANTS
    Threads,         \* threads calling Backend.execute
    Transactions,    \* transaction objects, one use each
    Unisolated,      \* those annotated @Isolation(Level.NONE)
    Connections,     \* connection objects that may ever be opened
    NoConnection,    \* Java's null
    MaxConnections,  \* connections the database has open at a time
    MaxDepth,        \* bound on the nesting of transactions
    MaxWrites,       \* bound on the writes of one transaction
    MaxBreaks,       \* bound on the connections the database drops
    CommitMayFail    \* may Connection.commit throw on a live connection?

ASSUME ConstantsAssumption ==
    /\ Unisolated \subseteq Transactions
    /\ NoConnection \notin Connections
    /\ IsFiniteSet(Connections)
    /\ MaxConnections \in Nat /\ MaxDepth \in Nat
    /\ MaxWrites \in Nat /\ MaxBreaks \in Nat
    /\ CommitMayFail \in BOOLEAN

VARIABLES
    deque,      \* SqlRepository.connectionDeque, first element first
    opened,     \* SqlRepository.connections: every connection ever opened
    stack,      \* stack[h]: threadLocalTransactionConnection of thread h, top first
    calls,      \* calls[h]: the nested Backend.doExecute calls of h, innermost first
    phase,      \* phase[t]: where the call for transaction t is
    conn,       \* conn[t]: the connection startTransaction has for t
    commit,     \* commit[t]: the flag `commit' of doExecute
    outcome,    \* outcome[t]: how doExecute(t, repository) ended
    manual,     \* the connections whose auto-commit is off
    pending,    \* pending[c]: writes of connection c that are not committed
    written,    \* written[t]: the number of writes t has done
    durable,    \* the writes the database has made permanent
    broken      \* the connections the database has dropped

vars == <<deque, opened, stack, calls, phase, conn, commit, outcome, manual,
          pending, written, durable, broken>>

(* What belongs to the database, to the pool and to the calls.             *)
dbVars == <<manual, pending, written, durable, broken>>

Write == Transactions \X (1 .. MaxWrites)

Phase == {"none", "poll", "validate", "configure", "wait",
          "body", "finally", "release"}

TypeOK ==
    /\ deque \in Seq(Connections)
    /\ opened \in SUBSET Connections
    /\ stack \in [Threads -> Seq(Connections)]
    /\ calls \in [Threads -> Seq(Transactions)]
    /\ phase \in [Transactions -> Phase]
    /\ conn \in [Transactions -> Connections \cup {NoConnection}]
    /\ commit \in [Transactions -> BOOLEAN]
    /\ outcome \in [Transactions -> {"new", "running", "returned", "threw"}]
    /\ manual \in SUBSET Connections
    /\ pending \in [Connections -> SUBSET Write]
    /\ written \in [Transactions -> 0 .. MaxWrites]
    /\ durable \in SUBSET Write
    /\ broken \in SUBSET Connections

Init ==
    /\ deque = <<>>
    /\ opened = {}
    /\ stack = [h \in Threads |-> <<>>]
    /\ calls = [h \in Threads |-> <<>>]
    /\ phase = [t \in Transactions |-> "none"]
    /\ conn = [t \in Transactions |-> NoConnection]
    /\ commit = [t \in Transactions |-> FALSE]
    /\ outcome = [t \in Transactions |-> "new"]
    /\ manual = {}
    /\ pending = [c \in Connections |-> {}]
    /\ written = [t \in Transactions |-> 0]
    /\ durable = {}
    /\ broken = {}

Items(s) == {s[i] : i \in 1 .. Len(s)}

(* No element twice in s; in all sequences q[h] taken together; x in none. *)
Distinct(s) == \A i, j \in 1 .. Len(s) : s[i] = s[j] => i = j

AllDistinct(q) ==
    \A g, h \in Threads : \A i \in 1 .. Len(q[g]), j \in 1 .. Len(q[h]) :
        q[g][i] = q[h][j] => g = h /\ i = j

Absent(q, x) == \A h \in Threads : \A i \in 1 .. Len(q[h]) : q[h][i] # x

(* Thread h is in the call for t, at phase p.                              *)
At(h, t, p) == calls[h] # <<>> /\ Head(calls[h]) = t /\ phase[t] = p

GoTo(t, p) == phase' = [phase EXCEPT ![t] = p]

-----------------------------------------------------------------------------
(* doExecute: a call from outside or from the body of the innermost        *)
(* transaction (the static methods of Backend "create a nested             *)
(* transaction").                                                          *)
DoExecute(h, t) ==
    /\ outcome[t] = "new"
    /\ Len(calls[h]) < MaxDepth
    /\ calls[h] # <<>> => phase[Head(calls[h])] = "body"
    /\ calls' = [calls EXCEPT ![h] = <<t>> \o @]
    /\ outcome' = [outcome EXCEPT ![t] = "running"]
    /\ GoTo(t, "poll")
    /\ UNCHANGED <<deque, opened, stack, conn, commit, dbVars>>

(* Mutant: the first element is looked at, not taken.                      *)
PollPeeks(h, t) ==
    /\ At(h, t, "poll")
    /\ conn' = [conn EXCEPT ![t] = IF deque = <<>> THEN NoConnection ELSE Head(deque)]
    /\ GoTo(t, "validate")
    /\ UNCHANGED <<deque, opened, stack, calls, commit, outcome, dbVars>>

(* allocateConnection takes the most recently released connection, if any. *)
PollConnection(h, t) ==
    /\ At(h, t, "poll")
    /\ conn' = [conn EXCEPT ![t] = IF deque = <<>> THEN NoConnection ELSE Head(deque)]
    /\ deque' = IF deque = <<>> THEN deque ELSE Tail(deque)
    /\ GoTo(t, "validate")
    /\ UNCHANGED <<opened, stack, calls, commit, outcome, dbVars>>

(* The connections that count against the limit of the database.           *)
Alive == opened \ broken

(* Mutant: only the connections on record are checked, null passes.        *)
UsableWithoutNullCheck(c) == c \notin broken

(* Mutant: isValid is not asked.                                           *)
UsableWithoutIsValid(c) == c # NoConnection

Usable(c) == c # NoConnection /\ c \notin broken

(* The head of the loop: keep a valid connection, open one instead of an   *)
(* invalid or missing one, or fail to open one.                            *)
ValidateConnection(h, t) ==
    /\ At(h, t, "validate")
    /\ \/ /\ Usable(conn[t])
          /\ GoTo(t, "configure")
          /\ UNCHANGED <<opened, conn>>
       \/ /\ ~Usable(conn[t])
          /\ Cardinality(Alive) < MaxConnections
          /\ \E c \in Connections \ opened :
                /\ opened' = opened \cup {c}
                /\ conn' = [conn EXCEPT ![t] = c]
          /\ GoTo(t, "configure")
       \/ /\ ~Usable(conn[t])
          /\ Cardinality(Alive) >= MaxConnections
          /\ GoTo(t, "wait")
          /\ UNCHANGED <<opened, conn>>
    /\ UNCHANGED <<deque, stack, calls, commit, outcome, dbVars>>

(* Mutant: a pooled connection keeps the auto-commit mode it last had.     *)
ConfigureKeepsMode(h, t) ==
    /\ At(h, t, "configure")
    /\ conn[t] \notin broken
    /\ GoTo(t, "body")
    /\ manual' = IF t \in Unisolated THEN manual \ {conn[t]} ELSE manual
    /\ stack' = [stack EXCEPT ![h] = <<conn[t]>> \o @]
    /\ UNCHANGED <<deque, opened, calls, conn, commit, outcome,
                   pending, written, durable, broken>>

(* setTransactionIsolation and setAutoCommit; an exception leads to the    *)
(* wait at the end of the loop.  On success startTransaction pushes the    *)
(* connection (MjForbidInnerTransaction, which would refuse to nest here,  *)
(* has its default "false") and execute() begins.                          *)
ConfigureConnection(h, t) ==
    /\ At(h, t, "configure")
    /\ \/ /\ conn[t] \in broken
          /\ GoTo(t, "wait")
          /\ UNCHANGED <<stack, manual>>
       \/ /\ conn[t] \notin broken
          /\ manual' = IF t \in Unisolated THEN manual \ {conn[t]}
                                           ELSE manual \cup {conn[t]}
          /\ GoTo(t, "body")
          /\ stack' = [stack EXCEPT ![h] = <<conn[t]>> \o @]
    /\ UNCHANGED <<deque, opened, calls, conn, commit, outcome,
                   pending, written, durable, broken>>

(* connectionDeque.poll(10, SECONDS) at the end of the loop: what it       *)
(* returns is not assigned to anything.  It gives up only when the deque   *)
(* is empty.                                                               *)
WaitForConnection(h, t) ==
    /\ At(h, t, "wait")
    /\ deque' = IF deque = <<>> THEN deque ELSE Tail(deque)
    /\ GoTo(t, "validate")
    /\ UNCHANGED <<opened, stack, calls, conn, commit, outcome, dbVars>>

-----------------------------------------------------------------------------
(* Mutant: the connection of the outermost transaction is used for all.    *)
GetOutermostConnection(h) ==
    IF stack[h] = <<>> THEN NoConnection ELSE stack[h][Len(stack[h])]

(* SqlRepository.getConnection.  Without a transaction on the stack the    *)
(* shared auto-commit connection is used; it is not one of Connections.    *)
GetConnection(h) == IF stack[h] = <<>> THEN NoConnection ELSE Head(stack[h])

(* An SQL statement of the running body that changes something.  On a      *)
(* dropped connection it throws instead, which is BodyThrows or nothing.   *)
BodyWrites(h, t) ==
    LET c == GetConnection(h)
        w == <<t, written[t] + 1>>
    IN  /\ At(h, t, "body")
        /\ written[t] < MaxWrites
        /\ c \notin broken
        /\ written' = [written EXCEPT ![t] = @ + 1]
        /\ IF c \in manual
           THEN /\ pending' = [pending EXCEPT ![c] = @ \cup {w}]
                /\ UNCHANGED durable
           ELSE /\ durable' = durable \cup {w}
                /\ UNCHANGED pending
        /\ UNCHANGED <<deque, opened, stack, calls, phase, conn, commit,
                       outcome, manual, broken>>

(* transaction.execute() returns or throws.                                *)
BodyReturns(h, t) ==
    /\ At(h, t, "body")
    /\ commit' = [commit EXCEPT ![t] = TRUE]
    /\ GoTo(t, "finally")
    /\ UNCHANGED <<deque, opened, stack, calls, conn, outcome, dbVars>>

BodyThrows(h, t) ==
    /\ At(h, t, "body")
    /\ GoTo(t, "finally")
    /\ UNCHANGED <<deque, opened, stack, calls, conn, commit, outcome, dbVars>>

-----------------------------------------------------------------------------
(* The call for t leaves doExecute(transaction, repository);               *)
(* currentTransaction is the outer one again, the next element of calls.   *)
(* handleCodeCache and Application.transactionCompleted, which run after a *)
(* commit, are left out: what they throw reaches the caller although the   *)
(* writes are permanent.  An outer execute() may return or throw anyway.   *)
Leave(h, t, result) ==
    /\ calls' = [calls EXCEPT ![h] = Tail(@)]
    /\ outcome' = [outcome EXCEPT ![t] = result]
    /\ conn' = [conn EXCEPT ![t] = NoConnection]
    /\ GoTo(t, "none")

Result(t) == IF commit[t] THEN "returned" ELSE "threw"

(* Mutant: nothing is rolled back; the connection is released as it is.    *)
EndWithoutRollback(h, t) ==
    LET c == Head(stack[h])
    IN  /\ At(h, t, "finally")
        /\ stack[h] # <<>>
        /\ c \in manual => c \notin broken
        /\ IF c \in manual /\ commit[t]
           THEN /\ durable' = durable \cup pending[c]
                /\ pending' = [pending EXCEPT ![c] = {}]
           ELSE UNCHANGED <<durable, pending>>
        /\ GoTo(t, "release")
        /\ UNCHANGED <<deque, opened, stack, calls, conn, commit, outcome,
                       manual, written, broken>>

(* Mutant: the flag `commit' is ignored.                                   *)
EndAlwaysCommits(h, t) ==
    LET c == Head(stack[h])
    IN  /\ At(h, t, "finally")
        /\ stack[h] # <<>>
        /\ c \in manual => c \notin broken
        /\ durable' = durable \cup pending[c]
        /\ pending' = [pending EXCEPT ![c] = {}]
        /\ GoTo(t, "release")
        /\ UNCHANGED <<deque, opened, stack, calls, conn, commit, outcome,
                       manual, written, broken>>

(* endTransaction: commit or roll back the connection on top of the stack. *)
(* In auto-commit mode nothing is done, and getAutoCommit may answer on a  *)
(* broken connection as well (here) as throw (EndFails).                   *)
EndResolves(h, t) ==
    LET c == Head(stack[h])
    IN  /\ At(h, t, "finally")
        /\ stack[h] # <<>>
        /\ c \in manual => c \notin broken
        /\ durable' = IF c \in manual /\ commit[t] THEN durable \cup pending[c]
                                                   ELSE durable
        /\ pending' = IF c \in manual THEN [pending EXCEPT ![c] = {}]
                                      ELSE pending
        /\ GoTo(t, "release")
        /\ UNCHANGED <<deque, opened, stack, calls, conn, commit, outcome,
                       manual, written, broken>>

(* Mutant: the exception of a failed commit is swallowed.                  *)
EndSwallowsFailure(h, t) ==
    LET c == Head(stack[h])
    IN  /\ At(h, t, "finally")
        /\ stack[h] # <<>>
        /\ c \in broken \/ (c \in manual /\ commit[t] /\ CommitMayFail)
        /\ pending' = [pending EXCEPT ![c] = {}]
        /\ Leave(h, t, Result(t))
        /\ UNCHANGED <<deque, opened, stack, commit, manual, written,
                       durable, broken>>

(* Mutant: the connection of a failed commit is released but not popped.   *)
EndFailsAndReleases(h, t) ==
    LET c == Head(stack[h])
    IN  /\ At(h, t, "finally")
        /\ stack[h] # <<>>
        /\ c \in broken \/ (c \in manual /\ commit[t] /\ CommitMayFail)
        /\ pending' = [pending EXCEPT ![c] = {}]
        /\ deque' = <<c>> \o deque
        /\ Leave(h, t, "threw")
        /\ UNCHANGED <<opened, stack, commit, manual, written, durable, broken>>

(* endTransaction: getAutoCommit, commit or rollback throws.  The exception *)
(* leaves endTransaction and doExecute at once: the connection is not      *)
(* released and stays on the stack.  The database has rolled back.         *)
EndFails(h, t) ==
    LET c == Head(stack[h])
    IN  /\ At(h, t, "finally")
        /\ stack[h] # <<>>
        /\ c \in broken \/ (c \in manual /\ commit[t] /\ CommitMayFail)
        /\ pending' = [pending EXCEPT ![c] = {}]
        /\ Leave(h, t, "threw")
        /\ UNCHANGED <<deque, opened, stack, commit, manual, written,
                       durable, broken>>

(* Mutant: the stack is popped, but the connection is not released.        *)
ReleaseForgotten(h, t) ==
    /\ At(h, t, "release")
    /\ stack' = [stack EXCEPT ![h] = Tail(@)]
    /\ Leave(h, t, Result(t))
    /\ UNCHANGED <<deque, opened, commit, dbVars>>

(* Mutant: the connection of the outermost transaction is the one removed  *)
(* from the stack (as if it were a queue).                                 *)
ReleaseRemovesOutermost(h, t) ==
    /\ At(h, t, "release")
    /\ deque' = <<stack[h][Len(stack[h])]>> \o deque
    /\ stack' = [stack EXCEPT ![h] = SubSeq(@, 1, Len(@) - 1)]
    /\ Leave(h, t, Result(t))
    /\ UNCHANGED <<opened, commit, dbVars>>

(* releaseConnection, the pop of the stack and the return to the caller;   *)
(* between the push to the deque and the pop of its own stack the thread   *)
(* does nothing another thread could see.                                  *)
ReleaseConnection(h, t) ==
    /\ At(h, t, "release")
    /\ deque' = <<Head(stack[h])>> \o deque
    /\ stack' = [stack EXCEPT ![h] = Tail(@)]
    /\ Leave(h, t, Result(t))
    /\ UNCHANGED <<opened, commit, dbVars>>

-----------------------------------------------------------------------------
(* The database drops a connection and rolls its work back.                *)
ConnectionBreaks(c) ==
    /\ c \in Alive
    /\ Cardinality(broken) < MaxBreaks
    /\ broken' = broken \cup {c}
    /\ pending' = [pending EXCEPT ![c] = {}]
    /\ UNCHANGED <<deque, opened, stack, calls, phase, conn, commit, outcome,
                   manual, written, durable>>

(* The code after a call has entered doExecute, without execute() itself.  *)
Step(h, t) ==
    \/ PollConnection(h, t)
    \/ ValidateConnection(h, t)
    \/ ConfigureConnection(h, t)
    \/ WaitForConnection(h, t)
    \/ EndResolves(h, t)
    \/ EndFails(h, t)
    \/ ReleaseConnection(h, t)

Body(h, t) == BodyWrites(h, t) \/ BodyReturns(h, t) \/ BodyThrows(h, t)

Next ==
    \/ \E h \in Threads, t \in Transactions :
          DoExecute(h, t) \/ Step(h, t) \/ Body(h, t)
    \/ \E c \in Connections : ConnectionBreaks(c)

Spec == Init /\ [][Next]_vars

(* A thread inside doExecute goes on, and execute() ends at some time.     *)
Fairness ==
    \A h \in Threads :
        /\ WF_vars(\E t \in Transactions : Step(h, t))
        /\ WF_vars(\E t \in Transactions : BodyReturns(h, t) \/ BodyThrows(h, t))

FairSpec == Spec /\ Fairness

-----------------------------------------------------------------------------
(* t is in allocateConnection and may hold a connection in its local       *)
(* variable; t is in startTransaction .. endTransaction with one.          *)
Allocating(t) == phase[t] \in {"validate", "configure", "wait"}
Holding(t) == phase[t] \in {"body", "finally", "release"}

(* No connection can be used from two places: the idle connections in      *)
(* connectionDeque, the stacks of the threads and the local variables of   *)
(* running allocateConnection calls never share one, and none of them      *)
(* holds one twice.  This is what keeps two concurrent transactions of     *)
(* SqlRepository out of each other's JDBC transaction.                     *)
DequeIsSet == Distinct(deque)

StacksDisjoint == AllDistinct(stack)

DequeStackDisjoint == \A j \in 1 .. Len(deque) : Absent(stack, deque[j])

AllocatingDisjoint ==
    \A t \in Transactions : Allocating(t) /\ conn[t] # NoConnection =>
        /\ \A j \in 1 .. Len(deque) : deque[j] # conn[t]
        /\ Absent(stack, conn[t])
        /\ \A u \in Transactions : Allocating(u) /\ conn[u] = conn[t] => u = t

ExclusiveConnections ==
    DequeIsSet /\ StacksDisjoint /\ DequeStackDisjoint /\ AllocatingDisjoint

(* A connection waits in connectionDeque only after endTransaction has     *)
(* committed or rolled back: whoever takes it starts with nothing of the   *)
(* previous transaction on it.                                             *)
IdleConnectionsAreClean == \A c \in Items(deque) : pending[c] = {}

(* What an open JDBC transaction holds was all written by the one Backend  *)
(* transaction that got this connection from startTransaction, so no       *)
(* commit or rollback resolves the writes of another transaction.          *)
PendingBelongsToHolder ==
    \A c \in Connections : \A w \in pending[c] :
        Holding(w[1]) /\ conn[w[1]] = c

WritesDone(t) == {<<t, i>> : i \in 1 .. written[t]}
WritesKept(t) == {w \in durable : w[1] = t}

(* All or nothing, towards the caller of doExecute(transaction,            *)
(* repository): when the call has returned every write of the transaction  *)
(* is permanent, and as long as it has not ended, or if it threw, none is. *)
(* (TransactionTest: "the insert should be rollback", "the insert should   *)
(* be committed".)                                                         *)
AllOrNothing ==
    \A t \in Transactions \ Unisolated :
        /\ outcome[t] = "returned" => WritesKept(t) = WritesDone(t)
        /\ outcome[t] = "threw" => WritesKept(t) = {}
        /\ outcome[t] = "running" /\ phase[t] # "release" => WritesKept(t) = {}

(* The calls of thread h that have a connection from startTransaction: all *)
(* but the innermost one while that is still allocating its own.           *)
Holders(h) ==
    IF calls[h] # <<>> /\ ~Holding(Head(calls[h])) THEN Tail(calls[h]) ELSE calls[h]

(* The connections on a thread's stack are, from the top down, those of    *)
(* the nested transactions the thread is running, innermost first: a       *)
(* nested transaction neither takes nor ends the connection of the outer.  *)
StackMatchesCalls ==
    \A h \in Threads :
        /\ \A i \in 1 .. Len(Holders(h)) : Holding(Holders(h)[i])
        /\ stack[h] = [i \in 1 .. Len(Holders(h)) |-> conn[Holders(h)[i]]]

(* Every live connection SqlRepository has opened can still be used: it    *)
(* is idle in the deque, on a stack, or being allocated.                   *)
NoConnectionLost ==
    \A c \in Alive :
        \/ c \in Items(deque)
        \/ \E h \in Threads : c \in Items(stack[h])
        \/ \E t \in Transactions : phase[t] # "none" /\ conn[t] = c

(* Every call of Backend.execute comes back to its caller, provided that   *)
(* the transactions' own code does.                                        *)
EveryCallEnds ==
    \A t \in Transactions : outcome[t] = "running" ~> outcome[t] # "running"

(* The same for a thread that has to wait in allocateConnection ("block    *)
(* and wait till a connection is in deque").                               *)
WaitersAreServed ==
    \A t \in Transactions : phase[t] = "wait" ~> Holding(t)

-----------------------------------------------------------------------------
(* The abstract view.  A transaction is decided when its JDBC transaction  *)
(* is, which is before its caller learns of it; the loss of its connection *)
(* decides it too.                                                         *)
Status(t) ==
    CASE outcome[t] = "new" -> "new"
      [] outcome[t] = "returned" -> "committed"
      [] outcome[t] = "threw" -> "aborted"
      [] phase[t] = "release" /\ commit[t] -> "committed"
      [] phase[t] = "release" /\ ~commit[t] -> "aborted"
      [] /\ phase[t] \in {"body", "finally"}
         /\ conn[t] \in manual \cap broken -> "aborted"
      [] OTHER -> "active"

Staged(t) == {w \in UNION {pending[c] : c \in Connections} : w[1] = t}

Atomic == INSTANCE AtomicTransactions
    WITH status <- [t \in Transactions |-> Status(t)],
         staged <- [t \in Transactions |-> Staged(t)]

(* Every step of Backend and SqlRepository is one of the abstract store of *)
(* atomic transactions, or changes nothing there.                          *)
ImplementsAtomic == Atomic!Spec

=============================================================================
