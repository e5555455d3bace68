--------------------------- MODULE AtomicityProofs ---------------------------
(***************************************************************************)
(* Proofs about TransactionPool, continued: which connection a transaction *)
(* works on, atomicity towards the caller and the refinement of            *)
(* AtomicTransactions.                                                     *)
(*                                                                         *)
(* All of this fails when a nested transaction cannot end (run             *)
(* pool_nested_commit_fails).  The theorems therefore assume that the      *)
(* database either does not fail or is not used by nested transactions.    *)
(***************************************************************************)
EXTENDS TransactionPoolProofs, FiniteSetTheorems

(* No connection is dropped and no commit of a live connection throws.     *)
NoFailures == MaxBreaks = 0 /\ CommitMayFail = FALSE

NoFailureWhenNested == NoFailures \/ MaxDepth <= 1

-----------------------------------------------------------------------------
(* The bounds of the model as invariants.                                  *)
CallsAreBounded == \A h \in Threads : Len(calls[h]) <= MaxDepth

NothingBreaks == NoFailures => broken = {}

LEMMA BoundsStep ==
    ASSUME ControlInv, ControlInv', CallsAreBounded, NothingBreaks, [Next]_vars
    PROVE  CallsAreBounded' /\ NothingBreaks'
<1>0. TypeOK /\ TypeOK'
  BY DEF ControlInv
<1>1. ASSUME NEW h \in Threads, NEW t \in Transactions, DoExecute(h, t)
      PROVE  CallsAreBounded' /\ NothingBreaks'
  <2>1. /\ calls'[h] = <<t>> \o calls[h] /\ broken' = broken
        /\ \A g \in Threads : g # h => calls'[g] = calls[g]
    BY <1>0, <1>1 DEF DoExecute, dbVars, TypeOK
  <2>2. Len(calls'[h]) = Len(calls[h]) + 1 /\ Len(calls[h]) \in Nat
    BY <1>0, <2>1, PushFront, LenProperties DEF TypeOK
  <2>3. Len(calls'[h]) <= MaxDepth
    BY <1>1, <2>2, ConstantsAssumption DEF DoExecute
  <2> QED
    BY <2>1, <2>3 DEF CallsAreBounded, NothingBreaks
<1>2. ASSUME NEW h \in Threads, NEW t \in Transactions, NEW r, calls[h] # <<>>,
             Leave(h, t, r), broken' = broken
      PROVE  CallsAreBounded' /\ NothingBreaks'
  <2>1. /\ calls'[h] = Tail(calls[h])
        /\ \A g \in Threads : g # h => calls'[g] = calls[g]
    BY <1>0, <1>2 DEF Leave, TypeOK
  <2>2. Len(calls'[h]) = Len(calls[h]) - 1 /\ Len(calls[h]) \in Nat
    BY <1>0, <1>2, <2>1, PopFront DEF TypeOK
  <2>3. Len(calls'[h]) <= MaxDepth
    BY <2>2, ConstantsAssumption DEF CallsAreBounded
  <2> QED
    BY <1>2, <2>1, <2>3 DEF CallsAreBounded, NothingBreaks
<1>3. ASSUME calls' = calls, broken' = broken
      PROVE  CallsAreBounded' /\ NothingBreaks'
  BY <1>3 DEF CallsAreBounded, NothingBreaks
<1>4. ASSUME NEW c \in Connections, ConnectionBreaks(c)
      PROVE  CallsAreBounded' /\ NothingBreaks'
  <2>1. IsFiniteSet(broken)
    BY <1>0, FS_Subset, ConstantsAssumption DEF TypeOK
  <2>2. Cardinality(broken) \in Nat
    BY <2>1, FS_CardinalityType
  <2>3. MaxBreaks # 0
    BY <1>4, <2>2 DEF ConnectionBreaks
  <2> QED
    BY <1>4, <2>3 DEF ConnectionBreaks, CallsAreBounded, NothingBreaks, NoFailures
<1>5. ASSUME NEW h \in Threads, NEW t \in Transactions, Step(h, t) \/ Body(h, t)
      PROVE  CallsAreBounded' /\ NothingBreaks'
  <2>1. CASE EndFails(h, t)
    BY <1>2, <2>1 DEF EndFails, At
  <2>2. CASE ReleaseConnection(h, t)
    BY <1>2, <2>2 DEF ReleaseConnection, At, dbVars
  <2>3. CASE ~EndFails(h, t) /\ ~ReleaseConnection(h, t)
    <3>1. calls' = calls /\ broken' = broken
      BY <1>5, <2>3
      DEF Step, Body, PollConnection, ValidateConnection, ConfigureConnection,
          WaitForConnection, EndResolves, BodyWrites, BodyReturns, BodyThrows, dbVars
    <3> QED
      BY <1>3, <3>1
  <2> QED
    BY <2>1, <2>2, <2>3
<1>6. CASE UNCHANGED vars
  BY <1>3, <1>6 DEF vars
<1> QED
  BY <1>1, <1>4, <1>5, <1>6 DEF Next

-----------------------------------------------------------------------------
(* The stack of a thread begins with the connections of its holders; when  *)
(* nothing fails there is nothing below them.                              *)
StackFits(h) ==
    /\ Len(Holders(h)) <= Len(stack[h])
    /\ NoFailures => Len(Holders(h)) = Len(stack[h])
    /\ \A i \in 1 .. Len(Holders(h)) : stack[h][i] = conn[Holders(h)[i]]

StacksFit == \A h \in Threads : StackFits(h)

LEMMA HoldersHold ==
    ASSUME ControlInv, NEW h \in Threads
    PROVE  /\ Holders(h) \in Seq(Transactions)
           /\ \A i \in 1 .. Len(Holders(h)) :
                 /\ Holding(Holders(h)[i])
                 /\ \E j \in 1 .. Len(calls[h]) : Holders(h)[i] = calls[h][j]
<1> DEFINE s == calls[h]
<1>0. s \in Seq(Transactions) /\ TypeOK
  BY DEF ControlInv, TypeOK
<1>1. CASE s # <<>> /\ ~Holding(Head(s))
  <2>1. Holders(h) = Tail(s)
    BY <1>1 DEF Holders
  <2>2. /\ Tail(s) \in Seq(Transactions) /\ Len(s) \in Nat \ {0}
        /\ Len(Tail(s)) = Len(s) - 1
        /\ \A i \in 1 .. Len(s) - 1 : Tail(s)[i] = s[i + 1]
    BY <1>0, <1>1, PopFront
  <2>3. ASSUME NEW i \in 1 .. Len(Tail(s))
        PROVE  /\ i + 1 \in 2 .. Len(s) /\ i + 1 \in 1 .. Len(s) /\ Tail(s)[i] = s[i + 1]
    <3> DEFINE n == Len(s)
    <3>1. n \in Nat /\ i \in 1 .. n - 1
      BY <2>2
    <3> HIDE DEF n
    <3>2. i + 1 \in 2 .. n /\ i + 1 \in 1 .. n
      BY <3>1
    <3> QED
      BY <2>2, <3>1, <3>2 DEF n
  <2>4. \A i \in 1 .. Len(Tail(s)) : phase[Tail(s)[i]] = "body"
    BY <2>3 DEF ControlInv, OuterCallsAreInBody
  <2> QED
    BY <2>1, <2>2, <2>3, <2>4 DEF Holding
<1>2. CASE s = <<>>
  BY <1>0, <1>2, EmptySeq DEF Holders
<1>3. CASE s # <<>> /\ Holding(Head(s))
  <2>1. Holders(h) = s
    BY <1>3 DEF Holders
  <2>2. Head(s) = s[1] /\ Len(s) \in Nat
    BY <1>0, <1>3, PopFront
  <2>3. \A i \in 1 .. Len(s) : i = 1 \/ i \in 2 .. Len(s)
    BY <2>2
  <2>4. \A i \in 1 .. Len(s) : Holding(s[i])
    BY <1>3, <2>2, <2>3 DEF ControlInv, OuterCallsAreInBody, Holding
  <2> QED
    BY <1>0, <2>1, <2>4
<1> QED
  BY <1>1, <1>2, <1>3

(* A thread whose calls, holders and stack a step leaves alone.            *)
LEMMA FitStays ==
    ASSUME ControlInv, NEW h \in Threads, StackFits(h),
           calls'[h] = calls[h], stack'[h] = stack[h],
           \A i \in 1 .. Len(calls[h]) :
              /\ Holding(calls[h][i])' <=> Holding(calls[h][i])
              /\ Holding(calls[h][i]) => conn'[calls[h][i]] = conn[calls[h][i]]
    PROVE  StackFits(h)'
<1>1. calls[h] # <<>> => Head(calls[h]) = calls[h][1] /\ 1 \in 1 .. Len(calls[h])
  BY PopFront DEF ControlInv, TypeOK
<1>2. Holders(h)' = Holders(h)
  <2>1. calls[h] # <<>> => (Holding(calls[h][1])' <=> Holding(calls[h][1]))
    BY <1>1
  <2>2. calls[h] # <<>> => (Holding(Head(calls[h]))' <=> Holding(Head(calls[h])))
    BY <1>1, <2>1 DEF Holding
  <2> QED
    BY <2>2 DEF Holders
<1>3. \A i \in 1 .. Len(Holders(h)) : conn'[Holders(h)[i]] = conn[Holders(h)[i]]
  BY HoldersHold
<1> QED
  BY <1>2, <1>3 DEF StackFits

(* A transaction that has its connection from startTransaction has it for  *)
(* itself, and it is on the stack of a thread.                             *)
HeldIsOnStack ==
    \A t \in Transactions : Holding(t) => conn[t] \in Connections /\ ~Absent(stack, conn[t])

HoldersAreExclusive ==
    \A t, u \in Transactions : Holding(t) /\ Holding(u) /\ conn[t] = conn[u] => t = u

NestInv ==
    /\ PoolInv
    /\ CallsAreBounded
    /\ NothingBreaks
    /\ StacksFit
    /\ HeldIsOnStack
    /\ HoldersAreExclusive

LEMMA NestInit == Init => NestInv
<1> SUFFICES ASSUME Init PROVE NestInv
  OBVIOUS
<1>1. PoolInv
  BY PoolInit
<1>2. StacksFit
  BY EmptySeq DEF Init, StacksFit, StackFits, Holders
<1>3. CallsAreBounded
  BY ConstantsAssumption DEF Init, CallsAreBounded
<1> QED
  BY <1>1, <1>2, <1>3
  DEF Init, NestInv, NothingBreaks, HeldIsOnStack, HoldersAreExclusive, Holding

(* Another thread's calls do not contain the innermost call of this one.   *)
LEMMA OthersCallOthers ==
    ASSUME ControlInv, NEW h \in Threads, calls[h] # <<>>,
           NEW g \in Threads, g # h, NEW i \in 1 .. Len(calls[g])
    PROVE  calls[g][i] \in Transactions /\ calls[g][i] # Head(calls[h])
<1>1. Head(calls[h]) = calls[h][1] /\ 1 \in 1 .. Len(calls[h])
  BY PopFront DEF ControlInv, TypeOK
<1>2. calls[g][i] \in Transactions
  BY ElementOfSeq DEF ControlInv, TypeOK
<1> QED
  BY <1>1, <1>2 DEF ControlInv, CallsDisjoint, AllDistinct

(* Steps that take no connection on a stack and end no call.               *)
LEMMA NestStay ==
    ASSUME NestInv, PoolInv', CallsAreBounded', NothingBreaks',
           calls' = calls, stack' = stack,
           \A u \in Transactions : /\ Holding(u)' <=> Holding(u)
                                   /\ Holding(u) => conn'[u] = conn[u]
    PROVE  NestInv'
<1>1. StacksFit'
  <2> SUFFICES ASSUME NEW g \in Threads PROVE StackFits(g)'
    BY DEF StacksFit
  <2>1. \A i \in 1 .. Len(calls[g]) : calls[g][i] \in Transactions
    BY ElementOfSeq DEF NestInv, PoolInv, ControlInv, TypeOK
  <2> QED
    BY <2>1, FitStays DEF NestInv, PoolInv, StacksFit
<1>2. HeldIsOnStack' /\ HoldersAreExclusive'
  BY DEF NestInv, HeldIsOnStack, HoldersAreExclusive, Absent
<1> QED
  BY <1>1, <1>2 DEF NestInv

LEMMA NestEnter ==
    ASSUME NestInv, PoolInv', CallsAreBounded', NothingBreaks',
           NEW h \in Threads, NEW t \in Transactions, DoExecute(h, t)
    PROVE  NestInv'
<1>0. TypeOK /\ ControlInv
  BY DEF NestInv, PoolInv, ControlInv
<1>1. /\ calls'[h] = <<t>> \o calls[h] /\ stack' = stack /\ conn' = conn
      /\ \A g \in Threads : g # h => calls'[g] = calls[g]
      /\ phase'[t] = "poll" /\ outcome[t] = "new"
      /\ \A u \in Transactions : u # t => phase'[u] = phase[u]
  BY <1>0 DEF DoExecute, GoTo, TypeOK
<1>2. /\ calls'[h] # <<>> /\ Head(calls'[h]) = t /\ Tail(calls'[h]) = calls[h]
  BY <1>0, <1>1 DEF TypeOK
<1>3. \A g \in Threads : \A i \in 1 .. Len(calls[g]) :
         calls[g][i] \in Transactions /\ calls[g][i] # t
  BY <1>0, <1>1, ElementOfSeq DEF ControlInv, CalledAreNotNew, TypeOK
<1>4. \A u \in Transactions : Holding(u)' => Holding(u)
  BY <1>1 DEF Holding
<1>5. \A u \in Transactions : u # t => (Holding(u)' <=> Holding(u))
  BY <1>1 DEF Holding
<1>6. StackFits(h)'
  <2>1. ~Holding(t)'
    BY <1>1 DEF Holding
  <2>2. Holders(h)' = calls[h]
    BY <1>2, <2>1 DEF Holders, Holding
  <2>3. Holders(h) = calls[h]
    BY DEF DoExecute, Holders, Holding
  <2> QED
    BY <1>1, <2>2, <2>3 DEF NestInv, StacksFit, StackFits
<1>7. ASSUME NEW g \in Threads, g # h PROVE StackFits(g)'
  BY <1>0, <1>1, <1>3, <1>5, <1>7, FitStays DEF NestInv, StacksFit
<1>8. HeldIsOnStack' /\ HoldersAreExclusive'
  BY <1>1, <1>4 DEF NestInv, HeldIsOnStack, HoldersAreExclusive, Absent
<1> QED
  BY <1>6, <1>7, <1>8 DEF NestInv, StacksFit

(* startTransaction pushes the connection.                                 *)
LEMMA NestPush ==
    ASSUME NestInv, PoolInv', CallsAreBounded', NothingBreaks',
           NEW h \in Threads, NEW t \in Transactions, At(h, t, "configure"),
           GoTo(t, "body"), conn' = conn, calls' = calls,
           stack' = [stack EXCEPT ![h] = <<conn[t]>> \o @]
    PROVE  NestInv'
<1>0. TypeOK /\ ControlInv
  BY DEF NestInv, PoolInv, ControlInv
<1>1. /\ phase[t] = "configure" /\ phase'[t] = "body"
      /\ calls[h] # <<>> /\ Head(calls[h]) = t
      /\ \A u \in Transactions : u # t => phase'[u] = phase[u]
  BY <1>0 DEF At, GoTo, TypeOK
<1>2. conn[t] \in Connections /\ conn[t] # NoConnection /\ Allocating(t)
  BY <1>0, <1>1 DEF ControlInv, ConfigureHasConnection, TypeOK, Allocating
<1>3. Absent(stack, conn[t])
  BY <1>2 DEF NestInv, PoolInv, ExclusiveConnections, AllocatingDisjoint
<1>4. /\ stack'[h] = <<conn[t]>> \o stack[h] /\ stack[h] \in Seq(Connections)
      /\ \A g \in Threads : g # h => stack'[g] = stack[g]
  BY <1>0 DEF TypeOK
<1>5. /\ Len(stack'[h]) = Len(stack[h]) + 1 /\ Len(stack[h]) \in Nat
      /\ stack'[h][1] = conn[t]
      /\ \A i \in 2 .. Len(stack[h]) + 1 : stack'[h][i] = stack[h][i - 1]
  BY <1>2, <1>4, PushFront, LenProperties
<1>6. StackFits(h)'
  <2> DEFINE s == calls[h]
  <2>1. Holders(h) = Tail(s) /\ Holders(h)' = s
    BY <1>1 DEF Holders, Holding
  <2>2. /\ s[1] = t /\ Len(s) \in Nat \ {0} /\ Len(Tail(s)) = Len(s) - 1
        /\ \A i \in 1 .. Len(s) - 1 : Tail(s)[i] = s[i + 1]
    BY <1>0, <1>1, PopFront DEF TypeOK
  <2>3. /\ Len(Tail(s)) <= Len(stack[h])
        /\ NoFailures => Len(Tail(s)) = Len(stack[h])
        /\ \A i \in 1 .. Len(Tail(s)) : stack[h][i] = conn[Tail(s)[i]]
    BY <2>1 DEF NestInv, StacksFit, StackFits
  <2>4. /\ Len(s) <= Len(stack'[h])
        /\ NoFailures => Len(s) = Len(stack'[h])
    BY <1>5, <2>2, <2>3
  <2>5. ASSUME NEW i \in 1 .. Len(s) PROVE stack'[h][i] = conn[s[i]]
    <3>1. CASE i = 1
      BY <1>5, <2>2, <3>1
    <3>2. CASE i # 1
      <4> DEFINE k == i - 1
      <4>1. k \in 1 .. Len(s) - 1 /\ i \in 2 .. Len(stack[h]) + 1 /\ i = k + 1
        BY <1>5, <2>2, <2>3, <3>2
      <4>2. stack'[h][i] = stack[h][k]
        BY <1>5, <4>1
      <4> HIDE DEF k
      <4>3. stack[h][k] = conn[s[k + 1]]
        BY <2>2, <2>3, <4>1
      <4> QED
        BY <4>1, <4>2, <4>3
    <3> QED
      BY <3>1, <3>2
  <2> QED
    BY <2>1, <2>4, <2>5 DEF StackFits
<1>7. ASSUME NEW g \in Threads, g # h PROVE StackFits(g)'
  <2>1. \A i \in 1 .. Len(calls[g]) : Holding(calls[g][i])' <=> Holding(calls[g][i])
    BY <1>0, <1>1, <1>7, OthersCallOthers DEF Holding
  <2> QED
    BY <1>0, <1>4, <1>7, <2>1, FitStays DEF NestInv, StacksFit
<1>8. \A y : Absent(stack', y) => Absent(stack, y) /\ y # conn[t]
  <2>1. \A y : Absent(stack', y) => Absent(stack, y)
    BY <1>0, <1>2, AbsentAfter DEF TypeOK
  <2>2. 1 \in 1 .. Len(stack'[h])
    BY <1>5
  <2> QED
    BY <1>5, <2>1, <2>2 DEF Absent
<1>9. HeldIsOnStack'
  BY <1>1, <1>2, <1>8 DEF NestInv, HeldIsOnStack, Holding
<1>10. HoldersAreExclusive'
  <2>1. \A u \in Transactions : Holding(u) => conn[u] # conn[t]
    BY <1>3 DEF NestInv, HeldIsOnStack
  <2> QED
    BY <1>1, <2>1 DEF NestInv, HoldersAreExclusive, Holding
<1> QED
  BY <1>6, <1>7, <1>9, <1>10 DEF NestInv, StacksFit

(* The connection a running transaction works on is on top of the stack.   *)
LEMMA TopIsHeld ==
    ASSUME NestInv, NEW h \in Threads, calls[h] # <<>>, Holding(Head(calls[h]))
    PROVE  /\ stack[h] # <<>> /\ Head(stack[h]) = stack[h][1]
           /\ Head(stack[h]) = conn[Head(calls[h])]
           /\ Head(stack[h]) \in Connections
<1>0. TypeOK
  BY DEF NestInv, PoolInv, ControlInv
<1>1. Holders(h) = calls[h]
  BY DEF Holders
<1>2. Head(calls[h]) = calls[h][1] /\ Len(calls[h]) \in Nat \ {0}
  BY <1>0, PopFront DEF TypeOK
<1>3. /\ Len(calls[h]) <= Len(stack[h]) /\ Len(stack[h]) \in Nat
      /\ stack[h][1] = conn[calls[h][1]]
  <2>1. /\ Len(calls[h]) <= Len(stack[h])
        /\ \A i \in 1 .. Len(calls[h]) : stack[h][i] = conn[calls[h][i]]
    BY <1>1 DEF NestInv, StacksFit, StackFits
  <2>2. 1 \in 1 .. Len(calls[h])
    BY <1>2
  <2> QED
    BY <1>0, <2>1, <2>2, LenProperties DEF TypeOK
<1>4. stack[h] # <<>>
  BY <1>2, <1>3
<1> QED
  BY <1>0, <1>2, <1>3, <1>4, PopFront DEF TypeOK

(* endTransaction pops it again.                                           *)
LEMMA NestRelease ==
    ASSUME NestInv, PoolInv', CallsAreBounded', NothingBreaks',
           NEW h \in Threads, NEW t \in Transactions, ReleaseConnection(h, t)
    PROVE  NestInv'
<1>0. TypeOK /\ TypeOK' /\ ControlInv /\ ControlInv'
  BY DEF NestInv, PoolInv, ControlInv
<1>1. /\ phase[t] = "release" /\ phase'[t] = "none"
      /\ calls[h] # <<>> /\ Head(calls[h]) = t /\ calls'[h] = Tail(calls[h])
      /\ \A g \in Threads : g # h => calls'[g] = calls[g]
      /\ \A u \in Transactions : u # t => phase'[u] = phase[u] /\ conn'[u] = conn[u]
  BY <1>0 DEF ReleaseConnection, Leave, At, GoTo, TypeOK
<1>2. /\ stack' = [stack EXCEPT ![h] = Tail(@)] /\ stack'[h] = Tail(stack[h])
      /\ \A g \in Threads : g # h => stack'[g] = stack[g]
  BY <1>0 DEF ReleaseConnection, TypeOK
<1>3. /\ stack[h] # <<>> /\ Head(stack[h]) = conn[t]
      /\ Holding(t) /\ ~Holding(t)'
  BY <1>1, TopIsHeld DEF Holding
<1>4. StackFits(h)'
  <2> DEFINE s == calls[h]
  <2>1. Holders(h) = s
    BY <1>1, <1>3 DEF Holders
  <2>2. /\ s[1] = t /\ Len(s) \in Nat \ {0} /\ Len(Tail(s)) = Len(s) - 1
        /\ \A i \in 1 .. Len(s) - 1 : Tail(s)[i] = s[i + 1]
    BY <1>0, <1>1, PopFront DEF TypeOK
  <2>3. /\ Len(stack[h]) \in Nat \ {0} /\ Len(Tail(stack[h])) = Len(stack[h]) - 1
        /\ \A i \in 1 .. Len(stack[h]) - 1 : Tail(stack[h])[i] = stack[h][i + 1]
    BY <1>0, <1>3, PopFront DEF TypeOK
  <2>4. \A i \in 2 .. Len(s) : s[i] \in Transactions \ {t} /\ phase'[s[i]] = "body"
    <3> SUFFICES ASSUME NEW i \in 2 .. Len(s)
                 PROVE  s[i] \in Transactions \ {t} /\ phase'[s[i]] = "body"
      OBVIOUS
    <3>1. i \in 1 .. Len(s)
      BY <2>2
    <3>2. s[i] \in Transactions
      BY <1>0, <3>1, ElementOfSeq DEF TypeOK
    <3>3. s[i] # t
      BY <1>0, <1>1, InnermostIsUnique DEF ControlInv
    <3> QED
      BY <1>0, <1>1, <3>2, <3>3 DEF ControlInv, OuterCallsAreInBody
  <2>5. Holders(h)' = Tail(s)
    <3>1. CASE Tail(s) = <<>>
      BY <1>1, <3>1 DEF Holders
    <3>2. CASE Tail(s) # <<>>
      <4>1. Tail(s) \in Seq(Transactions)
        BY <1>0, <1>1, PopFront DEF TypeOK
      <4>2. Head(Tail(s)) = Tail(s)[1] /\ Len(Tail(s)) \in Nat \ {0}
        BY <3>2, <4>1, PopFront
      <4>3. 1 \in 1 .. Len(s) - 1 /\ 2 \in 2 .. Len(s)
        <5> DEFINE n == Len(s)
        <5>1. n \in Nat /\ n - 1 \in Nat \ {0}
          BY <2>2, <4>2
        <5> HIDE DEF n
        <5>2. 1 \in 1 .. n - 1 /\ 2 \in 2 .. n
          BY <5>1
        <5> QED
          BY <5>2 DEF n
      <4>4. Tail(s)[1] = s[1 + 1]
        BY <2>2, <4>3
      <4>5. phase'[Head(Tail(s))] = "body"
        BY <2>4, <4>2, <4>3, <4>4
      <4> QED
        BY <1>1, <4>5 DEF Holders, Holding
    <3> QED
      BY <3>1, <3>2
  <2>6. /\ Len(s) <= Len(stack[h])
        /\ NoFailures => Len(s) = Len(stack[h])
        /\ \A i \in 1 .. Len(s) : stack[h][i] = conn[s[i]]
    BY <2>1 DEF NestInv, StacksFit, StackFits
  <2>7. /\ Len(Tail(s)) <= Len(Tail(stack[h]))
        /\ NoFailures => Len(Tail(s)) = Len(Tail(stack[h]))
    BY <2>2, <2>3, <2>6
  <2>8. ASSUME NEW i \in 1 .. Len(Tail(s)) PROVE Tail(stack[h])[i] = conn'[Tail(s)[i]]
    <3> DEFINE k == i + 1
    <3>1. /\ i \in 1 .. Len(s) - 1 /\ i \in 1 .. Len(stack[h]) - 1
          /\ k \in 2 .. Len(s) /\ k \in 1 .. Len(s)
      BY <2>2, <2>3, <2>6
    <3>2. Tail(stack[h])[i] = stack[h][k] /\ Tail(s)[i] = s[k]
      BY <2>2, <2>3, <3>1
    <3> HIDE DEF k
    <3> QED
      BY <1>1, <2>4, <2>6, <3>1, <3>2
  <2> QED
    BY <1>2, <2>5, <2>7, <2>8 DEF StackFits
<1>5. ASSUME NEW g \in Threads, g # h PROVE StackFits(g)'
  <2>1. \A i \in 1 .. Len(calls[g]) : /\ Holding(calls[g][i])' <=> Holding(calls[g][i])
                                      /\ conn'[calls[g][i]] = conn[calls[g][i]]
    BY <1>0, <1>1, <1>5, OthersCallOthers DEF Holding
  <2> QED
    BY <1>0, <1>1, <1>2, <1>5, <2>1, FitStays DEF NestInv, StacksFit
<1>6. \A u \in Transactions : Holding(u)' => u # t /\ Holding(u) /\ conn'[u] = conn[u]
  BY <1>1, <1>3 DEF Holding
<1>7. HeldIsOnStack'
  <2> SUFFICES ASSUME NEW u \in Transactions, Holding(u)'
               PROVE  conn'[u] \in Connections /\ ~Absent(stack', conn'[u])
    BY DEF HeldIsOnStack
  <2>1. conn[u] \in Connections /\ ~Absent(stack, conn[u]) /\ conn'[u] = conn[u]
    BY <1>6 DEF NestInv, HeldIsOnStack
  <2>2. conn[u] # conn[t]
    BY <1>3, <1>6 DEF NestInv, HoldersAreExclusive
  <2> QED
    BY <1>0, <1>2, <1>3, <2>1, <2>2, AbsentAfter DEF TypeOK
<1>8. HoldersAreExclusive'
  BY <1>6 DEF NestInv, HoldersAreExclusive
<1> QED
  BY <1>4, <1>5, <1>7, <1>8 DEF NestInv, StacksFit

(* A call that fails to end leaves its connection on the stack.  Either    *)
(* this does not happen, or there is no outer transaction that could use   *)
(* the connection.                                                         *)
LEMMA NestEndFails ==
    ASSUME NoFailureWhenNested, NestInv, PoolInv', CallsAreBounded', NothingBreaks',
           NEW h \in Threads, NEW t \in Transactions, EndFails(h, t)
    PROVE  NestInv'
<1>0. TypeOK /\ ControlInv
  BY DEF NestInv, PoolInv, ControlInv
<1>1. /\ phase[t] = "finally" /\ phase'[t] = "none"
      /\ calls[h] # <<>> /\ Head(calls[h]) = t /\ calls'[h] = Tail(calls[h])
      /\ stack' = stack
      /\ \A g \in Threads : g # h => calls'[g] = calls[g]
      /\ \A u \in Transactions : u # t => phase'[u] = phase[u] /\ conn'[u] = conn[u]
  BY <1>0 DEF EndFails, Leave, At, GoTo, TypeOK
<1>2. ~NoFailures /\ MaxDepth <= 1
  BY DEF EndFails, NestInv, NothingBreaks, NoFailureWhenNested, NoFailures
<1>3. calls'[h] = <<>>
  <2>1. /\ Len(calls[h]) \in Nat \ {0} /\ Tail(calls[h]) \in Seq(Transactions)
        /\ Len(Tail(calls[h])) = Len(calls[h]) - 1
    BY <1>0, <1>1, PopFront DEF TypeOK
  <2>2. Len(calls[h]) <= 1
    BY <1>2, <2>1, ConstantsAssumption DEF NestInv, CallsAreBounded
  <2>3. Len(Tail(calls[h])) = 0
    <3> DEFINE n == Len(calls[h])
    <3>1. n \in Nat \ {0} /\ n <= 1 /\ Len(Tail(calls[h])) = n - 1
      BY <2>1, <2>2
    <3> HIDE DEF n
    <3>2. n = 1
      BY <3>1
    <3> QED
      BY <3>1, <3>2
  <2> QED
    BY <1>1, <2>1, <2>3, EmptySeq
<1>4. StackFits(h)'
  <2>1. Holders(h)' = <<>>
    BY <1>3 DEF Holders
  <2>2. Len(stack'[h]) \in Nat
    BY <1>0, <1>1, LenProperties DEF TypeOK
  <2> QED
    BY <1>2, <2>1, <2>2 DEF StackFits
<1>5. ASSUME NEW g \in Threads, g # h PROVE StackFits(g)'
  <2>1. \A i \in 1 .. Len(calls[g]) : /\ Holding(calls[g][i])' <=> Holding(calls[g][i])
                                      /\ conn'[calls[g][i]] = conn[calls[g][i]]
    BY <1>0, <1>1, <1>5, OthersCallOthers DEF Holding
  <2> QED
    BY <1>0, <1>1, <1>5, <2>1, FitStays DEF NestInv, StacksFit
<1>6. \A u \in Transactions : Holding(u)' => Holding(u) /\ conn'[u] = conn[u]
  BY <1>1 DEF Holding
<1>7. HeldIsOnStack' /\ HoldersAreExclusive'
  BY <1>1, <1>6 DEF NestInv, HeldIsOnStack, HoldersAreExclusive
<1> QED
  BY <1>4, <1>5, <1>7 DEF NestInv, StacksFit

LEMMA NestStep ==
    ASSUME NoFailureWhenNested, NestInv, [Next]_vars
    PROVE  NestInv'
<1>0. /\ PoolInv /\ PoolInv' /\ ControlInv /\ ControlInv' /\ TypeOK
      /\ CallsAreBounded' /\ NothingBreaks'
  BY PoolStep, BoundsStep DEF NestInv, PoolInv, ControlInv
<1>1. ASSUME NEW h \in Threads, NEW t \in Transactions, DoExecute(h, t)
      PROVE  NestInv'
  BY <1>0, <1>1, NestEnter
<1>2. ASSUME NEW h \in Threads, NEW t \in Transactions,
             \/ PollConnection(h, t) \/ ValidateConnection(h, t) \/ WaitForConnection(h, t)
             \/ BodyWrites(h, t) \/ BodyReturns(h, t) \/ BodyThrows(h, t)
             \/ EndResolves(h, t)
      PROVE  NestInv'
  <2>1. calls' = calls /\ stack' = stack
    BY <1>2
    DEF PollConnection, ValidateConnection, WaitForConnection, BodyWrites, BodyReturns,
        BodyThrows, EndResolves
  <2>2. /\ \A u \in Transactions : u # t => phase'[u] = phase[u] /\ conn'[u] = conn[u]
        /\ Holding(t) => conn' = conn
        /\ Holding(t)' <=> Holding(t)
    BY <1>0, <1>2
    DEF PollConnection, ValidateConnection, WaitForConnection, BodyWrites, BodyReturns,
        BodyThrows, EndResolves, At, GoTo, Holding, TypeOK
  <2> QED
    BY <1>0, <2>1, <2>2, NestStay DEF Holding
<1>3. ASSUME NEW h \in Threads, NEW t \in Transactions, ConfigureConnection(h, t)
      PROVE  NestInv'
  <2>1. CASE stack' = stack
    <3>1. \A u \in Transactions : Holding(u)' <=> Holding(u)
      <4>1. GoTo(t, "wait")
        <5>1. ASSUME stack' = [stack EXCEPT ![h] = <<conn[t]>> \o @] PROVE FALSE
          <6>1. conn[t] \in Connections
            BY <1>0, <1>3
            DEF ConfigureConnection, At, ControlInv, ConfigureHasConnection, TypeOK
          <6>2. Len(stack'[h]) = Len(stack[h]) + 1 /\ Len(stack[h]) \in Nat
            BY <1>0, <5>1, <6>1, PushFront, LenProperties DEF TypeOK
          <6> QED
            BY <2>1, <6>2
        <5> QED
          BY <1>3, <5>1 DEF ConfigureConnection
      <4> QED
        BY <1>0, <1>3, <4>1 DEF ConfigureConnection, At, GoTo, Holding, TypeOK
    <3> QED
      BY <1>0, <1>3, <2>1, <3>1, NestStay DEF ConfigureConnection
  <2>2. CASE stack' # stack
    <3>1. GoTo(t, "body") /\ stack' = [stack EXCEPT ![h] = <<conn[t]>> \o @]
      BY <1>3, <2>2 DEF ConfigureConnection
    <3> QED
      BY <1>0, <1>3, <3>1, NestPush DEF ConfigureConnection
  <2> QED
    BY <2>1, <2>2
<1>4. ASSUME NEW h \in Threads, NEW t \in Transactions, EndFails(h, t)
      PROVE  NestInv'
  BY <1>0, <1>4, NestEndFails
<1>5. ASSUME NEW h \in Threads, NEW t \in Transactions, ReleaseConnection(h, t)
      PROVE  NestInv'
  BY <1>0, <1>5, NestRelease
<1>6. ASSUME NEW c \in Connections, ConnectionBreaks(c)
      PROVE  NestInv'
  BY <1>0, <1>6, NestStay DEF ConnectionBreaks, Holding
<1>7. CASE UNCHANGED vars
  BY <1>0, <1>7, NestStay DEF vars, Holding
<1> QED
  BY <1>1, <1>2, <1>3, <1>4, <1>5, <1>6, <1>7 DEF Next, Step, Body

LEMMA NestCorrect ==
    ASSUME NoFailureWhenNested PROVE Spec => []NestInv
  BY NestInit, NestStep, PTL DEF Spec

(* The connections on a stack are exactly those of the nested calls of the *)
(* thread, as long as nothing fails.                                       *)
THEOREM StackFollowsCalls ==
    ASSUME NoFailures PROVE Spec => []StackMatchesCalls
<1>1. ASSUME NestInv PROVE StackMatchesCalls
  <2> SUFFICES ASSUME NEW h \in Threads
               PROVE  /\ \A i \in 1 .. Len(Holders(h)) : Holding(Holders(h)[i])
                      /\ stack[h] = [i \in 1 .. Len(Holders(h)) |-> conn[Holders(h)[i]]]
    BY DEF StackMatchesCalls
  <2>1. ControlInv /\ stack[h] \in Seq(Connections)
    BY <1>1 DEF NestInv, PoolInv, ControlInv, TypeOK
  <2>2. \A i \in 1 .. Len(Holders(h)) : Holding(Holders(h)[i])
    BY <2>1, HoldersHold
  <2>3. /\ Len(Holders(h)) = Len(stack[h])
        /\ \A i \in 1 .. Len(Holders(h)) : stack[h][i] = conn[Holders(h)[i]]
    BY <1>1 DEF NestInv, StacksFit, StackFits
  <2>4. stack[h] = [i \in 1 .. Len(stack[h]) |-> stack[h][i]]
    BY <2>1
  <2> QED
    BY <2>2, <2>3, <2>4
<1> QED
  BY <1>1, NestCorrect, PTL DEF NoFailureWhenNested

-----------------------------------------------------------------------------
(* Where the writes of one transaction are.  As long as its connection is  *)
(* alive they are all pending on it; from the end of endTransaction on     *)
(* they are all permanent or none is.                                      *)
WritesAccounted(t) ==
    /\ phase[t] \in {"body", "finally"} =>
          /\ WritesKept(t) = {}
          /\ conn[t] \notin broken => WritesDone(t) \subseteq pending[conn[t]]
    /\ phase[t] = "release" => WritesKept(t) = IF commit[t] THEN WritesDone(t) ELSE {}
    /\ outcome[t] = "returned" => WritesKept(t) = WritesDone(t)
    /\ outcome[t] = "threw" => WritesKept(t) = {}

(* A call runs as long as it has a phase, writes only while it holds its   *)
(* connection, has the auto-commit mode of its annotation and releases a   *)
(* clean connection.                                                       *)
CallInOrder(t) ==
    /\ phase[t] = "none" <=> outcome[t] # "running"
    /\ ~Holding(t) /\ outcome[t] \in {"new", "running"} => written[t] = 0
    /\ Holding(t) => (conn[t] \in manual <=> t \notin Unisolated)
    /\ phase[t] = "release" => pending[conn[t]] = {}
    /\ t \notin Unisolated => WritesAccounted(t)

CallsInOrder == \A t \in Transactions : CallInOrder(t)

WritesAreNumbered ==
    /\ \A c \in Connections : \A w \in pending[c] : w[2] <= written[w[1]]
    /\ \A w \in durable : w[2] <= written[w[1]]

BrokenIsClean == \A c \in broken : pending[c] = {}

WritesInv ==
    /\ NestInv
    /\ CleanInv
    /\ CallsInOrder
    /\ WritesAreNumbered
    /\ BrokenIsClean
    /\ PendingBelongsToHolder

LEMMA WritesInit == Init => WritesInv
<1> SUFFICES ASSUME Init PROVE WritesInv
  OBVIOUS
<1>1. NestInv /\ CleanInv
  BY NestInit, CleanInit
<1>2. CallsInOrder
  BY DEF Init, CallsInOrder, CallInOrder, WritesAccounted, Holding
<1> QED
  BY <1>1, <1>2 DEF Init, WritesInv, WritesAreNumbered, BrokenIsClean, PendingBelongsToHolder

LEMMA NumberedIsDone ==
    ASSUME TypeOK, NEW w \in Write, w[2] <= written[w[1]]
    PROVE  w \in WritesDone(w[1]) /\ w[1] \in Transactions /\ written[w[1]] # 0
<1>1. /\ w[1] \in Transactions /\ w[2] \in 1 .. MaxWrites /\ w = <<w[1], w[2]>>
      /\ written[w[1]] \in 0 .. MaxWrites
  BY DEF Write, TypeOK
<1>2. w[2] \in 1 .. written[w[1]] /\ written[w[1]] # 0
  BY <1>1, ConstantsAssumption
<1> QED
  BY <1>1, <1>2 DEF WritesDone

(* A transaction a step does not touch.                                    *)
LEMMA OrderStays ==
    ASSUME NEW t \in Transactions, CallInOrder(t),
           phase'[t] = phase[t], outcome'[t] = outcome[t], commit'[t] = commit[t],
           conn'[t] = conn[t], written'[t] = written[t],
           Holding(t) => /\ conn[t] \in manual' <=> conn[t] \in manual
                         /\ conn[t] \notin broken' => pending'[conn[t]] = pending[conn[t]]
                         /\ pending[conn[t]] = {} => pending'[conn[t]] = {}
                         /\ conn[t] \in broken => conn[t] \in broken',
           t \notin Unisolated => WritesKept(t)' = WritesKept(t)
    PROVE  CallInOrder(t)'
<1>1. WritesDone(t)' = WritesDone(t)
  BY DEF WritesDone
<1>2. t \notin Unisolated => WritesAccounted(t)'
  BY <1>1 DEF CallInOrder, WritesAccounted, Holding
<1> QED
  BY <1>2 DEF CallInOrder, Holding

(* Steps that write nothing, resolve nothing and end no call.              *)
LEMMA WritesStay ==
    ASSUME WritesInv, NestInv', CleanInv',
           pending' = pending, durable' = durable, written' = written, broken' = broken,
           outcome' = outcome,
           \A u \in Transactions :
              /\ Holding(u)' <=> Holding(u)
              /\ Holding(u) => /\ conn'[u] = conn[u]
                               /\ conn[u] \in manual' <=> conn[u] \in manual
              /\ phase'[u] = "none" <=> phase[u] = "none"
              /\ phase'[u] = "release" <=> phase[u] = "release"
              /\ phase[u] = "release" => commit'[u] = commit[u]
    PROVE  WritesInv'
<1>1. CallsInOrder'
  <2> SUFFICES ASSUME NEW u \in Transactions PROVE CallInOrder(u)'
    BY DEF CallsInOrder
  <2>1. CallInOrder(u)
    BY DEF WritesInv, CallsInOrder
  <2>2. WritesDone(u)' = WritesDone(u) /\ WritesKept(u)' = WritesKept(u)
    BY DEF WritesDone, WritesKept
  <2>3. phase'[u] \in {"body", "finally"} <=> phase[u] \in {"body", "finally"}
    BY DEF Holding
  <2>4. u \notin Unisolated => WritesAccounted(u)'
    BY <2>1, <2>2, <2>3 DEF CallInOrder, WritesAccounted, Holding
  <2> QED
    BY <2>1, <2>4 DEF CallInOrder, Holding
<1>2. WritesAreNumbered' /\ BrokenIsClean'
  BY DEF WritesInv, WritesAreNumbered, BrokenIsClean
<1>3. PendingBelongsToHolder'
  <2> SUFFICES ASSUME NEW c \in Connections, NEW w \in pending[c]
               PROVE  Holding(w[1])' /\ conn'[w[1]] = c
    BY DEF PendingBelongsToHolder
  <2>1. w[1] \in Transactions
    BY DEF WritesInv, NestInv, PoolInv, ControlInv, TypeOK, Write
  <2> QED
    BY <2>1 DEF WritesInv, PendingBelongsToHolder
<1> QED
  BY <1>1, <1>2, <1>3 DEF WritesInv

LEMMA WritesEnter ==
    ASSUME WritesInv, NestInv', CleanInv',
           NEW h \in Threads, NEW t \in Transactions, DoExecute(h, t)
    PROVE  WritesInv'
<1>0. TypeOK /\ TypeOK'
  BY DEF WritesInv, NestInv, PoolInv, ControlInv
<1>1. /\ outcome[t] = "new" /\ outcome'[t] = "running" /\ phase'[t] = "poll"
      /\ \A u \in Transactions : u # t => phase'[u] = phase[u] /\ outcome'[u] = outcome[u]
      /\ conn' = conn /\ commit' = commit /\ manual' = manual /\ pending' = pending
      /\ written' = written /\ durable' = durable /\ broken' = broken
  BY <1>0 DEF DoExecute, GoTo, dbVars, TypeOK
<1>2. CallInOrder(t) /\ phase[t] = "none" /\ ~Holding(t)
  BY <1>1 DEF WritesInv, CallsInOrder, CallInOrder, Holding
<1>3. CallInOrder(t)'
  BY <1>1, <1>2 DEF CallInOrder, WritesAccounted, Holding
<1>4. ASSUME NEW u \in Transactions, u # t PROVE CallInOrder(u)'
  BY <1>1, <1>4, OrderStays DEF WritesInv, CallsInOrder, WritesKept
<1>5. PendingBelongsToHolder'
  <2> SUFFICES ASSUME NEW c \in Connections, NEW w \in pending[c]
               PROVE  Holding(w[1])' /\ conn'[w[1]] = c
    BY <1>1 DEF PendingBelongsToHolder
  <2>1. w[1] \in Transactions /\ Holding(w[1]) /\ conn[w[1]] = c
    BY <1>0 DEF WritesInv, PendingBelongsToHolder, TypeOK, Write
  <2> QED
    BY <1>1, <1>2, <2>1 DEF Holding
<1> QED
  BY <1>1, <1>3, <1>4, <1>5
  DEF WritesInv, CallsInOrder, WritesAreNumbered, BrokenIsClean

(* The connection that is pushed is new to all calls that hold one.        *)
LEMMA WritesPush ==
    ASSUME WritesInv, NestInv', CleanInv',
           NEW h \in Threads, NEW t \in Transactions, At(h, t, "configure"),
           conn[t] \notin broken, GoTo(t, "body"),
           manual' = IF t \in Unisolated THEN manual \ {conn[t]} ELSE manual \cup {conn[t]},
           conn' = conn, commit' = commit, outcome' = outcome,
           pending' = pending, written' = written, durable' = durable, broken' = broken
    PROVE  WritesInv'
<1>0. TypeOK /\ TypeOK' /\ ControlInv
  BY DEF WritesInv, NestInv, PoolInv, ControlInv
<1>1. /\ phase[t] = "configure" /\ phase'[t] = "body"
      /\ \A u \in Transactions : u # t => phase'[u] = phase[u]
  BY <1>0 DEF At, GoTo, TypeOK
<1>2. conn[t] \in Connections /\ conn[t] # NoConnection /\ Allocating(t)
  BY <1>0, <1>1 DEF ControlInv, ConfigureHasConnection, TypeOK, Allocating
<1>3. \A u \in Transactions : Holding(u) => conn[u] # conn[t]
  <2>1. Absent(stack, conn[t])
    BY <1>2 DEF WritesInv, NestInv, PoolInv, ExclusiveConnections, AllocatingDisjoint
  <2> QED
    BY <2>1 DEF WritesInv, NestInv, HeldIsOnStack
<1>4. CallInOrder(t) /\ ~Holding(t)
  BY <1>1 DEF WritesInv, CallsInOrder, Holding
<1>5. outcome[t] = "running" /\ written[t] = 0
  <2>1. outcome[t] = "running"
    BY <1>1, <1>4 DEF CallInOrder
  <2> QED
    BY <1>4, <2>1 DEF CallInOrder
<1>6. WritesKept(t) = {}
  <2>1. ASSUME NEW w \in durable, w[1] = t PROVE FALSE
    <3>1. w \in Write /\ w[2] <= written[w[1]]
      BY <1>0 DEF WritesInv, WritesAreNumbered, TypeOK
    <3> QED
      BY <1>0, <1>5, <2>1, <3>1, NumberedIsDone
  <2> QED
    BY <2>1 DEF WritesKept
<1>7. CallInOrder(t)'
  <2>1. WritesKept(t)' = {}
    BY <1>6 DEF WritesKept
  <2>2. WritesDone(t)' = {}
    BY <1>5 DEF WritesDone
  <2>3. WritesAccounted(t)'
    BY <1>1, <1>5, <2>1, <2>2 DEF WritesAccounted
  <2>4. conn'[t] \in manual' <=> t \notin Unisolated
    OBVIOUS
  <2> QED
    BY <1>1, <1>5, <2>3, <2>4 DEF CallInOrder, Holding
<1>8. ASSUME NEW u \in Transactions, u # t PROVE CallInOrder(u)'
  <2>1. Holding(u) => (conn[u] \in manual' <=> conn[u] \in manual)
    BY <1>3
  <2>2. WritesKept(u)' = WritesKept(u)
    BY DEF WritesKept
  <2> QED
    BY <1>1, <1>8, <2>1, <2>2, OrderStays DEF WritesInv, CallsInOrder
<1>9. PendingBelongsToHolder'
  <2> SUFFICES ASSUME NEW c \in Connections, NEW w \in pending[c]
               PROVE  Holding(w[1])' /\ conn'[w[1]] = c
    BY DEF PendingBelongsToHolder
  <2>1. w[1] \in Transactions /\ Holding(w[1]) /\ conn[w[1]] = c
    BY <1>0 DEF WritesInv, PendingBelongsToHolder, TypeOK, Write
  <2> QED
    BY <1>1, <1>4, <2>1 DEF Holding
<1> QED
  BY <1>7, <1>8, <1>9 DEF WritesInv, CallsInOrder, WritesAreNumbered, BrokenIsClean

(* A statement writes on the connection the transaction holds.             *)
LEMMA BodyHolds ==
    ASSUME NestInv, NEW h \in Threads, NEW t \in Transactions,
           At(h, t, "body") \/ At(h, t, "finally") \/ At(h, t, "release")
    PROVE  /\ Holding(t) /\ stack[h] # <<>>
           /\ Head(stack[h]) = conn[t] /\ GetConnection(h) = conn[t]
           /\ conn[t] \in Connections
           /\ \A u \in Transactions : u # t /\ Holding(u) => conn[u] # conn[t]
<1>1. Holding(t) /\ calls[h] # <<>> /\ Head(calls[h]) = t
  BY DEF At, Holding
<1>2. stack[h] # <<>> /\ Head(stack[h]) = conn[t] /\ conn[t] \in Connections
  BY <1>1, TopIsHeld
<1> QED
  BY <1>1, <1>2 DEF GetConnection, NestInv, HoldersAreExclusive

LEMMA WritesWrite ==
    ASSUME WritesInv, NestInv', CleanInv',
           NEW h \in Threads, NEW t \in Transactions, BodyWrites(h, t)
    PROVE  WritesInv'
<1> DEFINE c == conn[t]
           n == written[t] + 1
           w == <<t, n>>
<1>0. TypeOK /\ TypeOK'
  BY DEF WritesInv, NestInv, PoolInv, ControlInv
<1>1. /\ GetConnection(h) = c /\ c \in Connections /\ Holding(t) /\ phase[t] = "body"
      /\ \A u \in Transactions : u # t /\ Holding(u) => conn[u] # c
  BY BodyHolds DEF BodyWrites, At, WritesInv
<1>2. /\ c \notin broken /\ phase' = phase /\ conn' = conn /\ commit' = commit
      /\ outcome' = outcome /\ manual' = manual /\ broken' = broken
      /\ written' = [written EXCEPT ![t] = n]
      /\ \/ /\ c \in manual /\ durable' = durable
            /\ pending' = [pending EXCEPT ![c] = @ \cup {w}]
         \/ /\ c \notin manual /\ pending' = pending
            /\ durable' = durable \cup {w}
  BY <1>1 DEF BodyWrites
<1>3. /\ written[t] \in Nat /\ written'[t] = n /\ n \in Nat /\ w[1] = t /\ w[2] = n
      /\ \A u \in Transactions : u # t => written'[u] = written[u]
      /\ \A u \in Transactions : written[u] \in Nat /\ written[u] <= written'[u]
  <2>1. \A u \in Transactions : written[u] \in Nat
    BY <1>0, ConstantsAssumption DEF TypeOK
  <2> QED
    BY <1>0, <1>2, <2>1 DEF TypeOK
<1>4. /\ CallInOrder(t) /\ (c \in manual <=> t \notin Unisolated)
  BY <1>1 DEF WritesInv, CallsInOrder, CallInOrder
<1>5. \A d \in Connections : d # c => pending'[d] = pending[d]
  BY <1>0, <1>2 DEF TypeOK
<1>6. c \in manual => pending'[c] = pending[c] \cup {w}
  BY <1>0, <1>1, <1>2 DEF TypeOK
<1> HIDE DEF w, n, c
<1>7. CallInOrder(t)'
  <2>1. ASSUME t \notin Unisolated PROVE WritesAccounted(t)'
    <3>1. WritesKept(t) = {} /\ WritesDone(t) \subseteq pending[c]
      BY <1>1, <1>2, <1>4, <2>1 DEF CallInOrder, WritesAccounted, c
    <3>2. WritesKept(t)' = {}
      BY <1>2, <1>4, <2>1, <3>1 DEF WritesKept
    <3>3. WritesDone(t)' \subseteq pending'[c]
      <4> SUFFICES ASSUME NEW i \in 1 .. written'[t] PROVE <<t, i>> \in pending'[c]
        BY DEF WritesDone
      <4>1. i = n \/ i \in 1 .. written[t]
        BY <1>3 DEF n
      <4>2. CASE i = n
        BY <1>4, <1>6, <2>1, <4>2 DEF w
      <4>3. CASE i \in 1 .. written[t]
        BY <1>4, <1>6, <2>1, <3>1, <4>3 DEF WritesDone
      <4> QED
        BY <4>1, <4>2, <4>3
    <3> QED
      BY <1>1, <1>2, <1>4, <2>1, <3>2, <3>3 DEF WritesAccounted, CallInOrder, c
  <2> QED
    BY <1>1, <1>2, <1>4, <2>1 DEF CallInOrder, Holding, c
<1>8. ASSUME NEW u \in Transactions, u # t PROVE CallInOrder(u)'
  <2>1. WritesKept(u)' = WritesKept(u)
    BY <1>2, <1>3, <1>8 DEF WritesKept
  <2>2. Holding(u) => conn[u] \in Connections
    BY DEF WritesInv, NestInv, HeldIsOnStack
  <2> QED
    BY <1>1, <1>2, <1>3, <1>5, <1>8, <2>1, <2>2, OrderStays DEF WritesInv, CallsInOrder
<1>9. \A v \in Write : v[1] \in Transactions
  BY DEF Write
<1>10. WritesAreNumbered'
  <2>1. ASSUME NEW v \in Write, v[2] <= written[v[1]] PROVE v[2] <= written'[v[1]]
    <3>1. v[1] \in Transactions /\ v[2] \in Nat
      BY ConstantsAssumption DEF Write
    <3>2. written[v[1]] \in Nat /\ written'[v[1]] \in Nat /\ written[v[1]] <= written'[v[1]]
      BY <1>3, <3>1
    <3> QED
      BY <2>1, <3>1, <3>2
  <2>2. w[2] <= written'[w[1]]
    BY <1>3
  <2>3. ASSUME NEW d \in Connections, NEW v \in pending'[d] PROVE v[2] <= written'[v[1]]
    <3>1. v = w \/ v \in pending[d]
      BY <1>2, <1>5, <1>6, <2>3
    <3>2. v \in pending[d] => v \in Write /\ v[2] <= written[v[1]]
      BY <1>0 DEF WritesInv, WritesAreNumbered, TypeOK
    <3> QED
      BY <2>1, <2>2, <3>1, <3>2
  <2>4. ASSUME NEW v \in durable' PROVE v[2] <= written'[v[1]]
    <3>1. v = w \/ v \in durable
      BY <1>2, <2>4
    <3>2. v \in durable => v \in Write /\ v[2] <= written[v[1]]
      BY <1>0 DEF WritesInv, WritesAreNumbered, TypeOK
    <3> QED
      BY <2>1, <2>2, <3>1, <3>2
  <2> QED
    BY <2>3, <2>4 DEF WritesAreNumbered
<1>11. BrokenIsClean'
  BY <1>0, <1>1, <1>2, <1>5 DEF WritesInv, BrokenIsClean, TypeOK
<1>12. PendingBelongsToHolder'
  <2> SUFFICES ASSUME NEW d \in Connections, NEW v \in pending'[d]
               PROVE  Holding(v[1])' /\ conn'[v[1]] = d
    BY DEF PendingBelongsToHolder
  <2>1. v \in pending[d] \/ (v = w /\ d = c)
    BY <1>2, <1>5, <1>6
  <2>2. v \in pending[d] => Holding(v[1]) /\ conn[v[1]] = d
    BY DEF WritesInv, PendingBelongsToHolder
  <2> QED
    BY <1>1, <1>2, <1>3, <2>1, <2>2 DEF Holding, c
<1> QED
  BY <1>7, <1>8, <1>10, <1>11, <1>12 DEF WritesInv, CallsInOrder

(* The steps that resolve what is pending on the connection of t: the      *)
(* writes of the other transactions are on other connections.              *)
LEMMA WritesResolve ==
    ASSUME WritesInv, NestInv', CleanInv', NEW t \in Transactions, Holding(t),
           conn[t] \in Connections, NEW kept,
           kept = {} \/ kept = pending[conn[t]],
           \A u \in Transactions : u # t /\ Holding(u) => conn[u] # conn[t],
           \A u \in Transactions : u # t => /\ phase'[u] = phase[u]
                                            /\ conn'[u] = conn[u]
                                            /\ outcome'[u] = outcome[u],
           commit' = commit, manual' = manual, written' = written, broken' = broken,
           durable' = durable \cup kept,
           pending' = [pending EXCEPT ![conn[t]] = {}],
           CallInOrder(t)'
    PROVE  WritesInv'
<1>0. TypeOK
  BY DEF WritesInv, NestInv, PoolInv, ControlInv
<1>1. /\ pending'[conn[t]] = {}
      /\ \A d \in Connections : d # conn[t] => pending'[d] = pending[d]
  BY <1>0 DEF TypeOK
<1>2. \A v \in kept : v[1] = t
  BY DEF WritesInv, PendingBelongsToHolder, NestInv, HoldersAreExclusive, TypeOK, Write,
         PoolInv, ControlInv
<1>3. ASSUME NEW u \in Transactions, u # t PROVE CallInOrder(u)'
  <2>1. WritesKept(u)' = WritesKept(u)
    BY <1>2, <1>3 DEF WritesKept
  <2>2. Holding(u) => conn[u] \in Connections
    BY DEF WritesInv, NestInv, HeldIsOnStack
  <2> QED
    BY <1>1, <1>3, <2>1, <2>2, OrderStays DEF WritesInv, CallsInOrder
<1>4. WritesAreNumbered'
  <2>1. \A v \in kept : v[2] <= written[v[1]]
    BY DEF WritesInv, WritesAreNumbered
  <2> QED
    BY <1>1, <2>1 DEF WritesInv, WritesAreNumbered
<1>5. BrokenIsClean'
  BY <1>0, <1>1 DEF WritesInv, BrokenIsClean, TypeOK
<1>6. PendingBelongsToHolder'
  <2> SUFFICES ASSUME NEW d \in Connections, NEW v \in pending'[d]
               PROVE  Holding(v[1])' /\ conn'[v[1]] = d
    BY DEF PendingBelongsToHolder
  <2>1. d # conn[t] /\ v \in pending[d]
    BY <1>1
  <2>2. v[1] \in Transactions /\ Holding(v[1]) /\ conn[v[1]] = d
    BY <1>0, <2>1 DEF WritesInv, PendingBelongsToHolder, TypeOK, Write
  <2>3. v[1] # t
    BY <2>1, <2>2
  <2> QED
    BY <2>2, <2>3 DEF Holding
<1> QED
  BY <1>3, <1>4, <1>5, <1>6 DEF WritesInv, CallsInOrder

LEMMA WritesEnd ==
    ASSUME WritesInv, NestInv', CleanInv',
           NEW h \in Threads, NEW t \in Transactions, EndResolves(h, t)
    PROVE  WritesInv'
<1> DEFINE c == conn[t]
<1>0. TypeOK
  BY DEF WritesInv, NestInv, PoolInv, ControlInv
<1>1. /\ Head(stack[h]) = c /\ c \in Connections /\ Holding(t) /\ phase[t] = "finally"
      /\ \A u \in Transactions : u # t /\ Holding(u) => conn[u] # c
  BY BodyHolds DEF EndResolves, At, WritesInv
<1>2. /\ c \in manual => c \notin broken
      /\ durable' = IF c \in manual /\ commit[t] THEN durable \cup pending[c] ELSE durable
      /\ pending' = IF c \in manual THEN [pending EXCEPT ![c] = {}] ELSE pending
      /\ conn' = conn /\ commit' = commit /\ outcome' = outcome /\ manual' = manual
      /\ written' = written /\ broken' = broken
      /\ phase'[t] = "release" /\ \A u \in Transactions : u # t => phase'[u] = phase[u]
  BY <1>0, <1>1 DEF EndResolves, GoTo, TypeOK
<1>3. CallInOrder(t) /\ (c \in manual <=> t \notin Unisolated)
  BY <1>1 DEF WritesInv, CallsInOrder, CallInOrder
<1>4. pending' = [pending EXCEPT ![c] = {}] /\ pending'[c] = {}
  <2>1. c \notin manual => pending[c] = {}
    BY <1>1 DEF WritesInv, CleanInv, PendingIsOnStack
  <2> QED
    BY <1>0, <1>1, <1>2, <2>1 DEF TypeOK
<1>5. PICK kept : /\ durable' = durable \cup kept
                  /\ kept = IF c \in manual /\ commit[t] THEN pending[c] ELSE {}
  BY <1>2
<1>6. t \notin Unisolated => WritesAccounted(t)'
  <2> SUFFICES ASSUME t \notin Unisolated
               PROVE  WritesKept(t)' = IF commit[t] THEN WritesDone(t)' ELSE {}
    BY <1>1, <1>2, <1>3 DEF WritesAccounted, CallInOrder
  <2>1. WritesKept(t) = {} /\ WritesDone(t) \subseteq pending[c]
    BY <1>1, <1>2, <1>3 DEF CallInOrder, WritesAccounted
  <2>2. WritesDone(t)' = WritesDone(t) /\ \A v \in WritesDone(t) : v[1] = t
    BY <1>2 DEF WritesDone
  <2>3. ASSUME NEW v \in pending[c], v[1] = t PROVE v \in WritesDone(t)
    <3>1. v \in Write /\ v[2] <= written[v[1]]
      BY <1>0, <1>1 DEF WritesInv, WritesAreNumbered, TypeOK
    <3> QED
      BY <1>0, <2>3, <3>1, NumberedIsDone
  <2>4. WritesKept(t)' = {v \in kept : v[1] = t}
    BY <1>5, <2>1 DEF WritesKept
  <2>5. CASE commit[t]
    <3>1. kept = pending[c]
      BY <1>3, <1>5, <2>5
    <3>2. {v \in kept : v[1] = t} = WritesDone(t)
      BY <2>1, <2>2, <2>3, <3>1
    <3> QED
      BY <2>2, <2>4, <2>5, <3>2
  <2>6. CASE ~commit[t]
    BY <1>5, <2>4, <2>6
  <2> QED
    BY <2>5, <2>6
<1>7. CallInOrder(t)'
  BY <1>1, <1>2, <1>3, <1>4, <1>6 DEF CallInOrder, Holding
<1> QED
  BY <1>1, <1>2, <1>4, <1>5, <1>7, WritesResolve

LEMMA WritesEndFails ==
    ASSUME WritesInv, NestInv', CleanInv',
           NEW h \in Threads, NEW t \in Transactions, EndFails(h, t)
    PROVE  WritesInv'
<1> DEFINE c == conn[t]
<1>0. TypeOK
  BY DEF WritesInv, NestInv, PoolInv, ControlInv
<1>1. /\ Head(stack[h]) = c /\ c \in Connections /\ Holding(t) /\ phase[t] = "finally"
      /\ \A u \in Transactions : u # t /\ Holding(u) => conn[u] # c
  BY BodyHolds DEF EndFails, At, WritesInv
<1>2. /\ pending' = [pending EXCEPT ![c] = {}] /\ durable' = durable
      /\ commit' = commit /\ manual' = manual /\ written' = written /\ broken' = broken
      /\ phase'[t] = "none" /\ outcome'[t] = "threw"
      /\ \A u \in Transactions : u # t => /\ phase'[u] = phase[u] /\ conn'[u] = conn[u]
                                          /\ outcome'[u] = outcome[u]
  BY <1>0, <1>1 DEF EndFails, Leave, GoTo, TypeOK
<1>3. CallInOrder(t)
  BY DEF WritesInv, CallsInOrder
<1>4. t \notin Unisolated => WritesKept(t)' = {}
  BY <1>1, <1>2, <1>3 DEF CallInOrder, WritesAccounted, WritesKept
<1>5. CallInOrder(t)'
  BY <1>2, <1>4 DEF CallInOrder, WritesAccounted, Holding
<1>6. durable' = durable \cup {}
  BY <1>2
<1> QED
  BY <1>1, <1>2, <1>5, <1>6, WritesResolve

LEMMA WritesRelease ==
    ASSUME WritesInv, NestInv', CleanInv',
           NEW h \in Threads, NEW t \in Transactions, ReleaseConnection(h, t)
    PROVE  WritesInv'
<1> DEFINE c == conn[t]
<1>0. TypeOK
  BY DEF WritesInv, NestInv, PoolInv, ControlInv
<1>1. /\ c \in Connections /\ Holding(t) /\ phase[t] = "release"
      /\ \A u \in Transactions : u # t /\ Holding(u) => conn[u] # c
  BY BodyHolds DEF ReleaseConnection, At, WritesInv
<1>2. /\ pending' = pending /\ durable' = durable
      /\ commit' = commit /\ manual' = manual /\ written' = written /\ broken' = broken
      /\ phase'[t] = "none" /\ outcome'[t] = Result(t)
      /\ \A u \in Transactions : u # t => /\ phase'[u] = phase[u] /\ conn'[u] = conn[u]
                                          /\ outcome'[u] = outcome[u]
  BY <1>0 DEF ReleaseConnection, Leave, GoTo, dbVars, TypeOK
<1>3. CallInOrder(t)
  BY DEF WritesInv, CallsInOrder
<1>4. pending[c] = {} /\ pending' = [pending EXCEPT ![c] = {}]
  BY <1>0, <1>1, <1>2, <1>3 DEF CallInOrder, TypeOK
<1>5. WritesKept(t)' = WritesKept(t) /\ WritesDone(t)' = WritesDone(t)
  BY <1>2 DEF WritesKept, WritesDone
<1>6. CallInOrder(t)'
  BY <1>1, <1>2, <1>3, <1>5 DEF CallInOrder, WritesAccounted, Holding, Result
<1>7. durable' = durable \cup {}
  BY <1>2
<1> QED
  BY <1>1, <1>2, <1>4, <1>6, <1>7, WritesResolve

LEMMA WritesBreak ==
    ASSUME WritesInv, NestInv', CleanInv', NEW c \in Connections, ConnectionBreaks(c)
    PROVE  WritesInv'
<1>0. TypeOK
  BY DEF WritesInv, NestInv, PoolInv, ControlInv
<1>1. /\ broken' = broken \cup {c} /\ pending'[c] = {}
      /\ \A d \in Connections : d # c => pending'[d] = pending[d]
      /\ phase' = phase /\ conn' = conn /\ commit' = commit /\ outcome' = outcome
      /\ manual' = manual /\ written' = written /\ durable' = durable
  BY <1>0 DEF ConnectionBreaks, TypeOK
<1>2. ASSUME NEW u \in Transactions PROVE CallInOrder(u)'
  <2>1. WritesKept(u)' = WritesKept(u)
    BY <1>1 DEF WritesKept
  <2>2. Holding(u) => conn[u] \in Connections
    BY DEF WritesInv, NestInv, HeldIsOnStack
  <2> QED
    BY <1>1, <2>1, <2>2, OrderStays DEF WritesInv, CallsInOrder
<1>3. PendingBelongsToHolder'
  <2> SUFFICES ASSUME NEW d \in Connections, NEW v \in pending'[d]
               PROVE  Holding(v[1])' /\ conn'[v[1]] = d
    BY DEF PendingBelongsToHolder
  <2>1. v \in pending[d]
    BY <1>1
  <2> QED
    BY <1>1, <2>1 DEF WritesInv, PendingBelongsToHolder, Holding
<1>4. WritesAreNumbered'
  BY <1>1 DEF WritesInv, WritesAreNumbered
<1>5. BrokenIsClean'
  BY <1>0, <1>1 DEF WritesInv, BrokenIsClean, TypeOK
<1> QED
  BY <1>2, <1>3, <1>4, <1>5 DEF WritesInv, CallsInOrder

LEMMA WritesStep ==
    ASSUME NoFailureWhenNested, WritesInv, [Next]_vars
    PROVE  WritesInv'
<1>0. /\ NestInv /\ NestInv' /\ CleanInv' /\ TypeOK /\ ControlInv
  BY NestStep, CleanStep DEF WritesInv, NestInv, PoolInv, ControlInv
<1>1. ASSUME NEW h \in Threads, NEW t \in Transactions, DoExecute(h, t)
      PROVE  WritesInv'
  BY <1>0, <1>1, WritesEnter
<1>2. ASSUME NEW h \in Threads, NEW t \in Transactions,
             \/ PollConnection(h, t) \/ ValidateConnection(h, t) \/ WaitForConnection(h, t)
             \/ BodyReturns(h, t) \/ BodyThrows(h, t)
      PROVE  WritesInv'
  <2>1. /\ pending' = pending /\ durable' = durable /\ written' = written
        /\ broken' = broken /\ outcome' = outcome /\ manual' = manual
    BY <1>2
    DEF PollConnection, ValidateConnection, WaitForConnection, BodyReturns, BodyThrows,
        dbVars
  <2>2. /\ \A u \in Transactions : u # t => /\ phase'[u] = phase[u] /\ conn'[u] = conn[u]
                                            /\ commit'[u] = commit[u]
        /\ Holding(t) => conn' = conn
        /\ Holding(t)' <=> Holding(t)
        /\ phase[t] \notin {"none", "release"} /\ phase'[t] \notin {"none", "release"}
    BY <1>0, <1>2
    DEF PollConnection, ValidateConnection, WaitForConnection, BodyReturns, BodyThrows,
        At, GoTo, Holding, TypeOK
  <2> QED
    BY <1>0, <2>1, <2>2, WritesStay DEF Holding
<1>3. ASSUME NEW h \in Threads, NEW t \in Transactions, ConfigureConnection(h, t)
      PROVE  WritesInv'
  <2>1. /\ pending' = pending /\ durable' = durable /\ written' = written
        /\ broken' = broken /\ outcome' = outcome /\ conn' = conn /\ commit' = commit
        /\ At(h, t, "configure")
    BY <1>3 DEF ConfigureConnection
  <2>2. CASE conn[t] \in broken
    <3>1. GoTo(t, "wait") /\ manual' = manual
      BY <1>3, <2>2 DEF ConfigureConnection
    <3>2. \A u \in Transactions : \/ phase'[u] = phase[u]
                                  \/ phase[u] = "configure" /\ phase'[u] = "wait"
      BY <1>0, <2>1, <3>1 DEF At, GoTo, TypeOK
    <3> QED
      BY <1>0, <2>1, <3>1, <3>2, WritesStay DEF Holding
  <2>3. CASE conn[t] \notin broken
    BY <1>0, <1>3, <2>1, <2>3, WritesPush DEF ConfigureConnection
  <2> QED
    BY <2>2, <2>3
<1>4. ASSUME NEW h \in Threads, NEW t \in Transactions, BodyWrites(h, t)
      PROVE  WritesInv'
  BY <1>0, <1>4, WritesWrite
<1>5. ASSUME NEW h \in Threads, NEW t \in Transactions, EndResolves(h, t)
      PROVE  WritesInv'
  BY <1>0, <1>5, WritesEnd
<1>6. ASSUME NEW h \in Threads, NEW t \in Transactions, EndFails(h, t)
      PROVE  WritesInv'
  BY <1>0, <1>6, WritesEndFails
<1>7. ASSUME NEW h \in Threads, NEW t \in Transactions, ReleaseConnection(h, t)
      PROVE  WritesInv'
  BY <1>0, <1>7, WritesRelease
<1>8. ASSUME NEW c \in Connections, ConnectionBreaks(c)
      PROVE  WritesInv'
  BY <1>0, <1>8, WritesBreak
<1>9. CASE UNCHANGED vars
  BY <1>0, <1>9, WritesStay DEF vars, Holding
<1> QED
  BY <1>1, <1>2, <1>3, <1>4, <1>5, <1>6, <1>7, <1>8, <1>9 DEF Next, Step, Body

LEMMA WritesCorrect ==
    ASSUME NoFailureWhenNested PROVE Spec => []WritesInv
  BY WritesInit, WritesStep, PTL DEF Spec

(* Uncommitted writes are only ever on the connection of the transaction   *)
(* that has done them.                                                     *)
THEOREM WritesAreOnOwnConnection ==
    ASSUME NoFailureWhenNested PROVE Spec => []PendingBelongsToHolder
<1>1. WritesInv => PendingBelongsToHolder
  BY DEF WritesInv
<1> QED
  BY <1>1, WritesCorrect, PTL

(* All or nothing, for any number of threads and transactions: nested at   *)
(* will on a database that does not fail; not nested on one that drops     *)
(* connections and fails commits at any moment.                            *)
THEOREM TransactionsAreAtomic ==
    ASSUME NoFailureWhenNested PROVE Spec => []AllOrNothing
<1>1. ASSUME WritesInv PROVE AllOrNothing
  <2> SUFFICES ASSUME NEW t \in Transactions \ Unisolated
               PROVE  /\ outcome[t] = "returned" => WritesKept(t) = WritesDone(t)
                      /\ outcome[t] = "threw" => WritesKept(t) = {}
                      /\ outcome[t] = "running" /\ phase[t] # "release"
                            => WritesKept(t) = {}
    BY DEF AllOrNothing
  <2>0. TypeOK
    BY <1>1 DEF WritesInv, NestInv, PoolInv, ControlInv
  <2>1. CallInOrder(t) /\ WritesAccounted(t)
    BY <1>1 DEF WritesInv, CallsInOrder, CallInOrder
  <2>2. ASSUME outcome[t] = "running", ~Holding(t) PROVE WritesKept(t) = {}
    <3>1. written[t] = 0
      BY <2>1, <2>2 DEF CallInOrder
    <3>2. \A w \in durable : w \in Write /\ w[2] <= written[w[1]]
      BY <1>1, <2>0 DEF WritesInv, WritesAreNumbered, TypeOK
    <3> QED
      BY <2>0, <3>1, <3>2, NumberedIsDone DEF WritesKept
  <2> QED
    BY <2>1, <2>2 DEF WritesAccounted, Holding
<1> QED
  BY <1>1, WritesCorrect, PTL

-----------------------------------------------------------------------------
(* The abstract view of one transaction: what it has staged is what is     *)
(* pending on its connection.                                              *)
LEMMA StagedIsPending ==
    ASSUME WritesInv, NEW t \in Transactions
    PROVE  Staged(t) = IF Holding(t) THEN pending[conn[t]] ELSE {}
<1>1. ASSUME NEW c \in Connections, NEW w \in pending[c]
      PROVE  w[1] = t <=> Holding(t) /\ conn[t] = c
  <2>1. w[1] \in Transactions /\ Holding(w[1]) /\ conn[w[1]] = c
    BY DEF WritesInv, PendingBelongsToHolder, NestInv, PoolInv, ControlInv, TypeOK, Write
  <2> QED
    BY <2>1 DEF WritesInv, NestInv, HoldersAreExclusive
<1>2. Holding(t) => conn[t] \in Connections
  BY DEF WritesInv, NestInv, HeldIsOnStack
<1> QED
  BY <1>1, <1>2 DEF Staged

(* Of the transactions a step does not touch the view is the same.         *)
LEMMA ViewStays ==
    ASSUME WritesInv, WritesInv', NEW t \in Transactions,
           phase'[t] = phase[t], outcome'[t] = outcome[t], commit'[t] = commit[t],
           conn'[t] = conn[t],
           Holding(t) => /\ pending'[conn[t]] = pending[conn[t]]
                         /\ conn[t] \in manual' <=> conn[t] \in manual
                         /\ conn[t] \in broken' <=> conn[t] \in broken
    PROVE  Status(t)' = Status(t) /\ Staged(t)' = Staged(t)
<1>1. Status(t)' = Status(t)
  BY DEF Status, Holding
<1>2. Holding(t)' <=> Holding(t)
  BY DEF Holding
<1>3. Staged(t)' = (IF Holding(t) THEN pending[conn[t]] ELSE {})'
  <2>1. (WritesInv => Staged(t) = IF Holding(t) THEN pending[conn[t]] ELSE {})'
    BY StagedIsPending, PTL
  <2> QED
    BY <2>1
<1> QED
  BY <1>1, <1>2, <1>3, StagedIsPending

ViewedStatus == [t \in Transactions |-> Status(t)]
ViewedStaged == [t \in Transactions |-> Staged(t)]

ViewStep == [Atomic!Next]_<<ViewedStatus, ViewedStaged, durable>>

LEMMA NoViewChange ==
    ASSUME \A u \in Transactions : Status(u)' = Status(u) /\ Staged(u)' = Staged(u),
           durable' = durable
    PROVE  ViewStep
  BY DEF ViewStep, ViewedStatus, ViewedStaged

(* A change of one transaction.                                            *)
LEMMA OneViewChange ==
    ASSUME NEW t \in Transactions, NEW a, NEW s, Status(t)' = a, Staged(t)' = s,
           \A u \in Transactions : u # t => Status(u)' = Status(u) /\ Staged(u)' = Staged(u)
    PROVE  /\ ViewedStatus' = [ViewedStatus EXCEPT ![t] = a]
           /\ ViewedStaged' = [ViewedStaged EXCEPT ![t] = s]
           /\ ViewedStatus[t] = Status(t) /\ ViewedStaged[t] = Staged(t)
  BY DEF ViewedStatus, ViewedStaged

LEMMA ViewCommits ==
    ASSUME NEW t \in Transactions, Status(t) = "active", Status(t)' = "committed",
           Staged(t)' = {}, durable' = durable \cup Staged(t),
           \A u \in Transactions : u # t => Status(u)' = Status(u) /\ Staged(u)' = Staged(u)
    PROVE  ViewStep
<1>1. /\ ViewedStatus' = [ViewedStatus EXCEPT ![t] = "committed"]
      /\ ViewedStaged' = [ViewedStaged EXCEPT ![t] = {}]
      /\ ViewedStatus[t] = Status(t) /\ ViewedStaged[t] = Staged(t)
  BY OneViewChange
<1>2. Atomic!Commit(t)
  BY <1>1 DEF Atomic!Commit, ViewedStatus, ViewedStaged
<1> QED
  BY <1>2 DEF ViewStep, Atomic!Next

LEMMA ViewAborts ==
    ASSUME NEW t \in Transactions, Status(t) = "active", Status(t)' = "aborted",
           Staged(t)' = {}, durable' = durable,
           \A u \in Transactions : u # t => Status(u)' = Status(u) /\ Staged(u)' = Staged(u)
    PROVE  ViewStep
<1>1. /\ ViewedStatus' = [ViewedStatus EXCEPT ![t] = "aborted"]
      /\ ViewedStaged' = [ViewedStaged EXCEPT ![t] = {}]
      /\ ViewedStatus[t] = Status(t)
  BY OneViewChange
<1>2. Atomic!Abort(t)
  BY <1>1 DEF Atomic!Abort, ViewedStatus, ViewedStaged
<1> QED
  BY <1>2 DEF ViewStep, Atomic!Next

LEMMA ViewBegins ==
    ASSUME NEW t \in Transactions, Status(t) = "new", Status(t)' = "active",
           Staged(t)' = Staged(t), durable' = durable,
           \A u \in Transactions : u # t => Status(u)' = Status(u) /\ Staged(u)' = Staged(u)
    PROVE  ViewStep
<1>1. /\ ViewedStatus' = [ViewedStatus EXCEPT ![t] = "active"]
      /\ ViewedStatus[t] = Status(t)
  BY OneViewChange
<1>2. ViewedStaged' = ViewedStaged
  BY DEF ViewedStaged
<1>3. Atomic!Begin(t)
  BY <1>1, <1>2 DEF Atomic!Begin, ViewedStatus, ViewedStaged
<1> QED
  BY <1>3 DEF ViewStep, Atomic!Next

LEMMA ViewWrites ==
    ASSUME NEW t \in Transactions, NEW i \in 1 .. MaxWrites, Status(t) = "active",
           Status(t)' = Status(t), <<t, i>> \notin Staged(t) \cup durable,
           \/ /\ t \in Unisolated /\ durable' = durable \cup {<<t, i>>}
              /\ Staged(t)' = Staged(t)
           \/ /\ t \notin Unisolated /\ durable' = durable
              /\ Staged(t)' = Staged(t) \cup {<<t, i>>},
           \A u \in Transactions : u # t => Status(u)' = Status(u) /\ Staged(u)' = Staged(u)
    PROVE  ViewStep
<1>1. ViewedStatus' = ViewedStatus /\ ViewedStatus[t] = Status(t) /\ ViewedStaged[t] = Staged(t)
  BY DEF ViewedStatus, ViewedStaged
<1>2. CASE t \in Unisolated
  <2>1. ViewedStaged' = ViewedStaged
    BY <1>2 DEF ViewedStaged
  <2>2. Atomic!Writes(t, i)
    BY <1>1, <1>2, <2>1 DEF Atomic!Writes, ViewedStatus, ViewedStaged
  <2> QED
    BY <2>2 DEF ViewStep, Atomic!Next
<1>3. CASE t \notin Unisolated
  <2>1. ViewedStaged' = [ViewedStaged EXCEPT ![t] = @ \cup {<<t, i>>}]
    BY <1>1, <1>3 DEF ViewedStaged
  <2>2. Atomic!Writes(t, i)
    BY <1>1, <1>3, <2>1 DEF Atomic!Writes, ViewedStatus, ViewedStaged
  <2> QED
    BY <2>2 DEF ViewStep, Atomic!Next
<1> QED
  BY <1>2, <1>3


LEMMA StagedIsPendingNext ==
    ASSUME WritesInv', NEW t \in Transactions
    PROVE  Staged(t)' = IF Holding(t)' THEN pending'[conn'[t]] ELSE {}
<1>1. (WritesInv => Staged(t) = IF Holding(t) THEN pending[conn[t]] ELSE {})'
  BY StagedIsPending, PTL
<1> QED
  BY <1>1

(* Before execute() begins a transaction has staged nothing and is active. *)
LEMMA AllocatesUnseen ==
    ASSUME WritesInv, WritesInv', NEW h \in Threads, NEW t \in Transactions,
           \/ PollConnection(h, t) \/ ValidateConnection(h, t)
           \/ ConfigureConnection(h, t) \/ WaitForConnection(h, t)
    PROVE  ViewStep
<1>0. TypeOK /\ ControlInv /\ NestInv
  BY DEF WritesInv, NestInv, PoolInv, ControlInv
<1>1. /\ pending' = pending /\ durable' = durable /\ broken' = broken
      /\ outcome' = outcome /\ commit' = commit
      /\ \A u \in Transactions : u # t => phase'[u] = phase[u] /\ conn'[u] = conn[u]
      /\ phase[t] \in {"poll", "validate", "configure", "wait"}
      /\ \/ phase'[t] \in {"poll", "validate", "configure", "wait"} /\ manual' = manual
         \/ /\ phase[t] = "configure" /\ phase'[t] = "body" /\ conn' = conn
            /\ conn[t] \notin broken
            /\ \A c \in Connections : c # conn[t] => (c \in manual' <=> c \in manual)
  BY <1>0
  DEF PollConnection, ValidateConnection, ConfigureConnection, WaitForConnection,
      At, GoTo, dbVars, TypeOK
<1>2. outcome[t] = "running"
  BY <1>1 DEF WritesInv, CallsInOrder, CallInOrder
<1>3. Status(t) = "active" /\ Status(t)' = "active"
  BY <1>1, <1>2 DEF Status
<1>4. Staged(t) = {}
  BY <1>1, StagedIsPending DEF Holding
<1>5. Staged(t)' = {}
  <2>1. CASE phase'[t] # "body"
    BY <1>1, <2>1, StagedIsPendingNext DEF Holding
  <2>2. CASE phase'[t] = "body"
    <3>1. phase[t] = "configure" /\ conn' = conn
      BY <1>1, <2>2
    <3>2. conn[t] \in Connections /\ conn[t] # NoConnection
      BY <1>0, <3>1 DEF ControlInv, ConfigureHasConnection, TypeOK
    <3>3. Absent(stack, conn[t])
      BY <3>1, <3>2
      DEF WritesInv, NestInv, PoolInv, ExclusiveConnections, AllocatingDisjoint, Allocating
    <3>4. pending[conn[t]] = {}
      BY <3>2, <3>3 DEF WritesInv, CleanInv, PendingIsOnStack
    <3> QED
      BY <1>1, <2>2, <3>1, <3>4, StagedIsPendingNext DEF Holding
  <2> QED
    BY <2>1, <2>2
<1>6. ASSUME NEW u \in Transactions, u # t
      PROVE  Status(u)' = Status(u) /\ Staged(u)' = Staged(u)
  <2>1. Holding(u) => (conn[u] \in manual' <=> conn[u] \in manual)
    <3>1. CASE phase[t] = "configure"
      <4>1. conn[t] \in Connections /\ conn[t] # NoConnection
        BY <1>0, <3>1 DEF ControlInv, ConfigureHasConnection, TypeOK
      <4>2. Absent(stack, conn[t])
        BY <3>1, <4>1
        DEF WritesInv, NestInv, PoolInv, ExclusiveConnections, AllocatingDisjoint, Allocating
      <4>3. Holding(u) => conn[u] \in Connections /\ conn[u] # conn[t]
        BY <4>2 DEF WritesInv, NestInv, HeldIsOnStack
      <4> QED
        BY <1>1, <4>3
    <3>2. CASE phase[t] # "configure"
      BY <1>1, <3>2
    <3> QED
      BY <3>1, <3>2
  <2> QED
    BY <1>1, <1>6, <2>1, ViewStays
<1> QED
  BY <1>1, <1>3, <1>4, <1>5, <1>6, NoViewChange

LEMMA WritesSeen ==
    ASSUME WritesInv, WritesInv', NEW h \in Threads, NEW t \in Transactions, BodyWrites(h, t)
    PROVE  ViewStep
<1> DEFINE c == conn[t]
           n == written[t] + 1
           w == <<t, n>>
<1>0. TypeOK /\ TypeOK' /\ NestInv
  BY DEF WritesInv, NestInv, PoolInv, ControlInv
<1>1. /\ GetConnection(h) = c /\ c \in Connections /\ Holding(t) /\ phase[t] = "body"
      /\ \A u \in Transactions : u # t /\ Holding(u) => conn[u] # c
  BY BodyHolds DEF BodyWrites, At, WritesInv
<1>2. /\ c \notin broken /\ phase' = phase /\ conn' = conn /\ commit' = commit
      /\ outcome' = outcome /\ manual' = manual /\ broken' = broken
      /\ written[t] < MaxWrites
      /\ \/ /\ c \in manual /\ durable' = durable
            /\ pending' = [pending EXCEPT ![c] = @ \cup {w}]
         \/ /\ c \notin manual /\ pending' = pending
            /\ durable' = durable \cup {w}
  BY <1>1 DEF BodyWrites
<1>3. (c \in manual <=> t \notin Unisolated) /\ outcome[t] = "running"
  BY <1>1 DEF WritesInv, CallsInOrder, CallInOrder
<1>4. Status(t) = "active" /\ Status(t)' = Status(t)
  BY <1>1, <1>2, <1>3 DEF Status
<1>5. Staged(t) = pending[c] /\ Staged(t)' = pending'[c]
  BY <1>1, <1>2, StagedIsPending, StagedIsPendingNext DEF Holding
<1>6. n \in 1 .. MaxWrites /\ ~(n <= written[t])
  BY <1>0, <1>2, ConstantsAssumption DEF TypeOK
<1>7. w \notin pending[c] \cup durable
  <2>1. \A v \in pending[c] \cup durable : v[2] <= written[v[1]]
    BY <1>1 DEF WritesInv, WritesAreNumbered
  <2>2. w[1] = t /\ w[2] = n
    OBVIOUS
  <2> QED
    BY <1>6, <2>1, <2>2
<1>8. ASSUME NEW u \in Transactions, u # t
      PROVE  Status(u)' = Status(u) /\ Staged(u)' = Staged(u)
  <2>1. Holding(u) => conn[u] \in Connections /\ pending'[conn[u]] = pending[conn[u]]
    BY <1>0, <1>1, <1>2, <1>8 DEF WritesInv, NestInv, HeldIsOnStack, TypeOK
  <2> QED
    BY <1>2, <2>1, ViewStays
<1>9. \/ c \in manual /\ durable' = durable /\ pending'[c] = pending[c] \cup {w}
      \/ c \notin manual /\ durable' = durable \cup {w} /\ pending'[c] = pending[c]
  BY <1>0, <1>1, <1>2 DEF TypeOK
<1> HIDE DEF n, c
<1> QED
  BY <1>3, <1>4, <1>5, <1>6, <1>7, <1>8, <1>9, ViewWrites

(* Steps within one call that resolve its JDBC transaction, or after it.   *)
LEMMA OthersUnseen ==
    ASSUME WritesInv, WritesInv', NEW t \in Transactions, Holding(t), conn[t] \in Connections,
           \A u \in Transactions : u # t /\ Holding(u) => conn[u] # conn[t],
           \A u \in Transactions : u # t => /\ phase'[u] = phase[u]
                                            /\ conn'[u] = conn[u]
                                            /\ outcome'[u] = outcome[u]
                                            /\ commit'[u] = commit[u],
           manual' = manual, broken \subseteq broken', broken' \subseteq broken \cup {conn[t]},
           \A d \in Connections : d # conn[t] => pending'[d] = pending[d]
    PROVE  \A u \in Transactions : u # t => Status(u)' = Status(u) /\ Staged(u)' = Staged(u)
<1> SUFFICES ASSUME NEW u \in Transactions, u # t
             PROVE  Status(u)' = Status(u) /\ Staged(u)' = Staged(u)
  OBVIOUS
<1>1. Holding(u) => conn[u] \in Connections
  BY DEF WritesInv, NestInv, HeldIsOnStack
<1>2. Holding(u) => (conn[u] \in broken' <=> conn[u] \in broken)
  OBVIOUS
<1> QED
  BY <1>1, <1>2, ViewStays

LEMMA EndSeen ==
    ASSUME WritesInv, WritesInv', NEW h \in Threads, NEW t \in Transactions, EndResolves(h, t)
    PROVE  ViewStep
<1> DEFINE c == conn[t]
<1>0. TypeOK
  BY DEF WritesInv, NestInv, PoolInv, ControlInv
<1>1. /\ Head(stack[h]) = c /\ c \in Connections /\ Holding(t) /\ phase[t] = "finally"
      /\ \A u \in Transactions : u # t /\ Holding(u) => conn[u] # c
  BY BodyHolds DEF EndResolves, At, WritesInv
<1>2. /\ c \in manual => c \notin broken
      /\ durable' = IF c \in manual /\ commit[t] THEN durable \cup pending[c] ELSE durable
      /\ pending' = IF c \in manual THEN [pending EXCEPT ![c] = {}] ELSE pending
      /\ conn' = conn /\ commit' = commit /\ outcome' = outcome /\ manual' = manual
      /\ written' = written /\ broken' = broken
      /\ phase'[t] = "release" /\ \A u \in Transactions : u # t => phase'[u] = phase[u]
  BY <1>0, <1>1 DEF EndResolves, GoTo, TypeOK
<1>3. /\ outcome[t] = "running"
      /\ c \notin manual => pending[c] = {}
  BY <1>1 DEF WritesInv, CallsInOrder, CallInOrder, CleanInv, PendingIsOnStack
<1>4. /\ pending'[c] = {} /\ \A d \in Connections : d # c => pending'[d] = pending[d]
      /\ durable' = IF commit[t] THEN durable \cup pending[c] ELSE durable
  BY <1>0, <1>1, <1>2, <1>3 DEF TypeOK
<1>5. /\ Status(t) = "active"
      /\ Status(t)' = IF commit[t] THEN "committed" ELSE "aborted"
  BY <1>0, <1>1, <1>2, <1>3 DEF Status, TypeOK
<1>6. Staged(t) = pending[c] /\ Staged(t)' = {}
  BY <1>1, <1>2, <1>4, StagedIsPending, StagedIsPendingNext DEF Holding
<1>7. \A u \in Transactions : u # t => Status(u)' = Status(u) /\ Staged(u)' = Staged(u)
  BY <1>1, <1>2, <1>4, OthersUnseen
<1>8. CASE commit[t]
  BY <1>4, <1>5, <1>6, <1>7, <1>8, ViewCommits
<1>9. CASE ~commit[t]
  BY <1>4, <1>5, <1>6, <1>7, <1>9, ViewAborts
<1> QED
  BY <1>8, <1>9

LEMMA FailureSeen ==
    ASSUME WritesInv, WritesInv', NEW h \in Threads, NEW t \in Transactions, EndFails(h, t)
    PROVE  ViewStep
<1> DEFINE c == conn[t]
<1>0. TypeOK
  BY DEF WritesInv, NestInv, PoolInv, ControlInv
<1>1. /\ Head(stack[h]) = c /\ c \in Connections /\ Holding(t) /\ phase[t] = "finally"
      /\ \A u \in Transactions : u # t /\ Holding(u) => conn[u] # c
  BY BodyHolds DEF EndFails, At, WritesInv
<1>2. /\ c \in manual \cup broken /\ durable' = durable
      /\ commit' = commit /\ manual' = manual /\ broken' = broken
      /\ phase'[t] = "none" /\ outcome'[t] = "threw"
      /\ \A d \in Connections : d # c => pending'[d] = pending[d]
      /\ \A u \in Transactions : u # t => /\ phase'[u] = phase[u] /\ conn'[u] = conn[u]
                                          /\ outcome'[u] = outcome[u]
  BY <1>0, <1>1 DEF EndFails, Leave, GoTo, TypeOK
<1>3. /\ outcome[t] = "running"
      /\ c \in broken => pending[c] = {}
  BY <1>1 DEF WritesInv, CallsInOrder, CallInOrder, BrokenIsClean
<1>4. Status(t) = (IF c \in manual \cap broken THEN "aborted" ELSE "active") /\ Status(t)' = "aborted"
  BY <1>1, <1>2, <1>3 DEF Status
<1>5. Staged(t) = pending[c] /\ Staged(t)' = {}
  BY <1>1, <1>2, StagedIsPending, StagedIsPendingNext DEF Holding
<1>6. \A u \in Transactions : u # t => Status(u)' = Status(u) /\ Staged(u)' = Staged(u)
  BY <1>1, <1>2, OthersUnseen
<1>7. CASE c \in manual \cap broken
  BY <1>2, <1>3, <1>4, <1>5, <1>6, <1>7, NoViewChange
<1>8. CASE c \notin manual \cap broken
  BY <1>2, <1>4, <1>5, <1>6, <1>8, ViewAborts
<1> QED
  BY <1>7, <1>8

LEMMA ReleaseUnseen ==
    ASSUME WritesInv, WritesInv', NEW h \in Threads, NEW t \in Transactions,
           ReleaseConnection(h, t)
    PROVE  ViewStep
<1> DEFINE c == conn[t]
<1>0. TypeOK
  BY DEF WritesInv, NestInv, PoolInv, ControlInv
<1>1. /\ c \in Connections /\ Holding(t) /\ phase[t] = "release"
      /\ \A u \in Transactions : u # t /\ Holding(u) => conn[u] # c
  BY BodyHolds DEF ReleaseConnection, At, WritesInv
<1>2. /\ pending' = pending /\ durable' = durable
      /\ commit' = commit /\ manual' = manual /\ broken' = broken
      /\ phase'[t] = "none" /\ outcome'[t] = Result(t)
      /\ \A u \in Transactions : u # t => /\ phase'[u] = phase[u] /\ conn'[u] = conn[u]
                                          /\ outcome'[u] = outcome[u]
  BY <1>0 DEF ReleaseConnection, Leave, GoTo, dbVars, TypeOK
<1>3. outcome[t] = "running" /\ pending[c] = {}
  BY <1>1 DEF WritesInv, CallsInOrder, CallInOrder
<1>4. Status(t)' = Status(t)
  BY <1>0, <1>1, <1>2, <1>3 DEF Status, Result, TypeOK
<1>5. Staged(t) = {} /\ Staged(t)' = {}
  BY <1>1, <1>2, <1>3, StagedIsPending, StagedIsPendingNext DEF Holding
<1>6. \A u \in Transactions : u # t => Status(u)' = Status(u) /\ Staged(u)' = Staged(u)
  BY <1>1, <1>2, OthersUnseen
<1> QED
  BY <1>2, <1>4, <1>5, <1>6, NoViewChange

(* The loss of a connection aborts the transaction that works on it.       *)
LEMMA BreakSeen ==
    ASSUME WritesInv, WritesInv', NEW c \in Connections, ConnectionBreaks(c)
    PROVE  ViewStep
<1>0. TypeOK
  BY DEF WritesInv, NestInv, PoolInv, ControlInv
<1>1. /\ broken' = broken \cup {c} /\ c \notin broken /\ pending'[c] = {}
      /\ \A d \in Connections : d # c => pending'[d] = pending[d]
      /\ phase' = phase /\ conn' = conn /\ commit' = commit /\ outcome' = outcome
      /\ manual' = manual /\ written' = written /\ durable' = durable
  BY <1>0 DEF ConnectionBreaks, Alive, TypeOK
<1>2. CASE \E t \in Transactions : Holding(t) /\ conn[t] = c
  <2>1. PICK t \in Transactions : Holding(t) /\ conn[t] = c
    BY <1>2
  <2>2. \A u \in Transactions : u # t => Status(u)' = Status(u) /\ Staged(u)' = Staged(u)
    <3>1. \A u \in Transactions : u # t /\ Holding(u) => conn[u] # conn[t]
      BY <2>1 DEF WritesInv, NestInv, HoldersAreExclusive
    <3> QED
      BY <1>1, <2>1, <3>1, OthersUnseen
  <2>3. /\ outcome[t] = "running"
        /\ phase[t] = "release" \/ c \notin manual => pending[c] = {}
    BY <2>1 DEF WritesInv, CallsInOrder, CallInOrder, CleanInv, PendingIsOnStack, Holding
  <2>4. Staged(t) = pending[c] /\ Staged(t)' = {}
    BY <1>1, <2>1, StagedIsPending, StagedIsPendingNext DEF Holding
  <2>5. CASE phase[t] = "release" \/ c \notin manual
    <3>1. Status(t)' = Status(t)
      BY <1>1, <2>1, <2>5 DEF Status
    <3> QED
      BY <1>1, <2>2, <2>3, <2>4, <2>5, <3>1, NoViewChange
  <2>6. CASE phase[t] # "release" /\ c \in manual
    <3>1. Status(t) = "active" /\ Status(t)' = "aborted"
      BY <1>1, <2>1, <2>3, <2>6 DEF Status, Holding
    <3> QED
      BY <1>1, <2>2, <2>4, <3>1, ViewAborts
  <2> QED
    BY <2>5, <2>6
<1>3. CASE ~ \E t \in Transactions : Holding(t) /\ conn[t] = c
  <2>1. ASSUME NEW u \in Transactions PROVE Status(u)' = Status(u) /\ Staged(u)' = Staged(u)
    <3>1. Holding(u) => conn[u] \in Connections /\ conn[u] # c
      BY <1>3 DEF WritesInv, NestInv, HeldIsOnStack
    <3> QED
      BY <1>1, <3>1, ViewStays
  <2> QED
    BY <1>1, <2>1, NoViewChange
<1> QED
  BY <1>2, <1>3

LEMMA ViewedStep ==
    ASSUME WritesInv, WritesInv', [Next]_vars
    PROVE  ViewStep
<1>0. TypeOK
  BY DEF WritesInv, NestInv, PoolInv, ControlInv
<1>1. ASSUME NEW h \in Threads, NEW t \in Transactions, DoExecute(h, t)
      PROVE  ViewStep
  <2>1. /\ outcome[t] = "new" /\ outcome'[t] = "running" /\ phase'[t] = "poll"
        /\ \A u \in Transactions : u # t => phase'[u] = phase[u] /\ outcome'[u] = outcome[u]
        /\ conn' = conn /\ commit' = commit /\ manual' = manual /\ pending' = pending
        /\ durable' = durable /\ broken' = broken
    BY <1>0, <1>1 DEF DoExecute, GoTo, dbVars, TypeOK
  <2>2. phase[t] = "none"
    BY <2>1 DEF WritesInv, CallsInOrder, CallInOrder
  <2>3. Staged(t) = {} /\ Staged(t)' = {}
    BY <2>1, <2>2, StagedIsPending, StagedIsPendingNext DEF Holding
  <2>4. Status(t) = "new"
    BY <2>1, <2>2 DEF Status
  <2>5. Status(t)' = "active"
    BY <2>1 DEF Status
  <2>6. \A u \in Transactions : u # t => Status(u)' = Status(u) /\ Staged(u)' = Staged(u)
    BY <2>1, ViewStays
  <2> QED
    BY <2>1, <2>3, <2>4, <2>5, <2>6, ViewBegins
<1>2. ASSUME NEW h \in Threads, NEW t \in Transactions, BodyReturns(h, t) \/ BodyThrows(h, t)
      PROVE  ViewStep
  <2>1. /\ phase[t] = "body" /\ phase'[t] = "finally"
        /\ \A u \in Transactions : u # t => phase'[u] = phase[u] /\ commit'[u] = commit[u]
        /\ conn' = conn /\ manual' = manual /\ pending' = pending /\ outcome' = outcome
        /\ durable' = durable /\ broken' = broken
    BY <1>0, <1>2 DEF BodyReturns, BodyThrows, At, GoTo, dbVars, TypeOK
  <2>2. Staged(t)' = Staged(t)
    BY <2>1, StagedIsPending, StagedIsPendingNext DEF Holding
  <2>3. Status(t)' = Status(t)
    BY <2>1 DEF Status
  <2>4. \A u \in Transactions : u # t => Status(u)' = Status(u) /\ Staged(u)' = Staged(u)
    BY <2>1, ViewStays
  <2> QED
    BY <2>1, <2>2, <2>3, <2>4, NoViewChange
<1>3. CASE UNCHANGED vars
  <2>1. \A u \in Transactions : Status(u)' = Status(u) /\ Staged(u)' = Staged(u)
    BY <1>3, ViewStays DEF vars
  <2> QED
    BY <1>3, <2>1, NoViewChange DEF vars
<1> QED
  BY <1>1, <1>2, <1>3, AllocatesUnseen, WritesSeen, EndSeen, FailureSeen, ReleaseUnseen,
     BreakSeen DEF Next, Step, Body

(* Backend.execute on SqlRepository implements the abstract store: every   *)
(* transaction is one atomic change of the database, decided when its JDBC *)
(* transaction is.                                                         *)
THEOREM ImplementsAtomicTransactions ==
    ASSUME NoFailureWhenNested PROVE Spec => ImplementsAtomic
<1>1. Init => Atomic!Init
  BY DEF Init, Atomic!Init, Status, Staged
<1>2. ASSUME WritesInv, [Next]_vars PROVE ViewStep
  BY <1>2, WritesStep, ViewedStep
<1> QED
  BY <1>1, <1>2, WritesCorrect, PTL
  DEF Spec, ImplementsAtomic, Atomic!Spec, Atomic!vars, ViewStep, ViewedStatus, ViewedStaged

-----------------------------------------------------------------------------
(* Enough connections for all calls there can be at a time.                *)
EnoughConnections ==
    IsFiniteSet(Threads) /\ Cardinality(Threads) * MaxDepth <= MaxConnections

Active == {t \in Transactions : phase[t] # "none"}

(* The calls that have found the deque empty and will open a connection.   *)
Lacking == {t \in Transactions : phase[t] = "validate" /\ conn[t] = NoConnection}

ActiveAreCalled ==
    \A t \in Active : \E h \in Threads : \E i \in 1 .. Len(calls[h]) : calls[h][i] = t

OthersHaveNone ==
    \A t \in Transactions : phase[t] \in {"none", "poll"} => conn[t] = NoConnection

NobodyWaits == \A t \in Transactions : phase[t] # "wait"

OpenedAreKnown == \A c \in opened : c \in Items(deque) \/ \E t \in Active : conn[t] = c

(* Whoever has found the deque empty may open a connection, even if others *)
(* have put theirs back in the meantime.                                   *)
OpenedSuffice == Cardinality(opened) + Cardinality(Lacking) <= MaxConnections

LossInv ==
    /\ NestInv
    /\ ActiveAreCalled
    /\ OthersHaveNone
    /\ NobodyWaits
    /\ OpenedAreKnown
    /\ OpenedSuffice

LEMMA LossInit == Init => LossInv
<1> SUFFICES ASSUME Init PROVE LossInv
  OBVIOUS
<1>1. NestInv
  BY NestInit
<1>2. Lacking = {} /\ Active = {} /\ opened = {}
  BY DEF Init, Lacking, Active
<1>3. OpenedSuffice
  BY <1>2, FS_EmptySet, ConstantsAssumption DEF OpenedSuffice
<1> QED
  BY <1>1, <1>2, <1>3
  DEF Init, LossInv, ActiveAreCalled, OthersHaveNone, NobodyWaits, OpenedAreKnown

(* There are at most as many active transactions as places for calls.      *)
LEMMA ActiveAreBounded ==
    ASSUME EnoughConnections, TypeOK, CallsAreBounded, ActiveAreCalled
    PROVE  /\ IsFiniteSet(Active) /\ Cardinality(Active) \in Nat
           /\ Cardinality(Active) <= MaxConnections
<1> DEFINE Places == Threads \X (1 .. MaxDepth)
           Used == {p \in Places : p[2] \in 1 .. Len(calls[p[1]]) /\ calls[p[1]][p[2]] \in Active}
           f == [p \in Used |-> calls[p[1]][p[2]]]
<1>1. /\ IsFiniteSet(1 .. MaxDepth) /\ Cardinality(1 .. MaxDepth) = MaxDepth
  BY FS_Interval, ConstantsAssumption
<1>2. IsFiniteSet(Places) /\ Cardinality(Places) = Cardinality(Threads) * MaxDepth
  BY <1>1, FS_Product DEF EnoughConnections
<1>3. IsFiniteSet(Used) /\ Cardinality(Used) <= Cardinality(Places)
  <2>1. Used \in SUBSET Places
    OBVIOUS
  <2> QED
    BY <1>2, <2>1, FS_Subset
<1>4. f \in Surjection(Used, Active)
  <2>1. f \in [Used -> Active]
    OBVIOUS
  <2>2. ASSUME NEW t \in Active PROVE \E p \in Used : f[p] = t
    <3>1. PICK h \in Threads : \E i \in 1 .. Len(calls[h]) : calls[h][i] = t
      BY DEF ActiveAreCalled
    <3>2. PICK i \in 1 .. Len(calls[h]) : calls[h][i] = t
      BY <3>1
    <3>3. i \in 1 .. MaxDepth
      BY LenProperties, ConstantsAssumption DEF CallsAreBounded, TypeOK
    <3>4. <<h, i>> \in Used /\ f[<<h, i>>] = t
      BY <3>2, <3>3
    <3> QED
      BY <3>4
  <2> QED
    BY <2>1, <2>2 DEF Surjection
<1> HIDE DEF f, Used, Places
<1>5. IsFiniteSet(Active) /\ Cardinality(Active) <= Cardinality(Used)
  BY <1>3, <1>4, FS_Surjection
<1>6. /\ Cardinality(Active) \in Nat /\ Cardinality(Used) \in Nat
      /\ Cardinality(Places) \in Nat
  BY <1>2, <1>3, <1>5, FS_CardinalityType
<1> QED
  BY <1>2, <1>3, <1>5, <1>6, ConstantsAssumption DEF EnoughConnections

(* When the deque is empty every connection is with an active transaction. *)
LEMMA RoomForOneMore ==
    ASSUME EnoughConnections, LossInv, deque = <<>>, NEW t \in Transactions, phase[t] = "poll"
    PROVE  Cardinality(opened) + Cardinality(Lacking \cup {t}) <= MaxConnections
<1> DEFINE Having == {u \in Active : conn[u] \in opened}
           f == [u \in Having |-> conn[u]]
           L == Lacking \cup {t}
<1>0. TypeOK
  BY DEF LossInv, NestInv, PoolInv, ControlInv
<1>1. /\ IsFiniteSet(Active) /\ Cardinality(Active) \in Nat
      /\ Cardinality(Active) <= MaxConnections
  BY <1>0, ActiveAreBounded DEF LossInv, NestInv
<1>2. Having \subseteq Active /\ L \subseteq Active /\ Having \cap L = {}
  <2>1. NoConnection \notin opened
    BY <1>0, ConstantsAssumption DEF TypeOK
  <2>2. conn[t] = NoConnection
    BY DEF LossInv, OthersHaveNone
  <2> QED
    BY <2>1, <2>2 DEF Active, Lacking
<1>3. /\ IsFiniteSet(Having) /\ IsFiniteSet(L)
      /\ Cardinality(Having) \in Nat /\ Cardinality(L) \in Nat
  <2>1. Having \in SUBSET Active /\ L \in SUBSET Active
    BY <1>2
  <2>2. IsFiniteSet(Having) /\ IsFiniteSet(L)
    BY <1>1, <2>1, FS_Subset
  <2> QED
    BY <2>2, FS_CardinalityType
<1>4. f \in Surjection(Having, opened)
  <2>1. Items(deque) = {}
    BY DEF Items
  <2>2. \A c \in opened : \E u \in Having : f[u] = c
    BY <2>1 DEF LossInv, OpenedAreKnown
  <2> QED
    BY <2>2 DEF Surjection
<1> HIDE DEF f
<1>5. Cardinality(opened) \in Nat /\ Cardinality(opened) <= Cardinality(Having)
  <2>1. IsFiniteSet(opened) /\ Cardinality(opened) <= Cardinality(Having)
    BY <1>3, <1>4, FS_Surjection
  <2> QED
    BY <2>1, FS_CardinalityType
<1> HIDE DEF Having, L
<1>6. Cardinality(Having) + Cardinality(L) <= Cardinality(Active)
  <2>1. Cardinality(Having \cup L) = Cardinality(Having) + Cardinality(L)
    <3>1. Cardinality(Having \cup L)
             = Cardinality(Having) + Cardinality(L) - Cardinality(Having \cap L)
      BY <1>3, FS_Union
    <3>2. Cardinality(Having \cap L) = 0
      BY <1>2, FS_EmptySet
    <3> QED
      BY <1>3, <3>1, <3>2
  <2>2. Having \cup L \in SUBSET Active
    BY <1>2
  <2>3. Cardinality(Having \cup L) <= Cardinality(Active)
    BY <1>1, <2>2, FS_Subset
  <2> QED
    BY <2>1, <2>3
<1>7. Cardinality(opened) + Cardinality(L) <= MaxConnections
  BY <1>1, <1>3, <1>5, <1>6, ConstantsAssumption
<1> QED
  BY <1>7 DEF L

(* Steps that neither open a connection nor find the deque empty.          *)
LEMMA LossStay ==
    ASSUME EnoughConnections, LossInv, NestInv', ActiveAreCalled', OthersHaveNone',
           NobodyWaits', OpenedAreKnown', opened' = opened, Lacking' \subseteq Lacking
    PROVE  LossInv'
<1>0. TypeOK
  BY DEF LossInv, NestInv, PoolInv, ControlInv
<1>1. IsFiniteSet(Active)
  BY <1>0, ActiveAreBounded DEF LossInv, NestInv
<1>2. Lacking \in SUBSET Active
  BY DEF Lacking, Active
<1>3. IsFiniteSet(Lacking)
  BY <1>1, <1>2, FS_Subset
<1>4. IsFiniteSet(Lacking') /\ Cardinality(Lacking') <= Cardinality(Lacking)
  <2>1. Lacking' \in SUBSET Lacking
    OBVIOUS
  <2> QED
    BY <1>3, <2>1, FS_Subset
<1>5. Cardinality(Lacking) \in Nat /\ Cardinality(Lacking') \in Nat
  BY <1>3, <1>4, FS_CardinalityType
<1>6. Cardinality(opened) \in Nat
  <2>1. opened \in SUBSET Connections
    BY <1>0 DEF TypeOK
  <2>2. IsFiniteSet(opened)
    BY <2>1, FS_Subset, ConstantsAssumption
  <2> QED
    BY <2>2, FS_CardinalityType
<1>7. Cardinality(opened) + Cardinality(Lacking') <= MaxConnections
  BY <1>4, <1>5, <1>6, ConstantsAssumption DEF LossInv, OpenedSuffice
<1> QED
  BY <1>7 DEF LossInv, OpenedSuffice

(* A call that begins, and a call that ends, on the list of calls.         *)
LEMMA CalledAfterEnter ==
    ASSUME TypeOK, ActiveAreCalled, NEW h \in Threads, NEW t \in Transactions,
           DoExecute(h, t)
    PROVE  ActiveAreCalled'
<1>1. /\ calls'[h] = <<t>> \o calls[h] /\ phase'[t] = "poll"
      /\ \A g \in Threads : g # h => calls'[g] = calls[g]
      /\ \A u \in Transactions : u # t => phase'[u] = phase[u]
  BY DEF DoExecute, GoTo, TypeOK
<1>2. /\ Len(calls'[h]) = Len(calls[h]) + 1 /\ calls'[h][1] = t /\ Len(calls[h]) \in Nat
      /\ \A i \in 2 .. Len(calls[h]) + 1 : calls'[h][i] = calls[h][i - 1]
  BY <1>1, PushFront, LenProperties DEF TypeOK
<1> SUFFICES ASSUME NEW u \in Active'
             PROVE  \E g \in Threads : \E i \in 1 .. Len(calls'[g]) : calls'[g][i] = u
  BY DEF ActiveAreCalled
<1>3. CASE u = t
  BY <1>2, <1>3
<1>4. CASE u # t
  <2>1. u \in Active
    BY <1>1, <1>4 DEF Active
  <2>2. PICK g \in Threads : \E i \in 1 .. Len(calls[g]) : calls[g][i] = u
    BY <2>1 DEF ActiveAreCalled
  <2>3. PICK i \in 1 .. Len(calls[g]) : calls[g][i] = u
    BY <2>2
  <2>4. CASE g = h
    <3> DEFINE k == i + 1
    <3>1. k \in 2 .. Len(calls[h]) + 1 /\ k \in 1 .. Len(calls'[h]) /\ k - 1 = i
      BY <1>2, <2>4
    <3> HIDE DEF k
    <3>2. calls'[h][k] = u
      BY <1>2, <2>3, <2>4, <3>1
    <3> QED
      BY <3>1, <3>2
  <2>5. CASE g # h
    BY <1>1, <2>3, <2>5
  <2> QED
    BY <2>4, <2>5
<1> QED
  BY <1>3, <1>4

LEMMA CalledAfterLeave ==
    ASSUME TypeOK, ActiveAreCalled, NEW h \in Threads, NEW t \in Transactions, NEW r,
           calls[h] # <<>>, Head(calls[h]) = t, Leave(h, t, r)
    PROVE  ActiveAreCalled'
<1>1. /\ calls'[h] = Tail(calls[h]) /\ phase'[t] = "none"
      /\ \A g \in Threads : g # h => calls'[g] = calls[g]
      /\ \A u \in Transactions : u # t => phase'[u] = phase[u]
  BY DEF Leave, GoTo, TypeOK
<1>2. /\ Len(calls[h]) \in Nat \ {0} /\ calls[h][1] = t
      /\ Len(calls'[h]) = Len(calls[h]) - 1
      /\ \A i \in 1 .. Len(calls[h]) - 1 : calls'[h][i] = calls[h][i + 1]
  BY <1>1, PopFront DEF TypeOK
<1> SUFFICES ASSUME NEW u \in Active'
             PROVE  \E g \in Threads : \E i \in 1 .. Len(calls'[g]) : calls'[g][i] = u
  BY DEF ActiveAreCalled
<1>3. u # t /\ u \in Active
  BY <1>1 DEF Active
<1>4. PICK g \in Threads : \E i \in 1 .. Len(calls[g]) : calls[g][i] = u
  BY <1>3 DEF ActiveAreCalled
<1>5. PICK i \in 1 .. Len(calls[g]) : calls[g][i] = u
  BY <1>4
<1>6. CASE g = h
  <2> DEFINE k == i - 1
  <2>1. i # 1
    BY <1>2, <1>3, <1>5, <1>6
  <2>2. k \in 1 .. Len(calls[h]) - 1 /\ k + 1 = i
    BY <1>2, <1>6, <2>1
  <2> HIDE DEF k
  <2>3. k \in 1 .. Len(calls'[h]) /\ calls'[h][k] = u
    BY <1>2, <1>5, <1>6, <2>2
  <2> QED
    BY <2>3
<1>7. CASE g # h
  BY <1>1, <1>5, <1>7
<1> QED
  BY <1>6, <1>7

LEMMA CalledStays ==
    ASSUME ActiveAreCalled, calls' = calls,
           \A u \in Transactions : phase'[u] # "none" => phase[u] # "none"
    PROVE  ActiveAreCalled'
  BY DEF ActiveAreCalled, Active

(* allocateConnection takes the head of the deque, or finds it empty.      *)
LEMMA LossPoll ==
    ASSUME EnoughConnections, LossInv, NestInv',
           NEW h \in Threads, NEW t \in Transactions, PollConnection(h, t)
    PROVE  LossInv'
<1>0. TypeOK
  BY DEF LossInv, NestInv, PoolInv, ControlInv
<1>1. /\ phase[t] = "poll" /\ phase'[t] = "validate" /\ opened' = opened
      /\ calls' = calls
      /\ conn'[t] = (IF deque = <<>> THEN NoConnection ELSE Head(deque))
      /\ deque' = (IF deque = <<>> THEN deque ELSE Tail(deque))
      /\ \A u \in Transactions : u # t => phase'[u] = phase[u] /\ conn'[u] = conn[u]
  BY <1>0 DEF PollConnection, At, GoTo, dbVars, TypeOK
<1>2. ActiveAreCalled'
  BY <1>1, CalledStays DEF LossInv
<1>3. OthersHaveNone' /\ NobodyWaits'
  BY <1>1 DEF LossInv, OthersHaveNone, NobodyWaits
<1>4. OpenedAreKnown'
  <2> SUFFICES ASSUME NEW c \in opened
               PROVE  c \in Items(deque') \/ \E u \in Active' : conn'[u] = c
    BY <1>1 DEF OpenedAreKnown, Items
  <2>1. CASE c \in Items(deque)
    <3>1. PICK j \in 1 .. Len(deque) : c = deque[j]
      BY <2>1 DEF Items
    <3>2. deque # <<>>
      BY <3>1
    <3>3. /\ Head(deque) = deque[1] /\ Len(deque) \in Nat \ {0}
          /\ Len(Tail(deque)) = Len(deque) - 1
          /\ \A i \in 1 .. Len(deque) - 1 : Tail(deque)[i] = deque[i + 1]
      BY <1>0, <3>2, PopFront DEF TypeOK
    <3>4. CASE j = 1
      <4>1. conn'[t] = c /\ t \in Active'
        BY <1>1, <3>1, <3>2, <3>3, <3>4 DEF Active
      <4> QED
        BY <4>1
    <3>5. CASE j # 1
      <4> DEFINE k == j - 1
      <4>1. k \in 1 .. Len(deque) - 1 /\ k + 1 = j
        BY <3>3, <3>5
      <4> HIDE DEF k
      <4>2. k \in 1 .. Len(Tail(deque)) /\ Tail(deque)[k] = c
        BY <3>1, <3>3, <4>1
      <4> QED
        BY <1>1, <3>2, <4>2 DEF Items
    <3> QED
      BY <3>4, <3>5
  <2>2. CASE \E u \in Active : conn[u] = c
    <3>1. PICK u \in Active : conn[u] = c
      BY <2>2
    <3>2. c # NoConnection
      BY <1>0, ConstantsAssumption DEF TypeOK
    <3>3. u # t
      BY <1>1, <3>1, <3>2 DEF LossInv, OthersHaveNone
    <3>4. u \in Active' /\ conn'[u] = c
      BY <1>1, <3>1, <3>3 DEF Active
    <3> QED
      BY <3>4
  <2> QED
    BY <2>1, <2>2 DEF LossInv, OpenedAreKnown
<1>5. CASE deque = <<>>
  <2>1. Lacking' = Lacking \cup {t}
    BY <1>1, <1>5 DEF Lacking
  <2>2. Cardinality(opened) + Cardinality(Lacking \cup {t}) <= MaxConnections
    BY <1>1, <1>5, RoomForOneMore
  <2> QED
    BY <1>1, <1>2, <1>3, <1>4, <2>1, <2>2 DEF LossInv, OpenedSuffice
<1>6. CASE deque # <<>>
  <2>1. conn'[t] # NoConnection
    BY <1>0, <1>1, <1>6, PopFront, ConstantsAssumption DEF TypeOK
  <2>2. Lacking' \subseteq Lacking
    BY <1>1, <2>1 DEF Lacking
  <2> QED
    BY <1>1, <1>2, <1>3, <1>4, <2>2, LossStay
<1> QED
  BY <1>5, <1>6

(* The database opens what is lacking: nobody has to wait.                 *)
LEMMA LossValidate ==
    ASSUME EnoughConnections, NoFailures, LossInv, NestInv',
           NEW h \in Threads, NEW t \in Transactions, ValidateConnection(h, t)
    PROVE  LossInv'
<1>0. TypeOK /\ broken = {}
  BY DEF LossInv, NestInv, PoolInv, ControlInv, NothingBreaks
<1>1. /\ phase[t] = "validate" /\ calls' = calls /\ deque' = deque
      /\ phase'[t] \in {"configure", "wait"}
      /\ \A u \in Transactions : u # t => phase'[u] = phase[u] /\ conn'[u] = conn[u]
  BY <1>0 DEF ValidateConnection, At, GoTo, TypeOK
<1>2. ActiveAreCalled'
  BY <1>1, CalledStays DEF LossInv
<1>3. OthersHaveNone'
  BY <1>1 DEF LossInv, OthersHaveNone
<1>4. CASE Usable(conn[t])
  <2>1. phase'[t] = "configure" /\ conn' = conn /\ opened' = opened
    BY <1>0, <1>4 DEF ValidateConnection, GoTo, TypeOK
  <2>2. NobodyWaits' /\ Lacking' \subseteq Lacking /\ Active' = Active
    BY <1>1, <2>1 DEF LossInv, NobodyWaits, Lacking, Active
  <2>3. OpenedAreKnown'
    BY <1>1, <2>1, <2>2 DEF LossInv, OpenedAreKnown, Items
  <2> QED
    BY <1>2, <1>3, <2>1, <2>2, <2>3, LossStay
<1>5. CASE ~Usable(conn[t])
  <2>1. conn[t] = NoConnection /\ t \in Lacking
    BY <1>0, <1>1, <1>5 DEF Usable, Lacking
  <2>2. /\ IsFiniteSet(opened) /\ IsFiniteSet(Lacking)
        /\ Cardinality(opened) \in Nat /\ Cardinality(Lacking) \in Nat
    <3>1. IsFiniteSet(Active)
      BY <1>0, ActiveAreBounded DEF LossInv, NestInv
    <3>2. Lacking \in SUBSET Active /\ opened \in SUBSET Connections
      BY <1>0 DEF Lacking, Active, TypeOK
    <3>3. IsFiniteSet(opened) /\ IsFiniteSet(Lacking)
      BY <3>1, <3>2, FS_Subset, ConstantsAssumption
    <3> QED
      BY <3>3, FS_CardinalityType
  <2>3. Cardinality(Lacking \ {t}) = Cardinality(Lacking) - 1
    BY <2>1, <2>2, FS_RemoveElement
  <2>4. Cardinality(Lacking) # 0
    BY <2>1, <2>2, FS_EmptySet
  <2>5. Cardinality(Alive) < MaxConnections
    <3>1. Alive = opened
      BY <1>0 DEF Alive
    <3> QED
      BY <2>2, <2>4, <3>1, ConstantsAssumption DEF LossInv, OpenedSuffice
  <2>6. Cardinality(Alive) \in Nat
    BY <1>0, <2>2 DEF Alive
  <2>7. ~(Cardinality(Alive) >= MaxConnections)
    BY <2>5, <2>6, ConstantsAssumption
  <2>8. GoTo(t, "configure") /\ \E c \in Connections \ opened : /\ opened' = opened \cup {c}
                                                   /\ conn' = [conn EXCEPT ![t] = c]
    BY <1>5, <2>7 DEF ValidateConnection
  <2>9. PICK c \in Connections \ opened : /\ opened' = opened \cup {c}
                                          /\ conn' = [conn EXCEPT ![t] = c]
    BY <2>8
  <2>10. phase'[t] = "configure" /\ conn'[t] = c /\ c # NoConnection
    BY <1>0, <2>8, <2>9, ConstantsAssumption DEF GoTo, TypeOK
  <2>11. NobodyWaits' /\ Lacking' = Lacking \ {t} /\ Active' = Active
    BY <1>1, <2>10 DEF LossInv, NobodyWaits, Lacking, Active
  <2>12. OpenedAreKnown'
    <3> SUFFICES ASSUME NEW d \in opened'
                 PROVE  d \in Items(deque) \/ \E u \in Active : conn'[u] = d
      BY <1>1, <2>11 DEF OpenedAreKnown, Items
    <3>1. CASE d = c
      BY <1>1, <2>10, <3>1 DEF Active
    <3>2. CASE d # c
      <4>1. d \in opened /\ d # NoConnection
        BY <1>0, <2>9, <3>2, ConstantsAssumption DEF TypeOK
      <4>2. CASE d \in Items(deque)
        BY <4>2
      <4>3. CASE \E u \in Active : conn[u] = d
        <5>1. PICK u \in Active : conn[u] = d
          BY <4>3
        <5>2. u # t
          BY <2>1, <4>1, <5>1
        <5>3. conn'[u] = d
          BY <1>1, <5>1, <5>2 DEF Active
        <5> QED
          BY <5>1, <5>3
      <4> QED
        BY <4>1, <4>2, <4>3 DEF LossInv, OpenedAreKnown
    <3> QED
      BY <3>1, <3>2
  <2>13. Cardinality(opened') = Cardinality(opened) + 1
    BY <2>2, <2>9, FS_AddElement
  <2>14. Cardinality(opened') + Cardinality(Lacking') <= MaxConnections
    BY <2>2, <2>3, <2>11, <2>13, ConstantsAssumption DEF LossInv, OpenedSuffice
  <2> QED
    BY <1>2, <1>3, <2>11, <2>12, <2>14 DEF LossInv, OpenedSuffice
<1> QED
  BY <1>4, <1>5

LEMMA LossRelease ==
    ASSUME EnoughConnections, LossInv, NestInv',
           NEW h \in Threads, NEW t \in Transactions, ReleaseConnection(h, t)
    PROVE  LossInv'
<1>0. TypeOK
  BY DEF LossInv, NestInv, PoolInv, ControlInv
<1>1. /\ phase'[t] = "none" /\ conn'[t] = NoConnection /\ opened' = opened
      /\ calls[h] # <<>> /\ Head(calls[h]) = t
      /\ \A u \in Transactions : u # t => phase'[u] = phase[u] /\ conn'[u] = conn[u]
  BY <1>0 DEF ReleaseConnection, Leave, At, GoTo, TypeOK
<1>2. Head(stack[h]) = conn[t] /\ conn[t] \in Connections
  BY BodyHolds DEF ReleaseConnection, At, LossInv
<1>3. /\ deque' = <<conn[t]>> \o deque
      /\ Len(deque') = Len(deque) + 1 /\ Len(deque) \in Nat /\ deque'[1] = conn[t]
      /\ \A i \in 2 .. Len(deque) + 1 : deque'[i] = deque[i - 1]
  BY <1>0, <1>2, PushFront, LenProperties DEF ReleaseConnection, TypeOK
<1>4. ActiveAreCalled'
  BY <1>0, <1>1, CalledAfterLeave DEF LossInv, ReleaseConnection
<1>5. OthersHaveNone' /\ NobodyWaits' /\ Lacking' \subseteq Lacking
  BY <1>1 DEF LossInv, OthersHaveNone, NobodyWaits, Lacking
<1>6. OpenedAreKnown'
  <2> SUFFICES ASSUME NEW c \in opened
               PROVE  c \in Items(deque') \/ \E u \in Active' : conn'[u] = c
    BY <1>1 DEF OpenedAreKnown, Items
  <2>1. CASE c \in Items(deque)
    <3>1. PICK j \in 1 .. Len(deque) : c = deque[j]
      BY <2>1 DEF Items
    <3> DEFINE k == j + 1
    <3>2. k \in 2 .. Len(deque) + 1 /\ k \in 1 .. Len(deque') /\ k - 1 = j
      BY <1>3
    <3> HIDE DEF k
    <3>3. deque'[k] = c
      BY <1>3, <3>1, <3>2
    <3> QED
      BY <3>2, <3>3 DEF Items
  <2>2. CASE \E u \in Active : conn[u] = c
    <3>1. PICK u \in Active : conn[u] = c
      BY <2>2
    <3>2. CASE u = t
      <4>1. 1 \in 1 .. Len(deque')
        BY <1>3
      <4> QED
        BY <1>3, <3>1, <3>2, <4>1 DEF Items
    <3>3. CASE u # t
      <4>1. u \in Active' /\ conn'[u] = c
        BY <1>1, <3>1, <3>3 DEF Active
      <4> QED
        BY <4>1
    <3> QED
      BY <3>2, <3>3
  <2> QED
    BY <2>1, <2>2 DEF LossInv, OpenedAreKnown
<1> QED
  BY <1>1, <1>4, <1>5, <1>6, LossStay

LEMMA LossStep ==
    ASSUME EnoughConnections, NoFailures, LossInv, [Next]_vars
    PROVE  LossInv'
<1>0. NestInv /\ NestInv' /\ TypeOK /\ TypeOK' /\ broken = {} /\ ControlInv
  BY NestStep
  DEF LossInv, NestInv, PoolInv, ControlInv, NothingBreaks, NoFailureWhenNested
<1>1. ASSUME deque' = deque, opened' = opened, conn' = conn, calls' = calls,
             \A u \in Transactions :
                \/ phase'[u] = phase[u]
                \/ phase'[u] \in {"body", "finally", "release"} /\ phase[u] # "none"
      PROVE  LossInv'
  <2>1. Active' = Active /\ Lacking' \subseteq Lacking
    BY <1>1 DEF Active, Lacking
  <2>2. ActiveAreCalled'
    BY <1>1, CalledStays DEF LossInv
  <2>3. OthersHaveNone' /\ NobodyWaits'
    BY <1>1 DEF LossInv, OthersHaveNone, NobodyWaits
  <2>4. OpenedAreKnown'
    BY <1>1, <2>1 DEF LossInv, OpenedAreKnown, Items
  <2> QED
    BY <1>0, <1>1, <2>1, <2>2, <2>3, <2>4, LossStay
<1>2. ASSUME NEW h \in Threads, NEW t \in Transactions, DoExecute(h, t)
      PROVE  LossInv'
  <2>1. /\ deque' = deque /\ opened' = opened /\ conn' = conn
        /\ phase'[t] = "poll" /\ outcome[t] = "new"
        /\ \A u \in Transactions : u # t => phase'[u] = phase[u]
    BY <1>0, <1>2 DEF DoExecute, GoTo, TypeOK
  <2>2. ActiveAreCalled'
    BY <1>0, <1>2, CalledAfterEnter DEF LossInv
  <2>3. phase[t] = "none"
    <3>1. ASSUME phase[t] # "none" PROVE FALSE
      <4>1. \E g \in Threads : \E i \in 1 .. Len(calls[g]) : calls[g][i] = t
        BY <3>1 DEF LossInv, ActiveAreCalled, Active
      <4> QED
        BY <1>0, <2>1, <4>1 DEF ControlInv, CalledAreNotNew
    <3> QED
      BY <3>1
  <2>4. OthersHaveNone' /\ NobodyWaits'
    BY <2>1, <2>3 DEF LossInv, OthersHaveNone, NobodyWaits
  <2>5. Lacking' \subseteq Lacking /\ Active \subseteq Active'
    BY <2>1, <2>3 DEF Lacking, Active
  <2>6. OpenedAreKnown'
    BY <2>1, <2>5 DEF LossInv, OpenedAreKnown, Items
  <2> QED
    BY <1>0, <2>1, <2>2, <2>4, <2>5, <2>6, LossStay
<1>3. ASSUME NEW h \in Threads, NEW t \in Transactions, PollConnection(h, t)
      PROVE  LossInv'
  BY <1>0, <1>3, LossPoll
<1>4. ASSUME NEW h \in Threads, NEW t \in Transactions, ValidateConnection(h, t)
      PROVE  LossInv'
  BY <1>0, <1>4, LossValidate
<1>5. ASSUME NEW h \in Threads, NEW t \in Transactions,
             ConfigureConnection(h, t) \/ BodyWrites(h, t) \/ BodyReturns(h, t)
             \/ BodyThrows(h, t) \/ EndResolves(h, t)
      PROVE  LossInv'
  <2>1. deque' = deque /\ opened' = opened /\ conn' = conn /\ calls' = calls
    BY <1>5 DEF ConfigureConnection, BodyWrites, BodyReturns, BodyThrows, EndResolves
  <2>2. \A u \in Transactions :
           \/ phase'[u] = phase[u]
           \/ phase'[u] \in {"body", "finally", "release"} /\ phase[u] # "none"
    BY <1>0, <1>5
    DEF ConfigureConnection, BodyWrites, BodyReturns, BodyThrows, EndResolves, At, GoTo,
        TypeOK
  <2> QED
    BY <1>1, <2>1, <2>2
<1>6. ASSUME NEW h \in Threads, NEW t \in Transactions,
             WaitForConnection(h, t) \/ EndFails(h, t)
      PROVE  FALSE
  BY <1>0, <1>6
  DEF WaitForConnection, EndFails, At, LossInv, NobodyWaits, NoFailures
<1>7. ASSUME NEW h \in Threads, NEW t \in Transactions, ReleaseConnection(h, t)
      PROVE  LossInv'
  BY <1>0, <1>7, LossRelease
<1>8. ASSUME NEW c \in Connections, ConnectionBreaks(c)
      PROVE  LossInv'
  BY <1>1, <1>8 DEF ConnectionBreaks
<1>9. CASE UNCHANGED vars
  BY <1>1, <1>9 DEF vars
<1> QED
  BY <1>2, <1>3, <1>4, <1>5, <1>6, <1>7, <1>8, <1>9 DEF Next, Step, Body

(* With enough connections for all calls no call ever has to wait for one, *)
(* and none is lost: each is idle or with a running call.  (With fewer,    *)
(* waiting discards connections: run pool_wait_discards.)                  *)
THEOREM ConnectionsAreKept ==
    ASSUME NoFailures, EnoughConnections
    PROVE  Spec => [](NoConnectionLost /\ NobodyWaits)
<1>1. Spec => []LossInv
  BY LossInit, LossStep, PTL DEF Spec
<1>2. LossInv => NoConnectionLost /\ NobodyWaits
  BY DEF LossInv, OpenedAreKnown, NoConnectionLost, Alive, Active
<1> QED
  BY <1>1, <1>2, PTL

=============================================================================
