------------------------ MODULE TransactionPoolProofs ------------------------
(***************************************************************************)
(* Theorems about TransactionPool, for any number of threads, transactions *)
(* and connections, any nesting and any number of failures.                *)
(***************************************************************************)
EXTENDS TransactionPool, SequenceTheorems, TLAPS

(* What pushing to and popping from the front of a sequence does: the two  *)
(* operations of connectionDeque and of the stacks.                        *)
LEMMA PushFront ==
    ASSUME NEW S, NEW x \in S, NEW s \in Seq(S)
    PROVE  /\ <<x>> \o s \in Seq(S)
           /\ Len(<<x>> \o s) = Len(s) + 1
           /\ Head(<<x>> \o s) = x
           /\ (<<x>> \o s)[1] = x
           /\ \A i \in 2 .. Len(s) + 1 : (<<x>> \o s)[i] = s[i - 1]
<1>1. <<x>> \in Seq(S) /\ Len(<<x>>) = 1 /\ <<x>>[1] = x
  OBVIOUS
<1>2. /\ <<x>> \o s \in Seq(S)
      /\ Len(<<x>> \o s) = Len(<<x>>) + Len(s)
      /\ \A i \in 1 .. Len(<<x>>) + Len(s) :
            (<<x>> \o s)[i] = IF i <= Len(<<x>>) THEN <<x>>[i]
                                                 ELSE s[i - Len(<<x>>)]
  BY <1>1, ConcatProperties
<1>3. Len(s) \in Nat
  BY LenProperties
<1> QED
  BY <1>1, <1>2, <1>3

LEMMA PopFront ==
    ASSUME NEW S, NEW s \in Seq(S), s # <<>>
    PROVE  /\ Head(s) \in S /\ Head(s) = s[1]
           /\ Tail(s) \in Seq(S)
           /\ Len(s) \in Nat \ {0}
           /\ Len(Tail(s)) = Len(s) - 1
           /\ \A i \in 1 .. Len(s) - 1 : Tail(s)[i] = s[i + 1]
  BY HeadTailProperties, EmptySeq, LenProperties

(* Pushing a new element, or popping, keeps the elements of a sequence,    *)
(* and of a family of sequences, apart.                                    *)
LEMMA PushDistinct ==
    ASSUME NEW S, NEW s \in Seq(S), NEW x \in S, Distinct(s),
           \A i \in 1 .. Len(s) : s[i] # x
    PROVE  Distinct(<<x>> \o s)
<1> DEFINE r == <<x>> \o s
<1>1. /\ Len(r) = Len(s) + 1 /\ Len(s) \in Nat
      /\ r[1] = x
      /\ \A i \in 2 .. Len(s) + 1 : r[i] = s[i - 1]
  BY PushFront, LenProperties
<1> HIDE DEF r
<1> SUFFICES ASSUME NEW i \in 1 .. Len(r), NEW j \in 1 .. Len(r), r[i] = r[j]
             PROVE  i = j
  BY DEF Distinct, r
<1>2. \A k \in 1 .. Len(r) : k # 1 =>
         k - 1 \in 1 .. Len(s) /\ r[k] = s[k - 1] /\ r[k] # x
  BY <1>1
<1>3. CASE i = 1 \/ j = 1
  BY <1>1, <1>2, <1>3
<1>4. CASE i # 1 /\ j # 1
  <2>1. s[i - 1] = s[j - 1] /\ i - 1 \in 1 .. Len(s) /\ j - 1 \in 1 .. Len(s)
    BY <1>2, <1>4
  <2>2. i - 1 = j - 1
    BY <2>1 DEF Distinct
  <2> QED
    BY <1>1, <2>2
<1> QED
  BY <1>3, <1>4

LEMMA PopDistinct ==
    ASSUME NEW S, NEW s \in Seq(S), s # <<>>, Distinct(s)
    PROVE  /\ Distinct(Tail(s))
           /\ \A i \in 1 .. Len(Tail(s)) : Tail(s)[i] # Head(s)
<1>1. /\ Head(s) = s[1] /\ Len(s) \in Nat \ {0} /\ Len(Tail(s)) = Len(s) - 1
      /\ \A i \in 1 .. Len(s) - 1 : Tail(s)[i] = s[i + 1]
  BY PopFront
<1>2. \A k \in 1 .. Len(Tail(s)) :
         k + 1 \in 1 .. Len(s) /\ Tail(s)[k] = s[k + 1] /\ k + 1 # 1
  BY <1>1
<1>3. ASSUME NEW i \in 1 .. Len(Tail(s)), NEW j \in 1 .. Len(Tail(s)),
             Tail(s)[i] = Tail(s)[j]
      PROVE  i = j
  <2>1. s[i + 1] = s[j + 1]
    BY <1>2, <1>3
  <2>2. i + 1 = j + 1
    BY <1>2, <2>1 DEF Distinct
  <2> QED
    BY <1>1, <2>2
<1>4. ASSUME NEW i \in 1 .. Len(Tail(s)) PROVE Tail(s)[i] # s[1]
  BY <1>1, <1>2 DEF Distinct
<1> QED
  BY <1>1, <1>3, <1>4 DEF Distinct

LEMMA PushAll ==
    ASSUME NEW S, NEW q \in [Threads -> Seq(S)], NEW h \in Threads, NEW x \in S,
           AllDistinct(q), Absent(q, x)
    PROVE  /\ AllDistinct([q EXCEPT ![h] = <<x>> \o @])
           /\ \A y : Absent(q, y) /\ y # x => Absent([q EXCEPT ![h] = <<x>> \o @], y)
<1> DEFINE r == [q EXCEPT ![h] = <<x>> \o @]
<1>1. /\ r[h] = <<x>> \o q[h]
      /\ \A g \in Threads : g # h => r[g] = q[g]
  OBVIOUS
<1>2. /\ Len(r[h]) = Len(q[h]) + 1 /\ Len(q[h]) \in Nat
      /\ r[h][1] = x
      /\ \A i \in 2 .. Len(q[h]) + 1 : r[h][i] = q[h][i - 1]
  BY <1>1, PushFront, LenProperties
<1> HIDE DEF r
(* Each element of r is the new one or an element of q.                    *)
<1>3. ASSUME NEW g \in Threads, NEW i \in 1 .. Len(r[g])
      PROVE  \/ g = h /\ i = 1 /\ r[g][i] = x
             \/ g = h /\ i - 1 \in 1 .. Len(q[g]) /\ r[g][i] = q[g][i - 1]
             \/ g # h /\ i \in 1 .. Len(q[g]) /\ r[g][i] = q[g][i]
  <2>1. CASE g # h
    BY <1>1, <2>1
  <2>2. CASE g = h /\ i = 1
    BY <1>2, <2>2
  <2>3. CASE g = h /\ i # 1
    BY <1>2, <2>3
  <2> QED
    BY <2>1, <2>2, <2>3
<1>4. ASSUME NEW g1 \in Threads, NEW g2 \in Threads,
             NEW i \in 1 .. Len(r[g1]), NEW j \in 1 .. Len(r[g2]),
             r[g1][i] = r[g2][j]
      PROVE  g1 = g2 /\ i = j
  <2>0. i \in Int /\ j \in Int
    OBVIOUS
  <2>1. CASE g1 = h /\ i = 1 /\ r[g1][i] = x
    BY <1>3, <1>4, <2>0, <2>1 DEF Absent
  <2>2. CASE g2 = h /\ j = 1 /\ r[g2][j] = x
    <3>1. r[g1][i] = x
      BY <1>4, <2>2
    <3>2. CASE g1 = h
      <4>1. i = 1 \/ (i - 1 \in 1 .. Len(q[h]) /\ q[h][i - 1] = x)
        BY <1>3, <3>1, <3>2
      <4> QED
        BY <2>2, <3>2, <4>1 DEF Absent
    <3>3. CASE g1 # h
      <4>1. i \in 1 .. Len(q[g1]) /\ q[g1][i] = x
        BY <1>3, <3>1, <3>3
      <4> QED
        BY <4>1 DEF Absent
    <3> QED
      BY <3>2, <3>3
  <2>3. CASE ~(g1 = h /\ i = 1 /\ r[g1][i] = x) /\ ~(g2 = h /\ j = 1 /\ r[g2][j] = x)
    <3>1. \/ g1 = h /\ i - 1 \in 1 .. Len(q[g1]) /\ r[g1][i] = q[g1][i - 1]
          \/ g1 # h /\ i \in 1 .. Len(q[g1]) /\ r[g1][i] = q[g1][i]
      BY <1>3, <2>3
    <3>2. \/ g2 = h /\ j - 1 \in 1 .. Len(q[g2]) /\ r[g2][j] = q[g2][j - 1]
          \/ g2 # h /\ j \in 1 .. Len(q[g2]) /\ r[g2][j] = q[g2][j]
      BY <1>3, <2>3
    <3> QED
      BY <1>4, <2>0, <3>1, <3>2 DEF AllDistinct
  <2> QED
    BY <2>1, <2>2, <2>3
<1>5. ASSUME NEW y, Absent(q, y), y # x PROVE Absent(r, y)
  BY <1>3, <1>5 DEF Absent
<1> QED
  BY <1>4, <1>5 DEF AllDistinct, r

LEMMA PopAll ==
    ASSUME NEW S, NEW q \in [Threads -> Seq(S)], NEW h \in Threads, q[h] # <<>>,
           AllDistinct(q)
    PROVE  /\ AllDistinct([q EXCEPT ![h] = Tail(@)])
           /\ Absent([q EXCEPT ![h] = Tail(@)], Head(q[h]))
           /\ \A y : Absent(q, y) => Absent([q EXCEPT ![h] = Tail(@)], y)
<1> DEFINE r == [q EXCEPT ![h] = Tail(@)]
<1>1. /\ r[h] = Tail(q[h])
      /\ \A g \in Threads : g # h => r[g] = q[g]
  OBVIOUS
<1>2. /\ Head(q[h]) = q[h][1] /\ Len(q[h]) \in Nat \ {0}
      /\ Len(r[h]) = Len(q[h]) - 1
      /\ \A i \in 1 .. Len(q[h]) - 1 : r[h][i] = q[h][i + 1]
  BY <1>1, PopFront
<1> HIDE DEF r
<1>3. ASSUME NEW g \in Threads, NEW i \in 1 .. Len(r[g])
      PROVE  \/ g = h /\ i + 1 \in 2 .. Len(q[g]) /\ r[g][i] = q[g][i + 1]
             \/ g # h /\ i \in 1 .. Len(q[g]) /\ r[g][i] = q[g][i]
  <2>1. CASE g = h
    <3>1. Len(r[h]) \in Int /\ i \in 1 .. Len(q[h]) - 1
      BY <1>2, <2>1
    <3> QED
      BY <1>2, <2>1, <3>1
  <2>2. CASE g # h
    BY <1>1, <2>2
  <2> QED
    BY <2>1, <2>2
<1>4. ASSUME NEW g1 \in Threads, NEW g2 \in Threads,
             NEW i \in 1 .. Len(r[g1]), NEW j \in 1 .. Len(r[g2]),
             r[g1][i] = r[g2][j]
      PROVE  g1 = g2 /\ i = j
  <2>1. i \in Int /\ j \in Int
    OBVIOUS
  <2>2. \/ g1 = h /\ i + 1 \in 1 .. Len(q[g1]) /\ r[g1][i] = q[g1][i + 1]
        \/ g1 # h /\ i \in 1 .. Len(q[g1]) /\ r[g1][i] = q[g1][i]
    BY <1>2, <1>3
  <2>3. \/ g2 = h /\ j + 1 \in 1 .. Len(q[g2]) /\ r[g2][j] = q[g2][j + 1]
        \/ g2 # h /\ j \in 1 .. Len(q[g2]) /\ r[g2][j] = q[g2][j]
    BY <1>2, <1>3
  <2>4. g1 = h <=> g2 = h
    BY <1>4, <2>2, <2>3 DEF AllDistinct
  <2>5. CASE g1 = h
    <3>1. i + 1 = j + 1
      BY <1>4, <2>2, <2>3, <2>4, <2>5 DEF AllDistinct
    <3> QED
      BY <2>1, <2>4, <2>5, <3>1
  <2>6. CASE g1 # h
    BY <1>4, <2>2, <2>3, <2>4, <2>6 DEF AllDistinct
  <2> QED
    BY <2>5, <2>6
<1>5. Absent(r, Head(q[h]))
  <2> SUFFICES ASSUME NEW g \in Threads, NEW i \in 1 .. Len(r[g]),
                      r[g][i] = q[h][1]
               PROVE  FALSE
    BY <1>2 DEF Absent
  <2>1. 1 \in 1 .. Len(q[h]) /\ i \in Int
    BY <1>2
  <2>2. CASE g = h
    <3>1. i + 1 \in 1 .. Len(q[h]) /\ i + 1 # 1 /\ q[h][i + 1] = q[h][1]
      BY <1>2, <1>3, <2>1, <2>2
    <3> QED
      BY <2>1, <3>1 DEF AllDistinct
  <2>3. CASE g # h
    <3>1. i \in 1 .. Len(q[g]) /\ q[g][i] = q[h][1]
      BY <1>3, <2>3
    <3> QED
      BY <2>1, <2>3, <3>1 DEF AllDistinct
  <2> QED
    BY <2>2, <2>3
<1>6. ASSUME NEW y, Absent(q, y) PROVE Absent(r, y)
  BY <1>3, <1>6 DEF Absent
<1> QED
  BY <1>4, <1>5, <1>6 DEF AllDistinct, r

-----------------------------------------------------------------------------
(* Control: a transaction is run by one call only, only the innermost call *)
(* of a thread is elsewhere than in its body, and a call that is about to  *)
(* release a connection has one on the stack of its thread.                *)
CallsDisjoint == AllDistinct(calls)

CalledAreNotNew ==
    \A h \in Threads : \A i \in 1 .. Len(calls[h]) : outcome[calls[h][i]] # "new"

OuterCallsAreInBody ==
    \A h \in Threads : \A i \in 2 .. Len(calls[h]) : phase[calls[h][i]] = "body"

ReleaseHasConnection ==
    \A h \in Threads :
        calls[h] # <<>> /\ phase[Head(calls[h])] = "release" => stack[h] # <<>>

ConfigureHasConnection ==
    \A t \in Transactions : phase[t] = "configure" => conn[t] # NoConnection

ControlInv ==
    /\ TypeOK
    /\ CallsDisjoint
    /\ CalledAreNotNew
    /\ OuterCallsAreInBody
    /\ ReleaseHasConnection
    /\ ConfigureHasConnection

LEMMA ControlInit == Init => ControlInv
  BY ConstantsAssumption
  DEF Init, ControlInv, TypeOK, Phase, CallsDisjoint, CalledAreNotNew,
      OuterCallsAreInBody, ReleaseHasConnection, ConfigureHasConnection,
      AllDistinct

(* The typing of one step, action by action.                               *)
LEMMA TypeStep == ControlInv /\ [Next]_vars => TypeOK'
<1> USE ConstantsAssumption DEF TypeOK, Phase, GoTo, At
<1> SUFFICES ASSUME ControlInv, [Next]_vars PROVE TypeOK'
  OBVIOUS
<1> TypeOK
  BY DEF ControlInv
<1>1. ASSUME NEW h \in Threads, NEW t \in Transactions, DoExecute(h, t)
      PROVE  TypeOK'
  BY <1>1, PushFront DEF DoExecute, dbVars
<1>2. ASSUME NEW h \in Threads, NEW t \in Transactions, PollConnection(h, t)
      PROVE  TypeOK'
  BY <1>2, PopFront DEF PollConnection, dbVars
<1>3. ASSUME NEW h \in Threads, NEW t \in Transactions, ValidateConnection(h, t)
      PROVE  TypeOK'
  <2>1. CASE opened' = opened /\ conn' = conn
    BY <1>3, <2>1 DEF ValidateConnection, dbVars
  <2>2. CASE \E c \in Connections \ opened :
                opened' = opened \cup {c} /\ conn' = [conn EXCEPT ![t] = c]
    <3>1. PICK c \in Connections \ opened :
                 opened' = opened \cup {c} /\ conn' = [conn EXCEPT ![t] = c]
      BY <2>2
    <3>2. conn' \in [Transactions -> Connections \cup {NoConnection}]
      BY <3>1
    <3>3. phase' \in [Transactions -> Phase]
      BY <1>3 DEF ValidateConnection
    <3> QED
      BY <1>3, <3>1, <3>2, <3>3 DEF ValidateConnection, dbVars
  <2> QED
    BY <1>3, <2>1, <2>2 DEF ValidateConnection
<1>4. ASSUME NEW h \in Threads, NEW t \in Transactions, ConfigureConnection(h, t)
      PROVE  TypeOK'
  <2>1. conn[t] \in Connections
    BY <1>4 DEF ConfigureConnection, ControlInv, ConfigureHasConnection
  <2>2. <<conn[t]>> \o stack[h] \in Seq(Connections)
    BY <2>1, PushFront
  <2>3. stack' \in [Threads -> Seq(Connections)]
    BY <1>4, <2>2 DEF ConfigureConnection
  <2>4. phase' \in [Transactions -> Phase] /\ manual' \in SUBSET Connections
    BY <1>4, <2>1 DEF ConfigureConnection
  <2> QED
    BY <1>4, <2>3, <2>4 DEF ConfigureConnection
<1>5. ASSUME NEW h \in Threads, NEW t \in Transactions, WaitForConnection(h, t)
      PROVE  TypeOK'
  BY <1>5, PopFront DEF WaitForConnection, dbVars
<1>6. ASSUME NEW h \in Threads, NEW t \in Transactions, BodyWrites(h, t)
      PROVE  TypeOK'
  <2> DEFINE c == GetConnection(h)
             w == <<t, written[t] + 1>>
  <2>1. written[t] + 1 \in 1 .. MaxWrites
    BY <1>6 DEF BodyWrites
  <2>2. w \in Write
    BY <2>1 DEF Write
  <2>3. written' \in [Transactions -> 0 .. MaxWrites]
    BY <1>6, <2>1 DEF BodyWrites
  <2>4. CASE c \in manual
    <3>1. /\ pending' = [pending EXCEPT ![c] = pending[c] \cup {w}]
          /\ durable' = durable
      BY <1>6, <2>4 DEF BodyWrites
    <3>2. pending' \in [Connections -> SUBSET Write]
      BY <3>1, <2>2, <2>4
    <3> QED
      BY <1>6, <2>3, <3>1, <3>2 DEF BodyWrites
  <2>5. CASE c \notin manual
    <3>1. pending' = pending /\ durable' = durable \cup {w}
      BY <1>6, <2>5 DEF BodyWrites
    <3> QED
      BY <1>6, <2>2, <2>3, <3>1 DEF BodyWrites
  <2> QED
    BY <2>4, <2>5
<1>7. ASSUME NEW h \in Threads, NEW t \in Transactions, BodyReturns(h, t)
      PROVE  TypeOK'
  BY <1>7 DEF BodyReturns, dbVars
<1>8. ASSUME NEW h \in Threads, NEW t \in Transactions, BodyThrows(h, t)
      PROVE  TypeOK'
  BY <1>8 DEF BodyThrows, dbVars
<1>9. ASSUME NEW h \in Threads, NEW t \in Transactions, EndResolves(h, t)
       PROVE  TypeOK'
  <2>1. Head(stack[h]) \in Connections
    BY <1>9, PopFront DEF EndResolves
  <2> QED
    BY <1>9, <2>1 DEF EndResolves
<1>10. ASSUME NEW h \in Threads, NEW t \in Transactions, EndFails(h, t)
       PROVE  TypeOK'
  <2>1. Head(stack[h]) \in Connections
    BY <1>10, PopFront DEF EndFails
  <2> QED
    BY <1>10, <2>1, PopFront DEF EndFails, Leave
<1>11. ASSUME NEW h \in Threads, NEW t \in Transactions, ReleaseConnection(h, t)
       PROVE  TypeOK'
  <2>1. stack[h] # <<>>
    BY <1>11 DEF ReleaseConnection, ControlInv, ReleaseHasConnection
  <2>2. Head(stack[h]) \in Connections /\ Tail(stack[h]) \in Seq(Connections)
    BY <2>1, PopFront
  <2>3. <<Head(stack[h])>> \o deque \in Seq(Connections)
    BY <2>2, PushFront
  <2> QED
    BY <1>11, <2>2, <2>3, PopFront
    DEF ReleaseConnection, Leave, Result, dbVars
<1>12. ASSUME NEW c \in Connections, ConnectionBreaks(c)
       PROVE  TypeOK'
  BY <1>12 DEF ConnectionBreaks
<1>13. CASE UNCHANGED vars
  BY <1>13 DEF vars
<1> QED
  BY <1>1, <1>2, <1>3, <1>4, <1>5, <1>6, <1>7, <1>8, <1>9, <1>10,
     <1>11, <1>12, <1>13 DEF Next, Step, Body

(* A call enters doExecute: t is on no thread yet.                         *)
LEMMA ControlEnter ==
    ASSUME ControlInv, TypeOK', NEW h \in Threads, NEW t \in Transactions,
           DoExecute(h, t)
    PROVE  ControlInv'
<1> USE DEF ControlInv
<1>1. calls'[h] = <<t>> \o calls[h] /\ calls[h] \in Seq(Transactions)
  BY DEF DoExecute, TypeOK
<1>2. /\ Len(calls'[h]) = Len(calls[h]) + 1 /\ Len(calls[h]) \in Nat
      /\ Head(calls'[h]) = t /\ calls'[h][1] = t
      /\ \A i \in 2 .. Len(calls[h]) + 1 : calls'[h][i] = calls[h][i - 1]
  BY <1>1, PushFront, LenProperties
<1>3. \A g \in Threads \ {h} : calls'[g] = calls[g]
  BY DEF DoExecute, TypeOK
<1>4. \A g \in Threads : \A i \in 1 .. Len(calls[g]) : calls[g][i] # t
  BY DEF DoExecute, CalledAreNotNew
<1>5. CallsDisjoint'
  BY <1>4, PushAll DEF CallsDisjoint, Absent, DoExecute, TypeOK
<1>6. CalledAreNotNew'
  BY <1>2, <1>3 DEF CalledAreNotNew, DoExecute, TypeOK
<1>7. OuterCallsAreInBody'
  <2> SUFFICES ASSUME NEW g \in Threads, NEW i \in 2 .. Len(calls'[g])
               PROVE  phase'[calls'[g][i]] = "body"
    BY DEF OuterCallsAreInBody
  <2>1. \A u \in Transactions : u # t => phase'[u] = phase[u]
    BY DEF DoExecute, GoTo, TypeOK
  <2>2. CASE g # h
    <3>1. calls'[g] = calls[g] /\ calls[g] \in Seq(Transactions)
      BY <1>3, <2>2 DEF TypeOK
    <3>2. i \in 1 .. Len(calls[g]) /\ calls[g][i] \in Transactions
      BY <3>1, LenProperties, ElementOfSeq
    <3> QED
      BY <1>4, <2>1, <3>1, <3>2 DEF OuterCallsAreInBody
  <2>3. CASE g = h
    <3>1. calls'[g][i] = calls[h][i - 1] /\ i - 1 \in 1 .. Len(calls[h])
      BY <1>2, <2>3
    <3>2. calls[h][i - 1] \in Transactions /\ calls[h][i - 1] # t
      BY <1>1, <1>4, <3>1, ElementOfSeq
    <3>3. calls[h] # <<>> /\ Head(calls[h]) = calls[h][1]
      BY <1>1, <3>1, HeadTailProperties, EmptySeq
    <3>4. phase[calls[h][i - 1]] = "body"
      BY <3>1, <3>3 DEF OuterCallsAreInBody, DoExecute
    <3> QED
      BY <2>1, <3>1, <3>2, <3>4
  <2> QED
    BY <2>2, <2>3
<1>8. ReleaseHasConnection'
  BY <1>2, <1>3, <1>4 DEF ReleaseHasConnection, DoExecute, TypeOK, GoTo
<1>9. ConfigureHasConnection'
  BY DEF ConfigureHasConnection, DoExecute, TypeOK, GoTo
<1> QED
  BY <1>5, <1>6, <1>7, <1>8, <1>9

(* The innermost call of a thread is nowhere else.                         *)
LEMMA InnermostIsUnique ==
    ASSUME TypeOK, CallsDisjoint, NEW h \in Threads, calls[h] # <<>>
    PROVE  /\ \A g \in Threads : calls[g] # <<>> /\ g # h => Head(calls[g]) # Head(calls[h])
           /\ \A g \in Threads : \A i \in 2 .. Len(calls[g]) : calls[g][i] # Head(calls[h])
<1>1. \A g \in Threads : calls[g] # <<>> =>
         Head(calls[g]) = calls[g][1] /\ 1 \in 1 .. Len(calls[g])
  BY PopFront DEF TypeOK
<1>2. \A g \in Threads : \A i \in 2 .. Len(calls[g]) : i \in 1 .. Len(calls[g]) /\ i # 1
  BY LenProperties DEF TypeOK
<1> QED
  BY <1>1, <1>2 DEF CallsDisjoint, AllDistinct

(* A call moves on inside doExecute.                                       *)
LEMMA ControlStay ==
    ASSUME ControlInv, TypeOK', NEW h \in Threads, NEW t \in Transactions, NEW p \in Phase,
           calls[h] # <<>>, Head(calls[h]) = t,
           calls' = calls, outcome' = outcome, GoTo(t, p),
           \A g \in Threads : stack[g] # <<>> => stack'[g] # <<>>,
           p = "release" => stack[h] # <<>>,
           ConfigureHasConnection'
    PROVE  ControlInv'
<1> USE DEF ControlInv
<1>1. \A u \in Transactions : u # t => phase'[u] = phase[u]
  BY DEF GoTo, TypeOK
<1>2. phase'[t] = p
  BY DEF GoTo, TypeOK
<1>3. CallsDisjoint' /\ CalledAreNotNew'
  BY DEF CallsDisjoint, AllDistinct, CalledAreNotNew
<1>4. OuterCallsAreInBody'
  <2> SUFFICES ASSUME NEW g \in Threads, NEW i \in 2 .. Len(calls[g])
               PROVE  phase'[calls[g][i]] = "body"
    BY DEF OuterCallsAreInBody
  <2>1. i \in 1 .. Len(calls[g])
    BY LenProperties DEF TypeOK
  <2>2. calls[g][i] \in Transactions /\ calls[g][i] # t
    BY <2>1, InnermostIsUnique, ElementOfSeq DEF TypeOK
  <2> QED
    BY <1>1, <2>2 DEF OuterCallsAreInBody
<1>5. ReleaseHasConnection'
  <2> SUFFICES ASSUME NEW g \in Threads, calls[g] # <<>>,
                      phase'[Head(calls[g])] = "release"
               PROVE  stack'[g] # <<>>
    BY DEF ReleaseHasConnection
  <2>1. CASE g = h
    BY <1>2, <2>1
  <2>2. CASE g # h
    <3>1. Head(calls[g]) \in Transactions /\ Head(calls[g]) # t
      BY <2>2, InnermostIsUnique, PopFront DEF TypeOK
    <3> QED
      BY <1>1, <3>1 DEF ReleaseHasConnection
  <2> QED
    BY <2>1, <2>2
<1> QED
  BY <1>3, <1>4, <1>5

(* A call leaves doExecute.                                                *)
LEMMA ControlLeave ==
    ASSUME ControlInv, TypeOK', NEW h \in Threads, NEW t \in Transactions,
           NEW r \in {"returned", "threw"},
           calls[h] # <<>>, Head(calls[h]) = t, Leave(h, t, r),
           \A g \in Threads \ {h} : stack'[g] = stack[g]
    PROVE  ControlInv'
<1> USE DEF ControlInv
<1>1. \A u \in Transactions : u # t => phase'[u] = phase[u] /\ outcome'[u] = outcome[u]
                                       /\ conn'[u] = conn[u]
  BY DEF Leave, GoTo, TypeOK
<1>2. phase'[t] = "none" /\ outcome'[t] = r
  BY DEF Leave, GoTo, TypeOK
<1>3. /\ calls' = [calls EXCEPT ![h] = Tail(@)]
      /\ calls'[h] = Tail(calls[h])
      /\ \A g \in Threads : g # h => calls'[g] = calls[g]
  BY DEF Leave, TypeOK
<1>4. /\ Len(calls[h]) \in Nat \ {0} /\ Len(calls'[h]) = Len(calls[h]) - 1
      /\ \A i \in 1 .. Len(calls[h]) - 1 : calls'[h][i] = calls[h][i + 1]
  BY <1>3, PopFront DEF TypeOK
<1>5. CallsDisjoint'
  BY <1>3, PopAll DEF CallsDisjoint, TypeOK
(* Every call left is one of the calls before, and not t.                  *)
<1>6. ASSUME NEW g \in Threads, NEW i \in 1 .. Len(calls'[g])
      PROVE  /\ calls'[g][i] \in Transactions \ {t}
             /\ \/ g = h /\ i + 1 \in 2 .. Len(calls[g]) /\ calls'[g][i] = calls[g][i + 1]
                \/ g # h /\ i \in 1 .. Len(calls[g]) /\ calls'[g][i] = calls[g][i]
  <2>1. Absent(calls', t)
    BY <1>3, PopAll DEF CallsDisjoint, TypeOK
  <2>2. calls'[g] \in Seq(Transactions)
    BY DEF TypeOK
  <2>3. calls'[g][i] \in Transactions \ {t}
    BY <2>1, <2>2, ElementOfSeq DEF Absent
  <2>4. CASE g = h
    <3>1. i \in 1 .. Len(calls[h]) - 1
      BY <1>4, <2>4
    <3> QED
      BY <1>4, <2>3, <2>4, <3>1
  <2>5. CASE g # h
    BY <1>3, <2>3, <2>5
  <2> QED
    BY <2>4, <2>5
<1>7. CalledAreNotNew'
  <2> SUFFICES ASSUME NEW g \in Threads, NEW i \in 1 .. Len(calls'[g])
               PROVE  outcome'[calls'[g][i]] # "new"
    BY DEF CalledAreNotNew
  <2>1. \/ i + 1 \in 1 .. Len(calls[g]) /\ calls'[g][i] = calls[g][i + 1]
        \/ i \in 1 .. Len(calls[g]) /\ calls'[g][i] = calls[g][i]
    BY <1>4, <1>6
  <2> QED
    BY <1>1, <1>6, <2>1 DEF CalledAreNotNew
<1>8. OuterCallsAreInBody'
  <2> SUFFICES ASSUME NEW g \in Threads, NEW i \in 2 .. Len(calls'[g])
               PROVE  phase'[calls'[g][i]] = "body"
    BY DEF OuterCallsAreInBody
  <2>1. i \in 1 .. Len(calls'[g])
    BY LenProperties DEF TypeOK
  <2>2. \/ i + 1 \in 2 .. Len(calls[g]) /\ calls'[g][i] = calls[g][i + 1]
        \/ i \in 2 .. Len(calls[g]) /\ calls'[g][i] = calls[g][i]
    BY <1>6, <2>1
  <2> QED
    BY <1>1, <1>6, <2>1, <2>2 DEF OuterCallsAreInBody
<1>9. ReleaseHasConnection'
  <2> SUFFICES ASSUME NEW g \in Threads, calls'[g] # <<>>,
                      phase'[Head(calls'[g])] = "release"
               PROVE  stack'[g] # <<>>
    BY DEF ReleaseHasConnection
  <2>1. Head(calls'[g]) = calls'[g][1] /\ 1 \in 1 .. Len(calls'[g])
    BY PopFront DEF TypeOK
  <2>2. CASE g = h
    <3>1. 1 + 1 \in 2 .. Len(calls[h]) /\ calls'[h][1] = calls[h][1 + 1]
      BY <1>6, <2>1, <2>2
    <3>2. phase[calls'[h][1]] = "body"
      BY <3>1 DEF OuterCallsAreInBody
    <3> QED
      BY <1>1, <1>6, <2>1, <2>2, <3>2
  <2>3. CASE g # h
    BY <1>1, <1>3, <1>6, <2>1, <2>3 DEF ReleaseHasConnection
  <2> QED
    BY <2>2, <2>3
<1>10. ConfigureHasConnection'
  BY <1>1, <1>2 DEF ConfigureHasConnection
<1> QED
  BY <1>5, <1>7, <1>8, <1>9, <1>10

(* One step of the system, action by action.                               *)
LEMMA ControlStep == ControlInv /\ [Next]_vars => ControlInv'
<1> SUFFICES ASSUME ControlInv, [Next]_vars PROVE ControlInv'
  OBVIOUS
<1> USE DEF At
<1>0. TypeOK /\ TypeOK'
  BY TypeStep DEF ControlInv
<1>1. ASSUME NEW h \in Threads, NEW t \in Transactions, DoExecute(h, t)
      PROVE  ControlInv'
  BY <1>0, <1>1, ControlEnter
<1>2. ASSUME NEW h \in Threads, NEW t \in Transactions, PollConnection(h, t)
      PROVE  ControlInv'
  <2>1. ConfigureHasConnection'
    BY <1>0, <1>2 DEF PollConnection, GoTo, TypeOK, ControlInv, ConfigureHasConnection
  <2> QED
    BY <1>0, <1>2, <2>1, ControlStay DEF PollConnection, Phase
<1>3. ASSUME NEW h \in Threads, NEW t \in Transactions, ValidateConnection(h, t)
      PROVE  ControlInv'
  <2>1. ConfigureHasConnection'
    <3> SUFFICES ASSUME NEW u \in Transactions, phase'[u] = "configure"
                 PROVE  conn'[u] # NoConnection
      BY DEF ConfigureHasConnection
    <3>1. CASE u # t
      BY <1>0, <1>3, <3>1
      DEF ValidateConnection, GoTo, TypeOK, ControlInv, ConfigureHasConnection
    <3>2. CASE u = t
      BY <1>0, <1>3, <3>2, ConstantsAssumption
      DEF ValidateConnection, GoTo, TypeOK, Usable
    <3> QED
      BY <3>1, <3>2
  <2>2. CASE GoTo(t, "configure")
    BY <1>0, <1>3, <2>1, <2>2, ControlStay DEF ValidateConnection, Phase
  <2>3. CASE GoTo(t, "wait")
    BY <1>0, <1>3, <2>1, <2>3, ControlStay DEF ValidateConnection, Phase
  <2> QED
    BY <1>3, <2>2, <2>3 DEF ValidateConnection
<1>4. ASSUME NEW h \in Threads, NEW t \in Transactions, ConfigureConnection(h, t)
      PROVE  ControlInv'
  <2>1. ConfigureHasConnection'
    BY <1>0, <1>4 DEF ConfigureConnection, GoTo, TypeOK, ControlInv, ConfigureHasConnection
  <2>2. \A g \in Threads : stack[g] # <<>> => stack'[g] # <<>>
    <3>1. CASE stack' = stack
      BY <3>1
    <3>2. CASE stack' = [stack EXCEPT ![h] = <<conn[t]>> \o @]
      <4>1. conn[t] \in Connections
        BY <1>0, <1>4 DEF ConfigureConnection, ControlInv, ConfigureHasConnection, TypeOK
      <4>2. Len(stack'[h]) = Len(stack[h]) + 1 /\ Len(stack[h]) \in Nat
        BY <1>0, <3>2, <4>1, PushFront, LenProperties DEF TypeOK
      <4>3. stack'[h] # <<>>
        BY <1>0, <4>2, EmptySeq DEF TypeOK
      <4> QED
        BY <1>0, <3>2, <4>3 DEF TypeOK
    <3> QED
      BY <1>4, <3>1, <3>2 DEF ConfigureConnection
  <2>3. PICK p \in {"wait", "body"} : GoTo(t, p)
    BY <1>4 DEF ConfigureConnection
  <2> QED
    BY <1>0, <1>4, <2>1, <2>2, <2>3, ControlStay DEF ConfigureConnection, Phase
<1>5. ASSUME NEW h \in Threads, NEW t \in Transactions, WaitForConnection(h, t)
      PROVE  ControlInv'
  <2>1. ConfigureHasConnection'
    BY <1>0, <1>5 DEF WaitForConnection, GoTo, TypeOK, ControlInv, ConfigureHasConnection
  <2> QED
    BY <1>0, <1>5, <2>1, ControlStay DEF WaitForConnection, Phase
<1>6. ASSUME NEW h \in Threads, NEW t \in Transactions, BodyWrites(h, t)
      PROVE  ControlInv'
  BY <1>0, <1>6
  DEF BodyWrites, ControlInv, CallsDisjoint, AllDistinct, CalledAreNotNew,
      OuterCallsAreInBody, ReleaseHasConnection, ConfigureHasConnection
<1>7. ASSUME NEW h \in Threads, NEW t \in Transactions,
             BodyReturns(h, t) \/ BodyThrows(h, t)
      PROVE  ControlInv'
  <2>1. ConfigureHasConnection'
    BY <1>0, <1>7
    DEF BodyReturns, BodyThrows, GoTo, TypeOK, ControlInv, ConfigureHasConnection
  <2> QED
    BY <1>0, <1>7, <2>1, ControlStay DEF BodyReturns, BodyThrows, Phase
<1>8. ASSUME NEW h \in Threads, NEW t \in Transactions, EndResolves(h, t)
      PROVE  ControlInv'
  <2>1. ConfigureHasConnection'
    BY <1>0, <1>8 DEF EndResolves, GoTo, TypeOK, ControlInv, ConfigureHasConnection
  <2> QED
    BY <1>0, <1>8, <2>1, ControlStay DEF EndResolves, Phase
<1>9. ASSUME NEW h \in Threads, NEW t \in Transactions, EndFails(h, t)
       PROVE  ControlInv'
  BY <1>0, <1>9, ControlLeave DEF EndFails
<1>10. ASSUME NEW h \in Threads, NEW t \in Transactions, ReleaseConnection(h, t)
       PROVE  ControlInv'
  <2>1. \A g \in Threads \ {h} : stack'[g] = stack[g]
    BY <1>0, <1>10 DEF ReleaseConnection, TypeOK
  <2> QED
    BY <1>0, <1>10, <2>1, ControlLeave DEF ReleaseConnection, Result
<1>11. ASSUME NEW c \in Connections, ConnectionBreaks(c)
       PROVE  ControlInv'
  BY <1>0, <1>11
  DEF ConnectionBreaks, ControlInv, CallsDisjoint, AllDistinct, CalledAreNotNew,
      OuterCallsAreInBody, ReleaseHasConnection, ConfigureHasConnection
<1>12. CASE UNCHANGED vars
  BY <1>0, <1>12
  DEF vars, ControlInv, CallsDisjoint, AllDistinct, CalledAreNotNew,
      OuterCallsAreInBody, ReleaseHasConnection, ConfigureHasConnection
<1> QED
  BY <1>1, <1>2, <1>3, <1>4, <1>5, <1>6, <1>7, <1>8, <1>9, <1>10,
     <1>11, <1>12 DEF Next, Step, Body

LEMMA ControlCorrect == Spec => []ControlInv
  BY ControlInit, ControlStep, PTL DEF Spec

(* Type correctness of Backend.doExecute and SqlRepository's pool: the     *)
(* deque, the stacks and the local variables only ever hold connections    *)
(* this repository has opened, never null.                                 *)
THEOREM TypeCorrect == Spec => []TypeOK
<1>1. ControlInv => TypeOK
  BY DEF ControlInv
<1> QED
  BY <1>1, ControlCorrect, PTL

-----------------------------------------------------------------------------
(* A connection that was never opened is nowhere: with this, Exclusive-    *)
(* Connections is inductive.                                               *)
UnopenedAreNowhere ==
    \A c \in Connections \ opened :
        /\ \A j \in 1 .. Len(deque) : deque[j] # c
        /\ Absent(stack, c)
        /\ \A t \in Transactions : Allocating(t) => conn[t] # c

PoolInv == ControlInv /\ ExclusiveConnections /\ UnopenedAreNowhere

LEMMA PoolInit == Init => PoolInv
<1> SUFFICES ASSUME Init PROVE PoolInv
  OBVIOUS
<1>1. ControlInv
  BY ControlInit
<1> QED
  BY <1>1
  DEF Init, PoolInv, ExclusiveConnections, DequeIsSet, StacksDisjoint, DequeStackDisjoint,
      AllocatingDisjoint, UnopenedAreNowhere, Distinct, AllDistinct, Absent, Allocating

(* Steps that move no connection, except that a call may drop the one in   *)
(* its local variable.                                                     *)
LEMMA PoolStay ==
    ASSUME PoolInv, ControlInv', deque' = deque, stack' = stack, opened' = opened,
           \A u \in Transactions : Allocating(u)' => Allocating(u) /\ conn'[u] = conn[u]
    PROVE  PoolInv'
<1>1. AllocatingDisjoint'
  BY DEF PoolInv, ExclusiveConnections, AllocatingDisjoint, Absent
<1>2. UnopenedAreNowhere'
  BY DEF PoolInv, UnopenedAreNowhere, Absent
<1> QED
  BY <1>1, <1>2
  DEF PoolInv, ExclusiveConnections, DequeIsSet, StacksDisjoint, DequeStackDisjoint,
      Distinct, AllDistinct, Absent

LEMMA PoolPoll ==
    ASSUME PoolInv, ControlInv', NEW h \in Threads, NEW t \in Transactions,
           PollConnection(h, t)
    PROVE  PoolInv'
<1> USE DEF PoolInv
<1>0. TypeOK
  BY DEF ControlInv
<1>1. /\ phase'[t] = "validate" /\ stack' = stack /\ opened' = opened
      /\ \A u \in Transactions : u # t => phase'[u] = phase[u] /\ conn'[u] = conn[u]
  BY <1>0 DEF PollConnection, GoTo, TypeOK
<1>2. \A u \in Transactions : u # t /\ Allocating(u)' => Allocating(u)
  BY <1>1 DEF Allocating
<1>3. CASE deque = <<>>
  <2>1. deque' = deque /\ conn'[t] = NoConnection
    BY <1>0, <1>3 DEF PollConnection, TypeOK
  <2>2. AllocatingDisjoint'
    BY <1>1, <1>2, <2>1 DEF ExclusiveConnections, AllocatingDisjoint, Absent
  <2>3. UnopenedAreNowhere'
    BY <1>1, <1>2, <2>1, ConstantsAssumption DEF UnopenedAreNowhere, Absent
  <2> QED
    BY <1>1, <2>1, <2>2, <2>3
    DEF ExclusiveConnections, DequeIsSet, StacksDisjoint, DequeStackDisjoint,
        Distinct, AllDistinct, Absent
<1>4. CASE deque # <<>>
  <2> DEFINE c == Head(deque)
  <2>1. deque' = Tail(deque) /\ conn'[t] = c
    BY <1>0, <1>4 DEF PollConnection, TypeOK
  <2>2. /\ c = deque[1] /\ 1 \in 1 .. Len(deque) /\ c \in Connections
        /\ \A j \in 1 .. Len(deque') : j + 1 \in 1 .. Len(deque) /\ deque'[j] = deque[j + 1]
    BY <1>0, <1>4, <2>1, PopFront DEF TypeOK
  <2>3. Distinct(deque') /\ \A j \in 1 .. Len(deque') : deque'[j] # c
    BY <1>0, <1>4, <2>1, PopDistinct DEF ExclusiveConnections, DequeIsSet, TypeOK
  <2>4. Absent(stack, c)
    BY <2>2 DEF ExclusiveConnections, DequeStackDisjoint
  <2>5. \A u \in Transactions : Allocating(u) => conn[u] # c
    BY <2>2, ConstantsAssumption DEF ExclusiveConnections, AllocatingDisjoint
  <2>6. AllocatingDisjoint'
    <3> SUFFICES ASSUME NEW u \in Transactions, Allocating(u)', conn'[u] # NoConnection
                 PROVE  /\ \A j \in 1 .. Len(deque') : deque'[j] # conn'[u]
                        /\ Absent(stack', conn'[u])
                        /\ \A v \in Transactions :
                              Allocating(v)' /\ conn'[v] = conn'[u] => v = u
      BY DEF AllocatingDisjoint
    <3>1. CASE u = t
      BY <1>1, <1>2, <2>1, <2>3, <2>4, <2>5, <3>1
    <3>2. CASE u # t
      BY <1>1, <1>2, <2>1, <2>2, <2>5, <3>2
      DEF ExclusiveConnections, AllocatingDisjoint
    <3> QED
      BY <3>1, <3>2
  <2>7. UnopenedAreNowhere'
    BY <1>1, <1>2, <2>1, <2>2 DEF UnopenedAreNowhere, Absent
  <2>8. DequeStackDisjoint'
    BY <1>1, <2>2 DEF ExclusiveConnections, DequeStackDisjoint, Absent
  <2> QED
    BY <1>1, <2>3, <2>6, <2>7, <2>8
    DEF ExclusiveConnections, DequeIsSet, StacksDisjoint, AllDistinct
<1> QED
  BY <1>3, <1>4

(* Opening a connection: it was nowhere, and now only the call has it.     *)
LEMMA PoolOpen ==
    ASSUME PoolInv, ControlInv', NEW t \in Transactions, NEW c \in Connections \ opened,
           opened' = opened \cup {c}, conn' = [conn EXCEPT ![t] = c],
           GoTo(t, "configure"), deque' = deque, stack' = stack
    PROVE  PoolInv'
<1> USE DEF PoolInv
<1>1. /\ conn'[t] = c
      /\ \A u \in Transactions : u # t =>
            conn'[u] = conn[u] /\ (Allocating(u)' => Allocating(u))
  BY DEF GoTo, Allocating, ControlInv, TypeOK
<1>2. /\ \A j \in 1 .. Len(deque) : deque[j] # c
      /\ Absent(stack, c)
      /\ \A u \in Transactions : Allocating(u) => conn[u] # c
  BY DEF UnopenedAreNowhere
<1>3. AllocatingDisjoint'
  <2> SUFFICES ASSUME NEW u \in Transactions, Allocating(u)', conn'[u] # NoConnection
               PROVE  /\ \A j \in 1 .. Len(deque) : deque[j] # conn'[u]
                      /\ Absent(stack, conn'[u])
                      /\ \A v \in Transactions :
                            Allocating(v)' /\ conn'[v] = conn'[u] => v = u
    BY DEF AllocatingDisjoint, Absent
  <2>1. CASE u = t
    BY <1>1, <1>2, <2>1
  <2>2. CASE u # t
    BY <1>1, <1>2, <2>2 DEF ExclusiveConnections, AllocatingDisjoint
  <2> QED
    BY <2>1, <2>2
<1>4. UnopenedAreNowhere'
  BY <1>1 DEF UnopenedAreNowhere, Absent
<1> QED
  BY <1>3, <1>4
  DEF ExclusiveConnections, DequeIsSet, StacksDisjoint, DequeStackDisjoint,
      Distinct, AllDistinct, Absent

(* startTransaction moves the connection from the call to the stack.       *)
LEMMA PoolPush ==
    ASSUME PoolInv, ControlInv', NEW h \in Threads, NEW t \in Transactions,
           phase[t] = "configure", GoTo(t, "body"), conn' = conn,
           deque' = deque, opened' = opened,
           stack' = [stack EXCEPT ![h] = <<conn[t]>> \o @]
    PROVE  PoolInv'
<1> USE DEF PoolInv
<1> DEFINE c == conn[t]
<1>0. TypeOK
  BY DEF ControlInv
<1>1. c \in Connections /\ Allocating(t) /\ c # NoConnection
  BY <1>0 DEF ControlInv, ConfigureHasConnection, TypeOK, Allocating
<1>2. /\ \A j \in 1 .. Len(deque) : deque[j] # c
      /\ Absent(stack, c)
      /\ \A u \in Transactions : Allocating(u) /\ u # t => conn[u] # c
      /\ c \in opened
  BY <1>1 DEF ExclusiveConnections, AllocatingDisjoint, UnopenedAreNowhere
<1>3. /\ AllDistinct(stack')
      /\ \A y : Absent(stack, y) /\ y # c => Absent(stack', y)
  <2> DEFINE r == [stack EXCEPT ![h] = <<c>> \o @]
  <2>1. stack \in [Threads -> Seq(Connections)] /\ AllDistinct(stack) /\ Absent(stack, c)
    BY <1>0, <1>2 DEF TypeOK, ExclusiveConnections, StacksDisjoint
  <2>2. /\ AllDistinct(r)
        /\ \A y : Absent(stack, y) /\ y # c => Absent(r, y)
    BY <1>1, <2>1, PushAll
  <2>3. stack' = r
    OBVIOUS
  <2> HIDE DEF r
  <2> QED
    BY <2>2, <2>3
<1>4. ~Allocating(t)' /\ \A u \in Transactions : u # t /\ Allocating(u)' => Allocating(u)
  BY <1>0 DEF GoTo, Allocating, TypeOK
<1>5. DequeStackDisjoint'
  <2> SUFFICES ASSUME NEW j \in 1 .. Len(deque) PROVE Absent(stack', deque[j])
    BY DEF DequeStackDisjoint
  <2>1. Absent(stack, deque[j]) /\ deque[j] # c
    BY <1>2 DEF ExclusiveConnections, DequeStackDisjoint
  <2> QED
    BY <1>3, <2>1
<1>6. AllocatingDisjoint'
  BY <1>2, <1>3, <1>4 DEF ExclusiveConnections, AllocatingDisjoint
<1>7. UnopenedAreNowhere'
  BY <1>2, <1>3, <1>4 DEF UnopenedAreNowhere
<1> QED
  BY <1>3, <1>5, <1>6, <1>7
  DEF ExclusiveConnections, DequeIsSet, StacksDisjoint, Distinct, AllDistinct

(* A waiting call throws away what it took from the deque.                 *)
LEMMA PoolWait ==
    ASSUME PoolInv, ControlInv', NEW h \in Threads, NEW t \in Transactions,
           WaitForConnection(h, t)
    PROVE  PoolInv'
<1> USE DEF PoolInv
<1>0. TypeOK
  BY DEF ControlInv
<1>1. /\ stack' = stack /\ opened' = opened /\ conn' = conn
      /\ \A u \in Transactions : Allocating(u)' => Allocating(u)
  BY <1>0 DEF WaitForConnection, GoTo, At, Allocating, TypeOK
<1>2. CASE deque = <<>>
  BY <1>1, <1>2, PoolStay DEF WaitForConnection
<1>3. CASE deque # <<>>
  <2>1. deque' = Tail(deque)
    BY <1>3 DEF WaitForConnection
  <2>2. \A j \in 1 .. Len(deque') : j + 1 \in 1 .. Len(deque) /\ deque'[j] = deque[j + 1]
    BY <1>0, <1>3, <2>1, PopFront DEF TypeOK
  <2>3. DequeIsSet'
    <3>1. Distinct(Tail(deque))
      BY <1>0, <1>3, PopDistinct DEF ExclusiveConnections, DequeIsSet, TypeOK
    <3> QED
      BY <2>1, <3>1 DEF DequeIsSet, Distinct
  <2>4. DequeStackDisjoint'
    <3> SUFFICES ASSUME NEW j \in 1 .. Len(deque') PROVE Absent(stack, deque'[j])
      BY <1>1 DEF DequeStackDisjoint, Absent
    <3> QED
      BY <2>2 DEF ExclusiveConnections, DequeStackDisjoint
  <2>5. AllocatingDisjoint'
    BY <1>1, <2>2 DEF ExclusiveConnections, AllocatingDisjoint, Absent
  <2>6. UnopenedAreNowhere'
    BY <1>1, <2>2 DEF UnopenedAreNowhere, Absent
  <2> QED
    BY <1>1, <2>3, <2>4, <2>5, <2>6 DEF ExclusiveConnections, StacksDisjoint, AllDistinct
<1> QED
  BY <1>2, <1>3

(* releaseConnection moves the connection from the stack to the deque.     *)
LEMMA PoolRelease ==
    ASSUME PoolInv, ControlInv', NEW h \in Threads, NEW t \in Transactions,
           ReleaseConnection(h, t)
    PROVE  PoolInv'
<1> USE DEF PoolInv
<1> DEFINE c == Head(stack[h])
           r == [stack EXCEPT ![h] = Tail(@)]
<1>0. TypeOK /\ stack[h] # <<>>
  BY DEF ControlInv, ReleaseConnection, At, ReleaseHasConnection
<1>1. /\ stack' = r /\ deque' = <<c>> \o deque /\ opened' = opened
      /\ \A u \in Transactions : Allocating(u)' => Allocating(u) /\ conn'[u] = conn[u]
  BY <1>0 DEF ReleaseConnection, Leave, GoTo, Allocating, TypeOK
<1>2. c \in Connections /\ c = stack[h][1] /\ 1 \in 1 .. Len(stack[h])
  BY <1>0, PopFront DEF TypeOK
<1>3. /\ AllDistinct(r)
      /\ Absent(r, c)
      /\ \A y : Absent(stack, y) => Absent(r, y)
  BY <1>0, PopAll DEF TypeOK, ExclusiveConnections, StacksDisjoint
<1> HIDE DEF r
<1>4. \A j \in 1 .. Len(deque) : deque[j] # c
  BY <1>2 DEF ExclusiveConnections, DequeStackDisjoint, Absent
<1>5. Distinct(deque')
  BY <1>0, <1>1, <1>2, <1>4, PushDistinct DEF ExclusiveConnections, DequeIsSet, TypeOK
<1>6. \A j \in 1 .. Len(deque') :
         deque'[j] = c \/ \E k \in 1 .. Len(deque) : deque'[j] = deque[k]
  <2> SUFFICES ASSUME NEW j \in 1 .. Len(deque'), j # 1
               PROVE  \E k \in 1 .. Len(deque) : deque'[j] = deque[k]
    BY <1>0, <1>1, <1>2, PushFront DEF TypeOK
  <2>1. Len(deque') = Len(deque) + 1 /\ Len(deque) \in Nat
    BY <1>0, <1>1, <1>2, PushFront, LenProperties DEF TypeOK
  <2>2. j \in 2 .. Len(deque) + 1 /\ j - 1 \in 1 .. Len(deque)
    BY <2>1
  <2>3. deque'[j] = deque[j - 1]
    BY <1>0, <1>1, <1>2, <2>2, PushFront DEF TypeOK
  <2> QED
    BY <2>2, <2>3
<1>7. DequeStackDisjoint'
  BY <1>1, <1>3, <1>6 DEF ExclusiveConnections, DequeStackDisjoint
<1>8. \A u \in Transactions : Allocating(u) /\ conn[u] # NoConnection => conn[u] # c
  BY <1>2 DEF ExclusiveConnections, AllocatingDisjoint, Absent
<1>9. AllocatingDisjoint'
  BY <1>1, <1>3, <1>6, <1>8 DEF ExclusiveConnections, AllocatingDisjoint
<1>10. c \in opened
  BY <1>2 DEF UnopenedAreNowhere, Absent
<1>11. UnopenedAreNowhere'
  BY <1>1, <1>3, <1>6, <1>10 DEF UnopenedAreNowhere
<1> QED
  BY <1>1, <1>3, <1>5, <1>7, <1>9, <1>11
  DEF ExclusiveConnections, DequeIsSet, StacksDisjoint, AllDistinct

LEMMA PoolStep == PoolInv /\ [Next]_vars => PoolInv'
<1> SUFFICES ASSUME PoolInv, [Next]_vars PROVE PoolInv'
  OBVIOUS
<1>0. ControlInv /\ ControlInv' /\ TypeOK
  BY ControlStep DEF PoolInv, ControlInv
<1> USE DEF Allocating, GoTo, At, TypeOK
<1>1. ASSUME NEW h \in Threads, NEW t \in Transactions, DoExecute(h, t)
      PROVE  PoolInv'
  BY <1>0, <1>1, PoolStay DEF DoExecute
<1>2. ASSUME NEW h \in Threads, NEW t \in Transactions, PollConnection(h, t)
      PROVE  PoolInv'
  BY <1>0, <1>2, PoolPoll
<1>3. ASSUME NEW h \in Threads, NEW t \in Transactions, ValidateConnection(h, t)
      PROVE  PoolInv'
  <2>1. CASE UNCHANGED <<opened, conn>>
    BY <1>0, <1>3, <2>1, PoolStay DEF ValidateConnection
  <2>2. CASE /\ \E c \in Connections \ opened :
                   opened' = opened \cup {c} /\ conn' = [conn EXCEPT ![t] = c]
             /\ GoTo(t, "configure")
    <3>1. PICK c \in Connections \ opened :
                 opened' = opened \cup {c} /\ conn' = [conn EXCEPT ![t] = c]
      BY <2>2
    <3>2. GoTo(t, "configure") /\ deque' = deque /\ stack' = stack
      BY <1>3, <2>2 DEF ValidateConnection
    <3> QED
      BY <1>0, <3>1, <3>2, PoolOpen
  <2> QED
    BY <1>3, <2>1, <2>2 DEF ValidateConnection
<1>4. ASSUME NEW h \in Threads, NEW t \in Transactions, ConfigureConnection(h, t)
      PROVE  PoolInv'
  <2>1. CASE stack' = stack
    BY <1>0, <1>4, <2>1, PoolStay DEF ConfigureConnection
  <2>2. CASE GoTo(t, "body") /\ stack' = [stack EXCEPT ![h] = <<conn[t]>> \o @]
    <3>1. phase[t] = "configure" /\ conn' = conn /\ deque' = deque /\ opened' = opened
      BY <1>4 DEF ConfigureConnection
    <3> QED
      BY <1>0, <2>2, <3>1, PoolPush
  <2> QED
    BY <1>4, <2>1, <2>2 DEF ConfigureConnection
<1>5. ASSUME NEW h \in Threads, NEW t \in Transactions, WaitForConnection(h, t)
      PROVE  PoolInv'
  BY <1>0, <1>5, PoolWait
<1>6. ASSUME NEW h \in Threads, NEW t \in Transactions,
             BodyWrites(h, t) \/ BodyReturns(h, t) \/ BodyThrows(h, t)
      PROVE  PoolInv'
  BY <1>0, <1>6, PoolStay DEF BodyWrites, BodyReturns, BodyThrows
<1>7. ASSUME NEW h \in Threads, NEW t \in Transactions, EndResolves(h, t)
      PROVE  PoolInv'
  BY <1>0, <1>7, PoolStay DEF EndResolves
<1>8. ASSUME NEW h \in Threads, NEW t \in Transactions, EndFails(h, t)
      PROVE  PoolInv'
  BY <1>0, <1>8, PoolStay DEF EndFails, Leave
<1>9. ASSUME NEW h \in Threads, NEW t \in Transactions, ReleaseConnection(h, t)
      PROVE  PoolInv'
  BY <1>0, <1>9, PoolRelease
<1>10. ASSUME NEW c \in Connections, ConnectionBreaks(c)
      PROVE  PoolInv'
  BY <1>0, <1>10, PoolStay DEF ConnectionBreaks
<1>11. CASE UNCHANGED vars
  BY <1>0, <1>11, PoolStay DEF vars
<1> QED
  BY <1>1, <1>2, <1>3, <1>4, <1>5, <1>6, <1>7, <1>8, <1>9, <1>10, <1>11
  DEF Next, Step, Body

LEMMA PoolCorrect == Spec => []PoolInv
  BY PoolInit, PoolStep, PTL DEF Spec

(* Two running transactions of SqlRepository never share a JDBC connection *)
(* and no idle connection is in use, whatever fails: nested calls, broken  *)
(* connections, failing commits and refused nesting included.              *)
THEOREM ConnectionsAreExclusive == Spec => []ExclusiveConnections
<1>1. PoolInv => ExclusiveConnections
  BY DEF PoolInv
<1> QED
  BY <1>1, PoolCorrect, PTL

-----------------------------------------------------------------------------
(* Uncommitted writes are only on connections that are on a stack, and not *)
(* on one that is about to be released, nor on one in auto-commit mode.    *)
PendingIsOnStack ==
    \A c \in Connections : Absent(stack, c) \/ c \notin manual => pending[c] = {}

ReleaseIsClean ==
    \A h \in Threads : calls[h] # <<>> /\ phase[Head(calls[h])] = "release"
                          => pending[Head(stack[h])] = {}

CleanInv == PoolInv /\ PendingIsOnStack /\ ReleaseIsClean

LEMMA CleanInit == Init => CleanInv
  BY PoolInit DEF Init, CleanInv, PendingIsOnStack, ReleaseIsClean

(* Pushing hides no element, popping only the first one.                   *)
LEMMA AbsentAfter ==
    ASSUME NEW S, NEW q \in [Threads -> Seq(S)], NEW h \in Threads
    PROVE  /\ \A x \in S : \A y : Absent([q EXCEPT ![h] = <<x>> \o @], y) => Absent(q, y)
           /\ q[h] # <<>> => \A y : Absent([q EXCEPT ![h] = Tail(@)], y) /\ y # Head(q[h])
                                       => Absent(q, y)
<1>1. ASSUME NEW x \in S, NEW y, Absent([q EXCEPT ![h] = <<x>> \o @], y),
             NEW g \in Threads, NEW i \in 1 .. Len(q[g])
      PROVE  q[g][i] # y
  <2> DEFINE r == [q EXCEPT ![h] = <<x>> \o @]
  <2>1. g # h => r[g] = q[g]
    OBVIOUS
  <2>2. r[h] = <<x>> \o q[h]
    OBVIOUS
  <2>3. /\ Len(r[h]) = Len(q[h]) + 1 /\ Len(q[h]) \in Nat
        /\ \A k \in 2 .. Len(q[h]) + 1 : r[h][k] = q[h][k - 1]
    BY <2>2, PushFront, LenProperties
  <2> HIDE DEF r
  <2>4. CASE g = h
    <3>1. i + 1 \in 2 .. Len(q[h]) + 1 /\ i + 1 \in 1 .. Len(r[h]) /\ (i + 1) - 1 = i
      BY <2>3, <2>4
    <3>2. r[h][i + 1] = q[h][i]
      BY <2>3, <3>1
    <3>3. r[h][i + 1] # y
      BY <1>1, <3>1 DEF Absent, r
    <3> QED
      BY <2>4, <3>2, <3>3
  <2>5. CASE g # h
    BY <1>1, <2>1, <2>5 DEF Absent, r
  <2> QED
    BY <2>4, <2>5
<1>2. ASSUME q[h] # <<>>, NEW y, Absent([q EXCEPT ![h] = Tail(@)], y), y # Head(q[h]),
             NEW g \in Threads, NEW i \in 1 .. Len(q[g])
      PROVE  q[g][i] # y
  <2> DEFINE r == [q EXCEPT ![h] = Tail(@)]
  <2>1. g # h => r[g] = q[g]
    OBVIOUS
  <2>2. r[h] = Tail(q[h])
    OBVIOUS
  <2>3. /\ Head(q[h]) = q[h][1] /\ Len(q[h]) \in Nat /\ Len(r[h]) = Len(q[h]) - 1
        /\ \A k \in 1 .. Len(q[h]) - 1 : r[h][k] = q[h][k + 1]
    BY <1>2, <2>2, PopFront
  <2> HIDE DEF r
  <2>4. CASE g = h /\ i = 1
    BY <1>2, <2>3, <2>4
  <2>5. CASE g = h /\ i # 1
    <3>1. i - 1 \in 1 .. Len(r[h]) /\ i - 1 \in 1 .. Len(q[h]) - 1 /\ (i - 1) + 1 = i
      BY <2>3, <2>5
    <3>2. r[h][i - 1] = q[h][i]
      BY <2>3, <3>1
    <3>3. r[h][i - 1] # y
      BY <1>2, <3>1 DEF Absent, r
    <3> QED
      BY <2>5, <3>2, <3>3
  <2>6. CASE g # h
    BY <1>2, <2>1, <2>6 DEF Absent, r
  <2> QED
    BY <2>4, <2>5, <2>6
<1> QED
  BY <1>1, <1>2 DEF Absent

(* The call a thread returns to was in its body.                           *)
LEMMA LeaveReturnsToBody ==
    ASSUME TypeOK, OuterCallsAreInBody, NEW h \in Threads, NEW t \in Transactions, NEW r,
           calls[h] # <<>>, Leave(h, t, r)
    PROVE  /\ calls'[h] # <<>> => phase'[Head(calls'[h])] # "release"
           /\ \A g \in Threads : g # h => calls'[g] = calls[g]
           /\ \A u \in Transactions : phase'[u] = "release" => phase[u] = "release"
<1>1. \A u \in Transactions : phase'[u] = phase[u] \/ phase'[u] = "none"
  BY DEF Leave, GoTo, TypeOK
<1>2. calls'[h] = Tail(calls[h]) /\ \A g \in Threads : g # h => calls'[g] = calls[g]
  BY DEF Leave, TypeOK
<1>3. ASSUME calls'[h] # <<>> PROVE phase'[Head(calls'[h])] # "release"
  <2>1. calls'[h] \in Seq(Transactions)
    BY <1>2, PopFront DEF TypeOK
  <2>2. /\ Head(calls'[h]) = calls'[h][1] /\ Len(calls'[h]) \in Nat \ {0}
        /\ Head(calls'[h]) \in Transactions
    BY <1>3, <2>1, PopFront
  <2>3. /\ Len(calls'[h]) = Len(calls[h]) - 1 /\ Len(calls[h]) \in Nat
        /\ \A i \in 1 .. Len(calls[h]) - 1 : calls'[h][i] = calls[h][i + 1]
    BY <1>2, PopFront DEF TypeOK
  <2>4. 1 \in 1 .. Len(calls[h]) - 1 /\ 1 + 1 \in 2 .. Len(calls[h])
    <3> DEFINE n == Len(calls[h])
    <3>1. n - 1 \in Nat \ {0} /\ n \in Nat
      BY <2>2, <2>3
    <3> HIDE DEF n
    <3>2. 1 \in 1 .. n - 1 /\ 2 \in 2 .. n
      BY <3>1
    <3> QED
      BY <3>2 DEF n
  <2>5. phase[Head(calls'[h])] = "body"
    BY <2>2, <2>3, <2>4 DEF OuterCallsAreInBody
  <2> QED
    BY <1>1, <2>2, <2>5
<1> QED
  BY <1>1, <1>2, <1>3

(* Steps that leave the stacks alone, or push onto them, and add nothing   *)
(* to what is pending.                                                     *)
LEMMA CleanStay ==
    ASSUME CleanInv, PoolInv',
           \A c \in Connections : pending'[c] = pending[c] \/ pending'[c] = {},
           \A c \in Connections : Absent(stack', c) => Absent(stack, c),
           \A c \in Connections : c \in manual /\ c \notin manual' => pending[c] = {},
           \A g \in Threads : calls'[g] # <<>> /\ phase'[Head(calls'[g])] = "release"
               => \/ pending'[Head(stack'[g])] = {}
                  \/ /\ calls[g] # <<>> /\ phase[Head(calls[g])] = "release"
                     /\ stack'[g] = stack[g]
    PROVE  CleanInv'
<1> USE DEF CleanInv
<1>1. PendingIsOnStack'
  BY DEF PendingIsOnStack
<1>2. ReleaseIsClean'
  <2> SUFFICES ASSUME NEW g \in Threads, calls'[g] # <<>>,
                      phase'[Head(calls'[g])] = "release",
                      calls[g] # <<>>, phase[Head(calls[g])] = "release",
                      stack'[g] = stack[g]
               PROVE  pending'[Head(stack'[g])] = {}
    BY DEF ReleaseIsClean
  <2>1. stack[g] # <<>> /\ stack \in [Threads -> Seq(Connections)]
    BY DEF PoolInv, ControlInv, ReleaseHasConnection, TypeOK
  <2>2. Head(stack[g]) \in Connections
    BY <2>1, PopFront
  <2>3. pending[Head(stack[g])] = {}
    BY DEF ReleaseIsClean
  <2> QED
    BY <2>2, <2>3
<1> QED
  BY <1>1, <1>2

LEMMA CleanStep == CleanInv /\ [Next]_vars => CleanInv'
<1> SUFFICES ASSUME CleanInv, [Next]_vars PROVE CleanInv'
  OBVIOUS
<1>0. PoolInv /\ PoolInv' /\ ControlInv /\ TypeOK /\ OuterCallsAreInBody /\ CallsDisjoint
  BY PoolStep DEF CleanInv, PoolInv, ControlInv
<1>a. \A g \in Threads : calls[g] # <<>> => Head(calls[g]) \in Transactions
  BY <1>0, PopFront DEF TypeOK
<1>b. \A g \in Threads : stack[g] # <<>> =>
         /\ Head(stack[g]) = stack[g][1] /\ 1 \in 1 .. Len(stack[g])
         /\ Head(stack[g]) \in Connections
  BY <1>0, PopFront DEF TypeOK
<1>1. ASSUME NEW h \in Threads, NEW t \in Transactions, DoExecute(h, t)
      PROVE  CleanInv'
  <2>1. /\ Head(calls'[h]) = t /\ phase'[t] = "poll"
        /\ \A g \in Threads : g # h => calls'[g] = calls[g]
        /\ \A u \in Transactions : u # t => phase'[u] = phase[u]
    BY <1>0, <1>1, PushFront DEF DoExecute, GoTo, TypeOK
  <2> QED
    BY <1>0, <1>1, <1>a, <2>1, CleanStay DEF DoExecute, dbVars
<1>2. ASSUME NEW h \in Threads, NEW t \in Transactions,
             \/ PollConnection(h, t) \/ ValidateConnection(h, t) \/ WaitForConnection(h, t)
             \/ BodyReturns(h, t) \/ BodyThrows(h, t)
      PROVE  CleanInv'
  <2>1. /\ stack' = stack /\ calls' = calls /\ pending' = pending /\ manual' = manual
        /\ \A u \in Transactions : phase'[u] = "release" => phase[u] = "release"
    BY <1>0, <1>2
    DEF PollConnection, ValidateConnection, WaitForConnection, BodyReturns, BodyThrows,
        GoTo, dbVars, TypeOK
  <2> QED
    BY <1>0, <1>a, <2>1, CleanStay
<1>3. ASSUME NEW h \in Threads, NEW t \in Transactions, ConfigureConnection(h, t)
      PROVE  CleanInv'
  <2>1. /\ calls' = calls /\ pending' = pending /\ At(h, t, "configure")
        /\ phase'[t] # "release"
        /\ \A u \in Transactions : phase'[u] = "release" => phase[u] = "release"
    BY <1>0, <1>3 DEF ConfigureConnection, GoTo, At, TypeOK
  <2>2. /\ conn[t] \in Connections /\ Allocating(t) /\ conn[t] # NoConnection
    BY <1>0, <2>1 DEF ControlInv, ConfigureHasConnection, At, Allocating, TypeOK
  <2>3. Absent(stack, conn[t])
    BY <1>0, <2>2 DEF PoolInv, ExclusiveConnections, AllocatingDisjoint
  <2>4. pending[conn[t]] = {}
    BY <2>2, <2>3 DEF CleanInv, PendingIsOnStack
  <2>5. \A c \in Connections : c \in manual /\ c \notin manual' => pending[c] = {}
    BY <1>3, <2>4 DEF ConfigureConnection
  <2>6. CASE stack' = stack
    BY <1>0, <1>a, <2>1, <2>5, <2>6, CleanStay
  <2>7. CASE stack' = [stack EXCEPT ![h] = <<conn[t]>> \o @]
    <3>1. \A c \in Connections : Absent(stack', c) => Absent(stack, c)
      BY <1>0, <2>2, <2>7, AbsentAfter DEF TypeOK
    <3>2. \A g \in Threads : g # h => stack'[g] = stack[g]
      BY <1>0, <2>7 DEF TypeOK
    <3> QED
      BY <1>0, <1>a, <2>1, <2>5, <3>1, <3>2, CleanStay DEF At
  <2> QED
    BY <1>3, <2>6, <2>7 DEF ConfigureConnection
<1>4. ASSUME NEW h \in Threads, NEW t \in Transactions, BodyWrites(h, t)
      PROVE  CleanInv'
  <2>1. /\ calls' = calls /\ stack' = stack /\ phase' = phase /\ manual' = manual
        /\ At(h, t, "body")
    BY <1>4 DEF BodyWrites
  <2>2. CASE pending' = pending
    BY <1>0, <1>a, <2>1, <2>2, CleanStay
  <2>3. CASE pending' # pending
    <3> DEFINE c == Head(stack[h])
    <3>1. /\ GetConnection(h) \in manual
          /\ \A d \in Connections : d # GetConnection(h) => pending'[d] = pending[d]
      BY <1>0, <1>4, <2>3 DEF BodyWrites, TypeOK
    <3>2. stack[h] # <<>> /\ GetConnection(h) = c
      BY <1>0, <3>1, ConstantsAssumption DEF GetConnection, TypeOK
    <3>3. ~Absent(stack, c)
      BY <1>b, <3>2 DEF Absent
    <3>4. PendingIsOnStack'
      BY <2>1, <3>1, <3>2, <3>3 DEF CleanInv, PendingIsOnStack, Absent
    <3>5. ReleaseIsClean'
      <4> SUFFICES ASSUME NEW g \in Threads, calls[g] # <<>>,
                          phase[Head(calls[g])] = "release"
                   PROVE  pending'[Head(stack[g])] = {}
        BY <2>1 DEF ReleaseIsClean
      <4>1. g # h /\ stack[g] # <<>>
        BY <1>0, <2>1 DEF At, ControlInv, ReleaseHasConnection
      <4>2. Head(stack[g]) # c
        BY <1>0, <1>b, <3>2, <4>1
        DEF PoolInv, ExclusiveConnections, StacksDisjoint, AllDistinct
      <4> QED
        BY <1>b, <3>1, <3>2, <4>1, <4>2 DEF CleanInv, ReleaseIsClean
    <3> QED
      BY <1>0, <3>4, <3>5 DEF CleanInv
  <2> QED
    BY <2>2, <2>3
<1>5. ASSUME NEW h \in Threads, NEW t \in Transactions, EndResolves(h, t)
      PROVE  CleanInv'
  <2> DEFINE c == Head(stack[h])
  <2>1. /\ calls' = calls /\ stack' = stack /\ manual' = manual
        /\ At(h, t, "finally") /\ stack[h] # <<>>
    BY <1>5 DEF EndResolves
  <2>2. /\ \A d \in Connections : pending'[d] = pending[d] \/ pending'[d] = {}
        /\ c \in manual => pending'[c] = {}
        /\ c \notin manual => pending'[c] = pending[c]
    BY <1>0, <1>5, <1>b DEF EndResolves, TypeOK
  <2>3. pending'[c] = {}
    BY <1>b, <2>1, <2>2 DEF CleanInv, PendingIsOnStack
  <2>4. \A g \in Threads : g # h /\ calls[g] # <<>> =>
           phase'[Head(calls[g])] = phase[Head(calls[g])]
    BY <1>0, <1>5, <1>a, <2>1, InnermostIsUnique DEF EndResolves, GoTo, At, TypeOK
  <2> QED
    BY <1>0, <2>1, <2>2, <2>3, <2>4, CleanStay
<1>6. ASSUME NEW h \in Threads, NEW t \in Transactions, EndFails(h, t)
      PROVE  CleanInv'
  <2>1. /\ stack' = stack /\ manual' = manual /\ calls[h] # <<>>
        /\ \A d \in Connections : pending'[d] = pending[d] \/ pending'[d] = {}
    BY <1>0, <1>6 DEF EndFails, At, TypeOK
  <2>2. Leave(h, t, "threw")
    BY <1>6 DEF EndFails
  <2>3. /\ calls'[h] # <<>> => phase'[Head(calls'[h])] # "release"
        /\ \A g \in Threads : g # h => calls'[g] = calls[g]
        /\ \A u \in Transactions : phase'[u] = "release" => phase[u] = "release"
    BY <1>0, <2>1, <2>2, LeaveReturnsToBody
  <2> QED
    BY <1>0, <1>a, <2>1, <2>3, CleanStay
<1>7. ASSUME NEW h \in Threads, NEW t \in Transactions, ReleaseConnection(h, t)
      PROVE  CleanInv'
  <2>1. /\ stack' = [stack EXCEPT ![h] = Tail(@)]
        /\ pending' = pending /\ manual' = manual /\ calls[h] # <<>>
        /\ phase[Head(calls[h])] = "release" /\ stack[h] # <<>>
    BY <1>0, <1>7
    DEF ReleaseConnection, dbVars, At, ControlInv, ReleaseHasConnection
  <2>2. pending[Head(stack[h])] = {}
    BY <2>1 DEF CleanInv, ReleaseIsClean
  <2>3. \A d \in Connections : Absent(stack', d) /\ d # Head(stack[h]) => Absent(stack, d)
    BY <1>0, <2>1, AbsentAfter DEF TypeOK
  <2>4. PendingIsOnStack'
    BY <2>1, <2>2, <2>3 DEF CleanInv, PendingIsOnStack
  <2>5. /\ calls'[h] # <<>> => phase'[Head(calls'[h])] # "release"
        /\ \A g \in Threads : g # h => calls'[g] = calls[g]
        /\ \A u \in Transactions : phase'[u] = "release" => phase[u] = "release"
    BY <1>0, <1>7, <2>1, LeaveReturnsToBody DEF ReleaseConnection
  <2>6. \A g \in Threads : g # h => stack'[g] = stack[g]
    BY <1>0, <2>1 DEF TypeOK
  <2>7. ReleaseIsClean'
    BY <1>a, <2>1, <2>5, <2>6 DEF CleanInv, ReleaseIsClean
  <2> QED
    BY <1>0, <2>4, <2>7 DEF CleanInv
<1>8. ASSUME NEW c \in Connections, ConnectionBreaks(c)
      PROVE  CleanInv'
  <2>1. \A d \in Connections : pending'[d] = pending[d] \/ pending'[d] = {}
    BY <1>0, <1>8 DEF ConnectionBreaks, TypeOK
  <2> QED
    BY <1>0, <1>8, <2>1, CleanStay DEF ConnectionBreaks
<1>9. CASE UNCHANGED vars
  BY <1>0, <1>9, CleanStay DEF vars
<1> QED
  BY <1>1, <1>2, <1>3, <1>4, <1>5, <1>6, <1>7, <1>8, <1>9 DEF Next, Step, Body

LEMMA CleanCorrect == Spec => []CleanInv
  BY CleanInit, CleanStep, PTL DEF Spec

(* A connection waiting in connectionDeque carries nothing uncommitted, so *)
(* a commit never makes writes of an earlier transaction permanent.        *)
THEOREM IdleAreClean == Spec => []IdleConnectionsAreClean
<1>1. ASSUME CleanInv PROVE IdleConnectionsAreClean
  <2> SUFFICES ASSUME NEW j \in 1 .. Len(deque) PROVE pending[deque[j]] = {}
    BY DEF IdleConnectionsAreClean, Items
  <2>1. deque[j] \in Connections
    BY <1>1, ElementOfSeq DEF CleanInv, PoolInv, ControlInv, TypeOK
  <2>2. Absent(stack, deque[j])
    BY <1>1 DEF CleanInv, PoolInv, ExclusiveConnections, DequeStackDisjoint
  <2> QED
    BY <1>1, <2>1, <2>2 DEF CleanInv, PendingIsOnStack
<1> QED
  BY <1>1, CleanCorrect, PTL

=============================================================================
