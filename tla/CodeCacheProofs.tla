--------------------------- MODULE CodeCacheProofs ---------------------------
(***************************************************************************)
(* Theorems about CodeCache, for any number of threads, code classes,      *)
(* items and writes.                                                       *)
(***************************************************************************)
EXTENDS CodeCache, SequenceTheorems, WellFoundedInduction, TLAPS

(* What a step does to the calls of a thread, position by position: the    *)
(* innermost call becomes f,                                               *)
TopBecomes(h, f) ==
    /\ Len(frames'[h]) = Len(frames[h])
    /\ frames'[h][1] = f
    /\ \A n \in 2 .. Len(frames[h]) : frames'[h][n] = frames[h][n]

(* d is asked for within the innermost call, if there is one,              *)
Calls(h, d) ==
    /\ Len(frames'[h]) = Len(frames[h]) + 1
    /\ frames'[h][1] = Call(d)
    /\ \A n \in 2 .. Len(frames[h]) + 1 :
          /\ frames'[h][n] \in Frame
          /\ frames'[h][n].cl = frames[h][n - 1].cl
          /\ frames'[h][n].item = frames[h][n - 1].item
          /\ frames'[h][n].at = frames[h][n - 1].at
          /\ frames'[h][n].version = frames[h][n - 1].version
          /\ frames'[h][n].queried = frames[h][n - 1].queried
          /\ frames'[h][n].todo \subseteq frames[h][n - 1].todo

(* or the innermost call returns.                                          *)
Returns(h) ==
    /\ Len(frames'[h]) = Len(frames[h]) - 1
    /\ \A n \in 1 .. Len(frames[h]) - 1 :
          frames'[h][n] \in Frame /\ frames'[h][n] = frames[h][n + 1]

OthersStay(h) ==
    /\ frames' \in [Threads -> Seq(Frame)]
    /\ \A g \in Threads \ {h} : frames'[g] = frames[g]

LEMMA TopIsFirst ==
    ASSUME TypeOK, NEW h \in Threads, frames[h] # <<>>
    PROVE  /\ frames[h] \in Seq(Frame)
           /\ Len(frames[h]) \in Nat \ {0}
           /\ Top(h) = frames[h][1]
           /\ Top(h) \in Frame
           /\ Tail(frames[h]) \in Seq(Frame)
           /\ Len(Tail(frames[h])) = Len(frames[h]) - 1
           /\ \A n \in 1 .. Len(frames[h]) - 1 : Tail(frames[h])[n] = frames[h][n + 1]
<1>1. frames[h] \in Seq(Frame)
  BY DEF TypeOK
<1> QED
  BY <1>1, HeadTailProperties, EmptySeq, LenProperties DEF Top

LEMMA SetTop ==
    ASSUME TypeOK, NEW h \in Threads, frames[h] # <<>>, NEW f \in Frame,
           frames' = [frames EXCEPT ![h][1] = f]
    PROVE  TopBecomes(h, f) /\ OthersStay(h)
<1>1. /\ frames \in [Threads -> Seq(Frame)] /\ frames[h] \in Seq(Frame)
      /\ 1 \in 1 .. Len(frames[h])
  BY TopIsFirst DEF TypeOK
<1>2. /\ [frames[h] EXCEPT ![1] = f] \in Seq(Frame)
      /\ Len([frames[h] EXCEPT ![1] = f]) = Len(frames[h])
      /\ \A n \in 1 .. Len(frames[h]) :
            [frames[h] EXCEPT ![1] = f][n] = IF n = 1 THEN f ELSE frames[h][n]
  BY <1>1, ExceptSeq
<1>3. /\ frames'[h] = [frames[h] EXCEPT ![1] = f]
      /\ \A g \in Threads \ {h} : frames'[g] = frames[g]
  BY <1>1
<1>4. frames' \in [Threads -> Seq(Frame)]
  BY <1>1, <1>2
<1> QED
  BY <1>1, <1>2, <1>3, <1>4 DEF TopBecomes, OthersStay

LEMMA PushCall ==
    ASSUME TypeOK, NEW h \in Threads, NEW d \in Classes, NEW s \in Seq(Frame),
           Len(s) = Len(frames[h]), Call(d) \in Frame,
           \A n \in 1 .. Len(s) :
              /\ s[n].cl = frames[h][n].cl
              /\ s[n].item = frames[h][n].item
              /\ s[n].at = frames[h][n].at
              /\ s[n].version = frames[h][n].version
              /\ s[n].queried = frames[h][n].queried
              /\ s[n].todo \subseteq frames[h][n].todo,
           frames' = [frames EXCEPT ![h] = <<Call(d)>> \o s]
    PROVE  Calls(h, d) /\ OthersStay(h)
<1> DEFINE r == <<Call(d)>> \o s
<1>1. /\ frames \in [Threads -> Seq(Frame)] /\ frames[h] \in Seq(Frame)
      /\ Len(frames[h]) \in Nat
  BY LenProperties DEF TypeOK
<1>2. /\ <<Call(d)>> \in Seq(Frame) /\ Len(<<Call(d)>>) = 1
      /\ <<Call(d)>>[1] = Call(d)
  OBVIOUS
<1>3. /\ r \in Seq(Frame)
      /\ Len(r) = Len(s) + 1
      /\ r[1] = Call(d)
      /\ \A n \in 2 .. Len(s) + 1 : r[n] = s[n - 1]
  BY <1>1, <1>2, ConcatProperties
<1>4. /\ frames'[h] = r
      /\ \A g \in Threads \ {h} : frames'[g] = frames[g]
  BY <1>1
<1> HIDE DEF r
<1>5. frames' \in [Threads -> Seq(Frame)]
  <2>1. frames' = [frames EXCEPT ![h] = r]
    BY DEF r
  <2> QED
    BY <1>1, <1>3, <2>1
<1>6. \A n \in 2 .. Len(s) + 1 : n - 1 \in 1 .. Len(s) /\ s[n - 1] \in Frame
  BY <1>1, ElementOfSeq
<1>7. \A n \in 2 .. Len(frames[h]) + 1 :
         n - 1 \in 1 .. Len(s) /\ r[n] = s[n - 1] /\ s[n - 1] \in Frame
  BY <1>3, <1>6
<1>8. Len(frames'[h]) = Len(frames[h]) + 1 /\ frames'[h][1] = Call(d)
  BY <1>3, <1>4
<1> QED
  BY <1>4, <1>5, <1>7, <1>8 DEF Calls, OthersStay

LEMMA PopCall ==
    ASSUME TypeOK, NEW h \in Threads, frames[h] # <<>>,
           frames' = [frames EXCEPT ![h] = Tail(frames[h])]
    PROVE  Returns(h) /\ OthersStay(h)
<1> DEFINE t == Tail(frames[h])
<1>1. frames \in [Threads -> Seq(Frame)]
  BY DEF TypeOK
<1>2. /\ Len(frames[h]) \in Nat \ {0}
      /\ t \in Seq(Frame)
      /\ Len(t) = Len(frames[h]) - 1
      /\ \A n \in 1 .. Len(frames[h]) - 1 : t[n] = frames[h][n + 1]
  BY TopIsFirst
<1>3. frames' = [frames EXCEPT ![h] = t]
  OBVIOUS
<1> HIDE DEF t
<1>4. /\ frames' \in [Threads -> Seq(Frame)] /\ frames'[h] = t
      /\ \A g \in Threads \ {h} : frames'[g] = frames[g]
  BY <1>1, <1>2, <1>3
<1>5. \A n \in 1 .. Len(t) : t[n] \in Frame
  BY <1>2, ElementOfSeq
<1> QED
  BY <1>2, <1>4, <1>5 DEF Returns, OthersStay

Emptied(h) == frames'[h] = <<>>

(* What each of the actions that move calls does, in these terms.          *)
LEMMA CallIsFrame ==
    ASSUME NEW d \in Classes
    PROVE  Call(d) \in Frame
  BY CodeCacheAssumption DEF Call, Frame, Versions

LEMMA GetShape ==
    ASSUME TypeOK, NEW h \in Threads, NEW c \in Classes, Get(h, c)
    PROVE  Calls(h, c) /\ OthersStay(h) /\ Len(frames[h]) = 0
<1>1. /\ frames[h] = <<>> /\ frames' = [frames EXCEPT ![h] = <<Call(c)>>]
      /\ frames \in [Threads -> Seq(Frame)]
  BY DEF Get, TypeOK
<1>2. <<>> \in Seq(Frame) /\ Len(<<>>) = 0 /\ <<Call(c)>> = <<Call(c)>> \o <<>>
  <2>1. <<Call(c)>> \in Seq(Frame)
    BY CallIsFrame
  <2> QED
    BY <2>1, ConcatEmptySeq
<1>3. frames' = [frames EXCEPT ![h] = <<Call(c)>> \o <<>>]
  BY <1>1, <1>2
<1> QED
  BY <1>1, <1>2, <1>3, PushCall, CallIsFrame

LEMMA ResolveShape ==
    ASSUME TypeOK, NEW h \in Threads, NEW d \in Classes, ResolveReference(h, d)
    PROVE  /\ Calls(h, d) /\ OthersStay(h)
           /\ frames[h] # <<>> /\ frames[h][1].at = "rows" /\ d \in frames[h][1].todo
<1> DEFINE f == [Top(h) EXCEPT !.todo = Top(h).todo \ {d}]
           t == Tail(frames[h])
           s == <<f>> \o t
<1>1. frames[h] # <<>> /\ Top(h).at = "rows" /\ d \in Top(h).todo
  BY DEF ResolveReference, At
<1>2. /\ Top(h) = frames[h][1] /\ Top(h) \in Frame /\ t \in Seq(Frame)
      /\ Len(frames[h]) \in Nat \ {0} /\ Len(t) = Len(frames[h]) - 1
      /\ \A n \in 1 .. Len(frames[h]) - 1 : t[n] = frames[h][n + 1]
  BY <1>1, TopIsFirst
<1>3. /\ f \in Frame /\ f.cl = Top(h).cl /\ f.item = Top(h).item /\ f.at = Top(h).at
      /\ f.version = Top(h).version /\ f.queried = Top(h).queried
      /\ f.todo \subseteq Top(h).todo
  BY <1>2 DEF Frame
<1>4. frames' = [frames EXCEPT ![h] = <<Call(d), f>> \o t]
  BY DEF ResolveReference
<1> HIDE DEF f, t
<1>5. <<Call(d), f>> \o t = <<Call(d)>> \o s
  <2>1. <<Call(d), f>> = <<Call(d)>> \o <<f>>
    OBVIOUS
  <2>2. <<Call(d)>> \in Seq(Frame) /\ <<f>> \in Seq(Frame)
    BY <1>3, CallIsFrame
  <2> QED
    BY <1>2, <2>1, <2>2, ConcatAssociative
<1>6. /\ <<f>> \in Seq(Frame) /\ Len(<<f>>) = 1 /\ <<f>>[1] = f
  BY <1>3
<1>7. /\ s \in Seq(Frame) /\ Len(s) = Len(frames[h])
      /\ \A n \in 1 .. Len(s) : s[n] = IF n = 1 THEN f ELSE t[n - 1]
  <2>1. /\ s \in Seq(Frame) /\ Len(s) = Len(<<f>>) + Len(t)
        /\ \A n \in 1 .. Len(<<f>>) + Len(t) :
             s[n] = IF n <= Len(<<f>>) THEN <<f>>[n] ELSE t[n - Len(<<f>>)]
    BY <1>2, <1>6, ConcatProperties
  <2> HIDE DEF s
  <2>2. Len(s) = Len(frames[h])
    BY <1>2, <1>6, <2>1
  <2>3. ASSUME NEW n \in 1 .. Len(s)
        PROVE  s[n] = IF n = 1 THEN f ELSE t[n - 1]
    BY <1>2, <1>6, <2>1, <2>2
  <2> QED
    BY <2>1, <2>2, <2>3
<1> HIDE DEF s
<1>8. \A n \in 1 .. Len(s) :
         /\ s[n].cl = frames[h][n].cl /\ s[n].item = frames[h][n].item
         /\ s[n].at = frames[h][n].at /\ s[n].version = frames[h][n].version
         /\ s[n].queried = frames[h][n].queried /\ s[n].todo \subseteq frames[h][n].todo
  <2>1. \A n \in 1 .. Len(s) : n # 1 =>
           n - 1 \in 1 .. Len(frames[h]) - 1 /\ t[n - 1] = frames[h][n]
    <3> SUFFICES ASSUME NEW n \in 1 .. Len(s), n # 1
                 PROVE  n - 1 \in 1 .. Len(frames[h]) - 1 /\ t[n - 1] = frames[h][n]
      OBVIOUS
    <3> DEFINE k == n - 1
    <3>1. k \in 1 .. Len(frames[h]) - 1 /\ k + 1 = n
      BY <1>2, <1>7
    <3> HIDE DEF k
    <3>2. t[k] = frames[h][n]
      BY <1>2, <3>1
    <3> QED
      BY <3>1, <3>2 DEF k
  <2> QED
    BY <1>2, <1>3, <1>7, <2>1
<1>9. frames' = [frames EXCEPT ![h] = <<Call(d)>> \o s]
  BY <1>4, <1>5
<1> QED
  BY <1>1, <1>2, <1>7, <1>8, <1>9, PushCall, CallIsFrame

LEMMA FailShape ==
    ASSUME TypeOK, NEW h \in Threads, LoadFails(h)
    PROVE  Emptied(h) /\ OthersStay(h)
  BY DEF LoadFails, TypeOK, Emptied, OthersStay

LEMMA LeaveShape ==
    ASSUME TypeOK, NEW h \in Threads, Leave(h)
    PROVE  /\ Returns(h) /\ OthersStay(h)
           /\ frames[h] # <<>> /\ frames[h][1].at = "leave"
<1>1. /\ frames[h] # <<>> /\ Top(h).at = "leave"
      /\ frames' = [frames EXCEPT ![h] = Tail(frames[h])]
  BY DEF Leave, At
<1> QED
  BY <1>1, PopCall, TopIsFirst

(* EnterMonitor takes the item of the cache,                               *)
TakesItem(h) ==
    LET f == frames[h][1]
    IN  /\ cache[f.cl] # NoItem
        /\ TopBecomes(h, [f EXCEPT !.item = cache[f.cl], !.at = "leave"])
        /\ cache' = cache /\ content' = content

(* or puts a new one there.                                                *)
PutsItem(h, new) ==
    LET f == frames[h][1]
    IN  /\ new \in Items /\ ~Reachable(new)
        /\ TopBecomes(h, [f EXCEPT !.item = new, !.at = "find"])
        /\ cache' = [cache EXCEPT ![f.cl] = new]
        /\ content' = [content EXCEPT ![new] = Empty]

LEMMA EnterShape ==
    ASSUME TypeOK, NEW h \in Threads, EnterMonitor(h)
    PROVE  /\ OthersStay(h)
           /\ frames[h] # <<>> /\ frames[h][1].at = "enter"
           /\ MonitorFree(h, frames[h][1].cl)
           /\ monitor' = [monitor EXCEPT ![frames[h][1].cl] = h]
           /\ TakesItem(h) \/ \E new \in Items : PutsItem(h, new)
<1> DEFINE f == frames[h][1]
           i == cache[f.cl]
           new == CHOOSE j \in Items : ~Reachable(j)
           taken == [f EXCEPT !.item = i, !.at = "leave"]
           put == [f EXCEPT !.item = new, !.at = "find"]
<1>1. frames[h] # <<>> /\ Top(h).at = "enter"
  BY DEF EnterMonitor, At
<1>2. Top(h) = f /\ f \in Frame
  BY <1>1, TopIsFirst
<1>3. f.cl \in Classes /\ i \in Items \cup {NoItem}
  BY <1>2 DEF Frame, TypeOK
<1>4. MonitorFree(h, f.cl) /\ monitor' = [monitor EXCEPT ![f.cl] = h]
  BY <1>2 DEF EnterMonitor
<1>5. CASE i # NoItem /\ IsValid(i)
  <2>1. /\ frames' = [frames EXCEPT ![h][1] = taken]
        /\ cache' = cache /\ content' = content
    BY <1>2, <1>5 DEF EnterMonitor
  <2>2. taken \in Frame
    BY <1>2, <1>3, <1>5 DEF Frame
  <2>3. TopBecomes(h, taken) /\ OthersStay(h)
    <3> HIDE DEF taken
    <3> QED
      BY <1>1, <2>1, <2>2, SetTop
  <2>4. TakesItem(h)
    BY <1>5, <2>1, <2>3 DEF TakesItem
  <2> QED
    BY <1>1, <1>2, <1>4, <2>3, <2>4
<1>6. CASE ~(i # NoItem /\ IsValid(i))
  <2>1. /\ frames' = [frames EXCEPT ![h][1] = put]
        /\ cache' = [cache EXCEPT ![f.cl] = new]
        /\ content' = [content EXCEPT ![new] = Empty]
        /\ \E j \in Items : ~Reachable(j)
    BY <1>2, <1>6 DEF EnterMonitor
  <2>2. new \in Items /\ ~Reachable(new)
    BY <2>1
  <2> HIDE DEF new
  <2>3. put \in Frame
    BY <1>2, <1>3, <2>2 DEF Frame
  <2>4. TopBecomes(h, put) /\ OthersStay(h)
    <3> HIDE DEF put
    <3> QED
      BY <1>1, <2>1, <2>3, SetTop
  <2>5. PutsItem(h, new)
    BY <2>1, <2>2, <2>4 DEF PutsItem
  <2> QED
    BY <1>1, <1>2, <1>4, <2>2, <2>4, <2>5
<1> QED
  BY <1>5, <1>6

LEMMA SnapshotTaken ==
    ASSUME TypeOK, NEW h \in Threads
    PROVE  /\ TakeSnapshot(h) \in [Threads -> Tx \cup {NoTx}]
           /\ \A g \in Threads \ {h} : TakeSnapshot(h)[g] = tx[g]
           /\ TakeSnapshot(h)[h].at = tx[h].at
           /\ tx[h].at # "none" =>
                 /\ TakeSnapshot(h)[h] \in Tx
                 /\ TakeSnapshot(h)[h].kind = tx[h].kind
                 /\ TakeSnapshot(h)[h].cl = tx[h].cl
                 /\ TakeSnapshot(h)[h].version = tx[h].version
                 /\ TakeSnapshot(h)[h].snapshot \in {tx[h].snapshot, committed}
<1>1. tx \in [Threads -> Tx \cup {NoTx}] /\ committed \in [Classes -> Versions]
  BY DEF TypeOK
<1>2. CASE InSnapshot(h) /\ ~tx[h].taken
  <2> DEFINE t == [tx[h] EXCEPT !.taken = TRUE, !.snapshot = committed]
  <2>1. tx[h] \in Tx
    BY <1>1, <1>2 DEF InSnapshot, NoTx
  <2>2. /\ t \in Tx /\ t.at = tx[h].at /\ t.kind = tx[h].kind /\ t.cl = tx[h].cl
        /\ t.version = tx[h].version /\ t.snapshot = committed
    BY <1>1, <2>1 DEF Tx
  <2>3. TakeSnapshot(h) = [tx EXCEPT ![h] = t]
    BY <1>2 DEF TakeSnapshot
  <2> HIDE DEF t
  <2> QED
    BY <1>1, <2>2, <2>3
<1>3. CASE ~(InSnapshot(h) /\ ~tx[h].taken)
  <2>1. TakeSnapshot(h) = tx
    BY <1>3 DEF TakeSnapshot
  <2>2. tx[h].at # "none" => tx[h] \in Tx
    BY <1>1 DEF NoTx
  <2> QED
    BY <1>1, <2>1, <2>2
<1> QED
  BY <1>2, <1>3

LEMMA SeenIsVersion ==
    ASSUME TypeOK, NEW h \in Threads, NEW c \in Classes
    PROVE  Seen(h, c) \in Versions
<1>1. committed[c] \in Versions
  BY DEF TypeOK
<1>2. tx[h].at # "none" => tx[h] \in Tx
  BY DEF TypeOK, NoTx
<1>3. tx[h].at # "none" => tx[h].version \in Versions /\ tx[h].snapshot[c] \in Versions
  BY <1>2 DEF Tx
<1> QED
  BY <1>1, <1>3 DEF Seen, InSnapshot

(* What Find notes of the moment of its query.                             *)
Queried(h, c) == IF InSnapshot(h) THEN committed[c] ELSE 0

(* What Find makes of the innermost call.                                  *)
Found(h) ==
    LET f == frames[h][1]
    IN  [f EXCEPT !.version = Seen(h, f.cl), !.queried = Queried(h, f.cl),
                  !.todo = Ref[f.cl], !.at = "rows"]

LEMMA FindShape ==
    ASSUME TypeOK, NEW h \in Threads, Find(h)
    PROVE  /\ OthersStay(h)
           /\ frames[h] # <<>> /\ frames[h][1].at = "find"
           /\ TopBecomes(h, Found(h))
           /\ Found(h).cl = frames[h][1].cl /\ Found(h).item = frames[h][1].item
           /\ Found(h).at = "rows" /\ Found(h).todo = Ref[frames[h][1].cl]
           /\ Found(h).version = Seen(h, frames[h][1].cl)
           /\ Found(h).queried = Queried(h, frames[h][1].cl)
<1> DEFINE f == frames[h][1]
<1>1. frames[h] # <<>> /\ Top(h).at = "find"
  BY DEF Find, At
<1>2. Top(h) = f /\ f \in Frame
  BY <1>1, TopIsFirst
<1>3. frames' = [frames EXCEPT ![h][1] = Found(h)]
  BY <1>2 DEF Find, Found, Queried
<1>4. f.cl \in Classes /\ Seen(h, f.cl) \in Versions /\ Ref[f.cl] \in SUBSET Classes
  BY <1>2, SeenIsVersion, CodeCacheAssumption DEF Frame
<1>5. Queried(h, f.cl) \in Versions
  <2>1. committed[f.cl] \in Versions
    BY <1>4 DEF TypeOK
  <2>2. 0 \in Versions
    BY CodeCacheAssumption DEF Versions
  <2> QED
    BY <2>1, <2>2 DEF Queried
<1>6. /\ Found(h) \in Frame /\ Found(h).cl = f.cl /\ Found(h).item = f.item
      /\ Found(h).at = "rows" /\ Found(h).todo = Ref[f.cl]
      /\ Found(h).version = Seen(h, f.cl) /\ Found(h).queried = Queried(h, f.cl)
  BY <1>2, <1>4, <1>5 DEF Frame, Found
<1>7. TopBecomes(h, Found(h)) /\ OthersStay(h)
  BY <1>1, <1>3, <1>6, SetTop
<1> QED
  BY <1>1, <1>2, <1>6, <1>7

LEMMA SetCodesShape ==
    ASSUME TypeOK, NEW h \in Threads, SetCodes(h)
    PROVE  /\ OthersStay(h)
           /\ frames[h] # <<>> /\ frames[h][1].at = "rows"
           /\ TopBecomes(h, [frames[h][1] EXCEPT !.at = "leave"])
           /\ frames[h][1].item \in Items
           /\ content' = [content EXCEPT ![frames[h][1].item] =
                 [stamp |-> "fresh", version |-> frames[h][1].version,
                  queried |-> frames[h][1].queried]]
<1> DEFINE f == frames[h][1]
           set == [f EXCEPT !.at = "leave"]
<1>1. frames[h] # <<>> /\ Top(h).at = "rows"
  BY DEF SetCodes, At
<1>2. Top(h) = f /\ f \in Frame /\ 1 \in 1 .. Len(frames[h])
  BY <1>1, TopIsFirst
<1>3. frames' = [frames EXCEPT ![h][1] = set]
  BY <1>2 DEF SetCodes
<1>4. set \in Frame
  BY <1>2 DEF Frame
<1>5. TopBecomes(h, set) /\ OthersStay(h)
  <2> HIDE DEF set
  <2> QED
    BY <1>1, <1>3, <1>4, SetTop
<1>6. f.item \in Items
  BY <1>1, <1>2 DEF Frame, TypeOK
<1>7. content' = [content EXCEPT ![f.item] =
          [stamp |-> "fresh", version |-> f.version, queried |-> f.queried]]
  BY <1>2 DEF SetCodes
<1> QED
  BY <1>1, <1>2, <1>5, <1>6, <1>7

-----------------------------------------------------------------------------
(* The calls are left alone by the actions of the database and of the      *)
(* transactions.                                                           *)
TransactionStep(h) ==
    \/ OtherStatement(h) \/ WriteCodes(h) \/ InvalidateInTable(h)
    \/ Commit(h) \/ Rollback(h) \/ HandleCodeCache(h)
    \/ \E k \in Kinds, c \in Classes : BeginTransaction(h, k, c)

LEMMA NextCases ==
    ASSUME [Next]_vars
    PROVE  \/ \E h \in Threads :
                 \/ EnterMonitor(h) \/ Find(h) \/ SetCodes(h) \/ LoadFails(h) \/ Leave(h)
                 \/ TransactionStep(h)
                 \/ \E c \in Classes : Get(h, c) \/ ResolveReference(h, c)
           \/ \E c \in Classes : Expire(c)
           \/ UNCHANGED vars
<1>1. CASE Next
  BY <1>1 DEF Next, TransactionStep
<1>2. CASE UNCHANGED vars
  BY <1>2
<1> QED
  BY <1>1, <1>2

LEMMA TransactionStepStays ==
    ASSUME NEW h \in Threads, TransactionStep(h)
    PROVE  frames' = frames /\ monitor' = monitor /\ content' = content
  BY DEF TransactionStep, OtherStatement, WriteCodes, InvalidateInTable, Commit, Rollback,
         HandleCodeCache, BeginTransaction

(* The types of the variables of the database, of the transactions and of  *)
(* the cache.                                                              *)
LEMMA TransactionStepType ==
    ASSUME TypeOK, NEW h \in Threads, TransactionStep(h)
    PROVE  TypeOK'
<1>1. frames' = frames /\ monitor' = monitor /\ content' = content
  BY TransactionStepStays
<1>2. tx[h].at # "none" =>
         /\ tx[h] \in Tx
         /\ tx[h].kind \in Kinds /\ tx[h].cl \in Classes /\ tx[h].version \in Versions
  BY DEF TypeOK, Tx, NoTx
<1>3. Versions \subseteq Nat /\ 0 \in Versions
      /\ \A v \in Versions : v < MaxVersion => v + 1 \in Versions
  BY CodeCacheAssumption DEF Versions
<1>4. tx \in [Threads -> Tx \cup {NoTx}]
  BY DEF TypeOK
<1>5. ASSUME NEW t \in Tx \cup {NoTx}, tx' = [tx EXCEPT ![h] = t]
      PROVE  tx' \in [Threads -> Tx \cup {NoTx}]
  BY <1>4, <1>5
<1>6. CASE WriteCodes(h)
  <2>1. tx[h].at = "begun" /\ tx[h].at # "none"
    BY <1>6 DEF WriteCodes
  <2>2. latest[tx[h].cl] + 1 \in Versions
    BY <1>2, <1>3, <1>6, <2>1 DEF WriteCodes, TypeOK
  <2>3. latest' \in [Classes -> Versions]
    BY <1>2, <1>6, <2>1, <2>2 DEF WriteCodes, TypeOK
  <2> DEFINE s == TakeSnapshot(h)
             t == [s[h] EXCEPT !.version = latest[tx[h].cl] + 1, !.at = "written"]
  <2>4. s \in [Threads -> Tx \cup {NoTx}] /\ s[h] \in Tx
    BY <2>1, SnapshotTaken
  <2>5. tx' = [s EXCEPT ![h] = t]
    BY <1>6 DEF WriteCodes
  <2> HIDE DEF s
  <2>6. t \in Tx
    BY <2>2, <2>4 DEF Tx
  <2> HIDE DEF t
  <2>7. tx' \in [Threads -> Tx \cup {NoTx}]
    BY <2>4, <2>5, <2>6
  <2>8. known' \in [Classes -> [Versions -> [Classes -> Versions]]]
    <3> DEFINE k == [known[tx[h].cl] EXCEPT ![latest[tx[h].cl] + 1] = completed]
    <3>1. known' = [known EXCEPT ![tx[h].cl] = k]
      BY <1>6 DEF WriteCodes
    <3>2. known[tx[h].cl] \in [Versions -> [Classes -> Versions]]
      BY <1>2, <2>1 DEF TypeOK
    <3>3. k \in [Versions -> [Classes -> Versions]]
      BY <3>2 DEF TypeOK
    <3> HIDE DEF k
    <3> QED
      BY <3>1, <3>3 DEF TypeOK
  <2>9. committed' = committed /\ completed' = completed /\ cache' = cache
    BY <1>6 DEF WriteCodes
  <2> QED
    BY <1>1, <2>3, <2>7, <2>8, <2>9 DEF TypeOK
<1>7. CASE InvalidateInTable(h)
  <2>1. tx[h].at = "written" /\ tx[h].at # "none"
    BY <1>7 DEF InvalidateInTable
  <2> DEFINE t == [tx[h] EXCEPT !.at = "body"]
  <2>2. t \in Tx
    BY <1>2, <2>1 DEF Tx
  <2>3. tx' = [tx EXCEPT ![h] = t]
    BY <1>7 DEF InvalidateInTable
  <2> HIDE DEF t
  <2>4. tx' \in [Threads -> Tx \cup {NoTx}]
    BY <1>5, <2>2, <2>3
  <2>5. cache' \in [Classes -> Items \cup {NoItem}]
    BY <1>7 DEF InvalidateInTable, InvalidateCodeCache, TypeOK
  <2> QED
    BY <1>1, <1>7, <2>4, <2>5 DEF InvalidateInTable, TypeOK
<1>8. CASE Commit(h)
  <2>1. tx[h].at # "none"
    BY <1>8 DEF Commit
  <2> DEFINE t == [tx[h] EXCEPT !.at = "committed"]
  <2>2. t \in Tx
    BY <1>2, <2>1 DEF Tx
  <2>3. tx' = [tx EXCEPT ![h] = t]
    BY <1>8 DEF Commit
  <2> HIDE DEF t
  <2>4. tx' \in [Threads -> Tx \cup {NoTx}]
    BY <1>5, <2>2, <2>3
  <2>5. committed' \in [Classes -> Versions]
    BY <1>2, <1>8, <2>1 DEF Commit, TypeOK
  <2> QED
    BY <1>1, <1>8, <2>4, <2>5 DEF Commit, TypeOK
<1>9. CASE Rollback(h)
  <2>1. tx' \in [Threads -> Tx \cup {NoTx}]
    BY <1>5, <1>9 DEF Rollback
  <2> QED
    BY <1>1, <1>9, <2>1 DEF Rollback, TypeOK
<1>10. CASE HandleCodeCache(h)
  <2>1. tx[h].at # "none"
    BY <1>10 DEF HandleCodeCache
  <2>2. tx' \in [Threads -> Tx \cup {NoTx}]
    BY <1>5, <1>10 DEF HandleCodeCache
  <2>3. completed' \in [Classes -> Versions]
    BY <1>2, <1>10, <2>1 DEF HandleCodeCache, TypeOK
  <2>4. cache' \in [Classes -> Items \cup {NoItem}]
    BY <1>10 DEF HandleCodeCache, InvalidateCodeCache, TypeOK
  <2> QED
    BY <1>1, <1>10, <2>2, <2>3, <2>4 DEF HandleCodeCache, TypeOK
<1>11. ASSUME NEW k \in Kinds, NEW c \in Classes, BeginTransaction(h, k, c)
       PROVE  TypeOK'
  <2>0. PICK level \in Isolations :
           tx' = [tx EXCEPT ![h] = [at |-> "begun", kind |-> k, cl |-> c, version |-> 0,
                                    isolation |-> level, taken |-> FALSE,
                                    snapshot |-> [d \in Classes |-> 0]]]
    BY <1>11 DEF BeginTransaction
  <2> DEFINE t == [at |-> "begun", kind |-> k, cl |-> c, version |-> 0,
                   isolation |-> level, taken |-> FALSE, snapshot |-> [d \in Classes |-> 0]]
  <2>1. t \in Tx
    BY <1>3 DEF Tx
  <2>2. tx' = [tx EXCEPT ![h] = t]
    BY <2>0
  <2> HIDE DEF t
  <2>3. tx' \in [Threads -> Tx \cup {NoTx}]
    BY <1>5, <2>1, <2>2
  <2> QED
    BY <1>1, <1>11, <2>3 DEF BeginTransaction, TypeOK
<1>12. CASE OtherStatement(h)
  <2>1. tx' \in [Threads -> Tx \cup {NoTx}]
    BY <1>12, SnapshotTaken DEF OtherStatement
  <2> QED
    BY <1>1, <1>12, <2>1 DEF OtherStatement, TypeOK
<1> QED
  BY <1>6, <1>7, <1>8, <1>9, <1>10, <1>11, <1>12 DEF TransactionStep

(* A call that is past the entry of its monitor has an item.               *)
EnteredHaveItem ==
    \A h \in Threads : \A n \in 1 .. Len(frames[h]) :
        frames[h][n].at # "enter" => frames[h][n].item # NoItem

LEMMA TypeInit ==
    Init => TypeOK
  BY CodeCacheAssumption DEF Init, TypeOK, Versions, Content, Stamp, Empty

LEMMA TypeStep ==
    ASSUME TypeOK, [Next]_vars
    PROVE  TypeOK'
<1>0. EnteredHaveItem /\ frames \in [Threads -> Seq(Frame)]
  BY DEF TypeOK, EnteredHaveItem
<1>1. Empty \in Content
  BY CodeCacheAssumption DEF Empty, Content, Stamp, Versions
<1>2. ASSUME NEW h \in Threads, EnterMonitor(h)
      PROVE  TypeOK'
  <2>1. /\ OthersStay(h) /\ frames[h] # <<>> /\ frames[h][1].at = "enter"
        /\ monitor' = [monitor EXCEPT ![frames[h][1].cl] = h]
        /\ TakesItem(h) \/ \E new \in Items : PutsItem(h, new)
    BY <1>2, EnterShape
  <2>2. frames[h][1] \in Frame /\ frames[h][1].cl \in Classes /\ Len(frames[h]) \in Nat \ {0}
    BY <2>1, TopIsFirst DEF Frame
  <2>3. /\ cache' \in [Classes -> Items \cup {NoItem}] /\ content' \in [Items -> Content]
        /\ frames'[h][1].item # NoItem
        /\ \A n \in 2 .. Len(frames[h]) : frames'[h][n] = frames[h][n]
        /\ Len(frames'[h]) = Len(frames[h])
    <3>1. CASE TakesItem(h)
      <4>1. frames'[h][1].item = cache[frames[h][1].cl]
        BY <2>2, <3>1 DEF TakesItem, TopBecomes, Frame
      <4> QED
        BY <3>1, <4>1 DEF TakesItem, TopBecomes, TypeOK
    <3>2. ASSUME NEW new \in Items, PutsItem(h, new)
          PROVE  /\ cache' \in [Classes -> Items \cup {NoItem}]
                 /\ content' \in [Items -> Content]
                 /\ frames'[h][1].item # NoItem
                 /\ \A n \in 2 .. Len(frames[h]) : frames'[h][n] = frames[h][n]
                 /\ Len(frames'[h]) = Len(frames[h])
      <4>1. frames'[h][1].item = new
        BY <2>2, <3>2 DEF PutsItem, TopBecomes, Frame
      <4>2. NoItem \notin Items
        BY CodeCacheAssumption
      <4>3. cache' \in [Classes -> Items \cup {NoItem}] /\ content' \in [Items -> Content]
        BY <1>1, <2>2, <3>2 DEF PutsItem, TypeOK
      <4> QED
        BY <3>2, <4>1, <4>2, <4>3 DEF PutsItem, TopBecomes
    <3> QED
      BY <2>1, <3>1, <3>2
  <2>4. EnteredHaveItem'
    <3> SUFFICES ASSUME NEW g \in Threads, NEW n \in 1 .. Len(frames'[g]),
                        frames'[g][n].at # "enter"
                 PROVE  frames'[g][n].item # NoItem
      BY DEF EnteredHaveItem
    <3>1. CASE g # h
      BY <1>0, <2>1, <3>1 DEF OthersStay, EnteredHaveItem
    <3>2. CASE g = h /\ n = 1
      BY <2>3, <3>2
    <3>3. CASE g = h /\ n # 1
      BY <1>0, <2>2, <2>3, <3>3 DEF EnteredHaveItem
    <3> QED
      BY <3>1, <3>2, <3>3
  <2>5. monitor' \in [Classes -> Threads \cup {NoThread}]
    BY <2>1 DEF TypeOK
  <2>6. UNCHANGED <<committed, latest, completed, tx, known>>
    BY <1>2 DEF EnterMonitor
  <2> QED
    BY <2>1, <2>3, <2>4, <2>5, <2>6 DEF TypeOK, OthersStay, EnteredHaveItem
<1>3. ASSUME NEW h \in Threads, Find(h) \/ SetCodes(h)
      PROVE  TypeOK'
  <2>1. /\ OthersStay(h) /\ frames[h] # <<>> /\ frames[h][1].at # "enter"
        /\ Len(frames'[h]) = Len(frames[h])
        /\ \A n \in 2 .. Len(frames[h]) : frames'[h][n] = frames[h][n]
        /\ frames'[h][1].item = frames[h][1].item
    <3>1. frames[h] # <<>> /\ OthersStay(h)
      BY <1>3, FindShape, SetCodesShape
    <3>2. frames[h][1] \in Frame
      BY <3>1, TopIsFirst
    <3>3. CASE Find(h)
      BY <3>1, <3>3, FindShape DEF TopBecomes
    <3>4. CASE SetCodes(h)
      BY <3>1, <3>2, <3>4, SetCodesShape DEF TopBecomes, Frame
    <3> QED
      BY <1>3, <3>3, <3>4
  <2>2. EnteredHaveItem'
    <3> SUFFICES ASSUME NEW g \in Threads, NEW n \in 1 .. Len(frames'[g]),
                        frames'[g][n].at # "enter"
                 PROVE  frames'[g][n].item # NoItem
      BY DEF EnteredHaveItem
    <3>1. CASE g # h
      BY <1>0, <2>1, <3>1 DEF OthersStay, EnteredHaveItem
    <3>2. CASE g = h /\ n = 1
      BY <1>0, <2>1, <3>2 DEF EnteredHaveItem
    <3>3. CASE g = h /\ n # 1
      <4>1. n \in 2 .. Len(frames[h]) /\ n \in 1 .. Len(frames[h])
        BY <2>1, <3>3
      <4> QED
        BY <1>0, <2>1, <3>3, <4>1 DEF EnteredHaveItem
    <3> QED
      BY <3>1, <3>2, <3>3
  <2>3. content' \in [Items -> Content]
    <3>1. CASE Find(h)
      BY <3>1 DEF Find, TypeOK
    <3>2. CASE SetCodes(h)
      <4>1. frames[h][1] \in Frame
        BY <2>1, TopIsFirst
      <4> DEFINE k == [stamp |-> "fresh", version |-> frames[h][1].version,
                       queried |-> frames[h][1].queried]
      <4>2. k \in Content
        BY <4>1 DEF Frame, Content, Stamp
      <4>3. content' = [content EXCEPT ![frames[h][1].item] = k]
        BY <3>2, SetCodesShape
      <4> HIDE DEF k
      <4> QED
        BY <4>2, <4>3 DEF TypeOK
    <3> QED
      BY <1>3, <3>1, <3>2
  <2>4. UNCHANGED <<committed, latest, completed, cache, monitor, known>>
        /\ tx' \in [Threads -> Tx \cup {NoTx}]
    BY <1>3, SnapshotTaken DEF Find, SetCodes, TypeOK
  <2> QED
    BY <2>1, <2>2, <2>3, <2>4 DEF TypeOK, OthersStay, EnteredHaveItem
<1>4. ASSUME NEW h \in Threads, NEW d \in Classes, Get(h, d) \/ ResolveReference(h, d)
      PROVE  TypeOK'
  <2>1. Calls(h, d) /\ OthersStay(h) /\ frames[h] \in Seq(Frame)
    BY <1>0, <1>4, GetShape, ResolveShape
  <2>2. Len(frames[h]) \in Nat
    BY <2>1, LenProperties
  <2>3. EnteredHaveItem'
    <3> SUFFICES ASSUME NEW g \in Threads, NEW n \in 1 .. Len(frames'[g]),
                        frames'[g][n].at # "enter"
                 PROVE  frames'[g][n].item # NoItem
      BY DEF EnteredHaveItem
    <3>1. CASE g # h
      BY <1>0, <2>1, <3>1 DEF OthersStay, EnteredHaveItem
    <3>2. CASE g = h /\ n = 1
      BY <2>1, <3>2 DEF Calls, Call
    <3>3. CASE g = h /\ n # 1
      <4>1. n \in 2 .. Len(frames[h]) + 1 /\ n - 1 \in 1 .. Len(frames[h])
        BY <2>1, <2>2, <3>3 DEF Calls
      <4> QED
        BY <1>0, <2>1, <3>3, <4>1 DEF EnteredHaveItem, Calls
    <3> QED
      BY <3>1, <3>2, <3>3
  <2>4. UNCHANGED <<committed, latest, completed, cache, content, monitor, tx, known>>
    BY <1>4 DEF Get, ResolveReference
  <2> QED
    BY <2>1, <2>3, <2>4 DEF TypeOK, OthersStay, EnteredHaveItem
<1>5. ASSUME NEW h \in Threads, LoadFails(h)
      PROVE  TypeOK'
  <2>1. Emptied(h) /\ OthersStay(h)
    BY <1>5, FailShape
  <2>2. EnteredHaveItem'
    <3> SUFFICES ASSUME NEW g \in Threads, NEW n \in 1 .. Len(frames'[g]),
                        frames'[g][n].at # "enter"
                 PROVE  frames'[g][n].item # NoItem
      BY DEF EnteredHaveItem
    <3>1. CASE g # h
      BY <1>0, <2>1, <3>1 DEF OthersStay, EnteredHaveItem
    <3>2. CASE g = h
      <4>1. Len(frames'[g]) = 0
        BY <2>1, <3>2 DEF Emptied
      <4> QED
        BY <4>1
    <3> QED
      BY <3>1, <3>2
  <2>3. monitor' \in [Classes -> Threads \cup {NoThread}]
        /\ UNCHANGED <<committed, latest, completed, cache, content, tx, known>>
    BY <1>5 DEF LoadFails, TypeOK
  <2> QED
    BY <2>1, <2>2, <2>3 DEF TypeOK, OthersStay, EnteredHaveItem
<1>6. ASSUME NEW h \in Threads, Leave(h)
      PROVE  TypeOK'
  <2>1. Returns(h) /\ OthersStay(h) /\ frames[h] # <<>>
    BY <1>6, LeaveShape
  <2>2. Len(frames[h]) \in Nat
    BY <2>1, TopIsFirst
  <2>3. EnteredHaveItem'
    <3> SUFFICES ASSUME NEW g \in Threads, NEW n \in 1 .. Len(frames'[g]),
                        frames'[g][n].at # "enter"
                 PROVE  frames'[g][n].item # NoItem
      BY DEF EnteredHaveItem
    <3>1. CASE g # h
      BY <1>0, <2>1, <3>1 DEF OthersStay, EnteredHaveItem
    <3>2. CASE g = h
      <4>1. n \in 1 .. Len(frames[h]) - 1 /\ n + 1 \in 1 .. Len(frames[h])
        BY <2>1, <2>2, <3>2 DEF Returns
      <4> QED
        BY <1>0, <2>1, <3>2, <4>1 DEF EnteredHaveItem, Returns
    <3> QED
      BY <3>1, <3>2
  <2>4. monitor' \in [Classes -> Threads \cup {NoThread}]
        /\ UNCHANGED <<committed, latest, completed, cache, content, tx, known>>
    BY <1>6 DEF Leave, TypeOK
  <2> QED
    BY <2>1, <2>3, <2>4 DEF TypeOK, OthersStay, EnteredHaveItem
<1>7. ASSUME NEW c \in Classes, Expire(c)
      PROVE  TypeOK'
  <2> DEFINE k == [content[cache[c]] EXCEPT !.stamp = "old"]
  <2>1. cache[c] \in Items
    BY <1>7 DEF Expire, TypeOK
  <2>2. k \in Content
    <3>1. content[cache[c]] \in Content
      BY <2>1 DEF TypeOK
    <3> QED
      BY <3>1 DEF Content, Stamp
  <2>3. content' = [content EXCEPT ![cache[c]] = k]
    BY <1>7 DEF Expire
  <2> HIDE DEF k
  <2>4. content' \in [Items -> Content]
    BY <2>1, <2>2, <2>3 DEF TypeOK
  <2> QED
    BY <1>7, <2>4 DEF Expire, TypeOK
<1>8. CASE UNCHANGED vars
  BY <1>8 DEF vars, TypeOK
<1> QED
  BY <1>2, <1>3, <1>4, <1>5, <1>6, <1>7, <1>8, NextCases, TransactionStepType

(* Every variable keeps its type, and a call that is past the entry of its *)
(* monitor has an item (DefaultCodeCache.getCacheItems).                   *)
THEOREM TypeCorrect == Spec => []TypeOK
<1>1. Init => TypeOK
  BY TypeInit
<1>2. TypeOK /\ [Next]_vars => TypeOK'
  BY TypeStep
<1> QED
  BY <1>1, <1>2, PTL DEF Spec

-----------------------------------------------------------------------------
(* Where the calls after a step come from: from a call before it,          *)
Kept(g, n) ==
    \E m \in 1 .. Len(frames[g]) :
        /\ frames'[g][n].cl = frames[g][m].cl
        /\ frames'[g][n].item = frames[g][m].item
        /\ frames'[g][n].at = frames[g][m].at
        /\ frames'[g][n].version = frames[g][m].version
        /\ frames'[g][n].todo \subseteq frames[g][m].todo
        /\ frames'[g][n].queried = frames[g][m].queried

(* or it is the innermost call of a thread that has just moved.            *)
Moved(g, n) ==
    /\ n = 1
    /\ \/ EnterMonitor(g) \/ Find(g) \/ SetCodes(g)
       \/ \E d \in Classes : (Get(g, d) \/ ResolveReference(g, d)) /\ frames'[g][n] = Call(d)

LEMMA FrameOrigin ==
    ASSUME TypeOK, [Next]_vars, NEW g \in Threads, NEW n \in 1 .. Len(frames'[g])
    PROVE  Kept(g, n) \/ Moved(g, n)
<1>0. Len(frames[g]) \in Nat /\ frames[g] \in Seq(Frame)
  BY LenProperties DEF TypeOK
<1>1. ASSUME frames'[g] = frames[g]
      PROVE  Kept(g, n)
  BY <1>1 DEF Kept
<1>2. ASSUME NEW h \in Threads, OthersStay(h), h # g
      PROVE  Kept(g, n)
  BY <1>1, <1>2 DEF OthersStay
<1>3. ASSUME frames[g] # <<>>, NEW f, TopBecomes(g, f), n # 1
      PROVE  Kept(g, n)
  <2>1. n \in 2 .. Len(frames[g]) /\ n \in 1 .. Len(frames[g])
    BY <1>0, <1>3 DEF TopBecomes
  <2> QED
    BY <1>3, <2>1 DEF TopBecomes, Kept
<1>4. ASSUME NEW h \in Threads, EnterMonitor(h)
      PROVE  Kept(g, n) \/ Moved(g, n)
  <2>1. OthersStay(h) /\ frames[h] # <<>> /\ \E f : TopBecomes(h, f)
    BY <1>4, EnterShape DEF TakesItem, PutsItem
  <2> QED
    BY <1>2, <1>3, <1>4, <2>1 DEF Moved
<1>5. ASSUME NEW h \in Threads, Find(h) \/ SetCodes(h)
      PROVE  Kept(g, n) \/ Moved(g, n)
  <2>1. OthersStay(h) /\ frames[h] # <<>> /\ \E f : TopBecomes(h, f)
    BY <1>5, FindShape, SetCodesShape
  <2> QED
    BY <1>2, <1>3, <1>5, <2>1 DEF Moved
<1>6. ASSUME NEW h \in Threads, NEW d \in Classes, Get(h, d) \/ ResolveReference(h, d)
      PROVE  Kept(g, n) \/ Moved(g, n)
  <2>1. OthersStay(h) /\ Calls(h, d)
    BY <1>6, GetShape, ResolveShape
  <2>2. CASE h # g
    BY <1>2, <2>1, <2>2
  <2>3. CASE h = g /\ n = 1
    BY <1>6, <2>1, <2>3 DEF Moved, Calls
  <2>4. CASE h = g /\ n # 1
    <3> DEFINE m == n - 1
    <3>1. n \in 2 .. Len(frames[g]) + 1 /\ m \in 1 .. Len(frames[g])
      BY <1>0, <2>1, <2>4 DEF Calls
    <3> QED
      BY <2>1, <2>4, <3>1 DEF Calls, Kept
  <2> QED
    BY <2>2, <2>3, <2>4
<1>7. ASSUME NEW h \in Threads, LoadFails(h)
      PROVE  Kept(g, n)
  <2>1. Emptied(h) /\ OthersStay(h)
    BY <1>7, FailShape
  <2>2. h # g
    <3>1. h = g => Len(frames'[g]) = 0
      BY <2>1 DEF Emptied
    <3> QED
      BY <3>1
  <2> QED
    BY <1>2, <2>1, <2>2
<1>8. ASSUME NEW h \in Threads, Leave(h)
      PROVE  Kept(g, n)
  <2>1. Returns(h) /\ OthersStay(h) /\ frames[h] # <<>>
    BY <1>8, LeaveShape
  <2>2. CASE h # g
    BY <1>2, <2>1, <2>2
  <2>3. CASE h = g
    <3> DEFINE m == n + 1
    <3>1. n \in 1 .. Len(frames[g]) - 1 /\ m \in 1 .. Len(frames[g])
      BY <1>0, <2>1, <2>3 DEF Returns
    <3>2. frames'[g][n] = frames[g][m]
      BY <2>1, <2>3, <3>1 DEF Returns
    <3> QED
      BY <3>1, <3>2 DEF Kept
  <2> QED
    BY <2>2, <2>3
<1>9. ASSUME frames' = frames
      PROVE  Kept(g, n)
  BY <1>1, <1>9
<1> QED
  BY <1>4, <1>5, <1>6, <1>7, <1>8, <1>9, NextCases, TransactionStepStays DEF Expire, vars

-----------------------------------------------------------------------------
(* A call is asked for by a call that reads rows: only the innermost call  *)
(* can be anywhere else.                                                   *)
CallsAreNested ==
    \A h \in Threads : \A n \in 2 .. Len(frames[h]) : frames[h][n].at = "rows"

EnteringHasNoItem ==
    \A h \in Threads : \A n \in 1 .. Len(frames[h]) :
        frames[h][n].at = "enter" => frames[h][n].item = NoItem

TodoIsReferenced ==
    \A h \in Threads : \A n \in 1 .. Len(frames[h]) :
        frames[h][n].todo \subseteq Ref[frames[h][n].cl]

Held(h, c) ==
    \E n \in 1 .. Len(frames[h]) : frames[h][n].cl = c /\ frames[h][n].at # "enter"

(* A thread holds the monitor of a class exactly as long as a call of its  *)
(* for that class is past the entry.                                       *)
MonitorsAreHeld ==
    \A h \in Threads, c \in Classes : monitor[c] = h <=> Held(h, c)

CallInv ==
    /\ TypeOK
    /\ CallsAreNested
    /\ EnteringHasNoItem
    /\ TodoIsReferenced
    /\ MonitorsAreHeld

LEMMA CallInit ==
    Init => CallInv
<1> SUFFICES ASSUME Init
             PROVE  CallInv
  OBVIOUS
<1>1. \A h \in Threads : frames[h] = <<>> /\ Len(frames[h]) = 0
  BY DEF Init
<1>2. CallsAreNested /\ EnteringHasNoItem /\ TodoIsReferenced
  BY <1>1 DEF CallsAreNested, EnteringHasNoItem, TodoIsReferenced
<1>3. \A h \in Threads, c \in Classes : ~Held(h, c)
  BY <1>1 DEF Held
<1>4. \A h \in Threads, c \in Classes : monitor[c] # h
  BY CodeCacheAssumption DEF Init
<1> QED
  BY <1>2, <1>3, <1>4, TypeInit DEF CallInv, MonitorsAreHeld

LEMMA NestedStep ==
    ASSUME CallInv, [Next]_vars
    PROVE  CallsAreNested'
<1> SUFFICES ASSUME NEW g \in Threads, NEW n \in 2 .. Len(frames'[g])
             PROVE  frames'[g][n].at = "rows"
  BY DEF CallsAreNested
<1>0. /\ TypeOK /\ Len(frames[g]) \in Nat
      /\ \A m \in 2 .. Len(frames[g]) : frames[g][m].at = "rows"
  BY LenProperties DEF CallInv, TypeOK, CallsAreNested
<1>1. ASSUME frames'[g] = frames[g]
      PROVE  frames'[g][n].at = "rows"
  BY <1>0, <1>1
<1>2. ASSUME NEW h \in Threads, OthersStay(h), h # g
      PROVE  frames'[g][n].at = "rows"
  BY <1>1, <1>2 DEF OthersStay
<1>3. ASSUME NEW f, TopBecomes(g, f)
      PROVE  frames'[g][n].at = "rows"
  BY <1>0, <1>3 DEF TopBecomes
<1>4. ASSUME NEW h \in Threads, EnterMonitor(h) \/ Find(h) \/ SetCodes(h)
      PROVE  frames'[g][n].at = "rows"
  <2>1. OthersStay(h) /\ \E f : TopBecomes(h, f)
    BY <1>0, <1>4, EnterShape, FindShape, SetCodesShape DEF TakesItem, PutsItem
  <2> QED
    BY <1>2, <1>3, <2>1
<1>5. ASSUME NEW h \in Threads, NEW d \in Classes, Get(h, d) \/ ResolveReference(h, d)
      PROVE  frames'[g][n].at = "rows"
  <2>1. /\ OthersStay(h) /\ Calls(h, d)
        /\ Len(frames[h]) = 0 \/ frames[h][1].at = "rows"
    BY <1>0, <1>5, GetShape, ResolveShape
  <2>2. CASE h = g
    <3> DEFINE m == n - 1
    <3>1. n \in 2 .. Len(frames[g]) + 1 /\ m \in 1 .. Len(frames[g])
      BY <1>0, <2>1, <2>2 DEF Calls
    <3>2. frames'[g][n].at = frames[g][m].at
      BY <2>1, <2>2, <3>1 DEF Calls
    <3>3. frames[g][m].at = "rows"
      <4> HIDE DEF m
      <4>1. CASE m = 1
        BY <1>0, <2>1, <2>2, <3>1, <4>1
      <4>2. CASE m # 1
        BY <1>0, <3>1, <4>2
      <4> QED
        BY <4>1, <4>2
    <3> QED
      BY <3>2, <3>3
  <2> QED
    BY <1>2, <2>1, <2>2
<1>6. ASSUME NEW h \in Threads, LoadFails(h)
      PROVE  frames'[g][n].at = "rows"
  <2>1. Emptied(h) /\ OthersStay(h)
    BY <1>0, <1>6, FailShape
  <2>2. h = g => Len(frames'[g]) = 0
    BY <2>1 DEF Emptied
  <2> QED
    BY <1>2, <2>1, <2>2
<1>7. ASSUME NEW h \in Threads, Leave(h)
      PROVE  frames'[g][n].at = "rows"
  <2>1. Returns(h) /\ OthersStay(h)
    BY <1>0, <1>7, LeaveShape
  <2>2. CASE h = g
    <3> DEFINE m == n + 1
    <3>1. n \in 1 .. Len(frames[g]) - 1 /\ m \in 2 .. Len(frames[g])
      BY <1>0, <2>1, <2>2 DEF Returns
    <3>2. frames'[g][n].at = frames[g][m].at
      BY <2>1, <2>2, <3>1 DEF Returns
    <3> HIDE DEF m
    <3> QED
      BY <1>0, <3>1, <3>2
  <2> QED
    BY <1>2, <2>1, <2>2
<1>8. ASSUME frames' = frames
      PROVE  frames'[g][n].at = "rows"
  BY <1>1, <1>8
<1> QED
  BY <1>4, <1>5, <1>6, <1>7, <1>8, NextCases, TransactionStepStays DEF Expire, vars

LEMMA FrameStep ==
    ASSUME CallInv, [Next]_vars
    PROVE  EnteringHasNoItem' /\ TodoIsReferenced'
<1> SUFFICES ASSUME NEW g \in Threads, NEW n \in 1 .. Len(frames'[g])
             PROVE  /\ frames'[g][n].at = "enter" => frames'[g][n].item = NoItem
                    /\ frames'[g][n].todo \subseteq Ref[frames'[g][n].cl]
  BY DEF EnteringHasNoItem, TodoIsReferenced
<1>0. /\ TypeOK
      /\ \A m \in 1 .. Len(frames[g]) :
            /\ frames[g][m].at = "enter" => frames[g][m].item = NoItem
            /\ frames[g][m].todo \subseteq Ref[frames[g][m].cl]
  BY DEF CallInv, EnteringHasNoItem, TodoIsReferenced
<1> DEFINE f == frames[g][1]
<1>1. frames[g] # <<>> => /\ f \in Frame /\ 1 \in 1 .. Len(frames[g])
                          /\ f.todo \subseteq Ref[f.cl]
  BY <1>0, TopIsFirst
<1>2. CASE Kept(g, n)
  BY <1>0, <1>2 DEF Kept
<1>3. CASE n = 1 /\ EnterMonitor(g)
  <2>1. frames[g] # <<>> /\ (TakesItem(g) \/ \E new \in Items : PutsItem(g, new))
    BY <1>0, <1>3, EnterShape
  <2>2. /\ frames'[g][1].at # "enter" /\ frames'[g][1].todo = f.todo
        /\ frames'[g][1].cl = f.cl
    BY <1>1, <2>1 DEF TakesItem, PutsItem, TopBecomes, Frame
  <2> QED
    BY <1>1, <1>3, <2>1, <2>2
<1>4. CASE n = 1 /\ Find(g)
  <2>1. /\ frames[g] # <<>>
        /\ TopBecomes(g, Found(g))
        /\ Found(g).at = "rows" /\ Found(g).todo = Ref[f.cl] /\ Found(g).cl = f.cl
    BY <1>0, <1>4, FindShape
  <2>2. /\ frames'[g][1].at = "rows" /\ frames'[g][1].todo = Ref[f.cl]
        /\ frames'[g][1].cl = f.cl
    BY <2>1 DEF TopBecomes
  <2> QED
    BY <1>4, <2>2
<1>5. CASE n = 1 /\ SetCodes(g)
  <2>1. frames[g] # <<>> /\ TopBecomes(g, [f EXCEPT !.at = "leave"])
    BY <1>0, <1>5, SetCodesShape
  <2>2. /\ frames'[g][1].at = "leave" /\ frames'[g][1].todo = f.todo
        /\ frames'[g][1].cl = f.cl
    BY <1>1, <2>1 DEF TopBecomes, Frame
  <2> QED
    BY <1>1, <1>5, <2>1, <2>2
<1>6. CASE \E d \in Classes : frames'[g][n] = Call(d)
  BY <1>6 DEF Call
<1> QED
  BY <1>0, <1>2, <1>3, <1>4, <1>5, <1>6, FrameOrigin DEF Moved

LEMMA HeldStep ==
    ASSUME CallInv, [Next]_vars
    PROVE  MonitorsAreHeld'
<1>0. /\ TypeOK /\ MonitorsAreHeld /\ CallsAreNested
      /\ NoThread \notin Threads
      /\ monitor \in [Classes -> Threads \cup {NoThread}]
  BY CodeCacheAssumption DEF CallInv, TypeOK
<1> SUFFICES ASSUME NEW g \in Threads, NEW c \in Classes
             PROVE  monitor'[c] = g <=> Held(g, c)'
  BY DEF MonitorsAreHeld
<1>1. Len(frames[g]) \in Nat /\ (monitor[c] = g <=> Held(g, c))
  BY <1>0, LenProperties DEF MonitorsAreHeld, TypeOK
<1>2. ASSUME frames'[g] = frames[g]
      PROVE  Held(g, c)' <=> Held(g, c)
  BY <1>2 DEF Held
<1>3. ASSUME NEW h \in Threads, OthersStay(h), h # g
      PROVE  Held(g, c)' <=> Held(g, c)
  BY <1>2, <1>3 DEF OthersStay
<1>4. ASSUME NEW h \in Threads, EnterMonitor(h)
      PROVE  monitor'[c] = g <=> Held(g, c)'
  <2> DEFINE f == frames[h][1]
  <2>1. /\ OthersStay(h) /\ frames[h] # <<>> /\ f.at = "enter"
        /\ MonitorFree(h, f.cl)
        /\ monitor' = [monitor EXCEPT ![f.cl] = h]
        /\ TakesItem(h) \/ \E new \in Items : PutsItem(h, new)
    BY <1>0, <1>4, EnterShape
  <2>2. f \in Frame /\ f.cl \in Classes /\ 1 \in 1 .. Len(frames[h])
    BY <1>0, <2>1, TopIsFirst DEF Frame
  <2>3. CASE h # g
    BY <1>0, <1>1, <1>3, <2>1, <2>2, <2>3 DEF MonitorFree
  <2>4. CASE h = g
    <3>1. /\ frames'[h][1].at # "enter" /\ frames'[h][1].cl = f.cl
          /\ Len(frames'[h]) = Len(frames[h])
          /\ \A n \in 2 .. Len(frames[h]) : frames'[h][n] = frames[h][n]
      BY <2>1, <2>2 DEF TakesItem, PutsItem, TopBecomes, Frame
    <3>2. \A n \in 1 .. Len(frames[h]) : n = 1 \/ n \in 2 .. Len(frames[h])
      BY <1>1, <2>4
    <3>3. Held(h, c)' <=> Held(h, c) \/ c = f.cl
      <4> HIDE DEF f
      <4> QED
        BY <2>1, <2>2, <3>1, <3>2 DEF Held, f
    <3> QED
      BY <1>0, <1>1, <2>1, <2>2, <2>4, <3>3
  <2> QED
    BY <2>3, <2>4
<1>5. ASSUME NEW h \in Threads, Find(h) \/ SetCodes(h)
      PROVE  monitor'[c] = g <=> Held(g, c)'
  <2>1. OthersStay(h) /\ frames[h] # <<>> /\ frames[h][1].at # "enter" /\ monitor' = monitor
    BY <1>0, <1>5, FindShape, SetCodesShape DEF Find, SetCodes
  <2>2. frames[h][1] \in Frame
    BY <1>0, <2>1, TopIsFirst
  <2>3. /\ frames'[h][1].at # "enter" /\ frames'[h][1].cl = frames[h][1].cl
        /\ Len(frames'[h]) = Len(frames[h])
        /\ \A n \in 2 .. Len(frames[h]) : frames'[h][n] = frames[h][n]
    <3>1. CASE Find(h)
      BY <1>0, <3>1, FindShape DEF TopBecomes
    <3>2. CASE SetCodes(h)
      BY <1>0, <2>2, <3>2, SetCodesShape DEF TopBecomes, Frame
    <3> QED
      BY <1>5, <3>1, <3>2
  <2>4. CASE h = g
    <3>1. \A n \in 1 .. Len(frames[h]) : n = 1 \/ n \in 2 .. Len(frames[h])
      BY <1>1, <2>4
    <3>2. Held(h, c)' <=> Held(h, c)
      BY <2>1, <2>3, <3>1 DEF Held
    <3> QED
      BY <1>1, <2>1, <2>4, <3>2
  <2> QED
    BY <1>1, <1>3, <2>1, <2>4
<1>6. ASSUME NEW h \in Threads, NEW d \in Classes, Get(h, d) \/ ResolveReference(h, d)
      PROVE  monitor'[c] = g <=> Held(g, c)'
  <2>1. OthersStay(h) /\ Calls(h, d) /\ monitor' = monitor
    BY <1>0, <1>6, GetShape, ResolveShape DEF Get, ResolveReference
  <2>2. CASE h = g
    <3>1. ASSUME NEW n \in 1 .. Len(frames'[h]), frames'[h][n].cl = c,
                 frames'[h][n].at # "enter"
          PROVE  Held(h, c)
      <4>1. n # 1
        BY <2>1, <3>1 DEF Calls, Call
      <4> DEFINE m == n - 1
      <4>2. n \in 2 .. Len(frames[h]) + 1 /\ m \in 1 .. Len(frames[h])
        BY <1>1, <2>1, <2>2, <4>1 DEF Calls
      <4>3. frames[h][m].cl = c /\ frames[h][m].at # "enter"
        BY <2>1, <3>1, <4>2 DEF Calls
      <4> HIDE DEF m
      <4> QED
        BY <4>2, <4>3 DEF Held
    <3>2. ASSUME NEW n \in 1 .. Len(frames[h]), frames[h][n].cl = c,
                 frames[h][n].at # "enter"
          PROVE  Held(h, c)'
      <4> DEFINE m == n + 1
      <4>1. m \in 2 .. Len(frames[h]) + 1 /\ m \in 1 .. Len(frames'[h]) /\ m - 1 = n
        BY <1>1, <2>1, <2>2 DEF Calls
      <4> HIDE DEF m
      <4>2. frames'[h][m].cl = c /\ frames'[h][m].at # "enter"
        BY <2>1, <3>2, <4>1 DEF Calls
      <4> QED
        BY <4>1, <4>2 DEF Held
    <3> QED
      BY <1>1, <2>1, <2>2, <3>1, <3>2 DEF Held
  <2> QED
    BY <1>1, <1>3, <2>1, <2>2
<1>7. ASSUME NEW h \in Threads, LoadFails(h)
      PROVE  monitor'[c] = g <=> Held(g, c)'
  <2>1. Emptied(h) /\ OthersStay(h)
        /\ monitor' = [k \in Classes |-> IF monitor[k] = h THEN NoThread ELSE monitor[k]]
    BY <1>0, <1>7, FailShape DEF LoadFails
  <2>2. CASE h = g
    <3>1. Len(frames'[g]) = 0
      BY <2>1, <2>2 DEF Emptied
    <3>2. ~Held(g, c)'
      BY <3>1 DEF Held
    <3> QED
      BY <1>0, <2>1, <2>2, <3>2
  <2> QED
    BY <1>0, <1>1, <1>3, <2>1, <2>2
<1>8. ASSUME NEW h \in Threads, Leave(h)
      PROVE  monitor'[c] = g <=> Held(g, c)'
  <2> DEFINE f == frames[h][1]
             kept == \E n \in 2 .. Len(frames[h]) : frames[h][n].cl = f.cl
  <2>1. Returns(h) /\ OthersStay(h) /\ frames[h] # <<>> /\ f.at = "leave"
    BY <1>0, <1>8, LeaveShape
  <2>2. /\ f \in Frame /\ f.cl \in Classes /\ 1 \in 1 .. Len(frames[h])
        /\ Top(h) = f /\ Len(frames[h]) \in Nat \ {0}
        /\ Len(Tail(frames[h])) = Len(frames[h]) - 1
        /\ \A n \in 1 .. Len(frames[h]) - 1 : Tail(frames[h])[n] = frames[h][n + 1]
    BY <1>0, <2>1, TopIsFirst DEF Frame
  <2>3. monitor' = [monitor EXCEPT ![f.cl] = IF kept THEN h ELSE NoThread]
    <3>1. (\E n \in 1 .. Len(Tail(frames[h])) : Tail(frames[h])[n].cl = f.cl) <=> kept
      <4>1. ASSUME NEW n \in 1 .. Len(Tail(frames[h])), Tail(frames[h])[n].cl = f.cl
            PROVE  kept
        <5> DEFINE m == n + 1
        <5>1. m \in 2 .. Len(frames[h]) /\ frames[h][m].cl = f.cl
          BY <2>2, <4>1
        <5> HIDE DEF m, f
        <5> QED
          BY <5>1
      <4>2. ASSUME NEW n \in 2 .. Len(frames[h]), frames[h][n].cl = f.cl
            PROVE  \E m \in 1 .. Len(Tail(frames[h])) : Tail(frames[h])[m].cl = f.cl
        <5> DEFINE m == n - 1
        <5>1. m \in 1 .. Len(Tail(frames[h])) /\ m + 1 = n /\ m \in 1 .. Len(frames[h]) - 1
          BY <2>2
        <5> HIDE DEF m, f
        <5> QED
          BY <2>2, <4>2, <5>1
      <4> QED
        BY <4>1, <4>2
    <3> HIDE DEF kept
    <3> QED
      BY <1>8, <2>2, <3>1 DEF Leave
  <2>4. Held(h, f.cl)
    BY <2>1, <2>2 DEF Held
  <2>5. monitor[f.cl] = h
    BY <1>0, <2>2, <2>4 DEF MonitorsAreHeld
  <2>6. CASE h # g
    <3> HIDE DEF kept, f
    <3> QED
      BY <1>0, <1>1, <1>3, <2>1, <2>2, <2>3, <2>5, <2>6
  <2>7. CASE h = g
    <3>1. Held(h, c)' <=> \E n \in 2 .. Len(frames[h]) : frames[h][n].cl = c
      <4>1. ASSUME NEW n \in 1 .. Len(frames'[h]), frames'[h][n].cl = c
            PROVE  \E m \in 2 .. Len(frames[h]) : frames[h][m].cl = c
        <5> DEFINE m == n + 1
        <5>1. m \in 2 .. Len(frames[h]) /\ n \in 1 .. Len(frames[h]) - 1
          BY <2>1, <2>2 DEF Returns
        <5>2. frames[h][m].cl = c
          BY <2>1, <4>1, <5>1 DEF Returns
        <5> HIDE DEF m
        <5> QED
          BY <5>1, <5>2
      <4>2. ASSUME NEW n \in 2 .. Len(frames[h]), frames[h][n].cl = c
            PROVE  Held(h, c)'
        <5> DEFINE m == n - 1
        <5>1. /\ m \in 1 .. Len(frames'[h]) /\ m \in 1 .. Len(frames[h]) - 1 /\ m + 1 = n
          BY <2>1, <2>2 DEF Returns
        <5> HIDE DEF m
        <5>2. frames'[h][m].cl = c /\ frames'[h][m].at = frames[h][n].at
          BY <2>1, <4>2, <5>1 DEF Returns
        <5>3. frames[h][n].at = "rows"
          BY <1>0 DEF CallsAreNested
        <5> QED
          BY <5>1, <5>2, <5>3 DEF Held
      <4> QED
        BY <4>1, <4>2 DEF Held
    <3>2. CASE c = f.cl
      <4> HIDE DEF f
      <4> QED
        BY <1>0, <2>2, <2>3, <2>7, <3>1, <3>2
    <3>3. CASE c # f.cl
      <4>1. Held(h, c) <=> \E n \in 2 .. Len(frames[h]) : frames[h][n].cl = c
        <5>1. \A n \in 1 .. Len(frames[h]) : n # 1 => n \in 2 .. Len(frames[h])
          BY <2>2
        <5>2. \A n \in 2 .. Len(frames[h]) :
                 n \in 1 .. Len(frames[h]) /\ frames[h][n].at # "enter"
          BY <1>0, <2>2 DEF CallsAreNested
        <5> QED
          BY <3>3, <5>1, <5>2 DEF Held
      <4>2. monitor'[c] = monitor[c]
        <5> HIDE DEF kept, f
        <5> QED
          BY <1>0, <2>3, <3>3
      <4> QED
        BY <1>1, <2>7, <3>1, <4>1, <4>2
    <3> QED
      BY <3>2, <3>3
  <2> QED
    BY <2>6, <2>7
<1>9. ASSUME frames' = frames, monitor' = monitor
      PROVE  monitor'[c] = g <=> Held(g, c)'
  BY <1>1, <1>2, <1>9
<1> QED
  BY <1>4, <1>5, <1>6, <1>7, <1>8, <1>9, NextCases, TransactionStepStays DEF Expire, vars

LEMMA CallStep ==
    ASSUME CallInv, [Next]_vars
    PROVE  CallInv'
<1>1. TypeOK
  BY DEF CallInv
<1> QED
  BY <1>1, TypeStep, NestedStep, FrameStep, HeldStep DEF CallInv

(* The calls of getCacheItems nest by the references of the classes, and a *)
(* thread is in synchronized (clazz) exactly as long as one of its calls   *)
(* for the class is.                                                       *)
THEOREM CallsCorrect == Spec => []CallInv
<1>1. Init => CallInv
  BY CallInit
<1>2. CallInv /\ [Next]_vars => CallInv'
  BY CallStep
<1> QED
  BY <1>1, <1>2, PTL DEF Spec

-----------------------------------------------------------------------------
(* References between code classes, the referenced class first; those to   *)
(* another class; "there is no endless chain of them" (for finitely many   *)
(* classes: no cycle).                                                     *)
References == {p \in Classes \X Classes : p[1] \in Ref[p[2]]}

OtherReferences == {p \in References : p[1] # p[2]}

ReferencesEnd == IsWellFoundedOn(References, Classes)

OtherReferencesEnd == IsWellFoundedOn(OtherReferences, Classes)

(* The calls of a thread follow the references, innermost call first.      *)
Follows(below) ==
    \A h \in Threads : \A m, n \in 1 .. Len(frames[h]) :
        m < n => <<frames[h][m].cl, frames[h][n].cl>> \in below

LEMMA ReferencesCover ==
    /\ \A c \in Classes : \A d \in Ref[c] : d \in Classes /\ <<d, c>> \in References
    /\ \A c \in Classes : \A d \in Ref[c] : d = c \/ <<d, c>> \in OtherReferences
  BY CodeCacheAssumption DEF References, OtherReferences

LEMMA FollowsInit ==
    ASSUME NEW below, Init
    PROVE  Follows(below)
<1>1. \A h \in Threads : frames[h] = <<>> /\ Len(frames[h]) = 0
  BY DEF Init
<1> QED
  BY <1>1 DEF Follows

LEMMA FollowsStep ==
    ASSUME NEW below, IsTransitivelyClosedOn(below, Classes),
           \A c \in Classes : \A d \in Ref[c] : <<d, c>> \in below,
           CallInv, Follows(below), [Next]_vars
    PROVE  Follows(below)'
<1> SUFFICES ASSUME NEW g \in Threads, NEW m \in 1 .. Len(frames'[g]),
                    NEW n \in 1 .. Len(frames'[g]), m < n
             PROVE  <<frames'[g][m].cl, frames'[g][n].cl>> \in below
  BY DEF Follows
<1>0. /\ TypeOK /\ Len(frames[g]) \in Nat
      /\ \A i, j \in 1 .. Len(frames[g]) :
            i < j => <<frames[g][i].cl, frames[g][j].cl>> \in below
      /\ \A i \in 1 .. Len(frames[g]) :
            frames[g][i] \in Frame /\ frames[g][i].cl \in Classes
            /\ frames[g][i].todo \subseteq Ref[frames[g][i].cl]
  <2>1. frames[g] \in Seq(Frame)
    BY DEF CallInv, TypeOK
  <2>2. \A i \in 1 .. Len(frames[g]) : frames[g][i] \in Frame
    BY <2>1, ElementOfSeq
  <2>3. Len(frames[g]) \in Nat
    BY <2>1, LenProperties
  <2> QED
    BY <2>2, <2>3 DEF CallInv, Follows, TodoIsReferenced, Frame
<1>1. ASSUME frames'[g] = frames[g]
      PROVE  <<frames'[g][m].cl, frames'[g][n].cl>> \in below
  BY <1>0, <1>1
<1>2. ASSUME NEW h \in Threads, OthersStay(h), h # g
      PROVE  <<frames'[g][m].cl, frames'[g][n].cl>> \in below
  BY <1>1, <1>2 DEF OthersStay
<1>3. ASSUME NEW f, frames[g] # <<>>, TopBecomes(g, f), f.cl = frames[g][1].cl
      PROVE  <<frames'[g][m].cl, frames'[g][n].cl>> \in below
  <2>1. \A i \in 1 .. Len(frames'[g]) :
           i \in 1 .. Len(frames[g]) /\ frames'[g][i].cl = frames[g][i].cl
    BY <1>0, <1>3 DEF TopBecomes
  <2> QED
    BY <1>0, <2>1
<1>4. ASSUME NEW h \in Threads, EnterMonitor(h) \/ Find(h) \/ SetCodes(h)
      PROVE  <<frames'[g][m].cl, frames'[g][n].cl>> \in below
  <2>1. OthersStay(h) /\ frames[h] # <<>>
    BY <1>0, <1>4, EnterShape, FindShape, SetCodesShape
  <2>2. frames[h][1] \in Frame
    BY <1>0, <2>1, TopIsFirst
  <2>3. \E f : TopBecomes(h, f) /\ f.cl = frames[h][1].cl
    <3>1. CASE EnterMonitor(h)
      <4>1. TakesItem(h) \/ \E new \in Items : PutsItem(h, new)
        BY <1>0, <3>1, EnterShape
      <4>2. CASE TakesItem(h)
        <5> DEFINE f == [frames[h][1] EXCEPT !.item = cache[frames[h][1].cl], !.at = "leave"]
        <5>1. TopBecomes(h, f)
          BY <4>2 DEF TakesItem
        <5>2. f.cl = frames[h][1].cl
          BY <2>2 DEF Frame
        <5> QED
          BY <5>1, <5>2
      <4>3. ASSUME NEW new \in Items, PutsItem(h, new)
            PROVE  \E f : TopBecomes(h, f) /\ f.cl = frames[h][1].cl
        <5> DEFINE f == [frames[h][1] EXCEPT !.item = new, !.at = "find"]
        <5>1. TopBecomes(h, f)
          BY <4>3 DEF PutsItem
        <5>2. f.cl = frames[h][1].cl
          BY <2>2 DEF Frame
        <5> QED
          BY <5>1, <5>2
      <4> QED
        BY <4>1, <4>2, <4>3
    <3>2. CASE Find(h)
      BY <1>0, <3>2, FindShape
    <3>3. CASE SetCodes(h)
      <4> DEFINE f == [frames[h][1] EXCEPT !.at = "leave"]
      <4>1. TopBecomes(h, f)
        BY <1>0, <3>3, SetCodesShape
      <4>2. f.cl = frames[h][1].cl
        BY <2>2 DEF Frame
      <4> QED
        BY <4>1, <4>2
    <3> QED
      BY <1>4, <3>1, <3>2, <3>3
  <2> QED
    BY <1>2, <1>3, <2>1, <2>3
<1>5. ASSUME NEW h \in Threads, NEW d \in Classes, Get(h, d) \/ ResolveReference(h, d)
      PROVE  <<frames'[g][m].cl, frames'[g][n].cl>> \in below
  <2>1. /\ OthersStay(h) /\ Calls(h, d)
        /\ Len(frames[h]) = 0 \/ (frames[h] # <<>> /\ d \in frames[h][1].todo)
    BY <1>0, <1>5, GetShape, ResolveShape
  <2>2. CASE h = g
    <3> DEFINE j == n - 1
    <3>1. n \in 2 .. Len(frames[g]) + 1 /\ j \in 1 .. Len(frames[g])
      BY <1>0, <2>1, <2>2 DEF Calls
    <3>2. frames'[g][n].cl = frames[g][j].cl
      BY <2>1, <2>2, <3>1 DEF Calls
    <3>3. CASE m = 1
      <4>1. frames'[g][m].cl = d
        BY <2>1, <2>2, <3>3 DEF Calls, Call
      <4>2. 1 \in 1 .. Len(frames[g]) /\ Len(frames[g]) # 0
        BY <1>0, <3>1
      <4>3. <<d, frames[g][1].cl>> \in below
        BY <1>0, <2>1, <2>2, <4>2
      <4>4. CASE j = 1
        BY <3>2, <4>1, <4>3, <4>4
      <4>5. CASE j # 1
        <5> HIDE DEF j
        <5>1. <<frames[g][1].cl, frames[g][j].cl>> \in below
          BY <1>0, <3>1, <4>2, <4>5
        <5> QED
          BY <1>0, <3>1, <3>2, <4>1, <4>2, <4>3, <5>1 DEF IsTransitivelyClosedOn
      <4> QED
        BY <4>4, <4>5
    <3>4. CASE m # 1
      <4> DEFINE i == m - 1
      <4>1. m \in 2 .. Len(frames[g]) + 1 /\ i \in 1 .. Len(frames[g]) /\ i < j
        BY <1>0, <2>1, <2>2, <3>4 DEF Calls
      <4>2. frames'[g][m].cl = frames[g][i].cl
        BY <2>1, <2>2, <4>1 DEF Calls
      <4> HIDE DEF i, j
      <4> QED
        BY <1>0, <3>1, <3>2, <4>1, <4>2
    <3> QED
      BY <3>3, <3>4
  <2> QED
    BY <1>2, <2>1, <2>2
<1>6. ASSUME NEW h \in Threads, LoadFails(h)
      PROVE  <<frames'[g][m].cl, frames'[g][n].cl>> \in below
  <2>1. Emptied(h) /\ OthersStay(h)
    BY <1>0, <1>6, FailShape
  <2>2. h = g => Len(frames'[g]) = 0
    BY <2>1 DEF Emptied
  <2> QED
    BY <1>2, <2>1, <2>2
<1>7. ASSUME NEW h \in Threads, Leave(h)
      PROVE  <<frames'[g][m].cl, frames'[g][n].cl>> \in below
  <2>1. Returns(h) /\ OthersStay(h)
    BY <1>0, <1>7, LeaveShape
  <2>2. CASE h = g
    <3> DEFINE i == m + 1
               j == n + 1
    <3>1. /\ m \in 1 .. Len(frames[g]) - 1 /\ n \in 1 .. Len(frames[g]) - 1
          /\ i \in 1 .. Len(frames[g]) /\ j \in 1 .. Len(frames[g]) /\ i < j
      BY <1>0, <2>1, <2>2 DEF Returns
    <3>2. frames'[g][m].cl = frames[g][i].cl /\ frames'[g][n].cl = frames[g][j].cl
      BY <2>1, <2>2, <3>1 DEF Returns
    <3> HIDE DEF i, j
    <3> QED
      BY <1>0, <3>1, <3>2
  <2> QED
    BY <1>2, <2>1, <2>2
<1>8. ASSUME frames' = frames
      PROVE  <<frames'[g][m].cl, frames'[g][n].cl>> \in below
  BY <1>1, <1>8
<1> QED
  BY <1>4, <1>5, <1>6, <1>7, <1>8, NextCases, TransactionStepStays DEF Expire, vars

-----------------------------------------------------------------------------
Below == TransitiveClosureOn(OtherReferences, Classes)

BelowOrSame == Below \cup {p \in Classes \X Classes : p[1] = p[2]}

LEMMA BelowOrders ==
    /\ \A c \in Classes : \A d \in Ref[c] : <<d, c>> \in BelowOrSame
    /\ IsTransitivelyClosedOn(BelowOrSame, Classes)
<1>1. /\ OtherReferences \cap (Classes \X Classes) \subseteq Below
      /\ IsTransitivelyClosedOn(Below, Classes)
  BY TransitiveClosureThm DEF Below
<1>2. OtherReferences \subseteq Below
  BY <1>1 DEF OtherReferences, References
<1>3. \A c \in Classes : \A d \in Ref[c] : <<d, c>> \in BelowOrSame
  BY <1>2, ReferencesCover DEF BelowOrSame
<1>4. \A c, d \in Classes : <<c, d>> \in BelowOrSame <=> c = d \/ <<c, d>> \in Below
  BY DEF BelowOrSame
<1>5. IsTransitivelyClosedOn(BelowOrSame, Classes)
  BY <1>1, <1>4 DEF IsTransitivelyClosedOn
<1> QED
  BY <1>3, <1>5

(* Among threads that wait for each other's monitors, one waits for a      *)
(* class none of the others refers to from below: its holder's innermost   *)
(* call is for the same class, so the holder does not wait.                *)
LEMMA DeadlockFree ==
    ASSUME OtherReferencesEnd, CallInv, Follows(BelowOrSame)
    PROVE  NoMonitorDeadlock
<1> SUFFICES ASSUME NEW S \in (SUBSET Threads) \ {{}}
             PROVE  \E h \in S : Waiting(h) => monitor[Top(h).cl] \notin S
  BY DEF NoMonitorDeadlock
<1> SUFFICES ASSUME \A h \in S : Waiting(h) /\ monitor[Top(h).cl] \in S
             PROVE  FALSE
  OBVIOUS
<1>0. TypeOK /\ MonitorsAreHeld /\ NoThread \notin Threads
  BY CodeCacheAssumption DEF CallInv
<1>1. \A h \in S : /\ frames[h] # <<>> /\ Top(h) = frames[h][1]
                   /\ Top(h).at = "enter" /\ Top(h).cl \in Classes
                   /\ Len(frames[h]) \in Nat \ {0}
                   /\ ~MonitorFree(h, Top(h).cl)
  BY <1>0, TopIsFirst DEF Waiting, At, Frame
<1> DEFINE T == {Top(h).cl : h \in S}
<1>2. T \subseteq Classes /\ T # {}
  BY <1>1
<1>3. IsWellFoundedOn(Below, Classes)
  BY TransitiveClosureWF DEF OtherReferencesEnd, Below
<1>4. \E x \in T : \A y \in T : ~ (<<y, x>> \in Below)
  <2> HIDE DEF T
  <2> QED
    BY <1>2, <1>3, WFMin
<1>5. PICK h \in S : \A k \in S : <<Top(k).cl, Top(h).cl>> \notin Below
  BY <1>4
<1> DEFINE c == Top(h).cl
           g == monitor[c]
<1>6. c \in Classes /\ g \in S /\ g \in Threads
  BY <1>1
<1>7. PICK n \in 1 .. Len(frames[g]) : frames[g][n].cl = c /\ frames[g][n].at # "enter"
  BY <1>0, <1>6 DEF MonitorsAreHeld, Held
<1>8. 1 \in 1 .. Len(frames[g]) /\ 1 < n
  BY <1>1, <1>6, <1>7
<1>9. <<Top(g).cl, c>> \in BelowOrSame
  BY <1>1, <1>6, <1>7, <1>8 DEF Follows
<1>10. Top(g).cl = c
  BY <1>5, <1>6, <1>9 DEF BelowOrSame
<1>11. MonitorFree(g, Top(g).cl)
  BY <1>10 DEF MonitorFree
<1> QED
  BY <1>1, <1>6, <1>11

(* Threads never wait for each other's monitors of code classes in a       *)
(* circle (synchronized in DefaultCodeCache.getCacheItems), if no code     *)
(* class refers to itself by way of other code classes; it may refer to    *)
(* itself, and any load may fail.                                          *)
THEOREM MonitorsDoNotDeadlock ==
    ASSUME OtherReferencesEnd
    PROVE  Spec => []NoMonitorDeadlock
<1>1. Init => CallInv /\ Follows(BelowOrSame)
  BY CallInit, FollowsInit
<1>2. CallInv /\ Follows(BelowOrSame) /\ [Next]_vars => CallInv' /\ Follows(BelowOrSame)'
  BY CallStep, FollowsStep, BelowOrders
<1>3. CallInv /\ Follows(BelowOrSame) => NoMonitorDeadlock
  BY DeadlockFree
<1> QED
  BY <1>1, <1>2, <1>3, PTL DEF Spec

-----------------------------------------------------------------------------
(* An item is used for one class only, be it in the cache or by a call.    *)
InUse(i, c) ==
    \/ cache[c] = i
    \/ \E h \in Threads : \E n \in 1 .. Len(frames[h]) :
          frames[h][n].item = i /\ frames[h][n].cl = c

ItemsHaveOneClass ==
    \A i \in Items : \A c, d \in Classes : InUse(i, c) /\ InUse(i, d) => c = d

ItemInv == CallInv /\ ItemsHaveOneClass

LEMMA CacheOrigin ==
    ASSUME TypeOK, [Next]_vars, NEW c \in Classes
    PROVE  \/ cache'[c] = cache[c] \/ cache'[c] = NoItem
           \/ \E h \in Threads : /\ EnterMonitor(h) /\ PutsItem(h, cache'[c])
                                 /\ c = frames[h][1].cl
<1>0. cache \in [Classes -> Items \cup {NoItem}]
  BY DEF TypeOK
<1>1. ASSUME NEW h \in Threads, EnterMonitor(h)
      PROVE  \/ cache'[c] = cache[c]
             \/ EnterMonitor(h) /\ PutsItem(h, cache'[c]) /\ c = frames[h][1].cl
  <2>1. TakesItem(h) \/ \E new \in Items : PutsItem(h, new)
    BY <1>1, EnterShape
  <2>2. ASSUME NEW new \in Items, PutsItem(h, new), c = frames[h][1].cl
        PROVE  cache'[c] = new
    BY <1>0, <2>2 DEF PutsItem
  <2>3. ASSUME NEW new \in Items, PutsItem(h, new), c # frames[h][1].cl
        PROVE  cache'[c] = cache[c]
    BY <1>0, <2>3 DEF PutsItem
  <2> QED
    BY <1>1, <2>1, <2>2, <2>3 DEF TakesItem
<1>2. ASSUME NEW h \in Threads, TransactionStep(h)
      PROVE  cache'[c] = cache[c] \/ cache'[c] = NoItem
  BY <1>0, <1>2 DEF TransactionStep, OtherStatement, WriteCodes, InvalidateInTable,
                    Commit, Rollback, HandleCodeCache, BeginTransaction, InvalidateCodeCache
<1> QED
  BY <1>1, <1>2, NextCases DEF Find, SetCodes, LoadFails, Leave, Get, ResolveReference,
                               Expire, vars

LEMMA UseOrigin ==
    ASSUME TypeOK, [Next]_vars, NEW i \in Items, NEW c \in Classes, InUse(i, c)'
    PROVE  \/ InUse(i, c)
           \/ \E h \in Threads : EnterMonitor(h) /\ PutsItem(h, i) /\ c = frames[h][1].cl
<1>0. NoItem \notin Items
  BY CodeCacheAssumption
<1>1. CASE cache'[c] = i
  BY <1>0, <1>1, CacheOrigin DEF InUse
<1>2. ASSUME NEW g \in Threads, NEW n \in 1 .. Len(frames'[g]),
             frames'[g][n].item = i, frames'[g][n].cl = c
      PROVE  \/ InUse(i, c)
             \/ EnterMonitor(g) /\ PutsItem(g, i) /\ c = frames[g][1].cl
  <2> DEFINE f == frames[g][1]
  <2>1. frames[g] # <<>> => f \in Frame /\ 1 \in 1 .. Len(frames[g])
    BY TopIsFirst
  <2>2. CASE Kept(g, n)
    BY <1>2, <2>2 DEF Kept, InUse
  <2>3. CASE n = 1 /\ EnterMonitor(g)
    <3>1. frames[g] # <<>> /\ (TakesItem(g) \/ \E new \in Items : PutsItem(g, new))
      BY <2>3, EnterShape
    <3>2. CASE TakesItem(g)
      <4>1. frames'[g][1].cl = f.cl /\ frames'[g][1].item = cache[f.cl]
        BY <2>1, <3>1, <3>2 DEF TakesItem, TopBecomes, Frame
      <4> QED
        BY <1>2, <2>3, <4>1 DEF InUse
    <3>3. ASSUME NEW new \in Items, PutsItem(g, new)
          PROVE  EnterMonitor(g) /\ PutsItem(g, i) /\ c = f.cl
      <4>1. frames'[g][1].cl = f.cl /\ frames'[g][1].item = new
        BY <2>1, <3>1, <3>3 DEF PutsItem, TopBecomes, Frame
      <4> QED
        BY <1>2, <2>3, <3>3, <4>1
    <3> QED
      BY <3>1, <3>2, <3>3
  <2>4. CASE n = 1 /\ (Find(g) \/ SetCodes(g))
    <3>1. frames[g] # <<>>
      BY <2>4, FindShape, SetCodesShape
    <3>2. CASE Find(g)
      <4>1. frames'[g][1].cl = f.cl /\ frames'[g][1].item = f.item
        BY <3>2, FindShape DEF TopBecomes
      <4> QED
        BY <1>2, <2>1, <2>4, <3>1, <4>1 DEF InUse
    <3>3. CASE SetCodes(g)
      <4>1. frames'[g][1].cl = f.cl /\ frames'[g][1].item = f.item
        BY <2>1, <3>1, <3>3, SetCodesShape DEF TopBecomes, Frame
      <4> QED
        BY <1>2, <2>1, <2>4, <3>1, <4>1 DEF InUse
    <3> QED
      BY <2>4, <3>2, <3>3
  <2>5. CASE \E d \in Classes : frames'[g][n] = Call(d)
    BY <1>0, <1>2, <2>5 DEF Call
  <2> QED
    BY <2>2, <2>3, <2>4, <2>5, FrameOrigin DEF Moved
<1> QED
  BY <1>1, <1>2 DEF InUse

LEMMA PutsUnused ==
    ASSUME NEW h \in Threads, NEW i, PutsItem(h, i), NEW c \in Classes
    PROVE  ~InUse(i, c)
  BY DEF PutsItem, Reachable, InUse

LEMMA ItemStep ==
    ASSUME ItemInv, [Next]_vars
    PROVE  ItemInv'
<1>1. TypeOK /\ CallInv /\ cache \in [Classes -> Items \cup {NoItem}]
  BY DEF ItemInv, CallInv, TypeOK
<1>2. ASSUME NEW i \in Items, NEW c \in Classes, NEW d \in Classes,
             InUse(i, c)', InUse(i, d)'
      PROVE  c = d
  <2>1. ASSUME NEW h \in Threads, EnterMonitor(h), PutsItem(h, i), c = frames[h][1].cl,
               NEW g \in Threads, EnterMonitor(g), PutsItem(g, i), d = frames[g][1].cl
        PROVE  c = d
    <3>1. cache[c] # i
      BY <2>1, PutsUnused DEF InUse
    <3>2. cache'[c] = i
      BY <1>1, <2>1 DEF PutsItem
    <3>3. c # d => cache'[c] = cache[c]
      BY <1>1, <2>1 DEF PutsItem
    <3> QED
      BY <3>1, <3>2, <3>3
  <2>2. CASE InUse(i, c) /\ InUse(i, d)
    BY <2>2 DEF ItemInv, ItemsHaveOneClass
  <2> QED
    BY <1>1, <1>2, <2>1, <2>2, UseOrigin, PutsUnused
<1>3. ItemsHaveOneClass'
  BY <1>2 DEF ItemsHaveOneClass
<1> QED
  BY <1>1, <1>3, CallStep DEF ItemInv

LEMMA ItemInit ==
    Init => ItemInv
<1> SUFFICES ASSUME Init
             PROVE  ItemsHaveOneClass
  BY CallInit DEF ItemInv
<1>1. \A h \in Threads : frames[h] = <<>> /\ Len(frames[h]) = 0
  BY DEF Init
<1>2. \A i \in Items, c \in Classes : cache[c] # i
  BY CodeCacheAssumption DEF Init
<1> QED
  BY <1>1, <1>2 DEF ItemsHaveOneClass, InUse

-----------------------------------------------------------------------------
(* The content of an item that is in use is only set or gets old.          *)
LEMMA ContentStep ==
    ASSUME TypeOK, [Next]_vars, NEW i \in Items, Reachable(i)
    PROVE  /\ content'[i].stamp = "unset" => content[i].stamp = "unset"
           /\ \/ content'[i] = content[i]
              \/ content'[i].version = content[i].version /\ content'[i].queried = content[i].queried
                 /\ content[i].stamp # "unset"
              \/ \E h \in Threads : /\ SetCodes(h) /\ frames[h][1].item = i
                                    /\ content'[i].version = frames[h][1].version
                                    /\ content'[i].queried = frames[h][1].queried
<1>0. content \in [Items -> Content]
  BY DEF TypeOK
<1> DEFINE Same == content'[i] = content[i]
<1>1. ASSUME NEW h \in Threads, EnterMonitor(h)
      PROVE  Same
  <2>1. ASSUME NEW new \in Items, PutsItem(h, new)
        PROVE  Same
    BY <1>0, <2>1 DEF PutsItem
  <2> QED
    BY <1>1, <2>1, EnterShape DEF TakesItem
<1>2. ASSUME NEW h \in Threads, SetCodes(h)
      PROVE  \/ Same
             \/ /\ frames[h][1].item = i /\ content'[i].stamp = "fresh"
                /\ content'[i].version = frames[h][1].version
                /\ content'[i].queried = frames[h][1].queried
  <2> DEFINE f == frames[h][1]
             k == [stamp |-> "fresh", version |-> f.version, queried |-> f.queried]
  <2>1. f.item \in Items /\ content' = [content EXCEPT ![f.item] = k]
    BY <1>2, SetCodesShape
  <2>2. CASE f.item = i
    <3>1. content'[i] = k
      BY <1>0, <2>1, <2>2
    <3> QED
      BY <2>2, <3>1
  <2>3. CASE f.item # i
    BY <1>0, <2>1, <2>3
  <2> QED
    BY <2>2, <2>3
<1>3. ASSUME NEW c \in Classes, Expire(c)
      PROVE  \/ Same
             \/ /\ content'[i].stamp = "old" /\ content[i].stamp # "unset"
                /\ content'[i].version = content[i].version /\ content'[i].queried = content[i].queried
  <2>1. /\ content' = [content EXCEPT ![cache[c]] = [content[cache[c]] EXCEPT !.stamp = "old"]]
        /\ content[cache[c]].stamp = "fresh"
    BY <1>3 DEF Expire
  <2>2. content[i] \in Content
    BY <1>0
  <2> QED
    BY <1>0, <2>1, <2>2 DEF Content
<1>4. ASSUME content' = content
      PROVE  Same
  BY <1>4
<1>5. CASE Same
  BY <1>5
<1> HIDE DEF Same
<1> QED
  BY <1>1, <1>2, <1>3, <1>4, <1>5, NextCases, TransactionStepStays
     DEF Find, LoadFails, Leave, Get, ResolveReference, vars

-----------------------------------------------------------------------------
(* A call that fills item i.                                               *)
Loading(h, n, i) == frames[h][n].item = i /\ frames[h][n].at \in {"find", "rows"}

(* If no load fails, an item without codes in the cache is being loaded.   *)
UnsetIsLoaded ==
    \A c \in Classes : cache[c] # NoItem /\ content[cache[c]].stamp = "unset" =>
        \E h \in Threads : \E n \in 1 .. Len(frames[h]) : Loading(h, n, cache[c])

LoadInv == ItemInv /\ UnsetIsLoaded /\ OnlyLoaderSeesUnloaded

LEMMA LoadingStays ==
    ASSUME CallInv, [Next]_vars, ~LoadMayFail, NEW i \in Items,
           NEW h \in Threads, NEW m \in 1 .. Len(frames[h]), Loading(h, m, i),
           ~(SetCodes(h) /\ frames[h][1].item = i)
    PROVE  \E n \in 1 .. Len(frames'[h]) : Loading(h, n, i)'
<1>0. TypeOK /\ Len(frames[h]) \in Nat /\ frames[h] \in Seq(Frame)
  BY LenProperties DEF CallInv, TypeOK
<1>1. ASSUME frames'[h] = frames[h]
      PROVE  \E n \in 1 .. Len(frames'[h]) : Loading(h, n, i)'
  BY <1>1 DEF Loading
<1>2. ASSUME NEW g \in Threads, OthersStay(g), g # h
      PROVE  \E n \in 1 .. Len(frames'[h]) : Loading(h, n, i)'
  BY <1>1, <1>2 DEF OthersStay
<1>3. ASSUME NEW f, TopBecomes(h, f), m # 1
      PROVE  \E n \in 1 .. Len(frames'[h]) : Loading(h, n, i)'
  <2>1. m \in 2 .. Len(frames[h]) /\ m \in 1 .. Len(frames'[h])
    BY <1>0, <1>3 DEF TopBecomes
  <2>2. frames'[h][m] = frames[h][m]
    BY <1>3, <2>1 DEF TopBecomes
  <2> QED
    BY <2>1, <2>2 DEF Loading
<1>4. ASSUME NEW g \in Threads, EnterMonitor(g)
      PROVE  \E n \in 1 .. Len(frames'[h]) : Loading(h, n, i)'
  <2>1. OthersStay(g) /\ frames[g][1].at = "enter" /\ \E f : TopBecomes(g, f)
    BY <1>0, <1>4, EnterShape DEF TakesItem, PutsItem
  <2>2. g = h => m # 1
    BY <2>1 DEF Loading
  <2> QED
    BY <1>2, <1>3, <2>1, <2>2
<1>5. ASSUME NEW g \in Threads, Find(g)
      PROVE  \E n \in 1 .. Len(frames'[h]) : Loading(h, n, i)'
  <2>1. /\ OthersStay(g) /\ frames[g] # <<>> /\ TopBecomes(g, Found(g))
        /\ Found(g).item = frames[g][1].item /\ Found(g).at = "rows"
    BY <1>0, <1>5, FindShape
  <2>2. CASE g = h /\ m = 1
    <3>2. frames'[h][1].item = frames[h][1].item /\ frames'[h][1].at = "rows"
      BY <2>1, <2>2 DEF TopBecomes
    <3>3. 1 \in 1 .. Len(frames'[h])
      BY <2>1, <2>2 DEF TopBecomes
    <3> QED
      BY <2>2, <3>2, <3>3 DEF Loading
  <2> QED
    BY <1>2, <1>3, <2>1, <2>2
<1>6. ASSUME NEW g \in Threads, SetCodes(g)
      PROVE  \E n \in 1 .. Len(frames'[h]) : Loading(h, n, i)'
  <2>1. OthersStay(g) /\ TopBecomes(g, [frames[g][1] EXCEPT !.at = "leave"])
    BY <1>0, <1>6, SetCodesShape
  <2>2. g = h => m # 1
    BY <1>6 DEF Loading
  <2> QED
    BY <1>2, <1>3, <2>1, <2>2
<1>7. ASSUME NEW g \in Threads, NEW d \in Classes, Get(g, d) \/ ResolveReference(g, d)
      PROVE  \E n \in 1 .. Len(frames'[h]) : Loading(h, n, i)'
  <2>1. OthersStay(g) /\ Calls(g, d)
    BY <1>0, <1>7, GetShape, ResolveShape
  <2>2. CASE g = h
    <3> DEFINE n == m + 1
    <3>1. n \in 2 .. Len(frames[h]) + 1 /\ n \in 1 .. Len(frames'[h]) /\ n - 1 = m
      BY <1>0, <2>1, <2>2 DEF Calls
    <3> HIDE DEF n
    <3>2. frames'[h][n].item = frames[h][m].item /\ frames'[h][n].at = frames[h][m].at
      BY <2>1, <2>2, <3>1 DEF Calls
    <3> QED
      BY <3>1, <3>2 DEF Loading
  <2> QED
    BY <1>2, <2>1, <2>2
<1>8. ASSUME NEW g \in Threads, Leave(g)
      PROVE  \E n \in 1 .. Len(frames'[h]) : Loading(h, n, i)'
  <2>1. OthersStay(g) /\ Returns(g) /\ frames[g][1].at = "leave"
    BY <1>0, <1>8, LeaveShape
  <2>2. CASE g = h
    <3> DEFINE n == m - 1
    <3>1. m # 1
      BY <2>1, <2>2 DEF Loading
    <3>2. n \in 1 .. Len(frames[h]) - 1 /\ n \in 1 .. Len(frames'[h]) /\ n + 1 = m
      BY <1>0, <2>1, <2>2, <3>1 DEF Returns
    <3> HIDE DEF n
    <3>3. frames'[h][n].item = frames[h][m].item /\ frames'[h][n].at = frames[h][m].at
      BY <2>1, <2>2, <3>2 DEF Returns
    <3> QED
      BY <3>2, <3>3 DEF Loading
  <2> QED
    BY <1>2, <2>1, <2>2
<1>9. ASSUME frames' = frames
      PROVE  \E n \in 1 .. Len(frames'[h]) : Loading(h, n, i)'
  BY <1>1, <1>9
<1> QED
  BY <1>4, <1>5, <1>6, <1>7, <1>8, <1>9, NextCases, TransactionStepStays
     DEF Expire, LoadFails, vars

LEMMA UnsetStep ==
    ASSUME ItemInv, UnsetIsLoaded, [Next]_vars, ~LoadMayFail
    PROVE  UnsetIsLoaded'
<1>0. /\ TypeOK /\ CallInv /\ cache \in [Classes -> Items \cup {NoItem}]
      /\ frames \in [Threads -> Seq(Frame)]
  BY DEF ItemInv, CallInv, TypeOK
<1>1. cache' \in [Classes -> Items \cup {NoItem}]
  BY <1>0, TypeStep DEF TypeOK
<1> SUFFICES ASSUME NEW c \in Classes, cache'[c] # NoItem,
                    content'[cache'[c]].stamp = "unset"
             PROVE  \E h \in Threads : \E n \in 1 .. Len(frames'[h]) :
                        Loading(h, n, cache[c])'
  BY DEF UnsetIsLoaded
<1>2. PICK i \in Items : i = cache'[c]
  BY <1>1
<1>3. ASSUME NEW h \in Threads, EnterMonitor(h), PutsItem(h, i)
      PROVE  \E n \in 1 .. Len(frames'[h]) : Loading(h, n, i)'
  <2>1. frames[h] # <<>> /\ frames[h][1] \in Frame /\ Len(frames[h]) \in Nat \ {0}
    BY <1>0, <1>3, EnterShape, TopIsFirst
  <2>2. /\ frames'[h][1].item = i /\ frames'[h][1].at = "find"
        /\ Len(frames'[h]) = Len(frames[h])
    BY <1>3, <2>1 DEF PutsItem, TopBecomes, Frame
  <2>3. 1 \in 1 .. Len(frames'[h])
    BY <2>1, <2>2
  <2> QED
    BY <2>2, <2>3 DEF Loading
<1>4. ASSUME cache'[c] = cache[c]
      PROVE  \E h \in Threads : \E n \in 1 .. Len(frames'[h]) : Loading(h, n, i)'
  <2>1. cache[c] = i /\ Reachable(i)
    BY <1>2, <1>4 DEF Reachable
  <2>2. content[i].stamp = "unset"
    BY <1>0, <1>2, <2>1, ContentStep
  <2>3. PICK h \in Threads : \E m \in 1 .. Len(frames[h]) : Loading(h, m, i)
    BY <1>2, <2>1, <2>2 DEF UnsetIsLoaded
  <2>4. ~(SetCodes(h) /\ frames[h][1].item = i)
    <3> SUFFICES ASSUME SetCodes(h), frames[h][1].item = i
                 PROVE  content'[i].stamp = "fresh"
      BY <1>2
    <3>1. content' = [content EXCEPT ![i] =
              [stamp |-> "fresh", version |-> frames[h][1].version,
               queried |-> frames[h][1].queried]]
      BY <1>0, SetCodesShape
    <3>2. content \in [Items -> Content]
      BY <1>0 DEF TypeOK
    <3> QED
      BY <1>2, <3>1, <3>2
  <2>5. \E n \in 1 .. Len(frames'[h]) : Loading(h, n, i)'
    <3>1. PICK m \in 1 .. Len(frames[h]) : Loading(h, m, i)
      BY <2>3
    <3> QED
      BY <1>0, <2>4, <3>1, LoadingStays
  <2> QED
    BY <2>5
<1>5. \E h \in Threads : \E n \in 1 .. Len(frames'[h]) : Loading(h, n, i)'
  BY <1>0, <1>2, <1>3, <1>4, CacheOrigin
<1> QED
  BY <1>2, <1>5 DEF Loading

LEMMA LoaderStep ==
    ASSUME LoadInv, [Next]_vars, ~LoadMayFail
    PROVE  OnlyLoaderSeesUnloaded'
<1>0. /\ TypeOK /\ CallInv /\ ItemsHaveOneClass /\ EnteredHaveItem
      /\ frames \in [Threads -> Seq(Frame)]
      /\ cache \in [Classes -> Items \cup {NoItem}]
      /\ NoThread \notin Threads
  BY CodeCacheAssumption DEF LoadInv, ItemInv, CallInv, TypeOK, EnteredHaveItem
<1>1. TypeOK' /\ CallsAreNested'
  BY <1>0, TypeStep, NestedStep
<1> SUFFICES ASSUME NEW g \in Threads, frames'[g] # <<>>, frames'[g][1].at = "leave",
                    content'[frames'[g][1].item].stamp = "unset"
             PROVE  \E n \in 2 .. Len(frames'[g]) : frames'[g][n].item = frames'[g][1].item
  <2>1. \A g \in Threads : frames'[g] # <<>> => Head(frames'[g]) = frames'[g][1]
    <3>1. frames' \in [Threads -> Seq(Frame)]
      BY <1>1 DEF TypeOK
    <3> QED
      BY <3>1, HeadTailProperties
  <2> QED
    BY <2>1 DEF OnlyLoaderSeesUnloaded, At, Top
<1> DEFINE Goal == \E n \in 2 .. Len(frames'[g]) : frames'[g][n].item = frames'[g][1].item
<1>2. ASSUME frames'[g] = frames[g]
      PROVE  Goal
  <2> DEFINE i == frames[g][1].item
  <2>1. /\ Top(g) = frames[g][1] /\ Top(g) \in Frame /\ 1 \in 1 .. Len(frames[g])
        /\ i \in Items
    BY <1>0, <1>2, TopIsFirst DEF EnteredHaveItem, Frame
  <2>2. Reachable(i)
    BY <2>1 DEF Reachable
  <2>3. content[i].stamp = "unset"
    BY <1>0, <1>2, <2>1, <2>2, ContentStep
  <2> QED
    BY <1>2, <2>1, <2>3 DEF LoadInv, OnlyLoaderSeesUnloaded, At
<1>3. ASSUME NEW h \in Threads, OthersStay(h), h # g
      PROVE  Goal
  BY <1>2, <1>3 DEF OthersStay
<1>4. ASSUME NEW h \in Threads, EnterMonitor(h)
      PROVE  Goal
  <2> DEFINE f == frames[h][1]
             i == cache[f.cl]
  <2>1. /\ OthersStay(h) /\ frames[h] # <<>> /\ f.at = "enter"
        /\ MonitorFree(h, f.cl)
        /\ TakesItem(h) \/ \E new \in Items : PutsItem(h, new)
    BY <1>0, <1>4, EnterShape
  <2>2. f \in Frame /\ f.cl \in Classes /\ Len(frames[h]) \in Nat \ {0}
    BY <1>0, <2>1, TopIsFirst DEF Frame
  <2>3. CASE h = g /\ TakesItem(h)
    <3>1. /\ i # NoItem /\ i \in Items
          /\ frames'[h][1].item = i /\ content' = content
          /\ Len(frames'[h]) = Len(frames[h])
          /\ \A n \in 2 .. Len(frames[h]) : frames'[h][n] = frames[h][n]
      BY <1>0, <2>2, <2>3 DEF TakesItem, TopBecomes, Frame
    <3>2. content[i].stamp = "unset"
      BY <2>3, <3>1
    <3>k. PICK k \in Threads : \E n \in 1 .. Len(frames[k]) : Loading(k, n, i)
      BY <2>2, <3>1, <3>2 DEF LoadInv, UnsetIsLoaded
    <3>3. PICK n \in 1 .. Len(frames[k]) : Loading(k, n, i)
      BY <3>k
    <3>4. InUse(i, f.cl) /\ InUse(i, frames[k][n].cl) /\ frames[k][n].cl \in Classes
      <4>1. frames[k][n] \in Frame
        BY <1>0, ElementOfSeq
      <4>2. InUse(i, f.cl)
        BY DEF InUse
      <4>3. InUse(i, frames[k][n].cl)
        BY <3>3 DEF InUse, Loading
      <4> QED
        BY <4>1, <4>2, <4>3 DEF Frame
    <3>5. frames[k][n].cl = f.cl
      BY <2>2, <3>1, <3>4, <1>0 DEF ItemsHaveOneClass
    <3>6. Held(k, f.cl)
      BY <3>3, <3>5 DEF Held, Loading
    <3>7. monitor[f.cl] = k
      BY <1>0, <2>2, <3>6 DEF CallInv, MonitorsAreHeld
    <3>8. k = h
      BY <1>0, <2>1, <3>7 DEF MonitorFree
    <3>9. n # 1
      BY <2>1, <3>3, <3>8 DEF Loading
    <3>10. n \in 2 .. Len(frames[h]) /\ frames'[h][n].item = i
      BY <2>2, <3>1, <3>3, <3>8, <3>9 DEF Loading
    <3> QED
      BY <2>3, <3>1, <3>10
  <2>4. ASSUME h = g, NEW new \in Items, PutsItem(h, new)
        PROVE  FALSE
    BY <2>2, <2>4 DEF PutsItem, TopBecomes, Frame
  <2> QED
    BY <1>3, <2>1, <2>3, <2>4
<1>5. ASSUME NEW h \in Threads, Find(h)
      PROVE  Goal
  <2>1. OthersStay(h) /\ frames[h] # <<>>
    BY <1>0, <1>5, FindShape
  <2>3. frames'[h][1].at = "rows"
    BY <1>0, <1>5, FindShape DEF TopBecomes
  <2> QED
    BY <1>3, <2>1, <2>3
<1>6. ASSUME NEW h \in Threads, SetCodes(h)
      PROVE  Goal
  <2> DEFINE f == frames[h][1]
  <2>1. /\ OthersStay(h) /\ frames[h] # <<>> /\ f.item \in Items
        /\ TopBecomes(h, [f EXCEPT !.at = "leave"])
        /\ content' = [content EXCEPT ![f.item] =
              [stamp |-> "fresh", version |-> f.version, queried |-> f.queried]]
    BY <1>0, <1>6, SetCodesShape
  <2>2. f \in Frame
    BY <1>0, <2>1, TopIsFirst
  <2>3. frames'[h][1].item = f.item
    BY <2>1, <2>2 DEF TopBecomes, Frame
  <2>4. content \in [Items -> Content]
    BY <1>0 DEF TypeOK
  <2>5. content'[f.item].stamp = "fresh"
    BY <2>1, <2>4
  <2> QED
    BY <1>3, <2>1, <2>3, <2>5
<1>7. ASSUME NEW h \in Threads, NEW d \in Classes, Get(h, d) \/ ResolveReference(h, d)
      PROVE  Goal
  <2>1. OthersStay(h) /\ Calls(h, d)
    BY <1>0, <1>7, GetShape, ResolveShape
  <2>2. frames'[h][1].at = "enter"
    BY <2>1 DEF Calls, Call
  <2> QED
    BY <1>3, <2>1, <2>2
<1>8. ASSUME NEW h \in Threads, Leave(h)
      PROVE  Goal
  <2>1. OthersStay(h) /\ Returns(h) /\ frames[h] # <<>>
    BY <1>0, <1>8, LeaveShape
  <2>2. CASE h = g
    <3>1. Len(frames'[h]) \in Nat \ {0} /\ Len(frames[h]) \in Nat
      <4>1. frames'[h] \in Seq(Frame)
        BY <2>1 DEF OthersStay
      <4> QED
        BY <1>0, <2>2, <4>1, EmptySeq, LenProperties
    <3>2. 1 \in 1 .. Len(frames[h]) - 1 /\ 2 \in 2 .. Len(frames[h]) /\ 1 + 1 = 2
      <4>1. Len(frames[h]) - 1 = Len(frames'[h])
        BY <2>1 DEF Returns
      <4>2. Len(frames[h]) - 1 >= 1
        BY <3>1, <4>1
      <4> QED
        BY <3>1, <4>2
    <3>3. frames'[h][1].at = frames[h][2].at
      BY <2>1, <3>2 DEF Returns
    <3>4. frames[h][2].at = "rows"
      BY <1>0, <3>2 DEF CallInv, CallsAreNested
    <3> QED
      BY <2>2, <3>3, <3>4
  <2> QED
    BY <1>3, <2>1, <2>2
<1>9. ASSUME frames' = frames
      PROVE  Goal
  BY <1>2, <1>9
<1> HIDE DEF Goal
<1>10. Goal
  BY <1>4, <1>5, <1>6, <1>7, <1>8, <1>9, NextCases, TransactionStepStays
     DEF Expire, LoadFails, vars
<1> QED
  BY <1>10 DEF Goal

LEMMA LoadInit ==
    Init => LoadInv
<1> SUFFICES ASSUME Init
             PROVE  UnsetIsLoaded /\ OnlyLoaderSeesUnloaded
  BY ItemInit DEF LoadInv
<1> QED
  BY DEF Init, UnsetIsLoaded, OnlyLoaderSeesUnloaded, At

LEMMA LoadStep ==
    ASSUME LoadInv, [Next]_vars, ~LoadMayFail
    PROVE  LoadInv'
  BY ItemStep, UnsetStep, LoaderStep DEF LoadInv

(* As long as no load fails, getCacheItems returns an item without codes   *)
(* only to the thread that is loading it: an item is in the cache before   *)
(* it has codes (Codes.java:88), but nobody else gets past the monitor.    *)
THEOREM UnloadedIsSeenByLoader ==
    ASSUME LoadMayFail = FALSE
    PROVE  Spec => []OnlyLoaderSeesUnloaded
<1>1. Init => LoadInv
  BY LoadInit
<1>2. LoadInv /\ [Next]_vars => LoadInv'
  BY LoadStep
<1>3. LoadInv => OnlyLoaderSeesUnloaded
  BY DEF LoadInv
<1> QED
  BY <1>1, <1>2, <1>3, PTL DEF Spec

-----------------------------------------------------------------------------
Writing(h) == tx[h].at \in {"written", "body"} /\ tx[h].version > 0

VersionsAreOrdered ==
    /\ \A c \in Classes : completed[c] <= committed[c] /\ committed[c] <= latest[c]
    /\ \A h \in Threads :
          /\ tx[h].at = "begun" => tx[h].version = 0
          /\ tx[h].at # "none" /\ tx[h].kind = "read" => tx[h].version = 0
          /\ tx[h].at = "committed" => tx[h].version <= committed[tx[h].cl]
          /\ Writing(h) => /\ committed[tx[h].cl] < tx[h].version
                           /\ tx[h].version <= latest[tx[h].cl]

(* The database lets only one transaction at a time write codes of a       *)
(* class.                                                                  *)
OneWriter ==
    \A g, h \in Threads :
        Writing(g) /\ Writing(h) /\ tx[g].cl = tx[h].cl => g = h

LoadsAreInBodies ==
    \A h \in Threads : frames[h] # <<>> => tx[h].at \in {"none", "begun", "body"}

WriteInv == TypeOK /\ VersionsAreOrdered /\ OneWriter /\ LoadsAreInBodies

LEMMA WriteInit ==
    Init => WriteInv
  BY TypeInit DEF Init, WriteInv, VersionsAreOrdered, OneWriter, LoadsAreInBodies,
                  Writing, NoTx

LEMMA CallStarts ==
    ASSUME TypeOK, [Next]_vars, NEW g \in Threads, frames'[g] # <<>>
    PROVE  frames[g] # <<>> \/ \E d \in Classes : Get(g, d)
<1>1. ASSUME NEW h \in Threads, OthersStay(h), frames[h] # <<>>
      PROVE  frames[g] # <<>>
  BY <1>1 DEF OthersStay
<1>2. ASSUME NEW h \in Threads, \/ EnterMonitor(h) \/ Find(h) \/ SetCodes(h)
                                \/ LoadFails(h) \/ Leave(h)
      PROVE  frames[g] # <<>>
  <2>1. OthersStay(h)
    BY <1>2, EnterShape, FindShape, SetCodesShape, FailShape, LeaveShape
  <2>2. frames[h] # <<>>
    BY <1>2 DEF EnterMonitor, Find, SetCodes, LoadFails, Leave, At
  <2> QED
    BY <1>1, <2>1, <2>2
<1>3. ASSUME NEW h \in Threads, NEW d \in Classes, ResolveReference(h, d)
      PROVE  frames[g] # <<>>
  BY <1>1, <1>3, ResolveShape
<1>4. ASSUME NEW h \in Threads, NEW d \in Classes, Get(h, d)
      PROVE  frames[g] # <<>> \/ Get(g, d)
  <2>1. OthersStay(h)
    BY <1>4, GetShape
  <2> QED
    BY <1>4, <2>1 DEF OthersStay
<1> QED
  BY <1>2, <1>3, <1>4, NextCases, TransactionStepStays DEF Expire, vars

LEMMA WriteStep ==
    ASSUME WriteInv, [Next]_vars
    PROVE  WriteInv'
<1>0. /\ TypeOK /\ tx \in [Threads -> Tx \cup {NoTx}]
      /\ committed \in [Classes -> Nat] /\ latest \in [Classes -> Nat]
      /\ completed \in [Classes -> Nat]
      /\ \A h \in Threads : tx[h].at # "none" =>
            /\ tx[h].kind \in Kinds /\ tx[h].cl \in Classes /\ tx[h].version \in Nat
  <2>1. Versions \subseteq Nat
    BY DEF Versions
  <2>2. TypeOK
    BY DEF WriteInv
  <2>3. /\ committed \in [Classes -> Nat] /\ latest \in [Classes -> Nat]
        /\ completed \in [Classes -> Nat]
    BY <2>1, <2>2 DEF TypeOK
  <2>4. \A h \in Threads : tx[h].at # "none" => tx[h] \in Tx
    BY <2>2 DEF TypeOK, NoTx
  <2>5. \A t \in Tx : t.kind \in Kinds /\ t.cl \in Classes /\ t.version \in Nat
    BY <2>1 DEF Tx
  <2>6. tx \in [Threads -> Tx \cup {NoTx}]
    BY <2>2 DEF TypeOK
  <2> QED
    BY <2>2, <2>3, <2>4, <2>5, <2>6
<1>1. TypeOK'
  BY <1>0, TypeStep
<1> DEFINE Others(h) == \A g \in Threads : g # h => tx'[g] = tx[g]
           Kept4 == /\ UNCHANGED <<committed, latest, completed>>
                    /\ \A g \in Threads :
                          /\ tx'[g].at = tx[g].at
                          /\ tx[g].at # "none" => /\ tx'[g].kind = tx[g].kind
                                                 /\ tx'[g].cl = tx[g].cl
                                                 /\ tx'[g].version = tx[g].version
<1>2. ASSUME Kept4
      PROVE  VersionsAreOrdered' /\ OneWriter'
  <2>1. \A g \in Threads : /\ Writing(g)' <=> Writing(g)
                           /\ Writing(g) => /\ tx'[g].cl = tx[g].cl
                                            /\ tx'[g].version = tx[g].version
    BY <1>2 DEF Writing
  <2>2. OneWriter'
    BY <2>1 DEF WriteInv, OneWriter
  <2>3. VersionsAreOrdered'
    <3>1. \A g \in Threads :
             /\ tx'[g].at = "begun" => tx'[g].version = 0
             /\ tx'[g].at # "none" /\ tx'[g].kind = "read" => tx'[g].version = 0
             /\ tx'[g].at = "committed" => tx'[g].version <= committed'[tx'[g].cl]
      BY <1>2 DEF WriteInv, VersionsAreOrdered
    <3>2. \A g \in Threads : Writing(g)' => /\ committed'[tx'[g].cl] < tx'[g].version
                                            /\ tx'[g].version <= latest'[tx'[g].cl]
      BY <1>2, <2>1 DEF WriteInv, VersionsAreOrdered
    <3>3. \A c \in Classes : completed'[c] <= committed'[c] /\ committed'[c] <= latest'[c]
      BY <1>2 DEF WriteInv, VersionsAreOrdered
    <3> QED
      BY <3>1, <3>2, <3>3 DEF VersionsAreOrdered
  <2> QED
    BY <2>2, <2>3
<1>k. ASSUME NEW h \in Threads, tx' = TakeSnapshot(h), UNCHANGED <<committed, latest, completed>>
      PROVE  Kept4
  <2>1. ASSUME NEW g \in Threads
        PROVE  /\ tx'[g].at = tx[g].at
               /\ tx[g].at # "none" => /\ tx'[g].kind = tx[g].kind /\ tx'[g].cl = tx[g].cl
                                      /\ tx'[g].version = tx[g].version
    BY <1>0, <1>k, SnapshotTaken
  <2> QED
    BY <1>k, <2>1
<1>3. ASSUME NEW h \in Threads, TransactionStep(h)
      PROVE  VersionsAreOrdered' /\ OneWriter' /\ (frames[h] # <<>> => tx'[h].at = "none")
             /\ Others(h)
  <2> DEFINE t == tx'[h]
  <2>0. /\ \A c \in Classes : completed[c] <= committed[c] /\ committed[c] <= latest[c]
        /\ \A g \in Threads :
              /\ tx[g].at = "begun" => tx[g].version = 0
              /\ tx[g].at # "none" /\ tx[g].kind = "read" => tx[g].version = 0
              /\ tx[g].at = "committed" => tx[g].version <= committed[tx[g].cl]
              /\ Writing(g) => /\ committed[tx[g].cl] < tx[g].version
                               /\ tx[g].version <= latest[tx[g].cl]
    BY DEF WriteInv, VersionsAreOrdered
  <2>1. CASE WriteCodes(h)
    <3> DEFINE c == tx[h].cl
    <3>1. /\ tx[h].at = "begun" /\ tx[h].kind # "read" /\ c \in Classes
          /\ \A g \in Threads \ {h} : Writing(g) => tx[g].cl # c
      BY <1>0, <2>1 DEF WriteCodes, Writing
    <3>2. /\ t.at = "written" /\ t.kind = tx[h].kind /\ t.cl = c
          /\ t.version = latest[c] + 1
          /\ Others(h) /\ latest' = [latest EXCEPT ![c] = @ + 1]
          /\ committed' = committed /\ completed' = completed
      <4> DEFINE u == TakeSnapshot(h)
      <4>1. /\ u \in [Threads -> Tx \cup {NoTx}] /\ u[h] \in Tx
            /\ u[h].kind = tx[h].kind /\ u[h].cl = c
            /\ \A g \in Threads \ {h} : u[g] = tx[g]
        BY <1>0, <3>1, SnapshotTaken
      <4>2. /\ tx' = [u EXCEPT ![h].version = latest[c] + 1, ![h].at = "written"]
            /\ latest' = [latest EXCEPT ![c] = @ + 1]
            /\ committed' = committed /\ completed' = completed
        BY <2>1 DEF WriteCodes
      <4> HIDE DEF u
      <4>3. tx'[h] = [u[h] EXCEPT !.version = latest[c] + 1, !.at = "written"]
            /\ \A g \in Threads \ {h} : tx'[g] = u[g]
        BY <4>1, <4>2
      <4> QED
        BY <4>1, <4>2, <4>3 DEF Tx
    <3>3. latest'[c] = latest[c] + 1
          /\ \A d \in Classes : latest[d] <= latest'[d] /\ latest'[d] \in Nat
      BY <1>0, <3>1, <3>2
    <3> HIDE DEF t
    <3>4. \A g \in Threads : g # h => (Writing(g)' <=> Writing(g)) /\ tx'[g] = tx[g]
      BY <3>2 DEF Writing
    <3>5. OneWriter'
      BY <3>1, <3>2, <3>4 DEF WriteInv, OneWriter, t
    <3>6. VersionsAreOrdered'
      <4>1. \A d \in Classes : completed'[d] <= committed'[d] /\ committed'[d] <= latest'[d]
        BY <1>0, <2>0, <3>2, <3>3
      <4>2. ASSUME NEW g \in Threads, g # h
            PROVE  /\ tx'[g].at = "begun" => tx'[g].version = 0
                   /\ tx'[g].at # "none" /\ tx'[g].kind = "read" => tx'[g].version = 0
                   /\ tx'[g].at = "committed" => tx'[g].version <= committed'[tx'[g].cl]
                   /\ Writing(g)' => /\ committed'[tx'[g].cl] < tx'[g].version
                                     /\ tx'[g].version <= latest'[tx'[g].cl]
        <5>1. Writing(g) => tx[g].cl \in Classes /\ tx[g].version \in Nat
          BY <1>0 DEF Writing
        <5> QED
          BY <1>0, <2>0, <3>2, <3>3, <3>4, <4>2, <5>1
      <4>3. /\ t.at # "begun" /\ t.kind # "read" /\ t.at # "committed"
            /\ committed'[t.cl] < t.version /\ t.version <= latest'[t.cl]
        BY <1>0, <2>0, <3>1, <3>2, <3>3
      <4> QED
        BY <4>1, <4>2, <4>3 DEF VersionsAreOrdered, t
    <3>7. frames[h] = <<>>
      BY <2>1 DEF WriteCodes
    <3> QED
      BY <3>2, <3>5, <3>6, <3>7
  <2>2. CASE InvalidateInTable(h)
    <3>1. tx[h] \in Tx /\ tx[h].at = "written"
      BY <1>0, <2>2 DEF InvalidateInTable, NoTx
    <3>2. /\ t.at = "body" /\ t.kind = tx[h].kind /\ t.cl = tx[h].cl
          /\ t.version = tx[h].version
          /\ Others(h) /\ UNCHANGED <<committed, latest, completed>> /\ frames[h] = <<>>
      BY <1>0, <2>2, <3>1 DEF InvalidateInTable, Tx
    <3> HIDE DEF t
    <3>3. \A g \in Threads : /\ Writing(g)' <=> Writing(g)
                             /\ Writing(g) => tx'[g].cl = tx[g].cl
                                              /\ tx'[g].version = tx[g].version
      BY <3>1, <3>2 DEF Writing, t
    <3>4. OneWriter'
      BY <3>3 DEF WriteInv, OneWriter
    <3>5. VersionsAreOrdered'
      <4>1. ASSUME NEW g \in Threads
            PROVE  /\ tx'[g].at = "begun" => tx'[g].version = 0
                   /\ tx'[g].at # "none" /\ tx'[g].kind = "read" => tx'[g].version = 0
                   /\ tx'[g].at = "committed" => tx'[g].version <= committed'[tx'[g].cl]
        BY <2>0, <3>1, <3>2 DEF t
      <4> QED
        BY <2>0, <3>2, <3>3, <4>1 DEF VersionsAreOrdered
    <3> QED
      BY <3>2, <3>4, <3>5
  <2>3. CASE Commit(h)
    <3> DEFINE c == tx[h].cl
    <3>1. /\ tx[h].at = "body" \/ (tx[h].at = "begun" /\ tx[h].kind = "read")
          /\ frames[h] = <<>> /\ latest' = latest /\ completed' = completed
          /\ committed' = IF tx[h].version > 0 THEN [committed EXCEPT ![c] = tx[h].version]
                                               ELSE committed
      BY <2>3 DEF Commit
    <3>2. tx[h] \in Tx /\ tx[h].at # "none" /\ c \in Classes /\ tx[h].version \in Nat
      BY <1>0, <3>1 DEF NoTx
    <3>3. /\ t.at = "committed" /\ t.kind = tx[h].kind /\ t.cl = c
          /\ t.version = tx[h].version /\ Others(h)
      BY <1>0, <2>3, <3>2 DEF Commit, Tx
    <3> HIDE DEF t
    <3>4. tx[h].version > 0 => Writing(h)
      BY <2>0, <3>1 DEF Writing
    <3>5. \A d \in Classes : committed'[d] = IF d = c /\ tx[h].version > 0
                                             THEN tx[h].version ELSE committed[d]
      BY <1>0, <3>1, <3>2
    <3>6. \A d \in Classes : committed[d] <= committed'[d] /\ committed'[d] <= latest[d]
      BY <1>0, <2>0, <3>2, <3>4, <3>5
    <3>7. ~Writing(h)' /\ \A g \in Threads : g # h => (Writing(g)' <=> Writing(g))
      BY <3>3 DEF Writing, t
    <3>8. OneWriter'
      BY <3>3, <3>7 DEF WriteInv, OneWriter
    <3>9. VersionsAreOrdered'
      <4>1. \A d \in Classes : completed'[d] <= committed'[d] /\ committed'[d] <= latest'[d]
        <5>1. \A d \in Classes : committed'[d] \in Nat
          BY <1>0, <3>2, <3>5
        <5> QED
          BY <1>0, <2>0, <3>1, <3>6, <5>1
      <4>2. ASSUME NEW g \in Threads, g # h
            PROVE  /\ tx'[g].at = "begun" => tx'[g].version = 0
                   /\ tx'[g].at # "none" /\ tx'[g].kind = "read" => tx'[g].version = 0
                   /\ tx'[g].at = "committed" => tx'[g].version <= committed'[tx'[g].cl]
                   /\ Writing(g)' => /\ committed'[tx'[g].cl] < tx'[g].version
                                     /\ tx'[g].version <= latest'[tx'[g].cl]
        <5>1. tx'[g] = tx[g]
          BY <3>3, <4>2
        <5>2. tx[g].at = "committed" => tx[g].version <= committed'[tx[g].cl]
          <6>1. \A d \in Classes : committed'[d] \in Nat
            BY <1>0, <3>2, <3>5
          <6> QED
            BY <1>0, <2>0, <3>6, <6>1
        <5>3. Writing(g) => committed'[tx[g].cl] = committed[tx[g].cl]
          <6>1. Writing(g) => tx[g].cl \in Classes
            BY <1>0 DEF Writing
          <6>2. Writing(g) /\ Writing(h) => tx[g].cl # c
            BY <4>2 DEF WriteInv, OneWriter
          <6> QED
            BY <3>4, <3>5, <6>1, <6>2
        <5> QED
          BY <2>0, <3>1, <3>7, <4>2, <5>1, <5>2, <5>3
      <4>3. /\ t.at = "committed"
            /\ t.kind = "read" => t.version = 0
            /\ t.version <= committed'[t.cl]
        <5>1. t.version <= committed'[t.cl]
          BY <1>0, <3>2, <3>3, <3>5
        <5> QED
          BY <2>0, <3>2, <3>3, <5>1
      <4> QED
        BY <3>7, <4>1, <4>2, <4>3 DEF VersionsAreOrdered, t
    <3> QED
      BY <3>1, <3>3, <3>8, <3>9
  <2>4. CASE Rollback(h)
    <3>1. /\ t.at = "none" /\ Others(h)
          /\ UNCHANGED <<committed, latest, completed>>
      BY <1>0, <2>4 DEF Rollback, NoTx
    <3>2. ~Writing(h)' /\ \A g \in Threads : g # h => (Writing(g)' <=> Writing(g))
      BY <3>1 DEF Writing
    <3> HIDE DEF t
    <3>3. OneWriter'
      BY <3>1, <3>2 DEF WriteInv, OneWriter
    <3>4. VersionsAreOrdered'
      <4>1. \A g \in Threads : g # h => tx'[g] = tx[g]
        BY <3>1
      <4> QED
        BY <2>0, <3>1, <3>2, <4>1 DEF VersionsAreOrdered, t
    <3> QED
      BY <3>1, <3>3, <3>4 DEF t
  <2>5. CASE HandleCodeCache(h)
    <3> DEFINE c == tx[h].cl
    <3>1. /\ t.at = "none" /\ Others(h) /\ tx[h].at = "committed"
          /\ UNCHANGED <<committed, latest>>
          /\ completed' = IF tx[h].version > completed[c]
                          THEN [completed EXCEPT ![c] = tx[h].version] ELSE completed
      BY <1>0, <2>5 DEF HandleCodeCache, NoTx
    <3>2. ~Writing(h)' /\ \A g \in Threads : g # h => (Writing(g)' <=> Writing(g))
      BY <3>1 DEF Writing
    <3> HIDE DEF t
    <3>3. OneWriter'
      BY <3>1, <3>2 DEF WriteInv, OneWriter
    <3>4. VersionsAreOrdered'
      <4>1. \A g \in Threads : g # h => tx'[g] = tx[g]
        BY <3>1
      <4>2. c \in Classes /\ tx[h].version <= committed[c]
        BY <1>0, <2>0, <3>1
      <4>3. \A d \in Classes : completed'[d] = completed[d]
                               \/ (d = c /\ completed'[d] = tx[h].version)
        BY <1>0, <3>1, <4>2
      <4>4. \A d \in Classes : completed'[d] <= committed'[d] /\ committed'[d] <= latest'[d]
        BY <2>0, <3>1, <4>2, <4>3
      <4> QED
        BY <2>0, <3>1, <3>2, <4>1, <4>4 DEF VersionsAreOrdered, t
    <3> QED
      BY <3>1, <3>3, <3>4 DEF t
  <2>6. ASSUME NEW k \in Kinds, NEW c \in Classes, BeginTransaction(h, k, c)
        PROVE  VersionsAreOrdered' /\ OneWriter' /\ frames[h] = <<>> /\ Others(h)
    <3>1. /\ t.at = "begun" /\ t.version = 0 /\ Others(h) /\ frames[h] = <<>>
          /\ UNCHANGED <<committed, latest, completed>>
      <4>1. PICK level \in Isolations :
               tx' = [tx EXCEPT ![h] = [at |-> "begun", kind |-> k, cl |-> c, version |-> 0,
                                        isolation |-> level, taken |-> FALSE,
                                        snapshot |-> [d \in Classes |-> 0]]]
        BY <2>6 DEF BeginTransaction
      <4> QED
        BY <1>0, <2>6, <4>1 DEF BeginTransaction
    <3>2. ~Writing(h)' /\ \A g \in Threads : g # h => (Writing(g)' <=> Writing(g))
      BY <3>1 DEF Writing
    <3> HIDE DEF t
    <3>3. OneWriter'
      BY <3>1, <3>2 DEF WriteInv, OneWriter
    <3>4. VersionsAreOrdered'
      <4>1. \A g \in Threads : g # h => tx'[g] = tx[g]
        BY <3>1
      <4> QED
        BY <2>0, <3>1, <3>2, <4>1 DEF VersionsAreOrdered, t
    <3> QED
      BY <3>1, <3>3, <3>4
  <2>7. CASE OtherStatement(h)
    <3>1. /\ frames[h] = <<>> /\ tx' = TakeSnapshot(h)
          /\ UNCHANGED <<committed, latest, completed>>
      BY <2>7 DEF OtherStatement
    <3>2. Others(h)
      BY <1>0, <3>1, SnapshotTaken
    <3>3. VersionsAreOrdered' /\ OneWriter'
      BY <1>2, <1>k, <3>1
    <3> QED
      BY <3>1, <3>2, <3>3
  <2> HIDE DEF t, Others
  <2>8. ASSUME NEW k \in Kinds, NEW c \in Classes, BeginTransaction(h, k, c)
        PROVE  VersionsAreOrdered' /\ OneWriter' /\ (frames[h] # <<>> => tx'[h].at = "none")
               /\ Others(h)
    BY <2>6, <2>8
  <2> QED
    BY <1>3, <2>1, <2>2, <2>3, <2>4, <2>5, <2>7, <2>8 DEF TransactionStep
<1>4. (\E h \in Threads : TransactionStep(h)) \/ Kept4
  <2>1. ASSUME UNCHANGED <<committed, latest, completed, tx>>
        PROVE  Kept4
    BY <2>1
  <2>2. ASSUME NEW h \in Threads, Find(h)
        PROVE  Kept4
    <3>1. tx' = TakeSnapshot(h) /\ UNCHANGED <<committed, latest, completed>>
      BY <2>2 DEF Find
    <3> QED
      BY <1>k, <3>1
  <2> HIDE DEF Kept4
  <2> QED
    BY <2>1, <2>2, NextCases
       DEF EnterMonitor, SetCodes, LoadFails, Leave, Get, ResolveReference, Expire, vars
<1>5. LoadsAreInBodies'
  <2> SUFFICES ASSUME NEW g \in Threads, frames'[g] # <<>>
               PROVE  tx'[g].at \in {"none", "begun", "body"}
    BY DEF LoadsAreInBodies
  <2>1. CASE Kept4
    <3>1. frames[g] # <<>> => tx[g].at \in {"none", "begun", "body"}
      BY DEF WriteInv, LoadsAreInBodies
    <3>2. (\E d \in Classes : Get(g, d)) => tx[g].at \in {"none", "begun", "body"}
      BY DEF Get
    <3> QED
      BY <1>0, <2>1, <3>1, <3>2, CallStarts
  <2>2. ASSUME NEW h \in Threads, TransactionStep(h)
        PROVE  tx'[g].at \in {"none", "begun", "body"}
    <3>1. frames[g] # <<>>
      BY <2>2, TransactionStepStays
    <3>2. CASE g = h
      BY <1>3, <2>2, <3>1, <3>2
    <3>3. CASE g # h
      BY <1>3, <2>2, <3>1, <3>3 DEF WriteInv, LoadsAreInBodies
    <3> QED
      BY <3>2, <3>3
  <2> QED
    BY <1>4, <2>1, <2>2
<1> QED
  BY <1>1, <1>2, <1>3, <1>4, <1>5 DEF WriteInv

-----------------------------------------------------------------------------
(* What a call for a class has read, if its item is in the cache, is at    *)
(* least what the last completed transaction has written, or was read when *)
(* that was committed, in an older snapshot.                               *)
RowsAreCurrent ==
    \A h \in Threads : \A n \in 1 .. Len(frames[h]) :
        frames[h][n].at = "rows" /\ frames[h][n].item = cache[frames[h][n].cl] =>
            \/ frames[h][n].version >= completed[frames[h][n].cl]
            \/ frames[h][n].queried >= completed[frames[h][n].cl]

CurrentInv ==
    /\ ItemInv
    /\ WriteInv
    /\ RowsAreCurrent
    /\ NothingCachedFromBeforeWrite

(* The kinds of transactions whose end handleCodeCache looks at.           *)
InvalidatingKinds == {"write", "deleteEntity", "read"}

LEMMA CompletedOrigin ==
    ASSUME WriteInv, [Next]_vars, Kinds \subseteq InvalidatingKinds, NEW c \in Classes
    PROVE  completed'[c] = completed[c] \/ cache'[c] = NoItem
<1>1. ASSUME NEW h \in Threads, HandleCodeCache(h)
      PROVE  completed'[c] = completed[c] \/ cache'[c] = NoItem
  <2>1. TypeOK /\ tx[h].at = "committed"
    BY <1>1 DEF HandleCodeCache, WriteInv
  <2>2. tx[h] \in Tx /\ tx[h].kind \in Kinds /\ tx[h].cl \in Classes
    <3>1. tx[h] \in Tx
      BY <2>1 DEF TypeOK, NoTx
    <3> QED
      BY <3>1 DEF Tx
  <2>3. /\ completed \in [Classes -> Versions] /\ cache \in [Classes -> Items \cup {NoItem}]
        /\ Versions \subseteq Nat
    BY <2>1 DEF TypeOK, Versions
  <2>4. CASE tx[h].kind = "read"
    <3>1. tx[h].version = 0
      BY <2>1, <2>4 DEF WriteInv, VersionsAreOrdered
    <3>2. completed[tx[h].cl] \in Nat
      BY <2>2, <2>3
    <3> QED
      BY <1>1, <3>1, <3>2 DEF HandleCodeCache
  <2>5. CASE tx[h].kind \in {"write", "deleteEntity"}
    <3>1. cache' = [cache EXCEPT ![tx[h].cl] = NoItem]
      BY <1>1, <2>5 DEF HandleCodeCache, InvalidateCodeCache
    <3>2. c = tx[h].cl => cache'[c] = NoItem
      BY <2>3, <3>1
    <3>3. c # tx[h].cl => completed'[c] = completed[c]
      BY <1>1, <2>3 DEF HandleCodeCache
    <3> QED
      BY <3>2, <3>3
  <2> QED
    BY <2>2, <2>4, <2>5 DEF InvalidatingKinds
<1>2. CASE completed' = completed
  BY <1>2
<1> QED
  BY <1>1, <1>2, NextCases
     DEF EnterMonitor, Find, SetCodes, LoadFails, Leave, Get, ResolveReference, Expire, vars,
         TransactionStep, OtherStatement, WriteCodes, InvalidateInTable, Commit, Rollback, BeginTransaction

LEMMA SeenIsCurrent ==
    ASSUME WriteInv, NEW h \in Threads, frames[h] # <<>>, NEW c \in Classes
    PROVE  Seen(h, c) >= completed[c] \/ Queried(h, c) >= completed[c]
<1>1. /\ tx[h].at \in {"none", "begun", "body"}
      /\ completed[c] <= committed[c]
      /\ tx[h].at = "begun" => tx[h].version = 0
      /\ Writing(h) => committed[tx[h].cl] < tx[h].version
  BY DEF WriteInv, LoadsAreInBodies, VersionsAreOrdered
<1>2. committed[c] \in Nat /\ completed[c] \in Nat
  BY DEF WriteInv, TypeOK, Versions
<1>3. tx[h].at = "body" => tx[h].version \in Nat
  BY DEF WriteInv, TypeOK, Versions, Tx, NoTx
<1>4. CASE InSnapshot(h)
  BY <1>1, <1>2, <1>4 DEF Queried
<1>5. CASE ~InSnapshot(h)
  <2>1. tx[h].at # "none" /\ tx[h].version > 0 => tx[h].at = "body" /\ Writing(h)
    BY <1>1 DEF Writing
  <2>2. Seen(h, c) = committed[c] \/ (tx[h].at = "body" /\ Writing(h) /\ tx[h].cl = c
                                     /\ Seen(h, c) = tx[h].version)
    BY <1>5, <2>1 DEF Seen
  <2> QED
    BY <1>1, <1>2, <1>3, <2>2
<1> QED
  BY <1>4, <1>5

LEMMA CurrentStep ==
    ASSUME CurrentInv, [Next]_vars, Kinds \subseteq InvalidatingKinds
    PROVE  CurrentInv'
<1>0. /\ TypeOK /\ ItemInv /\ ItemsHaveOneClass /\ WriteInv /\ EnteredHaveItem
      /\ frames \in [Threads -> Seq(Frame)]
      /\ cache \in [Classes -> Items \cup {NoItem}]
  BY DEF CurrentInv, ItemInv, CallInv, TypeOK, EnteredHaveItem
<1>1. ItemInv' /\ WriteInv' /\ TypeOK'
  BY <1>0, ItemStep, WriteStep, TypeStep
<1>2. /\ EnteredHaveItem' /\ frames' \in [Threads -> Seq(Frame)]
      /\ cache' \in [Classes -> Items \cup {NoItem}] /\ NoItem \notin Items
  BY <1>1, CodeCacheAssumption DEF TypeOK, EnteredHaveItem
<1>3. RowsAreCurrent'
  <2> SUFFICES ASSUME NEW g \in Threads, NEW n \in 1 .. Len(frames'[g]),
                      frames'[g][n].at = "rows",
                      frames'[g][n].item = cache'[frames'[g][n].cl]
               PROVE  \/ frames'[g][n].version >= completed'[frames'[g][n].cl]
                      \/ frames'[g][n].queried >= completed'[frames'[g][n].cl]
    BY DEF RowsAreCurrent
  <2>1. PICK c \in Classes : c = frames'[g][n].cl
    <3>1. frames'[g][n] \in Frame
      BY <1>2, ElementOfSeq
    <3> QED
      BY <3>1 DEF Frame
  <2>2. cache'[c] # NoItem
    BY <1>2, <2>1 DEF EnteredHaveItem
  <2>3. completed'[c] = completed[c]
    BY <1>0, <2>2, CompletedOrigin
  <2>4. CASE Kept(g, n)
    <3>1. PICK m \in 1 .. Len(frames[g]) :
             /\ frames[g][m].cl = c /\ frames[g][m].item = cache'[c]
             /\ frames[g][m].at = "rows" /\ frames[g][m].version = frames'[g][n].version
             /\ frames[g][m].queried = frames'[g][n].queried
      BY <2>1, <2>4 DEF Kept
    <3>2. Reachable(cache'[c])
      BY <3>1 DEF Reachable
    <3>3. cache'[c] = cache[c]
      BY <1>0, <2>2, <3>2, CacheOrigin DEF PutsItem
    <3> QED
      BY <2>1, <2>3, <3>1, <3>3 DEF CurrentInv, RowsAreCurrent
  <2>5. CASE n = 1 /\ Find(g)
    <3> DEFINE f == frames[g][1]
    <3>1. /\ frames[g] # <<>> /\ TopBecomes(g, Found(g))
          /\ Found(g).cl = f.cl /\ Found(g).version = Seen(g, f.cl)
          /\ Found(g).queried = Queried(g, f.cl)
      BY <1>0, <2>5, FindShape
    <3>3. frames'[g][1].version = Seen(g, c) /\ frames'[g][1].queried = Queried(g, c)
      BY <2>1, <2>5, <3>1 DEF TopBecomes
    <3> QED
      BY <1>0, <2>1, <2>3, <2>5, <3>1, <3>3, SeenIsCurrent
  <2>6. CASE n = 1 /\ EnterMonitor(g)
    <3>1. frames[g] # <<>> /\ (TakesItem(g) \/ \E new \in Items : PutsItem(g, new))
      BY <1>0, <2>6, EnterShape
    <3>2. frames[g][1] \in Frame
      BY <1>0, <3>1, TopIsFirst
    <3>3. frames'[g][1].at # "rows"
      BY <3>1, <3>2 DEF TakesItem, PutsItem, TopBecomes, Frame
    <3> QED
      BY <2>6, <3>3
  <2>7. CASE n = 1 /\ SetCodes(g)
    <3>1. frames[g] # <<>> /\ TopBecomes(g, [frames[g][1] EXCEPT !.at = "leave"])
      BY <1>0, <2>7, SetCodesShape
    <3>2. frames[g][1] \in Frame
      BY <1>0, <3>1, TopIsFirst
    <3>3. frames'[g][1].at # "rows"
      BY <3>1, <3>2 DEF TopBecomes, Frame
    <3> QED
      BY <2>7, <3>3
  <2>8. CASE \E d \in Classes : frames'[g][n] = Call(d)
    BY <2>8 DEF Call
  <2> QED
    BY <1>0, <2>4, <2>5, <2>6, <2>7, <2>8, FrameOrigin DEF Moved
<1>4. NothingCachedFromBeforeWrite'
  <2> SUFFICES ASSUME NEW c \in Classes, cache'[c] # NoItem,
                      content'[cache'[c]].stamp # "unset"
               PROVE  ReadAfter(cache[c], completed[c])'
    BY DEF NothingCachedFromBeforeWrite
  <2>1. PICK i \in Items : i = cache'[c]
    BY <1>2
  <2>2. completed'[c] = completed[c]
    BY <1>0, CompletedOrigin
  <2>3. ASSUME NEW h \in Threads, PutsItem(h, i)
        PROVE  FALSE
    <3>1. content \in [Items -> Content]
      BY <1>0 DEF TypeOK
    <3>2. content'[i] = Empty
      BY <2>3, <3>1 DEF PutsItem
    <3> QED
      BY <2>1, <3>2 DEF Empty
  <2>4. cache[c] = i
    BY <1>0, <1>2, <2>1, <2>3, CacheOrigin
  <2>5. Reachable(i) /\ InUse(i, c)
    BY <2>4 DEF Reachable, InUse
  <2>6. content[i].stamp # "unset" => ReadAfter(i, completed[c])
    BY <1>2, <2>4 DEF CurrentInv, NothingCachedFromBeforeWrite
  <2>7. CASE \/ content'[i] = content[i]
             \/ /\ content'[i].version = content[i].version
                /\ content'[i].queried = content[i].queried
                /\ content[i].stamp # "unset"
    BY <2>1, <2>2, <2>6, <2>7 DEF ReadAfter
  <2>8. ASSUME NEW h \in Threads, SetCodes(h), frames[h][1].item = i,
               content'[i].version = frames[h][1].version,
               content'[i].queried = frames[h][1].queried
        PROVE  content'[i].version >= completed[c] \/ content'[i].queried >= completed[c]
    <3>1. frames[h] # <<>> /\ frames[h][1].at = "rows"
      BY <1>0, <2>8, SetCodesShape
    <3>2. 1 \in 1 .. Len(frames[h]) /\ frames[h][1].cl \in Classes
      BY <1>0, <3>1, TopIsFirst DEF Frame
    <3>3. InUse(i, frames[h][1].cl)
      BY <2>8, <3>2 DEF InUse
    <3>4. frames[h][1].cl = c
      BY <1>0, <2>5, <3>2, <3>3 DEF ItemsHaveOneClass
    <3> QED
      BY <2>4, <2>8, <3>1, <3>2, <3>4 DEF CurrentInv, RowsAreCurrent
  <2>9. \A h \in Threads : SetCodes(h) /\ frames[h][1].item = i
            /\ content'[i].version = frames[h][1].version
            /\ content'[i].queried = frames[h][1].queried => ReadAfter(cache[c], completed[c])'
    BY <2>1, <2>2, <2>8 DEF ReadAfter
  <2> QED
    BY <1>0, <2>5, <2>7, <2>9, ContentStep
<1> QED
  BY <1>1, <1>3, <1>4 DEF CurrentInv

LEMMA CurrentInit ==
    Init => CurrentInv
<1> SUFFICES ASSUME Init
             PROVE  RowsAreCurrent /\ NothingCachedFromBeforeWrite
  BY ItemInit, WriteInit DEF CurrentInv
<1>1. \A h \in Threads : frames[h] = <<>> /\ Len(frames[h]) = 0
  BY DEF Init
<1>2. RowsAreCurrent
  BY <1>1 DEF RowsAreCurrent
<1>3. NothingCachedFromBeforeWrite
  BY DEF Init, NothingCachedFromBeforeWrite
<1> QED
  BY <1>2, <1>3

(* Once Backend.execute has returned from an insert, update, save or       *)
(* deletion of a code, nothing that was read before is found in the cache, *)
(* whatever loads run while the transaction does and whatever loads fail:  *)
(* the invalidation after the commit (Backend.handleCodeCache) is enough.  *)
(* What a transaction reads later in an older snapshot is not kept away;   *)
(* nor are deletions by criteria and transactions of the application,      *)
(* which handleCodeCache does not look at.                                 *)
THEOREM CompletedWritesAreSeen ==
    ASSUME Kinds \subseteq InvalidatingKinds
    PROVE  Spec => []NothingCachedFromBeforeWrite
<1>1. Init => CurrentInv
  BY CurrentInit
<1>2. CurrentInv /\ [Next]_vars => CurrentInv'
  BY CurrentStep
<1>3. CurrentInv => NothingCachedFromBeforeWrite
  BY DEF CurrentInv
<1> QED
  BY <1>1, <1>2, <1>3, PTL DEF Spec

-----------------------------------------------------------------------------
StrictlyBelow == TransitiveClosureOn(References, Classes)

LEMMA StrictlyBelowOrders ==
    ASSUME ReferencesEnd
    PROVE  /\ \A c \in Classes : \A d \in Ref[c] : <<d, c>> \in StrictlyBelow
           /\ IsTransitivelyClosedOn(StrictlyBelow, Classes)
           /\ \A c \in Classes : <<c, c>> \notin StrictlyBelow
<1>1. /\ References \cap (Classes \X Classes) \subseteq StrictlyBelow
      /\ IsTransitivelyClosedOn(StrictlyBelow, Classes)
  BY TransitiveClosureThm DEF StrictlyBelow
<1>2. References \subseteq StrictlyBelow
  BY <1>1 DEF References
<1>3. IsWellFoundedOn(StrictlyBelow, Classes)
  BY TransitiveClosureWF DEF ReferencesEnd, StrictlyBelow
<1>4. \A c \in Classes : <<c, c>> \notin StrictlyBelow
  BY <1>3, WellFoundedIsIrreflexive
<1> QED
  BY <1>1, <1>2, <1>4, ReferencesCover

(* A reference is resolved from an item that has codes: an empty item is   *)
(* seen by its loader only, and the calls of a thread are for different    *)
(* classes.                                                                *)
LEMMA ReferenceHasCodes ==
    ASSUME LoadInv, Follows(StrictlyBelow), ReferencesEnd,
           NEW h \in Threads, At(h, "leave")
    PROVE  content[Top(h).item].stamp # "unset"
<1> SUFFICES ASSUME content[Top(h).item].stamp = "unset"
             PROVE  FALSE
  OBVIOUS
<1>0. /\ TypeOK /\ ItemsHaveOneClass /\ EnteredHaveItem
      /\ frames \in [Threads -> Seq(Frame)]
  BY DEF LoadInv, ItemInv, CallInv, TypeOK, EnteredHaveItem
<1>2. /\ Top(h) = frames[h][1] /\ Top(h) \in Frame /\ Len(frames[h]) \in Nat \ {0}
      /\ Top(h).at = "leave"
  BY <1>0, TopIsFirst DEF At
<1>3. PICK n \in 2 .. Len(frames[h]) : frames[h][n].item = Top(h).item
  BY DEF LoadInv, OnlyLoaderSeesUnloaded
<1>4. n \in 1 .. Len(frames[h]) /\ 1 \in 1 .. Len(frames[h]) /\ 1 < n
  BY <1>2
<1>5. Top(h).item \in Items
  BY <1>0, <1>2, <1>4 DEF EnteredHaveItem, Frame
<1>6. frames[h][n].cl \in Classes /\ Top(h).cl \in Classes
  <2>1. frames[h][n] \in Frame
    BY <1>0, <1>4, ElementOfSeq
  <2> QED
    BY <1>2, <2>1 DEF Frame
<1>7. InUse(Top(h).item, Top(h).cl) /\ InUse(Top(h).item, frames[h][n].cl)
  BY <1>2, <1>3, <1>4 DEF InUse
<1>8. frames[h][n].cl = Top(h).cl
  BY <1>0, <1>5, <1>6, <1>7 DEF ItemsHaveOneClass
<1>9. <<Top(h).cl, frames[h][n].cl>> \in StrictlyBelow
  BY <1>2, <1>4 DEF Follows
<1> QED
  BY <1>6, <1>8, <1>9, StrictlyBelowOrders

-----------------------------------------------------------------------------
(* History never knows of writes that have not completed, and neither the  *)
(* calls nor the snapshots are ahead of the writes that were done.         *)
KnownIsCompleted ==
    \A c, d \in Classes : \A v \in Versions : known[c][v][d] <= completed[d]

FramesAreOld ==
    \A h \in Threads : \A n \in 1 .. Len(frames[h]) :
        frames[h][n].version <= latest[frames[h][n].cl]

SnapshotsAreOld ==
    \A h \in Threads : tx[h].at # "none" =>
        \A c \in Classes : tx[h].snapshot[c] <= latest[c]

HistoryInv == KnownIsCompleted /\ FramesAreOld /\ SnapshotsAreOld

LEMMA VersionsAreNumbers ==
    ASSUME TypeOK
    PROVE  /\ Versions \subseteq Nat
           /\ \A c \in Classes : /\ committed[c] \in Nat /\ latest[c] \in Nat
                                 /\ completed[c] \in Nat
           /\ \A c, d \in Classes : \A v \in Versions : known[c][v][d] \in Nat
           /\ \A h \in Threads : tx[h].at # "none" =>
                 /\ tx[h].cl \in Classes /\ tx[h].version \in Versions
                 /\ \A c \in Classes : tx[h].snapshot[c] \in Nat
           /\ \A h \in Threads : \A n \in 1 .. Len(frames[h]) :
                 /\ frames[h][n] \in Frame /\ frames[h][n].cl \in Classes
                 /\ frames[h][n].version \in Versions /\ frames[h][n].queried \in Versions
<1>1. Versions \subseteq Nat
  BY DEF Versions
<1>2. \A c, d \in Classes : \A v \in Versions : known[c][v][d] \in Versions
  BY DEF TypeOK
<1>3. ASSUME NEW h \in Threads, tx[h].at # "none"
      PROVE  /\ tx[h].cl \in Classes /\ tx[h].version \in Versions
             /\ \A c \in Classes : tx[h].snapshot[c] \in Versions
  <2>1. tx[h] \in Tx
    BY <1>3 DEF TypeOK, NoTx
  <2> QED
    BY <2>1 DEF Tx
<1>4. ASSUME NEW h \in Threads, NEW n \in 1 .. Len(frames[h])
      PROVE  /\ frames[h][n] \in Frame /\ frames[h][n].cl \in Classes
             /\ frames[h][n].version \in Versions /\ frames[h][n].queried \in Versions
  <2>1. frames[h] \in Seq(Frame)
    BY DEF TypeOK
  <2>2. frames[h][n] \in Frame
    BY <2>1, ElementOfSeq
  <2> QED
    BY <2>2 DEF Frame
<1>5. \A c \in Classes : committed[c] \in Nat /\ latest[c] \in Nat /\ completed[c] \in Nat
  BY <1>1 DEF TypeOK
<1> QED
  BY <1>1, <1>2, <1>3, <1>4, <1>5

LEMMA WritesGoOn ==
    ASSUME TypeOK, [Next]_vars, NEW c \in Classes
    PROVE  latest[c] <= latest'[c] /\ completed[c] <= completed'[c]
<1>1. /\ latest \in [Classes -> Versions] /\ completed \in [Classes -> Versions]
      /\ latest[c] \in Nat /\ completed[c] \in Nat /\ Versions \subseteq Nat
  BY VersionsAreNumbers DEF TypeOK
<1>2. ASSUME NEW h \in Threads, WriteCodes(h)
      PROVE  latest[c] <= latest'[c] /\ completed'[c] = completed[c]
  BY <1>1, <1>2 DEF WriteCodes
<1>3. ASSUME NEW h \in Threads, HandleCodeCache(h)
      PROVE  latest'[c] = latest[c] /\ completed[c] <= completed'[c]
  <2>1. tx[h].version \in Nat
    BY <1>1, <1>3, VersionsAreNumbers DEF HandleCodeCache
  <2> QED
    BY <1>1, <1>3, <2>1 DEF HandleCodeCache
<1>4. \/ \E h \in Threads : WriteCodes(h) \/ HandleCodeCache(h)
      \/ latest' = latest /\ completed' = completed
  BY NextCases
     DEF EnterMonitor, Find, SetCodes, LoadFails, Leave, Get, ResolveReference, Expire, vars,
         TransactionStep, OtherStatement, InvalidateInTable, Commit, Rollback, BeginTransaction
<1> QED
  BY <1>1, <1>2, <1>3, <1>4

(* History is written at the next version only.                            *)
LEMMA KnownChanges ==
    ASSUME TypeOK, [Next]_vars, NEW c \in Classes, NEW v \in Versions, NEW d \in Classes
    PROVE  \/ known'[c][v][d] = known[c][v][d]
           \/ v = latest[c] + 1 /\ known'[c][v][d] = completed[d]
<1>1. ASSUME NEW h \in Threads, WriteCodes(h)
      PROVE  \/ known'[c][v][d] = known[c][v][d]
             \/ v = latest[c] + 1 /\ known'[c][v][d] = completed[d]
  <2> DEFINE e == tx[h].cl
             w == latest[e] + 1
             k == [known[e] EXCEPT ![w] = completed]
  <2>1. known' = [known EXCEPT ![e] = k]
    BY <1>1 DEF WriteCodes
  <2>2. known \in [Classes -> [Versions -> [Classes -> Versions]]]
    BY DEF TypeOK
  <2>3. k[v] = IF v = w THEN completed ELSE known[e][v]
    <3>1. e \in Classes
      BY <1>1, VersionsAreNumbers DEF WriteCodes
    <3> QED
      BY <2>2, <3>1
  <2>4. known'[c] = IF c = e THEN k ELSE known[c]
    <3> HIDE DEF k, e
    <3> QED
      BY <2>1, <2>2
  <2> HIDE DEF k
  <2> QED
    BY <2>3, <2>4
<1>2. CASE known' = known
  BY <1>2
<1> QED
  BY <1>1, <1>2, NextCases
     DEF EnterMonitor, Find, SetCodes, LoadFails, Leave, Get, ResolveReference, Expire, vars,
         TransactionStep, OtherStatement, InvalidateInTable, Commit, Rollback,
         HandleCodeCache, BeginTransaction

LEMMA SnapshotOrigin ==
    ASSUME TypeOK, [Next]_vars, NEW g \in Threads, tx'[g].at # "none", NEW c \in Classes
    PROVE  \/ tx[g].at # "none" /\ tx'[g].snapshot[c] = tx[g].snapshot[c]
           \/ tx'[g].snapshot[c] \in {committed[c], 0}
<1>0. /\ tx \in [Threads -> Tx \cup {NoTx}]
      /\ \A h \in Threads : tx[h].at # "none" => tx[h] \in Tx
  BY DEF TypeOK, NoTx
<1>1. ASSUME tx'[g] = tx[g]
      PROVE  tx[g].at # "none" /\ tx'[g].snapshot[c] = tx[g].snapshot[c]
  BY <1>1
<1>2. ASSUME NEW h \in Threads, Find(h) \/ OtherStatement(h)
      PROVE  \/ tx[g].at # "none" /\ tx'[g].snapshot[c] = tx[g].snapshot[c]
             \/ tx'[g].snapshot[c] = committed[c]
  <2>1. tx' = TakeSnapshot(h)
    BY <1>2 DEF Find, OtherStatement
  <2>2. h # g => tx'[g] = tx[g]
    BY <2>1, SnapshotTaken
  <2>3. h = g => tx[g].at # "none" /\ tx'[g].snapshot \in {tx[g].snapshot, committed}
    BY <2>1, SnapshotTaken
  <2> QED
    BY <1>1, <2>2, <2>3
<1>3. ASSUME NEW h \in Threads, WriteCodes(h)
      PROVE  \/ tx[g].at # "none" /\ tx'[g].snapshot[c] = tx[g].snapshot[c]
             \/ tx'[g].snapshot[c] = committed[c]
  <2> DEFINE u == TakeSnapshot(h)
             w == latest[tx[h].cl] + 1
  <2>1. /\ tx' = [u EXCEPT ![h].version = w, ![h].at = "written"]
        /\ tx[h].at # "none"
    BY <1>3 DEF WriteCodes
  <2>2. /\ u \in [Threads -> Tx \cup {NoTx}] /\ u[h] \in Tx
        /\ u[h].snapshot \in {tx[h].snapshot, committed}
        /\ \A k \in Threads \ {h} : u[k] = tx[k]
    BY <2>1, SnapshotTaken
  <2> HIDE DEF u
  <2>3. tx'[h] = [u[h] EXCEPT !.version = w, !.at = "written"]
        /\ \A k \in Threads \ {h} : tx'[k] = u[k]
    BY <2>1, <2>2
  <2>4. tx'[h].snapshot = u[h].snapshot
    BY <2>2, <2>3 DEF Tx
  <2> QED
    BY <1>1, <2>1, <2>2, <2>3, <2>4
<1>4. ASSUME NEW h \in Threads, InvalidateInTable(h) \/ Commit(h)
      PROVE  tx[g].at # "none" /\ tx'[g].snapshot[c] = tx[g].snapshot[c]
  <2>1. /\ tx[h].at # "none"
        /\ tx' = [tx EXCEPT ![h].at = "body"] \/ tx' = [tx EXCEPT ![h].at = "committed"]
    BY <1>4 DEF InvalidateInTable, Commit
  <2>2. tx'[h].snapshot = tx[h].snapshot /\ \A k \in Threads \ {h} : tx'[k] = tx[k]
    BY <1>0, <2>1 DEF Tx
  <2> QED
    BY <1>1, <2>1, <2>2
<1>5. ASSUME NEW h \in Threads, Rollback(h) \/ HandleCodeCache(h)
      PROVE  tx[g].at # "none" /\ tx'[g].snapshot[c] = tx[g].snapshot[c]
  <2>1. tx' = [tx EXCEPT ![h] = NoTx]
    BY <1>5 DEF Rollback, HandleCodeCache
  <2>2. h # g
    BY <1>0, <2>1 DEF NoTx
  <2> QED
    BY <1>0, <1>1, <2>1, <2>2
<1>6. ASSUME NEW h \in Threads, NEW k \in Kinds, NEW d \in Classes, BeginTransaction(h, k, d)
      PROVE  \/ tx[g].at # "none" /\ tx'[g].snapshot[c] = tx[g].snapshot[c]
             \/ tx'[g].snapshot[c] = 0
  <2>1. PICK level \in Isolations :
           tx' = [tx EXCEPT ![h] = [at |-> "begun", kind |-> k, cl |-> d, version |-> 0,
                                    isolation |-> level, taken |-> FALSE,
                                    snapshot |-> [e \in Classes |-> 0]]]
    BY <1>6 DEF BeginTransaction
  <2>2. h = g => tx'[g].snapshot[c] = 0
    BY <1>0, <2>1
  <2>3. h # g => tx'[g] = tx[g]
    BY <1>0, <2>1
  <2> QED
    BY <1>1, <2>2, <2>3
<1>7. ASSUME NEW h \in Threads, TransactionStep(h)
      PROVE  \/ tx[g].at # "none" /\ tx'[g].snapshot[c] = tx[g].snapshot[c]
             \/ tx'[g].snapshot[c] \in {committed[c], 0}
  BY <1>2, <1>3, <1>4, <1>5, <1>6, <1>7 DEF TransactionStep
<1>8. CASE tx' = tx
  BY <1>1, <1>8
<1> QED
  BY <1>2, <1>7, <1>8, NextCases
     DEF EnterMonitor, SetCodes, LoadFails, Leave, Get, ResolveReference, Expire, vars

LEMMA SeenIsOld ==
    ASSUME WriteInv, SnapshotsAreOld, NEW h \in Threads, frames[h] # <<>>, NEW c \in Classes
    PROVE  Seen(h, c) <= latest[c]
<1>1. TypeOK /\ tx[h].at \in {"none", "begun", "body"} /\ committed[c] <= latest[c]
      /\ (tx[h].at = "begun" => tx[h].version = 0)
      /\ (Writing(h) => tx[h].version <= latest[tx[h].cl])
  BY DEF WriteInv, LoadsAreInBodies, VersionsAreOrdered
<1>2. tx[h].at # "none" => tx[h].snapshot[c] <= latest[c]
  BY DEF SnapshotsAreOld
<1>3. tx[h].at # "none" /\ tx[h].version > 0 => tx[h].at = "body" /\ Writing(h)
  BY <1>1 DEF Writing
<1>4. \/ Seen(h, c) = committed[c]
      \/ tx[h].at # "none" /\ Seen(h, c) = tx[h].snapshot[c]
      \/ Writing(h) /\ tx[h].cl = c /\ Seen(h, c) = tx[h].version
  BY <1>3 DEF Seen, InSnapshot
<1> QED
  BY <1>1, <1>2, <1>4

LEMMA HistoryStep ==
    ASSUME WriteInv, HistoryInv, [Next]_vars
    PROVE  HistoryInv'
<1>0. TypeOK /\ TypeOK'
  BY TypeStep DEF WriteInv
<1>1. \A c \in Classes : /\ latest[c] <= latest'[c] /\ completed[c] <= completed'[c]
                         /\ latest[c] \in Nat /\ latest'[c] \in Nat
                         /\ completed[c] \in Nat /\ completed'[c] \in Nat
                         /\ committed[c] \in Nat /\ committed[c] <= latest[c]
  <2>1. \A c \in Classes : /\ latest[c] \in Nat /\ latest'[c] \in Nat
                           /\ completed[c] \in Nat /\ completed'[c] \in Nat
                           /\ committed[c] \in Nat
    BY <1>0 DEF TypeOK, Versions
  <2> QED
    BY <1>0, <2>1, WritesGoOn DEF WriteInv, VersionsAreOrdered
<1>2. KnownIsCompleted'
  <2> SUFFICES ASSUME NEW c \in Classes, NEW d \in Classes, NEW v \in Versions
               PROVE  known'[c][v][d] <= completed'[d]
    BY DEF KnownIsCompleted, Versions
  <2>1. known[c][v][d] <= completed[d] /\ known[c][v][d] \in Nat
    BY <1>0, VersionsAreNumbers DEF HistoryInv, KnownIsCompleted
  <2> QED
    BY <1>0, <1>1, <2>1, KnownChanges
<1>3. SnapshotsAreOld'
  <2> SUFFICES ASSUME NEW g \in Threads, tx'[g].at # "none", NEW c \in Classes
               PROVE  tx'[g].snapshot[c] <= latest'[c]
    BY DEF SnapshotsAreOld
  <2>1. tx[g].at # "none" => tx[g].snapshot[c] <= latest[c] /\ tx[g].snapshot[c] \in Nat
    BY <1>0, VersionsAreNumbers DEF HistoryInv, SnapshotsAreOld
  <2>2. \/ tx[g].at # "none" /\ tx'[g].snapshot[c] = tx[g].snapshot[c]
        \/ tx'[g].snapshot[c] \in {committed[c], 0}
    BY <1>0, SnapshotOrigin
  <2> QED
    BY <1>1, <2>1, <2>2
<1>4. FramesAreOld'
  <2> SUFFICES ASSUME NEW g \in Threads, NEW n \in 1 .. Len(frames'[g])
               PROVE  frames'[g][n].version <= latest'[frames'[g][n].cl]
    BY DEF FramesAreOld
  <2> DEFINE f == frames[g][1]
  <2>1. \A m \in 1 .. Len(frames[g]) :
           /\ frames[g][m].version <= latest[frames[g][m].cl]
           /\ frames[g][m].version \in Nat /\ frames[g][m].cl \in Classes
    BY <1>0, VersionsAreNumbers DEF HistoryInv, FramesAreOld
  <2>2. frames[g] # <<>> => /\ f \in Frame /\ f.cl \in Classes /\ f.version <= latest[f.cl]
                            /\ f.version \in Nat
    <3>1. frames[g] # <<>> => f \in Frame /\ 1 \in 1 .. Len(frames[g])
      BY <1>0, TopIsFirst
    <3> QED
      BY <2>1, <3>1
  <2>3. CASE Kept(g, n)
    BY <1>1, <2>1, <2>3 DEF Kept
  <2>4. CASE n = 1 /\ EnterMonitor(g)
    <3>1. frames[g] # <<>> /\ (TakesItem(g) \/ \E new \in Items : PutsItem(g, new))
      BY <1>0, <2>4, EnterShape
    <3>2. frames'[g][1].version = f.version /\ frames'[g][1].cl = f.cl
      BY <2>2, <3>1 DEF TakesItem, PutsItem, TopBecomes, Frame
    <3> QED
      BY <1>1, <2>2, <2>4, <3>1, <3>2
  <2>5. CASE n = 1 /\ Find(g)
    <3>1. /\ frames[g] # <<>> /\ TopBecomes(g, Found(g))
          /\ Found(g).cl = f.cl /\ Found(g).version = Seen(g, f.cl)
      BY <1>0, <2>5, FindShape
    <3>2. frames'[g][1].version = Seen(g, f.cl) /\ frames'[g][1].cl = f.cl
      BY <3>1 DEF TopBecomes
    <3>3. Seen(g, f.cl) <= latest[f.cl]
      BY <2>2, <3>1, SeenIsOld DEF HistoryInv
    <3>4. Seen(g, f.cl) \in Nat
      BY <1>0, <2>2, <3>1, SeenIsVersion, VersionsAreNumbers
    <3> QED
      BY <1>1, <2>2, <2>5, <3>1, <3>2, <3>3, <3>4
  <2>6. CASE n = 1 /\ SetCodes(g)
    <3>1. frames[g] # <<>> /\ TopBecomes(g, [f EXCEPT !.at = "leave"])
      BY <1>0, <2>6, SetCodesShape
    <3>2. frames'[g][1].version = f.version /\ frames'[g][1].cl = f.cl
      BY <2>2, <3>1 DEF TopBecomes, Frame
    <3> QED
      BY <1>1, <2>2, <2>6, <3>1, <3>2
  <2>7. ASSUME NEW d \in Classes, frames'[g][n] = Call(d)
        PROVE  frames'[g][n].version <= latest'[frames'[g][n].cl]
    BY <1>1, <2>7 DEF Call
  <2> QED
    BY <1>0, <2>3, <2>4, <2>5, <2>6, <2>7, FrameOrigin DEF Moved
<1> QED
  BY <1>2, <1>3, <1>4 DEF HistoryInv

LEMMA HistoryInit ==
    Init => HistoryInv
<1> SUFFICES ASSUME Init
             PROVE  HistoryInv
  OBVIOUS
<1>1. \A h \in Threads : frames[h] = <<>> /\ Len(frames[h]) = 0 /\ tx[h].at = "none"
  BY DEF Init, NoTx
<1>2. KnownIsCompleted
  BY DEF Init, KnownIsCompleted
<1> QED
  BY <1>1, <1>2 DEF HistoryInv, FramesAreOld, SnapshotsAreOld

-----------------------------------------------------------------------------
(* The write that call n has to find codes of, so that the rows of call    *)
(* n + 1, which asked for them, do not lose their references.              *)
Needed(h, n) ==
    known[frames[h][n + 1].cl][frames[h][n + 1].version][frames[h][n].cl]

LookupKnows(h, n) ==
    LET f == frames[h][n]
    IN  /\ f.at = "rows" => f.version >= Needed(h, n) \/ f.queried >= Needed(h, n)
        /\ f.at = "leave" => \/ content[f.item].stamp = "unset"
                            \/ ReadAfter(f.item, Needed(h, n))

Lookups ==
    \A h \in Threads : \A n \in 1 .. Len(frames[h]) - 1 : LookupKnows(h, n)

(* Where two adjacent calls after a step come from: from two before it,    *)
PairKept(g, n) ==
    \E m \in 1 .. Len(frames[g]) - 1 :
        /\ frames'[g][n].cl = frames[g][m].cl
        /\ frames'[g][n].item = frames[g][m].item
        /\ frames'[g][n].at = frames[g][m].at
        /\ frames'[g][n].version = frames[g][m].version
        /\ frames'[g][n].queried = frames[g][m].queried
        /\ frames'[g][n + 1].cl = frames[g][m + 1].cl
        /\ frames'[g][n + 1].version = frames[g][m + 1].version

(* or the inner one is the innermost, which has moved or was asked for.    *)
PairMoved(g, n) ==
    /\ n = 1
    /\ \/ frames'[g][1].at \in {"enter", "find"}
       \/ /\ EnterMonitor(g) \/ Find(g) \/ SetCodes(g)
          /\ 1 \in 1 .. Len(frames[g]) - 1
          /\ frames'[g][2] = frames[g][2]

LEMMA PairOrigin ==
    ASSUME TypeOK, [Next]_vars, NEW g \in Threads, NEW n \in 1 .. Len(frames'[g]) - 1
    PROVE  PairKept(g, n) \/ PairMoved(g, n)
<1>0. Len(frames[g]) \in Nat /\ frames[g] \in Seq(Frame)
  BY LenProperties DEF TypeOK
<1>1. ASSUME frames'[g] = frames[g]
      PROVE  PairKept(g, n)
  BY <1>1 DEF PairKept
<1>2. ASSUME NEW h \in Threads, OthersStay(h), h # g
      PROVE  PairKept(g, n)
  BY <1>1, <1>2 DEF OthersStay
<1>3. ASSUME NEW f, TopBecomes(g, f), n # 1
      PROVE  PairKept(g, n)
  <2> DEFINE k == n + 1
  <2>1. /\ n \in 2 .. Len(frames[g]) /\ n \in 1 .. Len(frames[g]) - 1
        /\ k \in 2 .. Len(frames[g])
    BY <1>0, <1>3 DEF TopBecomes
  <2>2. frames'[g][n] = frames[g][n] /\ frames'[g][k] = frames[g][k]
    BY <1>3, <2>1 DEF TopBecomes
  <2> QED
    BY <2>1, <2>2 DEF PairKept
<1>4. ASSUME NEW h \in Threads, EnterMonitor(h) \/ Find(h) \/ SetCodes(h)
      PROVE  PairKept(g, n) \/ PairMoved(g, n)
  <2>1. OthersStay(h) /\ \E f : TopBecomes(h, f)
    BY <1>4, EnterShape, FindShape, SetCodesShape DEF TakesItem, PutsItem
  <2>2. CASE h = g /\ n = 1
    <3>1. PICK f : TopBecomes(g, f)
      BY <2>1, <2>2
    <3>2. Len(frames'[g]) = Len(frames[g]) /\ 1 \in 1 .. Len(frames[g]) - 1
      BY <2>2, <3>1 DEF TopBecomes
    <3>3. 2 \in 2 .. Len(frames[g])
      BY <1>0, <3>2
    <3>4. frames'[g][2] = frames[g][2]
      BY <3>1, <3>3 DEF TopBecomes
    <3> QED
      BY <1>4, <2>2, <3>2, <3>4 DEF PairMoved
  <2> QED
    BY <1>2, <1>3, <2>1, <2>2
<1>5. ASSUME NEW h \in Threads, NEW d \in Classes, Get(h, d) \/ ResolveReference(h, d)
      PROVE  PairKept(g, n) \/ PairMoved(g, n)
  <2>1. OthersStay(h) /\ Calls(h, d)
    BY <1>5, GetShape, ResolveShape
  <2>2. CASE h = g /\ n = 1
    BY <2>1, <2>2 DEF PairMoved, Calls, Call
  <2>3. CASE h = g /\ n # 1
    <3> DEFINE m == n - 1
               k == n + 1
    <3>1. /\ n \in 2 .. Len(frames[g]) + 1 /\ m \in 1 .. Len(frames[g]) - 1
          /\ k \in 2 .. Len(frames[g]) + 1 /\ k - 1 = m + 1
      BY <1>0, <2>1, <2>3 DEF Calls
    <3>2. /\ frames'[g][n].cl = frames[g][m].cl /\ frames'[g][n].item = frames[g][m].item
          /\ frames'[g][n].at = frames[g][m].at
          /\ frames'[g][n].version = frames[g][m].version
          /\ frames'[g][n].queried = frames[g][m].queried
      BY <2>1, <2>3, <3>1 DEF Calls
    <3>3. /\ frames'[g][k].cl = frames[g][k - 1].cl
          /\ frames'[g][k].version = frames[g][k - 1].version
      BY <2>1, <2>3, <3>1 DEF Calls
    <3> QED
      BY <3>1, <3>2, <3>3 DEF PairKept
  <2> QED
    BY <1>2, <2>1, <2>2, <2>3
<1>6. ASSUME NEW h \in Threads, LoadFails(h)
      PROVE  PairKept(g, n)
  <2>1. Emptied(h) /\ OthersStay(h)
    BY <1>6, FailShape
  <2>2. h = g => Len(frames'[g]) = 0
    BY <2>1 DEF Emptied
  <2> QED
    BY <1>2, <2>1, <2>2
<1>7. ASSUME NEW h \in Threads, Leave(h)
      PROVE  PairKept(g, n)
  <2>1. Returns(h) /\ OthersStay(h)
    BY <1>7, LeaveShape
  <2>2. CASE h = g
    <3> DEFINE m == n + 1
    <3>1. /\ n \in 1 .. Len(frames[g]) - 1 /\ m \in 1 .. Len(frames[g]) - 1
      BY <1>0, <2>1, <2>2 DEF Returns
    <3>2. frames'[g][n] = frames[g][m] /\ frames'[g][n + 1] = frames[g][m + 1]
      BY <2>1, <2>2, <3>1 DEF Returns
    <3> QED
      BY <3>1, <3>2 DEF PairKept
  <2> QED
    BY <1>2, <2>1, <2>2
<1>8. ASSUME frames' = frames
      PROVE  PairKept(g, n)
  BY <1>1, <1>8
<1> QED
  BY <1>4, <1>5, <1>6, <1>7, <1>8, NextCases, TransactionStepStays DEF Expire, vars

(* While a thread looks a code up in an item, nobody sets its codes.       *)
LEMMA LookedUpIsNotSet ==
    ASSUME ItemInv, NEW h \in Threads, NEW n \in 1 .. Len(frames[h]),
           frames[h][n].at = "leave", NEW k \in Threads, SetCodes(k)
    PROVE  frames[k][1].item # frames[h][n].item
<1> SUFFICES ASSUME frames[k][1].item = frames[h][n].item
             PROVE  FALSE
  OBVIOUS
<1> DEFINE i == frames[h][n].item
           c == frames[h][n].cl
<1>0. TypeOK /\ ItemsHaveOneClass /\ MonitorsAreHeld /\ CallsAreNested
  BY DEF ItemInv, CallInv
<1>1. /\ frames[k] # <<>> /\ frames[k][1].at = "rows" /\ i \in Items
  BY <1>0, SetCodesShape
<1>2. 1 \in 1 .. Len(frames[k])
  BY <1>0, <1>1, TopIsFirst
<1>3. c \in Classes /\ frames[k][1].cl \in Classes
  BY <1>0, <1>2, VersionsAreNumbers
<1>4. InUse(i, c) /\ InUse(i, frames[k][1].cl)
  BY <1>2 DEF InUse
<1>5. frames[k][1].cl = c
  BY <1>0, <1>1, <1>3, <1>4 DEF ItemsHaveOneClass
<1>6. Held(k, c) /\ Held(h, c)
  <2>1. Held(k, c)
    BY <1>1, <1>2, <1>5 DEF Held
  <2>2. Held(h, c)
    BY DEF Held
  <2> QED
    BY <2>1, <2>2
<1>7. k = h
  BY <1>0, <1>3, <1>6 DEF MonitorsAreHeld
<1>8. n # 1 => n \in 2 .. Len(frames[h])
  BY <1>0, LenProperties DEF TypeOK
<1> QED
  BY <1>0, <1>1, <1>7, <1>8 DEF CallsAreNested

LEMMA LookupStep ==
    ASSUME CurrentInv, HistoryInv, Lookups, [Next]_vars
    PROVE  Lookups'
<1>0. /\ TypeOK /\ ItemInv /\ WriteInv /\ CallsAreNested /\ EnteredHaveItem
      /\ NothingCachedFromBeforeWrite
  BY DEF CurrentInv, ItemInv, CallInv, TypeOK, EnteredHaveItem
<1> SUFFICES ASSUME NEW g \in Threads, NEW n \in 1 .. Len(frames'[g]) - 1
             PROVE  LookupKnows(g, n)'
  BY DEF Lookups
<1> DEFINE f == frames[g][1]
<1>1. /\ Len(frames[g]) \in Nat
      /\ \A m \in 1 .. Len(frames[g]) - 1 : m \in 1 .. Len(frames[g])
                                            /\ m + 1 \in 1 .. Len(frames[g])
  BY <1>0, LenProperties DEF TypeOK
<1>2. \A m \in 1 .. Len(frames[g]) - 1 :
         /\ known'[frames[g][m + 1].cl][frames[g][m + 1].version][frames[g][m].cl] = Needed(g, m)
         /\ Needed(g, m) <= completed[frames[g][m].cl]
         /\ Needed(g, m) \in Nat /\ completed[frames[g][m].cl] \in Nat
  <2> SUFFICES ASSUME NEW m \in 1 .. Len(frames[g]) - 1
               PROVE  /\ known'[frames[g][m + 1].cl][frames[g][m + 1].version][frames[g][m].cl]
                            = Needed(g, m)
                      /\ Needed(g, m) <= completed[frames[g][m].cl]
                      /\ Needed(g, m) \in Nat /\ completed[frames[g][m].cl] \in Nat
    OBVIOUS
  <2> DEFINE c == frames[g][m + 1].cl
             v == frames[g][m + 1].version
             d == frames[g][m].cl
  <2>1. c \in Classes /\ v \in Versions /\ d \in Classes
    BY <1>0, <1>1, VersionsAreNumbers
  <2>2. v <= latest[c]
    BY <1>1 DEF HistoryInv, FramesAreOld
  <2>3. v \in Nat /\ latest[c] \in Nat /\ completed[d] \in Nat /\ known[c][v][d] \in Nat
    BY <1>0, <2>1, VersionsAreNumbers
  <2>4. known[c][v][d] <= completed[d]
    BY <2>1 DEF HistoryInv, KnownIsCompleted
  <2> HIDE DEF c, v, d
  <2>5. known'[c][v][d] = known[c][v][d]
    BY <1>0, <2>1, <2>2, <2>3, KnownChanges
  <2> QED
    BY <2>3, <2>4, <2>5 DEF Needed, c, v, d
<1>3. CASE PairKept(g, n)
  <2>1. PICK m \in 1 .. Len(frames[g]) - 1 :
           /\ frames'[g][n].cl = frames[g][m].cl
           /\ frames'[g][n].item = frames[g][m].item
           /\ frames'[g][n].at = frames[g][m].at
           /\ frames'[g][n].version = frames[g][m].version
           /\ frames'[g][n].queried = frames[g][m].queried
           /\ frames'[g][n + 1].cl = frames[g][m + 1].cl
           /\ frames'[g][n + 1].version = frames[g][m + 1].version
    BY <1>3 DEF PairKept
  <2>2. Needed(g, n)' = Needed(g, m)
    <3>1. Needed(g, n)' =
             known'[frames[g][m + 1].cl][frames[g][m + 1].version][frames[g][m].cl]
      BY <2>1 DEF Needed
    <3> QED
      BY <1>2, <3>1
  <2>3. LookupKnows(g, m)
    BY DEF Lookups
  <2> DEFINE i == frames[g][m].item
  <2>4. ASSUME frames[g][m].at = "leave"
        PROVE  content'[i].stamp = "unset"
               \/ content'[i].version >= Needed(g, m) \/ content'[i].queried >= Needed(g, m)
    <3>1. m \in 1 .. Len(frames[g])
      BY <1>1
    <3>2. i \in Items
      <4>1. i # NoItem
        BY <2>4, <3>1, <1>0 DEF EnteredHaveItem
      <4>2. frames[g][m] \in Frame
        BY <1>0, <3>1, VersionsAreNumbers
      <4> QED
        BY <4>1, <4>2 DEF Frame
    <3>3. Reachable(i)
      BY <3>1 DEF Reachable
    <3>4. \A h \in Threads : SetCodes(h) => frames[h][1].item # i
      BY <1>0, <2>4, <3>1, LookedUpIsNotSet
    <3>5. \/ content'[i] = content[i]
          \/ /\ content'[i].version = content[i].version
             /\ content'[i].queried = content[i].queried
             /\ content[i].stamp # "unset"
      BY <1>0, <3>2, <3>3, <3>4, ContentStep
    <3>6. content[i].stamp = "unset" \/ ReadAfter(i, Needed(g, m))
      BY <2>3, <2>4 DEF LookupKnows
    <3> HIDE DEF i
    <3> QED
      BY <3>5, <3>6 DEF ReadAfter
  <2>5. frames'[g][n].at = "rows" => \/ frames'[g][n].version >= Needed(g, n)'
                                     \/ frames'[g][n].queried >= Needed(g, n)'
    BY <2>1, <2>2, <2>3 DEF LookupKnows
  <2>6. frames'[g][n].at = "leave" =>
           \/ content'[i].stamp = "unset"
           \/ content'[i].version >= Needed(g, n)' \/ content'[i].queried >= Needed(g, n)'
    <3> HIDE DEF i
    <3> QED
      BY <2>1, <2>2, <2>4 DEF ReadAfter
  <2> QED
    BY <2>1, <2>5, <2>6 DEF LookupKnows, ReadAfter
<1>4. CASE n = 1 /\ frames'[g][1].at \in {"enter", "find"}
  BY <1>4 DEF LookupKnows
<1>5. ASSUME n = 1, EnterMonitor(g) \/ Find(g) \/ SetCodes(g),
             1 \in 1 .. Len(frames[g]) - 1, frames'[g][2] = frames[g][2]
      PROVE  LookupKnows(g, n)'
  <2>1. /\ frames[g] # <<>> /\ f \in Frame /\ f.cl \in Classes
        /\ f.version \in Versions /\ f.queried \in Versions
    <3>1. 1 \in 1 .. Len(frames[g])
      BY <1>1, <1>5
    <3>2. frames[g] # <<>>
      BY <1>5 DEF EnterMonitor, Find, SetCodes, At
    <3> QED
      BY <1>0, <3>1, <3>2, VersionsAreNumbers
  <2>2. ASSUME frames'[g][1].cl = f.cl
        PROVE  Needed(g, 1)' = Needed(g, 1)
    <3>1. 1 + 1 = 2
      OBVIOUS
    <3>2. Needed(g, 1)' = known'[frames[g][2].cl][frames[g][2].version][f.cl]
      BY <1>5, <2>2, <3>1 DEF Needed
    <3>3. known'[frames[g][1 + 1].cl][frames[g][1 + 1].version][f.cl] = Needed(g, 1)
      BY <1>2, <1>5
    <3> QED
      BY <3>1, <3>2, <3>3
  <2>3. Needed(g, 1) <= completed[f.cl] /\ Needed(g, 1) \in Nat /\ completed[f.cl] \in Nat
    BY <1>2, <1>5
  <2>4. CASE EnterMonitor(g)
    <3>1. TakesItem(g) \/ \E new \in Items : PutsItem(g, new)
      BY <1>0, <2>4, EnterShape
    <3>2. ASSUME NEW new \in Items, PutsItem(g, new)
          PROVE  frames'[g][1].at = "find"
      BY <2>1, <3>2 DEF PutsItem, TopBecomes, Frame
    <3>3. CASE TakesItem(g)
      <4> DEFINE i == cache[f.cl]
      <4>1. /\ frames'[g][1].at = "leave" /\ frames'[g][1].item = i
            /\ frames'[g][1].cl = f.cl /\ content' = content /\ i # NoItem
        BY <2>1, <3>3 DEF TakesItem, TopBecomes, Frame
      <4>2. content[i].stamp = "unset" \/ ReadAfter(i, completed[f.cl])
        BY <1>0, <2>1, <4>1 DEF NothingCachedFromBeforeWrite
      <4>3. content[i] \in Content
        <5>1. i \in Items
          BY <1>0, <2>1, <4>1 DEF TypeOK
        <5> QED
          BY <1>0, <5>1 DEF TypeOK
      <4>4. content[i].version \in Nat /\ content[i].queried \in Nat
        BY <4>3 DEF Content, Versions
      <4> HIDE DEF i
      <4>5. content'[i].stamp = "unset" \/ content'[i].version >= Needed(g, 1)'
            \/ content'[i].queried >= Needed(g, 1)'
        BY <2>2, <2>3, <4>1, <4>2, <4>4 DEF ReadAfter
      <4> QED
        BY <1>5, <4>1, <4>5 DEF LookupKnows, ReadAfter
    <3> QED
      BY <1>4, <1>5, <3>1, <3>2, <3>3
  <2>5. CASE Find(g)
    <3>1. /\ TopBecomes(g, Found(g)) /\ Found(g).cl = f.cl /\ Found(g).at = "rows"
          /\ Found(g).version = Seen(g, f.cl) /\ Found(g).queried = Queried(g, f.cl)
      BY <1>0, <2>5, FindShape
    <3>2. /\ frames'[g][1].at = "rows" /\ frames'[g][1].cl = f.cl
          /\ frames'[g][1].version = Seen(g, f.cl)
          /\ frames'[g][1].queried = Queried(g, f.cl)
      BY <3>1 DEF TopBecomes
    <3>3. Seen(g, f.cl) >= completed[f.cl] \/ Queried(g, f.cl) >= completed[f.cl]
      BY <1>0, <2>1, SeenIsCurrent
    <3>4. Seen(g, f.cl) \in Nat /\ Queried(g, f.cl) \in Nat
      BY <1>0, <2>1, SeenIsVersion, VersionsAreNumbers DEF Queried
    <3>5. Seen(g, f.cl) >= Needed(g, 1) \/ Queried(g, f.cl) >= Needed(g, 1)
      BY <2>3, <3>3, <3>4
    <3> QED
      BY <1>5, <2>2, <3>2, <3>5 DEF LookupKnows
  <2>6. CASE SetCodes(g)
    <3> DEFINE k == [stamp |-> "fresh", version |-> f.version, queried |-> f.queried]
    <3>1. /\ TopBecomes(g, [f EXCEPT !.at = "leave"]) /\ f.item \in Items
          /\ content' = [content EXCEPT ![f.item] = k] /\ f.at = "rows"
      BY <1>0, <2>6, SetCodesShape
    <3>2. /\ frames'[g][1].at = "leave" /\ frames'[g][1].cl = f.cl
          /\ frames'[g][1].item = f.item
      BY <2>1, <3>1 DEF TopBecomes, Frame
    <3>3. content'[f.item] = k
      BY <1>0, <3>1 DEF TypeOK
    <3>4. LookupKnows(g, 1)
      BY <1>5 DEF Lookups
    <3>5. f.version >= Needed(g, 1) \/ f.queried >= Needed(g, 1)
      BY <3>1, <3>4 DEF LookupKnows
    <3>6. content'[f.item].version = f.version /\ content'[f.item].queried = f.queried
      BY <3>3
    <3> QED
      BY <1>5, <2>2, <3>2, <3>5, <3>6 DEF LookupKnows, ReadAfter
  <2> QED
    BY <1>5, <2>4, <2>5, <2>6
<1> QED
  BY <1>0, <1>3, <1>4, <1>5, PairOrigin DEF PairMoved

LEMMA LookupInit ==
    Init => Lookups
<1> SUFFICES ASSUME Init
             PROVE  Lookups
  OBVIOUS
<1>1. \A h \in Threads : frames[h] = <<>> /\ Len(frames[h]) = 0
  BY DEF Init
<1> QED
  BY <1>1 DEF Lookups

(* A reference to a code is not lost (loadReference, getCode) if the code  *)
(* was written before the referring row by a call that had returned: the   *)
(* item it is looked up in has its codes, and they were not read before    *)
(* the code was there.  This is so if no load fails, no code class refers  *)
(* to itself, directly or by way of others, and codes are not deleted by   *)
(* criteria nor written by transactions of the application.  A self        *)
(* reference is lost in the run cache_self_reference.                      *)
THEOREM ReferencesAreResolved ==
    ASSUME LoadMayFail = FALSE, ReferencesEnd, Kinds \subseteq InvalidatingKinds
    PROVE  Spec => []ReferencesResolved
<1> DEFINE LookupInv == /\ LoadInv /\ Follows(StrictlyBelow)
                        /\ CurrentInv /\ HistoryInv /\ Lookups
<1>1. Init => LookupInv
  BY LoadInit, FollowsInit, CurrentInit, HistoryInit, LookupInit
<1>2. LookupInv /\ [Next]_vars => LookupInv'
  <2>1. LoadInv => CallInv
    BY DEF LoadInv, ItemInv
  <2>2. LoadInv /\ [Next]_vars => LoadInv'
    BY LoadStep
  <2>3. LoadInv /\ Follows(StrictlyBelow) /\ [Next]_vars => Follows(StrictlyBelow)'
    BY <2>1, FollowsStep, StrictlyBelowOrders
  <2>4. CurrentInv /\ [Next]_vars => CurrentInv'
    BY CurrentStep
  <2>5. CurrentInv /\ HistoryInv /\ [Next]_vars => HistoryInv'
    BY HistoryStep DEF CurrentInv
  <2>6. CurrentInv /\ HistoryInv /\ Lookups /\ [Next]_vars => Lookups'
    BY LookupStep
  <2> QED
    BY <2>2, <2>3, <2>4, <2>5, <2>6
<1>3. LookupInv => ReferencesResolved
  <2> SUFFICES ASSUME LookupInv, NEW h \in Threads, At(h, "leave"), Len(frames[h]) > 1
               PROVE  /\ content[Top(h).item].stamp # "unset"
                      /\ ReadAfter(Top(h).item,
                                   known[frames[h][2].cl][frames[h][2].version][Top(h).cl])
    BY DEF ReferencesResolved
  <2>1. content[Top(h).item].stamp # "unset"
    BY ReferenceHasCodes
  <2>2. TypeOK /\ frames[h] # <<>> /\ Top(h).at = "leave"
    BY DEF CurrentInv, WriteInv, At
  <2>3. Top(h) = frames[h][1] /\ Len(frames[h]) \in Nat
    BY <2>2, TopIsFirst
  <2>4. 1 \in 1 .. Len(frames[h]) - 1
    BY <2>3
  <2>5. LookupKnows(h, 1)
    BY <2>4 DEF Lookups
  <2>6. Needed(h, 1) = known[frames[h][2].cl][frames[h][2].version][Top(h).cl]
    BY <2>3 DEF Needed
  <2> QED
    BY <2>1, <2>2, <2>3, <2>5, <2>6 DEF LookupKnows
<1> HIDE DEF LookupInv
<1> QED
  BY <1>1, <1>2, <1>3, PTL DEF Spec

=============================================================================
