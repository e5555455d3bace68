-------------------------- MODULE DialogPolyfillProofs --------------------------
(***************************************************************************)
(* Theorems about DialogPolyfill, for any number of dialogs, any range of  *)
(* z-indexes and any order of calls, mutations and events.                 *)
(***************************************************************************)
EXTENDS DialogPolyfill, SequenceTheorems, TLAPS

Distinct(s) == \A i, j \in 1 .. Len(s) : s[i] = s[j] => i = j

(* What adding an element at the front of a sequence, and taking one out,  *)
(* do to its elements: unshift and splice on pendingDialogStack.           *)
LEMMA Unshift ==
    ASSUME NEW S, NEW s \in Seq(S), NEW x \in S
    PROVE  /\ <<x>> \o s \in Seq(S)
           /\ Len(<<x>> \o s) = Len(s) + 1
           /\ Head(<<x>> \o s) = x /\ <<x>> \o s # <<>>
           /\ (<<x>> \o s)[1] = x
           /\ \A i \in 2 .. Len(s) + 1 : (<<x>> \o s)[i] = s[i - 1]
           /\ Items(<<x>> \o s) = Items(s) \cup {x}
           /\ Distinct(s) /\ x \notin Items(s) => Distinct(<<x>> \o s)
<1> DEFINE r == <<x>> \o s
<1>1. <<x>> \in Seq(S) /\ Len(<<x>>) = 1 /\ <<x>>[1] = x
  OBVIOUS
<1>2. /\ r \in Seq(S)
      /\ Len(r) = Len(<<x>>) + Len(s)
      /\ \A i \in 1 .. Len(<<x>>) + Len(s) :
            r[i] = IF i <= Len(<<x>>) THEN <<x>>[i] ELSE s[i - Len(<<x>>)]
  BY <1>1, ConcatProperties
<1>3. Len(s) \in Nat
  BY LenProperties
<1>4. /\ Len(r) = Len(s) + 1 /\ r[1] = x
      /\ \A i \in 2 .. Len(s) + 1 : r[i] = s[i - 1]
  BY <1>1, <1>2, <1>3
<1>5. Head(r) = x /\ r # <<>>
  BY <1>2, <1>3, <1>4, HeadTailProperties, EmptySeq
<1> HIDE DEF r
<1>6. Items(r) = Items(s) \cup {x}
  <2>1. ASSUME NEW i \in 1 .. Len(r) PROVE r[i] \in Items(s) \cup {x}
    <3>1. CASE i = 1
      BY <1>4, <3>1
    <3>2. CASE i # 1
      <4>1. i - 1 \in 1 .. Len(s) /\ r[i] = s[i - 1]
        BY <1>3, <1>4, <3>2
      <4> QED
        BY <4>1 DEF Items
    <3> QED
      BY <3>1, <3>2
  <2>2. ASSUME NEW i \in 1 .. Len(s) PROVE s[i] \in Items(r)
    <3>1. i + 1 \in 1 .. Len(r) /\ r[i + 1] = s[i]
      BY <1>3, <1>4
    <3> QED
      BY <3>1 DEF Items
  <2>3. x \in Items(r)
    <3>1. 1 \in 1 .. Len(r)
      BY <1>3, <1>4
    <3> QED
      BY <3>1, <1>4 DEF Items
  <2> QED
    BY <2>1, <2>2, <2>3 DEF Items
<1>7. ASSUME Distinct(s), x \notin Items(s) PROVE Distinct(r)
  <2> SUFFICES ASSUME NEW i \in 1 .. Len(r), NEW j \in 1 .. Len(r), r[i] = r[j]
               PROVE  i = j
    BY DEF Distinct
  <2>1. \A k \in 1 .. Len(r) : k # 1 =>
           k - 1 \in 1 .. Len(s) /\ r[k] = s[k - 1]
    BY <1>3, <1>4
  <2>2. \A k \in 1 .. Len(r) : k # 1 => r[k] # x
    BY <2>1, <1>7 DEF Items
  <2>3. CASE i = 1 \/ j = 1
    BY <1>4, <2>2, <2>3
  <2>4. CASE i # 1 /\ j # 1
    <3>1. i - 1 \in 1 .. Len(s) /\ j - 1 \in 1 .. Len(s) /\ s[i - 1] = s[j - 1]
      BY <2>1, <2>4
    <3>2. i - 1 = j - 1
      BY <3>1, <1>7 DEF Distinct
    <3> QED
      BY <3>2, <3>1, <1>3
  <2> QED
    BY <2>3, <2>4
<1> QED
  BY <1>2, <1>4, <1>5, <1>6, <1>7 DEF r

LEMMA Splice ==
    ASSUME NEW S, NEW s \in Seq(S), NEW i \in 1 .. Len(s)
    PROVE  /\ RemoveAt(s, i) \in Seq(S)
           /\ Len(RemoveAt(s, i)) = Len(s) - 1
           /\ \A j \in 1 .. Len(s) - 1 :
                 RemoveAt(s, i)[j] = IF j < i THEN s[j] ELSE s[j + 1]
           /\ Items(RemoveAt(s, i)) \subseteq Items(s)
           /\ Items(s) \ {s[i]} \subseteq Items(RemoveAt(s, i))
           /\ Distinct(s) => /\ Distinct(RemoveAt(s, i))
                             /\ Items(RemoveAt(s, i)) = Items(s) \ {s[i]}
<1> DEFINE r == RemoveAt(s, i)
           n == Len(s) - 1
<1>1. Len(s) \in Nat /\ n \in Nat /\ \A j \in 1 .. Len(s) : s[j] \in S
  BY LenProperties, ElementOfSeq
<1>2. /\ DOMAIN r = 1 .. n
      /\ \A j \in 1 .. n : r[j] = IF j < i THEN s[j] ELSE s[j + 1]
  BY DEF RemoveAt
<1>3. \A j \in 1 .. n : /\ j \in 1 .. Len(s) /\ j + 1 \in 1 .. Len(s)
                        /\ r[j] \in {s[j], s[j + 1]}
  BY <1>1, <1>2
<1>4. r \in Seq(S) /\ Len(r) = n
  <2>1. r \in [1 .. n -> S]
    BY <1>1, <1>2, <1>3 DEF RemoveAt
  <2>2. r \in Seq(S)
    BY <2>1, <1>1, SeqDef
  <2> QED
    BY <1>1, <2>1, <2>2, LenProperties
<1> HIDE DEF r
<1>5. Items(r) \subseteq Items(s)
  BY <1>3, <1>4 DEF Items
<1>6. ASSUME NEW j \in 1 .. Len(s), j # i PROVE s[j] \in Items(r)
  <2>1. CASE j < i
    <3>1. j \in 1 .. n /\ r[j] = s[j]
      BY <1>1, <1>2, <2>1
    <3> QED
      BY <1>4, <3>1 DEF Items
  <2>2. CASE j > i
    <3>1. j - 1 \in 1 .. n /\ r[j - 1] = s[j]
      <4>1. j - 1 \in 1 .. n /\ ~(j - 1 < i) /\ (j - 1) + 1 = j
        BY <1>1, <2>2
      <4> QED
        BY <1>2, <4>1
    <3> QED
      BY <1>4, <3>1 DEF Items
  <2> QED
    BY <1>6, <2>1, <2>2
<1>7. Items(s) \ {s[i]} \subseteq Items(r)
  BY <1>6 DEF Items
<1>8. ASSUME Distinct(s) PROVE Distinct(r) /\ s[i] \notin Items(r)
  <2>1. \A j \in 1 .. n : \E k \in 1 .. Len(s) :
           /\ r[j] = s[k] /\ k # i
           /\ k = IF j < i THEN j ELSE j + 1
    BY <1>1, <1>2
  <2>2. ASSUME NEW j1 \in 1 .. n, NEW j2 \in 1 .. n, r[j1] = r[j2] PROVE j1 = j2
    <3>1. PICK k1 \in 1 .. Len(s) : r[j1] = s[k1] /\ k1 = IF j1 < i THEN j1 ELSE j1 + 1
      BY <2>1
    <3>2. PICK k2 \in 1 .. Len(s) : r[j2] = s[k2] /\ k2 = IF j2 < i THEN j2 ELSE j2 + 1
      BY <2>1
    <3>3. k1 = k2
      BY <2>2, <3>1, <3>2, <1>8 DEF Distinct
    <3> QED
      BY <3>1, <3>2, <3>3
  <2>3. ASSUME NEW j \in 1 .. n PROVE r[j] # s[i]
    BY <2>1, <1>8 DEF Distinct
  <2> QED
    BY <1>4, <2>2, <2>3 DEF Distinct, Items
<1> QED
  BY <1>1, <1>2, <1>4, <1>5, <1>7, <1>8 DEF r

(* indexOf finds the only place of an element.                             *)
LEMMA IndexOf ==
    ASSUME NEW S, NEW s \in Seq(S), Distinct(s)
    PROVE  /\ \A i \in 1 .. Len(s) : Index(s, s[i]) = i
           /\ \A d \in Items(s) : Index(s, d) \in 1 .. Len(s) /\ s[Index(s, d)] = d
<1>1. Len(s) \in Nat
  BY LenProperties
<1>2. ASSUME NEW i \in 1 .. Len(s) PROVE Index(s, s[i]) = i
  <2>1. \A j \in 1 .. i - 1 : s[j] # s[i]
    BY <1>1 DEF Distinct
  <2>2. \A k \in 1 .. Len(s) : s[k] = s[i] => k = i
    BY DEF Distinct
  <2> QED
    BY <2>1, <2>2 DEF Index
<1> QED
  BY <1>2 DEF Items

-----------------------------------------------------------------------------
(* Where the stack puts its dialogs, exactly.                              *)
Layered ==
    /\ Len(stack) <= Allowed
    /\ blocked = (stack # <<>>)
    /\ overlay = IF stack = <<>> THEN Out ELSE ZHigh - 3
    /\ \A i \in 1 .. Len(stack) : zIndex[stack[i]] = Place(i) /\ backdropZ[stack[i]] = Place(i) - 1
    /\ \A d \in Dialogs \ Items(stack) : zIndex[d] = Out /\ backdropZ[d] = Out

StackTypeOK ==
    /\ stack \in Seq(Dialogs) /\ modal \subseteq Dialogs /\ backdrop \subseteq Dialogs
    /\ replaced \subseteq Dialogs /\ removed \subseteq Dialogs
    /\ zIndex \in [Dialogs -> Nat] /\ backdropZ \in [Dialogs -> Nat]
    /\ overlay \in Nat /\ blocked \in BOOLEAN
    /\ top \in [Dialogs -> {"auto", "centered", "own"}]

RestTypeOK ==
    /\ body \in Seq(Dialogs) /\ clone \in Seq(Dialogs)
    /\ open \subseteq Dialogs /\ changed \subseteq Dialogs /\ gone \subseteq Dialogs
    /\ forwardTab \in {"undefined", "forward", "backward"}
    /\ active \in Dialogs \cup {Page, Root, Body}
    /\ turn \in {"script", "observers"}

StackInv == StackTypeOK /\ StackIsModal /\ Layered

(* The manager allows as many dialogs as have places in its range.         *)
LEMMA PlaceInRange ==
    ASSUME NEW i \in Nat \ {0}, i <= Allowed
    PROVE  /\ Place(i) \in Nat /\ Place(i) - 1 \in Nat
           /\ ZLow < Place(i) - 1 /\ Place(i) < ZHigh
           /\ ZHigh - 3 \in Nat /\ ZLow < ZHigh - 3
           /\ ZHigh - 3 # Out /\ Place(i) - 1 # Out
<1>1. /\ ZLow \in Nat /\ ZHigh \in Nat /\ ZLow + 4 <= ZHigh
  BY DialogAssumption
<1>2. Allowed \in Int /\ 2 * Allowed <= ZHigh - ZLow - 2
  BY <1>1 DEF Allowed
<1>3. 2 * i <= ZHigh - ZLow - 2
  BY <1>1, <1>2
<1> QED
  BY <1>1, <1>3 DEF Place, Out

(* updateStacking, for the stack s and dialogs that have no z-index when   *)
(* they are not in it.                                                     *)
LEMMA Stacking ==
    ASSUME NEW s \in Seq(Dialogs), Distinct(s), Len(s) <= Allowed,
           NEW z \in [Dialogs -> Nat], NEW b \in [Dialogs -> Nat],
           \A d \in Dialogs \ Items(s) : z[d] = Out /\ b[d] = Out,
           UpdateStacking(s, z, b)
    PROVE  /\ zIndex' \in [Dialogs -> Nat] /\ backdropZ' \in [Dialogs -> Nat]
           /\ overlay' \in Nat
           /\ overlay' = IF s = <<>> THEN Out ELSE ZHigh - 3
           /\ \A i \in 1 .. Len(s) : zIndex'[s[i]] = Place(i) /\ backdropZ'[s[i]] = Place(i) - 1
           /\ \A d \in Dialogs \ Items(s) : zIndex'[d] = Out /\ backdropZ'[d] = Out
<1>1. Len(s) \in Nat /\ \A i \in 1 .. Len(s) : s[i] \in Dialogs
  BY LenProperties, ElementOfSeq
<1>2. \A i \in 1 .. Len(s) : /\ s[i] \in Items(s) /\ Index(s, s[i]) = i
                             /\ Place(i) \in Nat /\ Place(i) - 1 \in Nat
  <2>1. Allowed \in Int
    BY DialogAssumption DEF Allowed
  <2>2. \A i \in 1 .. Len(s) : i \in Nat \ {0} /\ i <= Allowed
    BY <1>1, <2>1
  <2>3. \A i \in 1 .. Len(s) : Place(i) \in Nat /\ Place(i) - 1 \in Nat
    BY <2>2, PlaceInRange
  <2>4. \A i \in 1 .. Len(s) : Index(s, s[i]) = i
    BY IndexOf
  <2> QED
    BY <2>3, <2>4 DEF Items
<1>3. \A d \in Items(s) : Index(s, d) \in 1 .. Len(s)
  BY IndexOf
<1>4. \A d \in Items(s) : Place(Index(s, d)) \in Nat /\ Place(Index(s, d)) - 1 \in Nat
  BY <1>2, <1>3
<1>5. \A i \in 1 .. Len(s) : Place(i) - 0 = Place(i)
  BY <1>2
<1>6. \A d \in Items(s) : Place(Index(s, d)) - 0 \in Nat
  BY <1>4
<1>7. zIndex' \in [Dialogs -> Nat] /\ backdropZ' \in [Dialogs -> Nat]
  BY <1>4, <1>6 DEF UpdateStacking, Restacked
<1>8. \A i \in 1 .. Len(s) : zIndex'[s[i]] = Place(i) /\ backdropZ'[s[i]] = Place(i) - 1
  BY <1>1, <1>2, <1>5 DEF UpdateStacking, Restacked
<1>9. \A d \in Dialogs \ Items(s) : zIndex'[d] = Out /\ backdropZ'[d] = Out
  BY DEF UpdateStacking, Restacked
<1>10. overlay' = IF s = <<>> THEN Out ELSE ZHigh - 3
  BY DEF UpdateStacking
<1>11. ZHigh - 3 \in Nat
  BY DialogAssumption
<1> QED
  BY <1>7, <1>8, <1>9, <1>10, <1>11 DEF Out

(* The two changes of the stack.                                           *)
LEMMA PushKeepsStack ==
    ASSUME StackInv, NEW d \in Dialogs, d \notin modal, PushDialog(d),
           modal' = modal \cup {d}, backdrop' = backdrop \cup {d},
           replaced' \subseteq Dialogs, top' \in [Dialogs -> {"auto", "centered", "own"}]
    PROVE  /\ StackInv'
           /\ stack' = <<d>> \o stack
           /\ stack'[1] = d /\ Len(stack') \in Nat /\ stack' # <<>>
           /\ \A i \in 2 .. Len(stack') : stack'[i] \in modal
<1>1. /\ stack \in Seq(Dialogs) /\ Distinct(stack) /\ d \notin Items(stack)
      /\ Len(stack) \in Nat
  BY LenProperties DEF StackInv, StackTypeOK, StackIsModal, Distinct
<1>2. /\ stack' \in Seq(Dialogs) /\ Len(stack') = Len(stack) + 1 /\ stack' # <<>>
      /\ stack'[1] = d
      /\ \A i \in 2 .. Len(stack) + 1 : stack'[i] = stack[i - 1]
      /\ Items(stack') = Items(stack) \cup {d}
      /\ Distinct(stack')
  BY <1>1, Unshift DEF PushDialog
<1>3. Allowed \in Int /\ Len(stack') <= Allowed
  <2>1. Allowed \in Int
    BY DialogAssumption DEF Allowed
  <2> QED
    BY <1>1, <1>2, <2>1 DEF PushDialog
<1>4. UpdateStacking(stack', zIndex, backdropZ)
  BY DEF PushDialog
<1>5. /\ zIndex' \in [Dialogs -> Nat] /\ backdropZ' \in [Dialogs -> Nat]
      /\ overlay' \in Nat
      /\ overlay' = IF stack' = <<>> THEN Out ELSE ZHigh - 3
      /\ \A i \in 1 .. Len(stack') : zIndex'[stack'[i]] = Place(i) /\ backdropZ'[stack'[i]] = Place(i) - 1
      /\ \A e \in Dialogs \ Items(stack') : zIndex'[e] = Out /\ backdropZ'[e] = Out
  <2>1. \A e \in Dialogs \ Items(stack') : zIndex[e] = Out /\ backdropZ[e] = Out
    BY <1>2 DEF StackInv, Layered
  <2>2. zIndex \in [Dialogs -> Nat] /\ backdropZ \in [Dialogs -> Nat]
    BY DEF StackInv, StackTypeOK
  <2> HIDE DEF UpdateStacking
  <2> QED
    BY <1>2, <1>3, <1>4, <2>1, <2>2, Stacking
<1>6. \A i \in 2 .. Len(stack') : stack'[i] \in modal
  <2>1. \A i \in 2 .. Len(stack') : i - 1 \in 1 .. Len(stack) /\ stack'[i] = stack[i - 1]
    BY <1>1, <1>2
  <2> QED
    BY <2>1 DEF StackInv, StackIsModal, Items
<1>7. blocked' = TRUE /\ removed' = removed
  BY DEF PushDialog
<1>8. StackTypeOK'
  BY <1>2, <1>5, <1>7 DEF StackInv, StackTypeOK
<1>9. StackIsModal'
  BY <1>2 DEF StackInv, StackIsModal, Distinct
<1>10. Layered'
  BY <1>2, <1>3, <1>5, <1>7 DEF Layered
<1> QED
  BY <1>1, <1>2, <1>6, <1>8, <1>9, <1>10 DEF StackInv, PushDialog

LEMMA DowngradeKeepsStack ==
    ASSUME StackInv, NEW d \in Dialogs, d \in modal, DowngradeModal(d)
    PROVE  /\ StackInv'
           /\ modal' = modal \ {d}
           /\ \E i \in 1 .. Len(stack) : stack[i] = d /\ stack' = RemoveAt(stack, i)
           /\ removed' = IF stack' = <<>> THEN {} ELSE removed
           /\ \A i \in 2 .. Len(stack') : \E j \in 2 .. Len(stack) : stack'[i] = stack[j]
<1>1. /\ stack \in Seq(Dialogs) /\ Distinct(stack) /\ d \in Items(stack)
      /\ Len(stack) \in Nat
      /\ zIndex \in [Dialogs -> Nat] /\ backdropZ \in [Dialogs -> Nat]
  BY LenProperties DEF StackInv, StackTypeOK, StackIsModal, Distinct
<1> DEFINE i == Index(stack, d)
           z == [zIndex EXCEPT ![d] = Out]
           b == [backdropZ EXCEPT ![d] = Out]
<1>2. i \in 1 .. Len(stack) /\ stack[i] = d
  BY <1>1, IndexOf
<1>3. /\ modal' = modal \ {d} /\ backdrop' = backdrop \ {d}
      /\ replaced' = replaced \ {d}
      /\ top' = IF d \in replaced THEN [top EXCEPT ![d] = "auto"] ELSE top
      /\ stack' = RemoveAt(stack, i)
      /\ blocked' = (blocked /\ stack' # <<>>)
      /\ removed' = IF stack' = <<>> THEN {} ELSE removed
      /\ UpdateStacking(stack', z, b)
  BY <1>1 DEF DowngradeModal, RemoveDialog
<1> HIDE DEF i
<1>4. /\ stack' \in Seq(Dialogs) /\ Len(stack') = Len(stack) - 1
      /\ \A j \in 1 .. Len(stack) - 1 : stack'[j] = IF j < i THEN stack[j] ELSE stack[j + 1]
      /\ Items(stack') = Items(stack) \ {d}
      /\ Distinct(stack')
  <2> DEFINE s == RemoveAt(stack, i)
  <2>1. /\ s \in Seq(Dialogs) /\ Len(s) = Len(stack) - 1
        /\ \A j \in 1 .. Len(stack) - 1 : s[j] = IF j < i THEN stack[j] ELSE stack[j + 1]
        /\ Items(s) = Items(stack) \ {stack[i]}
        /\ Distinct(s)
    <3>1. stack \in Seq(Dialogs) /\ i \in 1 .. Len(stack) /\ Distinct(stack)
      BY <1>1, <1>2
    <3>2. /\ s \in Seq(Dialogs) /\ Len(s) = Len(stack) - 1
          /\ \A j \in 1 .. Len(stack) - 1 : s[j] = IF j < i THEN stack[j] ELSE stack[j + 1]
      BY <3>1, Splice
    <3>3. Items(s) = Items(stack) \ {stack[i]} /\ Distinct(s)
      BY <3>1, Splice
    <3> QED
      BY <3>2, <3>3
  <2>2. stack' = s
    BY <1>3
  <2> HIDE DEF s
  <2> QED
    BY <1>2, <2>1, <2>2
<1>5. Allowed \in Int /\ Len(stack') <= Allowed
  <2>1. Allowed \in Int
    BY DialogAssumption DEF Allowed
  <2> QED
    BY <1>1, <1>4, <2>1 DEF StackInv, Layered
<1>6. z \in [Dialogs -> Nat] /\ b \in [Dialogs -> Nat]
  BY <1>1 DEF Out
<1>7. \A e \in Dialogs \ Items(stack') : z[e] = Out /\ b[e] = Out
  BY <1>1, <1>4 DEF StackInv, Layered
<1> HIDE DEF z, b
<1>8. /\ zIndex' \in [Dialogs -> Nat] /\ backdropZ' \in [Dialogs -> Nat]
      /\ overlay' \in Nat
      /\ overlay' = IF stack' = <<>> THEN Out ELSE ZHigh - 3
      /\ \A j \in 1 .. Len(stack') : zIndex'[stack'[j]] = Place(j) /\ backdropZ'[stack'[j]] = Place(j) - 1
      /\ \A e \in Dialogs \ Items(stack') : zIndex'[e] = Out /\ backdropZ'[e] = Out
  BY <1>3, <1>4, <1>5, <1>6, <1>7, Stacking
<1>9. StackTypeOK'
  BY <1>3, <1>4, <1>8 DEF StackInv, StackTypeOK
<1>10. StackIsModal'
  BY <1>3, <1>4 DEF StackInv, StackIsModal, Distinct
<1>11. Layered'
  <2>1. blocked = TRUE
    <3>1. Len(stack) # 0
      BY <1>1, <1>2
    <3> QED
      BY <3>1, EmptySeq DEF StackInv, Layered
  <2> QED
    BY <2>1, <1>3, <1>5, <1>8 DEF Layered
<1>12. \A j \in 2 .. Len(stack') : \E k \in 2 .. Len(stack) : stack'[j] = stack[k]
  <2> SUFFICES ASSUME NEW j \in 2 .. Len(stack')
               PROVE  \E k \in 2 .. Len(stack) : stack'[j] = stack[k]
    OBVIOUS
  <2>1. j \in 1 .. Len(stack) - 1 /\ j \in 2 .. Len(stack) /\ j + 1 \in 2 .. Len(stack)
    BY <1>1, <1>4
  <2>2. stack'[j] = stack[j] \/ stack'[j] = stack[j + 1]
    BY <1>4, <2>1
  <2> QED
    BY <2>1, <2>2
<1> QED
  BY <1>2, <1>3, <1>9, <1>10, <1>11, <1>12 DEF StackInv

LEMMA ManagerSame ==
    ASSUME StackInv, UNCHANGED manager
    PROVE  StackInv'
  BY DEF StackInv, StackTypeOK, StackIsModal, Layered, manager, layers, Items

(* Changes of the manager's variables outside of the stack.                *)
LEMMA StackSame ==
    ASSUME StackInv,
           UNCHANGED <<modal, backdrop, stack, zIndex, backdropZ, overlay, blocked>>,
           replaced' \subseteq Dialogs, removed' \subseteq Dialogs,
           top' \in [Dialogs -> {"auto", "centered", "own"}]
    PROVE  StackInv'
  BY DEF StackInv, StackTypeOK, StackIsModal, Layered, Items

LEMMA DowngradeOrNot ==
    ASSUME StackInv, NEW d \in Dialogs, DowngradeModal(d)
    PROVE  StackInv' /\ modal' = modal \ {d}
<1>1. CASE d \in modal
  BY <1>1, DowngradeKeepsStack
<1>2. CASE d \notin modal
  <2>1. UNCHANGED manager
    BY <1>2 DEF DowngradeModal
  <2> QED
    BY <1>2, <2>1, ManagerSame DEF manager
<1> QED
  BY <1>1, <1>2

LEMMA HideOrNot ==
    ASSUME StackInv, NEW d \in Dialogs, MaybeHideModal(d)
    PROVE  StackInv' /\ modal' = (IF Shown(d) THEN modal ELSE modal \ {d})
<1>1. CASE Shown(d)
  BY <1>1, ManagerSame DEF MaybeHideModal, manager
<1>2. CASE ~Shown(d)
  BY <1>2, DowngradeOrNot DEF MaybeHideModal
<1> QED
  BY <1>1, <1>2

(* A focus event leaves the focus at its target, in the topmost dialog, on *)
(* the root element or nowhere.                                            *)
LEMMA FocusGoes ==
    ASSUME NEW t, NEW tab \in {"undefined", "forward", "backward"},
           NEW a \in HandleFocus(t, tab)
    PROVE  \/ a = t /\ (~blocked \/ t = Root \/ t = Head(stack))
           \/ a = Head(stack) /\ CanFocus(Head(stack))
           \/ a \in {Root, Body}
  BY DEF HandleFocus, Focused

LEMMA HeadOfStack ==
    ASSUME StackInv, blocked
    PROVE  /\ stack # <<>> /\ Head(stack) = stack[1] /\ Head(stack) \in Dialogs
           /\ 1 \in 1 .. Len(stack)
<1>1. stack # <<>> /\ stack \in Seq(Dialogs)
  BY DEF StackInv, StackTypeOK, Layered
<1>2. Len(stack) \in Nat /\ Len(stack) # 0
  BY <1>1, LenProperties, EmptySeq
<1> QED
  BY <1>1, <1>2, HeadTailProperties, ElementOfSeq

TypeInv == StackInv /\ RestTypeOK

LEMMA InitType == Init => TypeInv
<1> SUFFICES ASSUME Init PROVE TypeInv
  OBVIOUS
<1>1. Len(<<>>) = 0 /\ <<>> \in Seq(Dialogs)
  BY EmptySeq
<1>2. StackTypeOK /\ RestTypeOK
  BY <1>1 DEF Init, StackTypeOK, RestTypeOK, Out
<1>3. Items(stack) = {} /\ 1 .. Len(stack) = {}
  BY <1>1 DEF Init, Items
<1>4. StackIsModal
  BY <1>3 DEF Init, StackIsModal
<1>5. 0 <= Allowed
  BY DialogAssumption DEF Allowed
<1>6. Layered
  BY <1>1, <1>3, <1>5 DEF Init, Layered
<1> QED
  BY <1>2, <1>4, <1>6 DEF TypeInv, StackInv

LEMMA StepType ==
    ASSUME TypeInv, [Next]_vars, Hasty = FALSE
    PROVE  TypeInv'
<1> USE DEF TypeInv
<1>f. \A d \in Dialogs : CanFocus(d) => d \in open
  BY DEF CanFocus, Shown
<1>t. ASSUME NEW t \in Targets, NEW tab \in {"undefined", "forward", "backward"}
      PROVE  HandleFocus(t, tab) \subseteq Dialogs \cup {Page, Root, Body}
  <2>1. ASSUME NEW a \in HandleFocus(t, tab) PROVE a \in Dialogs \cup {Page, Root, Body}
    <3>1. t \in Dialogs \cup {Page, Root}
      BY DEF Targets
    <3>2. CanFocus(Head(stack)) => Head(stack) \in Dialogs
      BY DEF CanFocus, Shown, RestTypeOK
    <3> QED
      BY <3>1, <3>2, FocusGoes
  <2> QED
    BY <2>1
<1>1. ASSUME NEW d \in Dialogs, AppendDialog(d) PROVE TypeInv'
  <2>1. body' \in Seq(Dialogs)
    BY <1>1, AppendProperties DEF AppendDialog, RestTypeOK
  <2>2. RestTypeOK'
    BY <1>1, <2>1 DEF AppendDialog, Script, RestTypeOK
  <2> QED
    BY <1>1, <2>2, ManagerSame DEF AppendDialog
<1>2. ASSUME NEW d \in Dialogs, RemoveElement(d) PROVE TypeInv'
  <2>1. body' \in Seq(Dialogs)
    <3>1. Position(d) \in 1 .. Len(body)
      BY <1>2 DEF RemoveElement, Connected, Items, Position
    <3> QED
      BY <1>2, <3>1, Splice DEF RemoveElement, RestTypeOK
  <2>2. RestTypeOK'
    BY <1>2, <2>1 DEF RemoveElement, Script, RestTypeOK
  <2>3. removed' \subseteq Dialogs /\ UNCHANGED <<replaced, top>>
    BY <1>2 DEF RemoveElement, StackInv, StackTypeOK
  <2> QED
    BY <1>2, <2>2, <2>3, StackSame DEF RemoveElement, StackInv, StackTypeOK
<1>3. ASSUME NEW d \in Dialogs, RemoveAttribute(d) PROVE TypeInv'
  <2>1. RestTypeOK'
    BY <1>3 DEF RemoveAttribute, Script, RestTypeOK, Blurred
  <2> QED
    BY <1>3, <2>1, ManagerSame DEF RemoveAttribute
<1>4. ASSUME NEW d \in Dialogs, Show(d) PROVE TypeInv'
  <2>1. active' \in Dialogs \cup {Page, Root, Body}
    <3>1. CASE active' \in HandleFocus(d, forwardTab)
      <4>1. CanFocus(Head(stack)) => Head(stack) \in Dialogs
        BY DEF CanFocus, Shown, RestTypeOK
      <4> QED
        BY <3>1, <4>1, FocusGoes DEF RestTypeOK
    <3>2. CASE active' = Body
      BY <3>2
    <3> QED
      BY <1>4, <3>1, <3>2 DEF Show
  <2>2. RestTypeOK'
    BY <1>4, <2>1 DEF Show, Script, RestTypeOK
  <2> QED
    BY <1>4, <2>2, ManagerSame DEF Show
<1>5. ASSUME NEW d \in Dialogs, ShowModal(d) PROVE TypeInv'
  <2>1. RestTypeOK'
    BY <1>5 DEF ShowModal, Script, RestTypeOK
  <2>2. replaced' \subseteq Dialogs /\ top' \in [Dialogs -> {"auto", "centered", "own"}]
    BY <1>5 DEF ShowModal, StackInv, StackTypeOK
  <2>3. StackInv'
    BY <1>5, <2>2, PushKeepsStack DEF ShowModal
  <2> QED
    BY <2>1, <2>3
<1>6. ASSUME NEW d \in Dialogs, SetOpenFalse(d), d \in open,
             forwardTab' \in {"undefined", "forward", "backward"}
      PROVE  TypeInv'
  <2>1. RestTypeOK'
    BY <1>6 DEF SetOpenFalse, RestTypeOK, Blurred
  <2> QED
    BY <1>6, <2>1, DowngradeOrNot DEF SetOpenFalse
<1>7. ASSUME NEW d \in Dialogs, PositionDialog(d) PROVE TypeInv'
  <2>1. RestTypeOK'
    BY <1>7 DEF PositionDialog, Script, RestTypeOK, elements
  <2>2. top' \in [Dialogs -> {"auto", "centered", "own"}]
    BY <1>7 DEF PositionDialog, StackInv, StackTypeOK
  <2> QED
    BY <1>7, <2>1, <2>2, StackSame DEF PositionDialog, layers, StackInv, StackTypeOK
<1>8. ASSUME NEW t \in Targets, FocusOn(t) PROVE TypeInv'
  <2>1. active' \in Dialogs \cup {Page, Root, Body}
    BY <1>8, <1>t DEF FocusOn, RestTypeOK
  <2>2. RestTypeOK'
    BY <1>8, <2>1 DEF FocusOn, Script, RestTypeOK
  <2> QED
    BY <1>8, <2>2, ManagerSame DEF FocusOn
<1>9. CASE ScriptEnds \/ ObserversEnd
  <2>1. RestTypeOK'
    BY <1>9 DEF ScriptEnds, ObserversEnd, RestTypeOK, elements
  <2> QED
    BY <1>9, <2>1, ManagerSame DEF ScriptEnds, ObserversEnd
<1>10. CASE DocumentChanged
  <2>1. RestTypeOK'
    BY <1>10 DEF DocumentChanged, RestTypeOK, elements, StackInv, StackTypeOK
  <2> QED
    BY <1>10, <2>1, StackSame DEF DocumentChanged, StackInv, StackTypeOK
<1>11. CASE CheckNext
  <2>1. Head(clone) \in Dialogs /\ Tail(clone) \in Seq(Dialogs)
    BY <1>11, HeadTailProperties DEF CheckNext, RestTypeOK
  <2>2. RestTypeOK'
    BY <1>11, <2>1 DEF CheckNext, RestTypeOK, elements
  <2>3. StackInv'
    BY <1>11, <2>1, DowngradeOrNot, HideOrNot DEF CheckNext
  <2> QED
    BY <2>2, <2>3
<1>12. ASSUME NEW d \in Dialogs, AttributeChanged(d) PROVE TypeInv'
  <2>1. RestTypeOK'
    BY <1>12 DEF AttributeChanged, RestTypeOK, elements
  <2> QED
    BY <1>12, <2>1, HideOrNot DEF AttributeChanged
<1>13. ASSUME NEW prevented \in BOOLEAN, EscapeKey(prevented) PROVE TypeInv'
  <2>1. CASE SetOpenFalse(Head(stack)) /\ Head(stack) \in open
    <3>1. Head(stack) \in Dialogs
      BY <2>1 DEF RestTypeOK
    <3> QED
      BY <1>13, <1>6, <2>1, <3>1 DEF EscapeKey
  <2>2. CASE UNCHANGED <<body, open, active, manager, observers>>
    <3>1. RestTypeOK'
      BY <1>13, <2>2 DEF EscapeKey, RestTypeOK, observers
    <3> QED
      BY <2>2, <3>1, ManagerSame
  <2> QED
    BY <1>13, <2>1, <2>2 DEF EscapeKey
<1>14. ASSUME NEW t \in Targets, NEW direction \in {"forward", "backward"}, TabKey(direction, t)
       PROVE  TypeInv'
  <2>1. active' \in Dialogs \cup {Page, Root, Body}
    BY <1>14, <1>t DEF TabKey
  <2>2. RestTypeOK'
    BY <1>14, <2>1 DEF TabKey, RestTypeOK, observers
  <2> QED
    BY <1>14, <2>2, ManagerSame DEF TabKey
<1>15. CASE OtherKey
  <2>1. RestTypeOK'
    BY <1>15 DEF OtherKey, RestTypeOK, observers
  <2> QED
    BY <1>15, <2>1, ManagerSame DEF OtherKey
<1>16. CASE ClickOverlay
  <2>1. RestTypeOK'
    BY <1>16 DEF ClickOverlay, RestTypeOK, StackInv, StackTypeOK
  <2> QED
    BY <1>16, <2>1, ManagerSame DEF ClickOverlay
<1>17. CASE ClickBackdrop
  <2>1. active' \in Dialogs \cup {Page, Root, Body}
    BY <1>17 DEF ClickBackdrop, CanFocus, Shown, RestTypeOK
  <2>2. RestTypeOK'
    BY <1>17, <2>1 DEF ClickBackdrop, RestTypeOK, observers
  <2> QED
    BY <1>17, <2>2, ManagerSame DEF ClickBackdrop
<1>18. CASE UNCHANGED vars
  <2>1. RestTypeOK'
    BY <1>18 DEF vars, elements, observers, RestTypeOK
  <2> QED
    BY <1>18, <2>1, ManagerSame DEF vars
<1>19. ASSUME NEW d \in Dialogs, Close(d) PROVE TypeInv'
  BY <1>6, <1>19 DEF Close, RestTypeOK
<1> QED
  BY <1>1, <1>2, <1>3, <1>4, <1>5, <1>7, <1>8, <1>9, <1>10, <1>11, <1>12,
     <1>13, <1>14, <1>15, <1>16, <1>17, <1>18, <1>19 DEF Next, Observers

(* The state always has its types: in particular there is a topmost dialog *)
(* whenever the code takes the first of pendingDialogStack, and z-indexes  *)
(* are never negative.                                                     *)
THEOREM TypeCorrect ==
    ASSUME Hasty = FALSE PROVE Spec => []TypeOK
<1>1. Init => TypeInv
  BY InitType
<1>2. TypeInv /\ [Next]_vars => TypeInv'
  BY StepType
<1>3. TypeInv => TypeOK
  BY DEF TypeInv, StackInv, StackTypeOK, RestTypeOK, TypeOK
<1> QED
  BY <1>1, <1>2, <1>3, PTL DEF Spec

LEMMA AlwaysTyped ==
    ASSUME Hasty = FALSE PROVE Spec => []TypeInv
<1>1. Init => TypeInv
  BY InitType
<1>2. TypeInv /\ [Next]_vars => TypeInv'
  BY StepType
<1> QED
  BY <1>1, <1>2, PTL DEF Spec

(* pendingDialogStack, openAsModal_ and the backdrops agree, whatever is   *)
(* shown, closed, removed or added again, in whatever order.               *)
THEOREM StackHoldsModals ==
    ASSUME Hasty = FALSE PROVE Spec => []StackIsModal
<1>1. TypeInv => StackIsModal
  BY DEF TypeInv, StackInv
<1> QED
  BY <1>1, AlwaysTyped, PTL

(* The z-indexes stay in the range of the manager for every number of      *)
(* dialogs that pushDialog allows, and the overlay covers all dialogs but  *)
(* the topmost.                                                            *)
THEOREM AlwaysWellStacked ==
    ASSUME Hasty = FALSE PROVE Spec => []WellStacked
<1>1. ASSUME TypeInv PROVE WellStacked
  <2>1. /\ stack \in Seq(Dialogs) /\ Len(stack) \in Nat /\ Len(stack) <= Allowed
        /\ Allowed \in Int
    BY <1>1, DialogAssumption, LenProperties
       DEF TypeInv, StackInv, StackTypeOK, Layered, Allowed
  <2>2. ASSUME NEW i \in 1 .. Len(stack)
        PROVE  /\ Place(i) \in Nat /\ ZLow < Place(i) - 1 /\ Place(i) < ZHigh
               /\ zIndex[stack[i]] = Place(i) /\ backdropZ[stack[i]] = Place(i) - 1
               /\ overlay = ZHigh - 3 /\ ZLow < ZHigh - 3
    <3>1. i \in Nat \ {0} /\ i <= Allowed /\ stack # <<>>
      BY <2>1, EmptySeq
    <3> QED
      BY <1>1, <3>1, PlaceInRange DEF TypeInv, StackInv, Layered
  <2>3. ASSUME NEW i \in 1 .. Len(stack)
        PROVE  /\ i = 1 => Place(i) = ZHigh - 1
               /\ i > 1 => Place(i) = ZHigh - 2 * i
    BY DEF Place
  <2>4. ZHigh \in Nat /\ ZHigh - 3 # Out /\ ZHigh >= 4
    BY DialogAssumption DEF Out
  <2>5. ASSUME NEW i \in 1 .. Len(stack), i > 1
        PROVE  /\ zIndex[stack[i]] < overlay
               /\ zIndex[stack[i]] < backdropZ[stack[i - 1]]
    <3>1. i - 1 \in 1 .. Len(stack)
      BY <2>1, <2>5
    <3>2. CASE i - 1 = 1
      BY <2>2, <2>3, <2>4, <2>5, <3>1, <3>2
    <3>3. CASE i - 1 > 1
      <4>1. i \in Int /\ i > 2
        BY <2>1, <2>5, <3>3
      <4>2. Place(i) = ZHigh - 2 * i /\ Place(i - 1) = ZHigh - 2 * (i - 1)
        BY <3>1, <3>3, <4>1 DEF Place
      <4>3. /\ zIndex[stack[i]] = Place(i) /\ overlay = ZHigh - 3
            /\ backdropZ[stack[i - 1]] = Place(i - 1) - 1
        BY <2>2, <3>1
      <4> QED
        BY <2>4, <4>1, <4>2, <4>3
    <3> QED
      BY <3>1, <3>2, <3>3
  <2>6. ASSUME NEW i \in 1 .. Len(stack)
        PROVE  /\ ZLow < backdropZ[stack[i]] /\ zIndex[stack[i]] < ZHigh
               /\ backdropZ[stack[i]] < zIndex[stack[i]]
               /\ i = 1 => overlay < backdropZ[stack[i]] /\ ZLow < overlay
    BY <2>2, <2>3, <2>4
  <2>7. blocked = (stack # <<>>) /\ (overlay # Out) = blocked
    BY <1>1, <2>4 DEF TypeInv, StackInv, Layered
  <2> QED
    BY <2>5, <2>6, <2>7 DEF WellStacked
<1> QED
  BY <1>1, AlwaysTyped, PTL

-----------------------------------------------------------------------------
(* A modal dialog that the user no longer sees is known to the observers,  *)
(* or about to be checked.                                                 *)
Noted ==
    /\ turn = "script" => clone = <<>>
    /\ \A d \in modal :
          /\ d \in open \/ d \in changed \/ d \in Items(clone)
          /\ d \in Connected \/ d \in removed \/ d \in Items(clone)

LEMMA RestOfClone ==
    ASSUME NEW S, NEW s \in Seq(S), s # <<>>
    PROVE  Items(s) \ {Head(s)} \subseteq Items(Tail(s))
<1>1. /\ Head(s) = s[1] /\ Len(s) \in Nat /\ Len(Tail(s)) = Len(s) - 1
      /\ \A i \in 1 .. Len(s) - 1 : Tail(s)[i] = s[i + 1]
  BY HeadTailProperties, LenProperties, EmptySeq
<1>2. ASSUME NEW i \in 1 .. Len(s), s[i] # Head(s) PROVE s[i] \in Items(Tail(s))
  <2>1. i - 1 \in 1 .. Len(s) - 1 /\ (i - 1) + 1 = i
    BY <1>1, <1>2
  <2> QED
    BY <1>1, <2>1 DEF Items
<1> QED
  BY <1>2 DEF Items

(* Leaving the stack empties the records only when nothing is modal.       *)
LEMMA DowngradeKeepsNoted ==
    ASSUME TypeInv, NEW d \in Dialogs, DowngradeModal(d)
    PROVE  /\ modal' = modal \ {d}
           /\ \A e \in modal' : e \in removed => e \in removed'
<1>1. CASE d \in modal
  <2>1. /\ StackInv' /\ modal' = modal \ {d}
        /\ removed' = IF stack' = <<>> THEN {} ELSE removed
    BY <1>1, DowngradeKeepsStack DEF TypeInv
  <2>2. stack' = <<>> => modal' = {}
    <3>1. Len(<<>>) = 0
      BY EmptySeq
    <3> QED
      BY <2>1, <3>1 DEF StackInv, StackIsModal, Items
  <2> QED
    BY <2>1, <2>2
<1>2. CASE d \notin modal
  BY <1>2 DEF DowngradeModal, manager, layers
<1> QED
  BY <1>1, <1>2

LEMMA HideKeepsNoted ==
    ASSUME TypeInv, NEW d \in Dialogs, MaybeHideModal(d)
    PROVE  /\ modal' = (IF Shown(d) THEN modal ELSE modal \ {d})
           /\ \A e \in modal' : e \in removed => e \in removed'
<1>1. CASE Shown(d)
  BY <1>1 DEF MaybeHideModal, manager, layers
<1>2. CASE ~Shown(d)
  BY <1>2, DowngradeKeepsNoted DEF MaybeHideModal
<1> QED
  BY <1>1, <1>2

LEMMA StepNoted ==
    ASSUME TypeInv, Noted, [Next]_vars, Hasty = FALSE
    PROVE  Noted'
<1>0. TypeInv'
  BY StepType
<1>e. Items(<<>>) = {}
  BY EmptySeq DEF Items
<1>1. ASSUME NEW d \in Dialogs, AppendDialog(d) PROVE Noted'
  <2>1. /\ body \in Seq(Dialogs) /\ body' = Append(body, d)
        /\ UNCHANGED <<modal, open, changed, removed, clone, turn>>
    BY <1>1 DEF AppendDialog, Script, manager, layers, TypeInv, RestTypeOK
  <2>2. Connected \subseteq Connected'
    <3>1. ASSUME NEW i \in 1 .. Len(body) PROVE body[i] \in Items(body')
      <4>1. i \in 1 .. Len(body') /\ body'[i] = body[i]
        BY <2>1, AppendProperties, LenProperties
      <4> QED
        BY <4>1 DEF Items
    <3> QED
      BY <3>1 DEF Connected, Items
  <2> QED
    BY <2>1, <2>2 DEF Noted
<1>2. ASSUME NEW d \in Dialogs, RemoveElement(d) PROVE Noted'
  <2>1. UNCHANGED <<modal, open, changed, clone, turn, stack>>
    BY <1>2 DEF RemoveElement, Script
  <2>2. Connected \ {d} \subseteq Connected'
    <3>1. Position(d) \in 1 .. Len(body) /\ body[Position(d)] = d
      BY <1>2 DEF RemoveElement, Connected, Items, Position
    <3> QED
      BY <1>2, <3>1, Splice DEF RemoveElement, Connected, TypeInv, RestTypeOK
  <2>3. modal # {} => blocked
    BY <1>e DEF TypeInv, StackInv, StackIsModal, Layered
  <2>4. modal # {} => removed' = removed \cup {d}
    BY <1>2, <2>3 DEF RemoveElement
  <2> QED
    BY <2>1, <2>2, <2>4 DEF Noted
<1>3. ASSUME NEW d \in Dialogs, RemoveAttribute(d) PROVE Noted'
  BY <1>3 DEF RemoveAttribute, Script, manager, layers, Noted, Connected
<1>4. ASSUME NEW d \in Dialogs, Show(d) PROVE Noted'
  BY <1>4 DEF Show, Script, manager, layers, Noted, Connected
<1>5. ASSUME NEW d \in Dialogs, ShowModal(d) PROVE Noted'
  BY <1>5 DEF ShowModal, PushDialog, Script, Noted, Connected
<1>6. ASSUME NEW d \in Dialogs, SetOpenFalse(d) PROVE Noted'
  <2>1. DowngradeModal(d) /\ UNCHANGED <<body, turn, clone>>
        /\ open' = open \ {d} /\ changed' = changed \cup {d}
    BY <1>6 DEF SetOpenFalse
  <2>2. modal' = modal \ {d} /\ \A e \in modal' : e \in removed => e \in removed'
    BY <2>1, DowngradeKeepsNoted
  <2> QED
    BY <2>1, <2>2 DEF Noted, Connected
<1>7. ASSUME NEW d \in Dialogs, PositionDialog(d) PROVE Noted'
  BY <1>7 DEF PositionDialog, Script, elements, layers, Noted, Connected
<1>8. ASSUME NEW t \in Targets, FocusOn(t) PROVE Noted'
  BY <1>8 DEF FocusOn, Script, manager, layers, Noted, Connected
<1>9. CASE ScriptEnds \/ ObserversEnd
  BY <1>9 DEF ScriptEnds, ObserversEnd, elements, manager, layers, Noted, Connected
<1>10. CASE DocumentChanged
  <2>1. modal' = modal /\ Items(clone') = modal /\ turn' # "script"
    BY <1>10 DEF DocumentChanged, TypeInv, StackInv, StackIsModal
  <2> QED
    BY <2>1 DEF Noted
<1>11. CASE CheckNext
  <2> DEFINE d == Head(clone)
  <2>1. /\ d \in Dialogs /\ clone \in Seq(Dialogs) /\ clone # <<>>
        /\ clone' = Tail(clone) /\ UNCHANGED <<body, open, changed, turn>>
    BY <1>11, HeadTailProperties DEF CheckNext, TypeInv, RestTypeOK, elements
  <2>2. /\ modal' = modal \ {d} \/ (modal' = modal /\ Shown(d))
        /\ \A e \in modal' : e \in removed => e \in removed'
    BY <1>11, <2>1, DowngradeKeepsNoted, HideKeepsNoted DEF CheckNext
  <2>3. Items(clone) \ {d} \subseteq Items(clone')
    BY <2>1, RestOfClone
  <2>4. turn # "script"
    BY <2>1 DEF Noted
  <2> QED
    BY <2>1, <2>2, <2>3, <2>4 DEF Noted, Connected, Shown
<1>12. ASSUME NEW d \in Dialogs, AttributeChanged(d) PROVE Noted'
  <2>1. /\ UNCHANGED <<body, open, turn, clone>>
        /\ turn = "observers" /\ changed' = changed \ {d}
    BY <1>12 DEF AttributeChanged, elements
  <2>2. /\ modal' = IF Shown(d) THEN modal ELSE modal \ {d}
        /\ \A e \in modal' : e \in removed => e \in removed'
    BY <1>12, HideKeepsNoted DEF AttributeChanged
  <2> QED
    BY <2>1, <2>2 DEF Noted, Connected, Shown
<1>13. ASSUME NEW prevented \in BOOLEAN, EscapeKey(prevented) PROVE Noted'
  <2>1. CASE SetOpenFalse(Head(stack)) /\ Head(stack) \in open
    <3>1. Head(stack) \in Dialogs
      BY <2>1 DEF TypeInv, RestTypeOK
    <3> QED
      BY <1>6, <2>1, <3>1
  <2>2. CASE UNCHANGED <<body, open, active, manager, observers>>
    BY <2>2 DEF observers, manager, layers, Noted, Connected
  <2> QED
    BY <1>13, <2>1, <2>2 DEF EscapeKey
<1>14. ASSUME NEW t \in Targets, NEW direction \in {"forward", "backward"}, TabKey(direction, t)
       PROVE  Noted'
  BY <1>14 DEF TabKey, observers, manager, layers, Noted, Connected
<1>15. CASE OtherKey
  BY <1>15 DEF OtherKey, observers, manager, layers, Noted, Connected
<1>16. CASE ClickOverlay
  <2>1. modal' = modal /\ Items(clone') = modal /\ turn' # "script"
    BY <1>16 DEF ClickOverlay, manager, layers, TypeInv, StackInv, StackIsModal
  <2> QED
    BY <2>1 DEF Noted
<1>17. CASE ClickBackdrop
  BY <1>17 DEF ClickBackdrop, observers, manager, layers, Noted, Connected
<1>18. CASE UNCHANGED vars
  BY <1>18 DEF vars, elements, observers, manager, layers, Noted, Connected
<1>19. ASSUME NEW d \in Dialogs, Close(d) PROVE Noted'
  BY <1>6, <1>19 DEF Close
<1> QED
  BY <1>1, <1>2, <1>3, <1>4, <1>5, <1>7, <1>8, <1>9, <1>10, <1>11, <1>12,
     <1>13, <1>14, <1>15, <1>16, <1>17, <1>18, <1>19 DEF Next, Observers

(* No closed, cleared or removed dialog blocks the page once the observers *)
(* have run.                                                               *)
THEOREM NothingStaleBlocks ==
    ASSUME Hasty = FALSE PROVE Spec => []NoStaleModal
<1>1. Init => Noted
  BY DEF Init, Noted
<1>2. TypeInv /\ Noted /\ [Next]_vars => Noted'
  BY StepNoted
<1>3. Noted => NoStaleModal
  <2>1. Items(<<>>) = {}
    BY EmptySeq DEF Items
  <2> QED
    BY <2>1 DEF Noted, NoStaleModal, Quiet, Pending, Shown
<1> QED
  BY <1>1, <1>2, <1>3, AlwaysTyped, PTL DEF Spec

-----------------------------------------------------------------------------
(* Taking a dialog out of the stack uncovers dialogs and covers none.      *)
LEMMA DowngradeKeepsTrap ==
    ASSUME TypeInv, FocusIsTrapped, NEW d \in Dialogs,
           DowngradeModal(d) \/ MaybeHideModal(d),
           active' = active \/ active' \in {Root, Body}
    PROVE  FocusIsTrapped'
<1>0. \A j \in 2 .. Len(stack) : stack[j] \notin {Root, Body}
  <2>1. stack \in Seq(Dialogs) /\ Len(stack) \in Nat
    BY LenProperties DEF TypeInv, StackInv, StackTypeOK
  <2>2. \A j \in 2 .. Len(stack) : j \in 1 .. Len(stack)
    BY <2>1
  <2>3. \A j \in 2 .. Len(stack) : stack[j] \in Dialogs
    BY <2>1, <2>2, ElementOfSeq
  <2> QED
    BY <2>3, DialogAssumption DEF Root, Body
<1>1. CASE UNCHANGED manager
  <2>1. UNCHANGED <<stack, blocked>>
    BY <1>1 DEF manager, layers
  <2> QED
    BY <1>0, <2>1 DEF FocusIsTrapped, Page, Root, Body
<1>2. CASE d \in modal /\ DowngradeModal(d)
  <2>1. /\ StackInv'
        /\ \A i \in 2 .. Len(stack') : \E j \in 2 .. Len(stack) : stack'[i] = stack[j]
        /\ blocked
    <3>1. /\ StackInv'
          /\ \E i \in 1 .. Len(stack) : stack[i] = d
          /\ \A i \in 2 .. Len(stack') : \E j \in 2 .. Len(stack) : stack'[i] = stack[j]
      BY <1>2, DowngradeKeepsStack DEF TypeInv
    <3>2. stack # <<>>
      BY <3>1, EmptySeq
    <3> QED
      BY <3>1, <3>2 DEF TypeInv, StackInv, Layered
  <2>2. active # Page /\ \A j \in 2 .. Len(stack) : active # stack[j]
    BY <2>1 DEF FocusIsTrapped
  <2> QED
    BY <1>0, <2>1, <2>2 DEF FocusIsTrapped, Page, Root, Body
<1> QED
  BY <1>1, <1>2 DEF DowngradeModal, MaybeHideModal

LEMMA StepTrap ==
    ASSUME TypeInv, FocusIsTrapped, [Next]_vars, Hasty = FALSE
    PROVE  FocusIsTrapped'
<1>1. stack \in Seq(Dialogs) /\ Len(stack) \in Nat
  BY LenProperties DEF TypeInv, StackInv, StackTypeOK
<1>2. ASSUME NEW j \in 2 .. Len(stack)
      PROVE  /\ stack[j] \in Dialogs /\ stack[j] \notin {Page, Root, Body}
             /\ stack[j] # stack[1]
  <2>1. j \in 1 .. Len(stack) /\ 1 \in 1 .. Len(stack) /\ j # 1
    BY <1>1
  <2>2. stack[j] \in Dialogs
    BY <1>1, <2>1, ElementOfSeq
  <2> QED
    BY <2>1, <2>2, DialogAssumption DEF Page, Root, Body, TypeInv, StackInv, StackIsModal
<1>3. ASSUME blocked
      PROVE  Head(stack) = stack[1] /\ Head(stack) \in Dialogs /\ Head(stack) # Page
  BY <1>3, HeadOfStack, DialogAssumption DEF TypeInv, Page
<1>4. Page \notin {Root, Body}
  BY DEF Page, Root, Body
(* Steps that leave the stack alone.                                       *)
<1>5. ASSUME UNCHANGED <<stack, blocked>>,
             \/ active' = active
             \/ active' \in {Root, Body}
             \/ active' = Head(stack)
      PROVE  FocusIsTrapped'
  BY <1>2, <1>3, <1>4, <1>5 DEF FocusIsTrapped
<1>6. ASSUME UNCHANGED <<stack, blocked>>, NEW t, NEW tab \in {"undefined", "forward", "backward"},
             active' \in HandleFocus(t, tab)
      PROVE  FocusIsTrapped'
  <2>1. CASE ~blocked
    BY <1>6, <2>1 DEF FocusIsTrapped
  <2>2. CASE blocked
    BY <1>5, <1>6, <2>2, FocusGoes
  <2> QED
    BY <2>1, <2>2
<1>7. ASSUME NEW d \in Dialogs, ShowModal(d) PROVE FocusIsTrapped'
  <2>1. d \notin modal /\ active' \in {d, Body} /\ d # Page
    BY <1>7, DialogAssumption DEF ShowModal, Page
  <2>2. /\ replaced' \subseteq Dialogs /\ top' \in [Dialogs -> {"auto", "centered", "own"}]
        /\ PushDialog(d) /\ modal' = modal \cup {d} /\ backdrop' = backdrop \cup {d}
    BY <1>7 DEF ShowModal, TypeInv, StackInv, StackTypeOK
  <2>3. \A i \in 2 .. Len(stack') : stack'[i] \in modal
    BY <2>1, <2>2, PushKeepsStack DEF TypeInv
  <2>4. Body \notin modal
    BY DialogAssumption DEF Body, TypeInv, StackInv, StackTypeOK
  <2> QED
    BY <1>4, <2>1, <2>3, <2>4 DEF FocusIsTrapped
<1>8. ASSUME NEW d \in Dialogs, SetOpenFalse(d) PROVE FocusIsTrapped'
  <2>1. active' = active \/ active' \in {Root, Body}
    BY <1>8 DEF SetOpenFalse, Blurred
  <2> QED
    BY <1>8, <2>1, DowngradeKeepsTrap DEF SetOpenFalse
<1>9. ASSUME NEW d \in Dialogs, Show(d) PROVE FocusIsTrapped'
  <2>1. UNCHANGED <<stack, blocked>>
    BY <1>9 DEF Show, manager, layers
  <2>2. active' \in HandleFocus(d, forwardTab) \/ active' = Body
    BY <1>9 DEF Show
  <2> QED
    BY <1>5, <1>6, <2>1, <2>2 DEF TypeInv, RestTypeOK
<1>10. ASSUME NEW t \in Targets, FocusOn(t) PROVE FocusIsTrapped'
  BY <1>6, <1>10 DEF FocusOn, manager, layers, TypeInv, RestTypeOK
<1>11. ASSUME NEW t \in Targets, NEW direction \in {"forward", "backward"}, TabKey(direction, t)
       PROVE  FocusIsTrapped'
  BY <1>6, <1>11 DEF TabKey, manager, layers
<1>12. CASE CheckNext
  <2>1. Head(clone) \in Dialogs
    BY <1>12, HeadTailProperties DEF CheckNext, TypeInv, RestTypeOK
  <2>2. active' = active
    BY <1>12 DEF CheckNext, elements
  <2> QED
    BY <1>12, <2>1, <2>2, DowngradeKeepsTrap DEF CheckNext
<1>13. ASSUME NEW d \in Dialogs, AttributeChanged(d) PROVE FocusIsTrapped'
  BY <1>13, DowngradeKeepsTrap DEF AttributeChanged, elements
<1>14. ASSUME NEW prevented \in BOOLEAN, EscapeKey(prevented) PROVE FocusIsTrapped'
  <2>1. CASE SetOpenFalse(Head(stack)) /\ Head(stack) \in open
    <3>1. Head(stack) \in Dialogs
      BY <2>1 DEF TypeInv, RestTypeOK
    <3> QED
      BY <1>8, <2>1, <3>1
  <2>2. CASE UNCHANGED <<body, open, active, manager, observers>>
    BY <1>5, <2>2 DEF manager, layers
  <2> QED
    BY <1>14, <2>1, <2>2 DEF EscapeKey
<1>15. ASSUME NEW d \in Dialogs,
              AppendDialog(d) \/ RemoveElement(d) \/ RemoveAttribute(d) \/ PositionDialog(d)
       PROVE  FocusIsTrapped'
  <2>1. UNCHANGED <<stack, blocked>>
    BY <1>15 DEF AppendDialog, RemoveElement, RemoveAttribute, PositionDialog, manager, layers
  <2>2. active' = active \/ active' \in {Root, Body}
    BY <1>15 DEF AppendDialog, RemoveElement, RemoveAttribute, PositionDialog, Blurred, elements
  <2> QED
    BY <1>5, <2>1, <2>2
<1>16. CASE \/ ScriptEnds \/ ObserversEnd \/ DocumentChanged \/ OtherKey
            \/ ClickOverlay \/ ClickBackdrop \/ UNCHANGED vars
  <2>1. UNCHANGED <<stack, blocked>>
    BY <1>16 DEF ScriptEnds, ObserversEnd, DocumentChanged, OtherKey, ClickOverlay,
                 ClickBackdrop, vars, manager, layers
  <2>2. active' = active \/ active' \in {Root, Body} \/ active' = Head(stack)
    BY <1>16 DEF ScriptEnds, ObserversEnd, DocumentChanged, OtherKey, ClickOverlay,
                 ClickBackdrop, vars, elements
  <2> QED
    BY <1>5, <2>1, <2>2
<1>17. ASSUME NEW d \in Dialogs, Close(d) PROVE FocusIsTrapped'
  BY <1>8, <1>17 DEF Close
<1> QED
  BY <1>7, <1>9, <1>10, <1>11, <1>12, <1>13, <1>14, <1>15, <1>16, <1>17 DEF Next, Observers

(* As long as a dialog is modal, the focus is not in what it covers.       *)
THEOREM FocusStaysTrapped ==
    ASSUME Hasty = FALSE PROVE Spec => []FocusIsTrapped
<1>1. Init => FocusIsTrapped
  BY DEF Init, FocusIsTrapped
<1>2. TypeInv /\ FocusIsTrapped /\ [Next]_vars => FocusIsTrapped'
  BY StepTrap
<1> QED
  BY <1>1, <1>2, AlwaysTyped, PTL DEF Spec

-----------------------------------------------------------------------------
(* What the manager put into style.top is noted in replacedStyleTop_.      *)
CenteredInv == \A d \in Dialogs : top[d] = "centered" => d \in modal /\ d \in replaced

LEMMA DowngradeKeepsCentered ==
    ASSUME TypeInv, CenteredInv, NEW d \in Dialogs, DowngradeModal(d) \/ MaybeHideModal(d)
    PROVE  CenteredInv'
<1>1. CASE UNCHANGED manager
  BY <1>1 DEF manager, CenteredInv
<1>2. CASE d \in modal /\ DowngradeModal(d)
  <2>1. /\ modal' = modal \ {d} /\ replaced' = replaced \ {d}
        /\ top' = IF d \in replaced THEN [top EXCEPT ![d] = "auto"] ELSE top
    BY <1>2 DEF DowngradeModal
  <2>2. top \in [Dialogs -> {"auto", "centered", "own"}]
    BY DEF TypeInv, StackInv, StackTypeOK
  <2>3. top'[d] # "centered"
    BY <2>1, <2>2 DEF CenteredInv
  <2>4. \A e \in Dialogs : e # d => top'[e] = top[e]
    BY <2>1, <2>2
  <2> QED
    BY <2>1, <2>3, <2>4 DEF CenteredInv
<1> QED
  BY <1>1, <1>2 DEF DowngradeModal, MaybeHideModal

LEMMA StepCentered ==
    ASSUME TypeInv, CenteredInv, [Next]_vars, Hasty = FALSE
    PROVE  CenteredInv'
<1>1. top \in [Dialogs -> {"auto", "centered", "own"}]
  BY DEF TypeInv, StackInv, StackTypeOK
<1>2. ASSUME UNCHANGED <<modal, replaced, top>> PROVE CenteredInv'
  BY <1>2 DEF CenteredInv
<1>3. ASSUME NEW d \in Dialogs, ShowModal(d) PROVE CenteredInv'
  <2>1. /\ d \notin modal /\ modal' = modal \cup {d}
        /\ top' = IF NeedsCentering(d) THEN [top EXCEPT ![d] = "centered"] ELSE top
        /\ replaced' = IF NeedsCentering(d) THEN replaced \cup {d} ELSE replaced \ {d}
    BY <1>3 DEF ShowModal
  <2>2. \A e \in Dialogs : e # d => (top'[e] = top[e] /\ (e \in replaced => e \in replaced'))
    BY <1>1, <2>1
  <2>3. top'[d] = "centered" => d \in replaced'
    BY <2>1 DEF CenteredInv
  <2> QED
    BY <2>1, <2>2, <2>3 DEF CenteredInv
<1>4. ASSUME NEW d \in Dialogs, PositionDialog(d) PROVE CenteredInv'
  <2>1. top' = [top EXCEPT ![d] = "own"] /\ UNCHANGED <<modal, replaced>>
    BY <1>4 DEF PositionDialog
  <2> QED
    BY <1>1, <2>1 DEF CenteredInv
<1>5. CASE CheckNext
  <2>1. Head(clone) \in Dialogs
    BY <1>5, HeadTailProperties DEF CheckNext, TypeInv, RestTypeOK
  <2> QED
    BY <1>5, <2>1, DowngradeKeepsCentered DEF CheckNext
<1>6. ASSUME NEW d \in Dialogs, AttributeChanged(d) PROVE CenteredInv'
  BY <1>6, DowngradeKeepsCentered DEF AttributeChanged
<1>7. ASSUME NEW d \in Dialogs, Close(d) PROVE CenteredInv'
  BY <1>7, DowngradeKeepsCentered DEF Close, SetOpenFalse
<1>8. ASSUME NEW prevented \in BOOLEAN, EscapeKey(prevented) PROVE CenteredInv'
  <2>1. CASE SetOpenFalse(Head(stack)) /\ Head(stack) \in open
    <3>1. Head(stack) \in Dialogs
      BY <2>1 DEF TypeInv, RestTypeOK
    <3> QED
      BY <2>1, <3>1, DowngradeKeepsCentered DEF SetOpenFalse
  <2>2. CASE UNCHANGED <<body, open, active, manager, observers>>
    BY <1>2, <2>2 DEF manager
  <2> QED
    BY <1>8, <2>1, <2>2 DEF EscapeKey
<1>9. ASSUME NEW d \in Dialogs, AppendDialog(d) \/ RemoveElement(d) \/ RemoveAttribute(d) \/ Show(d)
      PROVE  CenteredInv'
  BY <1>2, <1>9 DEF AppendDialog, RemoveElement, RemoveAttribute, Show, manager
<1>10. ASSUME NEW t \in Targets, NEW direction \in {"forward", "backward"},
              FocusOn(t) \/ TabKey(direction, t)
       PROVE  CenteredInv'
  BY <1>2, <1>10 DEF FocusOn, TabKey, manager
<1>11. CASE \/ ScriptEnds \/ ObserversEnd \/ DocumentChanged \/ OtherKey
            \/ ClickOverlay \/ ClickBackdrop \/ UNCHANGED vars
  BY <1>2, <1>11 DEF ScriptEnds, ObserversEnd, DocumentChanged, OtherKey, ClickOverlay,
                     ClickBackdrop, vars, manager
<1>12. ASSUME NEW t \in Targets, FocusOn(t) PROVE CenteredInv'
  BY <1>2, <1>12 DEF FocusOn, manager
<1> QED
  BY <1>3, <1>4, <1>5, <1>6, <1>7, <1>8, <1>9, <1>10, <1>11, <1>12 DEF Next, Observers

(* No dialog keeps the position of its time as a modal dialog.             *)
THEOREM CenteringEnds ==
    ASSUME Hasty = FALSE PROVE Spec => []CenteringIsUndone
<1>1. Init => CenteredInv
  BY DEF Init, CenteredInv
<1>2. TypeInv /\ CenteredInv /\ [Next]_vars => CenteredInv'
  BY StepCentered
<1>3. CenteredInv => CenteringIsUndone
  BY DEF CenteredInv, CenteringIsUndone
<1> QED
  BY <1>1, <1>2, <1>3, AlwaysTyped, PTL DEF Spec

-----------------------------------------------------------------------------
(* What is in front of the overlay: everything if there is no modal        *)
(* dialog, and only the topmost otherwise.                                 *)
TopIsUsable == Reachable = Native!TopOf(stack)

LEMMA ReachableIsTop == TypeInv => TopIsUsable
<1> SUFFICES ASSUME TypeInv PROVE TopIsUsable
  OBVIOUS
<1>1. CASE stack = <<>>
  BY <1>1 DEF TopIsUsable, Reachable, Native!TopOf, TypeInv, StackInv, Layered
<1>2. CASE stack # <<>>
  <2>1. stack \in Seq(Dialogs) /\ Len(stack) \in Nat /\ Len(stack) >= 1
    BY <1>2, LenProperties, EmptySeq DEF TypeInv, StackInv, StackTypeOK
  <2>2. Head(stack) = stack[1] /\ 1 \in 1 .. Len(stack)
    BY <1>2, <2>1, HeadTailProperties
  <2>3. Head(stack) \in Dialogs
    BY <2>1, <2>2, ElementOfSeq
  <2>4. ZHigh \in Nat /\ ZHigh - 3 > 0
    BY DialogAssumption
  <2>5. overlay = ZHigh - 3 /\ overlay # Out
    BY <1>2, <2>4 DEF TypeInv, StackInv, Layered, Out
  <2>6. zIndex[Head(stack)] > overlay
    <3>1. zIndex[Head(stack)] = ZHigh - 1
      BY <2>2 DEF TypeInv, StackInv, Layered, Place
    <3> QED
      BY <2>4, <2>5, <3>1
  <2>7. ASSUME NEW d \in Dialogs, d # Head(stack) PROVE ~(zIndex[d] > overlay)
    <3>1. CASE d \in Items(stack)
      <4>1. PICK i \in 1 .. Len(stack) : d = stack[i]
        BY <3>1 DEF Items
      <4>2. i # 1
        BY <2>2, <2>7, <4>1
      <4>3. zIndex[d] = ZHigh - 2 * i
        BY <4>1, <4>2 DEF TypeInv, StackInv, Layered, Place
      <4>4. i \in Int /\ i >= 2
        BY <4>2, <2>1
      <4> QED
        BY <2>4, <2>5, <4>3, <4>4
    <3>2. CASE d \notin Items(stack)
      <4>1. zIndex[d] = 0
        BY <3>2 DEF TypeInv, StackInv, Layered, Out
      <4> QED
        BY <2>4, <2>5, <4>1
    <3> QED
      BY <3>1, <3>2
  <2> QED
    BY <1>2, <2>3, <2>6, <2>7, <2>5 DEF TopIsUsable, Reachable, Native!TopOf
<1> QED
  BY <1>1, <1>2

(* The steps that change the stack, and when a dialog leaves it.           *)
Pushed(d) == d \notin modal /\ PushDialog(d) /\ modal' = modal \cup {d}
Left(d) ==
    /\ d \in modal /\ DowngradeModal(d)
    /\ d \notin open' \/ d \notin Connected \/ d \in gone
Unstacked == UNCHANGED <<stack, modal, zIndex, overlay>>

LEMMA StackChanges ==
    ASSUME TypeInv, [Next]_vars, Hasty = FALSE
    PROVE  Unstacked \/ \E d \in Dialogs : Pushed(d) \/ Left(d)
<1> DEFINE Goal == Unstacked \/ \E d \in Dialogs : Pushed(d) \/ Left(d)
<1>1. ASSUME NEW d \in Dialogs, DowngradeModal(d),
             d \in modal => d \notin open' \/ d \notin Connected \/ d \in gone
      PROVE  Goal
  <2>1. CASE d \in modal
    BY <1>1, <2>1 DEF Left
  <2>2. CASE d \notin modal
    BY <1>1, <2>2 DEF DowngradeModal, manager, layers, Unstacked
  <2> QED
    BY <2>1, <2>2
<1>2. ASSUME NEW d \in Dialogs, MaybeHideModal(d), open' = open PROVE Goal
  <2>1. CASE Shown(d)
    BY <1>2, <2>1 DEF MaybeHideModal, manager, layers, Unstacked
  <2>2. CASE ~Shown(d)
    BY <1>1, <1>2, <2>2 DEF MaybeHideModal, Shown
  <2> QED
    BY <2>1, <2>2
<1>3. CASE UNCHANGED <<stack, modal, zIndex, overlay>>
  BY <1>3 DEF Unstacked
<1>4. ASSUME NEW d \in Dialogs, ShowModal(d) PROVE Goal
  BY <1>4 DEF ShowModal, Pushed
<1>5. ASSUME NEW d \in Dialogs, SetOpenFalse(d) PROVE Goal
  BY <1>1, <1>5 DEF SetOpenFalse
<1>6. ASSUME NEW d \in Dialogs, AttributeChanged(d) PROVE Goal
  BY <1>2, <1>6 DEF AttributeChanged, elements
<1>7. CASE CheckNext
  <2>1. Head(clone) \in Dialogs /\ open' = open
    BY <1>7, HeadTailProperties DEF CheckNext, elements, TypeInv, RestTypeOK
  <2> QED
    BY <1>1, <1>2, <1>7, <2>1 DEF CheckNext
<1>8. ASSUME NEW prevented \in BOOLEAN, EscapeKey(prevented) PROVE Goal
  <2>1. CASE SetOpenFalse(Head(stack)) /\ Head(stack) \in open
    <3>1. Head(stack) \in Dialogs
      BY <2>1 DEF TypeInv, RestTypeOK
    <3> QED
      BY <1>5, <2>1, <3>1
  <2>2. CASE UNCHANGED manager
    BY <1>3, <2>2 DEF manager, layers
  <2> QED
    BY <1>8, <2>1, <2>2 DEF EscapeKey
<1>9. ASSUME NEW d \in Dialogs,
             AppendDialog(d) \/ RemoveElement(d) \/ RemoveAttribute(d) \/ Show(d) \/ PositionDialog(d)
      PROVE  Goal
  BY <1>3, <1>9 DEF AppendDialog, RemoveElement, RemoveAttribute, Show, PositionDialog,
                    manager, layers
<1>10. ASSUME NEW t \in Targets, NEW direction \in {"forward", "backward"},
              FocusOn(t) \/ TabKey(direction, t)
       PROVE  Goal
  BY <1>3, <1>10 DEF FocusOn, TabKey, manager, layers
<1>11. ASSUME NEW t \in Targets, FocusOn(t) PROVE Goal
  BY <1>3, <1>11 DEF FocusOn, manager, layers
<1>12. CASE \/ ScriptEnds \/ ObserversEnd \/ DocumentChanged \/ OtherKey
            \/ ClickOverlay \/ ClickBackdrop \/ UNCHANGED vars
  BY <1>3, <1>12 DEF ScriptEnds, ObserversEnd, DocumentChanged, OtherKey, ClickOverlay,
                     ClickBackdrop, vars, manager, layers
<1>13. ASSUME NEW d \in Dialogs, Close(d) PROVE Goal
  BY <1>5, <1>13 DEF Close
<1> QED
  BY <1>4, <1>6, <1>7, <1>8, <1>9, <1>10, <1>11, <1>12, <1>13 DEF Next, Observers

(* A modal dialog is never taken out of the stack while it is open and has *)
(* stayed in the document.                                                 *)
THEOREM PlaceIsKept ==
    ASSUME Hasty = FALSE PROVE Spec => KeepsItsPlace
<1> DEFINE Kept == \A d \in modal \ modal' : d \notin open' \/ d \notin Connected \/ d \in removed \cup gone
<1>1. ASSUME TypeInv, [Next]_vars PROVE Kept
  <2>1. CASE Unstacked
    BY <2>1 DEF Unstacked
  <2>2. ASSUME NEW d \in Dialogs, Pushed(d) PROVE Kept
    BY <2>2 DEF Pushed
  <2>3. ASSUME NEW d \in Dialogs, Left(d) PROVE Kept
    <3>1. modal' = modal \ {d}
      BY <1>1, <2>3, DowngradeOrNot DEF Left, TypeInv
    <3> QED
      BY <2>3, <3>1 DEF Left
  <2> QED
    BY <1>1, <2>1, <2>2, <2>3, StackChanges
<1>2. TypeInv /\ [Next]_vars => [Kept]_vars
  BY <1>1
<1> QED
  BY <1>2, AlwaysTyped, PTL DEF Spec, KeepsItsPlace

(* The manager implements the top layer: every step of it shows a dialog   *)
(* on top of the others, takes one out or changes nothing that is seen.    *)
THEOREM ImplementsTheTopLayer ==
    ASSUME Hasty = FALSE PROVE Spec => ImplementsTopLayer
<1> DEFINE Step == [Native!Next]_<<stack, Reachable>>
<1>1. Init => Native!Init
  BY DEF Init, Native!Init, Reachable
<1>2. ASSUME TypeInv, TopIsUsable, TopIsUsable', [Next]_vars PROVE Step
  <2>1. CASE Unstacked
    BY <2>1 DEF Unstacked, Reachable
  <2>2. ASSUME NEW d \in Dialogs, Pushed(d) PROVE Step
    <3>1. stack \in Seq(Dialogs) /\ Items(stack) = modal
      BY <1>2 DEF TypeInv, StackInv, StackTypeOK, StackIsModal
    <3>2. stack' = <<d>> \o stack
      BY <2>2 DEF Pushed, PushDialog
    <3>3. stack' # <<>> /\ Head(stack') = d
      BY <3>1, <3>2, Unshift
    <3>4. Reachable' = {d}
      BY <1>2, <3>3 DEF TopIsUsable, Native!TopOf
    <3>5. \A i \in 1 .. Len(stack) : stack[i] # d
      BY <2>2, <3>1 DEF Pushed, Items
    <3>6. Native!Show(d)
      BY <3>2, <3>4, <3>5 DEF Native!Show
    <3> QED
      BY <3>6 DEF Native!Next
  <2>3. ASSUME NEW d \in Dialogs, Left(d) PROVE Step
    <3>1. PICK i \in 1 .. Len(stack) : stack' = RemoveAt(stack, i)
      BY <1>2, <2>3, DowngradeKeepsStack DEF TypeInv, Left
    <3>2. Native!Leave(i)
      BY <1>2, <3>1 DEF TopIsUsable, Native!Leave, Native!TopOf, RemoveAt
    <3> QED
      BY <3>2 DEF Native!Next
  <2> QED
    BY <1>2, <2>1, <2>2, <2>3, StackChanges
<1>3. Spec => []TopIsUsable
  BY ReachableIsTop, AlwaysTyped, PTL
<1> QED
  BY <1>1, <1>2, <1>3, AlwaysTyped, PTL DEF Spec, ImplementsTopLayer, Native!Spec
===============================================================================
