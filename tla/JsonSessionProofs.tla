-------------------------- MODULE JsonSessionProofs --------------------------
(***************************************************************************)
(* Proofs about JsonSession: what holds of one request, of the workers of  *)
(* a session and of the lists of pages.                                    *)
(*                                                                         *)
(* First each action is described by what it does to the request and to    *)
(* the session it is about (Sends, GetsSession, Handles, ..., Step), so    *)
(* that the invariants are proved from few facts about each kind of step.  *)
(* The invariants are built in layers:                                     *)
(*   StateInv    the shape of the state; the session a request has come to *)
(*               is a created one;                                         *)
(*   HandledInv  a request that was not yet handled has no worker, and a   *)
(*               session with a worker has a thread;                       *)
(*   ListsInv    a page has the number of a request that was sent, and of  *)
(*               two pages side by side the right one is newer: so no list *)
(*               names a page twice;                                       *)
(*   BrowserInv  which requests a document waits for, and which session    *)
(*               its answers come from.                                    *)
(* All of them hold in every run: with requests that overlap, two workers  *)
(* in a session, exceptions of the application in the middle of show(),    *)
(* and lists that are no longer those on the screen.  What holds only of   *)
(* orderly runs is proved in JsonAgreementProofs from these.               *)
(***************************************************************************)
EXTENDS JsonSession, TLAPS, FiniteSetTheorems, SequenceTheorems, WellFoundedInduction

-----------------------------------------------------------------------------
(* Lists of pages.                                                         *)
Lists == Seq(Requests)

Distinct(s) == \A i, j \in 1 .. Len(s) : s[i] = s[j] => i = j

LEMMA PagesAreDistinct ==
    \A s : s \in Pages <=> s \in Lists /\ Distinct(s)
  BY DEF Pages, Lists, Distinct

LEMMA ListProperties ==
    ASSUME NEW s \in Lists
    PROVE  /\ Len(s) \in Nat
           /\ \A i \in 1 .. Len(s) : s[i] \in Requests /\ s[i] \in Items(s)
           /\ Items(s) \subseteq Requests
           /\ s # <<>> <=> Len(s) >= 1
           /\ s # <<>> => s[1] \in Items(s)
           /\ Items(s) = {} <=> s = <<>>
<1>1. /\ Len(s) \in Nat /\ DOMAIN s = 1 .. Len(s)
      /\ \A i \in 1 .. Len(s) : s[i] \in Requests
  BY LenProperties, ElementOfSeq DEF Lists
<1>2. s = <<>> <=> Len(s) = 0
  BY EmptySeq DEF Lists
<1> QED
  BY <1>1, <1>2 DEF Items

LEMMA NoPages ==
    <<>> \in Lists /\ Items(<<>>) = {} /\ Distinct(<<>>) /\ Len(<<>>) = 0
  BY DEF Lists, Items, Distinct

LEMMA OnePage ==
    ASSUME NEW p \in Requests
    PROVE  /\ <<p>> \in Lists /\ Items(<<p>>) = {p} /\ Distinct(<<p>>)
           /\ <<p>> # <<>> /\ Len(<<p>>) = 1 /\ <<p>>[1] = p
  BY DEF Lists, Items, Distinct

LEMMA IndexProperties ==
    ASSUME NEW s \in Lists, NEW p \in Items(s)
    PROVE  /\ Index(s, p) \in 1 .. Len(s) /\ s[Index(s, p)] = p
           /\ \A i \in 1 .. Len(s) : Distinct(s) /\ s[i] = p => i = Index(s, p)
<1>1. \E i \in 1 .. Len(s) : s[i] = p
  BY DEF Items
<1>2. Index(s, p) \in 1 .. Len(s) /\ s[Index(s, p)] = p
  BY <1>1 DEF Index
<1> HIDE DEF Index
<1> QED
  BY <1>2 DEF Distinct

(* The first pages of a list.                                              *)
LEMMA Prefix ==
    ASSUME NEW s \in Lists, NEW k \in 0 .. Len(s)
    PROVE  /\ SubSeq(s, 1, k) \in Lists /\ Len(SubSeq(s, 1, k)) = k
           /\ \A i \in 1 .. k : SubSeq(s, 1, k)[i] = s[i]
           /\ Items(SubSeq(s, 1, k)) \subseteq Items(s)
           /\ Distinct(s) => Distinct(SubSeq(s, 1, k))
<1>0. Len(s) \in Nat /\ k \in Int /\ k <= Len(s) /\ s \in Seq(Requests)
  BY ListProperties DEF Lists
<1>1. \A i \in 1 .. k : s[i] \in Requests
  BY <1>0, ListProperties
<1> DEFINE t == SubSeq(s, 1, k)
<1>2. t \in Seq(Requests) /\ Len(t) = k /\ \A i \in 1 .. k : t[i] = s[i]
  BY <1>0, <1>1, SubSeqProperties
<1> HIDE DEF t
<1>3. Items(t) \subseteq Items(s)
  BY <1>0, <1>2 DEF Items
<1>4. Distinct(s) => Distinct(t)
  BY <1>0, <1>2 DEF Distinct
<1> QED
  BY <1>2, <1>3, <1>4 DEF t, Lists

LEMMA BeforeProperties ==
    ASSUME NEW s \in Lists, NEW p \in Items(s)
    PROVE  /\ Before(s, p) \in Lists /\ Len(Before(s, p)) = Index(s, p) - 1
           /\ \A i \in 1 .. Index(s, p) - 1 : Before(s, p)[i] = s[i]
           /\ Items(Before(s, p)) \subseteq Items(s)
           /\ Distinct(s) => Distinct(Before(s, p))
<1>1. Index(s, p) - 1 \in 0 .. Len(s)
  BY IndexProperties, ListProperties
<1> QED
  BY <1>1, Prefix DEF Before

LEMMA ThroughProperties ==
    ASSUME NEW s \in Lists, NEW p \in Items(s)
    PROVE  /\ Through(s, p) \in Lists /\ Len(Through(s, p)) = Index(s, p)
           /\ \A i \in 1 .. Index(s, p) : Through(s, p)[i] = s[i]
           /\ Items(Through(s, p)) \subseteq Items(s)
           /\ Distinct(s) => Distinct(Through(s, p))
           /\ Through(s, p) # <<>>
<1>1. Index(s, p) \in 0 .. Len(s) /\ Index(s, p) >= 1
  BY IndexProperties, ListProperties
<1>2. /\ Through(s, p) \in Lists /\ Len(Through(s, p)) = Index(s, p)
      /\ \A i \in 1 .. Index(s, p) : Through(s, p)[i] = s[i]
      /\ Items(Through(s, p)) \subseteq Items(s)
      /\ Distinct(s) => Distinct(Through(s, p))
  BY <1>1, Prefix DEF Through
<1> QED
  BY <1>1, <1>2, ListProperties

LEMMA AppendPage ==
    ASSUME NEW s \in Lists, NEW p \in Requests
    PROVE  /\ Append(s, p) \in Lists /\ Len(Append(s, p)) = Len(s) + 1
           /\ \A i \in 1 .. Len(s) : Append(s, p)[i] = s[i]
           /\ Append(s, p)[Len(s) + 1] = p
           /\ Items(Append(s, p)) = Items(s) \cup {p}
           /\ Distinct(s) /\ p \notin Items(s) => Distinct(Append(s, p))
           /\ Append(s, p) # <<>>
<1>0. Len(s) \in Nat
  BY ListProperties
<1> DEFINE t == Append(s, p)
<1>1. /\ t \in Seq(Requests) /\ Len(t) = Len(s) + 1
      /\ \A i \in 1 .. Len(s) : t[i] = s[i]
      /\ t[Len(s) + 1] = p
  BY AppendProperties DEF Lists
<1> HIDE DEF t
<1>2. Items(t) = Items(s) \cup {p}
  BY <1>0, <1>1 DEF Items
<1>3. ASSUME Distinct(s), p \notin Items(s) PROVE Distinct(t)
  BY <1>0, <1>1, <1>3 DEF Distinct, Items
<1>4. t # <<>>
  BY <1>0, <1>1
<1> QED
  BY <1>1, <1>2, <1>3, <1>4 DEF t, Lists

-----------------------------------------------------------------------------
(* PageStore.get moves a page to the end of the store.                     *)
LEMMA GetPageProperties ==
    ASSUME NEW s \in Lists, NEW p \in Items(s)
    PROVE  /\ GetPage(s, p) \in Lists /\ Len(GetPage(s, p)) = Len(s)
           /\ Items(GetPage(s, p)) = Items(s)
           /\ Distinct(s) => Distinct(GetPage(s, p))
<1> DEFINE k == Index(s, p)
           n == Len(s)
           a == SubSeq(s, 1, k - 1)
           b == SubSeq(s, k + 1, n)
           t == Append(a \o b, p)
<1>0. n \in Nat /\ k \in 1 .. n /\ s[k] = p /\ p \in Requests
  BY ListProperties, IndexProperties
<1>1. t = GetPage(s, p)
  BY DEF GetPage, Before
<1> HIDE DEF k
<1>2. /\ a \in Seq(Requests) /\ Len(a) = k - 1
      /\ \A i \in 1 .. k - 1 : a[i] = s[i]
  <2>1. k - 1 \in 0 .. n
    BY <1>0
  <2> QED
    BY <2>1, Prefix DEF Lists
<1>3. /\ b \in Seq(Requests) /\ Len(b) = n - k
      /\ \A i \in 1 .. n - k : b[i] = s[k + i]
  <2>1. \A i \in k + 1 .. n : s[i] \in Requests
    BY <1>0, ListProperties
  <2>2. /\ b \in Seq(Requests)
        /\ Len(b) = IF k + 1 <= n THEN n - (k + 1) + 1 ELSE 0
        /\ \A i \in 1 .. n - (k + 1) + 1 : b[i] = s[(k + 1) + i - 1]
    BY <1>0, <2>1, SubSeqProperties DEF Lists
  <2> HIDE DEF b
  <2> QED
    BY <1>0, <2>2
<1> HIDE DEF n, a, b
<1>4. /\ a \o b \in Seq(Requests) /\ Len(a \o b) = n - 1
      /\ \A i \in 1 .. n - 1 : (a \o b)[i] = IF i <= k - 1 THEN a[i] ELSE b[i - (k - 1)]
  <2>1. /\ a \o b \in Seq(Requests) /\ Len(a \o b) = Len(a) + Len(b)
        /\ \A i \in 1 .. Len(a) + Len(b) :
              (a \o b)[i] = IF i <= Len(a) THEN a[i] ELSE b[i - Len(a)]
    BY <1>2, <1>3, ConcatProperties
  <2> QED
    BY <1>0, <1>2, <1>3, <2>1
<1>5. \A i \in 1 .. n - 1 : (a \o b)[i] = IF i < k THEN s[i] ELSE s[i + 1]
  <2> SUFFICES ASSUME NEW i \in 1 .. n - 1
               PROVE  (a \o b)[i] = IF i < k THEN s[i] ELSE s[i + 1]
    OBVIOUS
  <2>1. CASE i < k
    BY <1>0, <1>2, <1>4, <2>1
  <2>2. CASE ~(i < k)
    <3> DEFINE j == i - (k - 1)
    <3>1. j \in 1 .. n - k /\ k + j = i + 1 /\ ~(i <= k - 1)
      BY <1>0, <2>2
    <3>2. (a \o b)[i] = b[j]
      BY <1>4, <3>1
    <3> HIDE DEF j
    <3> QED
      BY <1>0, <1>3, <2>2, <3>1, <3>2
  <2> QED
    BY <2>1, <2>2
<1> DEFINE ab == a \o b
<1>6. /\ ab \in Lists /\ Len(ab) = n - 1
      /\ \A i \in 1 .. n - 1 : ab[i] = IF i < k THEN s[i] ELSE s[i + 1]
      /\ t = Append(ab, p)
  BY <1>4, <1>5 DEF Lists
<1> HIDE DEF ab, t
<1>7. n = Len(s)
  BY DEF n
<1>8. Items(ab) \cup {p} = Items(s)
  <2>1. Items(ab) \subseteq Items(s)
    BY <1>0, <1>6, <1>7 DEF Items
  <2>2. ASSUME NEW q \in Items(s), q # p PROVE q \in Items(ab)
    <3>1. PICK j \in 1 .. n : s[j] = q
      BY <1>7 DEF Items
    <3>2. CASE j < k
      <4>1. j \in 1 .. n - 1 /\ ab[j] = q
        BY <1>0, <1>6, <3>1, <3>2
      <4> QED
        BY <1>6, <4>1 DEF Items
    <3>3. CASE j > k
      <4> DEFINE i == j - 1
      <4>1. i \in 1 .. n - 1 /\ ~(i < k) /\ i + 1 = j
        BY <1>0, <3>3
      <4> HIDE DEF i
      <4> QED
        BY <1>6, <3>1, <4>1 DEF Items
    <3> QED
      BY <1>0, <2>2, <3>1, <3>2, <3>3
  <2> QED
    BY <2>1, <2>2
<1>9. ASSUME Distinct(s) PROVE Distinct(ab) /\ p \notin Items(ab)
  <2>1. \A i, j \in 1 .. n : s[i] = s[j] => i = j
    BY <1>7, <1>9 DEF Distinct
  <2>2. ASSUME NEW i \in 1 .. n - 1, NEW j \in 1 .. n - 1, ab[i] = ab[j] PROVE i = j
    BY <1>0, <1>6, <2>1, <2>2
  <2>3. ASSUME NEW i \in 1 .. n - 1 PROVE ab[i] # p
    BY <1>0, <1>6, <2>1
  <2> QED
    BY <1>6, <2>2, <2>3 DEF Distinct, Items
<1>10. /\ t \in Lists /\ Len(t) = (n - 1) + 1 /\ Items(t) = Items(ab) \cup {p}
       /\ Distinct(ab) /\ p \notin Items(ab) => Distinct(t)
  BY <1>0, <1>6, AppendPage
<1> QED
  BY <1>0, <1>1, <1>7, <1>8, <1>9, <1>10

LEMMA Smallest ==
    ASSUME NEW T \in SUBSET Nat, T # {}
    PROVE  \E n \in T : \A m \in T : n <= m
<1> DEFINE Upto == {0 .. n : n \in T}
           Smaller == StrictSubsetOrdering(Nat)
<1>1. PICK n \in T : TRUE
  OBVIOUS
<1>2. \A m \in Nat : 0 .. m \in FiniteSubsetsOf(Nat)
  BY FS_Interval DEF FiniteSubsetsOf
<1>3. Upto \subseteq FiniteSubsetsOf(Nat) /\ Upto # {}
  BY <1>2
<1>4. IsWellFoundedOn(Smaller, FiniteSubsetsOf(Nat))
  BY FS_StrictSubsetOrderingWellFounded
<1>5. PICK u \in Upto : \A v \in Upto : ~ (<<v, u>> \in Smaller)
  <2> HIDE DEF Upto, Smaller
  <2> QED
    BY <1>3, <1>4, WFMin, Zenon
<1>6. PICK k \in T : u = 0 .. k
  OBVIOUS
<1>7. ASSUME NEW m \in T, m < k
      PROVE  FALSE
  <2>1. 0 .. m \in Upto /\ 0 .. m \subseteq 0 .. k /\ 0 .. m # 0 .. k
    BY <1>7
  <2>2. <<0 .. m, 0 .. k>> \in Smaller
    <3> DEFINE a == 0 .. m
               b == 0 .. k
    <3>1. a \in SUBSET Nat /\ b \in SUBSET Nat /\ a \subseteq b /\ a # b
      BY <2>1
    <3> HIDE DEF a, b
    <3>2. <<a, b>> \in StrictSubsetOrdering(Nat)
      BY <3>1 DEF StrictSubsetOrdering
    <3> QED
      BY <3>2 DEF a, b
  <2> HIDE DEF Smaller
  <2> QED
    BY <1>5, <1>6, <2>1, <2>2
<1> QED
  BY <1>7

(* f is the store after each of the first k pages.                         *)
GetsPages(f, store, pages, k) ==
    f = [n \in 0 .. k |-> IF n = 0 THEN store ELSE GetPage(f[n - 1], pages[n])]

LEMMA GetsPagesExists ==
    ASSUME NEW store, NEW pages, NEW n \in Nat
    PROVE  \E f : GetsPages(f, store, pages, n)
<1> DEFINE T == {k \in Nat : ~ \E f : GetsPages(f, store, pages, k)}
<1> SUFFICES ASSUME T # {} PROVE FALSE
  OBVIOUS
<1>1. PICK k \in T : \A m \in T : k <= m
  BY Smallest
<1>2. CASE k = 0
  <2> DEFINE f == [i \in 0 .. 0 |-> store]
  <2>1. GetsPages(f, store, pages, 0)
    BY DEF GetsPages
  <2> QED
    BY <1>1, <1>2, <2>1
<1>3. CASE k # 0
  <2>1. k - 1 \in Nat /\ k - 1 \notin T
    BY <1>1, <1>3
  <2>2. PICK f : GetsPages(f, store, pages, k - 1)
    BY <2>1
  <2>3. /\ \A i \in 0 .. k - 1 : f[i] = IF i = 0 THEN store ELSE GetPage(f[i - 1], pages[i])
    BY <2>2 DEF GetsPages
  <2> DEFINE last == GetPage(f[k - 1], pages[k])
             g == [i \in 0 .. k |-> IF i = k THEN last ELSE f[i]]
  <2>4. \A i \in 0 .. k : g[i] = IF i = 0 THEN store ELSE GetPage(g[i - 1], pages[i])
    <3> SUFFICES ASSUME NEW i \in 0 .. k
                 PROVE  g[i] = IF i = 0 THEN store ELSE GetPage(g[i - 1], pages[i])
      OBVIOUS
    <3>1. CASE i = k
      <4>1. g[i] = last /\ g[i - 1] = f[k - 1]
        BY <1>3, <2>1, <3>1
      <4> QED
        BY <1>3, <3>1, <4>1
    <3>2. CASE i # k
      <4>1. i \in 0 .. k - 1 /\ g[i] = f[i]
        BY <2>1, <3>2
      <4>2. i # 0 => i - 1 \in 0 .. k /\ g[i - 1] = f[i - 1]
        BY <2>1, <4>1
      <4> HIDE DEF g
      <4> QED
        BY <2>3, <4>1, <4>2
    <3> QED
      BY <3>1, <3>2
  <2>5. g = [i \in 0 .. k |-> g[i]]
    OBVIOUS
  <2> HIDE DEF g
  <2>6. GetsPages(g, store, pages, k)
    BY <2>4, <2>5 DEF GetsPages
  <2> QED
    BY <1>1, <2>6
<1> QED
  BY <1>2, <1>3

(* JsonPageManager.show takes pages that are all in the store out and puts *)
(* them back: it stays as long as it is and has the same pages.            *)
LEMMA GetAllProperties ==
    ASSUME NEW s \in Lists, NEW pages \in Lists, Items(pages) \subseteq Items(s)
    PROVE  /\ GetAll(s, pages) \in Lists /\ Len(GetAll(s, pages)) = Len(s)
           /\ Items(GetAll(s, pages)) = Items(s)
           /\ Distinct(s) => Distinct(GetAll(s, pages))
<1> DEFINE k == Len(pages)
           after[n \in 0 .. k] == IF n = 0 THEN s ELSE GetPage(after[n - 1], pages[n])
           Good(t) == /\ t \in Lists /\ Len(t) = Len(s) /\ Items(t) = Items(s)
                      /\ Distinct(s) => Distinct(t)
           T == {n \in Nat : n <= k /\ ~Good(after[n])}
<1>0. k \in Nat /\ \A i \in 1 .. k : pages[i] \in Items(s)
  BY ListProperties
<1>1. after = CHOOSE f : f = [n \in 0 .. k |->
                IF n = 0 THEN s ELSE GetPage(f[n - 1], pages[n])]
  BY DEF after
<1>2. GetAll(s, pages) = after[k]
  BY DEF GetAll, after
<1> HIDE DEF after, k
<1>3. GetsPages(after, s, pages, k)
  <2>1. \E f : GetsPages(f, s, pages, k)
    BY <1>0, GetsPagesExists
  <2> QED
    BY <1>1, <2>1 DEF GetsPages
<1>4. \A n \in 0 .. k : after[n] = IF n = 0 THEN s ELSE GetPage(after[n - 1], pages[n])
  BY <1>3 DEF GetsPages
<1>5. ASSUME T # {} PROVE FALSE
  <2>1. PICK n \in T : \A m \in T : n <= m
    BY <1>5, Smallest
  <2>2. n \in 0 .. k /\ ~Good(after[n])
    BY <1>0, <2>1
  <2>3. n # 0
    BY <1>4, <2>2
  <2> DEFINE m == n - 1
  <2>4. m \in Nat /\ m <= k /\ m \notin T /\ n \in 1 .. k
    BY <1>0, <2>1, <2>2, <2>3
  <2>5. after[n] = GetPage(after[m], pages[n])
    BY <1>4, <2>2, <2>3
  <2> HIDE DEF m
  <2>6. Good(after[m])
    BY <2>4
  <2>7. pages[n] \in Items(after[m])
    BY <1>0, <2>4, <2>6
  <2>8. Good(after[n])
    BY <2>5, <2>6, <2>7, GetPageProperties
  <2> QED
    BY <2>2, <2>8
<1>6. Good(after[k])
  BY <1>0, <1>5
<1> QED
  BY <1>2, <1>6

-----------------------------------------------------------------------------
(* The shape of the state: TypeOK, but lists of pages may have pages twice *)
(* and a store may be of any length.                                       *)
Stages == {"unsent", "sent", "queued", "joining", "answered", "closed"}

Phases == {"none", "started", "running", "acted", "done", "failed"}

OutputShape ==
    [op : {"none", "wait", "showPage", "showPages", "hidePage"},
     pages : Lists, master : Requests \cup {None}, session : Sessions \cup {None}]

RequestShape ==
    [stage : Stages, kind : Kinds, page : Requests \cup {None}, pages : Lists,
     session : Sessions \cup {None}, retry : BOOLEAN, deaf : BOOLEAN,
     at : Sessions \cup {None}, origin : Sessions \cup {None}, answer : OutputShape]

ServerShape ==
    [created : BOOLEAN, thread : Requests \cup {None}, holder : Requests \cup {None},
     output : OutputShape, store : Lists, visible : Lists,
     components : SUBSET (Requests \cup {Navigation})]

BrowserShape ==
    /\ session \in Sessions \cup {None}
    /\ shown \in Lists
    /\ history \in Seq(Lists)
    /\ position \in 1 .. Len(history)
    /\ blocked \in BOOLEAN /\ loading \in BOOLEAN

(* An output that names the page it shows or hides.                        *)
NamesPage(out) == out.op \in {"showPage", "hidePage"} => out.pages # <<>>

Shape ==
    /\ BrowserShape
    /\ request \in [Requests -> RequestShape]
    /\ alive \in SUBSET Sessions
    /\ server \in [Sessions -> ServerShape]
    /\ worker \in [Sessions -> [Requests -> Phases]]
    /\ orderly \in BOOLEAN

OutputsNamePage ==
    /\ \A s \in Sessions : NamesPage(server[s].output) /\ server[s].output.op # "wait"
    /\ \A r \in Requests : NamesPage(request[r].answer)

AtStage(r) == request[r].stage \in {"queued", "joining", "answered"}

AtIsCreated ==
    \A r \in Requests : AtStage(r) => request[r].at \in Sessions /\ server[request[r].at].created

ShapeInv == Shape /\ OutputsNamePage /\ AtIsCreated

LEMMA NothingShape ==
    Nothing \in OutputShape /\ NamesPage(Nothing) /\ Nothing.op = "none"
  BY NoPages DEF Nothing, OutputShape, NamesPage, None

LEMMA ShowsShape ==
    ASSUME NEW op \in {"showPage", "showPages", "hidePage"}, NEW pages \in Lists,
           NEW master \in Requests \cup {None}
    PROVE  /\ Shows(op, pages, master) \in OutputShape
           /\ Shows(op, pages, master).op = op
           /\ Shows(op, pages, master).pages = pages
           /\ Shows(op, pages, master).master = master
           /\ Shows(op, pages, master).session = None
  BY NoPages DEF Shows, Nothing, OutputShape, None

LEMMA PutProperties ==
    ASSUME NEW s \in Lists, NEW p \in Requests
    PROVE  /\ Put(s, p) \in Lists
           /\ Items(Put(s, p)) \subseteq Items(s) \cup {p}
           /\ Distinct(s) /\ p \notin Items(s) => Distinct(Put(s, p))
           /\ Len(s) <= HistoryLength => Len(Put(s, p)) <= HistoryLength
<1>0. Len(s) \in Nat /\ HistoryLength \in Nat \ {0}
  BY ListProperties, JsonSessionAssumption
<1>1. CASE Len(s) = HistoryLength
  <2> DEFINE t == Tail(s)
  <2>1. /\ t \in Seq(Requests) /\ Len(t) = Len(s) - 1
        /\ \A i \in 1 .. Len(t) : t[i] = s[i + 1]
    BY <1>0, <1>1, HeadTailProperties, EmptySeq DEF Lists
  <2> HIDE DEF t
  <2>2. Items(t) \subseteq Items(s)
    BY <1>0, <2>1 DEF Items
  <2>3. Distinct(s) => Distinct(t)
    BY <1>0, <2>1 DEF Distinct
  <2>4. t \in Lists /\ Len(t) + 1 = HistoryLength
    BY <1>0, <1>1, <2>1 DEF Lists
  <2>5. Put(s, p) = Append(t, p)
    BY <1>1 DEF Put, t
  <2> QED
    BY <2>2, <2>3, <2>4, <2>5, AppendPage
<1>2. CASE Len(s) # HistoryLength
  <2>1. Put(s, p) = Append(s, p)
    BY <1>2 DEF Put
  <2> QED
    BY <1>0, <1>2, <2>1, AppendPage
<1> QED
  BY <1>1, <1>2

(* What handle_ does to the lists of the session, by kind of request.      *)
OnePageShown(v, e, p) ==
    /\ e.visible = <<p>> /\ e.components = {Navigation} /\ e.store = Put(v.store, p)
    /\ e.output = Shows("showPage", <<p>>, None)

DetailShown(v, e, master, p) ==
    /\ master \in Items(v.visible)
    /\ e.visible = Append(Through(v.visible, master), p)
    /\ e.components = v.components /\ e.store = Put(v.store, p)
    /\ e.output = Shows("showPage", <<p>>, master)

DetailHidden(v, e, p) ==
    /\ p \in Items(v.visible) /\ Index(v.visible, p) < Len(v.visible)
    /\ e.visible = Through(v.visible, p)
    /\ e.components = v.components /\ e.store = v.store
    /\ e.output = Shows("hidePage", <<v.visible[Index(v.visible, p) + 1]>>, None)

PagesShown(v, e, pages) ==
    /\ pages # <<>> /\ Items(pages) \subseteq Items(v.store)
    /\ e.visible = pages /\ e.store = GetAll(v.store, pages)
    /\ e.output = Shows("showPages", pages, None)

ExpiredShown(v, e, p) ==
    /\ e.visible = v.visible
    /\ e.components = v.components /\ e.store = Put(v.store, p)
    /\ e.output = Shows("showPages", <<p>>, None)

PagesClosed(v, e, p) ==
    /\ p \in Items(v.visible)
    /\ e.visible = Before(v.visible, p)
    /\ e.components = v.components /\ e.store = v.store /\ e.output = v.output

KindDoes(k, v, e, r, p, pages) ==
    \/ k \in {"init", "show"} /\ OnePageShown(v, e, r)
    \/ k = "detail" /\ DetailShown(v, e, p, r)
    \/ k = "hide" /\ DetailHidden(v, e, p)
    \/ k \in {"init", "back"} /\ PagesShown(v, e, pages)
    \/ k = "back" /\ ~Valid(v.store, pages) /\ ExpiredShown(v, e, r)
    \/ k = "close" /\ PagesClosed(v, e, p)
    \/ k \in {"detail", "hide", "quiet"} /\ e = v

(* What is left of it when the application throws in between.              *)
HalfDone(v, e, r, p, pages) ==
    \/ e.output = v.output /\ e.store = v.store /\ e.visible = v.visible
    \/ /\ e.output = v.output /\ e.store = Put(v.store, r)
       /\ \/ e.visible = <<>>
          \/ p \in Items(v.visible) /\ e.visible = Through(v.visible, p)
    \/ OnePageShown(v, e, r)
    \/ /\ Items(pages) \subseteq Items(v.store) /\ e.output = v.output
       /\ \E n \in 1 .. Len(pages) : /\ e.visible = SubSeq(pages, 1, n)
                                     /\ e.store = GetAll(v.store, SubSeq(pages, 1, n))
    \/ PagesShown(v, e, pages)

LEMMA EffectDoes ==
    ASSUME Shape, NEW s \in Sessions, NEW r \in Requests, ~Refused(s, r)
    PROVE  /\ KindDoes(Kind(s, r), server[s], Effect(s, r), r, request[r].page, request[r].pages)
           /\ Effect(s, r) \in ServerShape
           /\ Effect(s, r).created = server[s].created
           /\ Effect(s, r).thread = server[s].thread
           /\ Effect(s, r).holder = server[s].holder
<1> DEFINE v == server[s]
           p == request[r].page
           pages == request[r].pages
           k == Kind(s, r)
           e == Effect(s, r)
           Kept == e.created = v.created /\ e.thread = v.thread /\ e.holder = v.holder
           Goal == KindDoes(k, v, e, r, p, pages) /\ e \in ServerShape /\ Kept
<1>1. /\ v \in ServerShape /\ v.visible \in Lists /\ v.store \in Lists
      /\ p \in Requests \cup {None} /\ pages \in Lists /\ k \in Kinds
  BY DEF Shape, RequestShape, ServerShape, Kind, Kinds
<1>2. /\ k = "detail" => p \in Items(v.visible)
      /\ k = "close" => p \in Items(v.visible)
  BY DEF Refused, Kind
<1>3. /\ k = "init" => e = IF Valid(v.store, pages) THEN ShowAll(WithoutNavigation(v), pages)
                        ELSE ShowMain(v, r)
      /\ k = "show" => e = ShowMain(v, r)
      /\ k = "detail" => e = ShowDetail(v, p, r)
      /\ k = "hide" => e = HideDetail(v, p)
      /\ k = "close" => e = [v EXCEPT !.visible = Before(@, p)]
      /\ k = "back" => e = IF Valid(v.store, pages) THEN ShowAll(v, pages) ELSE ShowExpired(v, r)
      /\ k = "quiet" => e = v
  BY DEF Effect
<1> HIDE DEF v, p, pages, k, e
<1>4. ASSUME e = ShowMain(v, r)
      PROVE  OnePageShown(v, e, r) /\ e \in ServerShape /\ Kept
  <2>1. /\ <<r>> \in Lists /\ Put(v.store, r) \in Lists
        /\ Shows("showPage", <<r>>, None) \in OutputShape
        /\ {Navigation} \in SUBSET (Requests \cup {Navigation})
    BY <1>1, OnePage, PutProperties, ShowsShape
  <2> QED
    BY <1>1, <1>4, <2>1 DEF ShowMain, CutMain, OnePageShown, ServerShape
<1>5. ASSUME e = ShowDetail(v, p, r), p \in Items(v.visible)
      PROVE  DetailShown(v, e, p, r) /\ e \in ServerShape /\ Kept
  <2>1. p \in Requests
    BY <1>1, <1>5, ListProperties
  <2>2. /\ Put(v.store, r) \in Lists /\ Append(Through(v.visible, p), r) \in Lists
        /\ Shows("showPage", <<r>>, p) \in OutputShape
    BY <1>1, <1>5, <2>1, OnePage, PutProperties, ThroughProperties, AppendPage, ShowsShape
  <2> QED
    BY <1>1, <1>5, <2>2 DEF ShowDetail, CutDetail, DetailShown, ServerShape
<1>6. ASSUME e = HideDetail(v, p)
      PROVE  (DetailHidden(v, e, p) \/ e = v) /\ e \in ServerShape /\ Kept
  <2>1. CASE p \in Items(v.visible) /\ Index(v.visible, p) < Len(v.visible)
    <3> DEFINE q == v.visible[Index(v.visible, p) + 1]
    <3>0. Index(v.visible, p) + 1 \in 1 .. Len(v.visible)
      BY <1>1, <2>1, ListProperties, IndexProperties
    <3>1. q \in Requests /\ Through(v.visible, p) \in Lists
      BY <1>1, <2>1, <3>0, ListProperties, ThroughProperties
    <3>2. Shows("hidePage", <<q>>, None) \in OutputShape
      BY <3>1, OnePage, ShowsShape
    <3> QED
      BY <1>1, <1>6, <2>1, <3>1, <3>2 DEF HideDetail, HasDetail, DetailHidden, ServerShape
  <2>2. CASE ~(p \in Items(v.visible) /\ Index(v.visible, p) < Len(v.visible))
    BY <1>1, <1>6, <2>2 DEF HideDetail, HasDetail
  <2> QED
    BY <2>1, <2>2
<1>7. ASSUME e = ShowAll(v, pages) \/ e = ShowAll(WithoutNavigation(v), pages),
             Valid(v.store, pages)
      PROVE  PagesShown(v, e, pages) /\ e \in ServerShape /\ Kept
  <2>1. pages # <<>> /\ Items(pages) \subseteq Items(v.store)
    BY <1>7 DEF Valid
  <2>2. GetAll(v.store, pages) \in Lists /\ Shows("showPages", pages, None) \in OutputShape
    BY <1>1, <2>1, GetAllProperties, ShowsShape
  <2> QED
    BY <1>1, <1>7, <2>1, <2>2
       DEF ShowAll, CutAll, WithoutNavigation, PagesShown, ServerShape
<1>8. ASSUME e = ShowExpired(v, r)
      PROVE  ExpiredShown(v, e, r) /\ e \in ServerShape /\ Kept
  <2>1. Put(v.store, r) \in Lists /\ Shows("showPages", <<r>>, None) \in OutputShape
    BY <1>1, OnePage, PutProperties, ShowsShape
  <2> QED
    BY <1>1, <1>8, <2>1 DEF ShowExpired, ExpiredShown, ServerShape
<1>9. ASSUME e = [v EXCEPT !.visible = Before(@, p)], p \in Items(v.visible)
      PROVE  PagesClosed(v, e, p) /\ e \in ServerShape /\ Kept
  <2>1. Before(v.visible, p) \in Lists
    BY <1>1, <1>9, BeforeProperties
  <2> QED
    BY <1>1, <1>9, <2>1 DEF PagesClosed, ServerShape
<1>10. ASSUME e = v PROVE e \in ServerShape /\ Kept
  BY <1>1, <1>10
<1> HIDE DEF Kept
<1>11. Goal
  BY <1>1, <1>2, <1>3, <1>4, <1>5, <1>6, <1>7, <1>8, <1>9, <1>10 DEF KindDoes, Kinds
<1> QED
  BY <1>11 DEF Kept, v, p, pages, k, e

LEMMA InterruptedDoes ==
    ASSUME Shape, NEW s \in Sessions, NEW r \in Requests, ~Refused(s, r),
           NEW e \in Interrupted(s, r)
    PROVE  /\ HalfDone(server[s], e, r, request[r].page, request[r].pages)
           /\ e \in ServerShape
           /\ e.created = server[s].created /\ e.thread = server[s].thread
<1> DEFINE v == server[s]
           w == WithoutNavigation(server[s])
           p == request[r].page
           pages == request[r].pages
           k == Kind(s, r)
           Kept == e.created = v.created /\ e.thread = v.thread
           Goal == HalfDone(v, e, r, p, pages) /\ e \in ServerShape /\ Kept
           CutPages(u) ==
               {CutAll(u, SubSeq(pages, 1, n)) : n \in 1 .. Len(pages)}
               \cup {[ShowAll(u, pages) EXCEPT !.components = @ \ Items(pages)]}
<1>1. /\ v \in ServerShape /\ v.visible \in Lists /\ v.store \in Lists
      /\ p \in Requests \cup {None} /\ pages \in Lists
      /\ v.output \in OutputShape /\ v.components \subseteq Requests \cup {Navigation}
  BY DEF Shape, RequestShape, ServerShape
<1>2. k = "detail" => p \in Items(v.visible)
  BY DEF Refused, Kind
<1>3. \/ e \in {v, w}
      \/ e = CutMain(v, r) \/ e = ShowMain(v, r)
      \/ k = "detail" /\ e = CutDetail(v, p, r)
      \/ Valid(v.store, pages) /\ (e \in CutPages(v) \/ e \in CutPages(w))
  BY DEF Interrupted
<1>4. /\ w.created = v.created /\ w.thread = v.thread /\ w.store = v.store
      /\ w.visible = v.visible /\ w.output = v.output /\ w \in ServerShape
      /\ w.components \subseteq Requests \cup {Navigation}
  BY <1>1 DEF w, WithoutNavigation, ServerShape
<1> SUFFICES Goal
  OBVIOUS
<1> HIDE DEF v, w, p, pages, k
<1>5. CASE e \in {v, w}
  BY <1>1, <1>4, <1>5 DEF HalfDone
<1>6. CASE e = CutMain(v, r) \/ e = ShowMain(v, r)
  <2>1. /\ <<r>> \in Lists /\ <<>> \in Lists /\ Put(v.store, r) \in Lists
        /\ Shows("showPage", <<r>>, None) \in OutputShape
        /\ {Navigation} \in SUBSET (Requests \cup {Navigation})
    BY <1>1, OnePage, NoPages, PutProperties, ShowsShape
  <2>2. CASE e = CutMain(v, r)
    <3>1. e.output = v.output /\ e.store = Put(v.store, r) /\ e.visible = <<>>
      BY <1>1, <2>2 DEF CutMain, ServerShape
    <3>2. e \in ServerShape /\ Kept
      BY <1>1, <2>1, <2>2 DEF CutMain, ServerShape
    <3> QED
      BY <3>1, <3>2 DEF HalfDone
  <2>3. CASE e = ShowMain(v, r)
    <3>1. OnePageShown(v, e, r)
      BY <1>1, <2>3 DEF ShowMain, CutMain, OnePageShown, ServerShape
    <3>2. e \in ServerShape /\ Kept
      BY <1>1, <2>1, <2>3 DEF ShowMain, CutMain, ServerShape
    <3> QED
      BY <3>1, <3>2 DEF HalfDone
  <2> QED
    BY <1>6, <2>2, <2>3
<1>7. CASE k = "detail" /\ e = CutDetail(v, p, r)
  <2>1. Put(v.store, r) \in Lists /\ Through(v.visible, p) \in Lists
    BY <1>1, <1>2, <1>7, PutProperties, ThroughProperties
  <2>2. e.output = v.output /\ e.store = Put(v.store, r) /\ e.visible = Through(v.visible, p)
    BY <1>1, <1>7 DEF CutDetail, ServerShape
  <2>3. e \in ServerShape /\ Kept
    BY <1>1, <1>7, <2>1 DEF CutDetail, ServerShape
  <2> QED
    BY <1>2, <1>7, <2>2, <2>3 DEF HalfDone
<1>8. ASSUME NEW u \in ServerShape, u.store = v.store, u.output = v.output,
             u.created = v.created, u.thread = v.thread,
             Valid(v.store, pages), e \in CutPages(u)
      PROVE  Goal
  <2>1. pages # <<>> /\ Items(pages) \subseteq Items(v.store)
    BY <1>8 DEF Valid
  <2>2. CASE e = [ShowAll(u, pages) EXCEPT !.components = @ \ Items(pages)]
    <3>1. GetAll(v.store, pages) \in Lists /\ Shows("showPages", pages, None) \in OutputShape
      BY <1>1, <2>1, GetAllProperties, ShowsShape
    <3>2. e \in ServerShape /\ Kept
      BY <1>1, <1>8, <2>2, <3>1 DEF ShowAll, CutAll, ServerShape
    <3>3. PagesShown(v, e, pages)
      BY <1>1, <1>8, <2>1, <2>2 DEF ShowAll, CutAll, ServerShape, PagesShown
    <3> QED
      BY <3>2, <3>3 DEF HalfDone
  <2>3. ASSUME NEW n \in 1 .. Len(pages), e = CutAll(u, SubSeq(pages, 1, n))
        PROVE  Goal
    <3> DEFINE x == SubSeq(pages, 1, n)
    <3>1. x \in Lists /\ Items(x) \subseteq Items(pages)
      BY <1>1, Prefix
    <3>2. e = CutAll(u, x)
      BY <2>3
    <3> HIDE DEF x
    <3>3. GetAll(v.store, x) \in Lists
      BY <1>1, <2>1, <3>1, GetAllProperties
    <3>4. e \in ServerShape /\ Kept
      BY <1>1, <1>8, <3>1, <3>2, <3>3 DEF CutAll, ServerShape
    <3>5. e.output = v.output /\ e.visible = x /\ e.store = GetAll(v.store, x)
      BY <1>1, <1>8, <3>2 DEF CutAll, ServerShape
    <3> QED
      BY <2>1, <3>4, <3>5 DEF HalfDone, x
  <2> QED
    BY <1>8, <2>2, <2>3
<1>9. Goal
  <2> HIDE DEF Goal, CutPages
  <2>1. CASE Valid(v.store, pages) /\ (e \in CutPages(v) \/ e \in CutPages(w))
    BY <1>1, <1>4, <1>8, <2>1
  <2> QED
    BY <1>3, <1>5, <1>6, <1>7, <2>1 DEF Goal
<1> QED
  BY <1>9

-----------------------------------------------------------------------------
(* What the steps do, for use in all invariants.                           *)
OthersStay(r) == \A q \in Requests : q # r => request'[q] = request[q]

HistoryComesFrom(pages) ==
    \A i \in 1 .. Len(history') :
        history'[i] = pages \/ \E j \in 1 .. Len(history) : history'[i] = history[j]

LEMMA SendSets ==
    ASSUME Shape, NEW r \in Requests, NEW kind \in Kinds, NEW page \in Requests \cup {None},
           NEW pages \in Lists, Send(r, kind, page, pages)
    PROVE  /\ request' \in [Requests -> RequestShape]
           /\ OthersStay(r)
           /\ request'[r].stage = "sent" /\ request'[r].kind = kind
           /\ request'[r].page = page /\ request'[r].pages = pages
           /\ request'[r].session = session /\ request'[r].retry = FALSE
           /\ request'[r].deaf = FALSE /\ request'[r].at = None
           /\ request'[r].origin = None /\ request'[r].answer = Nothing
<1> DEFINE q == [Unsent EXCEPT !.stage = "sent", !.kind = kind, !.page = page,
                               !.pages = pages, !.session = session]
<1>1. /\ q \in RequestShape
      /\ q.stage = "sent" /\ q.kind = kind /\ q.page = page /\ q.pages = pages
      /\ q.session = session /\ q.retry = FALSE /\ q.deaf = FALSE /\ q.at = None
      /\ q.origin = None /\ q.answer = Nothing
  BY NothingShape, NoPages DEF Shape, BrowserShape, Unsent, RequestShape, Stages, Kinds, None
<1>2. request' = [request EXCEPT ![r] = q]
  BY DEF Send
<1> HIDE DEF q
<1> QED
  BY <1>1, <1>2 DEF Shape, OthersStay

LEMMA HistoryPages ==
    ASSUME BrowserShape
    PROVE  /\ Len(history) \in Nat /\ position \in Nat /\ history[position] \in Lists
           /\ \A i \in 1 .. Len(history) : history[i] \in Lists
<1>1. Len(history) \in Nat /\ \A i \in 1 .. Len(history) : history[i] \in Lists
  BY LenProperties, ElementOfSeq DEF BrowserShape
<1> QED
  BY <1>1 DEF BrowserShape

LEMMA PushStateShape ==
    ASSUME BrowserShape, NEW pages \in Lists, PushState(pages)
    PROVE  /\ history' \in Seq(Lists) /\ position' \in 1 .. Len(history')
           /\ HistoryComesFrom(pages)
<1> DEFINE n == Len(history)
<1>1. /\ n \in Nat /\ position \in 1 .. n /\ history \in Seq(Lists)
      /\ \A i \in 1 .. n : history[i] \in Lists
  BY HistoryPages DEF BrowserShape
<1>2. CASE shown = <<>>
  <2>1. history' = [history EXCEPT ![position] = pages] /\ position' = position
    BY <1>2 DEF PushState
  <2>2. /\ history' \in Seq(Lists) /\ Len(history') = n
        /\ \A i \in 1 .. n : history'[i] = IF i = position THEN pages ELSE history[i]
    BY <1>1, <2>1, ExceptSeq
  <2> QED
    BY <1>1, <2>1, <2>2 DEF HistoryComesFrom
<1>3. CASE shown # <<>>
  <2> DEFINE past == SubSeq(history, 1, position)
  <2>1. history' = Append(past, pages) /\ position' = position + 1
    BY <1>3 DEF PushState
  <2>2. /\ past \in Seq(Lists) /\ Len(past) = position
        /\ \A i \in 1 .. position : past[i] = history[i]
    BY <1>1, SubSeqProperties
  <2> HIDE DEF past
  <2>3. /\ history' \in Seq(Lists) /\ Len(history') = position + 1
        /\ \A i \in 1 .. position : history'[i] = past[i]
        /\ history'[position + 1] = pages
    BY <2>1, <2>2, AppendProperties
  <2>4. \A i \in 1 .. position + 1 : i = position + 1 \/ i \in 1 .. position
    BY <1>1
  <2>5. \A i \in 1 .. position : i \in 1 .. n
    BY <1>1
  <2> QED
    BY <1>1, <2>1, <2>2, <2>3, <2>4, <2>5 DEF HistoryComesFrom
<1> QED
  BY <1>2, <1>3

(* The container after the browser has received out.                       *)
Applied(out) ==
    CASE out.op = "showPage" -> WithPage(out.master, out.pages[1])
      [] out.op = "showPages" -> out.pages
      [] out.op = "hidePage" ->
           IF out.pages[1] \in Items(shown) THEN Before(shown, out.pages[1]) ELSE <<>>
      [] OTHER -> shown

LEMMA AppliedIs ==
    ASSUME Shape, NEW out \in OutputShape, NamesPage(out)
    PROVE  /\ out.op = "showPage" =>
                 Applied(out) = WithPage(out.master, out.pages[1]) /\ out.pages[1] \in Requests
           /\ out.op = "showPages" => Applied(out) = out.pages
           /\ out.op = "hidePage" =>
                 /\ out.pages[1] \in Requests
                 /\ Applied(out) = IF out.pages[1] \in Items(shown)
                                   THEN Before(shown, out.pages[1]) ELSE <<>>
           /\ out.op \in {"none", "wait"} => Applied(out) = shown
           /\ Applied(out) \in Lists
<1>1. /\ out.pages \in Lists /\ out.op \in {"none", "wait", "showPage", "showPages", "hidePage"}
      /\ shown \in Lists
  BY DEF OutputShape, Shape, BrowserShape
<1>2. out.op \in {"showPage", "hidePage"} => out.pages[1] \in Requests
  BY <1>1, ListProperties DEF NamesPage
<1> DEFINE p == out.pages[1]
<1>3. CASE out.op = "showPage"
  <2>1. Applied(out) = WithPage(out.master, p)
    BY <1>3 DEF Applied
  <2>2. p \in Requests
    BY <1>2, <1>3
  <2> HIDE DEF p
  <2>3. CASE out.master \in Items(shown)
    <3>1. Through(shown, out.master) \in Lists
      BY <1>1, <2>3, ThroughProperties
    <3>2. WithPage(out.master, p) \in Lists
      BY <2>2, <2>3, <3>1, AppendPage DEF WithPage
    <3> QED
      BY <1>3, <2>1, <2>2, <3>2 DEF p
  <2>4. CASE out.master \notin Items(shown)
    <3>1. WithPage(out.master, p) \in Lists
      BY <2>2, <2>4, OnePage DEF WithPage
    <3> QED
      BY <1>3, <2>1, <2>2, <3>1 DEF p
  <2> QED
    BY <2>3, <2>4
<1>4. CASE out.op = "showPages"
  BY <1>1, <1>4 DEF Applied
<1>5. CASE out.op = "hidePage"
  <2>1. Applied(out) = IF p \in Items(shown) THEN Before(shown, p) ELSE <<>>
    BY <1>5 DEF Applied
  <2>2. p \in Requests
    BY <1>2, <1>5
  <2> HIDE DEF p
  <2>3. (IF p \in Items(shown) THEN Before(shown, p) ELSE <<>>) \in Lists
    BY <1>1, BeforeProperties, NoPages
  <2> QED
    BY <1>5, <2>1, <2>2, <2>3 DEF p
<1>6. CASE out.op \in {"none", "wait"}
  BY <1>1, <1>6 DEF Applied
<1> QED
  BY <1>1, <1>3, <1>4, <1>5, <1>6

(* A step that sends request r.                                            *)
Sends(r, kind, page, pages) ==
    /\ Send(r, kind, page, pages) /\ Fresh(r) /\ request[r].stage = "unsent"
    /\ kind \in Kinds /\ page \in Requests \cup {None} /\ pages \in Lists
    /\ IF kind = "init" THEN loading ELSE MaySend
    /\ loading' = FALSE
    /\ blocked' = IF kind = "quiet" THEN blocked ELSE TRUE
    /\ kind # "close" => shown' = shown /\ history' = history
    /\ kind = "close" => /\ \E i \in 2 .. Len(shown) : page = shown[i]
                         /\ shown' = Before(shown, page)
                         /\ HistoryComesFrom(shown')
    /\ kind \in {"detail", "hide"} => page \in Items(shown) /\ request[page].kind # "back"
    /\ kind \notin {"detail", "hide", "close"} => page = None
    /\ kind = "back" => pages # <<>>
    /\ pages = <<>> \/ \E j \in 1 .. Len(history) : pages = history[j]

Refuses == UNCHANGED <<request, shown, history, blocked, loading, orderly>>

LEMMA BrowseDoes ==
    ASSUME Shape, NEW r \in Requests, Browse(r)
    PROVE  /\ BrowserShape'
           /\ UNCHANGED <<session, alive, server, worker>>
           /\ Refuses \/ \E kind, page, pages : Sends(r, kind, page, pages)
<1>0. /\ BrowserShape /\ shown \in Lists
      /\ Len(history) \in Nat /\ position \in 1 .. Len(history)
      /\ \A i \in 1 .. Len(history) : history[i] \in Lists
      /\ history \in Seq(Lists)
  BY HistoryPages DEF Shape, BrowserShape
<1>1. CASE SendInit(r)
  <2>1. Sends(r, "init", None, history[position])
    BY <1>0, <1>1 DEF SendInit, Sends, Fresh, Kinds
  <2>2. BrowserShape' /\ UNCHANGED <<session, alive, server, worker>>
    BY <1>0, <1>1 DEF SendInit, BrowserShape
  <2> QED
    BY <2>1, <2>2
<1>2. CASE SendAction(r)
  <2>1. BrowserShape' /\ UNCHANGED <<session, alive, server, worker>>
    BY <1>0, <1>2 DEF SendAction, BrowserShape
  <2>2. /\ MaySend /\ Fresh(r) /\ request[r].stage = "unsent"
        /\ loading' = FALSE /\ blocked' = TRUE /\ shown' = shown /\ history' = history
    BY <1>2 DEF SendAction, MaySend, Fresh
  <2>3. CASE Send(r, "show", None, <<>>)
    <3>1. Sends(r, "show", None, <<>>)
      BY <2>2, <2>3, NoPages DEF Sends, Kinds
    <3> QED
      BY <2>1, <3>1
  <2>4. ASSUME NEW p \in Items(shown), NEW k \in {"detail", "hide"},
               request[p].kind # "back", Send(r, k, p, <<>>)
        PROVE  \E kind, page, pages : Sends(r, kind, page, pages)
    <3>1. p \in Requests
      BY <1>0, ListProperties
    <3>2. Sends(r, k, p, <<>>)
      BY <2>2, <2>4, <3>1, NoPages DEF Sends, Kinds
    <3> QED
      BY <3>2
  <2>5. CASE \E p \in Items(shown) :
                /\ request[p].kind # "back"
                /\ Send(r, "detail", p, <<>>) \/ Send(r, "hide", p, <<>>)
    <3>1. PICK p \in Items(shown) :
                /\ request[p].kind # "back"
                /\ Send(r, "detail", p, <<>>) \/ Send(r, "hide", p, <<>>)
      BY <2>5
    <3> QED
      BY <2>1, <2>4, <3>1
  <2> QED
    BY <1>2, <2>3, <2>5 DEF SendAction
<1>3. CASE SendQuiet(r)
  <2>1. Sends(r, "quiet", None, <<>>)
    BY <1>3, NoPages DEF SendQuiet, Sends, Fresh, Kinds, browser, MaySend
  <2>2. BrowserShape' /\ UNCHANGED <<session, alive, server, worker>>
    BY <1>0, <1>3 DEF SendQuiet, browser, BrowserShape
  <2> QED
    BY <2>1, <2>2
<1>4. CASE ClosePage(r)
  <2>1. PICK i \in 2 .. Len(shown) :
           /\ Send(r, "close", shown[i], <<>>)
           /\ shown' = Before(shown, shown[i])
           /\ PushState(shown')
    BY <1>4 DEF ClosePage
  <2>2. i \in 1 .. Len(shown)
    BY <1>0, ListProperties
  <2>3. shown[i] \in Requests /\ shown[i] \in Items(shown)
    BY <1>0, <2>2, ListProperties
  <2>4. shown' \in Lists
    BY <1>0, <2>1, <2>3, BeforeProperties
  <2>5. /\ history' \in Seq(Lists) /\ position' \in 1 .. Len(history')
        /\ HistoryComesFrom(shown')
    <3> DEFINE pages == shown'
    <3>1. pages \in Lists /\ PushState(pages) /\ shown' = pages
      BY <2>1, <2>4
    <3> HIDE DEF pages
    <3> QED
      BY <1>0, <3>1, PushStateShape
  <2>6. BrowserShape' /\ UNCHANGED <<session, alive, server, worker>>
    BY <1>0, <1>4, <2>4, <2>5 DEF ClosePage, BrowserShape
  <2>7. Sends(r, "close", shown[i], <<>>)
    BY <1>4, <2>1, <2>3, <2>5, NoPages DEF ClosePage, Sends, Fresh, Kinds, MaySend
  <2> QED
    BY <2>6, <2>7
<1>5. CASE PopState(r)
  <2>1. /\ UNCHANGED <<session, shown, history, loading, alive, server, worker>>
        /\ position' \in 1 .. Len(history) /\ ~loading
        /\ Fresh(r) /\ request[r].stage = "unsent"
        /\ \/ /\ MaySend /\ history[position'] # <<>>
              /\ Send(r, "back", None, history[position'])
              /\ blocked' = TRUE
           \/ blocked /\ UNCHANGED <<request, blocked, orderly>>
    BY <1>5 DEF PopState, Fresh
  <2>2. BrowserShape'
    BY <1>0, <2>1 DEF BrowserShape
  <2>3. CASE UNCHANGED <<request, blocked, orderly>>
    BY <2>1, <2>2, <2>3 DEF Refuses
  <2>4. CASE /\ MaySend /\ history[position'] # <<>>
             /\ Send(r, "back", None, history[position'])
             /\ blocked' = TRUE
    <3> DEFINE pages == history[position']
    <3>1. pages \in Lists /\ \E j \in 1 .. Len(history) : pages = history[j]
      BY <1>0, <2>1
    <3>2. Send(r, "back", None, pages) /\ pages # <<>>
      BY <2>4
    <3> HIDE DEF pages
    <3>3. Sends(r, "back", None, pages)
      BY <2>1, <2>4, <3>1, <3>2 DEF Sends, Kinds, MaySend
    <3> QED
      BY <2>1, <2>2, <3>3
  <2> QED
    BY <2>1, <2>3, <2>4
<1> QED
  BY <1>1, <1>2, <1>3, <1>4, <1>5 DEF Browse

(* What a request keeps once it is sent.                                   *)
InputStays(r) ==
    /\ request'[r].kind = request[r].kind
    /\ request'[r].page = request[r].page /\ request'[r].pages = request[r].pages

(* The fields of a session that requests are handled with.                 *)
ListsStay(s) ==
    /\ server'[s].output = server[s].output /\ server'[s].store = server[s].store
    /\ server'[s].visible = server[s].visible
    /\ server'[s].components = server[s].components

OtherSessionsStay(s) == \A t \in Sessions : t # s => server'[t] = server[t]

GetsSession(r, s) ==
    /\ request[r].stage = "sent" /\ request'[r].stage = "queued"
    /\ request'[r].at = s
    /\ request'[r].origin = IF request[r].origin = None THEN s ELSE request[r].origin
    /\ request'[r].session = request[r].session /\ request'[r].retry = request[r].retry
    /\ request'[r].deaf = request[r].deaf /\ request'[r].answer = request[r].answer
    /\ InputStays(r) /\ OthersStay(r)
    /\ ListsStay(s) /\ OtherSessionsStay(s)
    /\ server'[s].thread = server[s].thread /\ server'[s].holder = server[s].holder
    /\ server'[s].created = TRUE
    /\ UNCHANGED <<browser, worker>>
    /\ \/ request[r].session = s /\ s \in alive /\ server' = server /\ alive' = alive
       \/ request[r].session \notin alive /\ ~server[s].created /\ alive' = alive \cup {s}

LEMMA GetSessionDoes ==
    ASSUME Shape, NEW r \in Requests, GetSession(r), alive \subseteq Created
    PROVE  /\ request' \in [Requests -> RequestShape] /\ server' \in [Sessions -> ServerShape]
           /\ alive' \in SUBSET Sessions
           /\ \E s \in Sessions : GetsSession(r, s)
<1>1. PICK s \in Sessions :
          /\ IF request[r].session \in alive
             THEN s = request[r].session /\ UNCHANGED <<alive, server>>
             ELSE /\ s \notin Created /\ \A q \in 1 .. s - 1 : q \in Created
                  /\ alive' = alive \cup {s}
                  /\ server' = [server EXCEPT ![s].created = TRUE]
          /\ request' = [request EXCEPT ![r].stage = "queued", ![r].at = s,
                ![r].origin = IF @ = None THEN s ELSE @]
  BY DEF GetSession
<1>2. /\ request \in [Requests -> RequestShape] /\ server \in [Sessions -> ServerShape]
      /\ alive \in SUBSET Sessions
  BY DEF Shape
<1>3. /\ request[r] \in RequestShape /\ s \in Sessions \cup {None}
      /\ (IF request[r].origin = None THEN s ELSE request[r].origin) \in Sessions \cup {None}
  BY <1>2 DEF RequestShape
<1>4. /\ request' \in [Requests -> RequestShape] /\ OthersStay(r) /\ InputStays(r)
      /\ request'[r].stage = "queued" /\ request'[r].at = s
      /\ request'[r].origin = IF request[r].origin = None THEN s ELSE request[r].origin
      /\ request'[r].session = request[r].session /\ request'[r].retry = request[r].retry
      /\ request'[r].deaf = request[r].deaf /\ request'[r].answer = request[r].answer
  BY <1>1, <1>2, <1>3 DEF RequestShape, Stages, OthersStay, InputStays
<1>5. CASE request[r].session \in alive
  <2>1. server[s].created = TRUE
    BY <1>1, <1>5 DEF Created
  <2>2. GetsSession(r, s)
    BY <1>1, <1>4, <1>5, <2>1 DEF GetSession, GetsSession, ListsStay, OtherSessionsStay
  <2> QED
    BY <1>1, <1>2, <1>4, <1>5, <2>2
<1>6. CASE request[r].session \notin alive
  <2>1. ~server[s].created
    BY <1>1, <1>6 DEF Created
  <2>2. /\ server' \in [Sessions -> ServerShape] /\ ListsStay(s) /\ OtherSessionsStay(s)
        /\ server'[s].thread = server[s].thread /\ server'[s].holder = server[s].holder
        /\ server'[s].created = TRUE
    <3>1. server' = [server EXCEPT ![s].created = TRUE]
      BY <1>1, <1>6
    <3> QED
      BY <1>2, <3>1 DEF ServerShape, ListsStay, OtherSessionsStay
  <2>3. GetsSession(r, s)
    BY <1>1, <1>4, <1>6, <2>1, <2>2 DEF GetSession, GetsSession
  <2> QED
    BY <1>1, <1>2, <1>4, <1>6, <2>2, <2>3
<1> QED
  BY <1>5, <1>6

WorkerIs(s, r, phase) ==
    /\ worker'[s][r] = phase
    /\ \A t \in Sessions, q \in Requests : t # s \/ q # r => worker'[t][q] = worker[t][q]

Handles(r, s) ==
    /\ request[r].stage = "queued" /\ request'[r].stage = "joining"
    /\ request'[r].at = s /\ request[r].at = s
    /\ request'[r].origin = request[r].origin
    /\ request'[r].session = request[r].session /\ request'[r].retry = request[r].retry
    /\ request'[r].deaf = request[r].deaf /\ request'[r].answer = request[r].answer
    /\ InputStays(r) /\ OthersStay(r)
    /\ ListsStay(s) /\ OtherSessionsStay(s)
    /\ server'[s].created = server[s].created
    /\ UNCHANGED <<browser, alive>>
    /\ \/ /\ ~request[r].retry \/ server[s].thread = None
          /\ server'[s].thread = r /\ WorkerIs(s, r, "started")
       \/ /\ request[r].retry /\ server[s].thread # None
          /\ server'[s].thread = server[s].thread /\ worker' = worker

LEMMA HandleDoes ==
    ASSUME Shape, NEW r \in Requests, Handle(r), request[r].at \in Sessions
    PROVE  /\ request' \in [Requests -> RequestShape] /\ server' \in [Sessions -> ServerShape]
           /\ worker' \in [Sessions -> [Requests -> Phases]]
           /\ Handles(r, request[r].at)
<1> DEFINE s == request[r].at
<1>0. s \in Sessions
  OBVIOUS
<1>1. /\ request[r].stage = "queued"
      /\ request' = [request EXCEPT ![r].stage = "joining"]
      /\ UNCHANGED <<browser, alive>>
      /\ IF ~request[r].retry \/ server[s].thread = None
         THEN /\ server' = [server EXCEPT ![s].holder = r, ![s].thread = r]
              /\ worker' = [worker EXCEPT ![s][r] = "started"]
         ELSE /\ server' = [server EXCEPT ![s].holder = r]
              /\ worker' = worker
  BY DEF Handle, Starts
<1>2. /\ request \in [Requests -> RequestShape] /\ server \in [Sessions -> ServerShape]
      /\ worker \in [Sessions -> [Requests -> Phases]]
  BY DEF Shape
<1>3. s = request[r].at
  OBVIOUS
<1> HIDE DEF s
<1>4. /\ request' \in [Requests -> RequestShape] /\ OthersStay(r) /\ InputStays(r)
      /\ request'[r].stage = "joining" /\ request'[r].at = s
      /\ request'[r].origin = request[r].origin
      /\ request'[r].session = request[r].session /\ request'[r].retry = request[r].retry
      /\ request'[r].deaf = request[r].deaf /\ request'[r].answer = request[r].answer
  <2>1. request' = [request EXCEPT ![r].stage = "joining"]
    BY <1>1
  <2> DEFINE q == [request[r] EXCEPT !.stage = "joining"]
  <2>2. request[r] \in RequestShape
    BY <1>2
  <2>3. /\ q \in RequestShape /\ q.stage = "joining" /\ q.at = request[r].at
        /\ q.origin = request[r].origin /\ q.session = request[r].session
        /\ q.retry = request[r].retry /\ q.deaf = request[r].deaf
        /\ q.answer = request[r].answer /\ q.kind = request[r].kind
        /\ q.page = request[r].page /\ q.pages = request[r].pages
    BY <2>2 DEF RequestShape, Stages
  <2>4. request' = [request EXCEPT ![r] = q]
    BY <2>1
  <2> HIDE DEF q
  <2>5. request'[r] = q /\ OthersStay(r) /\ request' \in [Requests -> RequestShape]
    BY <1>2, <2>3, <2>4 DEF OthersStay
  <2> QED
    BY <1>3, <2>3, <2>5 DEF InputStays
<1>5. CASE ~request[r].retry \/ server[s].thread = None
  <2>1. /\ server' = [server EXCEPT ![s].holder = r, ![s].thread = r]
        /\ worker' = [worker EXCEPT ![s][r] = "started"]
    BY <1>1, <1>5
  <2>2. /\ server' \in [Sessions -> ServerShape] /\ ListsStay(s) /\ OtherSessionsStay(s)
        /\ server'[s].created = server[s].created /\ server'[s].thread = r
    <3> DEFINE v == [server[s] EXCEPT !.holder = r, !.thread = r]
    <3>1. server' = [server EXCEPT ![s] = v]
      BY <1>0, <1>2, <2>1
    <3>2. server[s] \in ServerShape
      BY <1>0, <1>2
    <3>3. /\ v \in ServerShape /\ v.created = server[s].created /\ v.thread = r
          /\ v.output = server[s].output /\ v.store = server[s].store
          /\ v.visible = server[s].visible /\ v.components = server[s].components
      BY <3>2 DEF ServerShape
    <3> HIDE DEF v
    <3>4. server'[s] = v /\ OtherSessionsStay(s) /\ server' \in [Sessions -> ServerShape]
      BY <1>0, <1>2, <3>1, <3>3 DEF OtherSessionsStay
    <3> QED
      BY <3>3, <3>4 DEF ListsStay
  <2>3. WorkerIs(s, r, "started") /\ worker' \in [Sessions -> [Requests -> Phases]]
    BY <1>0, <1>2, <2>1 DEF WorkerIs, Phases
  <2> QED
    BY <1>1, <1>3, <1>4, <1>5, <2>2, <2>3 DEF Handles
<1>6. CASE request[r].retry /\ server[s].thread # None
  <2>1. /\ server' = [server EXCEPT ![s].holder = r] /\ worker' = worker
    BY <1>1, <1>6
  <2>2. /\ server' \in [Sessions -> ServerShape] /\ ListsStay(s) /\ OtherSessionsStay(s)
        /\ server'[s].created = server[s].created /\ server'[s].thread = server[s].thread
    <3> DEFINE v == [server[s] EXCEPT !.holder = r]
    <3>1. server' = [server EXCEPT ![s] = v]
      BY <2>1
    <3>2. server[s] \in ServerShape
      BY <1>0, <1>2
    <3>3. /\ v \in ServerShape /\ v.created = server[s].created
          /\ v.thread = server[s].thread
          /\ v.output = server[s].output /\ v.store = server[s].store
          /\ v.visible = server[s].visible /\ v.components = server[s].components
      BY <3>2 DEF ServerShape
    <3> HIDE DEF v
    <3>4. server'[s] = v /\ OtherSessionsStay(s) /\ server' \in [Sessions -> ServerShape]
      BY <1>0, <1>2, <3>1, <3>3 DEF OtherSessionsStay
    <3> QED
      BY <3>3, <3>4 DEF ListsStay
  <2> QED
    BY <1>1, <1>2, <1>3, <1>4, <1>6, <2>1, <2>2 DEF Handles
<1>7. request[r].retry \in BOOLEAN
  BY <1>2 DEF RequestShape
<1> QED
  BY <1>5, <1>6, <1>7

Responds(r, s) ==
    /\ request[r].stage = "joining" /\ request'[r].stage = "answered"
    /\ request'[r].at = s /\ request[r].at = s
    /\ request'[r].origin = request[r].origin
    /\ request'[r].session = request[r].session /\ request'[r].retry = request[r].retry
    /\ request'[r].deaf = request[r].deaf
    /\ InputStays(r) /\ OthersStay(r)
    /\ s # request[r].session /\ ~SlowStart => Ended(s, server[s].thread)
    /\ IF Ended(s, server[s].thread)
       THEN request'[r].answer = [server[s].output EXCEPT !.session = s]
       ELSE request'[r].answer = [Nothing EXCEPT !.op = "wait"]
    /\ ListsStay(s) /\ OtherSessionsStay(s)
    /\ server'[s].created = server[s].created /\ server'[s].thread = server[s].thread
    /\ UNCHANGED <<browser, alive, worker>>

LEMMA RespondDoes ==
    ASSUME Shape, NEW r \in Requests, Respond(r), request[r].at \in Sessions
    PROVE  /\ request' \in [Requests -> RequestShape] /\ server' \in [Sessions -> ServerShape]
           /\ Responds(r, request[r].at)
<1> DEFINE s == request[r].at
           out == IF Ended(s, server[s].thread)
                  THEN [server[s].output EXCEPT !.session = s]
                  ELSE [Nothing EXCEPT !.op = "wait"]
<1>0. s \in Sessions /\ s = request[r].at
  OBVIOUS
<1>1. /\ request[r].stage = "joining"
      /\ s # request[r].session /\ ~SlowStart => Ended(s, server[s].thread)
      /\ request' = [request EXCEPT ![r].stage = "answered", ![r].answer = out]
      /\ server' = [server EXCEPT ![s].holder = None]
      /\ UNCHANGED <<browser, alive, worker>>
  BY DEF Respond
<1>2. /\ request \in [Requests -> RequestShape] /\ server \in [Sessions -> ServerShape]
  BY DEF Shape
<1> HIDE DEF s
<1>3. out \in OutputShape
  <2>1. server[s].output \in OutputShape /\ Nothing \in OutputShape
    BY <1>0, <1>2, NothingShape DEF ServerShape
  <2>2. /\ [server[s].output EXCEPT !.session = s] \in OutputShape
        /\ [Nothing EXCEPT !.op = "wait"] \in OutputShape
    BY <1>0, <2>1 DEF OutputShape
  <2> QED
    BY <2>2
<1> HIDE DEF out
<1>4. /\ request' \in [Requests -> RequestShape] /\ OthersStay(r) /\ InputStays(r)
      /\ request'[r].stage = "answered" /\ request'[r].at = s
      /\ request'[r].origin = request[r].origin
      /\ request'[r].session = request[r].session /\ request'[r].retry = request[r].retry
      /\ request'[r].deaf = request[r].deaf /\ request'[r].answer = out
  BY <1>0, <1>1, <1>2, <1>3 DEF RequestShape, Stages, OthersStay, InputStays
<1>5. /\ server' \in [Sessions -> ServerShape] /\ ListsStay(s) /\ OtherSessionsStay(s)
      /\ server'[s].created = server[s].created /\ server'[s].thread = server[s].thread
  BY <1>0, <1>1, <1>2 DEF ServerShape, ListsStay, OtherSessionsStay
<1>6. IF Ended(s, server[s].thread)
      THEN out = [server[s].output EXCEPT !.session = s]
      ELSE out = [Nothing EXCEPT !.op = "wait"]
  BY DEF out
<1> QED
  BY <1>0, <1>1, <1>4, <1>5, <1>6 DEF Responds

Begins(s, r) ==
    /\ worker[s][r] = "started" /\ WorkerIs(s, r, "running")
    /\ server'[s].output = Nothing /\ server'[s].store = server[s].store
    /\ server'[s].visible = server[s].visible
    /\ server'[s].components = server[s].components

Acts(s, r) ==
    /\ worker[s][r] = "running"
    /\ \/ /\ WorkerIs(s, r, "acted") /\ ~Refused(s, r)
          /\ KindDoes(Kind(s, r), server[s], server'[s], r, request[r].page, request[r].pages)
       \/ /\ WorkerIs(s, r, "failed") /\ server' = server
          /\ Refused(s, r) \/ Kind(s, r) \in {"show", "detail", "hide", "quiet"}
       \/ /\ WorkerIs(s, r, "failed") /\ ~Refused(s, r)
          /\ Kind(s, r) \in {"show", "detail", "hide"}
          /\ KindDoes(Kind(s, r), server[s], server'[s], r, request[r].page, request[r].pages)

(* The worker of a request that is alone shows all pages anew.             *)
Renews(s, r) ==
    /\ Acts(s, r) /\ ~Refused(s, r) /\ worker'[s][r] = "acted"
    /\ Alone(s, r) /\ ShowsAnew(s, r)

Interrupts(s, r) ==
    /\ worker[s][r] = "running" /\ WorkerIs(s, r, "failed") /\ ~Refused(s, r)
    /\ HalfDone(server[s], server'[s], r, request[r].page, request[r].pages)

Registers(s, r) ==
    /\ worker[s][r] = "acted" /\ WorkerIs(s, r, "done")
    /\ server'[s].output = server[s].output /\ server'[s].store = server[s].store
    /\ server'[s].visible = server[s].visible
    /\ server'[s].components = server[s].components \cup
          (IF server[s].output.op \in {"showPage", "showPages"}
           THEN Items(server[s].output.pages) ELSE {})
          \cup (IF Kind(s, r) = "init" THEN {Navigation} ELSE {})

LEMMA BecomesIs ==
    ASSUME Shape, NEW s \in Sessions, NEW r \in Requests, NEW phase \in Phases,
           Becomes(s, r, phase)
    PROVE  worker' \in [Sessions -> [Requests -> Phases]] /\ WorkerIs(s, r, phase)
  BY DEF Shape, Becomes, WorkerIs

LEMMA WorkerDoes ==
    ASSUME Shape, NEW s \in Sessions, NEW r \in Requests, Worker(s, r)
    PROVE  /\ server' \in [Sessions -> ServerShape]
           /\ worker' \in [Sessions -> [Requests -> Phases]]
           /\ UNCHANGED <<browser, request, alive>>
           /\ OtherSessionsStay(s)
           /\ server'[s].created = server[s].created /\ server'[s].thread = server[s].thread
           /\ \/ /\ Begins(s, r) \/ Acts(s, r) \/ Registers(s, r)
                 /\ orderly' => orderly \/ Renews(s, r)
              \/ Interrupts(s, r) /\ ~orderly'
<1>0. server \in [Sessions -> ServerShape] /\ worker[s][r] \in Phases
  BY DEF Shape
<1> DEFINE Kept == /\ OtherSessionsStay(s) /\ server'[s].created = server[s].created
                   /\ server'[s].thread = server[s].thread
<1>1. CASE BeginWork(s, r)
  <2>1. /\ worker[s][r] = "started" /\ server' = [server EXCEPT ![s].output = Nothing]
        /\ Becomes(s, r, "running") /\ UNCHANGED <<browser, request, alive, orderly>>
    BY <1>1 DEF BeginWork
  <2>2. WorkerIs(s, r, "running") /\ worker' \in [Sessions -> [Requests -> Phases]]
    BY <2>1, BecomesIs DEF Phases
  <2>3. /\ server' \in [Sessions -> ServerShape] /\ Kept
        /\ server'[s].output = Nothing /\ server'[s].store = server[s].store
        /\ server'[s].visible = server[s].visible
        /\ server'[s].components = server[s].components
    BY <1>0, <2>1, NothingShape DEF ServerShape, OtherSessionsStay
  <2> QED
    BY <2>1, <2>2, <2>3 DEF Begins
<1>2. ASSUME ~Refused(s, r), server' = [server EXCEPT ![s] = Effect(s, r)]
      PROVE  /\ server' \in [Sessions -> ServerShape] /\ Kept
             /\ KindDoes(Kind(s, r), server[s], server'[s], r, request[r].page, request[r].pages)
  <2> DEFINE e == Effect(s, r)
  <2>1. /\ KindDoes(Kind(s, r), server[s], e, r, request[r].page, request[r].pages)
        /\ e \in ServerShape /\ e.created = server[s].created /\ e.thread = server[s].thread
    BY <1>2, EffectDoes
  <2>2. server' = [server EXCEPT ![s] = e]
    BY <1>2
  <2> HIDE DEF e
  <2>3. server' \in [Sessions -> ServerShape] /\ server'[s] = e /\ OtherSessionsStay(s)
    BY <1>0, <2>1, <2>2 DEF OtherSessionsStay
  <2> QED
    BY <2>1, <2>3
<1>3. CASE Work(s, r)
  <2>1. /\ worker[s][r] = "running" /\ ~Refused(s, r)
        /\ \/ server' = [server EXCEPT ![s] = Effect(s, r)]
           \/ Kind(s, r) = "detail" /\ server' = server
        /\ orderly' = (orderly \/ (Alone(s, r) /\ ShowsAnew(s, r)))
        /\ Becomes(s, r, "acted") /\ UNCHANGED <<browser, request, alive>>
    BY <1>3 DEF Work
  <2>2. WorkerIs(s, r, "acted") /\ worker' \in [Sessions -> [Requests -> Phases]]
    BY <2>1, BecomesIs DEF Phases
  <2>3. /\ server' \in [Sessions -> ServerShape] /\ Kept
        /\ KindDoes(Kind(s, r), server[s], server'[s], r, request[r].page, request[r].pages)
    <3>1. CASE server' = [server EXCEPT ![s] = Effect(s, r)]
      BY <1>2, <2>1, <3>1
    <3>2. CASE Kind(s, r) = "detail" /\ server' = server
      BY <1>0, <3>2 DEF OtherSessionsStay, KindDoes
    <3> QED
      BY <2>1, <3>1, <3>2
  <2>4. Acts(s, r)
    BY <2>1, <2>2, <2>3 DEF Acts
  <2>5. orderly' => orderly \/ Renews(s, r)
    BY <2>1, <2>2, <2>4 DEF Renews, WorkerIs
  <2> QED
    BY <2>1, <2>2, <2>3, <2>4, <2>5
<1>4. CASE WorkFails(s, r)
  <2>1. /\ worker[s][r] = "running"
        /\ Becomes(s, r, "failed") /\ UNCHANGED <<browser, request, alive>>
        /\ \/ /\ Refused(s, r) \/ Kind(s, r) \in {"show", "detail", "hide", "quiet"}
              /\ UNCHANGED <<server, orderly>>
           \/ /\ ~Refused(s, r) /\ Kind(s, r) \in {"show", "detail", "hide"}
              /\ server' = [server EXCEPT ![s] = Effect(s, r)] /\ orderly' = orderly
           \/ /\ ~Refused(s, r)
              /\ \E v \in Interrupted(s, r) : server' = [server EXCEPT ![s] = v]
              /\ orderly' = FALSE
    BY <1>4 DEF WorkFails
  <2>2. WorkerIs(s, r, "failed") /\ worker' \in [Sessions -> [Requests -> Phases]]
    BY <2>1, BecomesIs DEF Phases
  <2>3. server' = server => server' \in [Sessions -> ServerShape] /\ Kept
    BY <1>0 DEF OtherSessionsStay
  <2> HIDE DEF Kept
  <2>4. CASE /\ Refused(s, r) \/ Kind(s, r) \in {"show", "detail", "hide", "quiet"}
             /\ UNCHANGED <<server, orderly>>
    BY <2>1, <2>2, <2>3, <2>4 DEF Acts, Kept
  <2>5. CASE /\ ~Refused(s, r) /\ Kind(s, r) \in {"show", "detail", "hide"}
             /\ server' = [server EXCEPT ![s] = Effect(s, r)] /\ orderly' = orderly
    BY <1>2, <2>1, <2>2, <2>5 DEF Acts, Kept
  <2>6. CASE /\ ~Refused(s, r)
             /\ \E v \in Interrupted(s, r) : server' = [server EXCEPT ![s] = v]
             /\ orderly' = FALSE
    <3>1. PICK v \in Interrupted(s, r) : server' = [server EXCEPT ![s] = v]
      BY <2>6
    <3>2. /\ HalfDone(server[s], v, r, request[r].page, request[r].pages)
          /\ v \in ServerShape /\ v.created = server[s].created /\ v.thread = server[s].thread
      BY <2>6, InterruptedDoes
    <3>3. server' \in [Sessions -> ServerShape] /\ server'[s] = v /\ Kept
      BY <1>0, <3>1, <3>2 DEF OtherSessionsStay, Kept
    <3>4. Interrupts(s, r)
      BY <2>1, <2>2, <2>6, <3>2, <3>3 DEF Interrupts
    <3> QED
      BY <2>1, <2>2, <2>6, <3>3, <3>4 DEF Kept
  <2> QED
    BY <2>1, <2>4, <2>5, <2>6
<1>5. CASE Register(s, r)
  <2>1. /\ worker[s][r] = "acted"
        /\ server' = [server EXCEPT ![s].components = server[s].components \cup
              (IF server[s].output.op \in {"showPage", "showPages"}
               THEN Items(server[s].output.pages) ELSE {})
              \cup (IF Kind(s, r) = "init" THEN {Navigation} ELSE {})]
        /\ Becomes(s, r, "done") /\ UNCHANGED <<browser, request, alive, orderly>>
    BY <1>5 DEF Register
  <2>2. WorkerIs(s, r, "done") /\ worker' \in [Sessions -> [Requests -> Phases]]
    BY <2>1, BecomesIs DEF Phases
  <2> DEFINE cs == server[s].components \cup
              (IF server[s].output.op \in {"showPage", "showPages"}
               THEN Items(server[s].output.pages) ELSE {})
              \cup (IF Kind(s, r) = "init" THEN {Navigation} ELSE {})
  <2>3. server' = [server EXCEPT ![s].components = cs]
    BY <2>1
  <2>4. cs \in SUBSET (Requests \cup {Navigation})
    <3>1. server[s].output.pages \in Lists /\ server[s].components \subseteq Requests \cup {Navigation}
      BY <1>0 DEF ServerShape, OutputShape
    <3>2. Items(server[s].output.pages) \subseteq Requests
      BY <3>1, ListProperties
    <3> QED
      BY <3>1, <3>2
  <2>5. cs = server[s].components \cup
              (IF server[s].output.op \in {"showPage", "showPages"}
               THEN Items(server[s].output.pages) ELSE {})
              \cup (IF Kind(s, r) = "init" THEN {Navigation} ELSE {})
    OBVIOUS
  <2> HIDE DEF cs
  <2>6. /\ server' \in [Sessions -> ServerShape] /\ Kept
        /\ server'[s].output = server[s].output /\ server'[s].store = server[s].store
        /\ server'[s].visible = server[s].visible
        /\ server'[s].components = cs
    BY <1>0, <2>3, <2>4 DEF ServerShape, OtherSessionsStay
  <2> QED
    BY <2>1, <2>2, <2>5, <2>6 DEF Registers
<1> QED
  BY <1>1, <1>3, <1>4, <1>5 DEF Worker

Retries(r) ==
    /\ request[r].stage = "answered" /\ ~request[r].deaf /\ request[r].answer.op = "wait"
    /\ request'[r].stage = "sent" /\ request'[r].retry = TRUE
    /\ request'[r].session = session /\ request'[r].deaf = FALSE
    /\ request'[r].at = request[r].at /\ request'[r].origin = request[r].origin
    /\ request'[r].answer = request[r].answer
    /\ InputStays(r) /\ OthersStay(r)
    /\ UNCHANGED <<browser, alive, server, worker>>

IsClosed(r) ==
    /\ request'[r].stage = "closed" /\ request'[r].retry = FALSE /\ request'[r].deaf = FALSE
    /\ request'[r].session = None /\ request'[r].answer = Nothing
    /\ request'[r].at = request[r].at /\ request'[r].origin = request[r].origin
    /\ InputStays(r)

(* A request of a document that is gone: its answer will not be heard.     *)
IsUnheard(q) ==
    /\ request'[q].stage = request[q].stage /\ request'[q].retry = request[q].retry
    /\ request'[q].deaf = (request[q].deaf \/ q \in Pending)
    /\ request'[q].session = request[q].session /\ request'[q].answer = request[q].answer
    /\ request'[q].at = request[q].at /\ request'[q].origin = request[q].origin
    /\ InputStays(q)

Hears(r) ==
    /\ request[r].stage = "answered" /\ ~request[r].deaf /\ request[r].answer.op # "wait"
    /\ IsClosed(r)
    /\ session' = request[r].answer.session
    /\ UNCHANGED <<alive, server, worker>>

Receives(r) ==
    /\ Hears(r) /\ OthersStay(r)
    /\ session \in {None, request[r].answer.session}
    /\ blocked' = FALSE /\ loading' = loading
    /\ shown' = Applied(request[r].answer)
    /\ history' = history \/ HistoryComesFrom(shown')

ReceivesNewSession(r) ==
    /\ Hears(r)
    /\ session \notin {None, request[r].answer.session}
    /\ Reloaded
    /\ \A q \in Requests : q # r => IsUnheard(q)
    /\ history' = history

Drops(r) ==
    /\ request[r].stage = "answered" /\ request[r].deaf
    /\ IsClosed(r) /\ OthersStay(r)
    /\ UNCHANGED <<browser, alive, server, worker>>

LEMMA ClosedIs ==
    ASSUME NEW q \in RequestShape
    PROVE  /\ Closed(q) \in RequestShape
           /\ Closed(q).stage = "closed" /\ Closed(q).retry = FALSE /\ Closed(q).deaf = FALSE
           /\ Closed(q).session = None /\ Closed(q).answer = Nothing
           /\ Closed(q).at = q.at /\ Closed(q).origin = q.origin
           /\ Closed(q).kind = q.kind /\ Closed(q).page = q.page /\ Closed(q).pages = q.pages
  BY NothingShape DEF Closed, RequestShape, Stages, None

LEMMA CloseIs ==
    ASSUME Shape, NEW r \in Requests, request' = [request EXCEPT ![r] = Closed(@)]
    PROVE  request' \in [Requests -> RequestShape] /\ IsClosed(r) /\ OthersStay(r)
<1> DEFINE c == Closed(request[r])
<1>1. request \in [Requests -> RequestShape] /\ request[r] \in RequestShape
  BY DEF Shape
<1>2. request' = [request EXCEPT ![r] = c]
  OBVIOUS
<1>3. /\ c \in RequestShape
      /\ c.stage = "closed" /\ c.retry = FALSE /\ c.deaf = FALSE
      /\ c.session = None /\ c.answer = Nothing
      /\ c.at = request[r].at /\ c.origin = request[r].origin
      /\ c.kind = request[r].kind /\ c.page = request[r].page /\ c.pages = request[r].pages
  BY <1>1, ClosedIs
<1> HIDE DEF c
<1> QED
  BY <1>1, <1>2, <1>3 DEF IsClosed, OthersStay, InputStays

LEMMA DeafIs ==
    ASSUME NEW q \in RequestShape
    PROVE  LET d == [q EXCEPT !.deaf = TRUE]
           IN  /\ d \in RequestShape /\ d.deaf = TRUE
               /\ d.stage = q.stage /\ d.retry = q.retry /\ d.session = q.session
               /\ d.answer = q.answer /\ d.at = q.at /\ d.origin = q.origin
               /\ d.kind = q.kind /\ d.page = q.page /\ d.pages = q.pages
  BY DEF RequestShape

LEMMA BecomesUnheard ==
    ASSUME NEW q \in Requests, q \in Pending, request[q] \in RequestShape,
           request'[q] = [request[q] EXCEPT !.deaf = TRUE]
    PROVE  IsUnheard(q) /\ request'[q] \in RequestShape
<1> DEFINE d == [request[q] EXCEPT !.deaf = TRUE]
<1>1. /\ d \in RequestShape /\ d.deaf = TRUE
      /\ d.stage = request[q].stage /\ d.retry = request[q].retry
      /\ d.session = request[q].session /\ d.answer = request[q].answer
      /\ d.at = request[q].at /\ d.origin = request[q].origin
      /\ d.kind = request[q].kind /\ d.page = request[q].page /\ d.pages = request[q].pages
  BY DeafIs
<1>2. request'[q] = d
  OBVIOUS
<1> HIDE DEF d
<1> QED
  BY <1>1, <1>2 DEF IsUnheard, InputStays

LEMMA OnMessageDoes ==
    ASSUME Shape, OutputsNamePage, NEW r \in Requests, OnMessage(r)
    PROVE  /\ BrowserShape' /\ request' \in [Requests -> RequestShape]
           /\ UNCHANGED <<alive, server, worker>>
           /\ Retries(r) \/ Receives(r) \/ ReceivesNewSession(r) \/ Drops(r)
<1>0. /\ BrowserShape /\ request \in [Requests -> RequestShape] /\ request[r] \in RequestShape
      /\ request[r].answer \in OutputShape /\ NamesPage(request[r].answer)
      /\ request[r].deaf \in BOOLEAN
      /\ request[r].answer.session \in Sessions \cup {None}
  BY DEF Shape, OutputsNamePage, RequestShape, OutputShape
<1>1. CASE ReceiveWait(r)
  <2>1. /\ request[r].stage = "answered" /\ ~request[r].deaf
        /\ request[r].answer.op = "wait"
        /\ request' = [request EXCEPT ![r].stage = "sent", ![r].retry = TRUE,
                                      ![r].session = session]
        /\ UNCHANGED <<browser, alive, server, worker>>
    BY <1>1 DEF ReceiveWait
  <2>2. /\ request' \in [Requests -> RequestShape] /\ OthersStay(r) /\ InputStays(r)
        /\ request'[r].stage = "sent" /\ request'[r].retry = TRUE
        /\ request'[r].session = session /\ request'[r].deaf = request[r].deaf
        /\ request'[r].at = request[r].at /\ request'[r].origin = request[r].origin
        /\ request'[r].answer = request[r].answer
    BY <1>0, <2>1 DEF BrowserShape, RequestShape, Stages, OthersStay, InputStays
  <2>3. BrowserShape'
    BY <1>0, <2>1 DEF browser, BrowserShape
  <2> QED
    BY <1>0, <2>1, <2>2, <2>3 DEF Retries
<1>2. CASE Receive(r)
  <2> DEFINE out == request[r].answer
  <2>1. /\ request[r].stage = "answered" /\ ~request[r].deaf
        /\ out.op # "wait"
        /\ session \in {None, out.session}
        /\ request' = [request EXCEPT ![r] = Closed(@)]
        /\ session' = out.session
        /\ blocked' = FALSE
        /\ loading' = loading
        /\ UNCHANGED <<alive, server, worker>>
    BY <1>2 DEF Receive
  <2>2. /\ out.op = "showPage" => shown' = WithPage(out.master, out.pages[1]) /\ PushState(shown')
        /\ out.op = "showPages" => shown' = out.pages /\ UNCHANGED <<history, position>>
        /\ out.op = "hidePage" =>
              /\ shown' = IF out.pages[1] \in Items(shown)
                          THEN Before(shown, out.pages[1]) ELSE <<>>
              /\ PushState(shown')
        /\ out.op = "none" => UNCHANGED <<shown, history, position>>
    BY <1>2 DEF Receive
  <2>3. /\ out \in OutputShape /\ NamesPage(out)
        /\ out.op \in {"none", "showPage", "showPages", "hidePage"}
    BY <1>0, <2>1 DEF OutputShape
  <2> HIDE DEF out
  <2>4. shown' = Applied(out) /\ shown' \in Lists
    BY <2>2, <2>3, AppliedIs
  <2>5. PushState(shown') \/ UNCHANGED <<history, position>>
    BY <2>2, <2>3
  <2>6. /\ history' \in Seq(Lists) /\ position' \in 1 .. Len(history')
        /\ history' = history \/ HistoryComesFrom(shown')
    <3>1. CASE UNCHANGED <<history, position>>
      BY <1>0, <3>1 DEF BrowserShape
    <3>2. CASE PushState(shown')
      <4> DEFINE pages == shown'
      <4>1. pages \in Lists /\ PushState(pages) /\ shown' = pages
        BY <2>4, <3>2
      <4> HIDE DEF pages
      <4> QED
        BY <1>0, <4>1, PushStateShape
    <3> QED
      BY <2>5, <3>1, <3>2
  <2>7. BrowserShape'
    BY <1>0, <2>1, <2>4, <2>6 DEF BrowserShape, out
  <2>8. request' \in [Requests -> RequestShape] /\ IsClosed(r) /\ OthersStay(r)
    BY <2>1, CloseIs
  <2>9. Receives(r)
    BY <2>1, <2>4, <2>6, <2>8 DEF Receives, Hears, out
  <2> QED
    BY <2>1, <2>7, <2>8, <2>9
<1>3. CASE ReceiveFromNewSession(r)
  <2>1. /\ request[r].stage = "answered" /\ ~request[r].deaf
        /\ request[r].answer.op # "wait"
        /\ session \notin {None, request[r].answer.session}
        /\ session' = request[r].answer.session
        /\ Reloaded
        /\ request' = [q \in Requests |->
              IF q = r THEN Closed(request[q])
              ELSE IF q \in Pending THEN [request[q] EXCEPT !.deaf = TRUE] ELSE request[q]]
        /\ UNCHANGED <<history, position, alive, server, worker>>
    BY <1>3 DEF ReceiveFromNewSession
  <2>2. IsClosed(r) /\ request'[r] \in RequestShape
    BY <1>0, <2>1, ClosedIs DEF IsClosed, InputStays
  <2>3. ASSUME NEW q \in Requests, q # r PROVE IsUnheard(q) /\ request'[q] \in RequestShape
    <3>1. request[q] \in RequestShape /\ request[q].deaf \in BOOLEAN
      BY <1>0 DEF RequestShape
    <3>2. CASE q \in Pending
      <4>1. request'[q] = [request[q] EXCEPT !.deaf = TRUE]
        BY <2>1, <2>3, <3>2
      <4> QED
        BY <3>1, <3>2, <4>1, BecomesUnheard
    <3>3. CASE q \notin Pending
      <4>1. request'[q] = request[q]
        BY <2>1, <2>3, <3>3
      <4> QED
        BY <3>1, <3>3, <4>1 DEF IsUnheard, InputStays
    <3> QED
      BY <3>2, <3>3
  <2>4. request' \in [Requests -> RequestShape]
    <3>1. \A q \in Requests : request'[q] \in RequestShape
      BY <2>2, <2>3
    <3>2. request' = [q \in Requests |-> request'[q]]
      BY <2>1
    <3> QED
      BY <3>1, <3>2
  <2>5. BrowserShape'
    BY <1>0, <2>1, NoPages DEF BrowserShape, Reloaded
  <2>6. ReceivesNewSession(r)
    BY <2>1, <2>2, <2>3 DEF ReceivesNewSession, Hears
  <2> QED
    BY <2>1, <2>4, <2>5, <2>6
<1>4. CASE Unheard(r)
  <2>1. /\ request[r].stage = "answered" /\ request[r].deaf
        /\ request' = [request EXCEPT ![r] = Closed(@)]
        /\ UNCHANGED <<browser, alive, server, worker>>
    BY <1>4 DEF Unheard
  <2>2. request' \in [Requests -> RequestShape] /\ IsClosed(r) /\ OthersStay(r)
    BY <2>1, CloseIs
  <2>3. BrowserShape'
    BY <1>0, <2>1 DEF browser, BrowserShape
  <2> QED
    BY <2>1, <2>2, <2>3 DEF Drops
<1> QED
  BY <1>1, <1>2, <1>3, <1>4 DEF OnMessage

(* No request is on its way or at work that the session is to answer.      *)
AllAnswered ==
    \A r \in Pending : request[r].stage = "answered" /\ request[r].answer.session = session

LEMMA ReloadDoes ==
    ASSUME Shape, Reload
    PROVE  /\ BrowserShape' /\ request' \in [Requests -> RequestShape]
           /\ UNCHANGED <<session, history, alive, server, worker>>
           /\ Reloaded /\ ~loading
           /\ orderly' = (orderly /\ AllAnswered)
           /\ \A q \in Requests : IsUnheard(q)
<1>0. /\ BrowserShape /\ request \in [Requests -> RequestShape]
  BY DEF Shape
<1>1. /\ Reloaded /\ ~loading
      /\ orderly' = (orderly /\ AllAnswered)
      /\ request' = [r \in Requests |->
            IF r \in Pending THEN [request[r] EXCEPT !.deaf = TRUE] ELSE request[r]]
      /\ UNCHANGED <<session, history, position, alive, server, worker>>
  BY DEF Reload, AllAnswered
<1>2. ASSUME NEW q \in Requests PROVE IsUnheard(q) /\ request'[q] \in RequestShape
  <2>1. request[q] \in RequestShape /\ request[q].deaf \in BOOLEAN
    BY <1>0 DEF RequestShape
  <2>2. CASE q \in Pending
    <3>1. request'[q] = [request[q] EXCEPT !.deaf = TRUE]
      BY <1>1, <2>2
    <3> QED
      BY <2>1, <2>2, <3>1, BecomesUnheard
  <2>3. CASE q \notin Pending
    <3>1. request'[q] = request[q]
      BY <1>1, <2>3
    <3> QED
      BY <2>1, <2>3, <3>1 DEF IsUnheard, InputStays
  <2> QED
    BY <2>2, <2>3
<1>3. request' \in [Requests -> RequestShape]
  <2>1. \A q \in Requests : request'[q] \in RequestShape
    BY <1>2
  <2>2. request' = [q \in Requests |-> request'[q]]
    BY <1>1
  <2> QED
    BY <2>1, <2>2
<1>4. BrowserShape'
  BY <1>0, <1>1, NoPages DEF BrowserShape, Reloaded
<1> QED
  BY <1>1, <1>2, <1>3, <1>4

-----------------------------------------------------------------------------
(* The steps, by what they do.                                             *)
IsSent(r, kind, page, pages) ==
    /\ OthersStay(r)
    /\ request'[r].stage = "sent" /\ request'[r].kind = kind
    /\ request'[r].page = page /\ request'[r].pages = pages
    /\ request'[r].session = session /\ request'[r].retry = FALSE
    /\ request'[r].deaf = FALSE /\ request'[r].at = None
    /\ request'[r].origin = None /\ request'[r].answer = Nothing

SendStep ==
    /\ UNCHANGED <<session, alive, server, worker>>
    /\ \E r \in Requests : \E kind, page, pages :
          Sends(r, kind, page, pages) /\ IsSent(r, kind, page, pages)

WorksOnly(s) ==
    /\ UNCHANGED <<browser, request, alive>>
    /\ OtherSessionsStay(s)
    /\ server'[s].created = server[s].created /\ server'[s].thread = server[s].thread

WorkStep ==
    \E s \in Sessions : \E r \in Requests :
        /\ WorksOnly(s)
        /\ Begins(s, r) \/ Acts(s, r) \/ Registers(s, r) \/ Interrupts(s, r)

Reloads ==
    /\ UNCHANGED <<session, history, alive, server, worker>>
    /\ Reloaded /\ ~loading
    /\ \A q \in Requests : IsUnheard(q)

DropsSession ==
    /\ \E s \in alive : alive' = alive \ {s}
    /\ UNCHANGED <<browser, request, server, worker>>

Idles == UNCHANGED <<session, shown, history, blocked, loading, request, alive, server, worker>>

Step ==
    \/ Idles
    \/ SendStep
    \/ \E r \in Requests : \E s \in Sessions :
          GetsSession(r, s) \/ Handles(r, s) \/ Responds(r, s)
    \/ WorkStep
    \/ \E r \in Requests :
          Retries(r) \/ Receives(r) \/ ReceivesNewSession(r) \/ Drops(r)
    \/ Reloads
    \/ DropsSession

(* What a step of an orderly run is, after which it is still orderly ...    *)
CalmWork ==
    \E s \in Sessions : \E r \in Requests :
        WorksOnly(s) /\ (Begins(s, r) \/ Acts(s, r) \/ Registers(s, r))

Calm ==
    \/ Idles
    \/ SendStep /\ Open = {}
    \/ \E r \in Requests : \E s \in Sessions :
          GetsSession(r, s) \/ Handles(r, s) \/ Responds(r, s)
    \/ CalmWork
    \/ \E r \in Requests :
          Retries(r) \/ Receives(r) \/ ReceivesNewSession(r) \/ Drops(r)
    \/ Reloads /\ AllAnswered
    \/ DropsSession

(* ... and the step by which a run becomes orderly.                         *)
RenewStep == \E s \in Sessions : \E r \in Requests : WorksOnly(s) /\ Renews(s, r)

InOrder == orderly' => IF orderly THEN Calm ELSE RenewStep

LEMMA CalmIsStep ==
    /\ CalmWork => WorkStep
    /\ RenewStep => CalmWork
    /\ Calm => Step
  BY DEF CalmWork, WorkStep, Calm, Step, RenewStep, Renews

AliveAreCreated == \A s \in alive : server[s].created

StateInv == ShapeInv /\ AliveAreCreated

LEMMA StepIs ==
    ASSUME StateInv, [Next]_vars
    PROVE  Shape' /\ Step /\ InOrder
<1>0. /\ Shape /\ OutputsNamePage /\ AtIsCreated /\ AliveAreCreated /\ BrowserShape
      /\ request \in [Requests -> RequestShape] /\ alive \in SUBSET Sessions
      /\ server \in [Sessions -> ServerShape] /\ worker \in [Sessions -> [Requests -> Phases]]
      /\ orderly \in BOOLEAN
  BY DEF StateInv, ShapeInv, Shape
<1>1. ASSUME NEW r \in Requests, Browse(r) PROVE Shape' /\ Step /\ InOrder
  <2>1. /\ BrowserShape'
        /\ UNCHANGED <<session, alive, server, worker>>
        /\ Refuses \/ \E kind, page, pages : Sends(r, kind, page, pages)
    BY <1>0, <1>1, BrowseDoes
  <2>2. CASE Refuses
    BY <1>0, <2>1, <2>2 DEF Refuses, Shape, Step, Idles, InOrder, Calm
  <2>3. ASSUME NEW kind, NEW page, NEW pages, Sends(r, kind, page, pages)
        PROVE  Shape' /\ Step /\ InOrder
    <3>1. /\ kind \in Kinds /\ page \in Requests \cup {None} /\ pages \in Lists
          /\ Send(r, kind, page, pages) /\ orderly' = (orderly /\ Open = {})
      BY <2>3 DEF Sends, Send
    <3>2. request' \in [Requests -> RequestShape] /\ IsSent(r, kind, page, pages)
      BY <1>0, <3>1, SendSets DEF IsSent
    <3>3. Shape'
      BY <1>0, <2>1, <3>1, <3>2 DEF Shape
    <3>4. SendStep
      BY <2>1, <2>3, <3>2 DEF SendStep
    <3> QED
      BY <3>1, <3>3, <3>4 DEF Step, InOrder, Calm
  <2> QED
    BY <2>1, <2>2, <2>3
<1>2. ASSUME NEW r \in Requests, GetSession(r) PROVE Shape' /\ Step /\ InOrder
  <2>1. alive \subseteq Created
    BY <1>0 DEF AliveAreCreated, Created
  <2>2. /\ request' \in [Requests -> RequestShape] /\ server' \in [Sessions -> ServerShape]
        /\ alive' \in SUBSET Sessions
        /\ \E s \in Sessions : GetsSession(r, s)
    BY <1>0, <1>2, <2>1, GetSessionDoes
  <2>3. UNCHANGED <<browser, worker, orderly>>
    BY <1>2, <2>2 DEF GetsSession, GetSession
  <2>4. Shape'
    BY <1>0, <2>2, <2>3 DEF Shape, BrowserShape, browser
  <2> QED
    BY <2>2, <2>3, <2>4 DEF Step, InOrder, Calm
<1>3. ASSUME NEW r \in Requests, Handle(r) PROVE Shape' /\ Step /\ InOrder
  <2>1. request[r].at \in Sessions
    BY <1>0, <1>3 DEF AtIsCreated, AtStage, Handle
  <2>2. /\ request' \in [Requests -> RequestShape] /\ server' \in [Sessions -> ServerShape]
        /\ worker' \in [Sessions -> [Requests -> Phases]]
        /\ Handles(r, request[r].at)
    BY <1>0, <1>3, <2>1, HandleDoes
  <2>3. UNCHANGED <<browser, alive, orderly>>
    BY <1>3, <2>2 DEF Handles, Handle
  <2>4. Shape'
    BY <1>0, <2>2, <2>3 DEF Shape, BrowserShape, browser
  <2> QED
    BY <2>1, <2>2, <2>3, <2>4 DEF Step, InOrder, Calm
<1>4. ASSUME NEW r \in Requests, Respond(r) PROVE Shape' /\ Step /\ InOrder
  <2>1. request[r].at \in Sessions
    BY <1>0, <1>4 DEF AtIsCreated, AtStage, Respond
  <2>2. /\ request' \in [Requests -> RequestShape] /\ server' \in [Sessions -> ServerShape]
        /\ Responds(r, request[r].at)
    BY <1>0, <1>4, <2>1, RespondDoes
  <2>3. UNCHANGED <<browser, alive, worker, orderly>>
    BY <1>4, <2>2 DEF Responds, Respond
  <2>4. Shape'
    BY <1>0, <2>2, <2>3 DEF Shape, BrowserShape, browser
  <2> QED
    BY <2>1, <2>2, <2>3, <2>4 DEF Step, InOrder, Calm
<1>5. ASSUME NEW s \in Sessions, NEW r \in Requests, Worker(s, r) PROVE Shape' /\ Step /\ InOrder
  <2>1. /\ server' \in [Sessions -> ServerShape]
        /\ worker' \in [Sessions -> [Requests -> Phases]]
        /\ WorksOnly(s)
        /\ \/ /\ Begins(s, r) \/ Acts(s, r) \/ Registers(s, r)
              /\ orderly' => orderly \/ Renews(s, r)
           \/ Interrupts(s, r) /\ ~orderly'
    BY <1>0, <1>5, WorkerDoes DEF WorksOnly
  <2>0. orderly' \in BOOLEAN
    BY <1>0, <1>5 DEF Worker, BeginWork, Work, WorkFails, Register
  <2>2. UNCHANGED <<browser, request, alive>>
    BY <2>1 DEF WorksOnly
  <2>3. Shape'
    BY <1>0, <2>0, <2>1, <2>2 DEF Shape, BrowserShape, browser
  <2>4. WorkStep
    BY <2>1 DEF WorkStep
  <2>5. orderly' => CalmWork /\ (orderly \/ RenewStep)
    BY <2>1 DEF CalmWork, RenewStep
  <2> QED
    BY <2>3, <2>4, <2>5 DEF Step, InOrder, Calm
<1>6. ASSUME NEW r \in Requests, OnMessage(r) PROVE Shape' /\ Step /\ InOrder
  <2>1. /\ BrowserShape' /\ request' \in [Requests -> RequestShape]
        /\ UNCHANGED <<alive, server, worker>>
        /\ Retries(r) \/ Receives(r) \/ ReceivesNewSession(r) \/ Drops(r)
    BY <1>0, <1>6, OnMessageDoes
  <2>2. orderly' = orderly
    BY <1>6 DEF OnMessage, ReceiveWait, Receive, ReceiveFromNewSession, Unheard
  <2> QED
    BY <1>0, <2>1, <2>2 DEF Shape, Step, InOrder, Calm
<1>7. ASSUME Reload PROVE Shape' /\ Step /\ InOrder
  <2>1. /\ BrowserShape' /\ request' \in [Requests -> RequestShape] /\ Reloads
        /\ orderly' = (orderly /\ AllAnswered)
    BY <1>0, <1>7, ReloadDoes DEF Reloads
  <2>2. UNCHANGED <<alive, server, worker>>
    BY <2>1 DEF Reloads
  <2> QED
    BY <1>0, <2>1, <2>2 DEF Shape, Step, InOrder, Calm
<1>8. ASSUME NEW s \in Sessions, DropSession(s) PROVE Shape' /\ Step /\ InOrder
  <2>1. DropsSession
    BY <1>8 DEF DropSession, DropsSession
  <2>2. Shape' /\ orderly' = orderly
    BY <1>0, <1>8 DEF DropSession, browser, BrowserShape, Shape
  <2> QED
    BY <2>1, <2>2 DEF Step, InOrder, Calm
<1>9. ASSUME UNCHANGED vars PROVE Shape' /\ Step /\ InOrder
  BY <1>0, <1>9 DEF vars, browser, Shape, BrowserShape, Step, Idles, InOrder, Calm
<1> QED
  BY <1>1, <1>2, <1>3, <1>4, <1>5, <1>6, <1>7, <1>8, <1>9 DEF Next, Http

-----------------------------------------------------------------------------
(* The shape of the state, in every state.                                 *)
LEMMA KindDoesNames ==
    ASSUME NEW v \in ServerShape, NEW e, NEW k, NEW r \in Requests, NEW p, NEW pages \in Lists,
           KindDoes(k, v, e, r, p, pages),
           NamesPage(v.output), v.output.op # "wait"
    PROVE  NamesPage(e.output) /\ e.output.op # "wait"
<1>1. v.visible \in Lists
  BY DEF ServerShape
<1>2. CASE OnePageShown(v, e, r)
  BY <1>2, OnePage, ShowsShape DEF OnePageShown, NamesPage
<1>3. CASE DetailShown(v, e, p, r)
  <2>1. p \in Requests
    BY <1>1, <1>3, ListProperties DEF DetailShown
  <2>2. /\ Shows("showPage", <<r>>, p).op = "showPage"
        /\ Shows("showPage", <<r>>, p).pages = <<r>>
    BY <2>1, OnePage, ShowsShape
  <2> QED
    BY <1>3, <2>2, OnePage DEF DetailShown, NamesPage
<1>4. CASE DetailHidden(v, e, p)
  <2> DEFINE q == v.visible[Index(v.visible, p) + 1]
  <2>1. Index(v.visible, p) + 1 \in 1 .. Len(v.visible)
    BY <1>1, <1>4, ListProperties, IndexProperties DEF DetailHidden
  <2>2. q \in Requests /\ e.output = Shows("hidePage", <<q>>, None)
    BY <1>1, <1>4, <2>1, ListProperties DEF DetailHidden
  <2> HIDE DEF q
  <2> QED
    BY <2>2, OnePage, ShowsShape DEF NamesPage
<1>5. CASE PagesShown(v, e, pages)
  BY <1>5, ShowsShape DEF PagesShown, NamesPage
<1>6. CASE ExpiredShown(v, e, r)
  BY <1>6, OnePage, ShowsShape DEF ExpiredShown, NamesPage
<1>7. CASE PagesClosed(v, e, p)
  BY <1>7 DEF PagesClosed
<1>8. CASE e = v
  BY <1>8
<1> QED
  BY <1>2, <1>3, <1>4, <1>5, <1>6, <1>7, <1>8 DEF KindDoes

LEMMA StateInitially ==
    ASSUME Init PROVE StateInv
<1>1. MaxSessions \in Nat /\ MaxRequests \in Nat
  BY JsonSessionAssumption
<1>2. << <<>> >> \in Seq(Lists) /\ Len(<< <<>> >>) = 1
  BY NoPages
<1>3. BrowserShape
  <2>1. history = << <<>> >> /\ position = 1 /\ session = None /\ shown = <<>>
        /\ blocked = FALSE /\ loading = TRUE
    BY DEF Init
  <2>2. position \in 1 .. Len(history) /\ history \in Seq(Lists)
    BY <1>2, <2>1
  <2> QED
    BY <2>1, <2>2, NoPages DEF BrowserShape
<1>4. Unsent \in RequestShape /\ Unsent.stage = "unsent" /\ Unsent.answer = Nothing
  BY NoPages, NothingShape DEF Unsent, RequestShape, Stages, Kinds, None
<1>5. \A r \in Requests : request[r] = Unsent
  BY DEF Init
<1>6. request \in [Requests -> RequestShape]
  BY <1>4 DEF Init
<1> DEFINE new == [created |-> FALSE, thread |-> None, holder |-> None, output |-> Nothing,
                   store |-> <<>>, visible |-> <<>>, components |-> {}]
<1>7. new \in ServerShape /\ new.output = Nothing
  BY NoPages, NothingShape DEF ServerShape, None
<1>8. server = [s \in Sessions |-> new]
  BY DEF Init
<1> HIDE DEF new
<1>9. server \in [Sessions -> ServerShape] /\ \A s \in Sessions : server[s].output = Nothing
  BY <1>7, <1>8
<1>10. worker \in [Sessions -> [Requests -> Phases]] /\ alive = {}
  BY DEF Init, Phases
<1>11. Shape
  <2>1. orderly \in BOOLEAN
    BY DEF Init
  <2> QED
    BY <1>3, <1>6, <1>9, <1>10, <2>1 DEF Shape
<1>12. OutputsNamePage
  BY <1>4, <1>5, <1>9, NothingShape DEF OutputsNamePage
<1>13. AtIsCreated
  BY <1>4, <1>5 DEF AtIsCreated, AtStage
<1>14. AliveAreCreated
  BY <1>10 DEF AliveAreCreated
<1> QED
  BY <1>11, <1>12, <1>13, <1>14 DEF StateInv, ShapeInv

LEMMA StateStep ==
    ASSUME StateInv, [Next]_vars
    PROVE  StateInv'
<1>0. /\ Shape /\ OutputsNamePage /\ AtIsCreated /\ AliveAreCreated
      /\ request \in [Requests -> RequestShape] /\ alive \in SUBSET Sessions
      /\ server \in [Sessions -> ServerShape]
  BY DEF StateInv, ShapeInv, Shape
<1>1. Shape' /\ Step
  BY StepIs
<1>2. OutputsNamePage'
  <2>0. /\ \A s \in Sessions : NamesPage(server[s].output) /\ server[s].output.op # "wait"
        /\ \A r \in Requests : NamesPage(request[r].answer)
    BY <1>0 DEF OutputsNamePage
  <2>1. CASE UNCHANGED <<request, server>>
    BY <1>0, <2>1 DEF OutputsNamePage
  <2>2. CASE SendStep
    <3>1. PICK r \in Requests : OthersStay(r) /\ request'[r].answer = Nothing /\ server' = server
      BY <2>2 DEF SendStep, IsSent
    <3> QED
      BY <2>0, <3>1, NothingShape DEF OutputsNamePage, OthersStay
  <2>3. ASSUME NEW r \in Requests, NEW s \in Sessions,
               GetsSession(r, s) \/ Handles(r, s) \/ Responds(r, s)
        PROVE  OutputsNamePage'
    <3>1. \A t \in Sessions : server'[t].output = server[t].output
      BY <2>3 DEF GetsSession, Handles, Responds, ListsStay, OtherSessionsStay
    <3>2. NamesPage(request'[r].answer)
      <4>1. CASE request'[r].answer = request[r].answer
        BY <2>0, <4>1
      <4>2. CASE Responds(r, s)
        <5>1. server[s].output \in OutputShape
          BY <1>0 DEF ServerShape
        <5> DEFINE out == [server[s].output EXCEPT !.session = s]
        <5>2. out.op = server[s].output.op /\ out.pages = server[s].output.pages
          BY <5>1 DEF OutputShape
        <5>3. NamesPage(out)
          BY <2>0, <5>2 DEF NamesPage
        <5>4. NamesPage([Nothing EXCEPT !.op = "wait"])
          BY DEF Nothing, NamesPage
        <5>5. request'[r].answer = out \/ request'[r].answer = [Nothing EXCEPT !.op = "wait"]
          BY <4>2 DEF Responds
        <5> QED
          BY <5>3, <5>4, <5>5
      <4> QED
        BY <2>3, <4>1, <4>2 DEF GetsSession, Handles
    <3>3. OthersStay(r)
      BY <2>3 DEF GetsSession, Handles, Responds
    <3> QED
      BY <2>0, <3>1, <3>2, <3>3 DEF OutputsNamePage, OthersStay
  <2>4. CASE WorkStep
    <3>1. PICK s \in Sessions : \E r \in Requests :
            WorksOnly(s) /\ (Begins(s, r) \/ Acts(s, r) \/ Registers(s, r) \/ Interrupts(s, r))
      BY <2>4 DEF WorkStep
    <3>2. PICK r \in Requests :
            WorksOnly(s) /\ (Begins(s, r) \/ Acts(s, r) \/ Registers(s, r) \/ Interrupts(s, r))
      BY <3>1
    <3>3. NamesPage(server'[s].output) /\ server'[s].output.op # "wait"
      <4>1. CASE Begins(s, r)
        BY <4>1, NothingShape DEF Begins
      <4>2. CASE Registers(s, r)
        BY <2>0, <4>2 DEF Registers
      <4>3. CASE server' = server
        BY <2>0, <4>3
      <4>4. CASE KindDoes(Kind(s, r), server[s], server'[s], r, request[r].page, request[r].pages)
        <5>1. server[s] \in ServerShape /\ request[r].pages \in Lists
          BY <1>0 DEF RequestShape
        <5> QED
          BY <2>0, <4>4, <5>1, KindDoesNames
      <4>5. CASE Interrupts(s, r)
        <5>1. request[r].pages \in Lists
          BY <1>0 DEF RequestShape
        <5>2. CASE server'[s].output = server[s].output
          BY <2>0, <5>2
        <5>3. CASE OnePageShown(server[s], server'[s], r)
          BY <5>3, OnePage, ShowsShape DEF OnePageShown, NamesPage
        <5>4. CASE PagesShown(server[s], server'[s], request[r].pages)
          BY <5>1, <5>4, ShowsShape DEF PagesShown, NamesPage
        <5> QED
          BY <4>5, <5>2, <5>3, <5>4 DEF Interrupts, HalfDone
      <4> QED
        BY <3>2, <4>1, <4>2, <4>3, <4>4, <4>5 DEF Acts
    <3>4. request' = request /\ OtherSessionsStay(s)
      BY <3>2 DEF WorksOnly
    <3> QED
      BY <2>0, <3>3, <3>4 DEF OutputsNamePage, OtherSessionsStay
  <2>5. ASSUME NEW r \in Requests,
               Retries(r) \/ Receives(r) \/ ReceivesNewSession(r) \/ Drops(r)
        PROVE  OutputsNamePage'
    <3>1. /\ server' = server
          /\ \A q \in Requests : request'[q].answer \in {request[q].answer, Nothing}
      BY <2>5 DEF Retries, Receives, ReceivesNewSession, Drops, Hears, IsClosed, OthersStay,
                  IsUnheard
    <3> QED
      BY <2>0, <3>1, NothingShape DEF OutputsNamePage
  <2>6. CASE Reloads
    <3>1. /\ server' = server
          /\ \A q \in Requests : request'[q].answer = request[q].answer
      BY <2>6 DEF Reloads, IsUnheard
    <3> QED
      BY <2>0, <3>1 DEF OutputsNamePage
  <2> QED
    BY <1>1, <2>1, <2>2, <2>3, <2>4, <2>5, <2>6 DEF Step, Idles, DropsSession
<1>3. /\ \A s \in Sessions : server[s].created => server'[s].created
      /\ AliveAreCreated'
  <2>1. ASSUME NEW r \in Requests, NEW s \in Sessions, GetsSession(r, s)
        PROVE  /\ \A t \in Sessions : server[t].created => server'[t].created
               /\ AliveAreCreated'
    BY <1>0, <2>1 DEF GetsSession, OtherSessionsStay, AliveAreCreated
  <2>2. ASSUME NEW r \in Requests, NEW s \in Sessions, Handles(r, s) \/ Responds(r, s)
        PROVE  /\ \A t \in Sessions : server[t].created => server'[t].created
               /\ AliveAreCreated'
    <3>1. OtherSessionsStay(s) /\ server'[s].created = server[s].created /\ alive' = alive
      BY <2>2 DEF Handles, Responds
    <3> QED
      BY <1>0, <3>1 DEF OtherSessionsStay, AliveAreCreated
  <2>3. CASE WorkStep
    <3>1. PICK s \in Sessions : WorksOnly(s)
      BY <2>3 DEF WorkStep
    <3> QED
      BY <1>0, <3>1 DEF WorksOnly, OtherSessionsStay, AliveAreCreated
  <2>4. CASE server' = server /\ alive' \subseteq alive
    BY <1>0, <2>4 DEF AliveAreCreated
  <2>5. Idles \/ SendStep \/ Reloads \/ DropsSession => server' = server /\ alive' \subseteq alive
    BY DEF Idles, SendStep, Reloads, DropsSession
  <2>6. \A r \in Requests : Retries(r) \/ Receives(r) \/ ReceivesNewSession(r) \/ Drops(r)
           => server' = server /\ alive' \subseteq alive
    BY DEF Retries, Receives, ReceivesNewSession, Drops, Hears
  <2> QED
    BY <1>1, <2>1, <2>2, <2>3, <2>4, <2>5, <2>6 DEF Step
<1>4. AtIsCreated'
  <2>0. \A r \in Requests : AtStage(r) => request[r].at \in Sessions /\ server[request[r].at].created
    BY <1>0 DEF AtIsCreated
  <2>1. \A r \in Requests : AtStage(r)' =>
           \/ AtStage(r) /\ request'[r].at = request[r].at
           \/ request'[r].at \in Sessions /\ server'[request'[r].at].created
    <3>1. CASE UNCHANGED request
      BY <3>1 DEF AtStage
    <3>2. CASE SendStep
      BY <3>2 DEF SendStep, IsSent, OthersStay, AtStage
    <3>3. ASSUME NEW r \in Requests, NEW s \in Sessions,
                 GetsSession(r, s) \/ Handles(r, s) \/ Responds(r, s)
          PROVE  \A q \in Requests : AtStage(q)' =>
                    \/ AtStage(q) /\ request'[q].at = request[q].at
                    \/ request'[q].at \in Sessions /\ server'[request'[q].at].created
      BY <3>3 DEF GetsSession, Handles, Responds, OthersStay, AtStage
    <3>4. ASSUME NEW r \in Requests,
                 Retries(r) \/ Receives(r) \/ ReceivesNewSession(r) \/ Drops(r)
          PROVE  \A q \in Requests : AtStage(q)' =>
                    AtStage(q) /\ request'[q].at = request[q].at
      BY <3>4 DEF Retries, Receives, ReceivesNewSession, Drops, Hears, IsClosed, OthersStay,
                  IsUnheard, AtStage
    <3>5. CASE Reloads
      BY <3>5 DEF Reloads, IsUnheard, AtStage
    <3>6. WorkStep => UNCHANGED request
      BY DEF WorkStep, WorksOnly
    <3> QED
      BY <1>1, <3>1, <3>2, <3>3, <3>4, <3>5, <3>6 DEF Step, Idles, DropsSession
  <2> QED
    BY <1>3, <2>0, <2>1 DEF AtIsCreated
<1> QED
  BY <1>1, <1>2, <1>3, <1>4 DEF StateInv, ShapeInv

(* The fields have the values the code gives them, pages aside: the list   *)
(* of an output that shows a page is not empty, a session that handles a   *)
(* request exists, and so do the sessions in JsonSessionManager.sessions.  *)
THEOREM StateIsShaped == Spec => []StateInv
<1>1. Init => StateInv
  BY StateInitially
<1>2. StateInv /\ [Next]_vars => StateInv'
  BY StateStep
<1> QED
  BY <1>1, <1>2, PTL DEF Spec

-----------------------------------------------------------------------------
(* A request is handled once.                                              *)
NotYet(r) ==
    \/ request[r].stage = "unsent"
    \/ request[r].stage \in {"sent", "queued"} /\ ~request[r].retry

(* No session has a worker for a request before it is first handled.       *)
Unhandled == \A r \in Requests : NotYet(r) => \A s \in Sessions : worker[s][r] = "none"

(* A session that ever had a worker still has its last thread.             *)
HasThread == \A s \in Sessions, r \in Requests : worker[s][r] # "none" => server[s].thread # None

HandledInv == StateInv /\ Unhandled /\ HasThread

(* Workers are started by requests and go on by themselves.                *)
LEMMA WorkersChange ==
    ASSUME Step
    PROVE  worker' = worker \/ WorkStep \/ \E r \in Requests, s \in Sessions : Handles(r, s)
<1>1. Idles \/ SendStep \/ Reloads \/ DropsSession => worker' = worker
  BY DEF Idles, SendStep, Reloads, DropsSession
<1>2. ASSUME NEW r \in Requests, NEW s \in Sessions, GetsSession(r, s) \/ Responds(r, s)
      PROVE  worker' = worker
  BY <1>2 DEF GetsSession, Responds
<1>3. ASSUME NEW r \in Requests,
             Retries(r) \/ Receives(r) \/ ReceivesNewSession(r) \/ Drops(r)
      PROVE  worker' = worker
  BY <1>3 DEF Retries, Receives, ReceivesNewSession, Drops, Hears
<1> QED
  BY <1>1, <1>2, <1>3 DEF Step

(* A worker that takes a step was there before, and has not just started.  *)
LEMMA WorkersAdvance ==
    ASSUME WorkStep
    PROVE  \E s \in Sessions : \E r \in Requests :
              /\ worker[s][r] # "none"
              /\ \E phase \in {"running", "acted", "failed", "done"} :
                    WorkerIs(s, r, phase) /\ (phase = "running" => worker[s][r] = "started")
<1>1. PICK s \in Sessions, r \in Requests :
          Begins(s, r) \/ Acts(s, r) \/ Registers(s, r) \/ Interrupts(s, r)
  BY DEF WorkStep
<1>2. CASE Begins(s, r)
  BY <1>2 DEF Begins
<1>3. CASE Acts(s, r)
  BY <1>3 DEF Acts
<1>4. CASE Registers(s, r)
  BY <1>4 DEF Registers
<1>5. CASE Interrupts(s, r)
  BY <1>5 DEF Interrupts
<1> QED
  BY <1>1, <1>2, <1>3, <1>4, <1>5

LEMMA HandledStep ==
    ASSUME HandledInv, [Next]_vars
    PROVE  Unhandled' /\ HasThread'
<1>0. StateInv /\ Unhandled /\ HasThread /\ Step
  BY StepIs DEF HandledInv
<1>1. \A s \in Sessions, r \in Requests :
         \/ worker'[s][r] = "none" <=> worker[s][r] = "none"
         \/ request[r].stage = "queued" /\ request'[r].stage = "joining" /\ server'[s].thread = r
  <2>1. CASE worker' = worker
    BY <2>1
  <2>2. ASSUME NEW r \in Requests, NEW s \in Sessions, Handles(r, s)
        PROVE  \A t \in Sessions, q \in Requests :
                 \/ worker'[t][q] = "none" <=> worker[t][q] = "none"
                 \/ request[q].stage = "queued" /\ request'[q].stage = "joining"
                    /\ server'[t].thread = q
    BY <2>2 DEF Handles, WorkerIs
  <2>3. CASE WorkStep
    BY <2>3, WorkersAdvance DEF WorkerIs
  <2>4. worker' = worker \/ WorkStep \/ \E r \in Requests, s \in Sessions : Handles(r, s)
    BY <1>0, WorkersChange
  <2> QED
    BY <2>1, <2>2, <2>3, <2>4
<1>2. \A r \in Requests : NotYet(r)' => NotYet(r)
  <2>1. CASE request' = request
    BY <2>1 DEF NotYet
  <2>2. CASE SendStep
    BY <2>2 DEF SendStep, Sends, IsSent, OthersStay, NotYet
  <2>3. ASSUME NEW r \in Requests, NEW s \in Sessions,
               GetsSession(r, s) \/ Handles(r, s) \/ Responds(r, s)
        PROVE  \A q \in Requests : NotYet(q)' => NotYet(q)
    BY <2>3 DEF GetsSession, Handles, Responds, OthersStay, NotYet
  <2>4. ASSUME NEW r \in Requests,
               Retries(r) \/ Receives(r) \/ ReceivesNewSession(r) \/ Drops(r)
        PROVE  \A q \in Requests : NotYet(q)' => NotYet(q)
    BY <2>4 DEF Retries, Receives, ReceivesNewSession, Drops, Hears, IsClosed, OthersStay,
                IsUnheard, NotYet
  <2>5. CASE Reloads
    BY <2>5 DEF Reloads, IsUnheard, NotYet
  <2> QED
    BY <1>0, <2>1, <2>2, <2>3, <2>4, <2>5 DEF Step, Idles, DropsSession, WorkStep, WorksOnly
<1>3. Unhandled'
  BY <1>0, <1>1, <1>2 DEF Unhandled, NotYet
<1>4. \A s \in Sessions : server'[s].thread \in {server[s].thread} \cup Requests
  <2>1. ASSUME NEW r \in Requests, NEW s \in Sessions,
               GetsSession(r, s) \/ Handles(r, s) \/ Responds(r, s)
        PROVE  \A t \in Sessions : server'[t].thread \in {server[t].thread} \cup Requests
    BY <2>1 DEF GetsSession, Handles, Responds, OtherSessionsStay
  <2>2. CASE WorkStep
    BY <2>2 DEF WorkStep, WorksOnly, OtherSessionsStay
  <2>3. \/ server' = server \/ WorkStep
        \/ \E r \in Requests : \E s \in Sessions :
             GetsSession(r, s) \/ Handles(r, s) \/ Responds(r, s)
    BY <1>0 DEF Step, Idles, SendStep, Reloads, DropsSession,
                Retries, Receives, ReceivesNewSession, Drops, Hears
  <2> QED
    BY <2>1, <2>2, <2>3
<1>5. \A r \in Requests : r # None
  BY DEF Requests, None
<1>6. HasThread'
  BY <1>0, <1>1, <1>4, <1>5 DEF HasThread
<1> QED
  BY <1>3, <1>6

LEMMA HandledOnceStep ==
    ASSUME HandledInv, [Next]_vars
    PROVE  \A s \in Sessions, r \in Requests :
              worker'[s][r] = "started" => worker[s][r] \in {"none", "started"}
<1>0. StateInv /\ Unhandled /\ HasThread /\ Step
  BY StepIs DEF HandledInv
<1>1. ASSUME NEW r \in Requests, NEW s \in Sessions, Handles(r, s)
      PROVE  \A t \in Sessions, q \in Requests :
                worker'[t][q] = "started" => worker[t][q] \in {"none", "started"}
  <2>1. CASE ~request[r].retry \/ server[s].thread = None
    <3>1. worker[s][r] = "none"
      BY <1>0, <1>1, <2>1 DEF Handles, Unhandled, NotYet, HasThread
    <3> QED
      BY <1>1, <2>1, <3>1 DEF Handles, WorkerIs
  <2>2. CASE ~(~request[r].retry \/ server[s].thread = None)
    BY <1>1, <2>2 DEF Handles
  <2> QED
    BY <2>1, <2>2
<1>2. CASE WorkStep
  BY <1>2, WorkersAdvance DEF WorkerIs
<1>3. worker' = worker \/ WorkStep \/ \E r \in Requests, s \in Sessions : Handles(r, s)
  BY <1>0, WorkersChange
<1> QED
  BY <1>1, <1>2, <1>3

(* A session does the work of a request at most once, however often the    *)
(* browser asks for its answer: handle starts a thread only for a request  *)
(* that is not a retry, or when the session has had no thread.             *)
THEOREM RequestsAreHandledOnce == Spec => HandledOnce
<1>1. Init => HandledInv
  <2>1. ASSUME Init PROVE \A s \in Sessions, r \in Requests : worker[s][r] = "none"
    BY <2>1 DEF Init
  <2> QED
    BY <2>1, StateInitially DEF HandledInv, Unhandled, HasThread
<1>2. HandledInv /\ [Next]_vars => HandledInv'
  BY StateStep, HandledStep DEF HandledInv
<1>3. HandledInv /\ [Next]_vars =>
          [\A s \in Sessions, r \in Requests :
              worker'[s][r] = "started" => worker[s][r] \in {"none", "started"}]_vars
  BY HandledOnceStep
<1> QED
  BY <1>1, <1>2, <1>3, PTL DEF Spec, HandledOnce

-----------------------------------------------------------------------------
(* Lists of pages rise: a page is right of the page it was opened from.    *)
Rising(s) == \A i, j \in 1 .. Len(s) : i < j => s[i] < s[j]

LEMMA RisingIsDistinct ==
    ASSUME NEW s \in Lists, Rising(s)
    PROVE  Distinct(s) /\ s \in Pages
<1>1. Len(s) \in Nat /\ \A i \in 1 .. Len(s) : s[i] \in Nat
  BY ListProperties DEF Requests
<1>2. Distinct(s)
  <2> SUFFICES ASSUME NEW i \in 1 .. Len(s), NEW j \in 1 .. Len(s), s[i] = s[j] PROVE i = j
    BY DEF Distinct
  <2>1. ~(i < j) /\ ~(j < i)
    BY <1>1 DEF Rising
  <2> QED
    BY <1>1, <2>1
<1> QED
  BY <1>2, PagesAreDistinct

LEMMA NoPagesRise == Rising(<<>>) /\ \A p : Rising(<<p>>)
<1>1. Len(<<>>) = 0 /\ \A p : Len(<<p>>) = 1
  OBVIOUS
<1> QED
  BY <1>1 DEF Rising

LEMMA PrefixRises ==
    ASSUME NEW s \in Lists, Rising(s), NEW k \in 0 .. Len(s)
    PROVE  Rising(SubSeq(s, 1, k))
<1>1. /\ Len(SubSeq(s, 1, k)) = k /\ \A i \in 1 .. k : SubSeq(s, 1, k)[i] = s[i]
      /\ Len(s) \in Nat
  BY Prefix, ListProperties
<1>2. \A i \in 1 .. k : i \in 1 .. Len(s)
  BY <1>1
<1> QED
  BY <1>1, <1>2 DEF Rising

LEMMA PartsRise ==
    ASSUME NEW s \in Lists, Rising(s), NEW p \in Items(s)
    PROVE  Rising(Before(s, p)) /\ Rising(Through(s, p))
<1>1. Index(s, p) - 1 \in 0 .. Len(s) /\ Index(s, p) \in 0 .. Len(s)
  BY IndexProperties, ListProperties
<1> QED
  BY <1>1, PrefixRises DEF Before, Through

(* A page after its master page.                                           *)
LEMMA AfterMasterRises ==
    ASSUME NEW s \in Lists, Rising(s), NEW m \in Items(s), NEW p \in Requests, m < p
    PROVE  Rising(Append(Through(s, m), p))
<1> DEFINE t == Through(s, m)
           a == Append(t, p)
           k == Index(s, m)
<1>1. k \in 1 .. Len(s) /\ s[k] = m /\ Len(s) \in Nat
  BY IndexProperties, ListProperties
<1>2. /\ t \in Lists /\ Len(t) = k /\ \A i \in 1 .. k : t[i] = s[i]
  BY ThroughProperties
<1> HIDE DEF t
<1>3. /\ Len(a) = k + 1 /\ a[k + 1] = p /\ \A i \in 1 .. k : a[i] = s[i]
  BY <1>2, AppendPage
<1>4. \A i \in 1 .. Len(s) : s[i] \in Nat
  BY ListProperties DEF Requests
<1>5. p \in Nat
  BY DEF Requests
<1> HIDE DEF a, k
<1>6. ASSUME NEW i \in 1 .. k PROVE s[i] < p
  <2>1. i = k \/ s[i] < m
    BY <1>1 DEF Rising
  <2>2. s[i] \in Nat /\ m \in Nat
    BY <1>1, <1>4
  <2> QED
    BY <1>1, <1>5, <2>1, <2>2
<1>7. ASSUME NEW i \in 1 .. k + 1, NEW j \in 1 .. k + 1, i < j PROVE a[i] < a[j]
  <2>1. i \in 1 .. k /\ (j = k + 1 \/ j \in 1 .. k)
    BY <1>1, <1>7
  <2>2. CASE j = k + 1
    BY <1>3, <1>6, <2>1, <2>2
  <2>3. CASE j \in 1 .. k
    <3>1. s[i] < s[j]
      BY <1>1, <1>7, <2>1, <2>3 DEF Rising
    <3> QED
      BY <1>3, <2>1, <2>3, <3>1
  <2> QED
    BY <2>1, <2>2, <2>3
<1>8. Rising(a)
  BY <1>3, <1>7 DEF Rising
<1> QED
  BY <1>8 DEF a, t

-----------------------------------------------------------------------------
(* Lists name no page twice, a store is never longer than HISTORY_LENGTH.  *)
Fits(store) == Len(store) <= HistoryLength

HasRun(s, r) == worker[s][r] \in {"acted", "done", "failed"}

WasSent(pages) == \A p \in Items(pages) : request[p].stage # "unsent"

Proper(pages) == Rising(pages) /\ WasSent(pages)

(* A page that is shown right of its master page.                          *)
Upward(out) == Rising(out.pages) /\ (out.op = "showPage" => out.master < out.pages[1])

ProperOutput(out) == Upward(out) /\ WasSent(out.pages)

SentInOrder ==
    \A q, r \in Requests : q < r /\ request[r].stage # "unsent" => request[q].stage # "unsent"

PageIsOlder == \A r \in Requests : request[r].page < r

ProperPages ==
    /\ Proper(shown)
    /\ \A i \in 1 .. Len(history) : Proper(history[i])
    /\ \A r \in Requests : Proper(request[r].pages) /\ ProperOutput(request[r].answer)
    /\ \A s \in Sessions : ProperOutput(server[s].output)

SessionPages ==
    \A s \in Sessions :
        /\ Distinct(server[s].store) /\ Fits(server[s].store)
        /\ Rising(server[s].visible)
        /\ \A p \in Items(server[s].store) \cup Items(server[s].visible) : HasRun(s, p)

ListsInv == SentInOrder /\ PageIsOlder /\ ProperPages /\ SessionPages

LEMMA WorkDoesLists ==
    ASSUME NEW v \in ServerShape, NEW e, NEW r \in Requests, NEW p \in Requests \cup {None},
           p < r, NEW pages \in Lists,
           (\E k : KindDoes(k, v, e, r, p, pages)) \/ HalfDone(v, e, r, p, pages),
           Distinct(v.store), Rising(v.visible), Rising(pages),
           Fits(v.store), r \notin Items(v.store)
    PROVE  /\ Distinct(e.store) /\ Fits(e.store) /\ Rising(e.visible)
           /\ Items(e.store) \subseteq Items(v.store) \cup {r}
           /\ Items(e.visible) \subseteq Items(v.store) \cup Items(v.visible) \cup {r}
           /\ \/ e.output = v.output
              \/ /\ Upward(e.output)
                 /\ Items(e.output.pages) \subseteq Items(v.visible) \cup Items(pages) \cup {r}
<1> DEFINE Goal ==
              /\ Distinct(e.store) /\ Fits(e.store) /\ Rising(e.visible)
              /\ Items(e.store) \subseteq Items(v.store) \cup {r}
              /\ Items(e.visible) \subseteq Items(v.store) \cup Items(v.visible) \cup {r}
              /\ \/ e.output = v.output
                 \/ /\ Upward(e.output)
                    /\ Items(e.output.pages) \subseteq Items(v.visible) \cup Items(pages) \cup {r}
<1>0. v.visible \in Lists /\ v.store \in Lists
  BY DEF ServerShape
<1>1. /\ Distinct(Put(v.store, r)) /\ Fits(Put(v.store, r))
      /\ Items(Put(v.store, r)) \subseteq Items(v.store) \cup {r}
  BY <1>0, PutProperties DEF Fits
<1>2. /\ Rising(<<r>>) /\ Items(<<r>>) = {r} /\ Rising(<<>>) /\ Items(<<>>) = {}
      /\ <<r>> \in Lists /\ <<r>>[1] = r /\ r \in Nat /\ None < r
  BY OnePage, NoPages, NoPagesRise DEF Requests, None
<1>3. ASSUME OnePageShown(v, e, r) PROVE Goal
  <2>1. e.output.op = "showPage" /\ e.output.pages = <<r>> /\ e.output.master = None
    BY <1>2, <1>3, ShowsShape DEF OnePageShown
  <2> QED
    BY <1>1, <1>2, <1>3, <2>1 DEF OnePageShown, Upward
<1>4. CASE DetailShown(v, e, p, r)
  <2>1. p \in Items(v.visible) /\ p \in Requests
    BY <1>0, <1>4, ListProperties DEF DetailShown
  <2> DEFINE t == Through(v.visible, p)
  <2>2. t \in Lists /\ Items(t) \subseteq Items(v.visible)
    BY <1>0, <2>1, ThroughProperties
  <2>3. e.visible = Append(t, r) /\ Rising(Append(t, r))
    BY <1>0, <1>4, <2>1, AfterMasterRises DEF DetailShown
  <2> HIDE DEF t
  <2>4. Items(e.visible) \subseteq Items(v.visible) \cup {r}
    BY <2>2, <2>3, AppendPage
  <2>5. e.output.op = "showPage" /\ e.output.pages = <<r>> /\ e.output.master = p
    BY <1>2, <1>4, <2>1, ShowsShape DEF DetailShown
  <2> QED
    BY <1>1, <1>2, <1>4, <2>3, <2>4, <2>5 DEF DetailShown, Upward
<1>5. CASE DetailHidden(v, e, p)
  <2> DEFINE q == v.visible[Index(v.visible, p) + 1]
  <2>1. Index(v.visible, p) + 1 \in 1 .. Len(v.visible) /\ p \in Items(v.visible)
    BY <1>0, <1>5, ListProperties, IndexProperties DEF DetailHidden
  <2>2. /\ q \in Requests /\ q \in Items(v.visible)
        /\ e.output = Shows("hidePage", <<q>>, None)
    BY <1>0, <1>5, <2>1, ListProperties DEF DetailHidden
  <2> HIDE DEF q
  <2>3. e.output.op = "hidePage" /\ e.output.pages = <<q>> /\ Items(<<q>>) = {q} /\ Rising(<<q>>)
    BY <2>2, OnePage, NoPagesRise, ShowsShape
  <2>4. Rising(e.visible) /\ Items(e.visible) \subseteq Items(v.visible)
    BY <1>0, <1>5, <2>1, ThroughProperties, PartsRise DEF DetailHidden
  <2>5. e.store = v.store
    BY <1>5 DEF DetailHidden
  <2> QED
    BY <2>2, <2>3, <2>4, <2>5 DEF Upward
<1>6. ASSUME PagesShown(v, e, pages) PROVE Goal
  <2>1. Items(pages) \subseteq Items(v.store) /\ e.store = GetAll(v.store, pages)
        /\ e.visible = pages /\ e.output = Shows("showPages", pages, None)
    BY <1>6 DEF PagesShown
  <2>2. e.output.op = "showPages" /\ e.output.pages = pages
    BY <2>1, ShowsShape
  <2> QED
    BY <1>0, <2>1, <2>2, GetAllProperties DEF Fits, Upward
<1>7. CASE ExpiredShown(v, e, r)
  <2>1. e.output.op = "showPages" /\ e.output.pages = <<r>>
    BY <1>2, <1>7, ShowsShape DEF ExpiredShown
  <2> QED
    BY <1>1, <1>2, <1>7, <2>1 DEF ExpiredShown, Upward
<1>8. CASE PagesClosed(v, e, p)
  BY <1>0, <1>8, BeforeProperties, PartsRise DEF PagesClosed
<1>9. CASE e = v
  BY <1>9
<1>10. CASE HalfDone(v, e, r, p, pages)
  <2>1. CASE e.output = v.output /\ e.store = v.store /\ e.visible = v.visible
    BY <2>1
  <2>2. CASE /\ e.output = v.output /\ e.store = Put(v.store, r)
             /\ \/ e.visible = <<>>
                \/ p \in Items(v.visible) /\ e.visible = Through(v.visible, p)
    <3>1. Rising(e.visible) /\ Items(e.visible) \subseteq Items(v.visible)
      BY <1>0, <1>2, <2>2, ThroughProperties, PartsRise
    <3> QED
      BY <1>1, <2>2, <3>1
  <2>3. CASE /\ Items(pages) \subseteq Items(v.store) /\ e.output = v.output
             /\ \E n \in 1 .. Len(pages) : /\ e.visible = SubSeq(pages, 1, n)
                                           /\ e.store = GetAll(v.store, SubSeq(pages, 1, n))
    <3>1. PICK n \in 1 .. Len(pages) : /\ e.visible = SubSeq(pages, 1, n)
                                       /\ e.store = GetAll(v.store, SubSeq(pages, 1, n))
      BY <2>3
    <3> DEFINE x == SubSeq(pages, 1, n)
    <3>2. x \in Lists /\ Rising(x) /\ Items(x) \subseteq Items(pages)
      <4>1. n \in 0 .. Len(pages)
        BY ListProperties
      <4> QED
        BY <4>1, Prefix, PrefixRises
    <3>3. e.visible = x /\ e.store = GetAll(v.store, x)
      BY <3>1
    <3> HIDE DEF x
    <3>4. Items(x) \subseteq Items(v.store) /\ e.output = v.output
      BY <2>3, <3>2
    <3>5. /\ Len(e.store) = Len(v.store) /\ Items(e.store) = Items(v.store)
          /\ Distinct(e.store)
      BY <1>0, <3>2, <3>3, <3>4, GetAllProperties
    <3> QED
      BY <3>2, <3>3, <3>4, <3>5 DEF Fits
  <2> HIDE DEF Goal
  <2>4. Goal
    BY <1>3, <1>6, <1>10, <2>1, <2>2, <2>3 DEF HalfDone, Goal
  <2> QED
    BY <2>4 DEF Goal
<1> HIDE DEF Goal
<1>11. Goal
  BY <1>3, <1>4, <1>5, <1>6, <1>7, <1>8, <1>9, <1>10 DEF KindDoes, Goal
<1> QED
  BY <1>11 DEF Goal

-----------------------------------------------------------------------------
(* ListsInv is kept.                                                       *)
TypesInv == HandledInv /\ ListsInv

LEMMA RunStays ==
    ASSUME HandledInv, [Next]_vars, NEW s \in Sessions, NEW r \in Requests, HasRun(s, r)
    PROVE  HasRun(s, r)'
<1>0. Step /\ (worker'[s][r] = "started" => worker[s][r] \in {"none", "started"})
  BY StepIs, HandledOnceStep DEF HandledInv
<1>1. worker'[s][r] # "started"
  BY <1>0 DEF HasRun
<1>2. ASSUME NEW q \in Requests, NEW t \in Sessions, Handles(q, t)
      PROVE  HasRun(s, r)'
  BY <1>1, <1>2 DEF Handles, WorkerIs, HasRun
<1>3. CASE WorkStep
  BY <1>3, WorkersAdvance DEF WorkerIs, HasRun
<1>4. worker' = worker \/ WorkStep \/ \E q \in Requests, t \in Sessions : Handles(q, t)
  BY <1>0, WorkersChange
<1> QED
  BY <1>2, <1>3, <1>4 DEF HasRun

(* A request stays sent, and only the browser sends one.                   *)
LEMMA SentStays ==
    ASSUME Step
    PROVE  /\ \A r \in Requests : request[r].stage # "unsent" => request'[r].stage # "unsent"
           /\ SendStep \/ \A r \in Requests :
                 request'[r].stage # "unsent" => request[r].stage # "unsent"
<1> DEFINE Same(r) == request[r].stage # "unsent" <=> request'[r].stage # "unsent"
<1>1. CASE request' = request
  BY <1>1
<1>2. CASE SendStep
  BY <1>2 DEF SendStep, IsSent, OthersStay
<1>3. ASSUME NEW r \in Requests, NEW s \in Sessions,
             GetsSession(r, s) \/ Handles(r, s) \/ Responds(r, s)
      PROVE  \A q \in Requests : Same(q)
  BY <1>3 DEF GetsSession, Handles, Responds, OthersStay
<1>4. ASSUME NEW r \in Requests,
             Retries(r) \/ Receives(r) \/ ReceivesNewSession(r) \/ Drops(r)
      PROVE  \A q \in Requests : Same(q)
  BY <1>4 DEF Retries, Receives, ReceivesNewSession, Drops, Hears, IsClosed, OthersStay, IsUnheard
<1>5. CASE Reloads
  BY <1>5 DEF Reloads, IsUnheard
<1> QED
  BY <1>1, <1>2, <1>3, <1>4, <1>5 DEF Step, Idles, DropsSession, WorkStep, WorksOnly

(* A session changes its lists only in a worker.                           *)
LEMMA ListsStayUntilWork ==
    ASSUME Step, ~WorkStep
    PROVE  \A s \in Sessions : ListsStay(s)
<1>1. ASSUME server' = server PROVE \A s \in Sessions : ListsStay(s)
  BY <1>1 DEF ListsStay
<1>2. ASSUME NEW r \in Requests, NEW s \in Sessions,
             GetsSession(r, s) \/ Handles(r, s) \/ Responds(r, s)
      PROVE  \A t \in Sessions : ListsStay(t)
  <2>1. ListsStay(s) /\ OtherSessionsStay(s)
    BY <1>2 DEF GetsSession, Handles, Responds
  <2> QED
    BY <2>1 DEF OtherSessionsStay, ListsStay
<1>3. ASSUME NEW r \in Requests,
             Retries(r) \/ Receives(r) \/ ReceivesNewSession(r) \/ Drops(r)
      PROVE  server' = server
  BY <1>3 DEF Retries, Receives, ReceivesNewSession, Drops, Hears
<1>4. Idles \/ SendStep \/ Reloads \/ DropsSession => server' = server
  BY DEF Idles, SendStep, Reloads, DropsSession
<1> QED
  BY <1>1, <1>2, <1>3, <1>4 DEF Step

(* What a worker leaves, whether it has come to its end or not.            *)
Outcome(s, r, e) ==
    \/ \E k : KindDoes(k, server[s], e, r, request[r].page, request[r].pages)
    \/ HalfDone(server[s], e, r, request[r].page, request[r].pages)

LEMMA ActsOn ==
    ASSUME TypesInv, NEW s \in Sessions, NEW r \in Requests, worker[s][r] = "running",
           NEW e, Outcome(s, r, e)
    PROVE  /\ Distinct(e.store) /\ Fits(e.store) /\ Rising(e.visible)
           /\ \A p \in Items(e.store) \cup Items(e.visible) : p = r \/ HasRun(s, p)
           /\ \/ e.output = server[s].output
              \/ /\ Upward(e.output)
                 /\ Items(e.output.pages) \subseteq
                       Items(server[s].visible) \cup Items(request[r].pages) \cup {r}
<1>1. /\ server[s] \in ServerShape /\ request[r].pages \in Lists
      /\ request[r].page \in Requests \cup {None} /\ request[r].page < r
      /\ Distinct(server[s].store) /\ Rising(server[s].visible) /\ Rising(request[r].pages)
      /\ Fits(server[s].store)
      /\ \A p \in Items(server[s].store) \cup Items(server[s].visible) : HasRun(s, p)
  BY DEF TypesInv, HandledInv, StateInv, ShapeInv, Shape, RequestShape, ListsInv, SessionPages,
         ProperPages, Proper, PageIsOlder
<1>2. r \notin Items(server[s].store)
  BY <1>1 DEF HasRun
<1> DEFINE v == server[s]
           p == request[r].page
           pages == request[r].pages
<1> HIDE DEF v, p, pages
<1>3. /\ Distinct(e.store) /\ Fits(e.store) /\ Rising(e.visible)
      /\ Items(e.store) \subseteq Items(v.store) \cup {r}
      /\ Items(e.visible) \subseteq Items(v.store) \cup Items(v.visible) \cup {r}
      /\ \/ e.output = v.output
         \/ /\ Upward(e.output)
            /\ Items(e.output.pages) \subseteq Items(v.visible) \cup Items(pages) \cup {r}
  <2>1. (\E k : KindDoes(k, v, e, r, p, pages)) \/ HalfDone(v, e, r, p, pages)
    BY DEF Outcome, v, p, pages
  <2>2. /\ v \in ServerShape /\ pages \in Lists /\ p \in Requests \cup {None} /\ p < r
        /\ Distinct(v.store) /\ Rising(v.visible) /\ Rising(pages)
        /\ Fits(v.store) /\ r \notin Items(v.store)
    BY <1>1, <1>2 DEF v, p, pages
  <2> QED
    BY <2>1, <2>2, WorkDoesLists
<1> QED
  BY <1>1, <1>3 DEF v, pages

(* A step of a worker that does more than note where the worker is.        *)
LEMMA WorkIs ==
    ASSUME WorkStep
    PROVE  \E s \in Sessions : \E r \in Requests :
              /\ WorksOnly(s)
              /\ worker[s][r] \in {"started", "running", "acted"}
              /\ \/ /\ server'[s].store = server[s].store /\ server'[s].visible = server[s].visible
                    /\ server'[s].output \in {Nothing, server[s].output}
                 \/ worker[s][r] = "running" /\ HasRun(s, r)' /\ Outcome(s, r, server'[s])
<1>1. PICK s \in Sessions : \E r \in Requests :
          WorksOnly(s) /\ (Begins(s, r) \/ Acts(s, r) \/ Registers(s, r) \/ Interrupts(s, r))
  BY DEF WorkStep
<1>2. PICK r \in Requests :
          WorksOnly(s) /\ (Begins(s, r) \/ Acts(s, r) \/ Registers(s, r) \/ Interrupts(s, r))
  BY <1>1
<1>3. CASE Begins(s, r) \/ Registers(s, r)
  BY <1>2, <1>3 DEF Begins, Registers
<1>4. CASE Acts(s, r)
  BY <1>2, <1>4 DEF Acts, WorkerIs, HasRun, Outcome
<1>5. CASE Interrupts(s, r)
  BY <1>2, <1>5 DEF Interrupts, WorkerIs, HasRun, Outcome
<1> QED
  BY <1>2, <1>3, <1>4, <1>5

ProperNext(pages) ==
    Rising(pages) /\ \A p \in Items(pages) : request'[p].stage # "unsent"

LEMMA ProperStays ==
    ASSUME Step
    PROVE  \A pages \in Lists : Proper(pages) => ProperNext(pages)
  BY SentStays, ListProperties DEF Proper, WasSent, ProperNext

LEMMA ShapeFacts ==
    ASSUME StateInv
    PROVE  /\ shown \in Lists /\ \A i \in 1 .. Len(history) : history[i] \in Lists
           /\ \A r \in Requests : /\ request[r].pages \in Lists /\ request[r].answer \in OutputShape
                                  /\ request[r].answer.pages \in Lists
                                  /\ NamesPage(request[r].answer)
           /\ \A s \in Sessions : /\ server[s] \in ServerShape /\ server[s].output \in OutputShape
                                  /\ server[s].output.pages \in Lists
                                  /\ server[s].store \in Lists /\ server[s].visible \in Lists
                                  /\ NamesPage(server[s].output)
<1>1. /\ BrowserShape /\ request \in [Requests -> RequestShape] /\ server \in [Sessions -> ServerShape]
      /\ OutputsNamePage
  BY DEF StateInv, ShapeInv, Shape
<1>2. /\ \A r \in Requests : request[r].pages \in Lists /\ request[r].answer \in OutputShape
      /\ \A s \in Sessions : /\ server[s] \in ServerShape /\ server[s].output \in OutputShape
                             /\ server[s].store \in Lists /\ server[s].visible \in Lists
  BY <1>1 DEF RequestShape, ServerShape
<1>3. \A out \in OutputShape : out.pages \in Lists
  BY DEF OutputShape
<1> QED
  BY <1>1, <1>2, <1>3, HistoryPages DEF BrowserShape, OutputsNamePage

(* What the browser shows after an answer.                                 *)
LEMMA AppliedProper ==
    ASSUME TypesInv, Step, NEW r \in Requests
    PROVE  ProperNext(Applied(request[r].answer))
<1> DEFINE out == request[r].answer
           p == out.pages[1]
<1>0. /\ StateInv /\ Shape /\ Proper(shown) /\ ProperOutput(out)
      /\ out \in OutputShape /\ shown \in Lists /\ out.pages \in Lists /\ NamesPage(out)
  BY ShapeFacts DEF TypesInv, HandledInv, StateInv, ShapeInv, ListsInv, ProperPages
<1>1. ProperNext(shown) /\ ProperNext(out.pages) /\ ProperNext(<<>>)
  BY <1>0, ProperStays, NoPages, NoPagesRise DEF ProperOutput, Upward, Proper, ProperNext
<1>2. out.op = "showPage" => p \in Requests /\ request'[p].stage # "unsent" /\ out.master < p
  BY <1>0, <1>1, ListProperties DEF NamesPage, ProperNext, ProperOutput, Upward
<1> HIDE DEF out
<1>4. CASE out.op = "showPage"
  <2>1. Applied(out) = WithPage(out.master, p) /\ p \in Requests
    BY <1>0, <1>4, AppliedIs
  <2> HIDE DEF p
  <2>2. CASE out.master \in Items(shown)
    <3> DEFINE t == Through(shown, out.master)
    <3>1. t \in Lists /\ Items(t) \subseteq Items(shown)
      BY <1>0, <2>2, ThroughProperties
    <3>2. Applied(out) = Append(t, p)
      BY <2>1, <2>2 DEF WithPage
    <3>3. Rising(Append(t, p))
      BY <1>0, <1>2, <1>4, <2>2, AfterMasterRises DEF Proper
    <3> HIDE DEF t
    <3>4. Items(Append(t, p)) = Items(t) \cup {p}
      BY <2>1, <3>1, AppendPage
    <3> QED
      BY <1>1, <1>2, <1>4, <3>1, <3>2, <3>3, <3>4 DEF ProperNext, out
  <2>3. CASE out.master \notin Items(shown)
    <3>1. Applied(out) = <<p>>
      BY <2>1, <2>3 DEF WithPage
    <3> QED
      BY <1>2, <1>4, <2>1, <3>1, OnePage, NoPagesRise DEF ProperNext, out
  <2> QED
    BY <2>2, <2>3
<1>5. CASE out.op = "showPages"
  BY <1>0, <1>1, <1>5, AppliedIs DEF out
<1>6. CASE out.op = "hidePage"
  <2>1. Applied(out) = IF p \in Items(shown) THEN Before(shown, p) ELSE <<>>
    BY <1>0, <1>6, AppliedIs
  <2> HIDE DEF p
  <2>2. CASE p \in Items(shown)
    <3>1. Applied(out) = Before(shown, p)
      BY <2>1, <2>2
    <3>2. Rising(Before(shown, p)) /\ Items(Before(shown, p)) \subseteq Items(shown)
      BY <1>0, <2>2, BeforeProperties, PartsRise DEF Proper
    <3> QED
      BY <1>1, <3>1, <3>2 DEF ProperNext, out
  <2>3. CASE p \notin Items(shown)
    BY <1>1, <2>1, <2>3 DEF out
  <2> QED
    BY <2>2, <2>3
<1>7. CASE out.op \in {"none", "wait"}
  BY <1>0, <1>1, <1>7, AppliedIs DEF out
<1>8. out.op \in {"none", "wait", "showPage", "showPages", "hidePage"}
  BY <1>0 DEF OutputShape
<1> QED
  BY <1>4, <1>5, <1>6, <1>7, <1>8

LEMMA ShownProper ==
    ASSUME TypesInv, Step
    PROVE  /\ ProperNext(shown')
           /\ \A i \in 1 .. Len(history') : ProperNext(history'[i])
<1>0. /\ StateInv /\ shown \in Lists /\ Proper(shown)
      /\ \A i \in 1 .. Len(history) : history[i] \in Lists /\ Proper(history[i])
  BY ShapeFacts DEF TypesInv, HandledInv, ListsInv, ProperPages
<1>1. ProperNext(shown) /\ \A i \in 1 .. Len(history) : ProperNext(history[i])
  BY <1>0, ProperStays
<1>2. CASE UNCHANGED <<shown, history>>
  BY <1>1, <1>2
<1>3. ASSUME ProperNext(shown'), history' = history \/ HistoryComesFrom(shown')
      PROVE  \A i \in 1 .. Len(history') : ProperNext(history'[i])
  BY <1>1, <1>3 DEF HistoryComesFrom
<1>4. CASE SendStep
  <2>1. PICK r \in Requests : \E kind, page, pages : Sends(r, kind, page, pages)
    BY <1>4 DEF SendStep
  <2>2. PICK kind, page, pages : Sends(r, kind, page, pages)
    BY <2>1
  <2>3. CASE kind = "close"
    <3>1. PICK i \in 2 .. Len(shown) : page = shown[i]
      BY <2>2, <2>3 DEF Sends
    <3>2. i \in 1 .. Len(shown)
      BY <1>0, ListProperties
    <3>3. page \in Items(shown) /\ shown' = Before(shown, page) /\ HistoryComesFrom(shown')
      BY <1>0, <2>2, <2>3, <3>1, <3>2, ListProperties DEF Sends
    <3>4. Rising(Before(shown, page)) /\ Items(Before(shown, page)) \subseteq Items(shown)
      BY <1>0, <3>3, BeforeProperties, PartsRise DEF Proper
    <3>5. ProperNext(shown')
      BY <1>1, <3>3, <3>4 DEF ProperNext
    <3> QED
      BY <1>3, <3>3, <3>5
  <2>4. CASE kind # "close"
    BY <1>2, <2>2, <2>4 DEF Sends
  <2> QED
    BY <2>3, <2>4
<1>5. ASSUME NEW r \in Requests, Receives(r)
      PROVE  /\ ProperNext(shown')
             /\ \A i \in 1 .. Len(history') : ProperNext(history'[i])
  <2>1. shown' = Applied(request[r].answer) /\ (history' = history \/ HistoryComesFrom(shown'))
    BY <1>5 DEF Receives
  <2>2. ProperNext(shown')
    BY <2>1, AppliedProper
  <2> QED
    BY <1>3, <2>1, <2>2
<1>6. CASE Reloaded /\ history' = history
  <2>1. ProperNext(shown')
    BY <1>6, NoPages, NoPagesRise DEF Reloaded, ProperNext
  <2> QED
    BY <1>3, <1>6, <2>1
<1>7. \A r \in Requests, s \in Sessions : GetsSession(r, s) \/ Handles(r, s) \/ Responds(r, s)
         => UNCHANGED <<shown, history>>
  BY DEF GetsSession, Handles, Responds, browser
<1>8. /\ Idles \/ WorkStep \/ DropsSession => UNCHANGED <<shown, history>>
      /\ Reloads => Reloaded /\ history' = history
  BY DEF Idles, WorkStep, WorksOnly, DropsSession, browser, Reloads
<1>9. \A r \in Requests :
         /\ Retries(r) \/ Drops(r) => UNCHANGED <<shown, history>>
         /\ ReceivesNewSession(r) => Reloaded /\ history' = history
  BY DEF Retries, Drops, ReceivesNewSession, browser
<1> QED
  BY <1>2, <1>4, <1>5, <1>6, <1>7, <1>8, <1>9 DEF Step

LEMMA SessionPagesStep ==
    ASSUME TypesInv, [Next]_vars
    PROVE  SessionPages'
<1>0. /\ Step /\ StateInv /\ HandledInv /\ SessionPages /\ Shape'
  BY StepIs DEF TypesInv, HandledInv, ListsInv
<1> DEFINE Kept(s, e) ==
              /\ Distinct(e.store) /\ Fits(e.store) /\ Rising(e.visible)
              /\ \A p \in Items(e.store) \cup Items(e.visible) : HasRun(s, p)'
<1>1. \A s \in Sessions : Kept(s, server[s])
  <2> SUFFICES ASSUME NEW s \in Sessions PROVE Kept(s, server[s])
    OBVIOUS
  <2>1. \A p \in Items(server[s].store) \cup Items(server[s].visible) :
           p \in Requests /\ HasRun(s, p)
    BY <1>0, ShapeFacts, ListProperties DEF SessionPages
  <2> QED
    BY <1>0, <2>1, RunStays DEF SessionPages
<1>2. ASSUME NEW s \in Sessions, server'[s].store = server[s].store,
             server'[s].visible = server[s].visible
      PROVE  Kept(s, server'[s])
  BY <1>1, <1>2
<1>3. ASSUME NEW s \in Sessions, NEW r \in Requests, HasRun(s, r)', worker[s][r] = "running",
             Outcome(s, r, server'[s])
      PROVE  Kept(s, server'[s])
  <2> DEFINE e == server'[s]
  <2>1. Outcome(s, r, e)
    BY <1>3
  <2> HIDE DEF e
  <2>2. /\ Distinct(e.store) /\ Fits(e.store) /\ Rising(e.visible)
        /\ \A p \in Items(e.store) \cup Items(e.visible) : p = r \/ HasRun(s, p)
    BY <1>3, <2>1, ActsOn
  <2>3. e.store \in Lists /\ e.visible \in Lists
    <3>1. server'[s] \in ServerShape
      BY <1>0 DEF Shape
    <3> QED
      BY <3>1 DEF e, ServerShape
  <2>4. \A p \in Items(e.store) \cup Items(e.visible) : p \in Requests
    BY <2>3, ListProperties
  <2> QED
    BY <1>0, <1>3, <2>2, <2>4, RunStays DEF e
<1>4. \A s \in Sessions : Kept(s, server'[s])
  <2> HIDE DEF Kept
  <2>1. CASE WorkStep
    <3>1. PICK s \in Sessions : \E r \in Requests :
              /\ WorksOnly(s)
              /\ \/ server'[s].store = server[s].store /\ server'[s].visible = server[s].visible
                 \/ worker[s][r] = "running" /\ HasRun(s, r)' /\ Outcome(s, r, server'[s])
      BY <2>1, WorkIs
    <3>2. Kept(s, server'[s])
      BY <1>2, <1>3, <3>1
    <3>3. \A t \in Sessions : t # s => server'[t] = server[t]
      BY <3>1 DEF WorksOnly, OtherSessionsStay
    <3> QED
      BY <1>1, <3>2, <3>3
  <2>2. CASE ~WorkStep
    BY <1>0, <1>2, <2>2, ListsStayUntilWork DEF ListsStay
  <2> QED
    BY <2>1, <2>2
<1> QED
  BY <1>4 DEF SessionPages

LEMMA OrderStep ==
    ASSUME TypesInv, Step, Shape'
    PROVE  SentInOrder' /\ PageIsOlder'
<1>0. /\ SentInOrder /\ PageIsOlder /\ Proper(shown) /\ shown \in Lists
      /\ \A q \in Requests : q \in Nat
      /\ request' \in [Requests -> RequestShape]
  BY ShapeFacts DEF TypesInv, HandledInv, ListsInv, ProperPages, Requests, Shape
<1>1. CASE SendStep
  <2>1. PICK r \in Requests : \E kind, page, pages :
            Sends(r, kind, page, pages) /\ IsSent(r, kind, page, pages)
    BY <1>1 DEF SendStep
  <2>2. PICK kind, page, pages : Sends(r, kind, page, pages) /\ IsSent(r, kind, page, pages)
    BY <2>1
  <2>3. /\ OthersStay(r) /\ request'[r].stage = "sent" /\ request'[r].page = page
        /\ request[r].stage = "unsent"
        /\ \A q \in 1 .. r - 1 : request[q].stage # "unsent"
        /\ page \in Requests \cup {None}
    BY <2>2 DEF Sends, IsSent, Fresh
  <2>4. \A q \in Requests : q < r => q \in 1 .. r - 1
    BY DEF Requests
  <2>5. SentInOrder'
    BY <1>0, <2>3, <2>4 DEF SentInOrder, OthersStay
  <2>6. page # None => page \in Items(shown)
    <3>1. CASE kind = "close"
      <4>1. PICK i \in 2 .. Len(shown) : page = shown[i]
        BY <2>2, <3>1 DEF Sends
      <4>2. i \in 1 .. Len(shown)
        BY <1>0, ListProperties
      <4> QED
        BY <1>0, <4>1, <4>2, ListProperties
    <3>2. CASE kind # "close"
      BY <2>2, <3>2 DEF Sends
    <3> QED
      BY <3>1, <3>2
  <2>7. page < r
    <3>1. CASE page = None
      BY <3>1 DEF None, Requests
    <3>2. CASE page # None
      <4>1. page \in Requests /\ request[page].stage # "unsent"
        BY <1>0, <2>3, <2>6, <3>2 DEF Proper, WasSent
      <4>2. ~(r < page) /\ r # page
        BY <1>0, <2>3, <4>1 DEF SentInOrder
      <4> QED
        BY <1>0, <4>1, <4>2
    <3> QED
      BY <3>1, <3>2
  <2>8. PageIsOlder'
    BY <1>0, <2>3, <2>7 DEF PageIsOlder, OthersStay
  <2> QED
    BY <2>5, <2>8
<1>2. CASE ~SendStep
  <2>1. SentInOrder'
    BY <1>0, <1>2, SentStays DEF SentInOrder
  <2>2. \A q \in Requests : request'[q].page = request[q].page
    <3>1. CASE request' = request
      BY <3>1
    <3>2. ASSUME NEW r \in Requests, NEW s \in Sessions,
                 GetsSession(r, s) \/ Handles(r, s) \/ Responds(r, s)
          PROVE  \A q \in Requests : request'[q].page = request[q].page
      BY <3>2 DEF GetsSession, Handles, Responds, OthersStay, InputStays
    <3>3. ASSUME NEW r \in Requests,
                 Retries(r) \/ Receives(r) \/ ReceivesNewSession(r) \/ Drops(r)
          PROVE  \A q \in Requests : request'[q].page = request[q].page
      BY <3>3 DEF Retries, Receives, ReceivesNewSession, Drops, Hears, IsClosed, OthersStay,
                  IsUnheard, InputStays
    <3>4. CASE Reloads
      BY <3>4 DEF Reloads, IsUnheard, InputStays
    <3> QED
      BY <1>2, <3>1, <3>2, <3>3, <3>4 DEF Step, Idles, DropsSession, WorkStep, WorksOnly
  <2>3. PageIsOlder'
    BY <1>0, <2>2 DEF PageIsOlder
  <2> QED
    BY <2>1, <2>3
<1> QED
  BY <1>1, <1>2

UpwardNext(out) == ProperNext(out.pages) /\ (out.op = "showPage" => out.master < out.pages[1])

LEMMA ProperStep ==
    ASSUME TypesInv, [Next]_vars
    PROVE  ProperPages'
<1>0. /\ Step /\ StateInv /\ HandledInv /\ SessionPages /\ ProperPages
  BY StepIs DEF TypesInv, HandledInv, ListsInv
<1>1. /\ \A r \in Requests : ProperNext(request[r].pages) /\ UpwardNext(request[r].answer)
      /\ \A s \in Sessions : UpwardNext(server[s].output)
      /\ \A i \in 1 .. Len(history) : ProperNext(history[i])
      /\ ProperNext(<<>>)
  BY <1>0, ShapeFacts, ProperStays, NoPages, NoPagesRise
     DEF ProperPages, ProperNext, ProperOutput, Upward, Proper, UpwardNext
<1>2. ProperNext(shown') /\ \A i \in 1 .. Len(history') : ProperNext(history'[i])
  BY <1>0, ShownProper
<1>3. UpwardNext(Nothing)
  BY <1>1 DEF UpwardNext, Nothing
<1>4. \A r \in Requests : ProperNext(request'[r].pages) /\ UpwardNext(request'[r].answer)
  <2> DEFINE PagesCome(q) == \/ request'[q].pages = request[q].pages
                             \/ request'[q].pages = <<>>
                             \/ \E j \in 1 .. Len(history) : request'[q].pages = history[j]
             AnswerComes(q) == request'[q].answer \in {request[q].answer, Nothing}
             Good(q) == ProperNext(request'[q].pages) /\ UpwardNext(request'[q].answer)
  <2>1. \A q \in Requests : PagesCome(q) /\ AnswerComes(q) => Good(q)
    BY <1>1, <1>3
  <2>2. \A q \in Requests : request'[q] = request[q] => PagesCome(q) /\ AnswerComes(q)
    OBVIOUS
  <2>3. CASE request' = request
    BY <2>1, <2>2, <2>3
  <2>4. CASE SendStep
    <3>1. PICK r \in Requests : \E kind, page, pages :
              Sends(r, kind, page, pages) /\ IsSent(r, kind, page, pages)
      BY <2>4 DEF SendStep
    <3>2. PICK kind, page, pages : Sends(r, kind, page, pages) /\ IsSent(r, kind, page, pages)
      BY <3>1
    <3>3. /\ request'[r].pages = <<>> \/ \E j \in 1 .. Len(history) : request'[r].pages = history[j]
          /\ request'[r].answer = Nothing /\ OthersStay(r)
      BY <3>2 DEF Sends, IsSent
    <3> QED
      BY <2>1, <2>2, <3>3 DEF OthersStay
  <2>5. ASSUME NEW r \in Requests, NEW s \in Sessions, GetsSession(r, s) \/ Handles(r, s)
        PROVE  OthersStay(r) /\ PagesCome(r) /\ AnswerComes(r)
    BY <2>5 DEF GetsSession, Handles, InputStays
  <2>6. ASSUME NEW r \in Requests, NEW s \in Sessions, Responds(r, s)
        PROVE  OthersStay(r) /\ Good(r)
    <3>1. OthersStay(r) /\ request'[r].pages = request[r].pages
      BY <2>6 DEF Responds, InputStays
    <3>2. UpwardNext(request'[r].answer)
      <4> DEFINE out == [server[s].output EXCEPT !.session = s]
                 wait == [Nothing EXCEPT !.op = "wait"]
      <4>1. /\ out.pages = server[s].output.pages /\ out.op = server[s].output.op
            /\ out.master = server[s].output.master
        BY <1>0, ShapeFacts DEF OutputShape
      <4>2. wait.pages = <<>> /\ wait.op = "wait"
        BY DEF Nothing
      <4>3. request'[r].answer \in {out, wait}
        BY <2>6 DEF Responds
      <4> HIDE DEF out, wait
      <4>4. UpwardNext(out) /\ UpwardNext(wait)
        BY <1>1, <4>1, <4>2 DEF UpwardNext
      <4> QED
        BY <4>3, <4>4
    <3> QED
      BY <1>1, <3>1, <3>2
  <2>7. ASSUME NEW r \in Requests,
               Retries(r) \/ Receives(r) \/ ReceivesNewSession(r) \/ Drops(r)
        PROVE  \A q \in Requests : PagesCome(q) /\ AnswerComes(q)
    BY <2>7 DEF Retries, Receives, ReceivesNewSession, Drops, Hears, IsClosed, InputStays,
                OthersStay, IsUnheard
  <2>8. CASE Reloads
    BY <2>1, <2>8 DEF Reloads, IsUnheard, InputStays
  <2>9. Idles \/ WorkStep \/ DropsSession => request' = request
    BY DEF Idles, WorkStep, WorksOnly, DropsSession
  <2> HIDE DEF Good, PagesCome, AnswerComes
  <2>10. \A q \in Requests : Good(q)
    BY <1>0, <2>1, <2>2, <2>3, <2>4, <2>5, <2>6, <2>7, <2>8, <2>9 DEF Step, OthersStay, Good
  <2> QED
    BY <2>10 DEF Good
<1>5. \A s \in Sessions : UpwardNext(server'[s].output)
  <2>1. CASE ~WorkStep
    BY <1>0, <1>1, <2>1, ListsStayUntilWork DEF ListsStay
  <2>2. CASE WorkStep
    <3>1. PICK s \in Sessions : \E r \in Requests :
              /\ WorksOnly(s)
              /\ \/ server'[s].output \in {Nothing, server[s].output}
                 \/ worker[s][r] = "running" /\ Outcome(s, r, server'[s])
      BY <2>2, WorkIs
    <3>2. PICK r \in Requests :
              /\ WorksOnly(s)
              /\ \/ server'[s].output \in {Nothing, server[s].output}
                 \/ worker[s][r] = "running" /\ Outcome(s, r, server'[s])
      BY <3>1
    <3>3. ASSUME worker[s][r] = "running", Outcome(s, r, server'[s])
          PROVE  UpwardNext(server'[s].output)
      <4> DEFINE e == server'[s]
      <4>1. Outcome(s, r, e)
        BY <3>3
      <4> HIDE DEF e
      <4>2. \/ e.output = server[s].output
            \/ /\ Upward(e.output)
               /\ Items(e.output.pages) \subseteq
                     Items(server[s].visible) \cup Items(request[r].pages) \cup {r}
        BY <3>3, <4>1, ActsOn
      <4>3. \A p \in Requests : worker[s][p] # "none" => request[p].stage # "unsent"
        BY <1>0 DEF HandledInv, Unhandled, NotYet
      <4>4. \A p \in Items(server[s].visible) : p \in Requests /\ request[p].stage # "unsent"
        BY <1>0, <4>3, ShapeFacts, ListProperties DEF SessionPages, HasRun
      <4>5. \A p \in Items(server[s].visible) \cup {r} : request'[p].stage # "unsent"
        BY <1>0, <3>3, <4>3, <4>4, SentStays
      <4> QED
        BY <1>1, <4>2, <4>5 DEF ProperNext, UpwardNext, Upward, e
    <3>4. UpwardNext(server'[s].output)
      BY <1>1, <1>3, <3>2, <3>3
    <3> QED
      BY <1>1, <3>2, <3>4 DEF WorksOnly, OtherSessionsStay
  <2> QED
    BY <2>1, <2>2
<1> QED
  BY <1>2, <1>4, <1>5
     DEF ProperPages, Proper, WasSent, ProperNext, ProperOutput, Upward, UpwardNext

LEMMA ListsStep ==
    ASSUME TypesInv, [Next]_vars
    PROVE  TypesInv'
<1>1. HandledInv /\ StateInv /\ Step /\ Shape'
  BY StepIs DEF TypesInv, HandledInv
<1>2. HandledInv'
  BY <1>1, StateStep, HandledStep DEF HandledInv
<1>3. ListsInv'
  BY <1>1, OrderStep, ProperStep, SessionPagesStep DEF ListsInv
<1> QED
  BY <1>2, <1>3 DEF TypesInv

LEMMA TypesInitially ==
    ASSUME Init PROVE TypesInv
<1>1. StateInv
  BY StateInitially
<1>2. /\ \A r \in Requests : request[r].stage = "unsent" /\ request[r].pages = <<>>
                             /\ request[r].answer = Nothing /\ request[r].page = None
      /\ \A s \in Sessions, r \in Requests : worker[s][r] = "none"
      /\ \A s \in Sessions : /\ server[s].output = Nothing /\ server[s].store = <<>>
                             /\ server[s].visible = <<>>
      /\ shown = <<>> /\ history = << <<>> >>
  BY DEF Init, Unsent
<1>3. Nothing.pages = <<>> /\ Nothing.op = "none"
  BY DEF Nothing
<1>4. HandledInv
  BY <1>1, <1>2 DEF HandledInv, Unhandled, HasThread
<1>5. Proper(<<>>) /\ ProperOutput(Nothing)
  BY <1>3, NoPages, NoPagesRise DEF Proper, WasSent, ProperOutput, Upward
<1>6. \A i \in 1 .. Len(history) : history[i] = <<>>
  BY <1>2
<1>7. ProperPages
  BY <1>2, <1>5, <1>6 DEF ProperPages
<1>8. SessionPages
  BY <1>2, NoPages, NoPagesRise, JsonSessionAssumption DEF SessionPages, Fits
<1>9. SentInOrder /\ PageIsOlder
  BY <1>2 DEF SentInOrder, PageIsOlder, Requests, None
<1> QED
  BY <1>4, <1>7, <1>8, <1>9 DEF TypesInv, ListsInv

(* The pages in the store, on the screen and in the history are named once *)
(* each, and the store never has more than HISTORY_LENGTH pages, however   *)
(* requests overlap and wherever the application throws: what              *)
(* PageStore.put and get, showDetail and hideDetail, and showPage and      *)
(* hidePage in the browser must achieve together.                          *)
THEOREM TypeCorrect == Spec => []TypeOK
<1>1. Init => TypesInv
  BY TypesInitially
<1>2. TypesInv /\ [Next]_vars => TypesInv'
  BY ListsStep
<1>3. TypesInv => TypeOK
  <2> SUFFICES ASSUME TypesInv PROVE TypeOK
    OBVIOUS
  <2>1. /\ BrowserShape /\ request \in [Requests -> RequestShape] /\ alive \in SUBSET Sessions
        /\ server \in [Sessions -> ServerShape] /\ worker \in [Sessions -> [Requests -> Phases]]
        /\ orderly \in BOOLEAN
        /\ ProperPages /\ SessionPages /\ StateInv
    BY DEF TypesInv, HandledInv, StateInv, ShapeInv, Shape, ListsInv
  <2>2. \A out \in OutputShape : Rising(out.pages) => out \in Output
    BY RisingIsDistinct DEF OutputShape, Output
  <2>3. shown \in Pages /\ history \in Seq(Pages)
    <3>1. history \in Seq(Lists) /\ Len(history) \in Nat
          /\ \A i \in 1 .. Len(history) : history[i] \in Pages
      BY <2>1, ShapeFacts, HistoryPages, RisingIsDistinct DEF ProperPages, Proper, BrowserShape
    <3>2. history \in Seq(Pages)
      BY <3>1
    <3> QED
      BY <2>1, <3>2, ShapeFacts, RisingIsDistinct DEF ProperPages, Proper
  <2>4. request \in [Requests ->
          [stage : {"unsent", "sent", "queued", "joining", "answered", "closed"},
           kind : Kinds, page : Requests \cup {None}, pages : Pages,
           session : Sessions \cup {None}, retry : BOOLEAN, deaf : BOOLEAN,
           at : Sessions \cup {None}, origin : Sessions \cup {None},
           answer : Output]]
    <3>1. \A r \in Requests : request[r].pages \in Pages /\ request[r].answer \in Output
      BY <2>1, <2>2, ShapeFacts, RisingIsDistinct DEF ProperPages, Proper, ProperOutput, Upward
    <3> QED
      BY <2>1, <3>1 DEF RequestShape, Stages
  <2>5. server \in [Sessions ->
          [created : BOOLEAN, thread : Requests \cup {None}, holder : Requests \cup {None},
           output : Output, store : Pages, visible : Pages,
           components : SUBSET (Requests \cup {Navigation})]]
    <3>1. \A s \in Sessions : /\ server[s].output \in Output
                              /\ server[s].store \in Pages /\ server[s].visible \in Pages
      BY <2>1, <2>2, ShapeFacts, PagesAreDistinct, RisingIsDistinct
         DEF ProperPages, ProperOutput, Upward, SessionPages
    <3> QED
      BY <2>1, <3>1 DEF ServerShape
  <2>6. \A s \in Sessions : Len(server[s].store) <= HistoryLength
    BY <2>1 DEF SessionPages, Fits
  <2> QED
    BY <2>1, <2>3, <2>4, <2>5, <2>6 DEF TypeOK, BrowserShape, Phases
<1> QED
  BY <1>1, <1>2, <1>3, PTL DEF Spec

-----------------------------------------------------------------------------
(* The document, its session and its open requests, those whose answers it *)
(* waits for.                                                              *)
LoadingIsEmpty == loading => Open = {} /\ shown = <<>>

(* The first request of a document blocks the UI.                          *)
InitIsAlone ==
    \A r \in Open : request[r].kind = "init" => blocked /\ shown = <<>> /\ Open = {r}

NoSessionYet == session = None => loading \/ \E r \in Open : request[r].kind = "init"

AnswerIsFrom ==
    \A r \in Requests : request[r].stage = "answered" =>
        request[r].answer.session = IF request[r].answer.op = "wait" THEN None ELSE request[r].at

SessionIsCreated == session \in Sessions => server[session].created

ThreadsAreCreated == \A s \in Sessions : server[s].thread # None => server[s].created

(* A session shows nothing before it handles a request.                    *)
NewIsEmpty == \A s \in Sessions : ~server[s].created => server[s].visible = <<>>

BrowserInv ==
    /\ LoadingIsEmpty /\ InitIsAlone /\ NoSessionYet /\ AnswerIsFrom
    /\ SessionIsCreated /\ ThreadsAreCreated /\ NewIsEmpty

BaseInv == TypesInv /\ BrowserInv

LEMMA BaseFacts ==
    ASSUME BaseInv
    PROVE  /\ request \in [Requests -> RequestShape] /\ server \in [Sessions -> ServerShape]
           /\ worker \in [Sessions -> [Requests -> Phases]]
           /\ session \in Sessions \cup {None} /\ shown \in Lists /\ alive \subseteq Sessions
           /\ Open \subseteq Pending /\ Pending \subseteq Requests
           /\ None \notin Sessions /\ None \notin Requests
           /\ StateInv /\ ShapeInv /\ Shape /\ HandledInv /\ TypesInv /\ AtIsCreated
           /\ LoadingIsEmpty /\ InitIsAlone /\ NoSessionYet /\ AnswerIsFrom
           /\ SessionIsCreated /\ ThreadsAreCreated /\ NewIsEmpty
           /\ \A r \in Requests : request[r].deaf \in BOOLEAN
<1>1. /\ request \in [Requests -> RequestShape] /\ server \in [Sessions -> ServerShape]
      /\ worker \in [Sessions -> [Requests -> Phases]]
      /\ session \in Sessions \cup {None} /\ shown \in Lists /\ alive \subseteq Sessions
      /\ StateInv /\ ShapeInv /\ Shape /\ HandledInv /\ TypesInv /\ AtIsCreated
      /\ LoadingIsEmpty /\ InitIsAlone /\ NoSessionYet /\ AnswerIsFrom
      /\ SessionIsCreated /\ ThreadsAreCreated /\ NewIsEmpty
  BY DEF BaseInv, TypesInv, HandledInv, StateInv, ShapeInv, Shape, BrowserShape, BrowserInv
<1>2. Open \subseteq Pending /\ Pending \subseteq Requests
  BY DEF Open, Pending
<1>3. None \notin Sessions /\ None \notin Requests
  BY DEF None, Requests, Sessions
<1>4. \A r \in Requests : request[r].deaf \in BOOLEAN
  BY <1>1 DEF RequestShape
<1> QED
  BY <1>1, <1>2, <1>3, <1>4

(* The open requests after a step.                                         *)
LEMMA OpenAfterSend ==
    ASSUME NEW r \in Requests, NEW kind, NEW page, NEW pages,
           Sends(r, kind, page, pages), IsSent(r, kind, page, pages)
    PROVE  Open' = Open \cup {r} /\ r \notin Open /\ Pending' = Pending \cup {r}
  BY DEF Sends, IsSent, OthersStay, Open, Pending

LEMMA OpenStays ==
    ASSUME NEW r \in Requests, OthersStay(r), r \in Pending, r \in Pending',
           request'[r].deaf = request[r].deaf
    PROVE  Open' = Open /\ Pending' = Pending
  BY DEF OthersStay, Open, Pending

LEMMA OpenAfterReceive ==
    ASSUME NEW r \in Requests, Receives(r)
    PROVE  Open' = Open \ {r} /\ r \in Open /\ Pending' = Pending \ {r}
<1>1. /\ request[r].stage = "answered" /\ ~request[r].deaf
      /\ request'[r].stage = "closed" /\ OthersStay(r)
  BY DEF Receives, Hears, IsClosed
<1> QED
  BY <1>1 DEF OthersStay, Open, Pending

LEMMA OpenAfterReload ==
    ASSUME Reloads \/ \E r \in Requests : ReceivesNewSession(r)
    PROVE  Open' = {}
<1>1. ASSUME NEW q \in Requests, IsUnheard(q) PROVE q \notin Open'
  BY <1>1 DEF IsUnheard, Open, Pending
<1>2. CASE Reloads
  BY <1>1, <1>2 DEF Reloads, Open, Pending
<1>3. ASSUME NEW r \in Requests, ReceivesNewSession(r) PROVE Open' = {}
  <2>1. request'[r].stage = "closed" /\ \A q \in Requests : q # r => IsUnheard(q)
    BY <1>3 DEF ReceivesNewSession, Hears, IsClosed
  <2>2. \A q \in Requests : q \notin Open'
    BY <1>1, <2>1 DEF Open, Pending
  <2> QED
    BY <2>2 DEF Open, Pending
<1> QED
  BY <1>2, <1>3

LEMMA OpenAfterDrop ==
    ASSUME NEW r \in Requests, Drops(r)
    PROVE  Open' = Open /\ r \notin Open /\ Pending' = Pending \ {r}
  BY DEF Drops, IsClosed, OthersStay, Open, Pending

(* All other steps leave the document and its open requests as they are.   *)
DocumentStays ==
    /\ UNCHANGED <<session, shown, blocked, loading>>
    /\ Open' = Open /\ \A q \in Requests : request'[q].kind = request[q].kind

LEMMA DocumentChanges ==
    ASSUME BaseInv, Step
    PROVE  \/ SendStep \/ Reloads \/ \E r \in Requests : Receives(r) \/ ReceivesNewSession(r)
           \/ DocumentStays
<1>1. CASE UNCHANGED <<session, shown, blocked, loading, request>>
  BY <1>1 DEF DocumentStays, Open, Pending
<1>2. Idles \/ WorkStep \/ DropsSession => UNCHANGED <<session, shown, blocked, loading, request>>
  BY DEF Idles, WorkStep, WorksOnly, DropsSession, browser
<1>3. ASSUME NEW r \in Requests, NEW s \in Sessions,
             GetsSession(r, s) \/ Handles(r, s) \/ Responds(r, s)
      PROVE  DocumentStays
  <2>1. /\ UNCHANGED <<session, shown, blocked, loading>> /\ OthersStay(r)
        /\ r \in Pending /\ r \in Pending' /\ request'[r].deaf = request[r].deaf
        /\ request'[r].kind = request[r].kind
    BY <1>3 DEF GetsSession, Handles, Responds, browser, Pending, InputStays
  <2> QED
    BY <2>1, OpenStays DEF DocumentStays, OthersStay
<1>4. ASSUME NEW r \in Requests, Retries(r) PROVE DocumentStays
  <2>1. /\ UNCHANGED <<session, shown, blocked, loading>> /\ OthersStay(r)
        /\ r \in Pending /\ r \in Pending' /\ request[r].deaf = FALSE /\ request'[r].deaf = FALSE
        /\ request'[r].kind = request[r].kind
    BY <1>4, BaseFacts DEF Retries, browser, Pending, InputStays
  <2> QED
    BY <2>1, OpenStays DEF DocumentStays, OthersStay
<1>5. ASSUME NEW r \in Requests, Drops(r) PROVE DocumentStays
  <2>1. /\ UNCHANGED <<session, shown, blocked, loading>> /\ OthersStay(r)
        /\ request'[r].kind = request[r].kind
    BY <1>5 DEF Drops, IsClosed, InputStays, browser
  <2> QED
    BY <1>5, <2>1, OpenAfterDrop DEF DocumentStays, OthersStay
<1> QED
  BY <1>1, <1>2, <1>3, <1>4, <1>5 DEF Step

LEMMA DocumentStep ==
    ASSUME BaseInv, StateInv', Step
    PROVE  LoadingIsEmpty' /\ InitIsAlone' /\ NoSessionYet'
<1>1. CASE DocumentStays
  BY <1>1, BaseFacts DEF DocumentStays, LoadingIsEmpty, InitIsAlone, NoSessionYet
<1>2. CASE SendStep
  <2>1. PICK r \in Requests : \E kind, page, pages :
            Sends(r, kind, page, pages) /\ IsSent(r, kind, page, pages)
    BY <1>2 DEF SendStep
  <2>2. PICK kind, page, pages : Sends(r, kind, page, pages) /\ IsSent(r, kind, page, pages)
    BY <2>1
  <2>3. /\ Open' = Open \cup {r} /\ r \notin Open /\ session' = session
        /\ request'[r].kind = kind /\ \A q \in Open : request'[q] = request[q]
        /\ loading' = FALSE
    <3>1. Open' = Open \cup {r} /\ r \notin Open
      BY <2>2, OpenAfterSend
    <3>2. session' = session
      BY <1>2 DEF SendStep
    <3>3. request'[r].kind = kind /\ OthersStay(r)
      BY <2>2 DEF IsSent
    <3>4. loading' = FALSE
      BY <2>2 DEF Sends
    <3>5. Open \subseteq Requests
      BY DEF Open, Pending
    <3> QED
      BY <3>1, <3>2, <3>3, <3>4, <3>5 DEF OthersStay
  <2>4. CASE kind = "init"
    <3>1. loading /\ blocked' = TRUE /\ shown' = shown
      BY <2>2, <2>4 DEF Sends
    <3> QED
      BY <2>3, <2>4, <3>1, BaseFacts DEF LoadingIsEmpty, InitIsAlone, NoSessionYet
  <2>5. CASE kind # "init"
    <3>1. ~loading /\ ~blocked
      BY <2>2, <2>5 DEF Sends, MaySend
    <3> QED
      BY <2>3, <2>5, <3>1, BaseFacts DEF LoadingIsEmpty, InitIsAlone, NoSessionYet
  <2> QED
    BY <2>4, <2>5
<1>3. ASSUME NEW r \in Requests, Hears(r) PROVE session' # None
  BY <1>3, BaseFacts DEF Hears, AnswerIsFrom, AtIsCreated, AtStage
<1>4. ASSUME NEW r \in Requests, Receives(r)
      PROVE  LoadingIsEmpty' /\ InitIsAlone' /\ NoSessionYet'
  <2>1. /\ Open' = Open \ {r} /\ r \in Open /\ loading' = loading /\ Hears(r)
        /\ \A q \in Open' : request'[q] = request[q]
    BY <1>4, OpenAfterReceive, BaseFacts DEF Receives, OthersStay
  <2> QED
    BY <1>3, <2>1, BaseFacts DEF LoadingIsEmpty, InitIsAlone, NoSessionYet
<1>5. ASSUME NEW r \in Requests, ReceivesNewSession(r)
      PROVE  LoadingIsEmpty' /\ InitIsAlone' /\ NoSessionYet'
  <2>1. Open' = {} /\ Reloaded /\ Hears(r)
    BY <1>5, OpenAfterReload DEF ReceivesNewSession
  <2> QED
    BY <1>3, <2>1 DEF Reloaded, LoadingIsEmpty, InitIsAlone, NoSessionYet
<1>6. CASE Reloads
  <2>1. Open' = {} /\ Reloaded
    BY <1>6, OpenAfterReload DEF Reloads
  <2> QED
    BY <2>1 DEF Reloaded, LoadingIsEmpty, InitIsAlone, NoSessionYet
<1> QED
  BY <1>1, <1>2, <1>4, <1>5, <1>6, DocumentChanges

LEMMA AnswerStep ==
    ASSUME BaseInv, Step
    PROVE  AnswerIsFrom'
<1> DEFINE From(q) == request'[q].stage = "answered" => request'[q].answer.session =
                          IF request'[q].answer.op = "wait" THEN None ELSE request'[q].at
           Kept(q) == request'[q].stage = "answered" =>
                          /\ request[q].stage = "answered" /\ request'[q].answer = request[q].answer
                          /\ request'[q].at = request[q].at
<1> SUFFICES \A q \in Requests : From(q)
  BY DEF AnswerIsFrom
<1>1. \A q \in Requests : Kept(q) => From(q)
  BY BaseFacts DEF AnswerIsFrom
<1>2. CASE request' = request
  BY <1>1, <1>2
<1>3. CASE SendStep
  BY <1>1, <1>3 DEF SendStep, IsSent, OthersStay
<1>4. ASSUME NEW r \in Requests, NEW s \in Sessions, Responds(r, s) PROVE From(r)
  <2>1. server[s].output \in OutputShape /\ server[s].output.op # "wait"
    BY BaseFacts DEF ServerShape, ShapeInv, OutputsNamePage
  <2>2. /\ [server[s].output EXCEPT !.session = s].op = server[s].output.op
        /\ [server[s].output EXCEPT !.session = s].session = s
    BY <2>1 DEF OutputShape
  <2>3. /\ [Nothing EXCEPT !.op = "wait"].op = "wait"
        /\ [Nothing EXCEPT !.op = "wait"].session = None
    BY DEF Nothing
  <2> QED
    BY <1>4, <2>1, <2>2, <2>3 DEF Responds
<1>5. ASSUME NEW r \in Requests, NEW s \in Sessions,
             GetsSession(r, s) \/ Handles(r, s) \/ Responds(r, s)
      PROVE  \A q \in Requests : From(q)
  <2>1. OthersStay(r)
    BY <1>5 DEF GetsSession, Handles, Responds
  <2>2. GetsSession(r, s) \/ Handles(r, s) => request'[r].stage # "answered"
    BY DEF GetsSession, Handles
  <2>3. From(r)
    BY <1>4, <1>5, <2>2
  <2> HIDE DEF From
  <2>4. \A q \in Requests : q # r => From(q)
    BY <1>1, <2>1 DEF OthersStay
  <2> QED
    BY <2>3, <2>4
<1>6. ASSUME NEW r \in Requests,
             Retries(r) \/ Receives(r) \/ ReceivesNewSession(r) \/ Drops(r)
      PROVE  \A q \in Requests : Kept(q)
  BY <1>6 DEF Retries, Receives, ReceivesNewSession, Drops, Hears, IsClosed, OthersStay, IsUnheard
<1>7. CASE Reloads
  BY <1>1, <1>7 DEF Reloads, IsUnheard
<1>8. Idles \/ WorkStep \/ DropsSession => request' = request
  BY DEF Idles, WorkStep, WorksOnly, DropsSession
<1> HIDE DEF From, Kept
<1> QED
  BY <1>1, <1>2, <1>3, <1>5, <1>6, <1>7, <1>8 DEF Step

(* Who creates sessions and starts threads.                                *)
LEMMA SessionsStay ==
    ASSUME Step, NEW s \in Sessions
    PROVE  /\ server[s].created => server'[s].created
           /\ \/ server'[s].thread = server[s].thread
              \/ \E r \in Requests : Handles(r, s)
           /\ ~server'[s].created => server'[s].visible = server[s].visible \/ WorkStep
<1>1. CASE server' = server
  BY <1>1
<1>2. ASSUME NEW r \in Requests, NEW t \in Sessions,
             GetsSession(r, t) \/ Handles(r, t) \/ Responds(r, t)
      PROVE  /\ server[s].created => server'[s].created
             /\ server'[s].thread = server[s].thread \/ Handles(r, s)
             /\ server'[s].visible = server[s].visible
  <2>1. OtherSessionsStay(t) /\ server'[t].visible = server[t].visible
    BY <1>2 DEF GetsSession, Handles, Responds, ListsStay
  <2>2. GetsSession(r, t) => server'[t].created = TRUE /\ server'[t].thread = server[t].thread
    BY DEF GetsSession
  <2>3. Handles(r, t) => server'[t].created = server[t].created
    BY DEF Handles
  <2>4. Responds(r, t) =>
           server'[t].created = server[t].created /\ server'[t].thread = server[t].thread
    BY DEF Responds
  <2> QED
    BY <1>2, <2>1, <2>2, <2>3, <2>4 DEF OtherSessionsStay
<1>3. CASE WorkStep
  BY <1>3 DEF WorkStep, WorksOnly, OtherSessionsStay
<1>4. \A r \in Requests : Retries(r) \/ Receives(r) \/ ReceivesNewSession(r) \/ Drops(r)
         => server' = server
  BY DEF Retries, Receives, ReceivesNewSession, Drops, Hears
<1>5. Idles \/ SendStep \/ Reloads \/ DropsSession => server' = server
  BY DEF Idles, SendStep, Reloads, DropsSession
<1> QED
  BY <1>1, <1>2, <1>3, <1>4, <1>5 DEF Step

LEMMA CreatedStep ==
    ASSUME BaseInv, Step
    PROVE  SessionIsCreated' /\ ThreadsAreCreated' /\ NewIsEmpty'
<1>1. SessionIsCreated'
  <2>1. CASE session' = session
    BY <2>1, SessionsStay, BaseFacts DEF SessionIsCreated
  <2>2. ASSUME NEW r \in Requests, Hears(r) PROVE SessionIsCreated'
    BY <2>2, BaseFacts DEF Hears, AnswerIsFrom, AtIsCreated, AtStage, SessionIsCreated
  <2>3. session' = session \/ \E r \in Requests : Hears(r)
    BY DocumentChanges DEF SendStep, Reloads, Receives, ReceivesNewSession, DocumentStays
  <2> QED
    BY <2>1, <2>2, <2>3
<1>2. ThreadsAreCreated'
  <2> SUFFICES ASSUME NEW s \in Sessions, server'[s].thread # None PROVE server'[s].created
    BY DEF ThreadsAreCreated
  <2>1. CASE server'[s].thread = server[s].thread
    BY <2>1, SessionsStay, BaseFacts DEF ThreadsAreCreated
  <2>2. ASSUME NEW r \in Requests, Handles(r, s) PROVE server[s].created
    BY <2>2, BaseFacts DEF Handles, AtIsCreated, AtStage
  <2> QED
    BY <2>1, <2>2, SessionsStay
<1>3. NewIsEmpty'
  <2> SUFFICES ASSUME NEW s \in Sessions, ~server'[s].created PROVE server'[s].visible = <<>>
    BY DEF NewIsEmpty
  <2>1. ~server[s].created /\ server[s].visible = <<>> /\ server[s].thread = None
    BY SessionsStay, BaseFacts DEF NewIsEmpty, ThreadsAreCreated
  <2>2. CASE server'[s].visible = server[s].visible
    BY <2>1, <2>2
  <2>3. CASE WorkStep
    <3>1. PICK t \in Sessions : \E r \in Requests :
              WorksOnly(t) /\ worker[t][r] \in {"started", "running", "acted"}
      BY <2>3, WorkIs
    <3>2. t # s
      BY <2>1, <3>1, BaseFacts DEF HandledInv, HasThread
    <3> QED
      BY <2>1, <3>1, <3>2 DEF WorksOnly, OtherSessionsStay
  <2> QED
    BY <2>2, <2>3, SessionsStay
<1> QED
  BY <1>1, <1>2, <1>3

LEMMA BaseInitially ==
    ASSUME Init PROVE BaseInv
<1>1. /\ \A r \in Requests : request[r].stage = "unsent"
      /\ session = None /\ shown = <<>> /\ loading = TRUE
      /\ \A s \in Sessions : server[s].thread = None /\ server[s].visible = <<>>
  BY DEF Init, Unsent
<1>2. Open = {} /\ None \notin Sessions
  BY <1>1 DEF Pending, Open, None, Sessions
<1>3. BrowserInv
  BY <1>1, <1>2 DEF BrowserInv, LoadingIsEmpty, InitIsAlone, NoSessionYet, AnswerIsFrom,
                    SessionIsCreated, ThreadsAreCreated, NewIsEmpty
<1> QED
  BY <1>3, TypesInitially DEF BaseInv

LEMMA BaseStep ==
    ASSUME BaseInv, [Next]_vars
    PROVE  BaseInv'
<1>1. TypesInv'
  BY ListsStep DEF BaseInv
<1>2. StateInv' /\ Step
  BY <1>1, StepIs, BaseFacts DEF TypesInv, HandledInv
<1>3. BrowserInv'
  BY <1>2, DocumentStep, AnswerStep, CreatedStep DEF BrowserInv
<1> QED
  BY <1>1, <1>3 DEF BaseInv

=============================================================================
