------------------------- MODULE JsonAgreementProofs -------------------------
(***************************************************************************)
(* Proofs about JsonSession, continued: when the browser has its answers,  *)
(* it shows what the session believes it shows, and everything on the      *)
(* screen can be used.                                                     *)
(*                                                                         *)
(* None of this holds of every run: an exception of the application in the *)
(* middle of show(), or two requests at the same time, leave the lists of  *)
(* the session different from the screen.  The history variable orderly    *)
(* says that pages were shown by a request that was alone, and that none   *)
(* of this happened since.  So the invariant has the form                  *)
(*   BaseInv /\ (orderly => AgreeInv)                                      *)
(* and has to be proved for two kinds of steps (InOrder): the steps of an  *)
(* orderly run (Calm), which keep AgreeInv, and the one by which a run     *)
(* becomes orderly (RenewStep), after which AgreeInv holds whatever the    *)
(* lists were before.  AgreeInv consists of                                *)
(*   OneInv      one request is open, the one the document waits for, and  *)
(*               a session within reach of the browser has no worker but   *)
(*               that of the open request;                                 *)
(*   RunsEmpty   a worker starts with no output;                           *)
(*   SessionInv  which session the open request comes to;                  *)
(*   BrowserAgrees, RequestAgrees                                          *)
(*               before the open request is handled, session and screen    *)
(*               agree, but for what the browser has already changed       *)
(*               itself (Ready); after it is handled, the session and the  *)
(*               screen with the output applied agree (Acted); the answer  *)
(*               is that output.                                           *)
(* It is kept whichever session handles the request, a new one when the    *)
(* old one was dropped, and however often the browser asks again.  That a  *)
(* page is shown at all also needs that a request that gets a new session  *)
(* is answered within two seconds (SlowStart = FALSE): the retry of the    *)
(* very first request would carry no session, get another new one and be   *)
(* answered with nothing (Lost).                                           *)
(***************************************************************************)
EXTENDS JsonSessionProofs

-----------------------------------------------------------------------------
(* One request at a time: at most one is open, and a session that can still *)
(* get a request has no worker but that of the open request.               *)
Live(s, r) == worker[s][r] \in {"started", "running", "acted"}

(* The browser or its open request has session s, or is about to get it.   *)
Reach(s) ==
    \/ session = s
    \/ \E r \in Open :
         \/ request[r].stage = "sent" /\ request[r].session = s
         \/ request[r].stage \in {"queued", "joining"} /\ request[r].at = s
         \/ request[r].stage = "answered" /\ request[r].answer.op # "wait"
            /\ request[r].answer.session = s

OneOpen == \A q, r \in Open : q = r

DeafIsAnswered == \A r \in Pending : request[r].deaf => request[r].stage = "answered"

OnlyThreadLives == \A s \in Sessions, r \in Requests : Live(s, r) => server[s].thread = r

LiveIsOpen == \A s \in Sessions, r \in Requests : Live(s, r) /\ Reach(s) => r \in Open

AnsweredIsOver ==
    \A r \in Open : request[r].stage = "answered" /\ request[r].answer.op # "wait" =>
        \A q \in Requests : ~Live(request[r].at, q)

BrowserWaits == OneOpen /\ DeafIsAnswered

WorkersInv == OnlyThreadLives /\ LiveIsOpen /\ AnsweredIsOver

OneInv == BaseInv /\ BrowserWaits /\ WorkersInv

LEMMA OneFacts ==
    ASSUME OneInv
    PROVE  /\ request \in [Requests -> RequestShape] /\ server \in [Sessions -> ServerShape]
           /\ session \in Sessions \cup {None} /\ Open \subseteq Pending
           /\ Pending \subseteq Requests
           /\ None \notin Sessions /\ None \notin Requests
           /\ StateInv /\ OutputsNamePage /\ AtIsCreated /\ SessionIsCreated /\ AnswerIsFrom
           /\ LoadingIsEmpty /\ InitIsAlone /\ ThreadsAreCreated
           /\ OneOpen /\ DeafIsAnswered /\ OnlyThreadLives /\ LiveIsOpen /\ AnsweredIsOver
           /\ \A r \in Requests : request[r].deaf \in BOOLEAN
  BY BaseFacts DEF OneInv, BrowserWaits, WorkersInv, ShapeInv

LEMMA OneSend ==
    ASSUME OneInv, BaseInv', SendStep, Open = {}
    PROVE  OneInv'
<1>0. PICK r \in Requests : \E kind, page, pages :
          Sends(r, kind, page, pages) /\ IsSent(r, kind, page, pages)
  BY DEF SendStep
<1>1. PICK kind, page, pages : Sends(r, kind, page, pages) /\ IsSent(r, kind, page, pages)
  BY <1>0
<1>2. UNCHANGED <<session, alive, server, worker>>
  BY DEF SendStep
<1>3. Open = {} /\ Open' = {r} /\ Pending' = Pending \cup {r}
  BY <1>1, OpenAfterSend
<1>4. request'[r].stage = "sent" /\ request'[r].session = session /\ request'[r].deaf = FALSE
      /\ request'[r].kind = kind /\ OthersStay(r)
  BY <1>1 DEF IsSent
<1>5. OneOpen'
  BY <1>1, <1>3 DEF OneOpen, Sends
<1>7. DeafIsAnswered'
  BY <1>3, <1>4, OneFacts DEF DeafIsAnswered, OthersStay
<1>8. OnlyThreadLives'
  BY <1>2, OneFacts DEF OnlyThreadLives, Live
<1>9. LiveIsOpen'
  <2>1. \A s : Reach(s)' => session = s
    BY <1>2, <1>3, <1>4 DEF Reach
  <2>2. \A s \in Sessions, q \in Requests : Live(s, q)' => Live(s, q)
    BY <1>2 DEF Live
  <2> QED
    BY <1>3, <2>1, <2>2, OneFacts DEF LiveIsOpen, Reach
<1>10. AnsweredIsOver'
  BY <1>3, <1>4 DEF AnsweredIsOver
<1> QED
  BY <1>5, <1>7, <1>8, <1>9, <1>10 DEF OneInv, BrowserWaits, WorkersInv

LEMMA OneGet ==
    ASSUME OneInv, BaseInv', NEW r \in Requests, NEW s \in Sessions, GetsSession(r, s)
    PROVE  OneInv'
<1>1. /\ request[r].stage = "sent" /\ request'[r].stage = "queued" /\ request'[r].at = s
      /\ request'[r].deaf = request[r].deaf /\ request'[r].kind = request[r].kind
      /\ OthersStay(r) /\ OtherSessionsStay(s)
      /\ server'[s].thread = server[s].thread /\ server'[s].created = TRUE
      /\ session' = session /\ loading' = loading /\ blocked' = blocked /\ worker' = worker
      /\ request[r].session = s \/ ~server[s].created
  BY DEF GetsSession, InputStays, browser
<1>2. Open' = Open /\ Pending' = Pending /\ r \in Pending
  BY <1>1, OpenStays DEF Pending
<1>3. r \in Open
  BY <1>1, <1>2, OneFacts DEF DeafIsAnswered, Open
<1>4. OneOpen'
  BY <1>1, <1>2, OneFacts DEF OneOpen
<1>6. DeafIsAnswered'
  BY <1>1, <1>2, <1>3, OneFacts DEF DeafIsAnswered, OthersStay, Open
<1>7. OnlyThreadLives'
  BY <1>1, OneFacts DEF OnlyThreadLives, Live, OtherSessionsStay
<1>8. LiveIsOpen'
  <2> SUFFICES ASSUME NEW t \in Sessions, NEW q \in Requests, Live(t, q), Reach(t)'
               PROVE  q \in Open
    BY <1>1, <1>2 DEF LiveIsOpen, Live
  <2>1. server[t].thread = q /\ server[t].created
    BY OneFacts DEF OnlyThreadLives, ThreadsAreCreated
  <2>2. Reach(t)
    BY <1>1, <1>2, <1>3, <2>1, OneFacts DEF Reach, OneOpen
  <2> QED
    BY <2>2, OneFacts DEF LiveIsOpen
<1>9. AnsweredIsOver'
  BY <1>1, <1>2, <1>3, OneFacts DEF AnsweredIsOver, OneOpen
<1> QED
  BY <1>4, <1>6, <1>7, <1>8, <1>9 DEF OneInv, BrowserWaits, WorkersInv

LEMMA OneHandle ==
    ASSUME OneInv, BaseInv', NEW r \in Requests, NEW s \in Sessions, Handles(r, s)
    PROVE  OneInv'
<1>1. /\ request[r].stage = "queued" /\ request'[r].stage = "joining"
      /\ request'[r].at = s /\ request[r].at = s
      /\ request'[r].deaf = request[r].deaf /\ request'[r].kind = request[r].kind
      /\ OthersStay(r) /\ OtherSessionsStay(s)
      /\ server'[s].created = server[s].created
      /\ session' = session /\ loading' = loading /\ blocked' = blocked
      /\ \/ server'[s].thread = r /\ WorkerIs(s, r, "started")
         \/ server'[s].thread = server[s].thread /\ worker' = worker
  BY DEF Handles, InputStays, browser
<1>2. Open' = Open /\ Pending' = Pending /\ r \in Pending
  BY <1>1, OpenStays DEF Pending
<1>3. r \in Open
  BY <1>1, <1>2, OneFacts DEF DeafIsAnswered, Open
<1>4. server[s].created
  BY <1>1, OneFacts DEF AtIsCreated, AtStage
<1>5. OneOpen'
  BY <1>1, <1>2, OneFacts DEF OneOpen
<1>7. DeafIsAnswered'
  BY <1>1, <1>2, <1>3, OneFacts DEF DeafIsAnswered, OthersStay, Open
<1>8. \A q \in Requests : Live(s, q) => q = r
  BY <1>1, <1>3, OneFacts DEF LiveIsOpen, Reach, OneOpen
<1>10. \A t \in Sessions, q \in Requests : Live(t, q)' => Live(t, q) \/ (t = s /\ q = r)
  BY <1>1 DEF Live, WorkerIs
<1>11. OnlyThreadLives'
  <2>1. CASE server'[s].thread = r
    BY <1>1, <1>8, <1>10, <2>1, OneFacts DEF OnlyThreadLives, OtherSessionsStay
  <2>2. CASE server'[s].thread = server[s].thread /\ worker' = worker
    BY <1>1, <2>2, OneFacts DEF OnlyThreadLives, OtherSessionsStay, Live
  <2> QED
    BY <1>1, <2>1, <2>2
<1>12. LiveIsOpen'
  <2>1. \A t : Reach(t)' => Reach(t)
    BY <1>1, <1>2, <1>3, OneFacts DEF Reach, OneOpen
  <2> QED
    BY <1>2, <1>3, <1>10, <2>1, OneFacts DEF LiveIsOpen
<1>13. AnsweredIsOver'
  BY <1>1, <1>2, <1>3, OneFacts DEF AnsweredIsOver, OneOpen
<1> QED
  BY <1>5, <1>7, <1>11, <1>12, <1>13 DEF OneInv, BrowserWaits, WorkersInv

LEMMA OneRespond ==
    ASSUME OneInv, BaseInv', NEW r \in Requests, NEW s \in Sessions, Responds(r, s)
    PROVE  OneInv'
<1>1. /\ request[r].stage = "joining" /\ request'[r].stage = "answered"
      /\ request'[r].at = s /\ request[r].at = s
      /\ request'[r].deaf = request[r].deaf /\ request'[r].kind = request[r].kind
      /\ OthersStay(r) /\ OtherSessionsStay(s)
      /\ server'[s].created = server[s].created /\ server'[s].thread = server[s].thread
      /\ session' = session /\ loading' = loading /\ blocked' = blocked /\ worker' = worker
  BY DEF Responds, InputStays, browser
<1>2. Open' = Open /\ Pending' = Pending /\ r \in Pending
  BY <1>1, OpenStays DEF Pending
<1>3. r \in Open
  BY <1>1, <1>2, OneFacts DEF DeafIsAnswered, Open
<1>4. IF Ended(s, server[s].thread)
      THEN request'[r].answer.op # "wait" /\ request'[r].answer.session = s
      ELSE request'[r].answer.op = "wait" /\ request'[r].answer.session = None
  <2>1. server[s].output \in OutputShape /\ server[s].output.op # "wait"
    BY OneFacts DEF ServerShape, OutputsNamePage
  <2>2. /\ [server[s].output EXCEPT !.session = s].op = server[s].output.op
        /\ [server[s].output EXCEPT !.session = s].session = s
    BY <2>1 DEF OutputShape
  <2>3. /\ [Nothing EXCEPT !.op = "wait"].op = "wait"
        /\ [Nothing EXCEPT !.op = "wait"].session = None
    BY DEF Nothing
  <2> QED
    BY <2>1, <2>2, <2>3 DEF Responds
<1>5. OneOpen'
  BY <1>1, <1>2, OneFacts DEF OneOpen
<1>7. DeafIsAnswered'
  BY <1>1, <1>2, <1>3, OneFacts DEF DeafIsAnswered, OthersStay, Open
<1>8. OnlyThreadLives'
  BY <1>1, OneFacts DEF OnlyThreadLives, Live, OtherSessionsStay
<1>9. LiveIsOpen'
  <2>1. \A t : Reach(t)' => Reach(t)
    BY <1>1, <1>2, <1>3, <1>4, OneFacts DEF Reach, OneOpen
  <2> QED
    BY <1>1, <1>2, <2>1, OneFacts DEF LiveIsOpen, Live
<1>10. AnsweredIsOver'
  <2>1. Ended(s, server[s].thread) => \A q \in Requests : ~Live(s, q)
    BY OneFacts DEF OnlyThreadLives, Ended, Live
  <2> QED
    BY <1>1, <1>2, <1>3, <1>4, <2>1, OneFacts DEF AnsweredIsOver, OneOpen, Live
<1> QED
  BY <1>5, <1>7, <1>8, <1>9, <1>10 DEF OneInv, BrowserWaits, WorkersInv

(* A step that changes neither the requests nor what the browser waits for *)
(* and starts no worker.                                                   *)
LEMMA OneOther ==
    ASSUME OneInv, BaseInv', UNCHANGED <<request, session, blocked, loading>>,
           \A s \in Sessions : /\ server'[s].created = server[s].created
                               /\ server'[s].thread = server[s].thread,
           \A s \in Sessions, r \in Requests : Live(s, r)' => Live(s, r)
    PROVE  OneInv'
<1>1. Open' = Open /\ Pending' = Pending
  BY DEF Open, Pending
<1>2. OneOpen' /\ DeafIsAnswered'
  BY <1>1, OneFacts DEF OneOpen, DeafIsAnswered
<1>3. OnlyThreadLives'
  BY OneFacts DEF OnlyThreadLives
<1>4. LiveIsOpen'
  <2>1. \A s : Reach(s)' => Reach(s)
    BY <1>1 DEF Reach
  <2> QED
    BY <1>1, <2>1, OneFacts DEF LiveIsOpen
<1>5. AnsweredIsOver'
  <2>1. \A r \in Open : request[r].stage = "answered" /\ request[r].answer.op # "wait"
           => request[r].at \in Sessions
    BY OneFacts DEF AtIsCreated, AtStage
  <2> QED
    BY <1>1, <2>1, OneFacts DEF AnsweredIsOver, AnswerIsFrom
<1> QED
  BY <1>2, <1>3, <1>4, <1>5 DEF OneInv, BrowserWaits, WorkersInv

LEMMA OneWork ==
    ASSUME OneInv, BaseInv', CalmWork
    PROVE  OneInv'
<1>1. PICK s \in Sessions : \E r \in Requests :
          WorksOnly(s) /\ (Begins(s, r) \/ Acts(s, r) \/ Registers(s, r))
  BY DEF CalmWork
<1>2. PICK r \in Requests : WorksOnly(s) /\ (Begins(s, r) \/ Acts(s, r) \/ Registers(s, r))
  BY <1>1
<1>3. \A t \in Sessions, q \in Requests : Live(t, q)' => Live(t, q)
  BY <1>2 DEF Begins, Acts, Registers, WorkerIs, Live
<1> QED
  BY <1>2, <1>3, OneOther DEF WorksOnly, OtherSessionsStay, browser

LEMMA OneRetry ==
    ASSUME OneInv, BaseInv', NEW r \in Requests, Retries(r)
    PROVE  OneInv'
<1>1. /\ request[r].stage = "answered" /\ request'[r].stage = "sent" /\ ~request[r].deaf
      /\ request'[r].session = session
      /\ request'[r].deaf = FALSE /\ request'[r].kind = request[r].kind
      /\ OthersStay(r) /\ server' = server /\ worker' = worker
      /\ session' = session /\ loading' = loading /\ blocked' = blocked
  BY DEF Retries, InputStays, browser
<1>2. Open' = Open /\ Pending' = Pending /\ r \in Open
  <2>1. r \in Open /\ r \in Pending /\ r \in Pending' /\ request[r].deaf = FALSE
    BY <1>1, OneFacts DEF Pending, Open
  <2> QED
    BY <1>1, <2>1, OpenStays
<1>3. OneOpen'
  BY <1>1, <1>2, OneFacts DEF OneOpen
<1>5. DeafIsAnswered'
  BY <1>1, <1>2, OneFacts DEF DeafIsAnswered, OthersStay, Open
<1>6. OnlyThreadLives'
  BY <1>1, OneFacts DEF OnlyThreadLives, Live
<1>7. LiveIsOpen'
  <2>1. \A t : Reach(t)' => Reach(t)
    BY <1>1, <1>2, OneFacts DEF Reach, OneOpen
  <2> QED
    BY <1>1, <1>2, <2>1, OneFacts DEF LiveIsOpen, Live
<1>8. AnsweredIsOver'
  BY <1>1, <1>2, OneFacts DEF AnsweredIsOver, OneOpen
<1> QED
  BY <1>3, <1>5, <1>6, <1>7, <1>8 DEF OneInv, BrowserWaits, WorkersInv

LEMMA OneReceive ==
    ASSUME OneInv, BaseInv', NEW r \in Requests, Receives(r)
    PROVE  OneInv'
<1>1. /\ request[r].stage = "answered" /\ request[r].answer.op # "wait"
      /\ OthersStay(r) /\ server' = server /\ worker' = worker
      /\ session' = request[r].answer.session
  BY DEF Receives, Hears
<1>2. Open' = {} /\ r \in Open /\ Pending' = Pending \ {r}
  BY OpenAfterReceive, OneFacts DEF OneOpen
<1>3. OneOpen'
  BY <1>2 DEF OneOpen
<1>4. DeafIsAnswered'
  BY <1>1, <1>2, OneFacts DEF DeafIsAnswered, OthersStay
<1>5. OnlyThreadLives'
  BY <1>1, OneFacts DEF OnlyThreadLives, Live
<1>6. LiveIsOpen'
  BY <1>1, <1>2, OneFacts DEF LiveIsOpen, AnsweredIsOver, AnswerIsFrom, Reach, Live
<1>7. AnsweredIsOver'
  BY <1>2 DEF AnsweredIsOver
<1> QED
  BY <1>3, <1>4, <1>5, <1>6, <1>7 DEF OneInv, BrowserWaits, WorkersInv

LEMMA OneNewSession ==
    ASSUME OneInv, BaseInv', NEW r \in Requests, ReceivesNewSession(r)
    PROVE  OneInv'
<1>1. /\ request[r].stage = "answered" /\ ~request[r].deaf /\ request[r].answer.op # "wait"
      /\ IsClosed(r) /\ server' = server /\ worker' = worker
      /\ session' = request[r].answer.session
      /\ \A q \in Requests : q # r => IsUnheard(q)
  BY DEF ReceivesNewSession, Hears
<1>2. Open' = {} /\ r \in Open
  BY <1>1, OpenAfterReload DEF Open, Pending
<1>3. OneOpen'
  BY <1>2 DEF OneOpen
<1>4. DeafIsAnswered'
  <2> SUFFICES ASSUME NEW q \in Pending' PROVE request'[q].stage = "answered"
    BY DEF DeafIsAnswered
  <2>1. q \in Requests /\ q # r
    BY <1>1 DEF Pending, IsClosed
  <2>2. request'[q].stage = request[q].stage /\ q \in Pending /\ q \notin Open
    BY <1>1, <1>2, <2>1, OneFacts DEF IsUnheard, Pending, OneOpen
  <2> QED
    BY <2>1, <2>2, OneFacts DEF DeafIsAnswered, Open
<1>5. OnlyThreadLives'
  BY <1>1, OneFacts DEF OnlyThreadLives, Live
<1>6. LiveIsOpen'
  BY <1>1, <1>2, OneFacts DEF LiveIsOpen, AnsweredIsOver, AnswerIsFrom, Reach, Live
<1>7. AnsweredIsOver'
  BY <1>2 DEF AnsweredIsOver
<1> QED
  BY <1>3, <1>4, <1>5, <1>6, <1>7 DEF OneInv, BrowserWaits, WorkersInv

LEMMA OneReload ==
    ASSUME OneInv, BaseInv', Reloads, AllAnswered
    PROVE  OneInv'
<1>1. /\ server' = server /\ worker' = worker /\ session' = session
      /\ \A q \in Pending : request[q].stage = "answered" /\ request[q].answer.session = session
      /\ \A q \in Requests : IsUnheard(q)
  BY DEF Reloads, AllAnswered
<1>2. Open' = {}
  BY OpenAfterReload
<1>3. OneOpen'
  BY <1>2 DEF OneOpen
<1>4. DeafIsAnswered'
  <2> SUFFICES ASSUME NEW q \in Pending' PROVE request'[q].stage = "answered"
    BY DEF DeafIsAnswered
  <2>1. q \in Requests
    BY DEF Pending
  <2>2. request'[q].stage = request[q].stage /\ q \in Pending
    BY <1>1, <2>1 DEF IsUnheard, Pending
  <2> QED
    BY <1>1, <2>2
<1>5. OnlyThreadLives'
  BY <1>1, OneFacts DEF OnlyThreadLives, Live
<1>6. LiveIsOpen'
  <2> SUFFICES ASSUME NEW s \in Sessions, NEW q \in Requests, Live(s, q), session = s
               PROVE  FALSE
    BY <1>1, <1>2 DEF LiveIsOpen, Live, Reach
  <2>1. q \in Open
    BY OneFacts DEF LiveIsOpen, Reach
  <2> QED
    BY <1>1, <2>1, OneFacts DEF AnsweredIsOver, AnswerIsFrom
<1>7. AnsweredIsOver'
  BY <1>2 DEF AnsweredIsOver
<1> QED
  BY <1>3, <1>4, <1>5, <1>6, <1>7 DEF OneInv, BrowserWaits, WorkersInv

LEMMA OneDrop ==
    ASSUME OneInv, BaseInv', NEW r \in Requests, Drops(r)
    PROVE  OneInv'
<1>1. /\ OthersStay(r) /\ server' = server /\ worker' = worker
      /\ session' = session /\ loading' = loading /\ blocked' = blocked
  BY DEF Drops, browser
<1>2. Open' = Open /\ r \notin Open /\ Pending' = Pending \ {r}
  BY OpenAfterDrop
<1>3. \A q \in Open : request'[q] = request[q]
  BY <1>1, <1>2, OneFacts DEF OthersStay
<1>4. OneOpen'
  BY <1>1, <1>2, <1>3, OneFacts DEF OneOpen
<1>5. DeafIsAnswered'
  BY <1>1, <1>2, OneFacts DEF DeafIsAnswered, OthersStay
<1>6. OnlyThreadLives'
  BY <1>1, OneFacts DEF OnlyThreadLives, Live
<1>7. LiveIsOpen'
  <2>1. \A s : Reach(s)' => Reach(s)
    BY <1>1, <1>2, <1>3 DEF Reach
  <2> QED
    BY <1>1, <1>2, <2>1, OneFacts DEF LiveIsOpen, Live
<1>8. AnsweredIsOver'
  BY <1>1, <1>2, <1>3, OneFacts DEF AnsweredIsOver, Live
<1> QED
  BY <1>4, <1>5, <1>6, <1>7, <1>8 DEF OneInv, BrowserWaits, WorkersInv


LEMMA OneStep ==
    ASSUME OneInv, BaseInv', Calm
    PROVE  OneInv'
<1>1. CASE Idles \/ DropsSession
  BY <1>1, OneOther DEF Idles, DropsSession, browser, Live
<1> QED
  BY <1>1, OneSend, OneGet, OneHandle, OneRespond, OneWork, OneRetry, OneReceive,
     OneNewSession, OneReload, OneDrop DEF Calm

-----------------------------------------------------------------------------
(* A worker that runs alone has the output to itself.                      *)
RunsEmpty ==
    \A s \in Sessions, r \in Requests : worker[s][r] = "running" => server[s].output = Nothing

LEMMA RunsStep ==
    ASSUME OneInv, RunsEmpty, Calm
    PROVE  RunsEmpty'
<1>1. CASE UNCHANGED <<server, worker>>
  BY <1>1 DEF RunsEmpty
<1>2. ASSUME NEW r \in Requests, NEW s \in Sessions,
             GetsSession(r, s) \/ Handles(r, s) \/ Responds(r, s)
      PROVE  RunsEmpty'
  <2>1. \A t \in Sessions : server'[t].output = server[t].output
    BY <1>2 DEF GetsSession, Handles, Responds, ListsStay, OtherSessionsStay
  <2>2. \A t \in Sessions, q \in Requests :
           worker'[t][q] = "running" => worker[t][q] = "running"
    BY <1>2 DEF GetsSession, Handles, Responds, WorkerIs
  <2> QED
    BY <2>1, <2>2 DEF RunsEmpty
<1>3. CASE CalmWork
  <2>1. PICK s \in Sessions : \E r \in Requests :
            WorksOnly(s) /\ (Begins(s, r) \/ Acts(s, r) \/ Registers(s, r))
    BY <1>3 DEF CalmWork
  <2>2. PICK r \in Requests : WorksOnly(s) /\ (Begins(s, r) \/ Acts(s, r) \/ Registers(s, r))
    BY <2>1
  <2>3. Live(s, r) /\ \A q \in Requests : q # r => ~Live(s, q)
    BY <2>2, OneFacts DEF OnlyThreadLives, Begins, Acts, Registers, Live
  <2>4. /\ \A t \in Sessions, q \in Requests : t # s \/ q # r => worker'[t][q] = worker[t][q]
        /\ worker'[s][r] = "running" => server'[s].output = Nothing
    BY <2>2 DEF Begins, Acts, Registers, WorkerIs
  <2> QED
    BY <2>2, <2>3, <2>4 DEF RunsEmpty, WorksOnly, OtherSessionsStay, Live
<1>4. \A r \in Requests :
         Retries(r) \/ Receives(r) \/ ReceivesNewSession(r) \/ Drops(r) => UNCHANGED <<server, worker>>
  BY DEF Retries, Receives, ReceivesNewSession, Drops, Hears
<1>5. Idles \/ SendStep \/ Reloads \/ DropsSession => UNCHANGED <<server, worker>>
  BY DEF Idles, SendStep, Reloads, DropsSession
<1> QED
  BY <1>1, <1>2, <1>3, <1>4, <1>5 DEF Calm

-----------------------------------------------------------------------------
(* The session of the open request.                                        *)
JustSent(r) ==
    /\ UNCHANGED <<session, alive, server, worker>>
    /\ Open = {}
    /\ \E kind, page, pages : Sends(r, kind, page, pages) /\ IsSent(r, kind, page, pages)

StaysOpen(r) ==
    /\ r \in Open /\ request'[r] = request[r]
    /\ UNCHANGED <<session, shown, history, blocked, loading>>
    /\ alive' \subseteq alive
    /\ \A s \in Sessions : /\ server'[s].created = server[s].created
                           /\ server'[s].thread = server[s].thread
    /\ CalmWork \/ UNCHANGED <<server, worker>>

(* What can have happened to the request that is open after a step.        *)
LEMMA OpenIs ==
    ASSUME OneInv, OneInv', Calm, NEW r \in Open'
    PROVE  /\ r \in Requests /\ session' = session
           /\ \/ JustSent(r)
              \/ /\ r \in Open
                 /\ \E s \in Sessions : GetsSession(r, s) \/ Handles(r, s) \/ Responds(r, s)
              \/ r \in Open /\ Retries(r)
              \/ StaysOpen(r)
<1>1. r \in Requests /\ \A q \in Requests : q \in Open' => q = r
  BY DEF OneInv, BrowserWaits, OneOpen, Open, Pending
<1>2. CASE SendStep /\ Open = {}
  <2>1. PICK q \in Requests : \E kind, page, pages :
            Sends(q, kind, page, pages) /\ IsSent(q, kind, page, pages)
    BY <1>2 DEF SendStep
  <2>2. PICK kind, page, pages : Sends(q, kind, page, pages) /\ IsSent(q, kind, page, pages)
    BY <2>1
  <2>3. q = r
    BY <1>1, <2>2, OpenAfterSend
  <2> QED
    BY <1>1, <1>2, <2>2, <2>3 DEF JustSent, SendStep
<1>3. ASSUME NEW q \in Requests, NEW s \in Sessions,
             GetsSession(q, s) \/ Handles(q, s) \/ Responds(q, s)
      PROVE  q = r /\ r \in Open /\ session' = session
  <2>1. /\ q \in Pending /\ request[q].stage # "answered"
        /\ request'[q].deaf = request[q].deaf /\ OthersStay(q)
        /\ q \in Pending' /\ session' = session
    BY <1>3 DEF GetsSession, Handles, Responds, Pending, browser
  <2>2. q \in Open /\ Open' = Open
    BY <2>1, OneFacts, OpenStays DEF DeafIsAnswered, Open
  <2> QED
    BY <1>1, <2>1, <2>2
<1>4. ASSUME NEW q \in Requests, Retries(q)
      PROVE  q = r /\ r \in Open /\ session' = session
  <2>1. q \in Open /\ q \in Open' /\ session' = session
    BY <1>4 DEF Retries, Pending, Open, browser
  <2> QED
    BY <1>1, <2>1
<1>5. ASSUME NEW q \in Requests, Receives(q) PROVE FALSE
  BY <1>5, OpenAfterReceive, OneFacts DEF OneOpen
<1>6. ASSUME NEW q \in Requests, Drops(q) PROVE StaysOpen(r)
  <2>1. r \in Open /\ r # q
    BY <1>6, OpenAfterDrop
  <2> QED
    BY <1>1, <1>6, <2>1 DEF Drops, OthersStay, StaysOpen, browser
<1>7. ~Reloads /\ \A q \in Requests : ~ReceivesNewSession(q)
  BY OpenAfterReload
<1>8. CASE CalmWork
  <2>1. PICK s \in Sessions : WorksOnly(s)
    BY <1>8 DEF CalmWork
  <2>2. request' = request /\ r \in Open
    BY <2>1 DEF WorksOnly, Open, Pending
  <2> QED
    BY <1>8, <2>1, <2>2, <1>1 DEF WorksOnly, OtherSessionsStay, StaysOpen, browser
<1>9. CASE Idles \/ DropsSession
  <2>1. /\ UNCHANGED <<session, shown, history, blocked, loading, request, server, worker>>
        /\ alive' \subseteq alive
    BY <1>9 DEF Idles, DropsSession, browser
  <2>2. r \in Open
    BY <2>1 DEF Open, Pending
  <2> QED
    BY <1>1, <2>1, <2>2 DEF StaysOpen
<1>10. JustSent(r) \/ StaysOpen(r) => session' = session
  BY DEF JustSent, StaysOpen
<1> HIDE DEF StaysOpen, JustSent
<1> QED
  BY <1>1, <1>2, <1>3, <1>4, <1>5, <1>6, <1>7, <1>8, <1>9, <1>10 DEF Calm

SessionIsSame == \A r \in Open : request[r].session = session

(* Who waits for a thread waits for its own.                               *)
ThreadIsOpen ==
    \A r \in Open : request[r].stage \in {"joining", "answered"} => server[request[r].at].thread = r

RetryHasThread ==
    \A r \in Open :
        request[r].retry /\ (session \in alive \/ (AtStage(r) /\ request[r].at = session))
            => server[session].thread = r

(* A request comes to another session only when its own is gone, and that  *)
(* session is new.                                                         *)
OtherIsGone == \A r \in Open : AtStage(r) /\ request[r].at # session => session \notin alive

OtherIsNew ==
    \A r \in Open : request[r].stage = "queued" /\ request[r].at # session
                        => server[request[r].at].thread = None

SessionInv ==
    /\ SessionIsSame /\ ThreadIsOpen /\ RetryHasThread /\ OtherIsGone /\ OtherIsNew

LEMMA SessionStep ==
    ASSUME OneInv, SessionInv, OneInv', Calm
    PROVE  SessionInv'
<1>0. /\ SessionIsCreated /\ SessionIsSame /\ ThreadIsOpen
      /\ RetryHasThread /\ OtherIsGone /\ OtherIsNew
  BY OneFacts DEF SessionInv
<1>1. ASSUME NEW r \in Open'
      PROVE  /\ request'[r].session = session'
             /\ request'[r].stage \in {"joining", "answered"} => server'[request'[r].at].thread = r
             /\ request'[r].retry /\ (session' \in alive' \/ (AtStage(r)' /\ request'[r].at = session'))
                    => server'[session'].thread = r
             /\ AtStage(r)' /\ request'[r].at # session' => session' \notin alive'
             /\ request'[r].stage = "queued" /\ request'[r].at # session'
                        => server'[request'[r].at].thread = None
  <2>0. /\ r \in Requests /\ session' = session
        /\ session \in Sessions \cup {None} /\ None \notin Sessions /\ alive \subseteq Sessions
    BY <1>1, OpenIs, OneFacts, BaseFacts DEF OneInv
  <2>1. CASE JustSent(r)
    BY <2>0, <2>1 DEF JustSent, IsSent, AtStage
  <2>2. ASSUME NEW s \in Sessions, GetsSession(r, s), r \in Open
        PROVE  /\ request'[r].session = session
               /\ request'[r].stage = "queued" /\ request'[r].at = s
               /\ request'[r].retry /\ (session \in alive' \/ s = session)
                      => server'[session].thread = r
               /\ s # session => session \notin alive' /\ server'[s].thread = None
    <3>1. request[r].session = session /\ request'[r].session = request[r].session
      BY <1>0, <2>2 DEF SessionIsSame, GetsSession
    <3>2. CASE request[r].session = s /\ s \in alive /\ server' = server /\ alive' = alive
      BY <1>0, <2>2, <3>1, <3>2 DEF GetsSession, RetryHasThread
    <3>3. CASE request[r].session \notin alive /\ ~server[s].created /\ alive' = alive \cup {s}
      <4>1. s # session
        BY <1>0, <3>3 DEF SessionIsCreated
      <4>2. session \notin alive' /\ server'[s].thread = None
        BY <2>2, <3>1, <3>3, <4>1, OneFacts DEF GetsSession, ThreadsAreCreated
      <4> QED
        BY <2>2, <3>1, <4>1, <4>2 DEF GetsSession
    <3> QED
      BY <2>2, <3>2, <3>3 DEF GetsSession
  <2>3. ASSUME NEW s \in Sessions, Handles(r, s), r \in Open
        PROVE  /\ request'[r].session = session /\ request'[r].stage = "joining"
               /\ request'[r].at = s /\ server'[s].thread = r
               /\ request'[r].retry /\ session \in alive' => server'[session].thread = r
               /\ s # session => session \notin alive'
    <3>1. /\ request[r].session = session /\ request'[r].session = request[r].session
          /\ request[r].stage = "queued" /\ request[r].at = s /\ alive' = alive
          /\ request'[r].stage = "joining" /\ request'[r].at = s
          /\ request'[r].retry = request[r].retry
          /\ OtherSessionsStay(s)
      BY <1>0, <2>3 DEF SessionIsSame, Handles
    <3>2. server'[s].thread = r
      BY <1>0, <2>3, <3>1 DEF Handles, RetryHasThread, OtherIsNew, AtStage
    <3>3. s # session => session \notin alive
      BY <1>0, <2>3, <3>1 DEF OtherIsGone, AtStage
    <3> QED
      BY <3>1, <3>2, <3>3
  <2>4. ASSUME NEW s \in Sessions, Responds(r, s), r \in Open
        PROVE  /\ request'[r].session = session /\ request'[r].stage = "answered"
               /\ request'[r].at = s /\ server'[s].thread = r
               /\ request'[r].retry /\ session \in alive' => server'[session].thread = r
               /\ s # session => session \notin alive'
    <3>1. /\ request[r].session = session /\ request'[r].session = request[r].session
          /\ request[r].stage = "joining" /\ request[r].at = s /\ alive' = alive
          /\ request'[r].stage = "answered" /\ request'[r].at = s
          /\ request'[r].retry = request[r].retry
          /\ OtherSessionsStay(s) /\ server'[s].thread = server[s].thread
      BY <1>0, <2>4 DEF SessionIsSame, Responds
    <3>2. server'[s].thread = r
      BY <1>0, <2>4, <3>1 DEF ThreadIsOpen
    <3>3. s # session => session \notin alive
      BY <1>0, <2>4, <3>1 DEF OtherIsGone, AtStage
    <3> QED
      BY <3>1, <3>2, <3>3
  <2>5. ASSUME Retries(r), r \in Open
        PROVE  /\ request'[r].session = session /\ request'[r].stage = "sent"
               /\ session \in alive' => server'[session].thread = r
    BY <1>0, <2>0, <2>5 DEF Retries, ThreadIsOpen, OtherIsGone, AtStage
  <2>6. CASE StaysOpen(r)
    <3>1. /\ r \in Open /\ request'[r] = request[r] /\ alive' \subseteq alive
          /\ AtStage(r)' <=> AtStage(r)
      BY <2>6 DEF StaysOpen, AtStage
    <3>2. \A s \in Sessions : server'[s].thread = server[s].thread
      BY <2>6 DEF StaysOpen
    <3>3. AtStage(r) => request[r].at \in Sessions
      BY <2>0, OneFacts DEF AtIsCreated
    <3> QED
      BY <1>0, <2>0, <3>1, <3>2, <3>3
         DEF SessionIsSame, ThreadIsOpen, RetryHasThread, OtherIsGone, OtherIsNew, AtStage
  <2>7. \/ JustSent(r)
        \/ /\ r \in Open
           /\ \E s \in Sessions : GetsSession(r, s) \/ Handles(r, s) \/ Responds(r, s)
        \/ r \in Open /\ Retries(r)
        \/ StaysOpen(r)
    BY <1>1, OpenIs
  <2> QED
    BY <2>0, <2>1, <2>2, <2>3, <2>4, <2>5, <2>6, <2>7 DEF AtStage
<1> QED
  BY <1>1 DEF SessionInv, SessionIsSame, ThreadIsOpen, RetryHasThread, OtherIsGone, OtherIsNew


-----------------------------------------------------------------------------
(* The browser and its session agree on the pages; no page is shown only   *)
(* after a slow start.                                                     *)
Agrees(s, pages) ==
    /\ pages = <<>> => SlowStart
    /\ pages = server[s].visible \/ (Len(pages) = 1 /\ request[pages[1]].kind = "back")

Known(s, pages) ==
    \A p \in Items(pages) : p \in server[s].components \/ worker[s][p] = "failed"

(* Session s and what the browser shows, before request r is handled ...   *)
Ready(s, r) ==
    LET kind == request[r].kind
        page == request[r].page
    IN  /\ kind \in {"detail", "hide"} => shown = server[s].visible /\ page \in Items(shown)
        /\ kind = "close" => /\ page \in Items(server[s].visible)
                             /\ shown = Before(server[s].visible, page)
        /\ kind \notin {"init", "close"} => Agrees(s, shown)
        /\ kind # "init" => (shown = <<>> => SlowStart) /\ Known(s, shown)
        /\ kind = "back" => request[r].pages # <<>>

(* ... and session s and what the browser will show, after it is handled.  *)
Acted(s, r) ==
    LET out == server[s].output
    IN  /\ Agrees(s, Applied(out))
        /\ \A p \in Items(Applied(out)) :
              \/ p \in server[s].components \/ worker[s][p] = "failed"
              \/ /\ worker[s][r] = "acted"
                 /\ out.op \in {"showPage", "showPages"} /\ p \in Items(out.pages)

(* The session the browser has, or will have with the first answer.        *)
Home(s, r) == s = session \/ (session = None /\ AtStage(r) /\ s = request[r].at)

(* A first request that took too long is lost in the session its retry     *)
(* gets.                                                                   *)
Lost(s) == SlowStart /\ session = None /\ server[s].visible = <<>>

(* Session s works for request r, or will be asked to.                     *)
Serves(s, r) ==
    \/ request[r].retry /\ s \in alive
    \/ worker[s][r] # "none"
    \/ AtStage(r) /\ request[r].at = s

OriginAgrees(s, r) == Serves(s, r) => request[r].origin = s \/ Lost(s)

AnswerAgrees(s, r) ==
    request[r].stage = "answered" /\ request[r].at = s /\ request[r].answer.op # "wait" =>
        /\ request[r].answer = [server[s].output EXCEPT !.session = s]
        /\ worker[s][r] \in {"done", "failed"}

HomeAgrees(s, r) ==
    /\ OriginAgrees(s, r) /\ AnswerAgrees(s, r)
    /\ IF HasRun(s, r) THEN Acted(s, r) ELSE Ready(s, r)

RequestAgrees(r) ==
    /\ request[r].kind = "init" => shown = <<>>
    /\ session = None => request[r].kind = "init" /\ (request[r].retry => SlowStart)
    /\ request[r].stage = "sent" /\ ~request[r].retry => request[r].origin = None
    /\ request[r].stage = "answered" /\ request[r].answer.op = "wait" =>
          request[r].at = session \/ SlowStart
    /\ \A s \in Sessions : Home(s, r) => HomeAgrees(s, r)

BrowserAgrees ==
    /\ loading => shown = <<>>
    /\ Open = {} /\ ~loading =>
          session # None /\ Agrees(session, shown) /\ Known(session, shown)

AgreeInv ==
    /\ OneInv /\ RunsEmpty /\ SessionInv
    /\ BrowserAgrees /\ \A r \in Open : RequestAgrees(r)

LEMMA AgreeFacts ==
    ASSUME AgreeInv
    PROVE  /\ BaseInv /\ TypesInv /\ StateInv /\ OneInv /\ SessionInv /\ HandledInv /\ Shape
           /\ RunsEmpty /\ OutputsNamePage
           /\ session \in Sessions \cup {None} /\ None \notin Sessions /\ None \notin Requests
           /\ BrowserAgrees /\ NewIsEmpty /\ Open \subseteq Requests
           /\ \A r \in Open : RequestAgrees(r) /\ r \in Pending
           /\ \A r \in Open : AtStage(r) => request[r].at \in Sessions
           /\ shown \in Lists /\ Distinct(shown)
<1>1. /\ OneInv /\ SessionInv /\ RunsEmpty /\ BrowserAgrees
      /\ \A r \in Open : RequestAgrees(r)
  BY DEF AgreeInv
<1>2. BaseInv /\ TypesInv
  BY <1>1, BaseFacts DEF OneInv
<1>3. shown \in Lists /\ Rising(shown)
  BY <1>2, BaseFacts DEF TypesInv, ListsInv, ProperPages, Proper
<1>4. Distinct(shown)
  BY <1>3, RisingIsDistinct
<1> QED
  BY <1>1, <1>2, <1>3, <1>4, BaseFacts, OneFacts DEF ShapeInv, AtIsCreated

(* All steps but those that send a request.                                *)
SendsNothing ==
    \/ Idles
    \/ \E r \in Requests : \E s \in Sessions :
          GetsSession(r, s) \/ Handles(r, s) \/ Responds(r, s)
    \/ WorkStep
    \/ \E r \in Requests :
          Retries(r) \/ Receives(r) \/ ReceivesNewSession(r) \/ Drops(r)
    \/ Reloads
    \/ DropsSession

LEMMA SendsNothingIs ==
    /\ Step => SendStep \/ SendsNothing
    /\ Calm => (SendStep /\ Open = {}) \/ SendsNothing
<1>1. Step => SendStep \/ SendsNothing
  BY DEF Step, SendsNothing
<1>2. Calm => (SendStep /\ Open = {}) \/ SendsNothing
  BY CalmIsStep DEF Calm, SendsNothing
<1> QED
  BY <1>1, <1>2

LEMMA InputsStay ==
    ASSUME SendsNothing
    PROVE  \A r \in Requests : InputStays(r)
<1>1. CASE request' = request
  BY <1>1 DEF InputStays
<1>2. ASSUME NEW r \in Requests, NEW s \in Sessions,
             GetsSession(r, s) \/ Handles(r, s) \/ Responds(r, s)
      PROVE  OthersStay(r) /\ InputStays(r)
  BY <1>2 DEF GetsSession, Handles, Responds
<1>3. ASSUME NEW r \in Requests,
             Retries(r) \/ Receives(r) \/ ReceivesNewSession(r) \/ Drops(r)
      PROVE  \A q \in Requests : InputStays(q)
  <2>1. InputStays(r)
    BY <1>3 DEF Retries, Receives, ReceivesNewSession, Drops, Hears, IsClosed
  <2>2. OthersStay(r) \/ \A q \in Requests : q # r => IsUnheard(q)
    BY <1>3 DEF Retries, Receives, ReceivesNewSession, Drops
  <2> QED
    BY <2>1, <2>2 DEF OthersStay, IsUnheard, InputStays
<1>4. Reloads => \A q \in Requests : InputStays(q)
  BY DEF Reloads, IsUnheard
<1>5. Idles \/ WorkStep \/ DropsSession => request' = request
  BY DEF Idles, WorkStep, WorksOnly, DropsSession
<1> QED
  BY <1>1, <1>2, <1>3, <1>4, <1>5 DEF SendsNothing, OthersStay, InputStays

(* A step in which the browser shows the same and session s is the same,   *)
(* but may have started a worker.                                          *)
Same(s) ==
    /\ shown' = shown /\ ListsStay(s)
    /\ \A p \in Requests : InputStays(p)
    /\ \A p \in Requests : \/ worker'[s][p] = worker[s][p]
                           \/ worker[s][p] = "none" /\ worker'[s][p] = "started"

LEMMA SameAgrees ==
    ASSUME StateInv, NEW s \in Sessions, Same(s)
    PROVE  /\ Agrees(s, shown) => Agrees(s, shown)'
           /\ Known(s, shown) => Known(s, shown)'
           /\ \A r \in Requests : /\ HasRun(s, r)' <=> HasRun(s, r)
                                  /\ Ready(s, r) => Ready(s, r)'
                                  /\ Acted(s, r) => Acted(s, r)'
<1>0. /\ shown' = shown /\ server'[s].visible = server[s].visible
      /\ server'[s].output = server[s].output /\ server'[s].components = server[s].components
      /\ \A p \in Requests : /\ request'[p].kind = request[p].kind
                             /\ request'[p].page = request[p].page
                             /\ request'[p].pages = request[p].pages
      /\ shown \in Lists
  BY ShapeFacts DEF Same, ListsStay, InputStays
<1>1. \A p \in Requests : /\ worker'[s][p] = "failed" <=> worker[s][p] = "failed"
                          /\ worker'[s][p] = "acted" <=> worker[s][p] = "acted"
                          /\ HasRun(s, p)' <=> HasRun(s, p)
  BY DEF Same, HasRun
<1>2. ASSUME NEW pages \in Lists
      PROVE  /\ Agrees(s, pages)' <=> Agrees(s, pages)
             /\ Known(s, pages)' <=> Known(s, pages)
  <2>1. pages # <<>> => pages[1] \in Requests
    BY ListProperties
  <2>2. \A p \in Items(pages) : p \in Requests
    BY ListProperties
  <2>3. Agrees(s, pages)' <=> Agrees(s, pages)
    BY <1>0, <2>1 DEF Agrees
  <2>4. Known(s, pages)' <=> Known(s, pages)
    BY <1>0, <1>1, <2>2 DEF Known
  <2> QED
    BY <2>3, <2>4
<1>3. Agrees(s, shown)' <=> Agrees(s, shown)
  BY <1>0, <1>2 DEF Agrees
<1>4. Known(s, shown)' <=> Known(s, shown)
  BY <1>0, <1>2 DEF Known
<1>5. ASSUME NEW r \in Requests, Ready(s, r) PROVE Ready(s, r)'
  BY <1>0, <1>3, <1>4, <1>5 DEF Ready
<1>6. ASSUME NEW r \in Requests, Acted(s, r) PROVE Acted(s, r)'
  <2> DEFINE out == server[s].output
             pages == Applied(out)
  <2>1. pages \in Lists
    BY ShapeFacts, AppliedIs DEF StateInv, ShapeInv
  <2>2. Applied(server[s].output)' = pages
    BY <1>0 DEF Applied, WithPage
  <2>3. Agrees(s, pages)
    BY <1>6 DEF Acted
  <2>4. \A p \in Items(pages) : p \in Requests
    BY <2>1, ListProperties
  <2> HIDE DEF pages
  <2>5. Agrees(s, Applied(server[s].output))'
    BY <1>0, <1>2, <2>1, <2>2, <2>3 DEF Agrees
  <2>6. \A p \in Items(pages) :
              \/ p \in server[s].components \/ worker[s][p] = "failed"
              \/ /\ worker[s][r] = "acted"
                 /\ out.op \in {"showPage", "showPages"} /\ p \in Items(out.pages)
    BY <1>6 DEF Acted, pages
  <2> QED
    BY <1>0, <1>1, <2>2, <2>4, <2>5, <2>6 DEF Acted
<1> QED
  BY <1>1, <1>3, <1>4, <1>5, <1>6

(* The page right of p, taken away from the list with all right of it.     *)
LEMMA BeforeNext ==
    ASSUME NEW s \in Lists, Distinct(s), NEW p \in Items(s), Index(s, p) < Len(s)
    PROVE  /\ s[Index(s, p) + 1] \in Items(s)
           /\ Before(s, s[Index(s, p) + 1]) = Through(s, p)
<1> DEFINE i == Index(s, p)
           q == s[i + 1]
<1>1. i \in 1 .. Len(s) /\ Len(s) \in Nat
  BY ListProperties, IndexProperties
<1>2. i + 1 \in 1 .. Len(s) /\ i < Len(s)
  BY <1>1
<1>3. q \in Items(s)
  BY <1>2, ListProperties
<1>4. Index(s, q) = i + 1
  <2> HIDE DEF i
  <2>1. \A j \in 1 .. Len(s) : Distinct(s) /\ s[j] = q => j = Index(s, q)
    BY <1>3, IndexProperties
  <2> QED
    BY <1>2, <2>1
<1> HIDE DEF q
<1>5. Index(s, q) - 1 = i
  <2> HIDE DEF i
  <2> QED
    BY <1>1, <1>4
<1> QED
  BY <1>3, <1>5 DEF Before, Through, q

(* A worker that has shown pages anew has them registered next, and the    *)
(* browser will show them, whatever it shows now.                          *)
LEMMA ShowsAgree ==
    ASSUME Shape, Shape', NEW s \in Sessions, NEW r \in Requests,
           UNCHANGED <<shown, request>>, shown \in Lists,
           \/ /\ OnePageShown(server[s], server'[s], r)
              /\ worker'[s][r] \in {"acted", "failed"}
           \/ /\ PagesShown(server[s], server'[s], request[r].pages)
              /\ worker'[s][r] = "acted"
    PROVE  Acted(s, r)'
<1> DEFINE v == server[s]
           e == server'[s]
           out == e.output
           pages == Applied(out)
           New(p) == \/ p \in e.components \/ worker'[s][p] = "failed"
                     \/ /\ worker'[s][r] = "acted"
                        /\ out.op \in {"showPage", "showPages"} /\ p \in Items(out.pages)
           Good(x) == /\ x # <<>> /\ x = e.visible
                      /\ \A p \in Items(x) : New(p)
<1>0. /\ shown \in Lists /\ v \in ServerShape /\ e \in ServerShape /\ out \in OutputShape
      /\ request[r].pages \in Lists /\ None \notin Requests
  <2>1. v \in ServerShape /\ e \in ServerShape /\ request[r] \in RequestShape
    BY DEF Shape
  <2> QED
    BY <2>1 DEF ServerShape, RequestShape, None, Requests
<1>1. Applied(server[s].output)' = pages
  BY DEF Applied, WithPage
<1>2. Good(pages) => Acted(s, r)'
  <2> HIDE DEF pages
  <2> QED
    BY <1>0, <1>1 DEF Acted, Agrees
<1> HIDE DEF pages
<1>3. CASE OnePageShown(v, e, r) /\ worker'[s][r] \in {"acted", "failed"}
  <2>1. out.op = "showPage" /\ out.pages = <<r>> /\ out.master = None /\ out.pages[1] = r
    BY <1>0, <1>3, OnePage, ShowsShape DEF OnePageShown
  <2>2. NamesPage(out) /\ None \notin Items(shown)
    BY <1>0, <2>1, OnePage, ListProperties DEF NamesPage
  <2>3. pages = <<r>>
    BY <1>0, <2>1, <2>2, AppliedIs DEF pages, WithPage
  <2>4. e.visible = <<r>> /\ Items(<<r>>) = {r} /\ <<r>> # <<>>
    BY <1>3, OnePage DEF OnePageShown
  <2>5. New(r)
    BY <1>3, <2>1, <2>4
  <2> QED
    BY <1>2, <2>3, <2>4, <2>5
<1>4. CASE PagesShown(v, e, request[r].pages) /\ worker'[s][r] = "acted"
  <2> DEFINE x == request[r].pages
  <2>1. out = Shows("showPages", x, None) /\ e.visible = x /\ x # <<>> /\ x \in Lists
    BY <1>0, <1>4 DEF PagesShown
  <2> HIDE DEF x
  <2>2. out.op = "showPages" /\ out.pages = x
    BY <2>1, ShowsShape
  <2>3. NamesPage(out)
    BY <2>2 DEF NamesPage
  <2>4. pages = x
    BY <1>0, <2>2, <2>3, AppliedIs DEF pages
  <2> QED
    BY <1>2, <1>4, <2>1, <2>2, <2>4
<1> QED
  BY <1>3, <1>4

(* What request r does to the session is what the browser will do to its   *)
(* container, and Refused never meets a page on the screen.                *)
LEMMA ActsAgree ==
    ASSUME AgreeInv, NEW s \in Sessions, NEW r \in Open, Home(s, r),
           request[r].origin = s, Shape', WorksOnly(s), Acts(s, r)
    PROVE  Acted(s, r)'
<1> DEFINE v == server[s]
           e == server'[s]
           page == request[r].page
           out == e.output
           pages == Applied(out)
           New(p) == \/ p \in e.components \/ worker'[s][p] = "failed"
                     \/ /\ worker'[s][r] = "acted"
                        /\ out.op \in {"showPage", "showPages"} /\ p \in Items(out.pages)
           Good(x) == /\ x = <<>> => SlowStart
                      /\ x = e.visible \/ (Len(x) = 1 /\ request[x[1]].kind = "back")
                      /\ \A p \in Items(x) : New(p)
<1>0. /\ StateInv /\ Shape /\ shown \in Lists /\ Distinct(shown) /\ r \in Requests
      /\ v \in ServerShape /\ e \in ServerShape /\ v.visible \in Lists /\ out \in OutputShape
      /\ request[r].pages \in Lists /\ page \in Requests \cup {None} /\ None \notin Requests
      /\ shown' = shown /\ request' = request
      /\ worker[s][r] = "running" /\ v.output = Nothing
  <2>1. v \in ServerShape /\ e \in ServerShape /\ request[r] \in RequestShape
    BY AgreeFacts DEF Shape
  <2>2. worker[s][r] = "running"
    BY DEF Acts
  <2>3. v.output = Nothing
    BY <2>2, AgreeFacts DEF RunsEmpty
  <2> QED
    BY <2>1, <2>2, <2>3, AgreeFacts DEF ServerShape, RequestShape, WorksOnly, browser
<1>1. Kind(s, r) = request[r].kind /\ Ready(s, r)
  <2>1. HomeAgrees(s, r)
    BY AgreeFacts DEF RequestAgrees
  <2>2. ~HasRun(s, r)
    BY <1>0 DEF HasRun
  <2> QED
    BY <2>1, <2>2 DEF HomeAgrees, Kind
<1>2. /\ request[r].kind \in {"detail", "hide"} => shown = v.visible /\ page \in Items(shown)
      /\ request[r].kind = "close" => page \in Items(v.visible) /\ shown = Before(v.visible, page)
      /\ request[r].kind \notin {"init", "close"} =>
            /\ shown = <<>> => SlowStart
            /\ shown = v.visible \/ (Len(shown) = 1 /\ request[shown[1]].kind = "back")
      /\ request[r].kind # "init" => (shown = <<>> => SlowStart) /\ Known(s, shown)
  BY <1>1 DEF Ready, Agrees
<1>3. \A p \in Requests : p # r => worker'[s][p] = worker[s][p]
  BY DEF Acts, WorkerIs
<1>4. worker'[s][r] \in {"acted", "failed"}
  BY DEF Acts, WorkerIs
<1>5. Applied(server[s].output)' = pages
  BY <1>0 DEF Applied, WithPage
<1>6. Good(pages) => Acted(s, r)'
  <2> HIDE DEF pages
  <2> QED
    BY <1>0, <1>5 DEF Acted, Agrees
<1>7. \A p \in Items(shown) :
        request[r].kind # "init" => p \in v.components \/ worker'[s][p] = "failed"
  <2>1. \A p \in Items(shown) : p \in Requests
    BY <1>0, ListProperties
  <2>2. worker[s][r] # "failed"
    BY <1>0
  <2> QED
    BY <1>2, <1>3, <2>1, <2>2 DEF Known
<1>8. Nothing.op = "none" /\ out.op \in {"none", "wait", "showPage", "showPages", "hidePage"}
  BY <1>0 DEF Nothing, OutputShape
<1> HIDE DEF v, e, out, pages
<1>9. ASSUME out = Nothing, e.visible = shown \/ e.visible = v.visible,
             e.components = v.components, request[r].kind \notin {"init"},
             request[r].kind = "close" => e.visible = shown
      PROVE  Good(pages)
  <2>1. pages = shown
    BY <1>0, <1>8, <1>9, NothingShape, AppliedIs DEF pages
  <2> QED
    BY <1>2, <1>7, <1>9, <2>1
<1>10. CASE server' = server /\ (Refused(s, r) \/ Kind(s, r) \in {"show", "detail", "hide", "quiet"})
  <2>1. e = v
    BY <1>10 DEF e, v
  <2>2. request[r].kind \notin {"init", "close"}
    <3>1. CASE Kind(s, r) \in {"show", "detail", "hide", "quiet"}
      BY <1>1, <3>1
    <3>2. CASE Refused(s, r)
      BY <1>1, <1>2, <3>2 DEF Refused, v
    <3> QED
      BY <1>10, <3>1, <3>2
  <2> QED
    BY <1>0, <1>6, <1>9, <2>1, <2>2 DEF out
<1>12. ASSUME DetailShown(v, e, page, r), request[r].kind = "detail"
       PROVE  Good(pages)
  <2>0. shown = v.visible /\ page \in Items(shown) /\ page \in Requests
    BY <1>0, <1>2, <1>12, ListProperties
  <2>1. out.op = "showPage" /\ out.pages = <<r>> /\ out.master = page /\ out.pages[1] = r
    BY <1>0, <1>12, <2>0, OnePage, ShowsShape DEF DetailShown, out
  <2>2. NamesPage(out)
    BY <2>1, OnePage DEF NamesPage
  <2> DEFINE t == Through(shown, page)
  <2>3. pages = Append(t, r) /\ e.visible = Append(t, r) /\ e.components = v.components
    <3>1. pages = WithPage(page, r)
      BY <1>0, <2>1, <2>2, AppliedIs DEF pages
    <3> QED
      BY <1>12, <2>0, <3>1 DEF WithPage, DetailShown
  <2>4. t \in Lists /\ Items(t) \subseteq Items(shown)
    BY <1>0, <2>0, ThroughProperties
  <2> HIDE DEF t
  <2>5. Append(t, r) # <<>> /\ Items(Append(t, r)) = Items(t) \cup {r}
    BY <1>0, <2>4, AppendPage
  <2>6. New(r)
    BY <1>0, <1>4, <2>1, OnePage
  <2>7. \A p \in Items(t) : New(p)
    BY <1>7, <1>12, <2>3, <2>4
  <2> QED
    BY <2>3, <2>5, <2>6, <2>7
<1>13. ASSUME DetailHidden(v, e, page), request[r].kind = "hide"
       PROVE  Good(pages)
  <2> DEFINE q == shown[Index(shown, page) + 1]
  <2>0. /\ shown = v.visible /\ page \in Items(shown) /\ page \in Requests
        /\ Index(shown, page) < Len(shown) /\ e.components = v.components
        /\ out = Shows("hidePage", <<q>>, None) /\ e.visible = Through(shown, page)
    BY <1>0, <1>2, <1>13, ListProperties DEF DetailHidden, out
  <2>1. q \in Items(shown) /\ Before(shown, q) = Through(shown, page)
    BY <1>0, <2>0, BeforeNext
  <2>2. q \in Requests
    BY <1>0, <2>1, ListProperties
  <2> HIDE DEF q
  <2>3. out.op = "hidePage" /\ out.pages = <<q>> /\ out.pages[1] = q
    BY <2>0, <2>2, OnePage, ShowsShape
  <2>4. NamesPage(out)
    BY <2>2, <2>3, OnePage DEF NamesPage
  <2>5. pages = Through(shown, page)
    BY <1>0, <2>1, <2>3, <2>4, AppliedIs DEF pages
  <2>6. pages # <<>> /\ Items(pages) \subseteq Items(shown)
    BY <1>0, <2>0, <2>5, ThroughProperties
  <2> QED
    BY <1>7, <1>13, <2>0, <2>5, <2>6
<1>15. ASSUME ExpiredShown(v, e, r), request[r].kind = "back"
       PROVE  Good(pages)
  <2>1. out.op = "showPages" /\ out.pages = <<r>>
    BY <1>0, <1>15, OnePage, ShowsShape DEF ExpiredShown, out
  <2>2. NamesPage(out)
    BY <2>1 DEF NamesPage
  <2>3. pages = <<r>>
    BY <1>0, <2>1, <2>2, AppliedIs DEF pages
  <2>4. Items(pages) = {r} /\ New(r) /\ pages # <<>> /\ Len(pages) = 1 /\ pages[1] = r
    BY <1>0, <1>4, <2>1, <2>3, OnePage
  <2> QED
    BY <1>15, <2>4
<1>16. ASSUME PagesClosed(v, e, page), request[r].kind = "close"
       PROVE  Good(pages)
  <2>1. e.visible = shown /\ e.components = v.components /\ out = Nothing
    BY <1>0, <1>2, <1>16 DEF PagesClosed, out
  <2> QED
    BY <1>9, <1>16, <2>1
<1>17. ASSUME e = v, request[r].kind \in {"detail", "hide", "quiet"}
       PROVE  Good(pages)
  <2>1. e.components = v.components /\ out = Nothing /\ e.visible = v.visible
    BY <1>0, <1>17 DEF out
  <2> QED
    BY <1>9, <1>17, <2>1
<1>18. CASE /\ KindDoes(Kind(s, r), server[s], server'[s], r, request[r].page, request[r].pages)
            /\ Kind(s, r) \in {"show", "detail", "hide"} \/ worker'[s][r] = "acted"
  <2> DEFINE k == Kind(s, r)
  <2>1. /\ \/ k \in {"init", "show"} /\ OnePageShown(v, e, r)
           \/ k = "detail" /\ DetailShown(v, e, page, r)
           \/ k = "hide" /\ DetailHidden(v, e, page)
           \/ k \in {"init", "back"} /\ PagesShown(v, e, request[r].pages)
           \/ k = "back" /\ ExpiredShown(v, e, r)
           \/ k = "close" /\ PagesClosed(v, e, page)
           \/ k \in {"detail", "hide", "quiet"} /\ e = v
        /\ k = request[r].kind /\ (k \in {"show", "detail", "hide"} \/ worker'[s][r] = "acted")
    BY <1>1, <1>18, Zenon DEF KindDoes, v, e
  <2> HIDE DEF k, Good
  <2>2. CASE OnePageShown(v, e, r) \/ (k \in {"init", "back"} /\ PagesShown(v, e, request[r].pages))
    <3>1. PagesShown(v, e, request[r].pages) /\ k \in {"init", "back"} => worker'[s][r] = "acted"
      BY <2>1
    <3> QED
      BY <1>0, <1>4, <2>2, <3>1, ShowsAgree DEF v, e
  <2>3. CASE ~(OnePageShown(v, e, r) \/ (k \in {"init", "back"} /\ PagesShown(v, e, request[r].pages)))
    <3>1. Good(pages)
      BY <1>12, <1>13, <1>15, <1>16, <1>17, <2>1, <2>3
    <3> QED
      BY <1>6, <3>1
  <2> QED
    BY <2>2, <2>3
<1>19. \/ /\ KindDoes(Kind(s, r), server[s], server'[s], r, request[r].page, request[r].pages)
          /\ Kind(s, r) \in {"show", "detail", "hide"} \/ worker'[s][r] = "acted"
       \/ server' = server /\ (Refused(s, r) \/ Kind(s, r) \in {"show", "detail", "hide", "quiet"})
  BY DEF Acts, WorkerIs
<1> QED
  BY <1>10, <1>18, <1>19

LEMMA LostActsAgree ==
    ASSUME AgreeInv, NEW s \in Sessions, NEW r \in Open, Lost(s),
           request[r].origin # s, Shape', WorksOnly(s), Acts(s, r)
    PROVE  Acted(s, r)' /\ server'[s] = server[s]
<1>1. /\ SlowStart /\ shown = <<>> /\ shown' = <<>> /\ server[s].visible = <<>>
      /\ worker[s][r] = "running" /\ server[s].output = Nothing
  BY AgreeFacts DEF Lost, RequestAgrees, WorksOnly, browser, Acts, RunsEmpty
<1>2. Kind(s, r) = "quiet"
  BY DEF Kind
<1>3. server'[s] = server[s]
  BY <1>2 DEF Acts, KindDoes, Refused
<1>4. Applied(server[s].output)' = <<>>
  BY <1>1, <1>3, NothingShape DEF Applied
<1>5. Items(<<>>) = {}
  BY NoPages
<1> QED
  BY <1>1, <1>3, <1>4, <1>5 DEF Acted, Agrees

(* Only the worker of the open request runs where the browser looks.       *)
LEMMA LiveAtHome ==
    ASSUME AgreeInv, NEW s \in Sessions, NEW q \in Requests, Live(s, q),
           s = session \/ \E r \in Open : Home(s, r)
    PROVE  q \in Open
<1>1. CASE s = session
  BY <1>1, AgreeFacts, OneFacts DEF LiveIsOpen, Reach
<1>2. ASSUME NEW r \in Open, AtStage(r), s = request[r].at
      PROVE  q \in Open
  <2>1. CASE request[r].stage \in {"queued", "joining"}
    BY <1>2, <2>1, AgreeFacts, OneFacts DEF LiveIsOpen, Reach
  <2>2. CASE request[r].stage = "answered"
    BY <1>2, <2>2, AgreeFacts, OneFacts DEF OnlyThreadLives, SessionInv, ThreadIsOpen
  <2> QED
    BY <1>2, <2>1, <2>2 DEF AtStage
<1> QED
  BY <1>1, <1>2 DEF Home

LEMMA AgreeSend ==
    ASSUME AgreeInv, OneInv', Calm, NEW r \in Open', JustSent(r)
    PROVE  RequestAgrees(r)'
<1>0. PICK kind, page, pages : Sends(r, kind, page, pages) /\ IsSent(r, kind, page, pages)
  BY DEF JustSent
<1>1. /\ r \in Requests /\ Open = {} /\ UNCHANGED <<session, alive, server, worker>>
      /\ request[r].stage = "unsent" /\ OthersStay(r)
      /\ request'[r].stage = "sent" /\ request'[r].kind = kind /\ request'[r].page = page
      /\ request'[r].pages = pages /\ request'[r].retry = FALSE /\ request'[r].origin = None
      /\ (kind # "close" => shown' = shown)
  BY <1>0, OpenIs, AgreeFacts DEF JustSent, IsSent, Sends
<1>2. \A s \in Sessions : worker[s][r] = "none"
  BY <1>1, AgreeFacts DEF HandledInv, Unhandled, NotYet
<1>3. /\ kind = "init" => shown = <<>>
      /\ kind # "init" => session \in Sessions /\ Agrees(session, shown) /\ Known(session, shown)
  <2>1. kind = "init" => loading
    BY <1>0 DEF Sends
  <2>2. kind # "init" => ~loading
    BY <1>0 DEF Sends, MaySend
  <2> QED
    BY <1>1, <2>1, <2>2, AgreeFacts DEF BrowserAgrees
<1>4. \A p \in Items(shown) : p \in Requests /\ p # r /\ request'[p] = request[p]
  <2>1. \A p \in Items(shown) : p \in Requests /\ request[p].stage # "unsent"
    BY AgreeFacts, ListProperties DEF TypesInv, ListsInv, ProperPages, Proper, WasSent
  <2> QED
    BY <1>1, <2>1 DEF OthersStay
<1>5. ASSUME kind # "init", NEW s \in Sessions, s = session
      PROVE  Ready(s, r)'
  <2>0. /\ shown \in Lists /\ Distinct(shown) /\ (shown = <<>> => SlowStart)
        /\ shown = server[s].visible \/ (Len(shown) = 1 /\ request[shown[1]].kind = "back")
        /\ \A p \in Items(shown) : p \in server[s].components \/ worker[s][p] = "failed"
    BY <1>3, <1>5, AgreeFacts DEF Agrees, Known
  <2>1. CASE kind = "close"
    <3>1. PICK i \in 2 .. Len(shown) : page = shown[i]
      BY <1>0, <2>1 DEF Sends
    <3>2. i \in 1 .. Len(shown) /\ Len(shown) # 1 /\ i # 1
      BY <2>0, ListProperties
    <3>3. page \in Items(shown) /\ shown' = Before(shown, page) /\ shown = server[s].visible
      BY <1>0, <2>0, <2>1, <3>1, <3>2, ListProperties DEF Sends
    <3>4. Index(shown, page) = i
      BY <2>0, <3>1, <3>2, <3>3, IndexProperties
    <3>5. /\ Before(shown, page) # <<>> /\ Items(Before(shown, page)) \subseteq Items(shown)
      <4>1. Before(shown, page) \in Lists /\ Len(Before(shown, page)) = Index(shown, page) - 1
            /\ Items(Before(shown, page)) \subseteq Items(shown)
        BY <2>0, <3>3, BeforeProperties
      <4>2. Len(Before(shown, page)) >= 1
        BY <3>2, <3>4, <4>1
      <4> QED
        BY <4>1, <4>2, ListProperties
    <3>6. Known(s, shown)'
      BY <1>1, <2>0, <3>3, <3>5 DEF Known
    <3> QED
      BY <1>1, <2>1, <3>3, <3>5, <3>6 DEF Ready
  <2>2. CASE kind # "close"
    <3>1. shown' = shown /\ (Len(shown) = 1 => shown[1] \in Items(shown))
      BY <1>1, <2>0, <2>2, ListProperties
    <3>2. Agrees(s, shown)' /\ Known(s, shown)'
      BY <1>1, <1>4, <2>0, <3>1 DEF Agrees, Known
    <3>3. kind \in {"detail", "hide"} => shown = server[s].visible /\ page \in Items(shown)
      <4> SUFFICES ASSUME kind \in {"detail", "hide"}
                   PROVE  shown = server[s].visible /\ page \in Items(shown)
        OBVIOUS
      <4>1. page \in Items(shown) /\ request[page].kind # "back"
        BY <1>0 DEF Sends
      <4>2. Len(shown) = 1 => page = shown[1]
        BY <4>1 DEF Items
      <4> QED
        BY <2>0, <4>1, <4>2
    <3>4. kind = "back" => pages # <<>>
      BY <1>0 DEF Sends
    <3> QED
      BY <1>1, <1>5, <2>0, <2>2, <3>1, <3>2, <3>3, <3>4 DEF Ready
  <2> QED
    BY <2>1, <2>2
<1>6. ASSUME kind = "init", NEW s \in Sessions PROVE Ready(s, r)'
  BY <1>1, <1>6 DEF Ready
<1>7. ASSUME NEW s \in Sessions, Home(s, r)' PROVE HomeAgrees(s, r)'
  <2>1. s = session
    BY <1>1, <1>7 DEF Home, AtStage
  <2>2. Ready(s, r)'
    BY <1>5, <1>6, <2>1
  <2> QED
    BY <1>1, <1>2, <2>2 DEF HomeAgrees, OriginAgrees, Serves, AnswerAgrees, HasRun, AtStage
<1>8. kind = "init" => shown' = <<>>
  BY <1>1, <1>3
<1>9. session = None => kind = "init"
  BY <1>3, AgreeFacts
<1> QED
  BY <1>1, <1>7, <1>8, <1>9 DEF RequestAgrees

(* A request on its way changes no list and no input.                      *)
LEMMA OnTheWay ==
    ASSUME Step, NEW r \in Requests,
           request[r].stage # "unsent", request'[r].stage # request[r].stage
    PROVE  /\ \A p \in Requests : InputStays(p)
           /\ \A t \in Sessions : ListsStay(t)
<1>1. ASSUME NEW q \in Requests, NEW kind, NEW page, NEW pages,
             Sends(q, kind, page, pages), IsSent(q, kind, page, pages)
      PROVE  FALSE
  <2>1. request[q].stage = "unsent" /\ OthersStay(q)
    BY <1>1 DEF Sends, IsSent
  <2> QED
    BY <2>1 DEF OthersStay
<1>2. ~SendStep
  BY <1>1 DEF SendStep
<1>3. ~WorkStep
  BY DEF WorkStep, WorksOnly
<1> QED
  BY <1>2, <1>3, SendsNothingIs, InputsStay, ListsStayUntilWork

LEMMA AgreeGet ==
    ASSUME AgreeInv, Step, NEW r \in Open, NEW s \in Sessions, GetsSession(r, s)
    PROVE  RequestAgrees(r)'
<1>0. /\ r \in Requests /\ RequestAgrees(r) /\ StateInv
      /\ request[r].stage = "sent" /\ request'[r].stage = "queued" /\ request'[r].at = s
      /\ request'[r].origin = IF request[r].origin = None THEN s ELSE request[r].origin
      /\ request'[r].retry = request[r].retry /\ request'[r].kind = request[r].kind
      /\ session' = session /\ shown' = shown /\ worker' = worker
      /\ None \notin Sessions
  BY AgreeFacts DEF GetsSession, InputStays, browser
<1>1. \A t \in Sessions : Same(t)
  BY <1>0, OnTheWay DEF Same
<1>2. ASSUME session \in Sessions
      PROVE  session \in alive' \/ s = session => session \in alive
  <2>1. server[session].created /\ request[r].session = session
    BY <1>2, AgreeFacts DEF SessionInv, SessionIsSame, SessionIsCreated, BaseInv, BrowserInv
  <2> QED
    BY <2>1 DEF GetsSession
<1>3. ASSUME NEW t \in Sessions, Home(t, r)' PROVE HomeAgrees(t, r)'
  <2>1. CASE t = session
    <3>1. HomeAgrees(t, r) /\ ~Lost(t)
      BY <1>0, <2>1 DEF RequestAgrees, Home, Lost
    <3>2. IF HasRun(t, r)' THEN Acted(t, r)' ELSE Ready(t, r)'
      BY <1>0, <1>1, <3>1, SameAgrees DEF HomeAgrees
    <3>3. /\ request[r].retry /\ t \in alive => request[r].origin = t
          /\ worker[t][r] # "none" => request[r].origin = t
          /\ ~request[r].retry => request[r].origin = None
      <4>1. OriginAgrees(t, r)
        BY <3>1 DEF HomeAgrees
      <4> QED
        BY <1>0, <3>1, <4>1 DEF OriginAgrees, Serves, RequestAgrees
    <3>4. Serves(t, r)' => request'[r].origin = t
      BY <1>0, <1>2, <2>1, <3>3 DEF Serves, AtStage
    <3> QED
      BY <1>0, <3>2, <3>4 DEF HomeAgrees, OriginAgrees, Serves, AnswerAgrees
  <2>2. CASE t # session
    <3>1. /\ session = None /\ t = s /\ request[r].kind = "init"
          /\ request[r].retry => SlowStart
      BY <1>0, <1>3, <2>2 DEF Home, RequestAgrees
    <3>2. ~server[s].created
      <4>1. request[r].session = None /\ alive \in SUBSET Sessions
        BY <3>1, AgreeFacts DEF SessionInv, SessionIsSame, Shape
      <4> QED
        BY <1>0, <4>1 DEF GetsSession
    <3>3. worker[s][r] = "none"
      BY <1>0, <3>2, AgreeFacts, OneFacts DEF ThreadsAreCreated, HandledInv, HasThread
    <3>4. Ready(s, r)' /\ ~HasRun(s, r)'
      BY <1>0, <3>1, <3>3 DEF Ready, HasRun
    <3>5. server'[s].visible = <<>>
      BY <3>2, AgreeFacts DEF NewIsEmpty, GetsSession, ListsStay
    <3>6. request'[r].origin = s \/ Lost(s)'
      <4>1. CASE ~request[r].retry
        BY <1>0, <4>1 DEF RequestAgrees
      <4>2. CASE request[r].retry
        BY <1>0, <3>1, <3>5, <4>2 DEF Lost
      <4> QED
        BY <4>1, <4>2
    <3> QED
      BY <1>0, <3>1, <3>4, <3>6 DEF HomeAgrees, OriginAgrees, Serves, AnswerAgrees
  <2> QED
    BY <2>1, <2>2
<1> QED
  BY <1>0, <1>3 DEF RequestAgrees

LEMMA AgreeHandle ==
    ASSUME AgreeInv, [Next]_vars, NEW r \in Open, NEW s \in Sessions, Handles(r, s)
    PROVE  RequestAgrees(r)'
<1>0. /\ r \in Requests /\ RequestAgrees(r) /\ StateInv /\ HandledInv
      /\ request[r].stage = "queued" /\ request'[r].stage = "joining"
      /\ request[r].at = s /\ request'[r].at = s
      /\ request'[r].origin = request[r].origin
      /\ request'[r].retry = request[r].retry /\ request'[r].kind = request[r].kind
      /\ session' = session /\ shown' = shown /\ alive' = alive
      /\ WorkerIs(s, r, "started") \/ worker' = worker
  BY AgreeFacts DEF Handles, InputStays, browser
<1>1. \A t \in Sessions : Same(t)
  <2>1. Step
    BY <1>0, StepIs
  <2>2. \A t \in Sessions, q \in Requests :
            \/ worker'[t][q] = worker[t][q]
            \/ worker[t][q] = "none" /\ worker'[t][q] = "started"
    <3>1. \A t \in Sessions, q \in Requests :
              worker'[t][q] = worker[t][q] \/ worker'[t][q] = "started"
      BY <1>0 DEF WorkerIs
    <3> QED
      BY <1>0, <3>1, HandledOnceStep
  <2> QED
    BY <1>0, <2>1, <2>2, OnTheWay DEF Same
<1>2. ASSUME NEW t \in Sessions, Home(t, r)' PROVE HomeAgrees(t, r)'
  <2>1. HomeAgrees(t, r)
    BY <1>0, <1>2 DEF Home, AtStage, RequestAgrees
  <2>2. IF HasRun(t, r)' THEN Acted(t, r)' ELSE Ready(t, r)'
    BY <1>0, <1>1, <2>1, SameAgrees DEF HomeAgrees
  <2>3. worker'[t][r] # "none" => worker[t][r] # "none" \/ t = s
    BY <1>0 DEF WorkerIs
  <2>4. OriginAgrees(t, r) /\ (Lost(t) => Lost(t)')
    BY <1>0, <1>1, <2>1 DEF HomeAgrees, Lost, Same, ListsStay
  <2>5. OriginAgrees(t, r)'
    BY <1>0, <2>3, <2>4 DEF OriginAgrees, Serves, AtStage
  <2>6. AnswerAgrees(t, r)'
    BY <1>0 DEF AnswerAgrees
  <2> QED
    BY <2>2, <2>5, <2>6 DEF HomeAgrees
<1> QED
  BY <1>0, <1>2 DEF RequestAgrees

LEMMA AgreeRespond ==
    ASSUME AgreeInv, Step, NEW r \in Open, NEW s \in Sessions, Responds(r, s)
    PROVE  RequestAgrees(r)'
<1>0. /\ r \in Requests /\ RequestAgrees(r) /\ StateInv
      /\ request[r].stage = "joining" /\ request'[r].stage = "answered"
      /\ request[r].at = s /\ request'[r].at = s
      /\ request'[r].origin = request[r].origin
      /\ request'[r].retry = request[r].retry /\ request'[r].kind = request[r].kind
      /\ session' = session /\ shown' = shown /\ worker' = worker /\ alive' = alive
      /\ server[s].thread = r /\ server'[s].output = server[s].output
      /\ request[r].session = session
  BY AgreeFacts DEF Responds, InputStays, browser, SessionInv, ThreadIsOpen, SessionIsSame,
     ListsStay
<1>1. \A t \in Sessions : Same(t)
  BY <1>0, OnTheWay DEF Same
<1>2. \/ /\ request'[r].answer.op = "wait"
         /\ s = session \/ SlowStart
      \/ /\ Ended(s, r) /\ request'[r].answer.op # "wait"
         /\ request'[r].answer = [server'[s].output EXCEPT !.session = s]
  <2>1. CASE ~Ended(s, r)
    <3>1. request'[r].answer.op = "wait"
      BY <1>0, <2>1 DEF Responds, Nothing
    <3>2. s = session \/ SlowStart
      BY <1>0, <2>1 DEF Responds
    <3> QED
      BY <3>1, <3>2
  <2>2. CASE Ended(s, r)
    <3>1. request'[r].answer = [server'[s].output EXCEPT !.session = s]
      BY <1>0, <2>2 DEF Responds
    <3>2. server[s].output \in OutputShape /\ server[s].output.op # "wait"
      BY <1>0, ShapeFacts DEF StateInv, ShapeInv, OutputsNamePage
    <3>3. request'[r].answer.op # "wait"
      BY <1>0, <3>1, <3>2 DEF OutputShape
    <3> QED
      BY <2>2, <3>1, <3>3
  <2> QED
    BY <2>1, <2>2
<1>3. ASSUME NEW t \in Sessions, Home(t, r)' PROVE HomeAgrees(t, r)'
  <2>1. HomeAgrees(t, r)
    BY <1>0, <1>3 DEF Home, AtStage, RequestAgrees
  <2>2. IF HasRun(t, r)' THEN Acted(t, r)' ELSE Ready(t, r)'
    BY <1>0, <1>1, <2>1, SameAgrees DEF HomeAgrees
  <2>3. OriginAgrees(t, r) /\ (Lost(t) => Lost(t)')
    BY <1>0, <1>1, <2>1 DEF HomeAgrees, Lost, Same, ListsStay
  <2>4. OriginAgrees(t, r)'
    BY <1>0, <2>3 DEF OriginAgrees, Serves, AtStage
  <2>5. AnswerAgrees(t, r)'
    BY <1>0, <1>2 DEF AnswerAgrees, Ended
  <2> QED
    BY <2>2, <2>4, <2>5 DEF HomeAgrees
<1> QED
  BY <1>0, <1>2, <1>3 DEF RequestAgrees

LEMMA AgreeRetry ==
    ASSUME AgreeInv, Step, NEW r \in Open, Retries(r)
    PROVE  RequestAgrees(r)'
<1>0. /\ r \in Requests /\ RequestAgrees(r) /\ StateInv
      /\ request[r].stage = "answered" /\ request'[r].stage = "sent"
      /\ request[r].answer.op = "wait" /\ request[r].at \in Sessions
      /\ request'[r].origin = request[r].origin /\ request'[r].kind = request[r].kind
      /\ session' = session /\ shown' = shown /\ worker' = worker /\ alive' = alive
      /\ request'[r].retry = TRUE /\ None \notin Sessions
  BY AgreeFacts DEF Retries, InputStays, browser, AtStage
<1>1. \A t \in Sessions : Same(t)
  BY <1>0, OnTheWay DEF Same
<1>2. ASSUME NEW t \in Sessions, Home(t, r)' PROVE HomeAgrees(t, r)'
  <2>1. t = session /\ HomeAgrees(t, r)
    BY <1>0, <1>2 DEF Home, AtStage, RequestAgrees
  <2>2. IF HasRun(t, r)' THEN Acted(t, r)' ELSE Ready(t, r)'
    BY <1>0, <1>1, <2>1, SameAgrees DEF HomeAgrees
  <2>3. OriginAgrees(t, r) /\ ~Lost(t)
    BY <1>0, <2>1 DEF HomeAgrees, Lost
  <2>4. t \in alive => request[r].at = t
    BY <1>0, <2>1, AgreeFacts DEF SessionInv, OtherIsGone, AtStage
  <2>5. OriginAgrees(t, r)' /\ AnswerAgrees(t, r)'
    BY <1>0, <2>3, <2>4 DEF OriginAgrees, Serves, AnswerAgrees, AtStage
  <2> QED
    BY <2>2, <2>5 DEF HomeAgrees
<1>3. session = None => SlowStart
  BY <1>0, AgreeFacts DEF RequestAgrees
<1> QED
  BY <1>0, <1>2, <1>3 DEF RequestAgrees

LEMMA BeginAgrees ==
    ASSUME AgreeInv, NEW s \in Sessions, NEW r \in Open, WorksOnly(s), Begins(s, r), Ready(s, r)
    PROVE  Ready(s, r)' /\ ~HasRun(s, r)'
<1>1. /\ shown' = shown /\ request' = request /\ r \in Requests
      /\ server'[s].visible = server[s].visible /\ server'[s].components = server[s].components
      /\ worker[s][r] = "started" /\ worker'[s][r] = "running"
      /\ \A p \in Requests : worker'[s][p] = "failed" <=> worker[s][p] = "failed"
  BY AgreeFacts DEF WorksOnly, Begins, WorkerIs, browser
<1>2. \A p \in Items(shown) : p \in Requests
  BY AgreeFacts, ListProperties
<1> QED
  BY <1>1, <1>2 DEF Ready, Agrees, Known, HasRun

LEMMA RegisterAgrees ==
    ASSUME AgreeInv, NEW s \in Sessions, NEW r \in Open, WorksOnly(s), Registers(s, r), Acted(s, r)
    PROVE  Acted(s, r)' /\ HasRun(s, r)'
<1> DEFINE out == server[s].output
           pages == Applied(out)
<1>1. /\ shown' = shown /\ request' = request /\ r \in Requests
      /\ server'[s].visible = server[s].visible /\ server'[s].output = out
      /\ server[s].components \subseteq server'[s].components
      /\ out.op \in {"showPage", "showPages"} => Items(out.pages) \subseteq server'[s].components
      /\ worker'[s][r] = "done" /\ worker[s][r] = "acted"
      /\ \A p \in Requests : worker[s][p] = "failed" => worker'[s][p] = "failed"
  BY AgreeFacts DEF WorksOnly, Registers, WorkerIs, browser
<1>2. pages \in Lists
  BY ShapeFacts, AgreeFacts, AppliedIs
<1>3. \A p \in Items(pages) : p \in Requests
  BY <1>2, ListProperties
<1>4. Applied(server[s].output)' = pages
  BY <1>1 DEF Applied, WithPage
<1>5. /\ Agrees(s, pages)
      /\ \A p \in Items(pages) :
            \/ p \in server[s].components \/ worker[s][p] = "failed"
            \/ out.op \in {"showPage", "showPages"} /\ p \in Items(out.pages)
  BY DEF Acted
<1> HIDE DEF pages, out
<1>6. \A p \in Items(pages) : p \in server'[s].components \/ worker'[s][p] = "failed"
  BY <1>1, <1>3, <1>5
<1> QED
  BY <1>1, <1>4, <1>5, <1>6 DEF Acted, Agrees, HasRun

LEMMA AgreeStays ==
    ASSUME AgreeInv, OneInv', Calm, NEW r \in Open, StaysOpen(r)
    PROVE  RequestAgrees(r)'
<1>0. /\ r \in Requests /\ RequestAgrees(r) /\ StateInv /\ OneInv /\ Shape'
      /\ session' = session /\ shown' = shown /\ request'[r] = request[r]
      /\ alive' \subseteq alive
  <2>1. Shape'
    BY DEF OneInv, BaseInv, TypesInv, HandledInv, StateInv, ShapeInv
  <2> QED
    BY <2>1, AgreeFacts DEF StaysOpen
<1>1. ASSUME NEW t \in Sessions, Home(t, r), Same(t),
             worker'[t] = worker[t], server'[t].output = server[t].output
      PROVE  HomeAgrees(t, r)'
  <2>1. HomeAgrees(t, r)
    BY <1>0, <1>1 DEF RequestAgrees
  <2>2. IF HasRun(t, r)' THEN Acted(t, r)' ELSE Ready(t, r)'
    BY <1>0, <1>1, <2>1, SameAgrees DEF HomeAgrees
  <2>3. OriginAgrees(t, r) /\ AnswerAgrees(t, r) /\ (Lost(t) => Lost(t)')
    BY <1>0, <1>1, <2>1 DEF HomeAgrees, Lost, Same, ListsStay
  <2>4. OriginAgrees(t, r)'
    BY <1>0, <1>1, <2>3 DEF OriginAgrees, Serves, AtStage
  <2>5. AnswerAgrees(t, r)'
    BY <1>0, <1>1, <2>3 DEF AnswerAgrees
  <2> QED
    BY <2>2, <2>4, <2>5 DEF HomeAgrees
<1>2. \A t \in Sessions : Home(t, r)' <=> Home(t, r)
  BY <1>0 DEF Home, AtStage
<1>3. \A p \in Requests : InputStays(p)
  BY SendsNothingIs, InputsStay
<1>4. CASE UNCHANGED <<server, worker>>
  <2>1. ASSUME NEW t \in Sessions
        PROVE  Same(t) /\ worker'[t] = worker[t] /\ server'[t].output = server[t].output
    BY <1>0, <1>3, <1>4 DEF Same, ListsStay
  <2>2. \A t \in Sessions : Home(t, r)' => HomeAgrees(t, r)'
    BY <1>1, <1>2, <2>1
  <2> QED
    BY <1>0, <2>2 DEF RequestAgrees
<1>5. CASE CalmWork
  <2>1. PICK s \in Sessions :
            \E q \in Requests : WorksOnly(s) /\ (Begins(s, q) \/ Acts(s, q) \/ Registers(s, q))
    BY <1>5 DEF CalmWork
  <2>2. PICK q \in Requests : WorksOnly(s) /\ (Begins(s, q) \/ Acts(s, q) \/ Registers(s, q))
    BY <2>1
  <2>3. ASSUME NEW t \in Sessions, Home(t, r), t # s PROVE HomeAgrees(t, r)'
    <3>1. server'[t] = server[t] /\ \A p \in Requests : worker'[t][p] = worker[t][p]
      BY <2>2, <2>3 DEF WorksOnly, OtherSessionsStay, Begins, Acts, Registers, WorkerIs
    <3>2. worker'[t] = worker[t]
      BY <1>0, <3>1, AgreeFacts DEF Shape
    <3>3. Same(t)
      BY <1>0, <1>3, <3>1 DEF Same, ListsStay
    <3> QED
      BY <1>1, <2>3, <3>1, <3>2, <3>3
  <2>4. ASSUME Home(s, r) PROVE HomeAgrees(s, r)'
    <3>1. Live(s, q)
      BY <2>2 DEF Begins, Acts, Registers, Live
    <3>2. q = r
      BY <2>4, <3>1, LiveAtHome, <1>0, OneFacts DEF OneOpen
    <3>3. HomeAgrees(s, r)
      BY <1>0, <2>4 DEF RequestAgrees
    <3>4. /\ request[r].origin = s \/ Lost(s)
          /\ ~(request[r].stage = "answered" /\ request[r].at = s /\ request[r].answer.op # "wait")
      <4>1. OriginAgrees(s, r) /\ AnswerAgrees(s, r)
        BY <3>3 DEF HomeAgrees
      <4> QED
        BY <3>1, <3>2, <4>1 DEF OriginAgrees, Serves, AnswerAgrees, Live
    <3>5. IF HasRun(s, r)' THEN Acted(s, r)' ELSE Ready(s, r)'
      <4>1. CASE Begins(s, q)
        <5>1. Ready(s, r)
          BY <3>2, <3>3, <4>1 DEF HomeAgrees, HasRun, Begins
        <5> QED
          BY <2>2, <3>2, <4>1, <5>1, BeginAgrees
      <4>2. CASE Acts(s, q)
        <5>1. Acted(s, r)'
          BY <1>0, <2>2, <2>4, <3>2, <3>4, <4>2, ActsAgree, LostActsAgree
        <5>2. HasRun(s, r)'
          BY <3>2, <4>2 DEF Acts, WorkerIs, HasRun
        <5> QED
          BY <5>1, <5>2
      <4>3. CASE Registers(s, q)
        <5>1. Acted(s, r)
          BY <3>2, <3>3, <4>3 DEF HomeAgrees, HasRun, Registers
        <5> QED
          BY <2>2, <3>2, <4>3, <5>1, RegisterAgrees
      <4> QED
        BY <2>2, <4>1, <4>2, <4>3
    <3>6. request[r].origin = s \/ Lost(s)'
      <4> SUFFICES ASSUME Lost(s), request[r].origin # s PROVE server'[s].visible = <<>>
        BY <1>0, <3>4 DEF Lost
      <4>1. CASE Begins(s, q) \/ Registers(s, q)
        BY <4>1 DEF Begins, Registers, Lost
      <4>2. CASE Acts(s, q)
        BY <1>0, <2>2, <3>2, <4>2, LostActsAgree DEF Lost
      <4> QED
        BY <2>2, <4>1, <4>2
    <3>7. OriginAgrees(s, r)'
      BY <1>0, <3>6 DEF OriginAgrees, Serves
    <3>8. AnswerAgrees(s, r)'
      BY <1>0, <3>4 DEF AnswerAgrees
    <3> QED
      BY <3>5, <3>7, <3>8 DEF HomeAgrees
  <2>5. \A t \in Sessions : Home(t, r)' => HomeAgrees(t, r)'
    BY <1>2, <2>3, <2>4
  <2> QED
    BY <1>0, <2>5 DEF RequestAgrees
<1> QED
  BY <1>4, <1>5 DEF StaysOpen

LEMMA AgreeOpen ==
    ASSUME AgreeInv, OneInv', Calm, [Next]_vars, NEW r \in Open'
    PROVE  RequestAgrees(r)'
<1>1. Step /\ OneInv
  BY CalmIsStep, AgreeFacts
<1>2. \/ JustSent(r)
      \/ /\ r \in Open
         /\ \E s \in Sessions : GetsSession(r, s) \/ Handles(r, s) \/ Responds(r, s)
      \/ r \in Open /\ Retries(r)
      \/ r \in Open /\ StaysOpen(r)
  <2>1. StaysOpen(r) => r \in Open
    BY DEF StaysOpen
  <2> QED
    BY <1>1, <2>1, OpenIs
<1> QED
  BY <1>1, <1>2, AgreeSend, AgreeGet, AgreeHandle, AgreeRespond, AgreeRetry, AgreeStays

LEMMA AgreeReceive ==
    ASSUME AgreeInv, Step, NEW r \in Requests, Receives(r)
    PROVE  BrowserAgrees'
<1> DEFINE s == request[r].at
           out == server[s].output
           pages == Applied(out)
<1>0. /\ r \in Open /\ StateInv /\ OneInv /\ RequestAgrees(r) /\ ~loading /\ ~loading'
      /\ request[r].stage = "answered" /\ request[r].answer.op # "wait"
      /\ session \in {None, request[r].answer.session} /\ session' = request[r].answer.session
      /\ shown' = Applied(request[r].answer)
      /\ UNCHANGED <<server, worker>>
  <2>1. r \in Open
    BY OpenAfterReceive
  <2> QED
    BY <2>1, AgreeFacts, OneFacts DEF Receives, Hears, LoadingIsEmpty
<1>1. s \in Sessions /\ session' = s /\ Home(s, r)
  <2>1. request[r].answer.session = s /\ s \in Sessions
    BY <1>0, AgreeFacts, OneFacts DEF AnswerIsFrom, AtStage
  <2> QED
    BY <1>0, <2>1 DEF Home, AtStage
<1>2. /\ request[r].answer = [out EXCEPT !.session = s] /\ worker[s][r] \in {"done", "failed"}
      /\ Acted(s, r)
  BY <1>0, <1>1 DEF RequestAgrees, HomeAgrees, AnswerAgrees, HasRun
<1>3. out \in OutputShape /\ pages \in Lists
  BY <1>0, <1>1, ShapeFacts, AgreeFacts, AppliedIs
<1>4. shown' = pages
  <2>1. /\ request[r].answer.op = out.op /\ request[r].answer.pages = out.pages
        /\ request[r].answer.master = out.master
    BY <1>2, <1>3 DEF OutputShape
  <2> QED
    BY <1>0, <2>1 DEF Applied
<1>5. Agrees(s, pages) /\ Known(s, pages)
  BY <1>2 DEF Acted, Known
<1>6. \A p \in Requests : InputStays(p)
  <2>1. \A p \in Requests : p # r => request'[p] = request[p]
    BY DEF Receives, OthersStay
  <2> QED
    BY <2>1 DEF Receives, Hears, IsClosed, InputStays
<1>7. pages # <<>> => pages[1] \in Requests
  BY <1>3, ListProperties
<1>8. s \in Sessions /\ None \notin Sessions
  BY <1>1, AgreeFacts
<1> HIDE DEF s, pages
<1>9. Agrees(session, shown)' /\ Known(session, shown)'
  BY <1>0, <1>1, <1>4, <1>5, <1>6, <1>7 DEF Agrees, Known, InputStays
<1> QED
  BY <1>0, <1>1, <1>8, <1>9 DEF BrowserAgrees

(* A step that neither opens nor closes a request.                         *)
LEMMA AgreeQuiet ==
    ASSUME AgreeInv, SendsNothing, Open' = Open,
           UNCHANGED <<session, shown, loading>>, UNCHANGED <<server, worker>> \/ CalmWork
    PROVE  BrowserAgrees'
<1>1. \A p \in Requests : InputStays(p)
  BY InputsStay
<1>2. BrowserAgrees /\ StateInv /\ session \in Sessions \cup {None}
  BY AgreeFacts
<1>3. ASSUME Open = {}, ~loading PROVE session # None /\ Same(session)
  <2>1. session \in Sessions
    BY <1>2, <1>3 DEF BrowserAgrees
  <2>2. CASE UNCHANGED <<server, worker>>
    BY <1>1, <1>2, <1>3, <2>2 DEF Same, ListsStay, BrowserAgrees
  <2>3. ASSUME NEW s \in Sessions, NEW q \in Requests,
               WorksOnly(s), Begins(s, q) \/ Acts(s, q) \/ Registers(s, q)
        PROVE  Same(session)
    <3>1. Live(s, q)
      BY <2>3 DEF Begins, Acts, Registers, Live
    <3>2. s # session
      BY <1>3, <2>3, <3>1, LiveAtHome
    <3>3. /\ server'[session] = server[session]
          /\ \A p \in Requests : worker'[session][p] = worker[session][p]
      BY <2>1, <2>3, <3>2 DEF WorksOnly, OtherSessionsStay, Begins, Acts, Registers, WorkerIs
    <3> QED
      BY <1>1, <3>3 DEF Same, ListsStay
  <2>4. session # None
    BY <1>2, <1>3 DEF BrowserAgrees
  <2> QED
    BY <2>2, <2>3, <2>4 DEF CalmWork
<1>4. ASSUME Open = {}, ~loading PROVE Agrees(session, shown)' /\ Known(session, shown)'
  <2>1. session \in Sessions /\ Same(session) /\ Agrees(session, shown) /\ Known(session, shown)
    BY <1>2, <1>3, <1>4 DEF BrowserAgrees
  <2>2. \A s \in Sessions : Same(s) =>
            /\ Agrees(s, shown) => Agrees(s, shown)'
            /\ Known(s, shown) => Known(s, shown)'
    BY <1>2, SameAgrees
  <2>3. PICK s \in Sessions : s = session
    BY <2>1
  <2>4. Agrees(s, shown)' /\ Known(s, shown)'
    BY <2>1, <2>2, <2>3
  <2> QED
    BY <2>3, <2>4 DEF Agrees, Known
<1> QED
  BY <1>2, <1>3, <1>4 DEF BrowserAgrees

LEMMA AgreeBrowser ==
    ASSUME AgreeInv, OneInv', Calm
    PROVE  BrowserAgrees'
<1>0. Step /\ OneInv /\ BrowserAgrees /\ LoadingIsEmpty
  BY CalmIsStep, AgreeFacts, OneFacts
<1>1. CASE SendStep
  <2>1. PICK r \in Requests : \E kind, page, pages :
            Sends(r, kind, page, pages) /\ IsSent(r, kind, page, pages)
    BY <1>1 DEF SendStep
  <2>2. r \in Open'
    BY <2>1, OpenAfterSend
  <2> QED
    BY <2>1, <2>2 DEF BrowserAgrees, Sends
<1>2. ASSUME NEW r \in Requests, r \in Open', shown' = shown, loading' = loading
      PROVE  BrowserAgrees'
  BY <1>0, <1>2 DEF BrowserAgrees
<1>3. ASSUME NEW r \in Requests, NEW s \in Sessions,
             GetsSession(r, s) \/ Handles(r, s) \/ Responds(r, s)
      PROVE  BrowserAgrees'
  <2>1. /\ r \in Pending /\ request[r].stage # "answered" /\ request'[r].deaf = request[r].deaf
        /\ r \in Pending' /\ shown' = shown /\ loading' = loading
    BY <1>3 DEF GetsSession, Handles, Responds, Pending, browser
  <2>2. r \in Open'
    BY <1>0, <2>1, OneFacts DEF DeafIsAnswered, Open
  <2> QED
    BY <1>2, <2>1, <2>2
<1>4. ASSUME NEW r \in Requests, Retries(r) PROVE BrowserAgrees'
  <2>1. r \in Open' /\ shown' = shown /\ loading' = loading
    BY <1>4 DEF Retries, Open, Pending, browser
  <2> QED
    BY <1>2, <2>1
<1>5. CASE Reloads \/ \E r \in Requests : ReceivesNewSession(r)
  <2>1. loading' = TRUE /\ shown' = <<>>
    BY <1>5 DEF Reloads, ReceivesNewSession, Reloaded
  <2> QED
    BY <2>1 DEF BrowserAgrees
<1>6. ASSUME CalmWork \/ Idles \/ DropsSession \/ \E r \in Requests : Drops(r)
      PROVE  BrowserAgrees'
  <2>1. Open' = Open
    <3>1. CalmWork \/ Idles \/ DropsSession => request' = request
      BY DEF CalmWork, WorksOnly, Idles, DropsSession
    <3> QED
      BY <1>6, <3>1, OpenAfterDrop DEF Open, Pending
  <2>2. UNCHANGED <<session, shown, loading>> /\ (UNCHANGED <<server, worker>> \/ CalmWork)
    <3>1. CalmWork => UNCHANGED <<session, shown, loading>>
      BY DEF CalmWork, WorksOnly, browser
    <3> QED
      BY <1>6, <3>1 DEF Idles, DropsSession, Drops, browser
  <2> QED
    <3>1. SendsNothing
      BY <1>6, CalmIsStep DEF SendsNothing
    <3> QED
      BY <2>1, <2>2, <3>1, AgreeQuiet
<1> QED
  BY <1>0, <1>1, <1>3, <1>4, <1>5, <1>6, AgreeReceive DEF Calm

LEMMA AgreeStep ==
    ASSUME AgreeInv, BaseInv', Calm, [Next]_vars
    PROVE  AgreeInv'
<1>1. OneInv' /\ RunsEmpty'
  BY OneStep, RunsStep DEF AgreeInv
<1>2. SessionInv'
  BY <1>1, SessionStep DEF AgreeInv
<1> QED
  BY <1>1, <1>2, AgreeBrowser, AgreeOpen DEF AgreeInv

-----------------------------------------------------------------------------
(* A request that is alone and shows pages anew brings session and screen  *)
(* together, whatever they were before.                                    *)
LEMMA RenewAgrees ==
    ASSUME BaseInv, BaseInv', RenewStep
    PROVE  AgreeInv'
<1>1. PICK s \in Sessions : \E r \in Requests : WorksOnly(s) /\ Renews(s, r)
  BY DEF RenewStep
<1>2. PICK r \in Requests : WorksOnly(s) /\ Renews(s, r)
  BY <1>1
<1>3. /\ Alone(s, r) /\ ShowsAnew(s, r) /\ Acts(s, r) /\ ~Refused(s, r)
      /\ worker[s][r] = "running" /\ worker'[s][r] = "acted" /\ WorkerIs(s, r, "acted")
      /\ KindDoes(Kind(s, r), server[s], server'[s], r, request[r].page, request[r].pages)
  BY <1>2 DEF Renews, Acts, WorkerIs
<1>4. /\ UNCHANGED <<session, shown, loading, request, alive>>
      /\ \A t \in Sessions : server'[t].thread = server[t].thread
  BY <1>2 DEF WorksOnly, browser, OtherSessionsStay
<1>5. /\ Open' = {r} /\ Open = {r} /\ Pending' = {r} /\ ~request[r].deaf
      /\ request[r].at = s /\ request[r].session = session /\ server[s].thread = r
      /\ request[r].stage = "answered" => request[r].answer.op = "wait"
      /\ session = s \/ (session = None /\ ~request[r].retry /\ request[r].stage = "joining")
  BY <1>3, <1>4 DEF Alone, Open, Pending
<1>6. \A t \in Sessions, q \in Requests : (t = s /\ q = r) \/ ~(Live(t, q) \/ worker[t][q] = "running")
  BY <1>3 DEF Alone, Ended, Live
<1>7. \A t \in Sessions, q \in Requests :
         (t = s /\ q = r) \/ ~(Live(t, q)' \/ worker'[t][q] = "running")
  BY <1>3, <1>6 DEF WorkerIs, Live
<1>8. OneInv'
  <2>1. OneOpen' /\ DeafIsAnswered'
    BY <1>4, <1>5 DEF OneOpen, DeafIsAnswered
  <2>2. OnlyThreadLives' /\ LiveIsOpen' /\ AnsweredIsOver'
    BY <1>4, <1>5, <1>7 DEF OnlyThreadLives, LiveIsOpen, AnsweredIsOver
  <2> QED
    BY <2>1, <2>2 DEF OneInv, BrowserWaits, WorkersInv
<1>9. RunsEmpty'
  BY <1>3, <1>7 DEF RunsEmpty
<1>10. None \notin alive /\ None \notin Sessions /\ StateInv /\ Shape /\ Shape' /\ shown \in Lists
  BY BaseFacts DEF BaseInv, TypesInv, HandledInv, StateInv, ShapeInv
<1>11. SessionInv'
  <2>1. SessionIsSame' /\ ThreadIsOpen'
    BY <1>4, <1>5 DEF SessionIsSame, ThreadIsOpen
  <2>2. RetryHasThread' /\ OtherIsGone' /\ OtherIsNew'
    BY <1>4, <1>5, <1>10 DEF RetryHasThread, OtherIsGone, OtherIsNew, AtStage
  <2> QED
    BY <2>1, <2>2 DEF SessionInv
<1>12. BrowserAgrees'
  BY <1>4, <1>5, BaseFacts DEF BrowserAgrees, LoadingIsEmpty
<1>13. Acted(s, r)'
  <2>1. Kind(s, r) \in {"init", "show"}
           \/ (Kind(s, r) = "back" /\ Valid(server[s].store, request[r].pages))
    BY <1>3 DEF ShowsAnew
  <2>2. OnePageShown(server[s], server'[s], r) \/ PagesShown(server[s], server'[s], request[r].pages)
    BY <1>3, <2>1 DEF KindDoes
  <2> QED
    BY <1>3, <1>4, <1>10, <2>2, ShowsAgree
<1>14. request[r].origin = s
  BY <1>3 DEF ShowsAnew, Kind
<1>15. request[r].stage = "sent" => request[r].retry
  BY <1>3, BaseFacts DEF HandledInv, Unhandled, NotYet
<1>16. RequestAgrees(r)'
  <2>1. request[r].kind = "init" => shown = <<>>
    BY <1>5, BaseFacts DEF InitIsAlone
  <2>2. session = None => request[r].kind = "init"
    BY <1>5, BaseFacts DEF NoSessionYet, LoadingIsEmpty
  <2>3. \A t \in Sessions : Home(t, r)' => t = s
    BY <1>4, <1>5, <1>10 DEF Home
  <2>4. HomeAgrees(s, r)'
    BY <1>3, <1>4, <1>5, <1>13, <1>14 DEF HomeAgrees, OriginAgrees, AnswerAgrees, HasRun
  <2>5. session = None => ~request[r].retry
    BY <1>5, <1>10
  <2>6. request[r].stage = "answered" => request[r].at = session
    BY <1>5
  <2>7. \A t \in Sessions : Home(t, r)' => HomeAgrees(t, r)'
    BY <2>3, <2>4
  <2> QED
    BY <1>4, <1>15, <2>1, <2>2, <2>5, <2>6, <2>7 DEF RequestAgrees
<1> QED
  BY <1>5, <1>8, <1>9, <1>11, <1>12, <1>16 DEF AgreeInv

LEMMA AgreeAlways == Spec => [](BaseInv /\ (orderly => AgreeInv))
<1>1. Init => BaseInv /\ (orderly => AgreeInv)
  BY BaseInitially DEF Init
<1>2. ASSUME BaseInv, orderly => AgreeInv, [Next]_vars
      PROVE  BaseInv' /\ (orderly' => AgreeInv')
  <2>1. BaseInv' /\ InOrder
    BY <1>2, BaseStep, BaseFacts, StepIs
  <2> QED
    BY <1>2, <2>1, AgreeStep, RenewAgrees DEF InOrder
<1> QED
  BY <1>1, <1>2, PTL DEF Spec

LEMMA SettledAgrees ==
    ASSUME orderly => AgreeInv, orderly, Settled
    PROVE  session \in Sessions /\ Agrees(session, shown) /\ Known(session, shown)
<1>1. Open = {}
  BY DEF Settled, Open
<1> QED
  BY <1>1, AgreeFacts DEF BrowserAgrees, Settled

LEMMA AtMostOne ==
    ASSUME NEW T, NEW x, T \subseteq {x}
    PROVE  Cardinality(T) <= 1
<1>1. T = {} \/ T = {x}
  OBVIOUS
<1>2. Cardinality({}) = 0
  BY FS_EmptySet
<1>3. Cardinality({x}) = 1
  BY FS_Singleton
<1> QED
  BY <1>1, <1>2, <1>3

(* Two workers of a session never run at the same time in an orderly run:  *)
(* handle() starts a thread while the last one runs only for another       *)
(* request, and the browser has sent none that could reach the session.    *)
(* Answers that take long, retries, reloads and dropped sessions do not    *)
(* start a second one; only a request that overlaps another does.          *)
THEOREM WorkersAreAlone == Spec => [](orderly => OneWorkerAtATime)
<1>1. BaseInv /\ (orderly => AgreeInv) => (orderly => OneWorkerAtATime)
  <2> SUFFICES ASSUME AgreeInv, NEW s \in Sessions
               PROVE  Cardinality({r \in Requests : worker[s][r] # "none" /\ ~Ended(s, r)}) <= 1
    BY DEF OneWorkerAtATime
  <2>1. \A r \in Requests : worker[s][r] \in Phases
    BY AgreeFacts DEF Shape
  <2>2. \A r \in Requests : worker[s][r] # "none" /\ ~Ended(s, r) => Live(s, r)
    BY <2>1 DEF Phases, Ended, Live
  <2>3. {r \in Requests : worker[s][r] # "none" /\ ~Ended(s, r)} \subseteq {server[s].thread}
    BY <2>2, AgreeFacts, OneFacts DEF OnlyThreadLives
  <2> QED
    BY <2>3, AtMostOne
<1> QED
  BY <1>1, AgreeAlways, PTL

(* Whatever is repeated or comes from a new session, and whatever the      *)
(* lists were before pages were last shown anew: a browser that has all    *)
(* its answers shows the pages of visiblePageAndDetailsList, or the page   *)
(* that says that the pages of the history are gone.                       *)
THEOREM BrowserShowsVisiblePages == Spec => []ClientMatchesServer
<1>1. BaseInv /\ (orderly => AgreeInv) => ClientMatchesServer
  BY SettledAgrees DEF ClientMatchesServer, Agrees
<1> QED
  BY <1>1, AgreeAlways, PTL

(* What the user sees can be used: the components of every page on the     *)
(* screen are in componentById, or the action that made the page threw     *)
(* after it had shown it.                                                  *)
THEOREM ShownPagesCanBeUsed == Spec => []ShownAreRegistered
<1>1. BaseInv /\ (orderly => AgreeInv) => ShownAreRegistered
  BY SettledAgrees DEF ShownAreRegistered, Known
<1> QED
  BY <1>1, AgreeAlways, PTL

(* A browser that has all its answers shows a page, when a request that    *)
(* gets a new session is answered in time.                                 *)
THEOREM BrowserShowsSomething == SlowStart = FALSE => (Spec => []PageIsShown)
<1> SUFFICES ASSUME SlowStart = FALSE PROVE Spec => []PageIsShown
  OBVIOUS
<1>1. BaseInv /\ (orderly => AgreeInv) => PageIsShown
  BY SettledAgrees DEF PageIsShown, Agrees
<1> QED
  BY <1>1, AgreeAlways, PTL

=============================================================================
