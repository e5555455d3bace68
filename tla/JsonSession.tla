------------------------------ MODULE JsonSession ------------------------------
(***************************************************************************)
(* A browser window and the web server: the page index.html, which shows   *)
(* pages, keeps the history of the browser and sends requests, and         *)
(* JsonSessionManager / JsonPageManager, where a session handles each      *)
(* request in a worker thread of its own.  A request that takes longer     *)
(* than two seconds is answered with "wait", and the browser asks again.   *)
(* Sessions are dropped by their age or by the administrator at any time.  *)
(*                                                                         *)
(* Requests are numbered in the order they are sent; a page has the number *)
(* of the request that made it.  An action of the application shows a main *)
(* page (from the navigation), shows a detail of a page, hides it, or      *)
(* throws; pages, which the application makes too, throw while their JSON  *)
(* is created.  Dialogs, logins, pages that are updated in place (wheel)   *)
(* and what pages contain are left out.                                    *)
(***************************************************************************)
EXTENDS Naturals, Sequences, FiniteSets

CONSTANTS
    MaxRequests,    \* bound on the requests of the browser
    MaxSessions,    \* bound on the sessions the server creates
    HistoryLength,  \* PageStore.HISTORY_LENGTH
    SlowStart       \* may a request that gets a new session take over two seconds?

ASSUME JsonSessionAssumption ==
    /\ MaxRequests \in Nat /\ MaxSessions \in Nat \ {0}
    /\ HistoryLength \in Nat \ {0}
    /\ SlowStart \in BOOLEAN

VARIABLES
    session,     \* the variable session (and sessionStorage) of the browser
    shown,       \* the pages in the page container
    history,     \* the states of the browser's history ...
    position,    \*   ... and the current one
    blocked,     \* isUiBlocked()
    loading,     \* the document is (re)loaded and has not sent its request
    request,     \* request[r]: request number r on its way
    alive,       \* JsonSessionManager.sessions
    server,      \* server[s]: the fields of JsonPageManager s
    worker,      \* worker[s][r]: the thread in which session s handles r
    orderly      \* history variable: since pages were last shown by a request
                 \*   that was alone, requests came one after the other and no
                 \*   exception left the lists of a session half changed

browser == <<session, shown, history, position, blocked, loading>>
vars == <<browser, request, alive, server, worker, orderly>>

Requests == 1 .. MaxRequests
Sessions == 1 .. MaxSessions
None == 0        \* no page, no session, no request: null
Navigation == 0  \* the components of the navigation, which belong to no page

Kinds == {"init", "show", "detail", "hide", "close", "back", "quiet"}

Items(s) == {s[i] : i \in 1 .. Len(s)}
Index(s, p) == CHOOSE i \in 1 .. Len(s) : s[i] = p
Before(s, p) == SubSeq(s, 1, Index(s, p) - 1)
Through(s, p) == SubSeq(s, 1, Index(s, p))

Pages == {s \in Seq(Requests) : \A i, j \in 1 .. Len(s) : s[i] = s[j] => i = j}

Output == [op : {"none", "wait", "showPage", "showPages", "hidePage"},
           pages : Pages, master : Requests \cup {None}, session : Sessions \cup {None}]

Nothing == [op |-> "none", pages |-> <<>>, master |-> None, session |-> None]

Unsent == [stage |-> "unsent", kind |-> "init", page |-> None, pages |-> <<>>,
           session |-> None, retry |-> FALSE, deaf |-> FALSE, at |-> None,
           origin |-> None, answer |-> Nothing]

TypeOK ==
    /\ session \in Sessions \cup {None}
    /\ shown \in Pages
    /\ history \in Seq(Pages)
    /\ position \in 1 .. Len(history)
    /\ blocked \in BOOLEAN /\ loading \in BOOLEAN
    /\ request \in [Requests ->
          [stage : {"unsent", "sent", "queued", "joining", "answered", "closed"},
           kind : Kinds, page : Requests \cup {None}, pages : Pages,
           session : Sessions \cup {None}, retry : BOOLEAN, deaf : BOOLEAN,
           at : Sessions \cup {None}, origin : Sessions \cup {None},
           answer : Output]]
    /\ alive \in SUBSET Sessions
    /\ server \in [Sessions ->
          [created : BOOLEAN, thread : Requests \cup {None}, holder : Requests \cup {None},
           output : Output, store : Pages, visible : Pages,
           components : SUBSET (Requests \cup {Navigation})]]
    /\ \A s \in Sessions : Len(server[s].store) <= HistoryLength
    /\ worker \in [Sessions -> [Requests ->
          {"none", "started", "running", "acted", "done", "failed"}]]
    /\ orderly \in BOOLEAN

Init ==
    /\ session = None
    /\ shown = <<>>
    /\ history = << <<>> >>
    /\ position = 1
    /\ blocked = FALSE
    /\ loading = TRUE
    /\ request = [r \in Requests |-> Unsent]
    /\ alive = {}
    /\ server = [s \in Sessions |->
          [created |-> FALSE, thread |-> None, holder |-> None, output |-> Nothing,
           store |-> <<>>, visible |-> <<>>, components |-> {}]]
    /\ worker = [s \in Sessions |-> [r \in Requests |-> "none"]]
    /\ orderly = FALSE

-----------------------------------------------------------------------------
(* The browser sends.                                                      *)

Pending == {r \in Requests : request[r].stage \notin {"unsent", "closed"}}

(* The requests whose answers the document waits for.                      *)
Open == {r \in Pending : ~request[r].deaf}

Fresh(r) == request[r].stage = "unsent" /\ \A q \in 1 .. r - 1 : request[q].stage # "unsent"

(* send refuses while the UI is blocked.  A heartbeat or a changed value    *)
(* does not block it, and any answer unblocks it.                          *)
MaySend == ~loading /\ ~blocked

Send(r, kind, page, pages) ==
    /\ request' = [request EXCEPT ![r] =
          [Unsent EXCEPT !.stage = "sent", !.kind = kind, !.page = page,
                         !.pages = pages, !.session = session]]
    /\ orderly' = (orderly /\ Open = {})

(* init() of a loaded document, with the state the history has for it.     *)
SendInit(r) ==
    /\ loading /\ Fresh(r)
    /\ Send(r, "init", None, history[position])
    /\ loading' = FALSE
    /\ blocked' = TRUE
    /\ UNCHANGED <<session, shown, history, position, alive, server, worker>>

(* An action of the navigation, or of a page on the screen.                *)
SendAction(r) ==
    /\ MaySend /\ Fresh(r)
    /\ \/ Send(r, "show", None, <<>>)
       \/ \E p \in Items(shown) :
             /\ request[p].kind # "back"  \* an ExpiredPage has no actions
             /\ Send(r, "detail", p, <<>>) \/ Send(r, "hide", p, <<>>)
    /\ blocked' = TRUE
    /\ UNCHANGED <<session, shown, history, position, loading, alive, server, worker>>

(* A changed value, a selection, a heartbeat: sent without blocking.       *)
SendQuiet(r) ==
    /\ MaySend /\ Fresh(r)
    /\ Send(r, "quiet", None, <<>>)
    /\ UNCHANGED <<browser, alive, server, worker>>

(* addNewStateToHistory and, after the change of the container,            *)
(* saveStateInHistory: the first page of a document replaces the state.    *)
PushState(pages) ==
    IF shown = <<>>
    THEN /\ history' = [history EXCEPT ![position] = pages]
         /\ UNCHANGED position
    ELSE /\ history' = Append(SubSeq(history, 1, position), pages)
         /\ position' = position + 1

(* closePage removes a detail and those right of it before it sends.       *)
ClosePage(r) ==
    /\ MaySend /\ Fresh(r)
    /\ \E i \in 2 .. Len(shown) :
          /\ Send(r, "close", shown[i], <<>>)
          /\ shown' = Before(shown, shown[i])
          /\ PushState(shown')
    /\ blocked' = TRUE
    /\ UNCHANGED <<session, loading, alive, server, worker>>

(* popState: the back and forward buttons of the browser move in the       *)
(* history, whether send then accepts the request or not.                  *)
PopState(r) ==
    /\ ~loading /\ Fresh(r)
    /\ position' \in {position - 1, position + 1} \cap (1 .. Len(history))
    /\ \/ /\ MaySend /\ history[position'] # <<>>
          /\ Send(r, "back", None, history[position'])
          /\ blocked' = TRUE
       \/ blocked /\ UNCHANGED <<request, blocked, orderly>>
    /\ UNCHANGED <<session, shown, history, loading, alive, server, worker>>

(* The document is loaded again; answers of its requests reach nobody.     *)
Reloaded ==
    /\ shown' = <<>>
    /\ blocked' = FALSE
    /\ loading' = TRUE

(* The user reloads the document, as long as the bound leaves a request for *)
(* the new one.                                                            *)
Reload ==
    /\ ~loading /\ \E r \in Requests : Fresh(r)
    /\ orderly' = (orderly /\ \A r \in Pending :
          request[r].stage = "answered" /\ request[r].answer.session = session)
    /\ Reloaded
    /\ request' = [r \in Requests |->
          IF r \in Pending THEN [request[r] EXCEPT !.deaf = TRUE] ELSE request[r]]
    /\ UNCHANGED <<session, history, position, alive, server, worker>>

-----------------------------------------------------------------------------
(* The session manager.                                                    *)

Created == {s \in Sessions : server[s].created}

(* getSession, in the thread of the HTTP request: a request of an unknown  *)
(* session gets a new one.                                                 *)
GetSession(r) ==
    /\ request[r].stage = "sent"
    /\ \E s \in Sessions :
          /\ IF request[r].session \in alive
             THEN s = request[r].session /\ UNCHANGED <<alive, server>>
             ELSE /\ s \notin Created /\ \A q \in 1 .. s - 1 : q \in Created
                  /\ alive' = alive \cup {s}
                  /\ server' = [server EXCEPT ![s].created = TRUE]
          /\ request' = [request EXCEPT ![r].stage = "queued", ![r].at = s,
                ![r].origin = IF @ = None THEN s ELSE @]
    /\ UNCHANGED <<browser, worker, orderly>>

(* run() of the timer, or the administrator's remove action.               *)
DropSession(s) ==
    /\ s \in alive
    /\ Cardinality(Created) < MaxSessions
    /\ alive' = alive \ {s}
    /\ UNCHANGED <<browser, request, server, worker, orderly>>

(* Mutant: every request gets a worker.                                    *)
AlwaysStarts(r) == TRUE

(* A repeated request waits for the thread the session has.                *)
Starts(r) == ~request[r].retry \/ server[request[r].at].thread = None

(* synchronized (session), and handle up to the join.                      *)
Handle(r) ==
    LET s == request[r].at
    IN  /\ request[r].stage = "queued"
        /\ server[s].holder = None
        /\ request' = [request EXCEPT ![r].stage = "joining"]
        /\ IF Starts(r)
           THEN /\ server' = [server EXCEPT ![s].holder = r, ![s].thread = r]
                /\ worker' = [worker EXCEPT ![s][r] = "started"]
           ELSE /\ server' = [server EXCEPT ![s].holder = r]
                /\ UNCHANGED worker
        /\ UNCHANGED <<browser, alive, orderly>>

Ended(s, r) == worker[s][r] \in {"done", "failed"}

(* After the join the thread has ended, or two seconds have passed.        *)
Respond(r) ==
    LET s == request[r].at
    IN  /\ request[r].stage = "joining"
        /\ s # request[r].session /\ ~SlowStart => Ended(s, server[s].thread)
        /\ request' = [request EXCEPT ![r].stage = "answered",
              ![r].answer = IF Ended(s, server[s].thread)
                            THEN [server[s].output EXCEPT !.session = s]
                            ELSE [Nothing EXCEPT !.op = "wait"]]
        /\ server' = [server EXCEPT ![s].holder = None]
        /\ UNCHANGED <<browser, alive, worker, orderly>>

-----------------------------------------------------------------------------
(* The worker: handle_.                                                    *)

(* Mutant: the oldest page is kept when the store is full.                 *)
PutAnyway(store, p) == Append(store, p)

(* PageStore.put and get; get moves the page to the end.                   *)
Put(store, p) ==
    Append(IF Len(store) = HistoryLength THEN Tail(store) ELSE store, p)

GetPage(store, p) ==
    Append(Before(store, p) \o SubSeq(store, Index(store, p) + 1, Len(store)), p)

(* One page after the other, as show(List) and handle_ do.                 *)
GetAll(store, pages) ==
    LET after[n \in 0 .. Len(pages)] ==
            IF n = 0 THEN store ELSE GetPage(after[n - 1], pages[n])
    IN  after[Len(pages)]

Valid(store, pages) == pages # <<>> /\ Items(pages) \subseteq Items(store)

Shows(op, pages, master) == [Nothing EXCEPT !.op = op, !.pages = pages, !.master = master]

(* show(Page, null): the old pages are forgotten before the application is  *)
(* asked for what the new one contains, and may throw.                     *)
CutMain(v, p) ==
    [v EXCEPT !.visible = <<>>, !.components = {Navigation}, !.store = Put(@, p)]

ShowMain(v, p) ==
    [CutMain(v, p) EXCEPT !.visible = <<p>>, !.output = Shows("showPage", <<p>>, None)]

(* Mutant: the details of the master page stay in the list.                *)
ShowOneMoreDetail(v, master, p) ==
    [v EXCEPT !.visible = Append(@, p), !.store = Put(@, p),
              !.output = Shows("showPage", <<p>>, master)]

(* showDetail of a page that is not shown yet, show(Page, masterPageId).    *)
CutDetail(v, master, p) ==
    [v EXCEPT !.visible = Through(@, master), !.store = Put(@, p)]

ShowDetail(v, master, p) ==
    [CutDetail(v, master, p) EXCEPT !.visible = Append(@, p),
                                    !.output = Shows("showPage", <<p>>, master)]

(* showDetail of a detail that is shown: the lists stay.                   *)
HasDetail(v, p) == p \in Items(v.visible) /\ Index(v.visible, p) < Len(v.visible)

(* hideDetail for the detail of page p, if there is one.                   *)
HideDetail(v, p) ==
    IF HasDetail(v, p)
    THEN [v EXCEPT !.visible = Through(@, p),
                   !.output = Shows("hidePage", <<v.visible[Index(v.visible, p) + 1]>>, None)]
    ELSE v

(* show(List<String>, boolean): page by page, and then the output.         *)
CutAll(v, pages) == [v EXCEPT !.visible = pages, !.store = GetAll(@, pages)]

ShowAll(v, pages) ==
    [CutAll(v, pages) EXCEPT !.output = Shows("showPages", pages, None)]

ShowExpired(v, p) ==
    [v EXCEPT !.store = Put(@, p), !.output = Shows("showPages", <<p>>, None)]

(* The input a worker has: a repeated request carries nothing else, so in  *)
(* a session that does not know of the first one nothing is done.          *)
Kind(s, r) == IF request[r].origin = s THEN request[r].kind ELSE "quiet"

(* getComponentById returns null (in development mode it throws and the    *)
(* pages are shown again), or the page is not in the list.                 *)
Refused(s, r) ==
    LET v == server[s]
        p == request[r].page
    IN  CASE Kind(s, r) = "show" -> Navigation \notin v.components
          [] Kind(s, r) = "detail" -> p \notin v.components \/ p \notin Items(v.visible)
          [] Kind(s, r) = "hide" -> p \notin v.components
          [] Kind(s, r) = "close" -> p \notin Items(v.visible)
          [] OTHER -> FALSE

(* updateNavigation, before it creates the new navigation.                 *)
WithoutNavigation(v) == [v EXCEPT !.components = @ \ {Navigation}]

Effect(s, r) ==
    LET v == server[s]
        p == request[r].page
        pages == request[r].pages
    IN  CASE Kind(s, r) = "init" ->
               IF Valid(v.store, pages) THEN ShowAll(WithoutNavigation(v), pages)
               ELSE ShowMain(v, r)
          [] Kind(s, r) = "show" -> ShowMain(v, r)
          [] Kind(s, r) = "detail" -> ShowDetail(v, p, r)
          [] Kind(s, r) = "hide" -> HideDetail(v, p)
          [] Kind(s, r) = "close" -> [v EXCEPT !.visible = Before(@, p)]
          [] Kind(s, r) = "back" ->
               IF Valid(v.store, pages) THEN ShowAll(v, pages) ELSE ShowExpired(v, r)
          [] OTHER -> v

Becomes(s, r, phase) == worker' = [worker EXCEPT ![s][r] = phase]

BeginWork(s, r) ==
    /\ worker[s][r] = "started"
    /\ server' = [server EXCEPT ![s].output = Nothing]
    /\ Becomes(s, r, "running")
    /\ UNCHANGED <<browser, request, alive, orderly>>

(* The session of the browser handles r, and there is nothing else on its  *)
(* way or at work.                                                         *)
Alone(s, r) ==
    /\ Pending = {r} /\ ~request[r].deaf
    /\ request[r].at = s /\ request[r].session = session
    /\ request[r].stage = "answered" => request[r].answer.op = "wait"
    /\ session = s \/ (session = None /\ ~request[r].retry /\ request[r].stage = "joining")
    /\ server[s].thread = r
    /\ \A t \in Sessions, q \in Requests :
          worker[t][q] = "none" \/ Ended(t, q) \/ (t = s /\ q = r)

(* All pages are shown anew.                                               *)
ShowsAnew(s, r) ==
    \/ Kind(s, r) \in {"init", "show"}
    \/ Kind(s, r) = "back" /\ Valid(server[s].store, request[r].pages)

Work(s, r) ==
    /\ worker[s][r] = "running"
    /\ ~Refused(s, r)
    /\ \/ server' = [server EXCEPT ![s] = Effect(s, r)]
       \/ Kind(s, r) = "detail" /\ HasDetail(server[s], request[r].page) /\ UNCHANGED server
    /\ orderly' = (orderly \/ (Alone(s, r) /\ ShowsAnew(s, r)))
    /\ Becomes(s, r, "acted")
    /\ UNCHANGED <<browser, request, alive>>

(* Where the application, creating the navigation, the default page or the *)
(* JSON of a page, throws while the session is about to show pages.        *)
Interrupted(s, r) ==
    LET v == server[s]
        w == WithoutNavigation(v)
        pages == request[r].pages
        CutPages(u) ==
            {CutAll(u, SubSeq(pages, 1, n)) : n \in 1 .. Len(pages)}
            \cup {[ShowAll(u, pages) EXCEPT !.components = @ \ Items(pages)]}
    IN  CASE Kind(s, r) = "init" ->
               {v, w} \cup IF Valid(v.store, pages) THEN CutPages(w)
                           ELSE {CutMain(v, r), ShowMain(v, r)}
          [] Kind(s, r) = "show" -> {CutMain(v, r)}
          [] Kind(s, r) = "detail" -> {CutDetail(v, request[r].page, r)}
          [] Kind(s, r) = "back" -> IF Valid(v.store, pages) THEN CutPages(v) ELSE {}
          [] OTHER -> {}

(* An exception ends handle_: of a request that is refused, of an action   *)
(* of the application before or after it has shown something, or while the *)
(* session shows it.                                                       *)
WorkFails(s, r) ==
    /\ worker[s][r] = "running"
    /\ \/ /\ Refused(s, r) \/ Kind(s, r) \in {"show", "detail", "hide", "quiet"}
          /\ UNCHANGED <<server, orderly>>
       \/ /\ ~Refused(s, r) /\ Kind(s, r) \in {"show", "detail", "hide"}
          /\ server' = [server EXCEPT ![s] = Effect(s, r)]
          /\ UNCHANGED orderly
       \/ /\ ~Refused(s, r)
          /\ \E v \in Interrupted(s, r) : server' = [server EXCEPT ![s] = v]
          /\ orderly' = FALSE
    /\ Becomes(s, r, "failed")
    /\ UNCHANGED <<browser, request, alive>>

(* Mutant: only the page of showPage is registered.                        *)
RegisterShowPage(s, r) ==
    /\ worker[s][r] = "acted"
    /\ server' = [server EXCEPT ![s].components = @ \cup
          (IF server[s].output.op = "showPage" THEN Items(server[s].output.pages) ELSE {})
          \cup (IF Kind(s, r) = "init" THEN {Navigation} ELSE {})]
    /\ Becomes(s, r, "done")
    /\ UNCHANGED <<browser, request, alive, orderly>>

(* register(output): the components in it can be used from now on.         *)
Register(s, r) ==
    LET out == server[s].output
    IN  /\ worker[s][r] = "acted"
        /\ server' = [server EXCEPT ![s].components = @ \cup
              (IF out.op \in {"showPage", "showPages"} THEN Items(out.pages) ELSE {})
              \cup (IF Kind(s, r) = "init" THEN {Navigation} ELSE {})]
        /\ Becomes(s, r, "done")
        /\ UNCHANGED <<browser, request, alive, orderly>>

-----------------------------------------------------------------------------
(* The browser receives: onMessage.                                        *)

(* Of a request that is over only what its worker has of it is kept.        *)
Closed(q) == [q EXCEPT !.stage = "closed", !.answer = Nothing, !.session = None,
                       !.retry = FALSE, !.deaf = FALSE]

(* Mutant: the answer wait is taken for an answer.                         *)
WaitIsDropped(r) ==
    /\ request[r].stage = "answered" /\ ~request[r].deaf
    /\ request[r].answer.op = "wait"
    /\ request' = [request EXCEPT ![r] = Closed(@)]
    /\ UNCHANGED <<browser, alive, server, worker, orderly>>

(* The answer wait is answered with the request {retry}.                   *)
ReceiveWait(r) ==
    /\ request[r].stage = "answered" /\ ~request[r].deaf
    /\ request[r].answer.op = "wait"
    /\ request' = [request EXCEPT ![r].stage = "sent", ![r].retry = TRUE,
                                  ![r].session = session]
    /\ UNCHANGED <<browser, alive, server, worker, orderly>>

(* showPage removes all pages right of the master page.                    *)
WithPage(master, p) ==
    IF master \in Items(shown) THEN Append(Through(shown, master), p) ELSE <<p>>

Receive(r) ==
    LET out == request[r].answer
    IN  /\ request[r].stage = "answered" /\ ~request[r].deaf
        /\ out.op # "wait"
        /\ session \in {None, out.session}
        /\ request' = [request EXCEPT ![r] = Closed(@)]
        /\ session' = out.session
        /\ blocked' = FALSE
        /\ CASE out.op = "showPage" ->
                  /\ shown' = WithPage(out.master, out.pages[1])
                  /\ PushState(shown')
             [] out.op = "showPages" ->
                  /\ shown' = out.pages
                  /\ UNCHANGED <<history, position>>
             [] out.op = "hidePage" ->
                  /\ shown' = IF out.pages[1] \in Items(shown)
                              THEN Before(shown, out.pages[1]) ELSE <<>>
                  /\ PushState(shown')
             [] OTHER -> UNCHANGED <<shown, history, position>>
        /\ UNCHANGED <<loading, alive, server, worker, orderly>>

(* Mutant: the id of the new session is taken, the document stays.         *)
TakeNewSession(r) ==
    LET out == request[r].answer
    IN  /\ request[r].stage = "answered" /\ ~request[r].deaf
        /\ out.op # "wait"
        /\ session \notin {None, out.session}
        /\ request' = [request EXCEPT ![r] = Closed(@)]
        /\ session' = out.session
        /\ blocked' = FALSE
        /\ UNCHANGED <<shown, history, position, loading, alive, server, worker, orderly>>

(* The answer comes from another session: the document is reloaded.        *)
ReceiveFromNewSession(r) ==
    LET out == request[r].answer
    IN  /\ request[r].stage = "answered" /\ ~request[r].deaf
        /\ out.op # "wait"
        /\ session \notin {None, out.session}
        /\ session' = out.session
        /\ Reloaded
        /\ request' = [q \in Requests |->
              IF q = r THEN Closed(request[q])
              ELSE IF q \in Pending THEN [request[q] EXCEPT !.deaf = TRUE] ELSE request[q]]
        /\ UNCHANGED <<history, position, alive, server, worker, orderly>>

(* The answer to a document that is gone.                                  *)
Unheard(r) ==
    /\ request[r].stage = "answered" /\ request[r].deaf
    /\ request' = [request EXCEPT ![r] = Closed(@)]
    /\ UNCHANGED <<browser, alive, server, worker, orderly>>

-----------------------------------------------------------------------------
Browse(r) ==
    SendInit(r) \/ SendAction(r) \/ SendQuiet(r) \/ ClosePage(r) \/ PopState(r)

Http(r) == GetSession(r) \/ Handle(r) \/ Respond(r)

Worker(s, r) == BeginWork(s, r) \/ Work(s, r) \/ WorkFails(s, r) \/ Register(s, r)

OnMessage(r) ==
    ReceiveWait(r) \/ Receive(r) \/ ReceiveFromNewSession(r) \/ Unheard(r)

Next ==
    \/ \E r \in Requests : Browse(r) \/ Http(r) \/ OnMessage(r)
    \/ \E s \in Sessions, r \in Requests : Worker(s, r)
    \/ \E s \in Sessions : DropSession(s)
    \/ Reload

Spec == Init /\ [][Next]_vars

(* Requests and answers arrive, threads run on, actions come to an end.    *)
Fairness ==
    \A r \in Requests :
        /\ WF_vars(Http(r))
        /\ WF_vars(OnMessage(r))
        /\ \A s \in Sessions : WF_vars(Worker(s, r))

FairSpec == Spec /\ Fairness

-----------------------------------------------------------------------------
(* Two workers of a session never run at the same time: they use the same  *)
(* fields output, thread and componentById ("Caller of handle have to      *)
(* synchronize", JsonPageManager).                                         *)
OneWorkerAtATime ==
    \A s \in Sessions :
        Cardinality({r \in Requests : worker[s][r] # "none" /\ ~Ended(s, r)}) <= 1

(* A session does the work of a request at most once, however often the    *)
(* browser has to ask for its answer.                                      *)
HandledOnce ==
    [][\A s \in Sessions, r \in Requests :
          worker'[s][r] = "started" => worker[s][r] \in {"none", "started"}]_vars

Settled == ~loading /\ Pending = {} /\ session # None

(* When the browser has the answers of all its requests, it shows the      *)
(* pages the session has in visiblePageAndDetailsList, or, after a step in *)
(* the history to pages the store has lost, only the ExpiredPage; whatever *)
(* happened before the last time a request that was alone showed its page. *)
ClientMatchesServer ==
    Settled /\ orderly =>
        \/ shown = server[session].visible
        \/ Len(shown) = 1 /\ request[shown[1]].kind = "back"

(* Everything the user can activate is known to the session, except on the *)
(* page of an action that threw after it had shown the page.               *)
ShownAreRegistered ==
    Settled /\ orderly => \A p \in Items(shown) :
        p \in server[session].components \/ worker[session][p] = "failed"

(* A browser that has all its answers shows a page, first of all the       *)
(* default page of the application ("called for a new User", the javadoc   *)
(* of Application.createDefaultPage).                                      *)
PageIsShown == Settled /\ orderly => shown # <<>>

(* A request that needs a session the bound MaxSessions denies.            *)
OutOfSessions ==
    \E r \in Requests :
        /\ request[r].stage = "sent" /\ request[r].session \notin alive
        /\ Created = Sessions

(* The UI does not stay blocked: an answer comes, however long the request *)
(* takes and whatever happens to the session.                              *)
UiUnblocks == blocked ~> (~blocked \/ OutOfSessions)

=============================================================================
