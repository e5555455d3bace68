# Minimal-J: specifications, checks and proofs

TLA+ specifications of the parts of Minimal-J in which threads, connections,
caches and messages meet, the TLC runs that check them on small instances, and
theorems that TLAPS proves for every instance. Paths such as
`repository/sql/SqlRepository.java` are below
`src/src/main/java/org/minimalj/`.

| Module | What it is |
| --- | --- |
| `TransactionPool` | `Backend.doExecute` on the connection handling of `SqlRepository` |
| `AtomicTransactions` | what `Backend.execute` promises its callers; `TransactionPool` is checked to implement it |
| `TransactionPoolProofs` | theorems about `TransactionPool`: connections |
| `AtomicityProofs` | theorems about `TransactionPool`: nesting, atomicity, the refinement |
| `CodeCache` | `Codes.DefaultCodeCache`, its readers and the transactions that write codes |
| `CodeCacheProofs` | theorems about `CodeCache` |
| `JsonSession` | a browser window (`index.html`), `JsonSessionManager`, `JsonPageManager` |
| `JsonSessionProofs` | theorems about `JsonSession`: what holds in every run |
| `JsonAgreementProofs` | theorems about `JsonSession`: browser and session agree in orderly runs |
| `EntityTable` | the statements with which `Table`, `DependableTable` and `SubTable` insert, read, update and delete an entity |
| `VersionedStore` | what optimistic locking promises; `EntityTable` implements it |
| `EntityTableProofs` | theorems about `EntityTable`, the refinement among them |
| `DialogPolyfill` | `dialog-polyfill.js`: modal dialogs, their stack and overlay, the focus, the observers |
| `TopLayer` | the top layer of browsers with dialogs of their own; `DialogPolyfill` implements it |
| `DialogPolyfillProofs` | theorems about `DialogPolyfill`, the refinement among them |
| `MCTransactionPool`, `MCCodeCache`, `MCDialogPolyfill`, `MCEntityTable` | model values, symmetry, views and reference graphs for TLC |

In `PROJECT.json`, `runs` and `theorems` say what is checked and proved, `map`
gives the source lines of every definition, `mutants` names for every checked
property a plausible mistake in the code that the run would notice,
`hazards` lists what is hard to test and `findings` where the code disagrees
with its own documentation.

Commands: `tlc -config pool_nested.cfg MCTransactionPool.tla` (and so on for
every run in the table below), `tlapm TransactionPoolProofs.tla` (and so on for
the other modules whose name ends in `Proofs`).

## 1. The system

A Minimal-J application consists of a frontend (browser or Swing) and a
backend, in one process or two. All work on data is done in `Transaction`
objects given to `Backend.execute`; the backend runs them on a repository,
normally a SQL database.

    browser --requests--> JsonSessionManager --worker thread--> JsonPageManager
                                                                      |
                                        pages, editors, actions of the application
                                                                      |
                 Codes (cache of code tables)  <---------->  Backend.execute
                      monitors per class                           |
                            ^                              (or SocketBackend)
                            |  reading rows                        |
                            +---------- Tables  <----  SqlRepository: connections

### Transactions and connections
(`backend/Backend.java`, `repository/sql/SqlRepository.java`)

* State: a deque of idle connections (`connectionDeque`), a list of all
  connections, per thread a stack of connections (the ThreadLocal
  `threadLocalTransactionConnection`) and the current transaction
  (`currentTransaction`), a shared connection for auto-commit work.
* Operations: `execute` / `doExecute` (nestable), `startTransaction`,
  `allocateConnection`, `endTransaction`, `releaseConnection`, `getConnection`.
* Interaction: the frontend's threads call `execute`; tables call
  `getConnection` for every statement; the database opens, refuses, drops
  connections and may fail a commit.
* Hard: two threads allocate and release at once; nesting with exceptions;
  a failing commit; connections that die while idle; the limit of the database.
* Correct when: a connection serves one transaction at a time, a transaction is
  all or nothing towards its caller, nested transactions do not touch the
  outer one's connection, no connection is lost, every call comes back.

### Code cache
(`util/Codes.java`, `Backend.handleCodeCache`, `SqlRepository.readResultSetRow`)

* State: class -> item with codes and timestamp; one monitor per class.
* Operations: get (loads when missing or older than ten seconds), invalidate.
* Interaction: loading codes runs a transaction that reads rows, and rows that
  refer to codes go back to the cache, nested in the monitor of the first
  class. Tables and `Backend` invalidate after writes.
* Hard: an invalidation during a load, another thread's view of an item that is
  being loaded, monitors held while others are entered.
* Correct when: nothing read before a completed write stays in the cache, nobody
  but the loader sees an unfinished item, references are not lost, no deadlock.

### Web session
(`frontend/impl/json/JsonSessionManager.java`, `JsonPageManager.java`,
`frontend/impl/util/PageStore.java`, `PageList.java`, `index.html`)

* State: in the browser the session id, the pages shown, the history, whether
  the UI is blocked; on the server the sessions, and in each the visible pages,
  the last 20 pages, the registered components, the thread that works and its
  output.
* Operations: the user's clicks, changed values, closing pages, back and
  forward, reload; session lookup, creation and expiry; `handle` with a worker
  thread and the answer *wait* after two seconds; show, show detail, hide.
* Hard: slow requests and their repetition, requests that do not block the UI,
  a session that disappears, two copies of the list of visible pages, exceptions
  of the application while pages are shown.
* Correct when: one worker at a time, no request done twice, browser and server
  agree on what is shown, everything shown can be used, the UI unblocks.

### Dialogs of the browser
(`frontend/impl/web/dialog-polyfill.js`, a vendored library, loaded by
`index.html` lines 42-48 where `HTMLDialogElement` is missing; `showDialog` in
lines 1302-1304 registers the dialogs)

* State: per dialog the attribute *open*, whether it is open as a modal, its
  backdrop, z-index and position; the stack of modal dialogs, the overlay, the
  handlers on the document, the last direction of the tab key.
* Operations: `show`, `showModal`, `close`, `remove`, changing the attribute,
  keys, clicks, focus; two kinds of `MutationObserver`.
* Interaction: a script of the page does several of these before any observer
  is notified; the observers then find a document that has changed further.
* Hard: what an observer reads (the stack, records) is of different moments;
  disconnecting an observer drops its records; the order of the z-indexes.
* Correct when: the page is blocked by dialogs only that the user can see, only
  the topmost can be used and has the focus, an open dialog keeps its place.

### Tables and optimistic locking
(`Table`, `AbstractTable`, `SubTable`, `CrossTable`, `DependableTable` in
`repository/sql`)

* State: rows; versions of entities; positions in lists; dependable rows.
* Operations: insert, update with version check, `replaceList`, `addList`,
  delete, read. Each is several statements.
* Interaction: `Backend` puts each into a transaction, whose isolation the
  class of the transaction chooses; the database locks rows and keeps keys.
* Hard: two editors of the same entity, statements of a concurrent reader in
  between, an update that fails half-way, a deletion beside an update.
* Correct when: an update replaces exactly the state that was read, entities
  are stored whole, a mixed read is never taken for the truth.

### Further components, not modelled

| Component | Behaviour that matters | Why not (yet) |
| --- | --- | --- |
| Remote backend (`SocketBackend`, `SocketBackendServer`) | one connection per transaction; a failure after the commit; the exception text as status | planned |
| In-memory repository (`src/ext/memory`) | one read/write lock, objects shared with callers | planned |
| Historized tables (`src/ext/historized`) | versions of entities and of list elements | planned |
| Page history of Swing (`impl/util/History`) | add truncates, previous/next | planned with the pure algorithms |
| Editors, wizards | validate, save, step back | planned after the session |
| Schema, dialects, where clauses | text for databases | no state of their own |
| Forms, rendering, Swing | presentation on one thread | nothing concurrent |

## 2. The models

### TransactionPool

One call of `doExecute` is a sequence of steps of its thread; between any two,
other threads and the database may act. A transaction object is used once and
its `phase` is the place in the code:

| phase | code | actions |
| --- | --- | --- |
| - | `Backend.doExecute` called | `DoExecute` |
| poll | `connectionDeque.poll()` | `PollConnection` |
| validate | null / `isValid` test, opening a connection | `ValidateConnection` |
| configure | `setTransactionIsolation`, `setAutoCommit`, push | `ConfigureConnection` |
| wait | the timed poll at the end of the loop | `WaitForConnection` |
| body | `transaction.execute()` | `BodyWrites`, `BodyReturns`, `BodyThrows`, or `DoExecute` of a nested one |
| finally | `endTransaction`: commit, rollback | `EndResolves`, `EndFails` |
| release | `releaseConnection`, pop | `ReleaseConnection` |

What `execute()` does is left open: it writes at most `MaxWrites` times (a
write is the pair of the transaction and a number), nests, catches or throws.
A write goes to the connection `getConnection` returns, is `pending` there and
becomes `durable` with the commit, or at once in auto-commit mode
(`@Isolation(Level.NONE)`, the set `Unisolated`). The database is external: it
refuses connections beyond `MaxConnections`, drops them (`ConnectionBreaks`)
and, with `CommitMayFail`, fails a commit of a live connection. On a dropped
connection `endTransaction` can fail at its first statement, `getAutoCommit()`,
also in auto-commit mode.

Left out: the shared auto-commit connection outside of transactions (used for
initialisation and tests), `closeAllConnections`, authorization and logging in
`doExecute`, `MjForbidInnerTransaction`, which has its default "false", and
exceptions in what `doExecute` does after the commit (`handleCodeCache`,
`Application.transactionCompleted`, `Backend.java:229-230`): the caller then gets
an exception although the writes are durable, so `AllOrNothing` is about the
exceptions of the transaction and of the database only.

`AtomicTransactions` has no connections and no threads: a transaction is new,
active, committed or aborted, its writes are staged, and they become durable
together. The refinement mapping (`Status`, `Staged` at the end of
`TransactionPool`) takes a transaction as decided when its JDBC transaction is,
which is before its caller learns of it.

### CodeCache

`frames[h]` is the stack of running `getCacheItems` calls of thread h: waiting
for the monitor (*enter*), before the query (*find*), reading rows and resolving
references one after the other (*rows*), before the end of `synchronized`
(*leave*). A reference pushes a call for the referenced class. The rows of a
class are abstracted to the number of the last write in them. Transactions write
one class and pass through the statement, the invalidation in `Table`, the commit
or rollback and the invalidation in `Backend.handleCodeCache`, each a step of its
own, with reads of codes in between. Item objects are reused when nobody refers
to them, so a finite set stands for all of them.

What a query sees depends on the transaction it runs in (`Seen`). Outside of a
transaction, and in one with the isolation *current*, it is what others have
committed. With the isolation *snapshot* it is what was committed at the first
statement of the transaction (`TakeSnapshot`), which is what many databases make
of SERIALIZABLE, the default of `Transaction.getIsolation`; others make locks of
it, which is *current* again. A thread also sees its own uncommitted write.

So a transaction with an old snapshot can put old codes into the cache that all
threads use, after a completed write has cleared it. "The cache is never older
than a completed write" is not true of this code. `NothingCachedFromBeforeWrite`
says what is: nothing that was *read* before a write was committed is in the cache
once `Backend.execute` has returned. Not the item that was there, not one that
was loaded between the invalidation in `Table` and the commit, and not one whose
query ran before and whose `setCodes` comes later. For this the model records
with an item what had been committed when it was read in a snapshot (`queried`, a
history variable).

`ReferencesResolved` is about the moment in which `getCode` looks for a
referenced code in an item. The code is found if the item has its codes and is
not older than the code. `known[c][v]` (a history variable) records which codes
of other classes a write of c can refer to by the order of calls: those whose
`Backend.execute` had returned. What can still be lost, for up to ten seconds, and
is not claimed: a reference to a code that is committed but whose call has not
returned; to one written in the same transaction; one looked up in an item that
was read in an older snapshot; one to a code that is deleted.

### JsonSession

Requests are numbered and a page has the number of the request that made it.
`request[r].stage` follows a request: sent, queued (its session is found or
created), joining (the HTTP thread has entered `synchronized (session)`, may
have started the worker, and is in `thread.join(2000)`), answered, closed.
`Respond` answers with the output if the worker has ended and with *wait*
otherwise: two seconds are not modelled as a number. The worker runs beside it:
`BeginWork` (`output = new JsonOutput()`), `Work` (all of `handle_` up to
`register(output)`), `Register`, or `WorkFails`. Dropping a session takes it out
of the map; its workers run on.

The three lists that have to agree are `shown` in the browser,
`server[s].visible` (`visiblePageAndDetailsList`) and `server[s].components`
(`componentById`, by page). Messages are only what moves these lists.

`WorkFails` has every place where an exception can leave `handle_`:

* the request is refused, or the action of the application throws before it has
  shown anything: nothing changes;
* the action throws after it has shown its page: the page is in the answer, but
  nothing is registered;
* the application throws while the session is about to show pages
  (`Interrupted`): while the navigation is created (`WithoutNavigation`: the old
  one is already unregistered), in `createDefaultPage`, or in `createJson` of a
  page, which comes after the lists have been cut (`CutMain`, `CutDetail`,
  `CutAll` for each of the pages) and before the page is in the output. The
  output of a list of pages is complete when `updateTitle` throws.

`close` (`PageList.removeAllFrom`) runs no code of the application after its
change, and the `ExpiredPage` is the framework's own: they do not fail there.

Requests overlap as in the code: `send` refuses only while the UI is blocked, so
a request that does not block it (a changed value, a heartbeat) can be followed by
another at once, whose worker runs beside the first. `Work` and `Register` are
single steps also then; what two workers do to each other's fields within a step
is not modelled, and no property claims anything of the pages after it. For
that the history variable `orderly` tells what runs are like: it becomes true
when a request that is alone (`Alone`: nothing else is on its way or at work)
shows its pages anew (`ShowsAnew`), and false when a request is sent while
another is open, when the document is loaded again with a request open, and when
showing pages is interrupted. `ClientMatchesServer`, `ShownAreRegistered` and
`PageIsShown` are claimed of settled states of orderly runs, whatever happened
before the pages were shown anew. They do not say "the user behaves": an
unfortunate heartbeat ends the claim, and the next click on the navigation
renews it. That a default page whose creation throws leaves the browser without
a page is a run that never becomes orderly. `TypeOK`, `HandledOnce` and
`UiUnblocks` are claimed of all runs.

`SlowStart = FALSE`: a request for which a session is created is answered within
two seconds. With `SlowStart = TRUE`, `PageIsShown` fails also in orderly runs,
because the *wait* answer names no session. The other properties do not need it,
as the proofs show.

Left out: dialogs on the server, login and remember-me, authorization of pages,
tables, lookups, suggestions, pages that are updated in place (`WheelPage`,
`JsonPageManager.java:418-419`), push over web sockets, lost HTTP requests, the
development mode (where an unknown component throws `ComponentUnknowException`
and shows the pages again), and actions that show more than one page.

### DialogPolyfill

A step is one call of a function of the library, one event, or one callback of
an observer. `turn` says who acts: scripts do any number of calls
(`MaxRecords` bounds the records they leave), then, when a script has ended
(`ScriptEnds`), the callbacks run until nothing is left to be notified of, and
only then (`Quiet`) keys and clicks arrive. That order is the browsers':
observers are microtasks. The observer of the document was created first and is
notified first; its callback `checkDOM_` works on copies (`clone`, `gone`), one
dialog at a time (`CheckNext`). `RemoveDialog` drops the records not yet
delivered with the last dialog, as `disconnect` does.

| state | code |
| --- | --- |
| `stack`, `overlay`, `blocked` | `pendingDialogStack`, `overlay`, `blockDocument` / `unblockDocument` |
| `modal`, `backdrop`, `replaced` | `openAsModal_`, `backdrop_`, `replacedStyleTop_` |
| `zIndex`, `backdropZ`, `top` | the styles `updateStacking` and `reposition` write |
| `removed`, `changed` | undelivered records of the two kinds of observers |
| `active`, `forwardTab` | `document.activeElement`, `forwardTab_` |

Elements within a dialog are one element (`Focusable`: there is one that can
have the focus); `HandleFocus` gives the places where the focus can end, more
than one where browsers differ. `Hasty = FALSE`: a script does not show a
dialog as modal again between taking it away past its functions (clearing the
attribute, removing the element) and the notification of the observers.
`index.html` closes a dialog before it removes it and makes a new element for
each. With `Hasty = TRUE` a dialog can be in the stack twice, and `StackIsModal`
and `NoStaleModal` do not hold.

Left out: forms with `method=dialog` and the form helpers, the emulation of
events and of `focus` for old browsers, dialogs in stacking contexts (a warning
only), dialogs that are not children of the body, and focusable elements in
backdrops.

### EntityTable

One entity: its row with value and version, the row of a dependent object
(`ThePart`) and a list (`ListRow(p)`). `Steps` lists the statements of
each transaction, and `job[t].step` is the one that thread t executes next; each
statement is one step and between two of them other threads execute theirs. What the Java code keeps
between statements is in `job[t]`: the object it is building, the dependent
object it has found, the length of the list in the database, the position in
`replaceList`. `copy[t]` is the object the user of thread t has read and may give
to `update` or `save` after editing: any of `Contents`, with the version that was
read.

The database is external and modelled by what the code relies on:

* a row that is written is locked until the transaction ends (`MayWrite`);
* a statement sees its own transaction's writes over what is committed now
  (READ_COMMITTED) or was when the transaction began (`isolated`, as databases
  with snapshots do it; then writing a row that has changed since fails).
  READ_UNCOMMITTED is left out: a copy read with it may contain what is rolled
  back, and `CopiesAreTrue` would not hold of it;
* primary and foreign keys are kept; an id is not used again;
* any statement or commit may fail, for a deadlock, a timeout or a lost
  connection (`Fail`), and the transaction is rolled back, which is what
  `TransactionPool` shows of `Backend.doExecute`.

A reader with READ_COMMITTED does get mixed objects, and may keep them:
`VersionedStore.Read` allows it. What makes this harmless is that such an object
never passes as the current one: `read` selects the row, with the version,
first, and every update changes the version.

Left out: references to other entities, lists of entities with an id
(`CrossTable`, `ContainedSubTable`), queries and views, delete by criteria,
classes without a version field (for which nothing of this is promised), the
code cache (see `CodeCache`).

## 3. What is checked

All runs take below three minutes with two workers.

| Run | Module, instance | Shows |
| --- | --- | --- |
| `pool_nested` | 2 threads, 3 transactions (1 unisolated), 4 connections, depth 2, 2 writes | `TypeOK`, `ExclusiveConnections`, `IdleConnectionsAreClean`, `PendingBelongsToHolder`, `AllOrNothing`, `StackMatchesCalls`, `NoConnectionLost`, `ImplementsAtomic` on a database without failures |
| `pool_faults` | 2 threads, 4 transactions, limit 2, one dropped connection, failing commits, no nesting | `ExclusiveConnections`, `IdleConnectionsAreClean`, `AllOrNothing` with failures |
| `pool_live` | 2 threads, 2 transactions, one dropped connection, nesting, enough connections | `EveryCallEnds` |
| `pool_wait_discards` | 2 threads, 1 connection | finding: `WaitersAreServed` is violated |
| `pool_nested_commit_fails` | failing commits with nesting | finding: `AllOrNothing` is violated |
| `cache_write` | 2 threads, class A refers to B, 1 write per class, both isolations, expiry | `TypeOK`, `NothingCachedFromBeforeWrite`, `OnlyLoaderSeesUnloaded`, `ReferencesResolved` |
| `cache_monitors` | 3 threads, A refers to A, B, C and B to C, failing loads | `NoMonitorDeadlock` |
| `cache_self_reference` | 2 threads, A refers to a later row of A | finding: `ReferencesResolved` is violated |
| `session_wait` | 3 requests that may overlap and fail, 2 sessions, 2 stored pages | `TypeOK`, `ClientMatchesServer`, `ShownAreRegistered`, `HandledOnce`, `PageIsShown`, `UiUnblocks` |
| `session_overlap` | 3 requests, 1 session | finding: `OneWorkerAtATime` is violated |
| `dialog_modal` | 3 dialogs (2 focusable, 1 centered), room for 2 modal ones, 2 records | `TypeOK`, `StackIsModal`, `WellStacked`, `NoStaleModal`, `FocusIsTrapped`, `CenteringIsUndone`, `KeepsItsPlace`, `ReaddedBecomesNormal`, `ImplementsTopLayer` |
| `entity_update` | 2 threads, 3 contents, lists up to 2, 2 updates, both isolation levels | `TypeOK`, `StoredWhole`, `CopiesAreTrue`, `StoresTheObject`, `ImplementsStore` |

### Bounds, and why they are enough

* Pool: two threads suffice for every conflict over one connection; three
  transactions allow a nested one beside a second thread, or two in a row on a
  reused connection, one of them in another auto-commit mode. Two writes make a
  partial commit visible. With four connections, two threads times depth two,
  the limit is never reached in `pool_nested`, so its `NoConnectionLost` is about
  failing transactions and nesting only; `pool_faults` and `pool_wait_discards` are about the limit.
  `pool_faults` has depth 1, because with nesting and failing commits
  `AllOrNothing` does not hold (`pool_nested_commit_fails`).
* Cache: one write per class is enough for "old" and "new", also for a snapshot
  of before it; six items are more
  than can be reachable at once (`EnterMonitor` needs one that is free). `cache_monitors` has three threads and three
  classes, the shortest possible circle being two. `MCView` leaves out of the
  states what can make no difference any more: which of the item objects is where,
  versions in calls that take their item from the cache, the class of a reading
  transaction, the snapshot of a committed one, and `known` between classes that
  do not refer to each other.
* Session: three requests reach a main page, a detail on it, and the step back,
  the reload, or a third page that evicts the first from a store of two (20 in
  the code); or a quiet request, a click that overlaps it, and one that renews
  the pages. Two sessions are one and its replacement; `UiUnblocks` leaves out a
  request that needs a third one (`OutOfSessions`). A reload needs a request
  for the new document, otherwise the bound would end the run with a blank one.
  An `ExpiredPage` on the screen in the session that evicted the page needs
  more requests than these; the theorem covers it.
* Dialogs: two in the stack are the topmost and a covered one, the third is
  refused at the limit (`ZHigh - ZLow` is 6 instead of 150) or is a normal
  dialog. Two records are the two that a script can leave about one dialog, or
  one each about two. The proofs have none of these bounds.
* Tables: two threads are an updater and a concurrent reader, updater or
  deleter. The contents have lists of length 0, 1 and 2 and parts that are
  missing, equal and different, so that every branch of `replaceList` and
  `DependableTable.update` is taken between some two of them. After two updates
  a third is refused by the bound; one is enough for an outdated copy.
* Symmetry (of threads and connections; of threads in the cache and the tables) is never used
  in a liveness run. `pool_nested` checks the refinement under it: threads and
  connections do not occur in `AtomicTransactions`, and `Atomic!Spec` has no
  liveness part.
* Runs with `CHECK_DEADLOCK FALSE` end when all transactions or requests are
  used up. In `cache_write` and `cache_monitors` deadlock is checked: a load can
  always be started.

### Fairness

`TransactionPool`: a thread that is inside `doExecute` goes on (weak fairness of
its steps), because nothing in that code waits except the poll with a timeout;
and `execute()` ends at some time, an assumption about the application. Nothing
is assumed of the database. `EveryCallEnds` is claimed with enough connections
only; at the limit, threads that hold a connection and want another one for a
nested transaction can wait for each other for ever.

`JsonSession`: requests and answers arrive, HTTP threads and workers run on, and
actions of the application end (weak fairness of `Http(r)`, `OnMessage(r)`,
`Worker(s, r)`). Users and the expiry of sessions are not fair.

`DialogPolyfill`: after a script has ended the browser notifies the observers and
their callbacks end (weak fairness of `ScriptEnds \/ Observers`): microtasks run
before anything else. Scripts and the user are not fair.

`CodeCache` and `EntityTable` have no liveness property: whether a statement
that waits for a lock goes on is up to the database.

## 4. What is proved

`TransactionPoolProofs` proves, for any sets of threads, transactions and
connections, any nesting, any number of dropped connections and with failing
commits, assuming only `ConstantsAssumption` (the types of the constants, and
that null is not a connection):

* `TypeCorrect`: `Spec => []TypeOK`;
* `ConnectionsAreExclusive`: `Spec => []ExclusiveConnections`;
* `IdleAreClean`: `Spec => []IdleConnectionsAreClean`.

The argument, in three layers, each proved to hold initially and to be kept by
every action:

1. `ControlInv`. Types alone are not inductive: `ReleaseConnection` takes the
   head of the stack, so there has to be one. For that a call in phase *release*
   must be the innermost of its thread (`OuterCallsAreInBody`,
   `CallsDisjoint`, from `CalledAreNotNew`: a transaction object is used once)
   and its stack not empty (`ReleaseHasConnection`). `ConfigureHasConnection`:
   only a connection that is not null is pushed.
2. `PoolInv` adds `ExclusiveConnections` (deque, stacks and the local variables
   of running allocations are disjoint) and `UnopenedAreNowhere`, without which
   a connection that is opened could already be somewhere. The case that needs
   care is the wait: an allocation in phase *wait* keeps its old connection in
   its variable, and is counted as holding it.
3. `CleanInv` adds where uncommitted writes can be: only on connections that
   are on a stack and in manual mode (`PendingIsOnStack`), and not on one about
   to be released (`ReleaseIsClean`). The hard case is `EndFails`, after which a
   connection stays on the stack for ever and the outer transaction uses it.

The lemmas `PushFront`, `PopFront`, `PushDistinct`, `PopDistinct`, `PushAll` and
`PopAll` say what the two sequence operations do to elements being distinct
within one sequence and across all threads.

`AtomicityProofs` proves, on top of this, for any numbers of threads and
transactions:

* `StackFollowsCalls` (`StackMatchesCalls`), if nothing fails (`NoFailures`: no
  connection is dropped and no commit of a live one throws);
* `WritesAreOnOwnConnection` (`PendingBelongsToHolder`), `TransactionsAreAtomic`
  (`AllOrNothing`) and `ImplementsAtomicTransactions` (`Spec =>
  ImplementsAtomic`, the refinement), if nothing fails or nothing is nested
  (`NoFailureWhenNested`);
* `ConnectionsAreKept` (`NoConnectionLost`, and that nobody ever waits), if
  nothing fails and there are as many connections as threads times depth
  (`EnoughConnections`).

The hypotheses are those of the code, not of the proof: a nested transaction
whose commit fails makes the outer one report success for writes that are lost
(`pool_nested_commit_fails`), and a thread that waits throws a connection away
(`pool_wait_discards`). The argument, in three layers on top of `PoolInv`:

1. `NestInv`: the stack of a thread begins with the connections of those of its
   calls that hold one, the innermost first (`StacksFit`), a connection that is
   held is on a stack (`HeldIsOnStack`), and by one call only
   (`HoldersAreExclusive`).
   `CallsAreBounded` and `NothingBreaks` turn the hypotheses into invariants.
2. `WritesInv`, with `CleanInv`: the writes of a transaction are all in one
   place, pending on its connection or durable, according to how far its call is
   (`WritesAccounted` in `CallsInOrder`), no others are anywhere
   (`WritesAreNumbered`), and a dropped connection has nothing pending
   (`BrokenIsClean`). A commit therefore makes durable all writes of one
   transaction and nothing else.
3. `LossInv`: every opened connection is idle or with an active call
   (`OpenedAreKnown`), and there is room for the connections of all calls that
   have found none (`OpenedSuffice`), however others put theirs back meanwhile.

The refinement follows step by step: an allocation or a release is a stutter of
`AtomicTransactions`, a write, a commit and a rollback are its own steps.

`CodeCacheProofs` proves, for any numbers of threads, code classes, items,
writes and any references between classes:

* `TypeCorrect`, and `CallsCorrect`: calls nest by references, and a thread holds
  the monitor of a class exactly as long as one of its calls for that class is
  inside `synchronized`;
* `MonitorsDoNotDeadlock` (`NoMonitorDeadlock`), if no class refers to itself by
  way of others (`OtherReferencesEnd`; it may refer to itself, monitors being
  reentrant), with failing loads;
* `UnloadedIsSeenByLoader` (`OnlyLoaderSeesUnloaded`), if no load fails;
* `CompletedWritesAreSeen` (`NothingCachedFromBeforeWrite`), for the kinds of
  transactions that `handleCodeCache` looks at, or that do not write
  (`InvalidatingKinds`), whatever their isolation, with failing loads and expiry;
* `ReferencesAreResolved` (`ReferencesResolved`), for the same kinds, if no load
  fails and no class refers to itself at all (`ReferencesEnd`).

The hypotheses mirror the code again: classes in a circle can deadlock, a failed
load leaves an item without codes that counts as valid, a self reference may be
cached as null (`cache_self_reference`), and deletions by criteria and
transactions of the application are not looked at when they end. The argument:

1. `CallInv`: the calls of a thread follow references (`CallsAreNested`), a call
   that waits has no item, and `MonitorsAreHeld`.
2. `Follows(below)`: each call is for a class below that of the call it was made
   in, for any order that the references respect. Threads that wait in a circle
   would then hold and want ever lower classes; a finite set of them has a
   lowest one, which nobody can wait for.
3. `LoadInv`: an item is in the cache for one class (`ItemsHaveOneClass`), and
   one without codes is being loaded by a call that holds the monitor
   (`UnsetIsLoaded`). A reference can meet such an item only when its own class is
   being loaded further out.
4. `CurrentInv`: the rows a call has read were read after the last completed write
   as long as its item is in the cache (`RowsAreCurrent`). If a transaction ends
   while they are read, its invalidation takes the item out, and the call fills
   one that nobody will find. `SeenIsCurrent` is the fact about snapshots: a query
   in one has `queried`, outside of one it sees what is committed.
5. `HistoryInv`: what a write could know was completed (`KnownIsCompleted`), and
   grows with the writes that calls and snapshots have seen (`FramesAreOld`,
   `SnapshotsAreOld`). `Lookups` carries it from the row to the item a reference is
   looked up in: from the moment the call for the reference has its item, that
   item was read after what the row could know. `PairOrigin` says where a call and
   the one it was made in come from.

`JsonSessionProofs` and `JsonAgreementProofs` prove, for any numbers of requests
and sessions and any length of the store,

* of all runs, with overlapping requests and failing ones, `RequestsAreHandledOnce`
  (`HandledOnce`) and `TypeCorrect` (`TypeOK`);
* of orderly runs, `WorkersAreAlone` (`orderly => OneWorkerAtATime`),
  `BrowserShowsVisiblePages` (`ClientMatchesServer`), `ShownPagesCanBeUsed`
  (`ShownAreRegistered`), and, if `SlowStart = FALSE`, `BrowserShowsSomething`
  (`PageIsShown`).

Only the last has a hypothesis on the constants. `session_overlap` shows that
`OneWorkerAtATime` does not hold of all runs, and with `SlowStart = TRUE` TLC finds
a settled browser without a page. Each action is first described by what it does
to its request and its session (`Sends`, `GetsSession`, `Handles`, ...), and `Step`
says that there are no other steps. The invariants are layered; the first four
hold of all runs:

1. `StateInv`, the shapes of the fields: a session that handles a request exists,
   an output that shows a page names one.
2. `HandledInv`: a request that has not been handled, and is no retry, has no
   worker; a session with a worker has a thread. A retry starts a worker only in
   a session without a thread, hence where there was none.
3. `ListsInv`: a page has the number of a request that was sent, and of two pages
   side by side the right one is newer. This survives everything that overlapping
   or failing requests do to the lists, which agreement does not, and so no list
   names a page twice.
4. `BrowserInv`: which requests a document waits for and which session its
   answers come from. `BaseInv` is all of these.
5. `AgreeInv`, of orderly runs. The invariant is `BaseInv /\ (orderly => AgreeInv)`
   and there are two kinds of steps to look at (`InOrder`): those of an orderly
   run, which keep `AgreeInv` (`Calm`), and the one by which a run becomes orderly
   (`RenewStep`), after which it holds whatever the lists were before
   (`RenewAgrees`). Its parts are
   * `OneInv`: one request is open, the one the document waits for. A session that
     the browser or this request can still get to (`Reach`) has no live worker but
     that of the open request (`LiveIsOpen`). Other sessions may have one: the user
     has a new session while a worker of the dropped one runs on;
   * `SessionInv`: the open request goes to the session of the browser, or that
     session is gone for good and the request is in a new one;
   * `BrowserAgrees` and `RequestAgrees`: before the open request is handled, the
     container is the list of the session, but for the pages that `closePage` has
     already taken away (`Ready`). After it is handled, the container *with the
     output applied* is (`Acted`). `Home` is the session this is claimed of,
     `OriginAgrees` that the worker there has the real input and not only *retry*.

What `GetAll` does with a list of pages of any length is shown with the smallest
page from which it could go wrong (`WellFoundedInduction` has the fact that there
is one), because rules of induction cannot be used here.

`DialogPolyfillProofs` proves, for any set of dialogs, any range of z-indexes and
any number of records, assuming `DialogAssumption` and `Hasty = FALSE`:

* `TypeCorrect`, `StackHoldsModals` (`StackIsModal`), `AlwaysWellStacked`;
* `NothingStaleBlocks` (`NoStaleModal`), `FocusStaysTrapped`
  (`FocusIsTrapped`), `CenteringEnds` (`CenteringIsUndone`);
* `PlaceIsKept` (`KeepsItsPlace`), an action property;
* `ImplementsTheTopLayer`: `Spec => ImplementsTopLayer`, the refinement.

The argument:

1. `StackInv`: the stack has each modal dialog once, fits into the range, and
   `Layered`: z-indexes are those of the place in the stack, and none for the
   other dialogs. The last part is not in any property, but without it a dialog
   that is pushed could bring an old z-index. `PushKeepsStack` and
   `DowngradeKeepsStack` show it for the only two ways the stack changes; every
   action is one of them or leaves the stack alone. `Splice` and `IndexOf` are
   the facts about removing an element of a sequence at its index.
2. `Noted`: a modal dialog that is not shown is known to some observer: it is
   in `changed`, or in `removed`, or still in `clone` during `checkDOM_`. This
   is why dropping the records with the last dialog does no harm (then no modal
   dialog is left), and in a quiet state it says that there is no such dialog.
3. The focus: a step that opens, covers or uncovers a dialog moves the focus to
   the top or out of the page; closing the topmost leaves the focus nowhere.
4. `TopIsUsable`: the dialogs in front of the overlay are exactly the topmost
   one, or all without overlay. With it, pushing is `Show` of `TopLayer`,
   removing from the stack is `Leave`, and every other step a stutter.

`EntityTableProofs` proves, for any set of threads, any contents, any length of
the lists and any number of updates, assuming only `EntityAssumption` (the types
of the constants, that None is neither a value nor a row nor an object, and that
the contents respect `MaxLength`):

* `TypeCorrect`, `StaysWhole` (`StoredWhole`), `CopiesStayTrue`
  (`CopiesAreTrue`);
* `WhatIsGivenIsStored`: `Spec => StoresTheObject`, an action property;
* `OptimisticLocking`: `Spec => ImplementsStore`, the refinement.

The argument:

1. `Locks`: no row is written by two transactions at once. Besides this the
   proof uses of the database what statements see, that a snapshot excludes
   writing rows that have changed since, and the keys.
2. `Older` and `TrueSoFar` say "a version determines the content" of a snapshot
   and of an object of which some tables have been read. They are kept by every
   commit, because an update has a greater version than everything before it
   (`UpdateCommitted`) and after a deletion there is nothing to compare with
   (`DeleteCommitted`). That the row is read first is why they hold for mixed
   objects: the version is never newer than the rest.
3. `Updating`: beyond `UpdateRow` the transaction holds the lock of the row, so
   what is committed is frozen and has the version of its copy. `ReplaceList`
   overwrites by position; `HasElements` says how far it has come, and
   `Filled(committed, size)` that the number of rows it counted before is still
   right when it deletes the rest.
4. `Deleting`: a deleter writes only deletions and takes the row last. If it
   does, the foreign keys have shown that nothing else is left; if it finds no
   row, another thread has deleted the entity and nothing is left either.
5. `Written` sums up what each transaction has written when it commits, from
   which `CommitKeeps` and, by `SameVersion`, the refinement follow. Steps other
   than commits stutter in `VersionedStore`.

The lemmas `ListOfFilled`, `FilledList` and `ListOfElements` relate the rows of
the list to the sequence that `SELECT ... ORDER BY position` returns.

Only model-checked: `EveryCallEnds`, `UiUnblocks` and `ReaddedBecomesNormal`.
They are liveness under fairness, which TLAPS cannot prove. All other properties
of the passing runs are theorems.

## 5. Findings

1. **A waiting thread throws a connection away** (`SqlRepository.java:266`,
   `pool_wait_discards`). The result of the timed poll is not assigned, though
   the comment above says to "wait till a connection is in deque".
2. **A failed commit of a nested transaction disorders the stack**
   (`SqlRepository.java:224`, `pool_nested_commit_fails`). The pop is skipped;
   the outer transaction then commits the wrong connection and reports success.
3. **Self references of codes can be cached as null**
   (`SqlRepository.java:597`, `cache_self_reference`).
4. **Two workers in one session** (`JsonPageManager.java:114`,
   `session_overlap`): after the *wait* answer the monitor of the session is
   free while its worker runs.

Three more things met while modelling contradict no document and are listed as
hazards: code classes that refer to each other in a circle can deadlock
(`Codes.java:84`); a slow first request leaves the browser blank, because the
*wait* answer carries no session id (`JsonPageManager.java:148`); a modal dialog
that is taken away and shown again by one script blocks the page
(`dialog-polyfill.js:453`).

## 6. Plan

Done: `TransactionPool` with `AtomicTransactions`, `CodeCache`, `JsonSession`,
`DialogPolyfill` with `TopLayer`, `EntityTable` with `VersionedStore`. Next, in
this order:

1. `CodeCachePool`: `CodeCache` composed with `TransactionPool`, for a thread
   that waits for a connection while it holds a monitor.
2. `EntityTable`: lists of entities with an id, and delete by criteria, whose
   statements (`Table.java:257-300`) are others than those of `deleteById`.
3. `SocketBackend`, `MemoryRepository`, `Historized`; then `History`, the wizard,
   and the pure algorithms as functions.
4. Theorems: `ConnectionsAreKept` when connections break, and what the modules
   above add.
