# WhatsApp tracker: specifications and proofs

The program follows the contacts of one or more WhatsApp accounts: it stores when
they are online, what they write, their pictures and stories, and shows it in a
dashboard. This directory holds TLA+ models of its Go server, of its web client and
of the demo, configurations for the model checker TLC, and proofs checked by TLAPS.

The modules are written from the code, not from its comments. Where the two differ
section 10 says so.

## 1. The system

| Component | State | Operations | Interacts with |
|---|---|---|---|
| Presence tracking: `internal/tracker/tracker.go` `onPresence`, `onChatPresence`, `onMessage`, `scheduleInferredOffline`, `cancelInferredOffline` | table `presence_events`, map `inferredOnline` of timers | events from WhatsApp, timer callbacks, `Stop` | database, hub, contact deletion |
| Connection and schedule: `internal/wa/client.go`, `runScheduleLoop`, `runPresenceRefreshLoop`, `internal/api/schedule.go`, `internal/db/schedule.go` | socket, `EnableAutoReconnect`, `forceOffline`, `scheduleSlots`, table `account_schedule_slots` | `Connect`, `SoftDisconnect`, `ConnectAll`, `PUT /schedule`, ticks | whatsmeow, worker life cycle |
| Accounts and pairing: `internal/wa/manager.go`, `TrackerManager`, `internal/api/auth.go`, `cmd/tracker/main.go`, `PairAccountCard.tsx` | clients, pending pairing, trackers, table `accounts` | QR, phone code, `OnPaired`, delete account, start | database, trackers, whatsmeow |
| Messages and history sync: `onMessage`, `internal/tracker/history.go`, `internal/db/analytics_write.go` | table `messages` | a live message, a history batch | aggregates, contacts |
| Aggregates and backfill: `analytics_write.go`, `cmd/analytics-backfill` | tables `analytics_*`, `app_meta.analytics_version` | the aggregate transaction, the chunks of the command | messages |
| Stories: `onStory`, `processHistoryStory`, `RepairStoryMessages` | table `stories` | a live story, a history batch, repair at startup | messages |
| Worker life cycle: `onConnected`, `stopWorkers`, `startSubscriptions`, `runResubLoop`, `Stop` | `running`, `wg`, back-off time | Connected, LoggedOut, Stop | all loops |
| Pollers: `internal/tracker/pollers.go` | latest picture and about text per contact | polls, rate-limit back-off | database, WhatsApp |
| Websocket hub: `internal/api/ws.go` | clients and their buffers | `Broadcast`, add, remove, pumps | everything that reports |
| HTTP API: `internal/api` | nothing but the signing key of its tokens | requests | database, managers |
| Statistics: `internal/stats`, `web/src/lib/sessions.ts`, `web/src/lib/presence-stats.ts` | none | pure functions of the log | timeline, panels |
| Web session: `web/src/lib/api.ts`, `ws.ts`, `App.tsx`, login and register pages | token in localStorage and in each tab's store, requests, socket | login, refresh, logout, 401, reconnect | API, hub |
| Web pages: contact, conversation, sidebar, accounts, schedule | query cache, zustand store, form state | queries, mutations, events, navigation | API, hub |
| Demo: `demo/src` | a mock server in the page, two simulators, copies of pages and statistics | the same | itself |
| Database layer: `internal/db/db.go`, `internal/crypto`, `cmd/migrate-encryption` | schema version, encrypted columns | migrations, statements | everything |
| Conversation analytics: `internal/analytics` | none | pure functions of messages | API |

The server is one process. Its SQLite database has one connection
(`SetMaxOpenConns(1)`), so statements and transactions of the process run one at a
time, and everything *between* two statements interleaves. whatsmeow delivers the
events of one account one after the other; history syncs, timers, pollers, loops
and HTTP requests are goroutines of their own. `cmd/analytics-backfill` is another
process on the same file. In the browser one handler runs at a time, and everything
between a request and its answer interleaves; localStorage is shared by tabs.

Hard behaviours, and what makes each component correct (the full list, at its
lines, is `hazards` in PROJECT.json):

- *Presence.* A timer that is reset or stopped while its callback is already
  running; reads that decide and inserts that follow; broadcasts in another order
  than inserts; a deleted contact whose timer is still set. Correct: nobody stays
  online by inference for ever; no session is opened inside a session; the timer
  map holds nothing stale; the dashboard ends up where the database is.
- *Connection.* Three callers of two functions without a lock, and a library that
  reconnects on its own. Correct: forced offline ends offline; what may be online
  comes back; slots mean the windows users think they mean.
- *Accounts.* One pending pairing, taken by whoever comes next, whose slot some
  failures never free; a first Connected that goes to the pairing handler. Correct:
  every client, tracker and handler is that of its account; pairing stays possible;
  accounts are tracked.
- *Messages.* Insert and aggregate are two transactions; contacts disappear in
  between; the backfill counts what it read earlier; crashes everywhere. Correct:
  every message of a contact is counted, once.
- *Hub and live view.* Full buffers, removal while broadcasting, lost connections,
  answers that are older than events. Correct: no send on a closed channel; what
  a page was told is among what it shows; badge and dot agree; polling makes good what was lost.
- *Session.* Refreshes and requests that are answered after a logout, a login or a
  reload. Correct: signed out stays signed out, no reload loop, no valid token lost,
  the socket follows the login.
- *Lists and forms.* Pages of a list that shifts while it is read, answers of
  mutations after the user has moved on, edits during a save. Correct: no row twice,
  none skipped, and at rest a page shows what the server has.
- *Statistics.* Midnight, zones, sessions that are open, repeated rows. Correct:
  the sums are those of the time really online.
- *Workers and pollers.* A logout only clears a flag, so the next Connected starts
  a second set of workers; sweeps overlap; check-then-insert races store a picture
  twice; a rate limit reached in one call must hold back the others.
- *Database.* Migrations and repairs interrupted half-way. Correct: run again, they
  reach the same state.

## 2. Plan

| # | Modules | Composes / implements | Status |
|---|---|---|---|
| 1 | `PresenceRows`, `SessionLog`, `Presence` | `Presence` implements `SessionLog` | done, proved |
| 2 | `Connection` | | done, safety proved |
| 3 | `Messages` | | done without stories, proved |
| 4 | `Pairing` | client manager, trackers, HTTP, browser | done, `ClientsAreTheirs` proved |
| 5 | `WebSession` | tabs, tokens, socket | done, safety proved |
| 6 | `Live` | hub, store, contact page; rows of `PresenceRows` | done, safety proved |
| 7 | `MessagesView`, `Sidebar` | infinite queries over shifting lists | done, safety proved |
| 8 | `Sessions`, `PresenceStats`, `Stats`, `DemoStats` | against reference definitions | done, proved |
| 9 | `Accounts`, `ScheduleForm`, `ContactPage`, `Demo`, `DemoAccounts`, `DemoSchedule`, `Pages` | pages of web client and demo | done, proved |
| 10 | `Workers` and pollers | shares the Connected event with `Connection` and `Pairing` | open |
| 11 | stories (insert and repair), migrations, re-encryption | | open |
| 12 | conversation analytics (`computeInitiation`, `longestStreak`) | against reference definitions | open |

The order is that of the harm done: presence is the product, the connection and the
pairing decide whether there is any, totals cannot be recomputed once wrong, and a
page that shows something else than the server misleads its user. Every safety
property that a passing run checks is proved, and of `ForcedGoesOffline`, which is
liveness, the half that is safety is.

Proofs are in modules of their own. Two of them hold the proofs of two components each
(`TrackerProofs`: presence and connection; `ClientProofs`: messages and pairing), and
`StatsProofs` those of statistics and sidebar, which share lemmas about cutting lists
into pages; `Connection`, `Pairing` and `Sidebar` prefix the names of their
specifications (`LinkSpec`, `PairSpec`, `BarSpec`) for that reason.

## 3. Presence

Three kinds of process write the log of a contact: the event handler (one at a
time), the callbacks of the inferred-offline timers, and `Stop`; the HTTP API
deletes and adds contacts underneath.

| Module | What it is |
|---|---|
| `PresenceRows` | rows of `presence_events`; which one `LatestPresence` returns (`ORDER BY observed_at DESC`, ties by row id) |
| `SessionLog` | what readers of the log rely on: a session is opened only while the latest row does not say "available" already, look and insert being one step |
| `Presence` | the code |
| `PresenceProperties` | what is checked and proved |
| `MCPresence` | symmetry for TLC |
| `TrackerProofs` | typing; the two invariants about timers; the refinement; the dashboard (and the proofs of section 4) |

**State.** `log` and `contacts` are tables. `inferredOnline` is the map,
`timer` the `time.Timer` objects it points to (and those it no longer points to),
`callback` the goroutines their functions run in, `handler` the event handler with
its local variables. `ctx` is the tracker's context; `"stopped"` means that `Stop`
has also cleared the map. `shown` is what a dashboard's `setLastPresence` keeps.
`basis` is a history variable: what the contact's present state rests on (a
message or typing, a real presence event, or both).

**Steps.** What is done under `inferredMu` is one action, one SQL statement is one
action, one broadcast is one action. The handler runs `cancel` (real presence
events only), `read`, `write`, `send`, `schedule` (messages and typing only);
a callback runs `fired` (delete the map entry), `read`, `write`, `send`. `time.Timer`
is modelled as Go documents it: `Stop` and `Reset` on a timer that has expired do
not touch the goroutine already started, and `Reset` re-arms it. Reads whose error
the code discards (`prev, _ :=`) yield the zero row (`HandlerReadFails`).

**Checked.**

| Run | Instance | Shows |
|---|---|---|
| `presence` | 1 contact, 2 timers, 2 callbacks at once, 3 events, 1 failing statement, 1 deletion, clock to 2 and on while a timer is armed, timeout 1 | `TypeOK`; `InferredCovered`: a contact online by inference has an armed timer, a callback whose row will count, or a handler on its way to arm one; `MapEntryLive`: no leftover in the map; `DashboardAgrees` |
| `presence_fair` | same without failures, with a last-seen time | `ImplementsSessionLog`; `InferredOnlineExpires` under fairness |

One contact is enough: the code of two contacts shares only the mutex, which is
inside single actions, and the handler, which is modelled with its contact. Two
timers and two callbacks are what an orphaned timer beside a mapped one needs;
three events let each kind of event meet each other. `InferredCovered` and
`DashboardAgrees` are stated for `faults = 0` because a failed insert is logged and
not repeated: with one, the code does lose the row. `DashboardAgrees` asks for rows
of distinct seconds: of two rows in one second the database takes the later, the
dashboard keeps the first.

**Fairness.** Go runs every runnable goroutine and fires every due timer, and time
passes: weak fairness of the handler's steps, of each timer, each callback and the
clock. Events, requests and `Stop` are never forced.

**Proved**, for all contacts, timers, callbacks, timeouts and bounds:

- `TypeCorrect`: `Spec => []TypeOK`.
- `MapEntriesLive`, `InferredStaysCovered`. `InferredCovered` alone is not
  inductive: that a callback's row *will be* the latest needs to know that no row is
  dated in the future (`Dated`), that the log has a latest row (`HasLatest`), that
  deleted contacts have no rows (`NoOrphanRows`) and that a real event under way has
  already taken the contact's inferred basis away (`RealBasis`); that Reset finds a
  timer of the contact needs `MapEntryLive`. Their conjunction is `CoveredInv`.
- `ImplementsLog`: with `MaxFaults = 0`, every step of `Presence` is a step of
  `SessionLog` or leaves the log alone. The invariant behind it, `OpensOffline`, is
  that what the handler has read is still so when it inserts "available": the other
  writers only ever end sessions. With a failing read it is false (the code opens a
  second session), which is why the theorem has the assumption.
- `DashboardsAgree` (`DashboardAgrees`). The property speaks of moments when nothing
  is under way; the invariant (`DashboardInv`) of all others: what the dashboard shows
  of a contact is a row, what is about to be broadcast is a row (`SendsRows`), and a
  row later than the one shown is still in the hands of the handler or of a callback
  that will broadcast it (`ShowsRows`). Broadcasts may then overtake each other: the
  store keeps the later of two, so the order does not matter. A deletion is excluded
  for a reason the proof shows: what is shown of a contact outlives its rows.

## 4. Connection

| Module | What it is |
|---|---|
| `Connection` | the code: `Connect`, `SoftDisconnect`, the loops, the PUT handler, restart |
| `ConnectionProperties` | what is checked and proved |
| `MCConnection` | three schedules for TLC |
| `TrackerProofs` | typing; slots as windows; a forced schedule that stays down |

**State.** `stored` is the schedule in the database, `memory` the tracker's copy,
`request` the PUT handlers between the two. `link` is the socket, `autoReconnect`
whatsmeow's flag, `redial` its own reconnect under way, `connected` an undelivered
Connected event. `pc` says where each caller of `Connect` and `SoftDisconnect` is:
`"main"` (`ConnectAll`), `"schedule"`, `"refresh"`; the two loops are `"off"` until
the first Connected. `want` is `applyScheduleNow`'s decision, taken a step before it
is acted upon. Neither function takes a lock, so each of their statements is an
action. The library (`Drop`, `Redial`) and the clock (`MinutePasses`) are external.

**Checked.** `connection` runs with a day of 3 "minutes", always-on, forced-offline
and a window over midnight as schedules, 2 schedules set, 1 failed dial, 2 breaks,
2 refreshes, 1 restart: every pair of callers meets at every statement. It checks
`SlotsAreWindows` and, under fairness, `ForcedGoesOffline` (once the tracker is told
"force offline" for good the link is down for good, whatever Connect or library
reconnect was under way) and `ComesBack` (the loops started, nothing in the
schedule against it: up again and again). A day of 3 has every order of start, end
and now; counters bound what the environment does, not the loops.

**Fairness.** Loops tick and calls return (weak fairness of each caller), a
Connected event is handled, a PUT that has stored goes on, the library's reconnect
succeeds in the end. That the network lets a dial succeed is part of the failure
bound. The refresh timer, users and breaks are not forced.

**Proved**, for every length of day and set of schedules: `ConnectionTypeCorrect`,
and `SlotsOpenAsWindows` (`slotContains` is the half-open window round the clock
that starts at `start` and lasts until `end`, the whole day when both are equal),
and `ForcedStaysDown`, the safety half of `ForcedGoesOffline`: when the link of a forced
account is down and nobody is on the way to raise it (`Resting`: no redial, no caller
in `Connect` or in the pause before it, no decision to connect), it stays so as long as
the account is forced. That it comes to rest in the end is left to TLC.

Not modelled: `Stop` in the middle of a loop, and the second set of loops that a
Connected after a logout starts (module `Workers`).

## 5. Messages

| Module | What it is |
|---|---|
| `Messages` | the code: receivers, backfill, contact deletion, crashes |
| `MessagesProperties` | what is checked and proved |
| `MCMessages` | the messages of the small instance |
| `ClientProofs` | typing; the three safety properties (and the proof of section 6) |

**State.** `row` is the `messages` table (stored, contact, derived columns filled),
`daily` the sum of `analytics_daily.messages` per contact; the other columns and
the word, emoji, domain, sticker and hour tables are written by the same
transaction and stand or fall with it. `receiver` is where `onMessage` and each
history sync are between the lookup of the contact, the insert and the aggregate
transaction. `backfill` is where each run of `cmd/analytics-backfill` is, with its
`lastID` and the chunk it has read; `done` is `analytics_version = 1`. `inserted`
says whether the tracker's connection has inserted anything: SQLite's last insert
row id, which an ignored insert leaves as it was.

**Steps.** Lookup, insert, transaction: one action each, with the failure of each.
A foreign key refuses an insert or a transaction for a contact deleted since. The
backfill reads the version, counts what is left, and alternates reading a chunk
(outside any transaction) and processing it (one transaction). Errors of its first
two reads are discarded by the code: the version reads as "not done", the count as
zero (`CountUnread`). `Crash` stops the tracker or one backfill at any point.

**Checked.** `messages`: 2 contacts, 4 messages of which 3 are older than the
totals, 2 receivers, 2 backfills, chunks of 2, 2 deliveries (of the same or of
different messages, stored already or not), 1 failure, 1 crash, 1 deletion.

- `NotUndercounted`: while nothing fails or crashes, no message with filled derived
  columns is missing from its contact's totals but those a receiver has in hand,
  whatever is deleted and re-added meanwhile and however many backfills overlap.
- `NotOvercounted`: while no message is delivered twice, no contact deleted and no
  backfills overlap, nothing is counted twice, whatever fails or crashes.
- `DoneLeavesNothing`: once the backfill is marked done it left no message out,
  whatever failed, crashed or overlapped, but for a failed count.

The premises are the code's limits, not convenience. A crash between insert and
transaction loses a count; a duplicate is counted again (section 10);
overlapping backfills both count a chunk both have read; a failed count ends the
backfill for good. 3 older messages and chunks of 2 give a full
chunk followed by a partial one; with one message delivered, an even number too.

**Proved**, for any contacts, messages, receivers, backfills and chunk size:

- `MessagesTypeCorrect`.
- `BackfillComplete` (`DoneLeavesNothing`). The invariant (`BackfillInv`) says of each
  backfill what it may rely on: everything left has an id above `lastID`; a chunk
  is what comes next, and one that is not full is all there is; a backfill about to
  mark has nothing left. It survives other runs and arriving messages because
  nothing ever becomes unprocessed again (`LeftShrinks`).
- `NothingUncounted` (`NotUndercounted`). The invariant (`CountInv`) adds that a
  chunk's messages are stored and have the contact read with them or none
  (`ChunkCurrent`), so what a chunk makes analysed it also counts, and that only
  existing contacts have messages (`Linked`), so a refused transaction loses nothing.
- `NothingCountedTwice` (`NotOvercounted`). The invariant (`OnceInv`) adds that
  without overlaps only one backfill runs (`Alone`) and that its chunk is then still
  unprocessed (`ChunkFresh`).

Assumptions of all proofs are the named ASSUMEs of the modules: bounds are natural
numbers, "no value" is not a contact or timer, messages and receivers are finite
sets (cardinalities are compared), chunks and days have a positive length.

## 6. Pairing

| Module | What it is |
|---|---|
| `Pairing` | the code: client manager, pairing flows, OnPaired, trackers by account, deletion, restart, the browser's card; and what is checked of it |
| `ClientProofs` | `ClientsAreTheirs` for any instance |
| `MCPairing` | the instance |

**State.** A client stands for its whatsmeow device and for the JID it gets. `rows` is
the `accounts` table, `device` and `link` what WhatsApp and the socket make of a
client, `handler` the function its events go to, `pending` the one pairing slot,
`byID` the manager's clients, `tracker` and `running` the trackers. `flow` is the
pair of goroutines of a QR flow, `phone` a `PairPhone` call, `callback` the
goroutine of `OnPaired`, `removing` a DELETE between the manager and the table,
`phase` how far a start of the program is. `asked` and `code` are the browser's.

**Steps.** What is done under `pendingMu` is one action, with one exception: the
cleanup of a flow decides that its client is not logged in and closes it in two
(`CleanupChecks`, `CleanupCloses`), because the scan of a code may come in between.
A login takes several round trips and is assumed not to fit there (`LogsIn`).
`OnPaired` inserts, registers and starts in three steps, and `RegisterPaired` takes
whatever is pending by then. `Load` adopts the first device of the store when there
are no accounts, as `main` does.

**Checked.** `pairing`: 2 devices, ids up to 2, one failure, one break, one deletion,
one restart. `ClientsAreTheirs`: client, tracker and handler of an account are those
of the JID in its row, except for an id that belonged to an account deleted by this
process. `SlotComesBack`: a QR pairing frees its slot unless the insert failed.
`StartedAreTracked`: an account found at the start is tracked unless it cannot be
reached. Two devices let a second pairing meet the rest of the first; a third would
need a third slot. `pairing_tracked` refutes, without failures, breaks or restarts,
that a newly paired account is tracked (section 10).

**Fairness.** Goroutines run, the three minutes of a flow pass, the library's login
goes through, a start goes on. Requests, scans, breaks and restarts are not forced.

**Proved.** `PairingClientsAreTheirs` (`ClientProofs`), from `NobodyAssumption` and
`PairBounds` alone. The property is not inductive: that `RegisterPaired` takes
its own client out of the slot has a reason far from it. `PairingInv` says that a
client which may still call `OnPaired` keeps the slot (`Hopes`: its handler is the
pairing's, it has not fired, and it is logged in, about to be, or waits for the scan of
its code), and so does one whose callback runs (`Callbacks`); that the two steps
which free the slot without registering do so for clients that cannot log in any more
(`Closing`, `Phones`); and that neither a tracker nor a start of the program dials a
client that waits for its pairing (`Handlers`). The rest says what is true of a device not
created or not logged in (`Unused`, `Early`). A row is inserted at an id that had
none (`NextIdFree`, by counting), so no row changes hands. The guard of
`LogsIn`, that no login fits between the check of the cleanup and its close, is an
assumption the proof needs.

## 7. Session and live view of the web client

| Module | What it is |
|---|---|
| `WebSession`, `WebSessionProperties`, `MCWebSession`, `WebSessionProofs` | tokens, requests and socket of the tabs of one browser |
| `Live`, `LiveProperties`, `MCLive`, `LiveProofs` | a presence row from the database to badge and dot |

**Session.** A token is its expiry, for the server keeps nothing about it: `stored`
is localStorage, `doc` a tab's store and path, `req` its request of each kind (with
the refresh that may precede it), `socket` its websocket. Assigning
`window.location.href` unloads the page in the same step. `cause` and `signedOut`
are history. `web_session` runs one tab over a token life of 2 with a margin of 1,
2 forms, 1 visit, 1 backup, 1 failure; the proofs are about any number of tabs.

- `SignedOutStays`: after a logout with no refresh under way no token comes back
  before somebody logs in.
- `NoReloadLoop`: a tab is forced to `/login` only if the user did something in it or a
  new token was stored since it last was.
- `ValidTokenKept`: a valid token is thrown away only by the user, by a wrong
  password, or by the refusal of a request older than the token.
- `SocketFollowsLogin`: once somebody has logged in, the socket connects, although it
  found no token before (fairness: connections open or fail, timers fire).

**Proved** for all tabs, lifetimes and bounds: typing and the three safety properties,
from one inductive invariant (`SessionInv`): a signed-out browser has no refresh
under way (`OutInv`); a tab without a cause holds nothing the server could refuse
(`CalmInv`); what is under way carries the stored token or was overtaken by it
(`FreshInv`).

**Live view.** `rows` are `presence_events` in order of insertion; `pending` those not
broadcast yet; `clients`, `leaving`, `closed`, `send` the hub; `entries` and `last` the
store; `timeline`, `fetch` and `failed` the query of the contact page. `Broadcast` drops an
event for a full buffer, `Drop` everything a connection holds; the hub learns of a
lost connection later. `live`: 1 contact, 2 rows, 2 connections (the old one is still
registered when the new one comes), a buffer of 1, 2 pages opened, 1 fault.

- `ShownStays`: whenever the page shows entries, all it was told live is among them,
  though an older answer comes. A page shows none while the last request is one that
  failed (`failed`): `tl.error` hides also what the cache still has, until a request
  succeeds (section 10). What came before and meanwhile is there again then.
- `HeaderIsSidebar`: the badge, computed from merged entries, and the dot, kept in the
  store, agree, as long as no two rows fall into one second.
- `NoSendOnClosed`: the hub never sends on a channel that was closed.
- `PageCatchesUp`: an open page ends up showing entries, and where the database is,
  whatever was lost or failed (fairness: the poll's interval fires, requests are
  answered).

**Proved** for all contacts, connections, buffers, rows and faults. `LiveNoSendOnClosed`:
a connection is in at most one of `clients`, `leaving`, `closed` (`OneStage`).
`LiveShownStays` and `LiveHeaderIsSidebar` rest on one invariant, `LiveInv`, about what
the dashboard *knows* of a contact, which is what came live and the presence in its
store: all of it is stored (`KnownStored`); a loaded page has it in its answer or in its
live entries, and so has an answer that was read already and is on its way
(`KnownKept`); an answer contains the one before (`AnswersGrow`), so that nothing is
pruned from the entries but what the next answer has; and the store's presence is not
before anything the page shows (`LastIsLatest`). The second property needs one lemma
more: the first of the latest entries is the same whether it is looked for in the
merged list or was kept on the way, as long as seconds are distinct.

## 8. Lists and pages

| Module | What it is |
|---|---|
| `MessagesView`, `MessagesViewProperties`, `MCMessagesView`, `MessagesViewProofs` | the conversation page: paging backwards, the request for older history, its flag and its timer |
| `Sidebar`, `MCSidebar`, `StatsProofs` | the list of contacts: pages by number over a list that shifts |
| `Accounts`, `ScheduleForm`, `ContactPage` | the pages that write: accounts, schedule panel, contact |
| `Demo`, `DemoAccounts`, `DemoSchedule` | their copies over the demo's mock server, with the demo's list of contacts and its chat, both page by page |
| `Pages`, `MCPages`, `PagesProofs` | one page is open, and its state moves |

All share the query library's rules, modelled as far as the pages use them: a first
load that is invalidated goes on, any other fetch is cancelled; equal data keep their
identity, so effects on them do not run; data of closed pages become stale and are
forgotten later. A request is served in one step and answered in a later one; the
server's statements inside a request are steps of their own (`PATCH` is an update and
a read, the list of contacts a count and a read).

**Conversation.** `view` holds the pages, the fetch, `waState`, the refs `fetching` and
`extra`; the effect on `[hasNextPage, isFetchingNextPage]` runs in the step that
changes them, as React does before another event. `messages_view`: timestamps 1 to 3,
2 messages per second, pages of 2, every initial table of up to 4 messages, 2 later
ones, 2 requests to WhatsApp, 1 failure: full, partial and empty last pages occur.
`NoDuplicates`; `NoHoles` (distinct seconds, pages not outdated); `LoadingEnds`
(fairness: answers, timers), which exempts the empty last page of section 10. That a wait
for WhatsApp always has a POST or a timer that ends it (`WaitIsWatched`) is only proved.

**Proved** for any timestamps, messages per second and page size: `ViewNoDuplicates`,
`ViewNoHoles`, `ViewWaitIsWatched`. What `ListMessages` returns is characterised first
(`ListMessagesSorted`: stored messages before the bound, newest first, none left out
that is newer than one returned), by counting the messages not older than each. The invariant `ViewInv` then says that the
pages shown and the pages a refetch is building are both in order, without a hole while
the table did not change under them, and that the cursor of a fetch is the last
timestamp of the pages it will extend, since whatever changes those starts another
fetch. Without the last part a page could be appended behind a hole.

**Sidebar.** `sidebar`: 4 contacts, pages of 2, 2 changes, 1 event, 1 failure.
`MoreContinues`: on a table that stays the same, more pages keep an exact list exact.
`SidebarCatchesUp`: once contacts stop changing, the list becomes the server's
(fairness: the 30 s poll, requests). Events are bounded because a stream of them
without end does starve the refetch.

**Proved**: `MorePagesContinue` (`MoreContinues`), for any contacts and page size. The
order of the table is characterised by counting (`NewestIs`: each contact once, greater
ids first), a page as the part of that order between two multiples of the page size.
The invariant `BarOk` says what a fetch under way asks for: the button's always the
page behind those that are there. If the pages shown are exact, they are full when there
is more, so that page begins where they end.

**Pages.** `pages`: 2 accounts and 2 contacts. Accounts page: 2 writes, 1 lapse (a
change by another browser, a failed request). Schedule panel: 3 edits, 2 saves, 1 failed
request. Contact page: 1 write, 1 lapse (a change by others, an event, a failed request).
Demo: 3 writes on its accounts page; on its contact pages 1 account, 2 contacts, pages of
1 contact and of 1 message, at most 2 pages of contacts, 1 message stored, and 1 act (a
write, or a presence or message of a simulator). One act is enough for an answer before
it to arrive after it, for a page to be read before and the next after it, and for a
button to cancel the refetch it starts; more of them, larger pages and several accounts
are the theorems' part.

The demo's chat (`Demo.Messages`, `LoadOlder`) asks for the 50 newest messages before a
time, its list (`ListContacts`, `More`) for a numbered page of 50. A refetch reads
the pages one after the other, each in a step of its own; what changes between two of
them restarts it if it invalidates the query while it is on the page. The button for the
next page cancels a refetch (`Further`); then the query shows pages of before the change
until the next refetch, which the history variable `cut` marks. The simulators
write in one step with the event they emit, as one callback does.

- `ListIsServer`: at rest, the accounts page shows the server's accounts, unless two
  writes to one account overlapped or a change was not heard of.
- `FormIsSaved`: a clean schedule panel at rest is the server's schedule, unless it was
  edited during a save, or a save of an earlier form failed.
- `OpenIsServer`: the header and the list agree with the server about the open contact
  once both queries have read it, unless two changed it at once.
- `PagesShowServer` (demo): a list at rest shows the first contacts of the account, as
  many pages of them as it has, each once, with tracking and total; the chat the newest
  messages, as many pages as it has, each once; the open contact its tracking and the
  whole timeline. Writes may be under way, requests end in any order, and an answer
  holds the server's own objects. Exempt are what a cancelled refetch left, a header
  that such a list put into the store, and a chat with messages of one second, which a
  page by time can cut (section 10).
- `DotIsLatest`, `AccountsShown` (demo): no fetched timeline takes an event of the feed
  back; the accounts page at rest shows the accounts.

The history variables `seen`, `lapses`, `raced`, `edited` only serve to name the
exceptions; each exception is one the code really has (section 10). The pages share no
state that is modelled, which is why one open page at a time is enough.

**Proved** (`PagesProofs`), for any accounts, contacts, schedules, writes, edits, faults
and events: all six. Each page has its own inductive invariant, and all have one shape:
every copy of what the server has (an answer on its way, a query's data, the store, a
form) is as the server has it, or as a later copy that will overwrite it, or there is a
reason, which is a query or a write under way or something the page was not told of.

- `ListInv` (accounts): a list read is as the table unless a served write, still
  unheard of, explains the difference (`ReadFits`, `ShownFits`); the store is as the
  data or as the table, or such a write explains it (`StoreFits`); a reply is as the
  table unless others wrote the account (`Replies`); ids are not given out twice.
- `FormInv`, `PlanInv` (schedule panels): of the saves under way only one is of this
  opening, and it is of what the form says (`OwnSaves`); a clean form is as the data or
  as what was saved, and then the data will follow (`FormFits`).
- `PageInv` (contact): the store's contact is as the table, or as a query's data, or a
  write that the server began to serve will put its answer there (`HeaderFits`); the
  table only loses contacts, so a list that was read never lacks one of it.
- `CopyInv`, `RowsInv` (demo): an infinite query that missed nothing, at rest or about
  to read the next page, holds page i of the server's list at place i, and so do the
  pages a refetch has built, unless the query is on no page (`Reads`, for list and chat
  alike: `ListFits`, `ChatFits`). That a page asked for before the oldest message shown
  is the next page follows by counting (`NewestIs`), and that numbered pages are
  disjoint and together an initial part from arithmetic (`PageOf`). Of n entries of a
  contact the timeline and the live events have all (`EntriesFit`); the store's contact
  is as the server's, or as a timeline that is asked for again, or marked stale
  (`TrackingFits`); a new contact gets an id that none has (`NewIdIsNew`).

The proof attempts corrected two statements. `ListIsServer` was false beyond the bounds
of the run, with three writes and a lapse: an account is switched off and on again, the
answer of the second write is lost, and the list read back equals the one cached
before, so that the effect does not run and the store keeps the first answer; a third
write then makes the page forget that it had missed something. The model now counts
that account as raced (`Unread`). `PagesShowServer` had the premise that no write is
under way, which the proof did not need, and which is gone.

## 9. Statistics

| Module | What it is |
|---|---|
| `Sessions` | `sessions.ts`, the recent sessions of the status card |
| `PresenceStats` | `presence-stats.ts`, the panel, the heat map |
| `DemoStats` | the demo's copies, which are the same functions |
| `Stats` | the log as it grows, the paged timeline, the server's `internal/stats` |
| `StatsProperties`, `MCStats` | the reference definitions; a small calendar |

The functions are operators on sequences of rows, in the order and with the ties of the
code's stable sorts. `stats` runs them on every log of up to 4 rows over 6 instants, in
UTC, one zone ahead and one half an hour behind, with days of 2 hours of 2 units and
weeks of 3 days: every row of every kind falls on, before and after midnight. The
reference is `OnlineTime`, the set of moments at which the latest row says
"available".

- `SectionsFaithful`: the web client draws each UTC day on its own
  (`PresenceDaySection.tsx`), so the claim is about one day's section against the whole
  log: from the day's first presence row on, every moment online is inside one session,
  no session lies over a moment that is in none of the log's, no gap over a moment
  online; pictures and about texts of the day appear once and in order. Before its first
  row a day shows nothing, and of moments after the day nothing is claimed: sections do
  draw there (section 10).
- `BlocksFaithful`: the demo's timeline is one for the whole log, and there every moment
  online is drawn inside one session and no other moment but short gaps.
- `LocalClock`: hour and weekday charts add up to the time online and use the local
  clock, while no row repeats the state before it.
- `DaysAreExact`: the server's sums per day are exact in every zone; the browser's heat
  map in UTC, and its longest pause is the longest between two active days.
- `DaysListed`: the pages of the timeline list every day with a row, once.

**Proved** (`StatsProofs`), for every log, however long, every calendar (length of day,
hours, weeks), every zone and page size:

- `LogIsOrdered`: rows are stored in the order of their time, between the start and now
  (`LogOk`). Everything below is a fact about any log in that order.
- `DaysAreListed` (`DaysListed`). The invariant `DaysOk` keeps the pages loaded a part of
  the list of all days: a page is the largest days below its bound in descending order
  (`PageIs`), and new rows can only add days at the top.
- `ChartsAreExact` (`LocalClock`). The sessions of a log without repeated states are
  spans without a common moment that cover the time online; cut at the hours and at
  midnight of a zone they are slices each inside one hour; so the sum of a bucket is the
  number of moments online in it, and the charts add up.
- `SumsAreExact` (`DaysAreExact`): the server's day sums in every zone, the heat map in
  UTC, and the longest pause between two active days.
- `BlocksAreFaithful` (`BlocksFaithful`, the demo's timeline of the whole log) and
  `SectionsAreFaithful` (`SectionsFaithful`, the web client's of a day), for any two thresholds of which the one for
  showing a gap is not above the one for merging. It follows `buildBlocks` fold by fold,
  with what each has made of the first i elements stated for every i:
  - The sessions paired up are the runs of "available" rows (`PairedAfter`, `PairedIs`):
    a session starts with the row that opens its run and ends with the next
    "unavailable"; only the last may be open.
  - Merged, they show a moment exactly when it is in a session or in a pause short
    enough to be merged over, and the pauses left are long (`MergedAfter`, `MergedIs`).
    The reference, `InSession`, says the same of a moment by its neighbouring rows
    (`InSessionIs`).
  - Gaps go only where nothing is shown, and each moment is drawn by as many sessions
    as before: one or none (`SpacedAfter`, `SpacedIs`, with `Tally` for the number).
  - Events are put behind the blocks that start no later; the list stays sorted, its
    events are those of the log in their order, and its other blocks are kept
    (`PutAfter`, `InterleavedIs`).
  - The reversal, and the gap until now at its head (`BuiltIs`, `FaithfulIs`).

  All this is one lemma about any rows in order (`BuiltFaithful`). The demo's copy
  computes the same blocks of the whole log (`DemoBlocks`). A section computes them of
  the rows of one day (`SectionIs`), which lie between two midnights, so that a row of the
  log between two of them is one of them (`DayWithin`, `DayFacts`): up to the end of the
  day a session of the day is one of the log (`DaySession`), and who is online in the
  log after the day's first row is online in the day (`OnlineOfDay`). Besides `LogOk` this needs
  `StatesOk`: a presence row says "available" or "unavailable". The code
  passes over a row that says anything else, where `Pair` takes it for "unavailable";
  `StatesOk` is why the two are the same.

What `FoldLeft` and `Reverse` compute is not taken from an induction theorem with an
operator parameter. `FoldTheorems` has the operator of the fold as a CONSTANT and is
instantiated once per fold (`Place`, `Restart`, `Apply`, `Join`, `Pair`, `Merge`,
`Space`, `Put`); it proves
`FoldLeftSteps` (a fold over a sequence is the last of a chain of steps) from the
library's induction over sets, whose parameter is a set of numbers: those at which the
statement holds. The state's pages, buckets and spans are then reasoned about along
that chain. The assumptions are `NullAssumption`, `ZonesAssumption`, `MonthAssumption`,
`CalendarAssumption`, `PagesAssumption`, `GapsAssumption` and `KindsAssumption`: "no
value" is not an instant, zones are whole numbers, the lengths of pages, hours, days,
weeks and months are positive, the thresholds are in the order of the code's (120 s and 30 s), and
presence rows have the two states the tracker inserts (`tracker.go:439-461`, 502, 539,
768).

To be reasoned about, the operators of `Sessions`, `PresenceStats` and `Stats` that fold
over rows name the operator they fold with.

Left out: daylight saving, values that are only drawn (the consistency score, the mean
of the sleep window), texts and colours.

## 10. Disagreements met while modelling

One is a run that TLC refutes, with its quotation in `findings` of PROJECT.json:
`pairing_tracked`. A newly paired account's first Connected goes to the pairing
handler (`internal/wa/manager.go:153-165`); the tracker attached afterwards hears
none and starts nothing until the connection breaks or the program restarts.

The others follow from reading the code together with the models; the properties
above name them as exceptions.

*Presence and connection.*

- A timer callback that has started stores "unavailable" after a real event said
  "available" (`tracker.go:530`; the comment at 554 says the real status wins).
- Typing during a session WhatsApp reported arms the timer that ends it
  (`tracker.go:513`; the comment at 518 restricts it to hidden contacts). Handler
  and callback may both store "unavailable".
- A restart does not load the stored schedule (`cmd/tracker/main.go:187`,
  docs/database.md:304): an account stored as forced offline stays online.
- Two concurrent PUTs of a schedule commit in one order and reach the tracker in the
  other (`internal/api/schedule.go:61`).
- The refresh loop reconnects an account forced offline during its pause
  (`tracker.go:1036`, against 1069).
- A first connect that fails is never retried (`internal/wa/manager.go:134`).

*Messages.* A message delivered twice is counted twice, since LastInsertId is that of
the previous insert (`analytics_write.go:74`, against :15). A backfill whose count
fails marks itself done (`cmd/analytics-backfill/main.go:59`).

*Accounts.*

- `accounts.id` has no AUTOINCREMENT and `TrackerManager.Remove` is never called: a
  deleted account's id may come back, with the old tracker and its old client
  (`tracker.go:60-69`). Until then that tracker reconnects its client
  (`auth.go:124`).
- An account deleted while its device could not be: the next start, without
  accounts, adopts the device as "Default". One deleted between `InsertAccount` and
  `RegisterPaired` leaves a client without a row.
- A failed `InsertAccount` (`main.go:135`) and a phone code that is never entered
  (`manager.go:219`) keep the pairing slot for ever.
- Two goroutines range over one channel of QR codes (`manager.go:195`, `auth.go:52`),
  so that only some codes reach the browser (docs/api.md:204).
- docs/api.md says `trackingEnabled` and `pageSize` where the code has
  `trackingActive` and `limit`; PATCH of an account answers that it is not connected
  (`auth.go:107-113`).

*Web client.*

- A refresh under way at a logout signs the browser in again; a data request
  overtaken by a new token and refused clears that token (`api.ts`).
- `Messages.tsx`: the 15 s timer is never cleared and may end a later wait (141); any
  history sync of the account is taken for the answer (100); an empty last page
  leaves the page loading; messages of one second at the edge of a page are lost
  (`queries.go:526`); the text is cleared before a send succeeds
  (`MessageInput.tsx:21`).
- `SchedulePanel.tsx`: edits made during a save or a refetch are overwritten
  (31-37, 41-44); a GET that fails shows an editable blank schedule (64).
- `Accounts.tsx`: a row whose switch is written twice stays as the first answer said if
  the second is lost and the list read back equals the one before: the query library
  keeps the old data and the effect that fills the store does not run.
- `ContactDetail.tsx`: a refetch in the background that fails hides badge and entries
  behind its error, though the cache has them, until a later one succeeds (143-148); a
  pending deletion gets the handlers of the contact opened
  meanwhile (63-71), and it navigates to a path no route matches; a stale cached
  timeline puts an old contact into the store (83-85).
- `AppSidebar.tsx`: pages cut from a list that shifts repeat or skip contacts until
  the next refetch; contacts added in one second have no fixed order.
- `presence-stats.ts`: trend and heat map cut days at local midnight and look them up
  by UTC date (65-94, 395-407); zones off by half an hour shift hours; the streak
  counts only days on which a session ended (158-193). `ActivityTimeline.tsx:46`
  freezes its first bound, so newer days do not appear.
- `PresenceDaySection.tsx:42-53` draws each UTC day from its own rows: a session over
  midnight is open "until now" in the first day, however old, and missing from the
  second; a day that ends offline gets a gap "until now" at its head.

*Demo.* A simulator stops for good when its account has no contacts (`ws.ts:44`, 73);
the id of a deleted contact comes back (`mockData.ts:100`); deleted accounts keep
getting events. "Load older" (`Messages.tsx:134-137`) and the button for more contacts
(`AppSidebar.tsx:314`) are off only while a next page is fetched, not during a refetch:
they cancel it, so that a message just sent or received, or a change to a contact, stays
out of sight until the next invalidation or poll; a list of that kind puts old contacts
into the store (`AppSidebar.tsx:161-163`), and after it pages may overlap. Messages of one
second at the edge of a page are lost (`api.ts:207`).

## 11. Only model-checked, and not modelled

Proved are the theorems listed in PROJECT.json, from the named ASSUMEs of their
modules. Only model-checked: all liveness (`InferredOnlineExpires`,
`ForcedGoesOffline`, `ComesBack`, `SocketFollowsLogin`, `PageCatchesUp`, `LoadingEnds`,
`SidebarCatchesUp`, `SlotComesBack`, `StartedAreTracked`), since the prover does not
reason about fairness and ENABLED. Every other property of the passing runs has a
theorem. The invariants behind the theorems were first
checked by TLC on small instances. The library's induction theorems cannot be used with
an operator; what is proved about data by induction is proved through sets of numbers
(section 9).

Not modelled yet: rows 10 to 12 of the plan. Not to be modelled: text features
(`tokenize.go`, `lexicon.go`: word lists without state), rendering and vendored
components (`components/ui`), configuration, deployment, and the demo's canned
analytics and the rotation of its pairing card. Left out of what is modelled: `Stop`
in the middle of a loop, LoggedOut, setup, export and file downloads; in the demo the
search field (a query of its own per text), the invalidations a history sync makes,
which are refetches like a poll, and that the library forgets an unused query after
five minutes.

## 12. Running

    tlc -config MCPresence.cfg MCPresence        # likewise the other .cfg files
    tlapm TrackerProofs.tla                      # likewise the other *Proofs and FoldTheorems

Each run takes at most about two and a half minutes with two workers. CHECK_DEADLOCK is off in
every configuration: events, requests, messages and clicks run out in the bounded
instances, as they may in the program.

Definitions introduced by "Mutant:" are plausible mistakes in the definition that
follows them; each property is known to
fail with the one PROJECT.json names.
