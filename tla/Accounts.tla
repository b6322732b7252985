-------------------------------- MODULE Accounts --------------------------------
(***************************************************************************)
(* The accounts page: the list of web/src/pages/Accounts.tsx, its switches,*)
(* labels and delete buttons, against the accounts of the server.          *)
(*                                                                         *)
(* What is shown lives twice, in the query cache (data) and in the store;  *)
(* an effect copies data into the store when data changes, and the answer  *)
(* of a write goes into the store directly and invalidates the query.  The *)
(* server handles PATCH as two statements.  Requests are answered in any   *)
(* order.                                                                  *)
(*                                                                         *)
(* The query library keeps the old data if new data is equal to it, goes   *)
(* on with a first load that is invalidated, and cancels any other fetch.  *)
(* Its one retry is a fetch whose answer takes longer.                     *)
(***************************************************************************)
EXTENDS Naturals, FiniteSets, Functions

CONSTANTS Ids,          \* accounts that may exist
          Labels,       \* labels an account may have
          None,         \* no data, no answer
          MaxWrites,    \* bound: PATCH and DELETE requests
          MaxLapses     \* bound: changes that are not this page's, and requests that fail

\* What the constants are.
AccountsBounds ==
  /\ \A S \in SUBSET Ids :
       None \notin [S -> [active : BOOLEAN, label : Labels, connected : BOOLEAN]]
  /\ MaxWrites \in Nat /\ MaxLapses \in Nat

VARIABLES
  accounts, \* the accounts table: a function on the ids it holds
  online,   \* accounts whose client is connected
  page,     \* the page, its query and the store's accounts
  writes,   \* PATCH and DELETE requests under way
  seen,     \* history: what the page did not hear of
  used      \* writes and lapses so far, and ids taken

vars == <<accounts, online, page, writes, seen, used>>

-----------------------------------------------------------------------------
Stored == [active : BOOLEAN, label : Labels]

\* An account as the page has it.
Shown(s, connected) == [active |-> s.active, label |-> s.label, connected |-> connected]

\* handleListAccounts: every account, with its connection.
ListAccounts == [i \in DOMAIN accounts |-> Shown(accounts[i], i \in online)]

\* What a PATCH changes, and nothing else.
Changes == [field : {"active"}, value : BOOLEAN] \cup [field : {"label"}, value : Labels]

Changed(s, c) == [s EXCEPT ![c.field] = c.value]

Without(list, id) == Restrict(list, DOMAIN list \ {id})

\* upsertAccount.
Upsert(list, id, a) == [i \in DOMAIN list \cup {id} |-> IF i = id THEN a ELSE list[i]]

NoFetch == [pc |-> "idle", list |-> None]
Asked   == [pc |-> "asked", list |-> None]

\* The page's list: the store's accounts unless it has none.
List == IF DOMAIN page.store # {} THEN page.store
        ELSE IF page.data # None THEN page.data ELSE page.store

\* The effect on [accountsQ.data], in a page p that is mounted.
WithData(p, data) ==
  [p EXCEPT !.data = data,
            !.store = IF p.mounted /\ data # p.data THEN data ELSE @]

\* invalidateQueries(["accounts"]).
FirstLoad(p) == p.data = None /\ p.fetch.pc # "idle"

Invalidated(p) ==
  IF p.mounted /\ ~FirstLoad(p) THEN [p EXCEPT !.fetch = Asked, !.failed = FALSE] ELSE p

\* History: a first load that was answered before an invalidation misses it.
Heard(p, s) ==
  [s EXCEPT !.missed = IF p.mounted /\ ~FirstLoad(p) THEN FALSE
                       ELSE @ \/ p.fetch.pc # "idle"]

Fault ==
  /\ used.lapses < MaxLapses
  /\ used' = [used EXCEPT !.lapses = @ + 1]

Elsewhere(ids) ==
  /\ used.lapses < MaxLapses
  /\ used' = [used EXCEPT !.lapses = @ + 1, !.ids = @ \cup ids]

Nothing == [i \in {} |-> None]

Init ==
  /\ accounts \in UNION {[S -> Stored] : S \in SUBSET Ids}
  /\ online \in SUBSET DOMAIN accounts
  /\ page = [mounted |-> FALSE, store |-> Nothing, data |-> None,
             fetch |-> NoFetch, failed |-> FALSE]
  /\ writes = {}
  /\ seen = [missed |-> FALSE, raced |-> {}]
  /\ used = [writes |-> 0, lapses |-> 0, ids |-> DOMAIN accounts]

-----------------------------------------------------------------------------
\* The query.

\* The effect runs on mount with the cached data; then the page asks, or waits
\* for what an earlier visit asked.
Mount ==
  /\ ~page.mounted
  /\ page' = [page EXCEPT !.mounted = TRUE,
                          !.store = IF page.data # None THEN page.data ELSE @,
                          !.fetch = IF @.pc = "idle" THEN Asked ELSE @,
                          !.failed = FALSE]
  /\ seen' = [seen EXCEPT !.missed = IF page.fetch.pc = "idle" THEN FALSE ELSE @]
  /\ UNCHANGED <<accounts, online, writes, used>>

Unmount ==
  /\ page.mounted
  /\ page' = [page EXCEPT !.mounted = FALSE]
  /\ UNCHANGED <<accounts, online, writes, seen, used>>

\* Five minutes after the last visit the cache forgets; the store does not.
Forget ==
  /\ ~page.mounted
  /\ page.fetch.pc = "idle"
  /\ page' = [page EXCEPT !.data = None]
  /\ UNCHANGED <<accounts, online, writes, seen, used>>

ServeList ==
  /\ page.fetch.pc = "asked"
  /\ page' = [page EXCEPT !.fetch = [pc |-> "answered", list |-> ListAccounts]]
  /\ UNCHANGED <<accounts, online, writes, seen, used>>

ListArrives ==
  /\ page.fetch.pc = "answered"
  /\ page' = [WithData(page, page.fetch.list) EXCEPT !.fetch = NoFetch]
  /\ UNCHANGED <<accounts, online, writes, seen, used>>

ListFails ==
  /\ page.fetch.pc # "idle"
  /\ Fault
  /\ page' = [page EXCEPT !.fetch = NoFetch, !.failed = TRUE]
  /\ UNCHANGED <<accounts, online, writes, seen>>

-----------------------------------------------------------------------------
\* The switch, the label and the delete button of a row.

Write(id, op) ==
  /\ page.mounted
  /\ id \in DOMAIN List
  /\ used.writes < MaxWrites
  /\ used' = [used EXCEPT !.writes = @ + 1]
  /\ writes' = writes \cup {[n |-> used.writes, id |-> id, op |-> op,
                             pc |-> "sent", reply |-> None]}
  /\ seen' = [seen EXCEPT !.raced = IF \E w \in writes : w.id = id THEN @ \cup {id} ELSE @]
  /\ UNCHANGED <<accounts, online, page>>

\* The switch asks for the opposite of what is shown; the label is free text.
Toggle(id) == Write(id, [field |-> "active", value |-> ~List[id].active])
SaveLabel(id, l) == Write(id, [field |-> "label", value |-> l])
Delete(id) == Write(id, [field |-> "delete", value |-> None])

At(w, pc, reply) == (writes \ {w}) \cup {[w EXCEPT !.pc = pc, !.reply = reply]}

\* handlePatchAccount: UpdateAccount, which touches no row if there is none,
Update(w) ==
  /\ w \in writes /\ w.pc = "sent" /\ w.op.field # "delete"
  /\ accounts' = IF w.id \in DOMAIN accounts
                 THEN [accounts EXCEPT ![w.id] = Changed(@, w.op)] ELSE accounts
  /\ writes' = At(w, "updated", None)
  /\ UNCHANGED <<online, page, seen, used>>

\* then GetAccount, which does not fill in the connection.
Get(w) ==
  /\ w \in writes /\ w.pc = "updated"
  /\ w.id \in DOMAIN accounts
  /\ writes' = At(w, "replied", Shown(accounts[w.id], FALSE))
  /\ UNCHANGED <<accounts, online, page, seen, used>>

\* The account is gone by then: 404, which the page ignores.
GetFails(w) ==
  /\ w \in writes /\ w.pc = "updated"
  /\ w.id \notin DOMAIN accounts
  /\ writes' = writes \ {w}
  /\ UNCHANGED <<accounts, online, page, seen, used>>

\* handleDeleteAccount: the client, then the row.
ServeDelete(w) ==
  /\ w \in writes /\ w.pc = "sent" /\ w.op.field = "delete"
  /\ accounts' = Without(accounts, w.id)
  /\ online' = online \ {w.id}
  /\ writes' = At(w, "replied", None)
  /\ UNCHANGED <<page, seen, used>>

\* Mutant: onSuccess forgets to invalidate.
WriteSucceedsQuietly(w) ==
  /\ w \in writes /\ w.pc = "replied"
  /\ page' = [page EXCEPT !.store = IF w.op.field = "delete" THEN Without(@, w.id)
                                    ELSE Upsert(@, w.id, w.reply)]
  /\ writes' = writes \ {w}
  /\ UNCHANGED <<accounts, online, seen, used>>

\* onSuccess of toggle, saveLabel and remove; it runs after an unmount too.
WriteSucceeds(w) ==
  /\ w \in writes /\ w.pc = "replied"
  /\ LET p == [page EXCEPT !.store = IF w.op.field = "delete" THEN Without(@, w.id)
                                     ELSE Upsert(@, w.id, w.reply)]
     IN /\ page' = Invalidated(p)
        /\ seen' = Heard(p, seen)
  /\ writes' = writes \ {w}
  /\ UNCHANGED <<accounts, online, used>>

\* The page wrote this account and has not read it back.
Unread(id) ==
  /\ id \in DOMAIN page.store /\ page.data # None
  /\ id \in DOMAIN page.data => page.store[id].active # page.data[id].active
                              \/ page.store[id].label # page.data[id].label

\* The answer of a write is lost: no handler, whatever the server did.
WriteFails(w) ==
  /\ w \in writes
  /\ Fault
  /\ writes' = writes \ {w}
  /\ seen' = [seen EXCEPT !.missed = TRUE,
                          !.raced = IF Unread(w.id) THEN @ \cup {w.id} ELSE @]
  /\ UNCHANGED <<accounts, online, page>>

-----------------------------------------------------------------------------
\* Everything else.

\* The page is writing this account, or wrote it and has not read it back.
Pending(id) == Unread(id) \/ \E w \in writes : w.id = id

\* A pairing, which makes an account that never was, a connection that comes or
\* goes, or another browser.
Change(heard) ==
  /\ \/ \E id \in Ids \ used.ids, l \in Labels :
          /\ Elsewhere({id})
          /\ accounts' = Upsert(accounts, id, [active |-> TRUE, label |-> l])
          /\ online' = online \cup {id}
     \/ \E id \in DOMAIN accounts, c \in Changes :
          /\ ~heard
          /\ Elsewhere({})
          /\ accounts' = [accounts EXCEPT ![id] = Changed(@, c)]
          /\ accounts' # accounts
          /\ UNCHANGED online
     \/ \E id \in DOMAIN accounts :
          /\ Elsewhere({})
          /\ online' = IF id \in online THEN online \ {id} ELSE online \cup {id}
          /\ UNCHANGED accounts
  /\ UNCHANGED writes

\* auth.linked or auth.logout reaches App.tsx.
ChangeHeard ==
  /\ Change(TRUE)
  /\ page' = Invalidated(page)
  /\ seen' = Heard(page, seen)

\* No event, or none that arrives.
ChangeUnheard ==
  /\ Change(FALSE)
  /\ seen' = [seen EXCEPT !.missed = TRUE,
                          !.raced = @ \cup {id \in DOMAIN accounts :
                             accounts'[id] # accounts[id] /\ Pending(id)}]
  /\ UNCHANGED page

Next ==
  \/ Mount \/ Unmount \/ Forget
  \/ ServeList \/ ListArrives \/ ListFails
  \/ \E id \in Ids : Toggle(id) \/ Delete(id) \/ \E l \in Labels : SaveLabel(id, l)
  \/ \E w \in writes : \/ Update(w) \/ Get(w) \/ GetFails(w) \/ ServeDelete(w)
                       \/ WriteSucceeds(w) \/ WriteFails(w)
  \/ ChangeHeard \/ ChangeUnheard

Spec == Init /\ [][Next]_vars

-----------------------------------------------------------------------------
\* Nothing is under way, nothing failed and nothing was missed.
Quiet ==
  /\ page.mounted /\ page.data # None
  /\ page.fetch.pc = "idle" /\ ~page.failed
  /\ writes = {} /\ ~seen.missed /\ seen.raced = {}

\* What the page shows is what the server has: the same accounts, with the same
\* labels and switches, once its requests are answered, unless two writes to one
\* account were under way at once, or an account that this page had written and not
\* read back was changed by another browser or by a write whose answer was lost:
\* the list that is then read may be the one read before, which the store never gets.
ListIsServer ==
  Quiet =>
    /\ DOMAIN List = DOMAIN accounts
    /\ \A i \in DOMAIN List : Shown(accounts[i], List[i].connected) = List[i]
=============================================================================
