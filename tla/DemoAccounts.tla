------------------------------ MODULE DemoAccounts ------------------------------
(***************************************************************************)
(* The accounts page of the demo (demo/src/pages/Accounts.tsx), over the   *)
(* list of accounts in lib/api.ts.  As in Demo, a request reads or writes  *)
(* as its delay ends and none is lost; the answer holds the list's own     *)
(* objects, and updateAccount writes into them.                            *)
(***************************************************************************)
EXTENDS Naturals, FiniteSets, Functions

CONSTANTS Accs,    \* ACCOUNTS
          Labels,  \* labels an account may have
          None,    \* nothing cached
          MaxActs  \* bound: writes of the user

\* What the constants are.
DemoAccountsBounds ==
  /\ \A S \in SUBSET Accs : None \notin [S -> [active : BOOLEAN, label : Labels]]
  /\ MaxActs \in Nat

VARIABLES
  accounts, \* the list
  mounted,  \* whether the page is open
  query,    \* its query
  store,    \* the store's accounts
  requests, \* writes whose delay runs
  acts      \* writes so far

vars == <<accounts, mounted, query, store, requests, acts>>

-----------------------------------------------------------------------------
Account == [active : BOOLEAN, label : Labels]

Changes == [field : {"active"}, value : BOOLEAN] \cup [field : {"label"}, value : Labels]

Put(f, i, v) == [j \in DOMAIN f \cup {i} |-> IF j = i THEN v ELSE f[j]]
Without(f, i) == Restrict(f, DOMAIN f \ {i})

Shown == IF DOMAIN store # {} \/ query.data = None THEN store ELSE query.data

Init ==
  /\ accounts \in [Accs -> Account]
  /\ mounted = TRUE
  /\ query = [data |-> None, busy |-> TRUE]
  /\ store = [a \in {} |-> None]
  /\ requests = {}
  /\ acts = 0

-----------------------------------------------------------------------------
Mount ==
  /\ ~mounted /\ mounted' = TRUE
  /\ query' = [query EXCEPT !.busy = TRUE]
  /\ store' = IF query.data = None THEN store ELSE query.data
  /\ UNCHANGED <<accounts, requests, acts>>

Unmount == mounted /\ mounted' = FALSE /\ UNCHANGED <<accounts, query, store, requests, acts>>

ListAccounts ==
  /\ query.busy
  /\ query' = [data |-> accounts, busy |-> FALSE]
  /\ store' = IF mounted /\ accounts # query.data THEN accounts ELSE store
  /\ UNCHANGED <<accounts, mounted, requests, acts>>

Ask(a, op) ==
  /\ mounted /\ a \in DOMAIN Shown
  /\ acts < MaxActs /\ acts' = acts + 1
  /\ requests' = requests \cup {[n |-> acts, acc |-> a, op |-> op]}
  /\ UNCHANGED <<accounts, mounted, query, store>>

\* The row's switch, label and delete button.
Toggle(a) == Ask(a, [field |-> "active", value |-> ~Shown[a].active])
SaveLabel(a, l) == Ask(a, [field |-> "label", value |-> l])
Delete(a) == Ask(a, [field |-> "delete", value |-> None])

Ends(r) == requests' = requests \ {r} /\ UNCHANGED <<mounted, acts>>

Invalidated(data) == [data |-> data, busy |-> query.busy \/ mounted]

\* A cached account is the list's own object, or the library's copy.
UpdateAccount(r) ==
  /\ r.op.field # "delete" /\ Ends(r)
  /\ IF r.acc \in DOMAIN accounts
     THEN LET a == [accounts[r.acc] EXCEPT ![r.op.field] = r.op.value]
          IN /\ accounts' = Put(accounts, r.acc, a)
             /\ store' = Put(store, r.acc, a)
             /\ \E data \in {query.data} \cup IF query.data # None /\ r.acc \in DOMAIN query.data
                                              THEN {Put(query.data, r.acc, a)} ELSE {} :
                  query' = Invalidated(data)
     ELSE UNCHANGED <<accounts, store, query>>

\* Mutant: only the store forgets it.
DeleteAccountInStore(r) ==
  /\ r.op.field = "delete" /\ Ends(r)
  /\ store' = Without(store, r.acc)
  /\ query' = [data |-> query.data, busy |-> query.busy]
  /\ UNCHANGED accounts

DeleteAccount(r) ==
  /\ r.op.field = "delete" /\ Ends(r)
  /\ accounts' = Without(accounts, r.acc)
  /\ store' = Without(store, r.acc)
  /\ query' = Invalidated(query.data)

Next ==
  \/ Mount \/ Unmount \/ ListAccounts
  \/ \E a \in Accs : Toggle(a) \/ Delete(a) \/ \E l \in Labels : SaveLabel(a, l)
  \/ \E r \in requests : UpdateAccount(r) \/ DeleteAccount(r)

Spec == Init /\ [][Next]_vars

-----------------------------------------------------------------------------
\* At rest the page shows the accounts there are, whatever was clicked on the way:
\* no write is lost, though nothing orders those to one account, and a row that is
\* gone stays gone, though its last write may end after it.
AccountsShown ==
  mounted /\ requests = {} /\ query.data # None /\ ~query.busy => Shown = accounts
=============================================================================
