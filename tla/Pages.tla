--------------------------------- MODULE Pages ---------------------------------
(***************************************************************************)
(* The pages that read, show and write something of the server's: the list *)
(* of accounts with its schedule panels, the page of a contact, and the    *)
(* demo's copies of them.  They share none of the state that is modelled   *)
(* (other queries, other parts of the store), so that a behaviour of the   *)
(* client is one of each; here one page is open, and only its state moves. *)
(***************************************************************************)
EXTENDS Naturals, FiniteSets

CONSTANTS
  None, Accounts, Labels, Values, Blank, Contacts, DemoAccs, DemoIds, First,
  BarSize, ChatSize, Backlogs,
  MaxAccountWrites, MaxEdits, MaxSaves, MaxContactWrites, MaxLapses, MaxFaults,
  MaxDemoWrites, MaxPages, MaxDemoActs

VARIABLES
  page,
  accounts, online, accountsPage, accountWrites, seen, used,
  schedule, panel, saves, lapses, formLeft,
  contacts, list, timeline, store, route, contactWrites, raced, contactLeft,
  server, armed, cache, demoStore, demoRoute, requests, demoLeft,
  demoAccounts, mounted, query, demoAccountStore, demoWrites, demoActs,
  plan, demoPanel, demoSaves, edited, demoFormLeft

accountsVars == <<accounts, online, accountsPage, accountWrites, seen, used>>
formVars     == <<schedule, panel, saves, lapses, formLeft>>
contactVars  == <<contacts, list, timeline, store, route, contactWrites, raced, contactLeft>>
demoVars     == <<server, armed, cache, demoStore, demoRoute, requests, demoLeft>>
rowsVars     == <<demoAccounts, mounted, query, demoAccountStore, demoWrites, demoActs>>
planVars     == <<plan, demoPanel, demoSaves, edited, demoFormLeft>>

vars == <<page, accountsVars, formVars, contactVars, demoVars, rowsVars, planVars>>

Acc == INSTANCE Accounts WITH Ids <- Accounts, MaxWrites <- MaxAccountWrites,
         page <- accountsPage, writes <- accountWrites
Form == INSTANCE ScheduleForm WITH left <- formLeft
Contact == INSTANCE ContactPage WITH Ids <- Contacts, MaxWrites <- MaxContactWrites,
             writes <- contactWrites, left <- contactLeft
Copy == INSTANCE Demo WITH Accs <- DemoAccs, Ids <- DemoIds, MaxActs <- MaxDemoActs,
          store <- demoStore, route <- demoRoute, left <- demoLeft
Rows == INSTANCE DemoAccounts WITH Accs <- Accounts, MaxActs <- MaxDemoWrites,
          accounts <- demoAccounts, store <- demoAccountStore, requests <- demoWrites,
          acts <- demoActs
Plan == INSTANCE DemoSchedule WITH panel <- demoPanel, saves <- demoSaves,
          left <- demoFormLeft

ASSUME PagesBounds ==
  /\ Acc!AccountsBounds /\ Form!FormBounds /\ Contact!PageBounds
  /\ Copy!DemoBounds /\ Rows!DemoAccountsBounds /\ Plan!DemoFormBounds

NoAccounts == /\ accounts = None /\ online = None /\ accountsPage = None
              /\ accountWrites = None /\ seen = None /\ used = None
NoForm == schedule = None /\ panel = None /\ saves = None /\ lapses = None /\ formLeft = None
NoContact == /\ contacts = None /\ list = None /\ timeline = None /\ store = None
             /\ route = None /\ contactWrites = None /\ raced = None /\ contactLeft = None
NoDemo == /\ server = None /\ armed = None /\ cache = None /\ demoStore = None
          /\ demoRoute = None /\ requests = None /\ demoLeft = None
NoRows == /\ demoAccounts = None /\ mounted = None /\ query = None
          /\ demoAccountStore = None /\ demoWrites = None /\ demoActs = None
NoPlan == /\ plan = None /\ demoPanel = None /\ demoSaves = None
          /\ edited = None /\ demoFormLeft = None

Init ==
  \/ page = "accounts" /\ Acc!Init /\ NoForm /\ NoContact /\ NoDemo /\ NoRows /\ NoPlan
  \/ page = "schedule" /\ Form!Init /\ NoAccounts /\ NoContact /\ NoDemo /\ NoRows /\ NoPlan
  \/ page = "contact" /\ Contact!Init /\ NoAccounts /\ NoForm /\ NoDemo /\ NoRows /\ NoPlan
  \/ page = "demo" /\ Copy!Init /\ NoAccounts /\ NoForm /\ NoContact /\ NoRows /\ NoPlan
  \/ page = "demo accounts" /\ Rows!Init /\ NoAccounts /\ NoForm /\ NoContact /\ NoDemo /\ NoPlan
  \/ page = "demo schedule" /\ Plan!Init /\ NoAccounts /\ NoForm /\ NoContact /\ NoDemo /\ NoRows

Next ==
  \/ page = "accounts" /\ Acc!Next
     /\ UNCHANGED <<page, formVars, contactVars, demoVars, rowsVars, planVars>>
  \/ page = "schedule" /\ Form!Next
     /\ UNCHANGED <<page, accountsVars, contactVars, demoVars, rowsVars, planVars>>
  \/ page = "contact" /\ Contact!Next
     /\ UNCHANGED <<page, accountsVars, formVars, demoVars, rowsVars, planVars>>
  \/ page = "demo" /\ Copy!Next
     /\ UNCHANGED <<page, accountsVars, formVars, contactVars, rowsVars, planVars>>
  \/ page = "demo accounts" /\ Rows!Next
     /\ UNCHANGED <<page, accountsVars, formVars, contactVars, demoVars, planVars>>
  \/ page = "demo schedule" /\ Plan!Next
     /\ UNCHANGED <<page, accountsVars, formVars, contactVars, demoVars, rowsVars>>

Spec == Init /\ [][Next]_vars

-----------------------------------------------------------------------------
\* The accounts page shows the server's accounts once it is at rest (Accounts).
ListIsServer == page = "accounts" => Acc!ListIsServer

\* A clean schedule panel at rest shows the server's schedule (ScheduleForm), the
\* demo's its own (DemoSchedule).
FormIsSaved ==
  /\ page = "schedule" => Form!FormIsSaved
  /\ page = "demo schedule" => Plan!DemoFormIsSaved

\* Header and list of an open contact agree with the server (ContactPage).
OpenIsServer == page = "contact" => Contact!OpenIsServer

\* The demo's contact pages show what its server has once they are at rest (Demo).
PagesShowServer == page = "demo" => Copy!PagesShowServer

\* The demo's dots say the latest presence (Demo).
DotIsLatest == page = "demo" => Copy!DotIsLatest

\* The demo's accounts page shows its accounts once it is at rest (DemoAccounts).
AccountsShown == page = "demo accounts" => Rows!AccountsShown
=============================================================================
