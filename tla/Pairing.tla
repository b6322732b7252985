-------------------------------- MODULE Pairing --------------------------------
(***************************************************************************)
(* How an account comes and goes: pairing by QR code or by phone number,   *)
(* the client manager's one pending slot and its live clients (internal/   *)
(* wa), the OnPaired callback and the start of the program (cmd/tracker),  *)
(* the trackers by account (internal/tracker), the handlers that start a   *)
(* pairing and delete an account (internal/api), and the browser's card    *)
(* that shows the code to scan or to enter (web).                          *)
(*                                                                         *)
(* A client stands for its whatsmeow device and for the JID WhatsApp gives *)
(* it: a JID carries the number of the device, so no two pairings share    *)
(* one.                                                                    *)
(***************************************************************************)
EXTENDS Naturals, FiniteSets

CONSTANTS Clients,           \* the devices that may ever be created
          Nobody,            \* no client
          MaxId,             \* bound: largest account id
          MaxFailures,       \* bound: dials, inserts and deletions that fail
          MaxDrops,          \* bound: connections that break
          MaxAccountDeletes, \* bound: accounts deleted
          MaxRestarts        \* bound: restarts of the program

ASSUME NobodyAssumption == Nobody \notin Clients

ASSUME PairBounds ==
  /\ MaxId \in Nat \ {0}
  /\ MaxFailures \in Nat
  /\ MaxDrops \in Nat
  /\ MaxAccountDeletes \in Nat
  /\ MaxRestarts \in Nat

Ids == 1 .. MaxId

VARIABLES
  rows,      \* accounts: the client whose JID the row of an id holds
  device,    \* the device: not created, unpaired, with an ID, out of the store
  link,      \* its socket: down, up unpaired, logged in, reconnecting on its own
  connected, \* clients whose Connected event waits to be dispatched
  handler,   \* Client.handler: newPendingClient's, or the tracker of an account
  fired,     \* clients whose pairing handler has seen Connected
  pending,   \* ClientManager.pendingAcc
  byID,      \* ClientManager.byID
  tracker,   \* TrackerManager.trackers, each by the client it holds (Tracker.wa)
  running,   \* accounts whose tracker runs (Tracker.running)
  flow,      \* the goroutines of a QR flow
  phone,     \* PairPhone: dialling, code given, or refused and not yet closed
  callback,  \* the OnPaired goroutine of a client, and the id it has inserted
  removing,  \* DELETE requests between manager.Remove and db.DeleteAccount
  deleted,   \* history: ids whose account this process has deleted
  phase,     \* main: loading, connecting or serving
  asked,     \* the pairing request on its way to the server
  code,      \* the client whose code the browser's card shows
  failures, drops, accountDeletes, restarts   \* bounds

store  == <<rows, device>>
wa     == <<link, connected, handler, fired>>
mgr    == <<pending, byID, tracker, running>>
work   == <<flow, phone, callback, removing, deleted, phase>>
web    == <<asked, code>>
bounds == <<failures, drops, accountDeletes, restarts>>
pairVars   == <<store, wa, mgr, work, web, bounds>>

Fails  == failures < MaxFailures /\ failures' = failures + 1

\* StartQRPairing's cleanup and Close hold pendingMu together.
SlotLocked == \E c \in Clients : flow[c] = "closing"

LoggedIn(c) == device[c] \in {"linked", "removed"}

\* Client.handler: nil, newPendingClient's, or a tracker's HandleEvent by its id.
NoHandler == 0
PairingHandler == MaxId + 1

Fresh == [c \in Clients |-> "off"]
NoClient == [i \in Ids |-> Nobody]

PairInit ==
  /\ rows = NoClient /\ device = [c \in Clients |-> "unused"]
  /\ link = [c \in Clients |-> "down"] /\ connected = {} /\ fired = {}
  /\ handler = [c \in Clients |-> NoHandler]
  /\ pending = Nobody /\ byID = NoClient /\ tracker = NoClient /\ running = {}
  /\ flow = Fresh /\ phone = Fresh /\ callback = [c \in Clients |-> [at |-> "off", id |-> 0]]
  /\ removing = {} /\ deleted = {} /\ phase = "serving"
  /\ asked = "nothing" /\ code = Nobody
  /\ failures = 0 /\ drops = 0 /\ accountDeletes = 0 /\ restarts = 0

-----------------------------------------------------------------------------
(* The browser. *)

\* The other tab, or the card closes: the view that goes forgets its code, and
\* hears neither of another nor of the answer it waits for. Which tab is open is
\* not kept: a code that comes is shown by a view of its kind, or by nobody.
ShowTab ==
  /\ code' = Nobody
  /\ UNCHANGED <<store, wa, mgr, work, asked, bounds>>

\* "Generate QR" or "Get code", in this browser or another. Bound: one request at
\* a time is on its way.
Press ==
  /\ asked = "nothing"
  /\ asked' \in {"qr", "phone"}
  /\ UNCHANGED <<store, wa, mgr, work, code, bounds>>

\* The server has taken the request; an error text is not kept.
Answered == asked' = "nothing" /\ UNCHANGED code

-----------------------------------------------------------------------------
(* Pairing. *)

\* Container.NewDevice: which of the unused devices it is does not matter.
NewDevice == CHOOSE c \in Clients : device[c] = "unused"

NewPendingClient(c) ==
  /\ device[c] = "unused" /\ c = NewDevice
  /\ device' = [device EXCEPT ![c] = "fresh"]
  /\ handler' = [handler EXCEPT ![c] = PairingHandler]

\* Client.StartQRFlow: the dial succeeds and the flow's goroutines start, or it
\* fails and the slot is free again.
StartQRPairing ==
  /\ phase = "serving" /\ asked = "qr" /\ ~SlotLocked
  /\ \/ /\ pending # Nobody
        /\ UNCHANGED <<store, wa, pending, flow, failures>>
     \/ /\ pending = Nobody
        /\ \E c \in Clients :
             /\ NewPendingClient(c)
             /\ \/ /\ pending' = c
                   /\ flow' = [flow EXCEPT ![c] = "live"]
                   /\ link' = [link EXCEPT ![c] = "open"]
                   /\ UNCHANGED failures
                \/ Fails /\ UNCHANGED <<pending, flow, link>>
        /\ UNCHANGED <<rows, connected, fired>>
  /\ Answered
  /\ UNCHANGED <<byID, tracker, running, phone, callback, removing, deleted,
                 phase, drops, accountDeletes, restarts>>

\* A code of the flow: the goroutine of the handler and the one that waits to
\* clean up both range over the channel, and only the first broadcasts what it
\* takes.
QRCode(c) ==
  /\ flow[c] = "live" /\ device[c] = "fresh" /\ code # c
  /\ code' = c
  /\ UNCHANGED <<store, wa, mgr, work, asked, bounds>>

\* The flow's goroutine closes the codes: the code was scanned, the last code
\* has timed out and the library has hung up, or the three minutes are over.
FlowEnds(c) ==
  /\ flow[c] = "live"
  /\ flow' = [flow EXCEPT ![c] = "ended"]
  /\ link' \in {link} \cup (IF device[c] = "fresh" THEN {[link EXCEPT ![c] = "down"]} ELSE {})
  /\ UNCHANGED <<store, connected, handler, fired, mgr, phone, callback, removing,
                 deleted, phase, web, bounds>>

\* Mutant: the check of IsLoggedIn is missing.
CleanupChecksAny(c) ==
  /\ flow[c] = "ended" /\ ~SlotLocked
  /\ flow' = [flow EXCEPT ![c] = IF pending = c THEN "closing" ELSE "off"]
  /\ UNCHANGED <<store, wa, mgr, phone, callback, removing, deleted, phase, web, bounds>>

\* The cleanup finds the codes closed, and its client pending and not logged
\* in; then it frees the slot and closes the client.
CleanupChecks(c) ==
  /\ flow[c] = "ended" /\ ~SlotLocked
  /\ flow' = [flow EXCEPT ![c] = IF pending = c /\ ~LoggedIn(c) THEN "closing" ELSE "off"]
  /\ UNCHANGED <<store, wa, mgr, phone, callback, removing, deleted, phase, web, bounds>>

\* Mutant: the client is closed and the slot kept.
CleanupClosesOnly(c) ==
  /\ flow[c] = "closing"
  /\ link' = [link EXCEPT ![c] = "down"]
  /\ flow' = [flow EXCEPT ![c] = "off"]
  /\ UNCHANGED <<store, connected, handler, fired, mgr, phone, callback, removing,
                 deleted, phase, web, bounds>>

CleanupCloses(c) ==
  /\ flow[c] = "closing"
  /\ pending' = Nobody
  /\ link' = [link EXCEPT ![c] = "down"]
  /\ flow' = [flow EXCEPT ![c] = "off"]
  /\ UNCHANGED <<store, connected, handler, fired, byID, tracker, running, phone,
                 callback, removing, deleted, phase, web, bounds>>

\* PairPhone takes the slot, and dials without the lock.
PairPhone ==
  /\ phase = "serving" /\ asked = "phone" /\ ~SlotLocked
  /\ \/ pending # Nobody /\ UNCHANGED <<device, handler, pending, phone>>
     \/ /\ pending = Nobody
        /\ \E c \in Clients :
             /\ NewPendingClient(c)
             /\ pending' = c
             /\ phone' = [phone EXCEPT ![c] = "dialling"]
  /\ Answered
  /\ UNCHANGED <<rows, link, connected, fired, byID, tracker, running, flow, callback,
                 removing, deleted, phase, bounds>>

\* WhatsApp gives a code to enter; the view that asked for it may have gone.
PhoneCode(c) ==
  /\ phone[c] = "dialling"
  /\ phone' = [phone EXCEPT ![c] = "given"]
  /\ link' = [link EXCEPT ![c] = "open"]
  /\ code' \in {c, code}
  /\ UNCHANGED <<store, connected, handler, fired, mgr, flow, callback, removing,
                 deleted, phase, asked, bounds>>

\* The call fails: the slot is freed first, the client is closed after it.
PhoneFails(c) ==
  /\ phone[c] = "dialling" /\ ~SlotLocked /\ Fails
  /\ phone' = [phone EXCEPT ![c] = "refused"]
  /\ link' \in {link, [link EXCEPT ![c] = "open"]}
  /\ pending' = IF pending = c THEN Nobody ELSE pending
  /\ UNCHANGED <<store, connected, handler, fired, byID, tracker, running, flow,
                 callback, removing, deleted, phase, web, drops, accountDeletes, restarts>>

PhoneCloses(c) ==
  /\ phone[c] = "refused"
  /\ phone' = [phone EXCEPT ![c] = "off"]
  /\ link' = [link EXCEPT ![c] = "down"]
  /\ UNCHANGED <<store, connected, handler, fired, mgr, flow, callback, removing,
                 deleted, phase, web, bounds>>

\* The phone scans the code on the screen, or its user enters the one given: the
\* device has an ID, and the library reconnects to log in with it.
Link(c) ==
  /\ device[c] = "fresh" /\ link[c] = "open"
  /\ code = c
  /\ device' = [device EXCEPT ![c] = "linked"]
  /\ link' = [link EXCEPT ![c] = "redial"]
  /\ UNCHANGED <<rows, connected, handler, fired, mgr, work, web, bounds>>

-----------------------------------------------------------------------------
(* Connections and their events. *)

\* A login takes round trips to WhatsApp; it does not fit between the check of
\* the cleanup and the Close that follows it, as the scan of a code may.
LogsIn(c) ==
  /\ link[c] = "redial" /\ flow[c] # "closing"
  /\ link' = [link EXCEPT ![c] = "on"]
  /\ connected' = connected \cup {c}
  /\ UNCHANGED <<store, handler, fired, mgr, work, web, bounds>>

Drops(c) ==
  /\ link[c] = "on" /\ drops < MaxDrops
  /\ link' = [link EXCEPT ![c] = "redial"]
  /\ drops' = drops + 1
  /\ UNCHANGED <<store, connected, handler, fired, mgr, work, web, failures, accountDeletes, restarts>>

\* Client.dispatch hands Connected to the handler of the moment: the pairing
\* handler calls OnPaired the first time and never again, a tracker starts.
Dispatch(c) ==
  /\ c \in connected
  /\ connected' = connected \ {c}
  /\ \/ /\ handler[c] = PairingHandler
        /\ fired' = fired \cup {c}
        /\ callback' = IF c \in fired THEN callback
                       ELSE [callback EXCEPT ![c].at = "insert"]
        /\ UNCHANGED running
     \/ /\ handler[c] \in Ids
        /\ running' = running \cup {handler[c]}
        /\ UNCHANGED <<fired, callback>>
  /\ UNCHANGED <<store, link, handler, pending, byID, tracker, flow, phone, removing,
                 deleted, phase, web, bounds>>

\* The schedule loop of a tracker that runs, with no schedule set: it connects
\* the client it holds whenever that is not connected.
Reconnects(i) ==
  /\ i \in running /\ link[tracker[i]] = "down"
  /\ link' = [link EXCEPT ![tracker[i]] = "redial"]
  /\ UNCHANGED <<store, connected, handler, fired, mgr, work, web, bounds>>

-----------------------------------------------------------------------------
(* OnPaired. *)

\* SQLite gives a new row the id after the largest there is.
NextId == Cardinality({n \in Ids : \E i \in Ids : n <= i /\ rows[i] # Nobody}) + 1

\* An error leaves the slot taken, and the handler does not fire again.
InsertAccount(c) ==
  /\ callback[c].at = "insert"
  /\ \/ /\ NextId \in Ids
        /\ rows' = [rows EXCEPT ![NextId] = c]
        /\ callback' = [callback EXCEPT ![c] = [at |-> "register", id |-> NextId]]
        /\ UNCHANGED failures
     \/ /\ Fails
        /\ callback' = [callback EXCEPT ![c].at = "failed"]
        /\ UNCHANGED rows
  /\ UNCHANGED <<device, wa, mgr, flow, phone, removing, deleted, phase, web,
                 drops, accountDeletes, restarts>>

\* It takes whichever client is pending.
RegisterPaired(c) ==
  /\ callback[c].at = "register" /\ ~SlotLocked
  /\ pending' = Nobody
  /\ byID' = IF pending = Nobody THEN byID ELSE [byID EXCEPT ![callback[c].id] = pending]
  /\ callback' = [callback EXCEPT ![c].at = "start"]
  /\ UNCHANGED <<store, wa, tracker, running, flow, phone, removing, deleted, phase, web, bounds>>

\* TrackerManager.Add returns the tracker of the id there already is, whatever
\* client that one holds.
StartTracker(c) ==
  /\ callback[c].at = "start"
  /\ LET i == callback[c].id IN
       /\ tracker' = [tracker EXCEPT ![i] = IF @ = Nobody THEN c ELSE @]
       /\ handler' = [handler EXCEPT ![c] = i]
  /\ callback' = [callback EXCEPT ![c].at = "done"]
  /\ UNCHANGED <<store, link, connected, fired, pending, byID, running, flow, phone,
                 removing, deleted, phase, web, bounds>>

-----------------------------------------------------------------------------
(* DELETE /api/accounts/{id}. *)

\* manager.Remove: an account it does not know is an error nobody minds, and so
\* is a device that stays in the store. The tracker is not told.
Remove(i) ==
  /\ phase = "serving" /\ rows[i] # Nobody /\ i \notin removing /\ accountDeletes < MaxAccountDeletes
  /\ accountDeletes' = accountDeletes + 1
  /\ removing' = removing \cup {i}
  /\ byID' = [byID EXCEPT ![i] = Nobody]
  /\ IF byID[i] = Nobody THEN UNCHANGED <<device, link, failures>>
     ELSE /\ link' = [link EXCEPT ![byID[i]] = "down"]
          /\ \/ device' = [device EXCEPT ![byID[i]] = "removed"] /\ UNCHANGED failures
             \/ Fails /\ UNCHANGED device
  /\ UNCHANGED <<rows, connected, handler, fired, pending, tracker, running, flow,
                 phone, callback, deleted, phase, web, drops, restarts>>

DeleteAccount(i) ==
  /\ i \in removing
  /\ removing' = removing \ {i}
  /\ \/ /\ rows' = [rows EXCEPT ![i] = Nobody]
        /\ deleted' = deleted \cup {i}
        /\ UNCHANGED failures
     \/ Fails /\ UNCHANGED <<rows, deleted>>
  /\ UNCHANGED <<device, wa, mgr, flow, phone, callback, phase, web, drops, accountDeletes, restarts>>

-----------------------------------------------------------------------------
(* The program stops at any point and starts again. *)

Restart ==
  /\ restarts < MaxRestarts
  /\ restarts' = restarts + 1
  /\ link' = [c \in Clients |-> "down"] /\ connected' = {} /\ fired' = {}
  /\ handler' = [c \in Clients |-> NoHandler]
  /\ pending' = Nobody /\ byID' = NoClient /\ tracker' = NoClient /\ running' = {}
  /\ flow' = Fresh /\ phone' = Fresh
  /\ callback' = [c \in Clients |-> [at |-> "off", id |-> 0]]
  /\ removing' = {} /\ deleted' = {} /\ phase' = "loading"
  /\ Answered
  /\ UNCHANGED <<store, failures, drops, accountDeletes>>

\* The accounts, or without any the first device of the store as "Default".
Accounts(accounts) ==
  \/ rows # NoClient /\ accounts = rows
  \/ /\ rows = NoClient
     /\ \E c \in Clients : device[c] = "linked" /\ accounts = [NoClient EXCEPT ![1] = c]
  \/ rows = NoClient /\ accounts = NoClient /\ \A c \in Clients : device[c] # "linked"

\* Mutant: startTracker attaches no handler.
LoadUnheard ==
  /\ phase = "loading"
  /\ Accounts(rows')
  /\ byID' = [i \in Ids |-> IF rows'[i] # Nobody /\ device[rows'[i]] = "linked" THEN rows'[i] ELSE Nobody]
  /\ tracker' = byID'
  /\ phase' = "connecting"
  /\ UNCHANGED <<device, link, connected, handler, fired, pending, running, flow, phone, callback,
                 removing, deleted, web, bounds>>

\* manager.Register finds the device of each account, and its tracker is started.
Load ==
  /\ phase = "loading"
  /\ Accounts(rows')
  /\ byID' = [i \in Ids |-> IF rows'[i] # Nobody /\ device[rows'[i]] = "linked" THEN rows'[i] ELSE Nobody]
  /\ tracker' = byID'
  /\ handler' = [c \in Clients |-> IF \E i \in Ids : byID'[i] = c
                                   THEN CHOOSE i \in Ids : byID'[i] = c ELSE handler[c]]
  /\ phase' = "connecting"
  /\ UNCHANGED <<device, link, connected, fired, pending, running, flow, phone, callback,
                 removing, deleted, web, bounds>>

\* ConnectAll: a dial that fails is not tried again.
Dial(c) ==
  /\ phase = "connecting" /\ link[c] = "down" /\ \E i \in Ids : byID[i] = c
  /\ \/ link' = [link EXCEPT ![c] = "redial"] /\ UNCHANGED failures
     \/ link' = [link EXCEPT ![c] = "failed"] /\ Fails
  /\ UNCHANGED <<store, connected, handler, fired, mgr, work, web, drops, accountDeletes, restarts>>

Serve ==
  /\ phase = "connecting"
  /\ \A i \in Ids : byID[i] # Nobody => link[byID[i]] # "down"
  /\ phase' = "serving"
  /\ UNCHANGED <<store, wa, mgr, flow, phone, callback, removing, deleted, web, bounds>>

-----------------------------------------------------------------------------
Pair(c) ==
  \/ QRCode(c) \/ FlowEnds(c) \/ CleanupChecks(c) \/ CleanupCloses(c)
  \/ PhoneCode(c) \/ PhoneFails(c) \/ PhoneCloses(c) \/ Link(c)

OnPaired(c) == InsertAccount(c) \/ RegisterPaired(c) \/ StartTracker(c)

PairNext ==
  \/ ShowTab \/ Press \/ StartQRPairing \/ PairPhone
  \/ Restart \/ Load \/ Serve
  \/ \E c \in Clients : \/ Pair(c) \/ OnPaired(c)
                        \/ LogsIn(c) \/ Drops(c) \/ Dispatch(c) \/ Dial(c)
  \/ \E i \in Ids : Reconnects(i) \/ Remove(i) \/ DeleteAccount(i)

PairSpec == PairInit /\ [][PairNext]_pairVars

\* Goroutines run, the three minutes pass, the library's reconnection gets
\* through; nothing else need ever happen.
PairFairness ==
  /\ WF_pairVars(Load) /\ WF_pairVars(Serve)
  /\ \A c \in Clients :
       /\ WF_pairVars(FlowEnds(c)) /\ WF_pairVars(CleanupChecks(c)) /\ WF_pairVars(CleanupCloses(c))
       /\ WF_pairVars(LogsIn(c)) /\ WF_pairVars(Dispatch(c)) /\ WF_pairVars(OnPaired(c))
       /\ WF_pairVars(Dial(c))

PairFairSpec == PairSpec /\ PairFairness

-----------------------------------------------------------------------------
(* What the pairing of accounts promises. *)

\* An account's client, the client its tracker asks, and the client whose events
\* its tracker hears are the one whose JID its row holds. OnPaired names none of
\* them to RegisterPaired, which takes whatever is pending. Only an id that was
\* an earlier account's in this process is left out: TrackerManager.Add keeps
\* that account's tracker (internal/wa/manager.go RegisterPaired,
\* cmd/tracker/main.go startTracker).
ClientsAreTheirs ==
  \A i \in Ids : rows[i] # Nobody /\ i \notin deleted =>
    /\ byID[i] \in {Nobody, rows[i]}
    /\ tracker[i] \in {Nobody, rows[i]}
    /\ \A c \in Clients : handler[c] = i => c = rows[i]

\* A QR pairing gives the slot back: the flow ends within its three minutes, and
\* its client is then either closed or handed to its account. Only an account
\* that could not be inserted keeps it (internal/wa/manager.go StartQRPairing).
SlotComesBack ==
  \A c \in Clients :
    (pending = c /\ phone[c] = "off") ~> (pending # c \/ callback[c].at = "failed")

\* Every account the program finds when it starts is tracked, unless it cannot
\* be reached at that moment: its tracker must hear the first Connected event
\* (cmd/tracker/main.go main, internal/wa/manager.go ConnectAll).
StartedAreTracked ==
  \A i \in Ids :
    (phase = "connecting" /\ byID[i] # Nobody)
      ~> (i \in running \/ byID[i] = Nobody \/ link[byID[i]] = "failed")

\* An account that has just been paired is tracked: "when a new account finishes
\* QR/phone pairing, insert it in DB, register with the manager, then start
\* tracking" (cmd/tracker/main.go OnPaired).
PairedAreTracked ==
  \A c \in Clients :
    (callback[c].at = "done") ~> (callback[c].id \in running \/ callback[c].at # "done")
=============================================================================
