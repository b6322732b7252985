------------------------------ MODULE ScheduleForm ------------------------------
(***************************************************************************)
(* The schedule panel of an account                                        *)
(* (web/src/components/accounts/SchedulePanel.tsx): a form that is loaded  *)
(* from the server, edited, and saved as a whole.                          *)
(*                                                                         *)
(* The form is local state.  An effect overwrites it, and marks it clean,  *)
(* whenever the query's data changes; saving replaces the slots, so that   *)
(* their ids may change when nothing else does.  Closing the panel drops   *)
(* the form, and neither the query nor a save under way.                   *)
(***************************************************************************)
EXTENDS Naturals, FiniteSets

CONSTANTS Values,    \* settings: force-offline and slots
          Blank,     \* the one a form starts with: not forced, no slots
          None,      \* no data
          MaxEdits,  \* bound: edits
          MaxSaves,  \* bound: saves
          MaxFaults  \* bound: requests that fail

\* What the constants are.
FormBounds ==
  /\ Blank \in Values /\ None \notin [set : Values, ids : {0, 1}]
  /\ MaxEdits \in Nat /\ MaxSaves \in Nat /\ MaxFaults \in Nat

VARIABLES
  schedule, \* the server's
  panel,    \* the form, if open, and the query
  saves,    \* saves under way
  lapses,   \* history: what may keep form and server apart
  left      \* edits, saves and faults left

vars == <<schedule, panel, saves, lapses, left>>

-----------------------------------------------------------------------------
\* A schedule as the server answers it; ids tells the ids of its slots apart.
Schedule == [set : Values, ids : {0, 1}]

NoFetch == [pc |-> "idle", got |-> None]
Asked   == [pc |-> "asked", got |-> None]

\* The loading text: no data and none failed to come.
Loading == panel.data = None /\ panel.fetch.pc # "idle"

\* The save button; pending is true of the saves of this opening.
Pending == \E s \in saves : s.own

CanSave == panel.open /\ ~Loading /\ panel.dirty /\ ~Pending

\* The effect on [schedule.data].
Filled(p) == [p EXCEPT !.form = p.data.set, !.dirty = FALSE]

WithData(p, data) ==
  LET q == [p EXCEPT !.data = data]
  IN IF p.open /\ data # p.data THEN Filled(q) ELSE q

FirstLoad == panel.data = None /\ panel.fetch.pc # "idle"

\* invalidateQueries(["schedule", accountId]).
Invalidated(p) ==
  IF p.open /\ ~FirstLoad THEN [p EXCEPT !.fetch = Asked, !.failed = FALSE] ELSE p

Fault == left.faults > 0 /\ left' = [left EXCEPT !.faults = @ - 1]

Init ==
  /\ schedule \in Schedule /\ schedule.ids = 0
  /\ panel = [open |-> FALSE, form |-> Blank, dirty |-> FALSE, data |-> None,
              fetch |-> NoFetch, failed |-> FALSE]
  /\ saves = {}
  /\ lapses = [edited |-> FALSE, missed |-> FALSE]
  /\ left = [edits |-> MaxEdits, saves |-> MaxSaves, faults |-> MaxFaults]

-----------------------------------------------------------------------------
\* Opening and closing.

Open ==
  /\ ~panel.open
  /\ LET p == [panel EXCEPT !.open = TRUE, !.form = Blank, !.dirty = FALSE,
                            !.fetch = IF @.pc = "idle" THEN Asked ELSE @,
                            !.failed = FALSE]
     IN panel' = IF p.data = None THEN p ELSE Filled(p)
  /\ lapses' = IF panel.fetch.pc = "idle"
               THEN [edited |-> FALSE, missed |-> FALSE] ELSE lapses
  /\ UNCHANGED <<schedule, saves, left>>

Close ==
  /\ panel.open
  /\ panel' = [panel EXCEPT !.open = FALSE]
  /\ saves' = {[s EXCEPT !.own = FALSE] : s \in saves}
  /\ UNCHANGED <<schedule, lapses, left>>

\* The cache forgets an unused query after five minutes.
Forget ==
  /\ ~panel.open
  /\ panel.fetch.pc = "idle"
  /\ panel' = [panel EXCEPT !.data = None]
  /\ UNCHANGED <<schedule, saves, lapses, left>>

-----------------------------------------------------------------------------
\* The query.

ServeGet ==
  /\ panel.fetch.pc = "asked"
  /\ panel' = [panel EXCEPT !.fetch = [pc |-> "answered", got |-> schedule]]
  /\ UNCHANGED <<schedule, saves, lapses, left>>

GetArrives ==
  /\ panel.fetch.pc = "answered"
  /\ panel' = [WithData(panel, panel.fetch.got) EXCEPT !.fetch = NoFetch]
  /\ UNCHANGED <<schedule, saves, lapses, left>>

\* After its retry; with no data the panel shows the form it has.
GetFails ==
  /\ panel.fetch.pc # "idle"
  /\ Fault
  /\ panel' = [panel EXCEPT !.fetch = NoFetch, !.failed = TRUE]
  /\ UNCHANGED <<schedule, saves, lapses>>

-----------------------------------------------------------------------------
\* The user.

\* The switch, addSlot, removeSlot and updateSlot.
Edit(v) ==
  /\ panel.open /\ ~Loading
  /\ left.edits > 0
  /\ v # panel.form
  /\ left' = [left EXCEPT !.edits = @ - 1]
  /\ panel' = [panel EXCEPT !.form = v, !.dirty = TRUE]
  /\ lapses' = [lapses EXCEPT !.edited = @ \/ saves # {}]
  /\ UNCHANGED <<schedule, saves>>

\* Mutant: the form counts as saved from the click on.
SaveClean ==
  /\ CanSave
  /\ left.saves > 0
  /\ left' = [left EXCEPT !.saves = @ - 1]
  /\ saves' = saves \cup {[n |-> left.saves, set |-> panel.form, own |-> TRUE, pc |-> "sent"]}
  /\ panel' = [panel EXCEPT !.dirty = FALSE]
  /\ UNCHANGED <<schedule, lapses>>

Save ==
  /\ CanSave
  /\ left.saves > 0
  /\ left' = [left EXCEPT !.saves = @ - 1]
  /\ saves' = saves \cup {[n |-> left.saves, set |-> panel.form, own |-> TRUE, pc |-> "sent"]}
  /\ UNCHANGED <<schedule, panel, lapses>>

-----------------------------------------------------------------------------
\* The saves.

\* SetAccountSchedule: the slots are deleted and inserted, one transaction.
ServePut(s) ==
  /\ s \in saves /\ s.pc = "sent"
  /\ schedule' \in {t \in Schedule : t.set = s.set}
  /\ saves' = (saves \ {s}) \cup {[s EXCEPT !.pc = "replied"]}
  /\ UNCHANGED <<panel, lapses, left>>

\* onSuccess; of another opening, the panel is no longer there to be cleaned.
SaveSucceeds(s) ==
  /\ s \in saves /\ s.pc = "replied"
  /\ saves' = saves \ {s}
  /\ panel' = [Invalidated(panel) EXCEPT !.dirty = @ /\ ~s.own]
  /\ lapses' = [lapses EXCEPT !.missed = IF panel.open /\ ~FirstLoad THEN FALSE
                                         ELSE @ \/ panel.fetch.pc # "idle"]
  /\ UNCHANGED <<schedule, left>>

\* No answer, whatever the server did: the panel says that saving failed.
SaveFails(s) ==
  /\ s \in saves
  /\ Fault
  /\ saves' = saves \ {s}
  /\ lapses' = [lapses EXCEPT !.missed = @ \/ ~s.own \/ panel.fetch.pc # "idle"
                                       \/ panel.form # s.set]
  /\ UNCHANGED <<schedule, panel>>

Next ==
  \/ Open \/ Close \/ Forget
  \/ ServeGet \/ GetArrives \/ GetFails
  \/ \E v \in Values : Edit(v)
  \/ Save
  \/ \E s \in saves : ServePut(s) \/ SaveSucceeds(s) \/ SaveFails(s)

Spec == Init /\ [][Next]_vars

-----------------------------------------------------------------------------
\* A form that is loaded, clean and at rest is the server's schedule, unless it was
\* edited during a save, or a save failed whose form was gone or overwritten or
\* had a fetch under way.
FormIsSaved ==
  (/\ panel.open /\ ~panel.dirty
   /\ panel.data # None /\ ~panel.failed /\ panel.fetch.pc = "idle"
   /\ saves = {} /\ lapses = [edited |-> FALSE, missed |-> FALSE])
  => panel.form = schedule.set
=============================================================================
