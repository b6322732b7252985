------------------------------ MODULE DemoSchedule ------------------------------
(***************************************************************************)
(* The schedule panel of the demo                                          *)
(* (demo/src/components/accounts/SchedulePanel.tsx), over the schedules    *)
(* kept in lib/api.ts.  The panel is the web client's (ScheduleForm); the  *)
(* server is not: a request reads or writes as its delay ends, so that     *)
(* what arrives is never old, nothing is lost, and slots keep their ids.   *)
(***************************************************************************)
EXTENDS Naturals

CONSTANTS Values,   \* settings: force-offline and slots
          Blank,    \* the one a form starts with
          None,     \* no data
          MaxEdits, \* bound: edits
          MaxSaves  \* bound: saves

\* What the constants are.
DemoFormBounds ==
  Blank \in Values /\ None \notin Values /\ MaxEdits \in Nat /\ MaxSaves \in Nat

VARIABLES
  plan,   \* schedules[accountId]
  panel,  \* the form, if open, and the query
  saves,  \* saves whose delay runs; own, of the panel as now opened
  edited, \* history: the form was edited during its own save
  left    \* edits and saves left

vars == <<plan, panel, saves, edited, left>>

-----------------------------------------------------------------------------
\* The loading text.
Loading == panel.data = None /\ panel.busy

\* save.isPending.
Pending == \E s \in saves : s.own

\* The effect on [schedule.data].
Filled(p) == [p EXCEPT !.form = p.data, !.dirty = FALSE]

Init ==
  /\ plan \in Values
  /\ panel = [open |-> FALSE, form |-> Blank, dirty |-> FALSE, data |-> None, busy |-> FALSE]
  /\ saves = {} /\ edited = FALSE
  /\ left = [edits |-> MaxEdits, saves |-> MaxSaves]

\* The row's calendar button, either way.
Open ==
  /\ ~panel.open
  /\ LET p == [panel EXCEPT !.open = TRUE, !.form = Blank, !.dirty = FALSE, !.busy = TRUE]
     IN panel' = IF p.data = None THEN p ELSE Filled(p)
  /\ edited' = FALSE
  /\ UNCHANGED <<plan, saves, left>>

Close ==
  /\ panel.open
  /\ panel' = [panel EXCEPT !.open = FALSE]
  /\ saves' = {[s EXCEPT !.own = FALSE] : s \in saves}
  /\ UNCHANGED <<plan, edited, left>>

\* The cache forgets an unused query after five minutes.
Forget ==
  /\ ~panel.open /\ ~panel.busy
  /\ panel' = [panel EXCEPT !.data = None]
  /\ UNCHANGED <<plan, saves, edited, left>>

GetSchedule ==
  /\ panel.busy
  /\ LET p == [panel EXCEPT !.data = plan, !.busy = FALSE]
     IN panel' = IF panel.open /\ plan # panel.data THEN Filled(p) ELSE p
  /\ UNCHANGED <<plan, saves, edited, left>>

\* The switch, addSlot, removeSlot and updateSlot.
Edit(v) ==
  /\ panel.open /\ ~Loading /\ v # panel.form
  /\ left.edits > 0 /\ left' = [left EXCEPT !.edits = @ - 1]
  /\ panel' = [panel EXCEPT !.form = v, !.dirty = TRUE]
  /\ edited' = (edited \/ Pending)
  /\ UNCHANGED <<plan, saves>>

Save ==
  /\ panel.open /\ ~Loading /\ panel.dirty /\ ~Pending
  /\ left.saves > 0 /\ left' = [left EXCEPT !.saves = @ - 1]
  /\ saves' = saves \cup {[n |-> left.saves, set |-> panel.form, own |-> TRUE]}
  /\ UNCHANGED <<plan, panel, edited>>

\* putSchedule's delay ends, the oldest first, as all delays are alike;
\* invalidateQueries fetches for an open panel.
PutSchedule(s) ==
  /\ \A o \in saves : o.n <= s.n
  /\ plan' = s.set
  /\ saves' = saves \ {s}
  /\ panel' = [panel EXCEPT !.busy = @ \/ panel.open, !.dirty = @ /\ ~s.own]
  /\ UNCHANGED <<edited, left>>

Next ==
  \/ Open \/ Close \/ Forget \/ GetSchedule \/ Save
  \/ \E v \in Values : Edit(v)
  \/ \E s \in saves : PutSchedule(s)

Spec == Init /\ [][Next]_vars

-----------------------------------------------------------------------------
\* A form that is loaded, clean and at rest is the schedule there is, unless it was
\* edited during its own save; saves of an earlier opening make no difference.
DemoFormIsSaved ==
  (panel.open /\ ~panel.dirty /\ panel.data # None /\ ~panel.busy /\ saves = {} /\ ~edited)
  => panel.form = plan
=============================================================================
