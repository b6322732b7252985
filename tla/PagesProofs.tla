------------------------------ MODULE PagesProofs ------------------------------
(***************************************************************************)
(* What the pages show, for any number of accounts, contacts, writes,      *)
(* edits, failures and events.  One page is open in a behaviour (Pages);   *)
(* each has its own invariant here, kept by each of its steps, from which  *)
(* its properties follow; the theorems are at the end.                     *)
(*                                                                         *)
(* The invariants all have the same shape.  A page has several copies of   *)
(* what the server has: answers on their way, a query's data, the store, a *)
(* form.  A copy is as the server has it, or as a later copy that will     *)
(* still overwrite it, or there is a reason: a query or a write under way, *)
(* or a change that the page was not told of (history).                    *)
(***************************************************************************)
EXTENDS Pages, Sequences, FiniteSetTheorems, TLAPS

-----------------------------------------------------------------------------
\* The schedule panel of the web client.

\* The query of the panel, and the panel.
Fetch == [pc : {"idle", "asked"}, got : {None}] \cup [pc : {"answered"}, got : Form!Schedule]

Panel == [open : BOOLEAN, form : Values, dirty : BOOLEAN,
          data : Form!Schedule \cup {None}, fetch : Fetch, failed : BOOLEAN]

\* The type invariant.
FormType ==
  /\ schedule \in Form!Schedule
  /\ panel \in Panel
  /\ saves \in SUBSET [n : Nat, set : Values, own : BOOLEAN, pc : {"sent", "replied"}]
  /\ lapses \in [edited : BOOLEAN, missed : BOOLEAN]
  /\ formLeft \in [edits : Nat, saves : Nat, faults : Nat]

\* A save is served as the schedule is, and the page has not heard of it.
Explained == \E s \in saves : s.pc = "replied" /\ s.set = schedule.set

\* A panel without other edits has one save under way at most, of what the form says;
\* it is the last word on the schedule once served.
OwnSaves ==
  /\ ~panel.open => \A s \in saves : ~s.own
  /\ \A s, t \in saves : s.own /\ t.own => s = t
  /\ panel.open /\ ~lapses.edited /\ (panel.dirty \/ Form!Pending) => \A s \in saves : s.own
  /\ \A s \in saves : panel.open /\ ~lapses.edited /\ s.own =>
        /\ \/ panel.form = s.set
           \/ ~panel.dirty /\ panel.data # None /\ panel.form = panel.data.set
        /\ s.pc = "replied" => schedule.set = s.set

\* An answer is of the schedule as it is, or a save explains it.
AnswerFits ==
  panel.fetch.pc = "answered" /\ ~lapses.missed =>
    panel.fetch.got.set = schedule.set \/ Explained

\* So is the data, once no fetch is under way.
DataFits ==
  /\ panel.open /\ ~lapses.edited /\ ~lapses.missed
  /\ panel.fetch.pc = "idle" /\ panel.data # None /\ ~panel.failed
  => panel.data.set = schedule.set \/ panel.dirty \/ Explained

\* A fetch that failed is over.
FetchFails == panel.failed => panel.fetch.pc = "idle"

\* A clean form is as the data, or as what was saved, and the data will follow.
FormFits ==
  panel.open /\ ~panel.dirty /\ panel.data # None /\ ~lapses.edited =>
    \/ panel.form = panel.data.set
    \/ /\ saves = {} /\ panel.form = schedule.set
       /\ \/ panel.failed \/ panel.fetch.pc = "asked"
          \/ panel.fetch.pc = "answered" /\ panel.fetch.got.set = schedule.set

FormInv == FormType /\ OwnSaves /\ AnswerFits /\ DataFits /\ FormFits /\ FetchFails

\* From PagesBounds.
LEMMA FormConstants == Blank \in Values /\ None \notin Form!Schedule
  BY PagesBounds DEF Form!FormBounds, Form!Schedule

\* The invariant holds at first.
LEMMA InitForm == Form!Init => FormInv
<1> SUFFICES ASSUME Form!Init PROVE FormInv
  OBVIOUS
<1>1. schedule \in Form!Schedule /\ saves = {}
  BY DEF Form!Init
<1>2. panel = [open |-> FALSE, form |-> Blank, dirty |-> FALSE, data |-> None,
               fetch |-> [pc |-> "idle", got |-> None], failed |-> FALSE]
  BY DEF Form!Init, Form!NoFetch
<1>3. [pc |-> "idle", got |-> None] \in Fetch
  BY DEF Fetch
<1>4. panel \in Panel
  BY <1>2, <1>3, FormConstants DEF Panel
<1>5. lapses \in [edited : BOOLEAN, missed : BOOLEAN]
  BY DEF Form!Init
<1>6. formLeft \in [edits : Nat, saves : Nat, faults : Nat]
  BY PagesBounds DEF Form!Init, Form!FormBounds
<1>7. ~panel.open /\ panel.fetch.pc = "idle" /\ ~panel.failed
  BY <1>2
<1> QED
  BY <1>1, <1>4, <1>5, <1>6, <1>7
  DEF FormInv, FormType, OwnSaves, AnswerFits, DataFits, FormFits, FetchFails

\* The fetches.
LEMMA FetchIs ==
  ASSUME FormType
  PROVE  /\ Form!NoFetch \in Fetch /\ Form!NoFetch.pc = "idle"
         /\ Form!Asked \in Fetch /\ Form!Asked.pc = "asked"
         /\ panel.fetch \in Fetch
         /\ panel.fetch.pc \in {"idle", "asked", "answered"}
         /\ panel.fetch.pc = "answered" => panel.fetch.got \in Form!Schedule
         /\ panel.data \in Form!Schedule \cup {None}
         /\ panel.form \in Values
         /\ panel.open \in BOOLEAN /\ panel.dirty \in BOOLEAN /\ panel.failed \in BOOLEAN
  BY DEF FormType, Panel, Fetch, Form!NoFetch, Form!Asked

\* What a schedule holds.
LEMMA ScheduleSet == \A d \in Form!Schedule : d.set \in Values
  BY DEF Form!Schedule

\* Opening fills the form with the data, if any.
LEMMA OpenForm == ASSUME FormInv, Form!Open PROVE FormInv'
<1>1. UNCHANGED <<schedule, saves, formLeft>> /\ ~panel.open
  BY DEF Form!Open
<1>2. FormType /\ OwnSaves /\ AnswerFits
  BY DEF FormInv
<1> DEFINE fetch == IF panel.fetch.pc = "idle" THEN Form!Asked ELSE panel.fetch
           p == [panel EXCEPT !.open = TRUE, !.form = Blank, !.dirty = FALSE,
                              !.fetch = fetch, !.failed = FALSE]
<1>3. panel' = IF p.data = None THEN p ELSE Form!Filled(p)
  BY DEF Form!Open
<1>4. fetch \in Fetch /\ fetch.pc # "idle"
      /\ (fetch.pc = "answered" => fetch = panel.fetch /\ panel.fetch.pc = "answered")
  BY <1>2, FetchIs
<1>5. lapses' \in [edited : BOOLEAN, missed : BOOLEAN]
      /\ (panel.fetch.pc # "idle" => lapses' = lapses)
  BY <1>2 DEF Form!Open, FormType
<1> HIDE DEF fetch
<1>6. p \in Panel /\ p.open = TRUE /\ p.form = Blank /\ p.dirty = FALSE /\ p.fetch = fetch
      /\ p.failed = FALSE /\ p.data = panel.data
  BY <1>2, <1>4, FormConstants DEF FormType, Panel
<1> HIDE DEF p
<1>7. /\ panel' \in Panel /\ panel'.open = TRUE /\ panel'.dirty = FALSE
      /\ panel'.fetch = fetch /\ panel'.data = panel.data /\ panel'.failed = FALSE
      /\ panel.data # None => panel'.form = panel.data.set
  <2>1. CASE panel.data = None
    BY <1>3, <1>6, <2>1
  <2>2. CASE panel.data # None
    <3>1. panel' = [p EXCEPT !.form = p.data.set, !.dirty = FALSE]
      BY <1>3, <1>6, <2>2 DEF Form!Filled
    <3>2. p.data \in Form!Schedule /\ p.data.set \in Values
      BY <1>2, <1>6, <2>2, FetchIs, ScheduleSet
    <3> QED
      BY <1>6, <3>1, <3>2 DEF Panel
  <2> QED
    BY <2>1, <2>2
<1>8. FormType'
  BY <1>1, <1>2, <1>5, <1>7 DEF FormType
<1>9. OwnSaves'
  BY <1>1, <1>2, <1>7 DEF OwnSaves, Form!Pending
<1>10. AnswerFits'
  <2> SUFFICES ASSUME fetch.pc = "answered", ~lapses'.missed
               PROVE  fetch.got.set = schedule.set \/ Explained
    BY <1>1, <1>7 DEF AnswerFits, Explained
  <2> QED
    BY <1>2, <1>4, <1>5 DEF AnswerFits
<1>11. DataFits' /\ FormFits' /\ FetchFails'
  BY <1>4, <1>7 DEF DataFits, FormFits, FetchFails
<1> QED
  BY <1>8, <1>9, <1>10, <1>11 DEF FormInv

\* Closing forgets the form and disowns saves.
LEMMA CloseForm == ASSUME FormInv, Form!Close PROVE FormInv'
<1>1. /\ UNCHANGED <<schedule, lapses, formLeft>>
      /\ panel' = [panel EXCEPT !.open = FALSE]
      /\ saves' = {[s EXCEPT !.own = FALSE] : s \in saves}
  BY DEF Form!Close
<1>2. FormType /\ AnswerFits /\ FetchFails
  BY DEF FormInv
<1>3. panel' \in Panel /\ panel'.open = FALSE /\ panel'.fetch = panel.fetch
      /\ panel'.failed = panel.failed
  BY <1>1, <1>2 DEF FormType, Panel
<1>4. \A s \in saves : /\ [s EXCEPT !.own = FALSE].own = FALSE
                       /\ [s EXCEPT !.own = FALSE].pc = s.pc
                       /\ [s EXCEPT !.own = FALSE].set = s.set
                       /\ [s EXCEPT !.own = FALSE]
                            \in [n : Nat, set : Values, own : BOOLEAN, pc : {"sent", "replied"}]
  BY <1>2 DEF FormType
<1>5. FormType'
  BY <1>1, <1>2, <1>3, <1>4 DEF FormType
<1>6. OwnSaves'
  BY <1>1, <1>3, <1>4 DEF OwnSaves
<1>7. Explained => Explained'
  <2> SUFFICES ASSUME NEW s \in saves, s.pc = "replied", s.set = schedule.set
               PROVE  Explained'
    BY DEF Explained
  <2> DEFINE t == [s EXCEPT !.own = FALSE]
  <2>1. t \in saves' /\ t.pc = "replied" /\ t.set = schedule'.set
    BY <1>1, <1>4
  <2> QED
    BY <2>1 DEF Explained
<1>8. AnswerFits'
  BY <1>1, <1>2, <1>3, <1>7 DEF AnswerFits
<1> QED
  BY <1>2, <1>3, <1>5, <1>6, <1>8 DEF FormInv, DataFits, FormFits, FetchFails

\* The cache drops the query of a closed panel.
LEMMA ForgetForm == ASSUME FormInv, Form!Forget PROVE FormInv'
<1>1. /\ UNCHANGED <<schedule, saves, lapses, formLeft>>
      /\ ~panel.open /\ panel.fetch.pc = "idle"
      /\ panel' = [panel EXCEPT !.data = None]
  BY DEF Form!Forget
<1>2. FormType /\ OwnSaves
  BY DEF FormInv
<1>3. panel' \in Panel /\ ~panel'.open /\ panel'.fetch.pc = "idle"
  BY <1>1, <1>2 DEF FormType, Panel
<1>4. FormType'
  BY <1>1, <1>2, <1>3 DEF FormType
<1>5. OwnSaves'
  BY <1>1, <1>2, <1>3 DEF OwnSaves
<1> QED
  BY <1>3, <1>4, <1>5 DEF FormInv, AnswerFits, DataFits, FormFits, FetchFails

\* An answer is of the schedule as it is.
LEMMA ServeGetForm == ASSUME FormInv, Form!ServeGet PROVE FormInv'
<1> DEFINE fetch == [pc |-> "answered", got |-> schedule]
<1>1. /\ UNCHANGED <<schedule, saves, lapses, formLeft>>
      /\ panel.fetch.pc = "asked" /\ panel' = [panel EXCEPT !.fetch = fetch]
  BY DEF Form!ServeGet
<1>2. FormType /\ OwnSaves /\ FormFits /\ FetchFails
  BY DEF FormInv
<1>3. fetch \in Fetch /\ fetch.pc = "answered" /\ fetch.got = schedule
  BY <1>2 DEF FormType, Fetch
<1> HIDE DEF fetch
<1>4. /\ panel' \in Panel /\ panel'.fetch = fetch
      /\ panel'.open = panel.open /\ panel'.form = panel.form /\ panel'.dirty = panel.dirty
      /\ panel'.data = panel.data /\ panel'.failed = panel.failed
  BY <1>1, <1>2, <1>3 DEF FormType, Panel
<1>5. FormType'
  BY <1>1, <1>2, <1>4 DEF FormType
<1>6. OwnSaves'
  BY <1>1, <1>2, <1>4 DEF OwnSaves, Form!Pending
<1>7. AnswerFits' /\ DataFits'
  BY <1>1, <1>3, <1>4 DEF AnswerFits, DataFits
<1>8. FormFits' /\ FetchFails'
  BY <1>1, <1>2, <1>3, <1>4 DEF FormFits, FetchFails
<1> QED
  BY <1>5, <1>6, <1>7, <1>8 DEF FormInv

\* An answer becomes the data, and the form if it is clean and the data is another.
LEMMA GetArrivesForm == ASSUME FormInv, Form!GetArrives PROVE FormInv'
<1> DEFINE got == panel.fetch.got
           q == [panel EXCEPT !.data = got]
           r == Form!Filled(q)
           full == panel.open /\ got # panel.data
           p == IF full THEN r ELSE q
<1>1. /\ UNCHANGED <<schedule, saves, lapses, formLeft>>
      /\ panel.fetch.pc = "answered" /\ panel' = [p EXCEPT !.fetch = Form!NoFetch]
  BY DEF Form!GetArrives, Form!WithData
<1>2. FormType /\ OwnSaves /\ AnswerFits /\ FormFits /\ ~panel.failed
  BY <1>1 DEF FormInv, FetchFails
<1>3. got \in Form!Schedule /\ got # None /\ got.set \in Values
  BY <1>1, <1>2, FetchIs, ScheduleSet, FormConstants
<1> HIDE DEF got
<1>4. /\ q \in Panel /\ q.data = got /\ q.open = panel.open /\ q.form = panel.form
      /\ q.dirty = panel.dirty /\ q.failed = panel.failed
  BY <1>2, <1>3 DEF FormType, Panel
<1>5. r = [q EXCEPT !.form = q.data.set, !.dirty = FALSE]
  BY DEF Form!Filled
<1> HIDE DEF q, r, full
<1>6. /\ r \in Panel /\ r.data = got /\ r.open = panel.open /\ r.form = got.set
      /\ r.dirty = FALSE /\ r.failed = panel.failed
  BY <1>3, <1>4, <1>5 DEF Panel
<1>7. /\ p \in Panel /\ p.data = got /\ p.open = panel.open /\ p.failed = panel.failed
      /\ full => p.form = got.set /\ p.dirty = FALSE
      /\ ~full => p.form = panel.form /\ p.dirty = panel.dirty
  BY <1>4, <1>6
<1> HIDE DEF p
<1>8. /\ panel' \in Panel /\ panel'.data = p.data /\ panel'.open = p.open
      /\ panel'.failed = p.failed /\ panel'.form = p.form /\ panel'.dirty = p.dirty
      /\ panel'.fetch.pc = "idle"
  BY <1>1, <1>2, <1>7, FetchIs DEF Panel
<1>9. full = (panel.open /\ got # panel.data)
  BY DEF full
<1>10. FormType'
  BY <1>1, <1>2, <1>8 DEF FormType
<1>11. OwnSaves'
  <2>1. Form!Pending' = Form!Pending
    BY <1>1 DEF Form!Pending
  <2>2. /\ ~panel'.open => \A s \in saves' : ~s.own
        /\ \A s, t \in saves' : s.own /\ t.own => s = t
    BY <1>1, <1>2, <1>7, <1>8 DEF OwnSaves
  <2>3. panel'.open /\ ~lapses'.edited /\ (panel'.dirty \/ Form!Pending')
          => \A s \in saves' : s.own
    BY <1>1, <1>2, <1>7, <1>8, <2>1 DEF OwnSaves
  <2>4. ASSUME NEW s \in saves, panel.open, ~lapses.edited, s.own
        PROVE  /\ \/ panel'.form = s.set
                  \/ ~panel'.dirty /\ panel'.data # None /\ panel'.form = panel'.data.set
               /\ s.pc = "replied" => schedule.set = s.set
    <3>1. CASE full
      BY <1>2, <1>3, <1>7, <1>8, <2>4, <3>1 DEF OwnSaves
    <3>2. CASE ~full
      BY <1>2, <1>7, <1>8, <1>9, <2>4, <3>2 DEF OwnSaves
    <3> QED
      BY <3>1, <3>2
  <2> QED
    BY <1>1, <1>7, <1>8, <2>2, <2>3, <2>4 DEF OwnSaves
<1>12. DataFits'
  <2> SUFFICES ASSUME ~lapses.missed PROVE got.set = schedule.set \/ Explained
    BY <1>1, <1>7, <1>8 DEF DataFits, Explained
  <2> QED
    BY <1>1, <1>2 DEF AnswerFits, got
<1>13. FormFits'
  <2> SUFFICES ASSUME panel.open, ~panel'.dirty, ~lapses.edited
               PROVE  panel'.form = got.set
    BY <1>1, <1>7, <1>8 DEF FormFits
  <2>1. CASE full
    BY <1>7, <1>8, <2>1
  <2>2. CASE ~full
    <3>1. panel.data = got /\ ~panel.dirty /\ panel'.form = panel.form
      BY <1>7, <1>8, <1>9, <2>2
    <3>2. \/ panel.form = panel.data.set
          \/ /\ panel.form = schedule.set
             /\ panel.fetch.got.set = schedule.set
      BY <1>1, <1>2, <1>3, <3>1 DEF FormFits
    <3> QED
      BY <3>1, <3>2 DEF got
  <2> QED
    BY <2>1, <2>2
<1>14. AnswerFits' /\ FetchFails'
  BY <1>8 DEF AnswerFits, FetchFails
<1> QED
  BY <1>10, <1>11, <1>12, <1>13, <1>14 DEF FormInv

\* A fetch fails.
LEMMA GetFailsForm == ASSUME FormInv, Form!GetFails PROVE FormInv'
<1>1. /\ UNCHANGED <<schedule, saves, lapses>>
      /\ panel.fetch.pc # "idle"
      /\ panel' = [panel EXCEPT !.fetch = Form!NoFetch, !.failed = TRUE]
      /\ formLeft.faults > 0 /\ formLeft' = [formLeft EXCEPT !.faults = @ - 1]
  BY DEF Form!GetFails, Form!Fault
<1>2. FormType /\ OwnSaves /\ FormFits
  BY DEF FormInv
<1>3. /\ panel' \in Panel /\ panel'.fetch.pc = "idle" /\ panel'.failed = TRUE
      /\ panel'.open = panel.open /\ panel'.form = panel.form /\ panel'.dirty = panel.dirty
      /\ panel'.data = panel.data
  BY <1>1, <1>2, FetchIs DEF FormType, Panel
<1>4. formLeft' \in [edits : Nat, saves : Nat, faults : Nat]
  BY <1>1, <1>2 DEF FormType
<1>5. FormType'
  BY <1>1, <1>2, <1>3, <1>4 DEF FormType
<1>6. OwnSaves'
  BY <1>1, <1>2, <1>3 DEF OwnSaves, Form!Pending
<1>7. AnswerFits' /\ DataFits' /\ FetchFails'
  BY <1>3 DEF AnswerFits, DataFits, FetchFails
<1>8. FormFits'
  BY <1>1, <1>2, <1>3 DEF FormFits
<1> QED
  BY <1>5, <1>6, <1>7, <1>8 DEF FormInv

\* An edit makes the form dirty.
LEMMA EditForm == ASSUME FormInv, NEW v \in Values, Form!Edit(v) PROVE FormInv'
<1>1. /\ UNCHANGED <<schedule, saves>> /\ panel.open
      /\ panel' = [panel EXCEPT !.form = v, !.dirty = TRUE]
      /\ formLeft.edits > 0 /\ formLeft' = [formLeft EXCEPT !.edits = @ - 1]
      /\ lapses' = [lapses EXCEPT !.edited = @ \/ saves # {}]
  BY DEF Form!Edit
<1>2. FormType /\ OwnSaves /\ AnswerFits /\ FetchFails
  BY DEF FormInv
<1>3. /\ panel' \in Panel /\ panel'.fetch = panel.fetch /\ panel'.failed = panel.failed
      /\ panel'.open = panel.open /\ panel'.dirty = TRUE
  BY <1>1, <1>2 DEF FormType, Panel
<1>4. formLeft' \in [edits : Nat, saves : Nat, faults : Nat]
  BY <1>1, <1>2 DEF FormType
<1>5. /\ lapses' \in [edited : BOOLEAN, missed : BOOLEAN]
      /\ lapses'.missed = lapses.missed /\ (~lapses'.edited => saves = {})
  BY <1>1, <1>2 DEF FormType
<1>6. FormType'
  BY <1>1, <1>2, <1>3, <1>4, <1>5 DEF FormType
<1>7. OwnSaves'
  BY <1>1, <1>2, <1>3, <1>5 DEF OwnSaves
<1>8. AnswerFits'
  BY <1>1, <1>2, <1>3, <1>5 DEF AnswerFits, Explained
<1> QED
  BY <1>2, <1>3, <1>6, <1>7, <1>8 DEF FormInv, DataFits, FormFits, FetchFails

\* A save is of the form.
LEMMA SaveForm == ASSUME FormInv, Form!Save PROVE FormInv'
<1> DEFINE new == [n |-> formLeft.saves, set |-> panel.form, own |-> TRUE, pc |-> "sent"]
<1>1. /\ UNCHANGED <<schedule, panel, lapses>> /\ panel.open /\ panel.dirty
      /\ formLeft.saves > 0 /\ formLeft' = [formLeft EXCEPT !.saves = @ - 1]
      /\ saves' = saves \cup {new} /\ \A s \in saves : ~s.own
  BY DEF Form!Save, Form!CanSave, Form!Pending
<1>2. FormType /\ OwnSaves /\ AnswerFits /\ FetchFails
  BY DEF FormInv
<1>3. /\ new \in [n : Nat, set : Values, own : BOOLEAN, pc : {"sent", "replied"}]
      /\ new.own /\ new.set = panel.form /\ new.pc = "sent"
  BY <1>2, FetchIs DEF FormType
<1> HIDE DEF new
<1>4. formLeft' \in [edits : Nat, saves : Nat, faults : Nat]
  BY <1>1, <1>2 DEF FormType
<1>5. FormType'
  BY <1>1, <1>2, <1>3, <1>4 DEF FormType
<1>6. OwnSaves'
  BY <1>1, <1>2, <1>3 DEF OwnSaves, Form!Pending
<1>7. AnswerFits'
  BY <1>1, <1>2 DEF AnswerFits, Explained
<1> QED
  BY <1>1, <1>2, <1>5, <1>6, <1>7 DEF FormInv, DataFits, FormFits, FetchFails

\* A save served is the schedule.
LEMMA ServePutForm ==
  ASSUME FormInv, NEW s \in saves, Form!ServePut(s) PROVE FormInv'
<1> DEFINE t == [s EXCEPT !.pc = "replied"]
<1>1. /\ UNCHANGED <<panel, lapses, formLeft>> /\ s.pc = "sent"
      /\ schedule' \in Form!Schedule /\ schedule'.set = s.set
      /\ saves' = (saves \ {s}) \cup {t}
  BY DEF Form!ServePut
<1>2. FormType /\ OwnSaves /\ FormFits /\ FetchFails
  BY DEF FormInv
<1>3. /\ t \in [n : Nat, set : Values, own : BOOLEAN, pc : {"sent", "replied"}]
      /\ t.own = s.own /\ t.set = s.set /\ t.pc = "replied"
  BY <1>2 DEF FormType
<1> HIDE DEF t
<1>4. FormType'
  BY <1>1, <1>2, <1>3 DEF FormType
<1>5. Explained' /\ saves # {}
  BY <1>1, <1>3 DEF Explained
<1>6. OwnSaves'
  <2>1. \A u \in saves' : u = t \/ u \in saves
    BY <1>1
  <2>2. Form!Pending' => Form!Pending
    BY <1>1, <1>3 DEF Form!Pending
  <2>3. /\ ~panel'.open => \A u \in saves' : ~u.own
        /\ \A u, v \in saves' : u.own /\ v.own => u = v
    BY <1>1, <1>2, <1>3, <2>1 DEF OwnSaves
  <2>4. panel'.open /\ ~lapses'.edited /\ (panel'.dirty \/ Form!Pending')
          => \A u \in saves' : u.own
    BY <1>1, <1>2, <1>3, <2>1, <2>2 DEF OwnSaves
  <2>5. ASSUME NEW u \in saves', panel.open, ~lapses.edited, u.own
        PROVE  /\ \/ panel.form = u.set
                  \/ ~panel.dirty /\ panel.data # None /\ panel.form = panel.data.set
               /\ u.pc = "replied" => schedule'.set = u.set
    <3>1. CASE u = t
      BY <1>1, <1>2, <1>3, <2>5, <3>1 DEF OwnSaves
    <3>2. CASE u # t
      <4>1. u \in saves /\ u # s /\ Form!Pending
        BY <1>1, <2>5, <3>2 DEF Form!Pending
      <4>2. s.own
        BY <1>2, <2>5, <4>1 DEF OwnSaves
      <4> QED
        BY <1>2, <2>5, <4>1, <4>2 DEF OwnSaves
    <3> QED
      BY <3>1, <3>2
  <2> QED
    BY <1>1, <2>3, <2>4, <2>5 DEF OwnSaves
<1>7. AnswerFits' /\ DataFits'
  BY <1>5 DEF AnswerFits, DataFits
<1>8. FormFits' /\ FetchFails'
  BY <1>1, <1>2, <1>5 DEF FormFits, FetchFails
<1> QED
  BY <1>4, <1>6, <1>7, <1>8 DEF FormInv

\* A save heard of makes the form clean and the query ask again.
LEMMA SaveSucceedsForm ==
  ASSUME FormInv, NEW s \in saves, Form!SaveSucceeds(s) PROVE FormInv'
<1> DEFINE again == panel.open /\ ~Form!FirstLoad
           q == Form!Invalidated(panel)
<1>1. /\ UNCHANGED <<schedule, formLeft>> /\ s.pc = "replied"
      /\ saves' = saves \ {s}
      /\ panel' = [q EXCEPT !.dirty = @ /\ ~s.own]
      /\ lapses' = [lapses EXCEPT !.missed = IF again THEN FALSE
                                             ELSE @ \/ panel.fetch.pc # "idle"]
  BY DEF Form!SaveSucceeds
<1>2. FormType /\ OwnSaves /\ AnswerFits /\ DataFits /\ FormFits /\ FetchFails
  BY DEF FormInv
<1>3. /\ q \in Panel /\ q.open = panel.open /\ q.form = panel.form /\ q.dirty = panel.dirty
      /\ q.data = panel.data
      /\ again => q.fetch.pc = "asked" /\ ~q.failed
      /\ ~again => q.fetch = panel.fetch /\ q.failed = panel.failed
  BY <1>2, FetchIs DEF FormType, Panel, Form!Invalidated
<1>4. s.own \in BOOLEAN
  BY <1>2 DEF FormType
<1> HIDE DEF q, again
<1>5. /\ panel' \in Panel /\ panel'.open = panel.open /\ panel'.form = panel.form
      /\ panel'.dirty = (panel.dirty /\ ~s.own) /\ panel'.data = panel.data
      /\ panel'.fetch = q.fetch /\ panel'.failed = q.failed
  BY <1>1, <1>3, <1>4 DEF Panel
<1>6. /\ lapses' \in [edited : BOOLEAN, missed : BOOLEAN] /\ lapses'.edited = lapses.edited
      /\ ~again /\ ~lapses'.missed => ~lapses.missed /\ panel.fetch.pc = "idle"
  BY <1>1, <1>2 DEF FormType
<1>7. FormType'
  BY <1>1, <1>2, <1>5, <1>6 DEF FormType
<1>8. OwnSaves'
  BY <1>1, <1>2, <1>5, <1>6 DEF OwnSaves, Form!Pending
<1>9. AnswerFits' /\ FetchFails'
  BY <1>2, <1>3, <1>5, <1>6 DEF AnswerFits, FetchFails
<1>10. panel.open /\ panel.data # None => again
  BY DEF again, Form!FirstLoad
<1>11. DataFits'
  BY <1>3, <1>5, <1>10 DEF DataFits
<1>12. FormFits'
  <2> SUFFICES ASSUME panel.open, ~panel'.dirty, panel.data # None, ~lapses.edited,
                      panel.form # panel.data.set
               PROVE  saves' = {} /\ panel.form = schedule.set
    BY <1>1, <1>3, <1>5, <1>6, <1>10 DEF FormFits
  <2>1. s.own
    BY <1>2, <1>5 DEF FormFits
  <2>2. \A t \in saves : t = s
    BY <1>2, <2>1 DEF OwnSaves, Form!Pending
  <2>3. panel.form = s.set /\ schedule.set = s.set
    BY <1>1, <1>2, <2>1 DEF OwnSaves
  <2> QED
    BY <1>1, <2>2, <2>3
<1> QED
  BY <1>7, <1>8, <1>9, <1>11, <1>12 DEF FormInv

\* A save that fails is missed, unless the form still says it and no fetch is under way.
LEMMA SaveFailsForm ==
  ASSUME FormInv, NEW s \in saves, Form!SaveFails(s) PROVE FormInv'
<1>1. /\ UNCHANGED <<schedule, panel>> /\ saves' = saves \ {s}
      /\ lapses' = [lapses EXCEPT !.missed = @ \/ ~s.own \/ panel.fetch.pc # "idle"
                                               \/ panel.form # s.set]
      /\ formLeft.faults > 0 /\ formLeft' = [formLeft EXCEPT !.faults = @ - 1]
  BY DEF Form!SaveFails, Form!Fault
<1>2. FormType /\ OwnSaves /\ AnswerFits /\ DataFits /\ FormFits /\ FetchFails
  BY DEF FormInv
<1>3. /\ lapses' \in [edited : BOOLEAN, missed : BOOLEAN] /\ lapses'.edited = lapses.edited
      /\ ~lapses'.missed => /\ ~lapses.missed /\ s.own
                            /\ panel.fetch.pc = "idle" /\ panel.form = s.set
  BY <1>1, <1>2 DEF FormType
<1>4. formLeft' \in [edits : Nat, saves : Nat, faults : Nat]
  BY <1>1, <1>2 DEF FormType
<1>5. FormType'
  BY <1>1, <1>2, <1>3, <1>4 DEF FormType
<1>6. OwnSaves'
  BY <1>1, <1>2, <1>3 DEF OwnSaves, Form!Pending
<1>7. AnswerFits' /\ FetchFails'
  BY <1>1, <1>2, <1>3 DEF AnswerFits, FetchFails
<1>8. FormFits'
  BY <1>1, <1>2, <1>3 DEF FormFits
<1>9. DataFits'
  <2> SUFFICES ASSUME panel.open, ~lapses.edited, ~lapses'.missed, panel.fetch.pc = "idle",
                      panel.data # None, ~panel.failed, ~panel.dirty,
                      panel.data.set # schedule.set
               PROVE  Explained'
    BY <1>1, <1>3 DEF DataFits
  <2>1. PICK t \in saves : t.pc = "replied" /\ t.set = schedule.set
    BY <1>2, <1>3 DEF DataFits, Explained
  <2>2. panel.form = panel.data.set /\ panel.form = s.set
    BY <1>2, <1>3 DEF FormFits
  <2>3. t # s
    BY <2>1, <2>2
  <2> QED
    BY <1>1, <2>1, <2>3 DEF Explained
<1> QED
  BY <1>5, <1>6, <1>7, <1>8, <1>9 DEF FormInv

\* Every step of the panel keeps its invariant.
LEMMA NextForm == ASSUME FormInv, [Form!Next]_formVars PROVE FormInv'
<1>1. CASE UNCHANGED formVars
  BY <1>1 DEF formVars, FormInv, FormType, OwnSaves, AnswerFits, DataFits, FormFits,
              FetchFails, Explained, Form!Pending
<1>2. CASE Form!Next
  BY <1>2, OpenForm, CloseForm, ForgetForm, ServeGetForm, GetArrivesForm, GetFailsForm,
     EditForm, SaveForm, ServePutForm, SaveSucceedsForm, SaveFailsForm DEF Form!Next
<1> QED
  BY <1>1, <1>2

\* The property, from the invariant.
LEMMA CleanFormIsSaved == FormInv => Form!FormIsSaved
<1> SUFFICES ASSUME FormInv, panel.open, ~panel.dirty, panel.data # None, ~panel.failed,
                    panel.fetch.pc = "idle", saves = {}, ~lapses.edited, ~lapses.missed
             PROVE  panel.form = schedule.set
  <2>1. lapses = [edited |-> FALSE, missed |-> FALSE] => ~lapses.edited /\ ~lapses.missed
    OBVIOUS
  <2> QED
    BY <2>1 DEF Form!FormIsSaved
<1>1. panel.data.set = schedule.set
  BY DEF FormInv, DataFits, Explained
<1>2. panel.form = panel.data.set
  BY DEF FormInv, FormFits
<1> QED
  BY <1>1, <1>2

-----------------------------------------------------------------------------
\* The schedule panel of the demo.

\* The panel.
DemoPanel == [open : BOOLEAN, form : Values, dirty : BOOLEAN,
              data : Values \cup {None}, busy : BOOLEAN]

\* The type invariant.
PlanType ==
  /\ plan \in Values
  /\ demoPanel \in DemoPanel
  /\ demoSaves \in SUBSET [n : Nat, set : Values, own : BOOLEAN]
  /\ edited \in BOOLEAN
  /\ demoFormLeft \in [edits : Nat, saves : Nat]

\* Saves are served in order, and only the last is one of this opening, of what the form says.
PlanSaves ==
  /\ \A s \in demoSaves : demoFormLeft.saves < s.n
  /\ ~demoPanel.open => \A s \in demoSaves : ~s.own
  /\ \A s, t \in demoSaves : s.own => t = s \/ s.n < t.n
  /\ \A s \in demoSaves : demoPanel.open /\ ~edited /\ s.own =>
        \/ demoPanel.form = s.set
        \/ ~demoPanel.dirty /\ demoPanel.data # None /\ demoPanel.form = demoPanel.data

\* The data is the plan, or is being asked for; a clean form is as the data, or as the
\* plan.
PlanFits ==
  demoPanel.open /\ demoPanel.data # None =>
    /\ demoPanel.busy \/ demoPanel.data = plan
    /\ ~demoPanel.dirty /\ ~edited =>
         \/ demoPanel.form = demoPanel.data
         \/ demoSaves = {} /\ demoPanel.form = plan /\ demoPanel.busy

PlanInv == PlanType /\ PlanSaves /\ PlanFits

\* From PagesBounds.
LEMMA PlanConstants == Blank \in Values /\ None \notin Values
  BY PagesBounds DEF Plan!DemoFormBounds

\* The invariant holds at first.
LEMMA InitPlan == Plan!Init => PlanInv
<1> SUFFICES ASSUME Plan!Init PROVE PlanInv
  OBVIOUS
<1>1. /\ plan \in Values /\ demoSaves = {} /\ edited = FALSE
      /\ demoPanel = [open |-> FALSE, form |-> Blank, dirty |-> FALSE, data |-> None,
                      busy |-> FALSE]
      /\ demoFormLeft = [edits |-> MaxEdits, saves |-> MaxSaves]
  BY DEF Plan!Init
<1>2. demoPanel \in DemoPanel /\ ~demoPanel.open
  BY <1>1, PlanConstants DEF DemoPanel
<1>3. demoFormLeft \in [edits : Nat, saves : Nat]
  BY <1>1, PagesBounds DEF Plan!DemoFormBounds
<1> QED
  BY <1>1, <1>2, <1>3 DEF PlanInv, PlanType, PlanSaves, PlanFits

\* Opening fills the form with the data, if any.
LEMMA OpenPlan == ASSUME PlanInv, Plan!Open PROVE PlanInv'
<1> DEFINE p == [demoPanel EXCEPT !.open = TRUE, !.form = Blank, !.dirty = FALSE,
                                  !.busy = TRUE]
<1>1. /\ UNCHANGED <<plan, demoSaves, demoFormLeft>> /\ edited' = FALSE
      /\ ~demoPanel.open
      /\ demoPanel' = IF p.data = None THEN p ELSE Plan!Filled(p)
  BY DEF Plan!Open
<1>2. PlanType /\ PlanSaves
  BY DEF PlanInv
<1>3. /\ p \in DemoPanel /\ p.open = TRUE /\ p.dirty = FALSE /\ p.busy = TRUE
      /\ p.data = demoPanel.data
  BY <1>2, PlanConstants DEF PlanType, DemoPanel
<1> HIDE DEF p
<1>4. /\ demoPanel' \in DemoPanel /\ demoPanel'.open = TRUE /\ demoPanel'.dirty = FALSE
      /\ demoPanel'.busy = TRUE /\ demoPanel'.data = demoPanel.data
      /\ demoPanel.data # None => demoPanel'.form = demoPanel.data
  BY <1>1, <1>3 DEF Plan!Filled, DemoPanel
<1>5. PlanType'
  BY <1>1, <1>2, <1>4 DEF PlanType
<1>6. PlanSaves'
  BY <1>1, <1>2, <1>4 DEF PlanSaves
<1>7. PlanFits'
  BY <1>4 DEF PlanFits
<1> QED
  BY <1>5, <1>6, <1>7 DEF PlanInv

\* Closing disowns saves.
LEMMA ClosePlan == ASSUME PlanInv, Plan!Close PROVE PlanInv'
<1>1. /\ UNCHANGED <<plan, edited, demoFormLeft>>
      /\ demoPanel' = [demoPanel EXCEPT !.open = FALSE]
      /\ demoSaves' = {[s EXCEPT !.own = FALSE] : s \in demoSaves}
  BY DEF Plan!Close
<1>2. PlanType /\ PlanSaves
  BY DEF PlanInv
<1>3. demoPanel' \in DemoPanel /\ demoPanel'.open = FALSE
  BY <1>1, <1>2 DEF PlanType, DemoPanel
<1>4. \A s \in demoSaves : /\ [s EXCEPT !.own = FALSE].own = FALSE
                           /\ [s EXCEPT !.own = FALSE].n = s.n
                           /\ [s EXCEPT !.own = FALSE] \in [n : Nat, set : Values, own : BOOLEAN]
  BY <1>2 DEF PlanType
<1>5. PlanType'
  BY <1>1, <1>2, <1>3, <1>4 DEF PlanType
<1>6. PlanSaves'
  BY <1>1, <1>2, <1>3, <1>4 DEF PlanSaves
<1> QED
  BY <1>3, <1>5, <1>6 DEF PlanInv, PlanFits

\* The cache drops the query of a closed panel.
LEMMA ForgetPlan == ASSUME PlanInv, Plan!Forget PROVE PlanInv'
<1>1. /\ UNCHANGED <<plan, demoSaves, edited, demoFormLeft>> /\ ~demoPanel.open
      /\ demoPanel' = [demoPanel EXCEPT !.data = None]
  BY DEF Plan!Forget
<1>2. PlanType /\ PlanSaves
  BY DEF PlanInv
<1>3. demoPanel' \in DemoPanel /\ ~demoPanel'.open
  BY <1>1, <1>2 DEF PlanType, DemoPanel
<1>4. PlanType'
  BY <1>1, <1>2, <1>3 DEF PlanType
<1>5. PlanSaves'
  BY <1>1, <1>2, <1>3 DEF PlanSaves
<1> QED
  BY <1>3, <1>4, <1>5 DEF PlanInv, PlanFits

\* An answer becomes the data, and the form if it is clean and the data is another.
LEMMA GetPlan == ASSUME PlanInv, Plan!GetSchedule PROVE PlanInv'
<1> DEFINE p == [demoPanel EXCEPT !.data = plan, !.busy = FALSE]
           full == demoPanel.open /\ plan # demoPanel.data
<1>1. /\ UNCHANGED <<plan, demoSaves, edited, demoFormLeft>>
      /\ demoPanel' = IF full THEN Plan!Filled(p) ELSE p
  BY DEF Plan!GetSchedule
<1>2. PlanType /\ PlanSaves /\ PlanFits
  BY DEF PlanInv
<1>3. /\ p \in DemoPanel /\ p.data = plan /\ p.open = demoPanel.open /\ p.form = demoPanel.form
      /\ p.dirty = demoPanel.dirty
  BY <1>2 DEF PlanType, DemoPanel
<1>4. full = (demoPanel.open /\ plan # demoPanel.data)
  OBVIOUS
<1> HIDE DEF p, full
<1>5. /\ demoPanel' \in DemoPanel /\ demoPanel'.open = demoPanel.open
      /\ demoPanel'.data = plan
      /\ full => demoPanel'.form = plan /\ demoPanel'.dirty = FALSE
      /\ ~full => demoPanel'.form = demoPanel.form /\ demoPanel'.dirty = demoPanel.dirty
  BY <1>1, <1>2, <1>3 DEF PlanType, Plan!Filled, DemoPanel
<1>6. plan # None
  BY <1>2, PlanConstants DEF PlanType
<1>7. PlanType'
  BY <1>1, <1>2, <1>5 DEF PlanType
<1>8. PlanSaves'
  BY <1>1, <1>2, <1>4, <1>5, <1>6 DEF PlanSaves
<1>9. PlanFits'
  BY <1>1, <1>2, <1>4, <1>5, <1>6 DEF PlanFits
<1> QED
  BY <1>7, <1>8, <1>9 DEF PlanInv

\* An edit makes the form dirty.
LEMMA EditPlan == ASSUME PlanInv, NEW v \in Values, Plan!Edit(v) PROVE PlanInv'
<1>1. /\ UNCHANGED <<plan, demoSaves>> /\ demoPanel.open
      /\ demoPanel' = [demoPanel EXCEPT !.form = v, !.dirty = TRUE]
      /\ demoFormLeft.edits > 0 /\ demoFormLeft' = [demoFormLeft EXCEPT !.edits = @ - 1]
      /\ edited' = (edited \/ \E s \in demoSaves : s.own)
  BY DEF Plan!Edit, Plan!Pending
<1>2. PlanType /\ PlanSaves /\ PlanFits
  BY DEF PlanInv
<1>3. /\ demoPanel' \in DemoPanel /\ demoPanel'.open = demoPanel.open
      /\ demoPanel'.dirty = TRUE /\ demoPanel'.data = demoPanel.data
      /\ demoPanel'.busy = demoPanel.busy
  BY <1>1, <1>2 DEF PlanType, DemoPanel
<1>4. demoFormLeft' \in [edits : Nat, saves : Nat] /\ demoFormLeft'.saves = demoFormLeft.saves
  BY <1>1, <1>2 DEF PlanType
<1>5. PlanType'
  BY <1>1, <1>2, <1>3, <1>4 DEF PlanType
<1>6. PlanSaves'
  BY <1>1, <1>2, <1>3, <1>4 DEF PlanSaves
<1>7. PlanFits'
  BY <1>1, <1>2, <1>3 DEF PlanFits
<1> QED
  BY <1>5, <1>6, <1>7 DEF PlanInv

\* A save is of the form.
LEMMA SavePlan == ASSUME PlanInv, Plan!Save PROVE PlanInv'
<1> DEFINE new == [n |-> demoFormLeft.saves, set |-> demoPanel.form, own |-> TRUE]
<1>1. /\ UNCHANGED <<plan, demoPanel, edited>> /\ demoPanel.open /\ demoPanel.dirty
      /\ demoFormLeft.saves > 0 /\ demoFormLeft' = [demoFormLeft EXCEPT !.saves = @ - 1]
      /\ demoSaves' = demoSaves \cup {new} /\ \A s \in demoSaves : ~s.own
  BY DEF Plan!Save, Plan!Pending
<1>2. PlanType /\ PlanSaves /\ PlanFits
  BY DEF PlanInv
<1>3. /\ new \in [n : Nat, set : Values, own : BOOLEAN]
      /\ new.own /\ new.set = demoPanel.form /\ new.n = demoFormLeft.saves
  BY <1>2 DEF PlanType, DemoPanel
<1> HIDE DEF new
<1>4. /\ demoFormLeft' \in [edits : Nat, saves : Nat]
      /\ demoFormLeft'.saves = demoFormLeft.saves - 1 /\ demoFormLeft.saves \in Nat
  BY <1>1, <1>2 DEF PlanType
<1>5. PlanType'
  BY <1>1, <1>2, <1>3, <1>4 DEF PlanType
<1>6. \A s \in demoSaves : s.n \in Nat
  BY <1>2 DEF PlanType
<1>7. PlanSaves'
  BY <1>1, <1>2, <1>3, <1>4, <1>6 DEF PlanSaves
<1>8. PlanFits'
  BY <1>1, <1>2 DEF PlanFits
<1> QED
  BY <1>5, <1>7, <1>8 DEF PlanInv

\* A save is served and heard of in one step: the plan, and the query asks again.
LEMMA PutPlan ==
  ASSUME PlanInv, NEW s \in demoSaves, Plan!PutSchedule(s) PROVE PlanInv'
<1>1. /\ UNCHANGED <<edited, demoFormLeft>> /\ plan' = s.set
      /\ demoSaves' = demoSaves \ {s} /\ \A o \in demoSaves : o.n <= s.n
      /\ demoPanel' = [demoPanel EXCEPT !.busy = @ \/ demoPanel.open, !.dirty = @ /\ ~s.own]
  BY DEF Plan!PutSchedule
<1>2. PlanType /\ PlanSaves /\ PlanFits
  BY DEF PlanInv
<1>3. s \in [n : Nat, set : Values, own : BOOLEAN] /\ \A o \in demoSaves : o.n \in Nat
  BY <1>2 DEF PlanType
<1>4. /\ demoPanel' \in DemoPanel /\ demoPanel'.open = demoPanel.open
      /\ demoPanel'.form = demoPanel.form /\ demoPanel'.data = demoPanel.data
      /\ demoPanel'.dirty = (demoPanel.dirty /\ ~s.own)
      /\ demoPanel.open => demoPanel'.busy = TRUE
  BY <1>1, <1>2, <1>3 DEF PlanType, DemoPanel
<1>5. PlanType'
  BY <1>1, <1>2, <1>3, <1>4 DEF PlanType
<1>6. PlanSaves'
  BY <1>1, <1>2, <1>4 DEF PlanSaves
<1>7. PlanFits'
  <2> SUFFICES ASSUME demoPanel.open, demoPanel.data # None, ~demoPanel'.dirty, ~edited,
                      demoPanel.form # demoPanel.data
               PROVE  demoSaves' = {} /\ demoPanel.form = s.set
    BY <1>1, <1>4 DEF PlanFits
  <2>1. s.own
    BY <1>2, <1>4 DEF PlanFits
  <2>2. \A t \in demoSaves : t = s
    <3>1. \A t \in demoSaves : t = s \/ s.n < t.n
      BY <1>2, <2>1 DEF PlanSaves
    <3> QED
      BY <1>1, <1>3, <3>1
  <2>3. demoPanel.form = s.set
    BY <1>2, <2>1 DEF PlanSaves
  <2> QED
    BY <1>1, <2>2, <2>3
<1> QED
  BY <1>5, <1>6, <1>7 DEF PlanInv

\* Every step of the panel keeps its invariant.
LEMMA NextPlan == ASSUME PlanInv, [Plan!Next]_planVars PROVE PlanInv'
<1>1. CASE UNCHANGED planVars
  BY <1>1 DEF planVars, PlanInv, PlanType, PlanSaves, PlanFits
<1>2. CASE Plan!Next
  BY <1>2, OpenPlan, ClosePlan, ForgetPlan, GetPlan, EditPlan, SavePlan, PutPlan
  DEF Plan!Next
<1> QED
  BY <1>1, <1>2

\* The property, from the invariant.
LEMMA CleanFormIsPlan == PlanInv => Plan!DemoFormIsSaved
  BY DEF PlanInv, PlanFits, Plan!DemoFormIsSaved

-----------------------------------------------------------------------------
\* The accounts page.

\* Rows of the table, of answers, and the page with its requests.
Row == [active : BOOLEAN, label : Labels, connected : BOOLEAN]
RowLists == UNION {[S -> Row] : S \in SUBSET Accounts}
Tables == UNION {[S -> Acc!Stored] : S \in SUBSET Accounts}
AccountsFetch == [pc : {"idle", "asked", "answered"}, list : RowLists \cup {None}]
AccountsPage == [mounted : BOOLEAN, store : RowLists, data : RowLists \cup {None},
                 fetch : AccountsFetch, failed : BOOLEAN]
Op == Acc!Changes \cup [field : {"delete"}, value : {None}]
AccountWrite == [n : Nat, id : Accounts, op : Op, pc : {"sent", "updated", "replied"},
                 reply : Row \cup {None}]

\* The type invariant.
ListType ==
  /\ accounts \in Tables
  /\ accountsPage \in AccountsPage
  /\ accountsPage.fetch.pc = "answered" => accountsPage.fetch.list \in RowLists
  /\ accountWrites \in SUBSET AccountWrite
  /\ \A w \in accountWrites : /\ w.pc = "updated" => w.op.field # "delete"
                              /\ w.pc = "replied" /\ w.op.field # "delete" => w.reply \in Row
  /\ seen \in [missed : BOOLEAN, raced : SUBSET Accounts]
  /\ used \in [writes : Nat, lapses : Nat, ids : SUBSET Accounts]

\* A list has an account as the table does.
Matches(l, t, i) ==
  /\ i \in DOMAIN l <=> i \in DOMAIN t
  /\ i \in DOMAIN l => l[i].active = t[i].active /\ l[i].label = t[i].label

\* A write of the account was served, and the page has not heard of it.
AccountExplained(i) == \E w \in accountWrites :
  /\ w.id = i
  /\ i \in DOMAIN accounts => w.pc # "sent"
  /\ i \notin DOMAIN accounts => w.pc = "replied" /\ w.op.field = "delete"

\* Ids are given out once.
UsedIds ==
  /\ DOMAIN accounts \subseteq used.ids
  /\ DOMAIN accountsPage.store \subseteq used.ids
  /\ accountsPage.data # None => DOMAIN accountsPage.data \subseteq used.ids
  /\ accountsPage.fetch.list # None => DOMAIN accountsPage.fetch.list \subseteq used.ids
  /\ \A w \in accountWrites : w.id \in used.ids

\* Two writes of one account race.
OneWrite == \A w, v \in accountWrites : w.id = v.id /\ w # v => w.id \in seen.raced

\* A reply is as the table, unless others changed the account.
Replies == \A w \in accountWrites :
  w.pc = "replied" /\ w.id \notin seen.raced =>
    /\ w.op.field = "delete" => w.id \notin DOMAIN accounts
    /\ w.op.field # "delete" => /\ w.id \in DOMAIN accounts
                                /\ w.reply.active = accounts[w.id].active
                                /\ w.reply.label = accounts[w.id].label

\* A list read is as the table, or a write under way explains what is not, unless the
\* page missed something.
ReadFits ==
  ~seen.missed /\ accountsPage.fetch.pc = "answered" =>
    \A i \in Accounts : Matches(accountsPage.fetch.list, accounts, i) \/ AccountExplained(i)

\* So is the data, once no fetch is under way.
ShownFits ==
  /\ accountsPage.mounted /\ accountsPage.data # None
  /\ accountsPage.fetch.pc = "idle" /\ ~accountsPage.failed /\ ~seen.missed
  => \A i \in Accounts : Matches(accountsPage.data, accounts, i) \/ AccountExplained(i)

\* An account of the store is as the data or as the table, or a write explains it.
StoreFits ==
  accountsPage.mounted /\ accountsPage.data # None =>
    \A i \in Accounts \ seen.raced :
      \/ Matches(accountsPage.store, accountsPage.data, i)
      \/ Matches(accountsPage.store, accounts, i)
      \/ i \in DOMAIN accountsPage.store /\ AccountExplained(i)

ListInv == ListType /\ UsedIds /\ OneWrite /\ Replies /\ ReadFits /\ ShownFits /\ StoreFits

\* Lists of accounts.
LEMMA RowListIs ==
  /\ \A f : f \in RowLists <=> DOMAIN f \subseteq Accounts /\ f \in [DOMAIN f -> Row]
  /\ None \notin RowLists
<1>1. \A f : f \in RowLists <=> DOMAIN f \subseteq Accounts /\ f \in [DOMAIN f -> Row]
  BY DEF RowLists
<1>2. None \notin RowLists
  BY PagesBounds DEF RowLists, Row, Acc!AccountsBounds
<1> QED
  BY <1>1, <1>2

\* Tables of accounts.
LEMMA TableIs ==
  \A f : f \in Tables <=> DOMAIN f \subseteq Accounts /\ f \in [DOMAIN f -> Acc!Stored]
  BY DEF Tables

\* The pieces of a well-typed state.
LEMMA ListTypeIs ==
  ASSUME ListType
  PROVE  /\ accountsPage.mounted \in BOOLEAN /\ accountsPage.failed \in BOOLEAN
         /\ accountsPage.store \in RowLists
         /\ accountsPage.data \in RowLists \cup {None}
         /\ accountsPage.fetch \in AccountsFetch
         /\ DOMAIN accounts \subseteq Accounts
         /\ \A i \in DOMAIN accounts : accounts[i] \in Acc!Stored
         /\ seen.missed \in BOOLEAN /\ seen.raced \in SUBSET Accounts
         /\ used.ids \in SUBSET Accounts
  BY TableIs DEF ListType, AccountsPage

\* The invariant holds at first.
LEMMA InitList == Acc!Init => ListInv
<1> SUFFICES ASSUME Acc!Init PROVE ListInv
  OBVIOUS
<1>1. Acc!Nothing \in RowLists /\ DOMAIN Acc!Nothing = {}
  <2>1. DOMAIN Acc!Nothing = {} /\ Acc!Nothing \in [{} -> Row]
    BY DEF Acc!Nothing
  <2> QED
    BY <2>1, RowListIs
<1>2. accountsPage = [mounted |-> FALSE, store |-> Acc!Nothing, data |-> None,
                      fetch |-> Acc!NoFetch, failed |-> FALSE]
  BY DEF Acc!Init
<1>3. accounts \in Tables /\ accountWrites = {}
  BY DEF Acc!Init, Tables
<1>4. DOMAIN accounts \subseteq Accounts
  BY <1>3, TableIs
<1>5. ListType
  BY <1>1, <1>2, <1>3, <1>4 DEF Acc!Init, ListType, AccountsPage, AccountsFetch, Acc!NoFetch
<1>6. UsedIds
  BY <1>1, <1>2, <1>3 DEF Acc!Init, UsedIds, Acc!NoFetch
<1>7. OneWrite /\ Replies
  BY <1>3 DEF OneWrite, Replies
<1>8. ReadFits /\ ShownFits /\ StoreFits
  BY <1>2 DEF ReadFits, ShownFits, StoreFits, Acc!NoFetch
<1> QED
  BY <1>5, <1>6, <1>7, <1>8 DEF ListInv

\* The page's own steps: the query and the mounting.
LEMMA StepMount == ASSUME ListInv, Acc!Mount PROVE ListInv'
<1>0. /\ ListType /\ accountsPage \in AccountsPage /\ accountsPage.fetch \in AccountsFetch
      /\ seen \in [missed : BOOLEAN, raced : SUBSET Accounts]
  BY DEF ListInv, ListType, AccountsPage
<1>1. UNCHANGED <<accounts, online, accountWrites, used>>
  BY DEF Acc!Mount
<1>2. /\ accountsPage' \in AccountsPage
      /\ accountsPage'.data = accountsPage.data
      /\ accountsPage'.store = IF accountsPage.data # None THEN accountsPage.data
                               ELSE accountsPage.store
      /\ accountsPage'.fetch = IF accountsPage.fetch.pc = "idle" THEN Acc!Asked
                               ELSE accountsPage.fetch
  <2>1. Acc!Asked \in AccountsFetch
    BY DEF Acc!Asked, AccountsFetch
  <2> QED
    BY <1>0, <2>1 DEF Acc!Mount, AccountsPage
<1>3. Acc!Asked.pc = "asked" /\ Acc!Asked.list = None
  BY DEF Acc!Asked
<1>4. /\ seen' \in [missed : BOOLEAN, raced : SUBSET Accounts] /\ seen'.raced = seen.raced
      /\ accountsPage.fetch.pc # "idle" => seen'.missed = seen.missed
  BY <1>0 DEF Acc!Mount
<1>5. ListType'
  BY <1>0, <1>1, <1>2, <1>3, <1>4 DEF ListType
<1>6. UsedIds'
  BY <1>1, <1>2, <1>3 DEF ListInv, UsedIds
<1>7. OneWrite' /\ Replies'
  BY <1>1, <1>4 DEF ListInv, OneWrite, Replies
<1>8. ReadFits'
  BY <1>1, <1>2, <1>3, <1>4 DEF ListInv, ReadFits, AccountExplained
<1>9. ShownFits'
  BY <1>2, <1>3 DEF ShownFits
<1>10. StoreFits'
  BY <1>2 DEF StoreFits, Matches
<1> QED
  BY <1>5, <1>6, <1>7, <1>8, <1>9, <1>10 DEF ListInv

\* The query's answers and failures, and the page's unmounting.
LEMMA StepListQuery ==
  ASSUME ListInv,
         Acc!Unmount \/ Acc!Forget \/ Acc!ServeList \/ Acc!ListArrives \/ Acc!ListFails
  PROVE  ListInv'
<1>0. /\ ListType /\ accountsPage \in AccountsPage /\ accountsPage.fetch \in AccountsFetch
      /\ used \in [writes : Nat, lapses : Nat, ids : SUBSET Accounts]
  BY DEF ListInv, ListType, AccountsPage
<1>1. /\ UNCHANGED <<accounts, online, accountWrites, seen>> /\ used'.ids = used.ids
      /\ used' \in [writes : Nat, lapses : Nat, ids : SUBSET Accounts]
  BY <1>0 DEF Acc!Unmount, Acc!Forget, Acc!ServeList, Acc!ListArrives, Acc!ListFails, Acc!Fault
<1>2. OneWrite' /\ Replies'
  BY <1>1 DEF ListInv, OneWrite, Replies
<1>3. ASSUME accountsPage' \in AccountsPage,
             accountsPage'.fetch.pc = "answered" => accountsPage'.fetch.list \in RowLists
      PROVE  ListType'
  BY <1>0, <1>1, <1>3 DEF ListType
<1>4. CASE Acc!Unmount \/ Acc!Forget
  <2>1. /\ accountsPage' \in AccountsPage /\ accountsPage'.fetch = accountsPage.fetch
        /\ accountsPage'.store = accountsPage.store /\ ~accountsPage'.mounted
        /\ accountsPage'.data \in {accountsPage.data, None}
    BY <1>0, <1>4 DEF Acc!Unmount, Acc!Forget, AccountsPage
  <2>2. ListType'
    BY <1>0, <1>3, <2>1 DEF ListType
  <2>3. UsedIds'
    BY <1>1, <2>1 DEF ListInv, UsedIds
  <2>4. ReadFits' /\ ShownFits' /\ StoreFits'
    BY <1>1, <2>1 DEF ListInv, ReadFits, ShownFits, StoreFits, AccountExplained
  <2> QED
    BY <1>2, <2>2, <2>3, <2>4 DEF ListInv
<1>5. CASE Acc!ServeList
  <2> DEFINE l == Acc!ListAccounts
  <2>1. /\ DOMAIN l = DOMAIN accounts
        /\ \A i \in DOMAIN accounts : l[i].active = accounts[i].active
                                      /\ l[i].label = accounts[i].label
    BY DEF Acc!ListAccounts, Acc!Shown
  <2>2. l \in RowLists
    <3>1. \A i \in DOMAIN accounts : accounts[i] \in Acc!Stored
      BY <1>0, ListTypeIs
    <3>2. l \in [DOMAIN accounts -> Row]
      BY <3>1 DEF Acc!ListAccounts, Acc!Shown, Acc!Stored, Row
    <3>3. DOMAIN accounts \subseteq Accounts
      BY <1>0, ListTypeIs
    <3> HIDE DEF l
    <3> QED
      BY <2>1, <3>2, <3>3, RowListIs
  <2> DEFINE g == [pc |-> "answered", list |-> l]
  <2>3. accountsPage' = [accountsPage EXCEPT !.fetch = g]
    BY <1>5 DEF Acc!ServeList
  <2> HIDE DEF l
  <2>4. g \in AccountsFetch /\ g.pc = "answered" /\ g.list = l
    BY <2>2 DEF AccountsFetch
  <2> HIDE DEF g
  <2>5. /\ accountsPage' \in AccountsPage /\ accountsPage'.fetch = g
        /\ accountsPage'.store = accountsPage.store /\ accountsPage'.data = accountsPage.data
        /\ accountsPage'.mounted = accountsPage.mounted
    BY <1>0, <2>3, <2>4 DEF AccountsPage
  <2>6. ListType'
    BY <1>3, <2>2, <2>4, <2>5
  <2>7. UsedIds'
    BY <1>1, <2>1, <2>4, <2>5 DEF ListInv, UsedIds
  <2>8. ReadFits'
    BY <1>1, <2>1, <2>4, <2>5 DEF ReadFits, Matches
  <2>9. ShownFits' /\ StoreFits'
    BY <1>1, <2>4, <2>5 DEF ListInv, ShownFits, StoreFits, AccountExplained
  <2> QED
    BY <1>2, <2>6, <2>7, <2>8, <2>9 DEF ListInv
<1>6. CASE Acc!ListArrives
  <2> DEFINE l == accountsPage.fetch.list
  <2>1. /\ accountsPage.fetch.pc = "answered" /\ l \in RowLists /\ l # None
        /\ Acc!NoFetch \in AccountsFetch /\ Acc!NoFetch.pc = "idle" /\ Acc!NoFetch.list = None
    BY <1>0, <1>6, RowListIs DEF ListType, Acc!ListArrives, Acc!NoFetch, AccountsFetch
  <2>2. /\ accountsPage' \in AccountsPage /\ accountsPage'.fetch = Acc!NoFetch
        /\ accountsPage'.data = l /\ accountsPage'.mounted = accountsPage.mounted
        /\ accountsPage'.store = IF accountsPage.mounted /\ l # accountsPage.data THEN l
                                 ELSE accountsPage.store
    BY <1>0, <1>6, <2>1 DEF Acc!ListArrives, Acc!WithData, AccountsPage
  <2>3. ListType'
    BY <1>3, <2>1, <2>2
  <2>4. UsedIds'
    BY <1>1, <2>1, <2>2 DEF ListInv, UsedIds
  <2>5. ReadFits'
    BY <2>1, <2>2 DEF ReadFits
  <2>6. ShownFits'
    BY <1>1, <2>1, <2>2 DEF ListInv, ReadFits, ShownFits, AccountExplained
  <2>7. StoreFits'
    <3>1. CASE accountsPage.mounted /\ l # accountsPage.data
      BY <2>2, <3>1 DEF StoreFits, Matches
    <3>2. CASE accountsPage.mounted /\ l = accountsPage.data
      BY <1>1, <2>1, <2>2, <3>2 DEF ListInv, StoreFits, AccountExplained
    <3>3. CASE ~accountsPage.mounted
      BY <2>2, <3>3 DEF StoreFits
    <3> QED
      BY <3>1, <3>2, <3>3
  <2> QED
    BY <1>2, <2>3, <2>4, <2>5, <2>6, <2>7 DEF ListInv
<1>7. CASE Acc!ListFails
  <2>1. Acc!NoFetch \in AccountsFetch /\ Acc!NoFetch.pc = "idle" /\ Acc!NoFetch.list = None
    BY DEF Acc!NoFetch, AccountsFetch
  <2>2. /\ accountsPage' \in AccountsPage /\ accountsPage'.fetch = Acc!NoFetch
        /\ accountsPage'.data = accountsPage.data /\ accountsPage'.mounted = accountsPage.mounted
        /\ accountsPage'.store = accountsPage.store /\ accountsPage'.failed
    BY <1>0, <1>7, <2>1 DEF Acc!ListFails, AccountsPage
  <2>3. ListType'
    BY <1>3, <2>1, <2>2
  <2>4. UsedIds'
    BY <1>1, <2>1, <2>2 DEF ListInv, UsedIds
  <2>5. ReadFits' /\ ShownFits' /\ StoreFits'
    BY <1>1, <2>1, <2>2 DEF ListInv, ReadFits, ShownFits, StoreFits, AccountExplained
  <2> QED
    BY <1>2, <2>3, <2>4, <2>5 DEF ListInv
<1> QED
  BY <1>4, <1>5, <1>6, <1>7

-----------------------------------------------------------------------------
\* The writes.

\* A change of a field keeps the row well typed.
LEMMA ChangedIs ==
  ASSUME NEW s \in Acc!Stored, NEW c \in Acc!Changes
  PROVE  Acc!Changed(s, c) \in Acc!Stored
<1>1. CASE c.field = "active"
  BY <1>1 DEF Acc!Changed, Acc!Stored, Acc!Changes
<1>2. CASE c.field = "label"
  BY <1>2 DEF Acc!Changed, Acc!Stored, Acc!Changes
<1> QED
  BY <1>1, <1>2 DEF Acc!Changes

\* A request of the page: its account races if one is already under way.
LEMMA StepWrite ==
  ASSUME ListInv, NEW id \in Accounts, NEW op \in Op, Acc!Write(id, op)
  PROVE  ListInv'
<1>0. /\ ListType /\ seen \in [missed : BOOLEAN, raced : SUBSET Accounts]
      /\ used \in [writes : Nat, lapses : Nat, ids : SUBSET Accounts]
  BY DEF ListInv, ListType
<1>1. UNCHANGED <<accounts, online, accountsPage>>
  BY DEF Acc!Write
<1> DEFINE v == [n |-> used.writes, id |-> id, op |-> op, pc |-> "sent", reply |-> None]
<1>2. /\ accountWrites' = accountWrites \cup {v}
      /\ v \in AccountWrite /\ v.id = id /\ v.pc = "sent"
  BY <1>0 DEF Acc!Write, AccountWrite
<1> HIDE DEF v
<1>3. /\ used' \in [writes : Nat, lapses : Nat, ids : SUBSET Accounts] /\ used'.ids = used.ids
  BY <1>0 DEF Acc!Write
<1>4. /\ seen' \in [missed : BOOLEAN, raced : SUBSET Accounts] /\ seen'.missed = seen.missed
      /\ seen.raced \subseteq seen'.raced
      /\ (\E w \in accountWrites : w.id = id) => id \in seen'.raced
  BY <1>0 DEF Acc!Write
<1>5. ListType'
  BY <1>0, <1>1, <1>2, <1>3, <1>4 DEF ListType
<1>6. UsedIds'
  <2>1. id \in used.ids
    <3>1. id \in DOMAIN Acc!List
      BY DEF Acc!Write
    <3>2. \/ Acc!List = accountsPage.store
          \/ (accountsPage.data # None /\ Acc!List = accountsPage.data)
      BY DEF Acc!List
    <3> QED
      BY <3>1, <3>2 DEF ListInv, UsedIds
  <2> QED
    BY <1>1, <1>2, <1>3, <2>1 DEF ListInv, UsedIds
<1>7. OneWrite'
  BY <1>2, <1>4 DEF ListInv, OneWrite
<1>8. Replies'
  BY <1>1, <1>2, <1>4 DEF ListInv, Replies
<1>9. \A i : AccountExplained(i) => AccountExplained(i)'
  BY <1>1, <1>2 DEF AccountExplained
<1>10. ReadFits' /\ ShownFits'
  BY <1>1, <1>4, <1>9 DEF ListInv, ReadFits, ShownFits
<1>11. StoreFits'
  BY <1>1, <1>4, <1>9 DEF ListInv, StoreFits
<1> QED
  BY <1>5, <1>6, <1>7, <1>8, <1>10, <1>11 DEF ListInv

\* The buttons each send one.
LEMMA StepButtons ==
  ASSUME ListInv, NEW id \in Accounts,
         Acc!Toggle(id) \/ Acc!Delete(id) \/ \E l \in Labels : Acc!SaveLabel(id, l)
  PROVE  ListInv'
<1>1. CASE Acc!Toggle(id)
  <2> DEFINE on == ~Acc!List[id].active
  <2>1. on \in BOOLEAN
    OBVIOUS
  <2>2. Acc!Write(id, [field |-> "active", value |-> on])
    BY <1>1 DEF Acc!Toggle
  <2> HIDE DEF on
  <2>3. [field |-> "active", value |-> on] \in Op
    BY <2>1 DEF Op, Acc!Changes
  <2> QED
    BY <2>2, <2>3, StepWrite
<1>2. CASE Acc!Delete(id)
  <2>1. [field |-> "delete", value |-> None] \in Op
    BY DEF Op
  <2> QED
    BY <1>2, <2>1, StepWrite DEF Acc!Delete
<1>3. ASSUME NEW l \in Labels, Acc!SaveLabel(id, l) PROVE ListInv'
  <2>1. [field |-> "label", value |-> l] \in Op
    BY DEF Op, Acc!Changes
  <2> QED
    BY <1>3, <2>1, StepWrite DEF Acc!SaveLabel
<1> QED
  BY <1>1, <1>2, <1>3

\* A write's steps on the server.
LEMMA StepServe ==
  ASSUME ListInv, NEW w \in accountWrites, Acc!Update(w) \/ Acc!ServeDelete(w)
  PROVE  ListInv'
<1>0. /\ ListType /\ w \in AccountWrite /\ accounts \in Tables /\ w.pc = "sent"
      /\ DOMAIN accounts \subseteq Accounts
  BY ListTypeIs DEF ListInv, ListType, Acc!Update, Acc!ServeDelete
<1>1. UNCHANGED <<accountsPage, seen, used>>
  BY DEF Acc!Update, Acc!ServeDelete
<1>2. /\ accounts' \in Tables
      /\ DOMAIN accounts' \subseteq DOMAIN accounts
      /\ \A i \in DOMAIN accounts : i # w.id => i \in DOMAIN accounts' /\ accounts'[i] = accounts[i]
      /\ w.op.field = "delete" => w.id \notin DOMAIN accounts'
      /\ w.op.field # "delete" /\ w.id \notin DOMAIN accounts => accounts' = accounts
      /\ w.op.field # "delete" => DOMAIN accounts' = DOMAIN accounts
  <2>1. CASE Acc!Update(w)
    <3>1. CASE w.id \in DOMAIN accounts
      <4> DEFINE s == Acc!Changed(accounts[w.id], w.op)
      <4>1. s \in Acc!Stored
        <5>1. accounts[w.id] \in Acc!Stored /\ w.op \in Acc!Changes
          BY <1>0, <2>1, <3>1, ListTypeIs DEF AccountWrite, Op, Acc!Update
        <5> QED
          BY <5>1, ChangedIs
      <4>2. accounts' = [accounts EXCEPT ![w.id] = s]
        BY <2>1, <3>1 DEF Acc!Update
      <4> HIDE DEF s
      <4>3. /\ DOMAIN accounts' = DOMAIN accounts /\ accounts' \in [DOMAIN accounts -> Acc!Stored]
            /\ \A i \in DOMAIN accounts : i # w.id => accounts'[i] = accounts[i]
        BY <1>0, <4>1, <4>2, TableIs
      <4> QED
        BY <1>0, <2>1, <3>1, <4>3, TableIs DEF Acc!Update
    <3>2. CASE w.id \notin DOMAIN accounts
      <4>1. accounts' = accounts
        BY <2>1, <3>2 DEF Acc!Update
      <4> QED
        BY <1>0, <2>1, <4>1 DEF Acc!Update
    <3> QED
      BY <3>1, <3>2
  <2>2. CASE Acc!ServeDelete(w)
    <3> DEFINE t == [i \in DOMAIN accounts \ {w.id} |-> accounts[i]]
    <3>1. accounts' = t
      BY <2>2 DEF Acc!ServeDelete, Acc!Without, Acc!Restrict
    <3>2. /\ DOMAIN t = DOMAIN accounts \ {w.id}
          /\ \A i \in DOMAIN accounts : i # w.id => t[i] = accounts[i]
      OBVIOUS
    <3>3. t \in [DOMAIN t -> Acc!Stored]
      BY <1>0, ListTypeIs
    <3> HIDE DEF t
    <3> QED
      BY <1>0, <2>2, <3>1, <3>2, <3>3, TableIs DEF Acc!ServeDelete
  <2> QED
    BY <2>1, <2>2
<1>3. PICK v \in AccountWrite :
        /\ accountWrites' = (accountWrites \ {w}) \cup {v}
        /\ v.id = w.id /\ v.op = w.op /\ v.pc \in {"updated", "replied"}
        /\ v.pc = "replied" <=> w.op.field = "delete"
  <2>1. CASE Acc!Update(w)
    <3> DEFINE u == [w EXCEPT !.pc = "updated", !.reply = None]
    <3>1. u \in AccountWrite /\ u.id = w.id /\ u.op = w.op /\ u.pc = "updated"
      BY <1>0 DEF AccountWrite
    <3>2. accountWrites' = (accountWrites \ {w}) \cup {u}
      BY <2>1 DEF Acc!Update, Acc!At
    <3> HIDE DEF u
    <3> QED
      BY <2>1, <3>1, <3>2 DEF Acc!Update
  <2>2. CASE Acc!ServeDelete(w)
    <3> DEFINE u == [w EXCEPT !.pc = "replied", !.reply = None]
    <3>1. u \in AccountWrite /\ u.id = w.id /\ u.op = w.op /\ u.pc = "replied"
      BY <1>0 DEF AccountWrite
    <3>2. accountWrites' = (accountWrites \ {w}) \cup {u}
      BY <2>2 DEF Acc!ServeDelete, Acc!At
    <3> HIDE DEF u
    <3> QED
      BY <2>2, <3>1, <3>2 DEF Acc!ServeDelete
  <2> QED
    BY <2>1, <2>2
<1>4. ListType'
  BY <1>0, <1>1, <1>2, <1>3 DEF ListType
<1>5. UsedIds'
  BY <1>1, <1>2, <1>3 DEF ListInv, UsedIds
<1>6. OneWrite'
  BY <1>1, <1>3 DEF ListInv, OneWrite
<1>7. Replies'
  <2> SUFFICES ASSUME NEW u \in accountWrites', u.pc = "replied", u.id \notin seen.raced
               PROVE  /\ u.op.field = "delete" => u.id \notin DOMAIN accounts'
                      /\ u.op.field # "delete" =>
                           /\ u.id \in DOMAIN accounts'
                           /\ u.reply.active = accounts'[u.id].active
                           /\ u.reply.label = accounts'[u.id].label
    BY <1>1 DEF Replies
  <2>1. CASE u = v
    BY <1>2, <1>3, <2>1
  <2>2. CASE u # v
    <3>1. u \in accountWrites /\ u # w
      BY <1>3, <2>2
    <3>2. u.id # w.id
      BY <3>1 DEF ListInv, OneWrite
    <3>3. /\ u.op.field = "delete" => u.id \notin DOMAIN accounts
          /\ u.op.field # "delete" =>
               /\ u.id \in DOMAIN accounts
               /\ u.reply.active = accounts[u.id].active
               /\ u.reply.label = accounts[u.id].label
      BY <3>1 DEF ListInv, Replies
    <3> QED
      BY <1>2, <3>2, <3>3
  <2> QED
    BY <2>1, <2>2
<1>8. \A i : i # w.id /\ AccountExplained(i) => AccountExplained(i)'
  <2> SUFFICES ASSUME NEW i, i # w.id, AccountExplained(i) PROVE AccountExplained(i)'
    OBVIOUS
  <2>1. PICK u \in accountWrites : u.id = i /\ (i \in DOMAIN accounts => u.pc # "sent")
                /\ (i \notin DOMAIN accounts => u.pc = "replied" /\ u.op.field = "delete")
    BY DEF AccountExplained
  <2>2. u \in accountWrites' /\ (i \in DOMAIN accounts' <=> i \in DOMAIN accounts)
    BY <1>2, <1>3, <2>1
  <2> QED
    BY <2>1, <2>2 DEF AccountExplained
<1>9. \/ AccountExplained(w.id)'
      \/ /\ accounts' = accounts /\ w.id \notin DOMAIN accounts
         /\ AccountExplained(w.id) => AccountExplained(w.id)'
  <2>1. v \in accountWrites'
    BY <1>3
  <2>2. CASE w.op.field = "delete"
    BY <1>2, <1>3, <2>1, <2>2 DEF AccountExplained
  <2>3. CASE w.op.field # "delete" /\ w.id \in DOMAIN accounts
    BY <1>2, <1>3, <2>1, <2>3 DEF AccountExplained
  <2>4. CASE w.op.field # "delete" /\ w.id \notin DOMAIN accounts
    <3>1. accounts' = accounts
      BY <1>2, <2>4
    <3>2. ASSUME AccountExplained(w.id) PROVE AccountExplained(w.id)'
      <4>1. PICK u \in accountWrites : u.id = w.id /\ u.pc = "replied" /\ u.op.field = "delete"
        BY <2>4, <3>2 DEF AccountExplained
      <4>2. u \in accountWrites'
        BY <1>3, <2>4, <4>1
      <4> QED
        BY <2>4, <3>1, <4>1, <4>2 DEF AccountExplained
    <3> QED
      BY <2>4, <3>1, <3>2
  <2> QED
    BY <2>2, <2>3, <2>4
<1>10. \A l, i : Matches(l, accounts, i) \/ AccountExplained(i) =>
                   Matches(l, accounts', i) \/ AccountExplained(i)'
  <2> TAKE l, i
  <2>1. CASE i = w.id
    BY <1>9, <2>1
  <2>2. CASE i # w.id
    BY <1>2, <1>8, <2>2 DEF Matches
  <2> QED
    BY <2>1, <2>2
<1>11. ReadFits' /\ ShownFits'
  BY <1>1, <1>10 DEF ListInv, ReadFits, ShownFits
<1>12. StoreFits'
  <2> SUFFICES ASSUME accountsPage.mounted, accountsPage.data # None,
                      NEW i \in Accounts \ seen.raced
               PROVE  \/ Matches(accountsPage.store, accountsPage.data, i)
                      \/ Matches(accountsPage.store, accounts', i)
                      \/ i \in DOMAIN accountsPage.store /\ AccountExplained(i)'
    BY <1>1 DEF StoreFits
  <2>1. \/ Matches(accountsPage.store, accountsPage.data, i)
        \/ Matches(accountsPage.store, accounts, i)
        \/ i \in DOMAIN accountsPage.store /\ AccountExplained(i)
    BY DEF ListInv, StoreFits
  <2>2. CASE i \in DOMAIN accountsPage.store
    BY <1>10, <2>1, <2>2
  <2>3. CASE i \notin DOMAIN accountsPage.store
    BY <1>2, <2>1, <2>3 DEF Matches
  <2> QED
    BY <2>2, <2>3
<1> QED
  BY <1>4, <1>5, <1>6, <1>7, <1>11, <1>12 DEF ListInv

\* A reply is of the table as it is.
LEMMA StepGetAccount ==
  ASSUME ListInv, NEW w \in accountWrites, Acc!Get(w)
  PROVE  ListInv'
<1>0. /\ ListType /\ w \in AccountWrite /\ w.pc = "updated" /\ w.id \in DOMAIN accounts
      /\ accounts[w.id] \in Acc!Stored
  BY ListTypeIs DEF ListInv, ListType, Acc!Get
<1>1. UNCHANGED <<accounts, accountsPage, seen, used>>
  BY DEF Acc!Get
<1>2. PICK v \in AccountWrite :
        /\ accountWrites' = (accountWrites \ {w}) \cup {v}
        /\ v.id = w.id /\ v.op = w.op /\ v.pc = "replied" /\ v.reply \in Row
        /\ v.reply.active = accounts[w.id].active /\ v.reply.label = accounts[w.id].label
  <2> DEFINE r == Acc!Shown(accounts[w.id], FALSE)
  <2>1. /\ r \in Row /\ r.active = accounts[w.id].active /\ r.label = accounts[w.id].label
    BY <1>0 DEF Acc!Shown, Acc!Stored, Row
  <2> DEFINE u == [w EXCEPT !.pc = "replied", !.reply = r]
  <2>2. accountWrites' = (accountWrites \ {w}) \cup {u}
    BY DEF Acc!Get, Acc!At
  <2> HIDE DEF r
  <2>3. u \in AccountWrite /\ u.id = w.id /\ u.op = w.op /\ u.pc = "replied" /\ u.reply = r
    BY <1>0, <2>1 DEF AccountWrite
  <2> HIDE DEF u
  <2> QED
    BY <2>1, <2>2, <2>3
<1>3. ListType'
  BY <1>0, <1>1, <1>2 DEF ListType
<1>4. UsedIds' /\ OneWrite'
  BY <1>1, <1>2 DEF ListInv, UsedIds, OneWrite
<1>5. v.op.field # "delete"
  <2>1. w.op.field # "delete"
    BY <1>0 DEF ListType
  <2> QED
    BY <1>2, <2>1
<1>6. Replies'
  BY <1>0, <1>1, <1>2, <1>5 DEF ListInv, Replies
<1>7. \A i : AccountExplained(i) => AccountExplained(i)'
  BY <1>0, <1>1, <1>2 DEF AccountExplained
<1>8. ReadFits' /\ ShownFits' /\ StoreFits'
  BY <1>1, <1>7 DEF ListInv, ReadFits, ShownFits, StoreFits
<1> QED
  BY <1>3, <1>4, <1>6, <1>8 DEF ListInv

\* A write that is over.  Others keep what they explain.
LEMMA StillExplained ==
  ASSUME NEW w \in accountWrites, accountWrites' = accountWrites \ {w}, accounts' = accounts
  PROVE  /\ \A i : i # w.id /\ AccountExplained(i) => AccountExplained(i)'
         /\ w.id \notin DOMAIN accounts /\ ~(w.pc = "replied" /\ w.op.field = "delete") =>
              (AccountExplained(w.id) => AccountExplained(w.id)')
  BY DEF AccountExplained

\* A write whose account is gone has no reply.
LEMMA StepGetFails ==
  ASSUME ListInv, NEW w \in accountWrites, Acc!GetFails(w)
  PROVE  ListInv'
<1>1. /\ UNCHANGED <<accounts, accountsPage, seen, used>> /\ w.pc = "updated"
      /\ w.id \notin DOMAIN accounts /\ accountWrites' = accountWrites \ {w}
  BY DEF Acc!GetFails
<1>2. ListType'
  BY <1>1 DEF ListInv, ListType
<1>3. UsedIds' /\ OneWrite' /\ Replies'
  BY <1>1 DEF ListInv, UsedIds, OneWrite, Replies
<1>4. \A i : AccountExplained(i) => AccountExplained(i)'
  BY <1>1, StillExplained
<1>5. ReadFits' /\ ShownFits' /\ StoreFits'
  BY <1>1, <1>4 DEF ListInv, ReadFits, ShownFits, StoreFits
<1> QED
  BY <1>2, <1>3, <1>5 DEF ListInv

\* A write that fails is missed; its account races if an earlier write to it is unread.
LEMMA StepAccountWriteFails ==
  ASSUME ListInv, NEW w \in accountWrites, Acc!WriteFails(w)
  PROVE  ListInv'
<1>0. /\ ListType /\ seen \in [missed : BOOLEAN, raced : SUBSET Accounts] /\ w \in AccountWrite
      /\ w.id \in Accounts
      /\ used \in [writes : Nat, lapses : Nat, ids : SUBSET Accounts]
  BY DEF ListInv, ListType, AccountWrite
<1>1. UNCHANGED <<accounts, accountsPage>> /\ accountWrites' = accountWrites \ {w}
  BY DEF Acc!WriteFails
<1>2. /\ used' \in [writes : Nat, lapses : Nat, ids : SUBSET Accounts] /\ used'.ids = used.ids
  BY <1>0 DEF Acc!WriteFails, Acc!Fault
<1>3. /\ seen' \in [missed : BOOLEAN, raced : SUBSET Accounts] /\ seen'.missed
      /\ seen'.raced = IF Acc!Unread(w.id) THEN seen.raced \cup {w.id} ELSE seen.raced
  BY <1>0 DEF Acc!WriteFails
<1>4. ListType'
  BY <1>0, <1>1, <1>2, <1>3 DEF ListType
<1>5. UsedIds' /\ OneWrite' /\ Replies'
  BY <1>1, <1>2, <1>3 DEF ListInv, UsedIds, OneWrite, Replies
<1>6. ReadFits' /\ ShownFits'
  BY <1>3 DEF ReadFits, ShownFits
<1>7. StoreFits'
  <2> SUFFICES ASSUME accountsPage.mounted, accountsPage.data # None,
                      NEW i \in Accounts, i \notin seen'.raced
               PROVE  \/ Matches(accountsPage.store, accountsPage.data, i)
                      \/ Matches(accountsPage.store, accounts, i)
                      \/ i \in DOMAIN accountsPage.store /\ AccountExplained(i)'
    BY <1>1 DEF StoreFits
  <2>1. \/ Matches(accountsPage.store, accountsPage.data, i)
        \/ Matches(accountsPage.store, accounts, i)
        \/ i \in DOMAIN accountsPage.store /\ AccountExplained(i)
    BY <1>3 DEF ListInv, StoreFits
  <2>2. CASE i # w.id
    BY <1>1, <2>1, <2>2, StillExplained
  <2>3. CASE i = w.id
    <3>1. ~Acc!Unread(i)
      BY <1>3, <2>3
    <3> QED
      BY <2>1, <3>1 DEF Acc!Unread, Matches
  <2> QED
    BY <2>2, <2>3
<1> QED
  BY <1>4, <1>5, <1>6, <1>7 DEF ListInv

\* What hears of a change asks again, or is known to have missed it.
LEMMA HeardIs ==
  ASSUME NEW p \in AccountsPage, NEW s \in [missed : BOOLEAN, raced : SUBSET Accounts]
  PROVE  LET q == Acc!Invalidated(p)
             t == Acc!Heard(p, s)
         IN /\ q \in AccountsPage /\ t \in [missed : BOOLEAN, raced : SUBSET Accounts]
            /\ q.store = p.store /\ q.data = p.data /\ q.mounted = p.mounted
            /\ q.fetch = p.fetch \/ (q.fetch.pc = "asked" /\ q.fetch.list = None)
            /\ t.raced = s.raced
            /\ q.fetch.pc = "answered" => t.missed
            /\ q.mounted /\ q.data # None => q.fetch.pc = "asked"
<1>1. Acc!Asked \in AccountsFetch /\ Acc!Asked.pc = "asked" /\ Acc!Asked.list = None
  BY DEF Acc!Asked, AccountsFetch
<1>2. p.fetch \in AccountsFetch
  BY DEF AccountsPage
<1>3. CASE p.mounted /\ ~Acc!FirstLoad(p)
  <2> DEFINE q == [p EXCEPT !.fetch = Acc!Asked, !.failed = FALSE]
  <2>1. /\ q \in AccountsPage /\ q.store = p.store /\ q.data = p.data /\ q.mounted = p.mounted
        /\ q.fetch = Acc!Asked
    BY <1>1 DEF AccountsPage
  <2>2. Acc!Invalidated(p) = q
    BY <1>3 DEF Acc!Invalidated
  <2>3. /\ Acc!Heard(p, s) \in [missed : BOOLEAN, raced : SUBSET Accounts]
        /\ Acc!Heard(p, s).raced = s.raced
    BY <1>3 DEF Acc!Heard
  <2> HIDE DEF q
  <2> QED
    BY <1>1, <2>1, <2>2, <2>3
<1>4. CASE ~(p.mounted /\ ~Acc!FirstLoad(p))
  <2>1. Acc!Invalidated(p) = p
    BY <1>4 DEF Acc!Invalidated
  <2>2. /\ Acc!Heard(p, s) \in [missed : BOOLEAN, raced : SUBSET Accounts]
        /\ Acc!Heard(p, s).raced = s.raced
        /\ p.fetch.pc # "idle" => Acc!Heard(p, s).missed
    BY <1>4 DEF Acc!Heard
  <2>3. ~(p.mounted /\ p.data # None)
    BY <1>4 DEF Acc!FirstLoad
  <2> QED
    BY <2>1, <2>2, <2>3
<1> QED
  BY <1>3, <1>4

\* A reply goes to the store, or takes the account out of it, and the list is asked for.
LEMMA StepWriteSucceeds ==
  ASSUME ListInv, NEW w \in accountWrites, Acc!WriteSucceeds(w)
  PROVE  ListInv'
<1>0. /\ ListType /\ w \in AccountWrite /\ w.id \in Accounts /\ w.pc = "replied"
      /\ accountsPage \in AccountsPage /\ accountsPage.store \in RowLists
      /\ accountsPage.fetch \in AccountsFetch /\ accountsPage.data \in RowLists \cup {None}
      /\ seen \in [missed : BOOLEAN, raced : SUBSET Accounts]
      /\ used \in [writes : Nat, lapses : Nat, ids : SUBSET Accounts]
  BY ListTypeIs DEF ListInv, ListType, AccountWrite, Acc!WriteSucceeds
<1>1. /\ UNCHANGED <<accounts, used>> /\ accountWrites' = accountWrites \ {w}
  BY DEF Acc!WriteSucceeds
<1> DEFINE s == IF w.op.field = "delete" THEN Acc!Without(accountsPage.store, w.id)
                ELSE Acc!Upsert(accountsPage.store, w.id, w.reply)
           p == [accountsPage EXCEPT !.store = s]
<1>2. /\ accountsPage' = Acc!Invalidated(p) /\ seen' = Acc!Heard(p, seen)
  BY DEF Acc!WriteSucceeds
<1>3. /\ s \in RowLists
      /\ DOMAIN s \subseteq DOMAIN accountsPage.store \cup {w.id}
      /\ \A i : i # w.id => /\ i \in DOMAIN s <=> i \in DOMAIN accountsPage.store
                            /\ i \in DOMAIN s => s[i] = accountsPage.store[i]
      /\ w.op.field = "delete" => w.id \notin DOMAIN s
      /\ w.op.field # "delete" => w.id \in DOMAIN s /\ s[w.id] = w.reply
  <2>1. /\ DOMAIN accountsPage.store \subseteq Accounts
        /\ \A i \in DOMAIN accountsPage.store : accountsPage.store[i] \in Row
    BY <1>0, RowListIs
  <2>2. CASE w.op.field = "delete"
    <3>1. s = [i \in DOMAIN accountsPage.store \ {w.id} |-> accountsPage.store[i]]
      BY <2>2 DEF Acc!Without, Acc!Restrict
    <3> HIDE DEF s
    <3>2. /\ DOMAIN s = DOMAIN accountsPage.store \ {w.id}
          /\ \A i \in DOMAIN s : s[i] = accountsPage.store[i]
          /\ s \in [DOMAIN s -> Row]
      BY <2>1, <3>1
    <3>3. s \in RowLists
      BY <2>1, <3>2, RowListIs
    <3> QED
      BY <2>2, <3>2, <3>3
  <2>3. CASE w.op.field # "delete"
    <3>1. s = [i \in DOMAIN accountsPage.store \cup {w.id} |->
                 IF i = w.id THEN w.reply ELSE accountsPage.store[i]]
      BY <2>3 DEF Acc!Upsert
    <3>2. w.reply \in Row
      BY <1>0, <2>3 DEF ListType
    <3> HIDE DEF s
    <3>3. /\ DOMAIN s = DOMAIN accountsPage.store \cup {w.id} /\ s[w.id] = w.reply
          /\ \A i \in DOMAIN accountsPage.store : i # w.id => s[i] = accountsPage.store[i]
          /\ s \in [DOMAIN s -> Row]
      BY <2>1, <3>1, <3>2
    <3>4. s \in RowLists
      BY <1>0, <2>1, <3>3, RowListIs
    <3> QED
      BY <2>3, <3>3, <3>4
  <2> QED
    BY <2>2, <2>3
<1> HIDE DEF s
<1>4. /\ p \in AccountsPage /\ p.store = s /\ p.data = accountsPage.data
      /\ p.mounted = accountsPage.mounted /\ p.fetch = accountsPage.fetch
  BY <1>0, <1>3 DEF AccountsPage
<1> HIDE DEF p
<1>5. /\ accountsPage' \in AccountsPage /\ seen' \in [missed : BOOLEAN, raced : SUBSET Accounts]
      /\ accountsPage'.store = s /\ accountsPage'.data = accountsPage.data
      /\ accountsPage'.mounted = accountsPage.mounted
      /\ \/ accountsPage'.fetch = accountsPage.fetch
         \/ accountsPage'.fetch.pc = "asked" /\ accountsPage'.fetch.list = None
      /\ seen'.raced = seen.raced
      /\ accountsPage'.fetch.pc = "answered" => seen'.missed
      /\ accountsPage'.mounted /\ accountsPage'.data # None => accountsPage'.fetch.pc = "asked"
  BY <1>0, <1>2, <1>4, HeardIs
<1>6. ListType'
  BY <1>0, <1>1, <1>5 DEF ListType
<1>7. UsedIds'
  BY <1>1, <1>3, <1>5 DEF ListInv, UsedIds
<1>8. OneWrite' /\ Replies'
  BY <1>1, <1>5 DEF ListInv, OneWrite, Replies
<1>9. ReadFits' /\ ShownFits'
  BY <1>5 DEF ReadFits, ShownFits
<1>10. StoreFits'
  <2> SUFFICES ASSUME accountsPage.mounted, accountsPage.data # None,
                      NEW i \in Accounts, i \notin seen.raced
               PROVE  \/ Matches(s, accountsPage.data, i)
                      \/ Matches(s, accounts, i)
                      \/ i \in DOMAIN s /\ AccountExplained(i)'
    BY <1>1, <1>5 DEF StoreFits
  <2>1. CASE i # w.id
    <3>1. \/ Matches(accountsPage.store, accountsPage.data, i)
          \/ Matches(accountsPage.store, accounts, i)
          \/ i \in DOMAIN accountsPage.store /\ AccountExplained(i)
      BY DEF ListInv, StoreFits
    <3>2. AccountExplained(i) => AccountExplained(i)'
      BY <1>1, <2>1, StillExplained
    <3> QED
      BY <1>3, <2>1, <3>1, <3>2 DEF Matches
  <2>2. CASE i = w.id
    <3>1. Matches(s, accounts, i)
      BY <1>0, <1>3, <2>2 DEF ListInv, Replies, Matches
    <3> QED
      BY <3>1
  <2> QED
    BY <2>1, <2>2
<1> QED
  BY <1>6, <1>7, <1>8, <1>9, <1>10 DEF ListInv

\* What is used up by a change.
LEMMA ElsewhereIs ==
  ASSUME ListInv, NEW ids \in SUBSET Accounts, Acc!Elsewhere(ids)
  PROVE  /\ used' \in [writes : Nat, lapses : Nat, ids : SUBSET Accounts]
         /\ used'.ids = used.ids \cup ids
<1> DEFINE n == used.lapses + 1
           all == used.ids \cup ids
<1>1. used \in [writes : Nat, lapses : Nat, ids : SUBSET Accounts]
  BY DEF ListInv, ListType
<1>2. n \in Nat /\ all \in SUBSET Accounts
  BY <1>1
<1>3. used' = [used EXCEPT !.lapses = n, !.ids = all]
  BY DEF Acc!Elsewhere
<1> HIDE DEF n, all
<1>4. used'.ids = all /\ used' \in [writes : Nat, lapses : Nat, ids : SUBSET Accounts]
  BY <1>1, <1>2, <1>3
<1> QED
  BY <1>4 DEF all

\* What changes without a write of this page.
LEMMA ChangeIs ==
  ASSUME ListInv, NEW heard \in BOOLEAN, Acc!Change(heard)
  PROVE  /\ accounts' \in Tables /\ accountWrites' = accountWrites
         /\ used' \in [writes : Nat, lapses : Nat, ids : SUBSET Accounts]
         /\ used.ids \subseteq used'.ids /\ DOMAIN accounts' \subseteq used'.ids
         /\ DOMAIN accounts \subseteq DOMAIN accounts'
         /\ DOMAIN accounts' \cap used.ids \subseteq DOMAIN accounts
         /\ heard => \A i \in DOMAIN accounts : accounts'[i] = accounts[i]
<1>0. /\ used \in [writes : Nat, lapses : Nat, ids : SUBSET Accounts] /\ accounts \in Tables
      /\ DOMAIN accounts \subseteq used.ids /\ accountWrites' = accountWrites
  BY DEF ListInv, ListType, UsedIds, Acc!Change
<1>1. ASSUME NEW id \in Accounts \ used.ids, NEW l \in Labels, Acc!Elsewhere({id}),
             accounts' = Acc!Upsert(accounts, id, [active |-> TRUE, label |-> l])
      PROVE  /\ accounts' \in Tables /\ DOMAIN accounts' = DOMAIN accounts \cup {id}
             /\ \A i \in DOMAIN accounts : accounts'[i] = accounts[i]
             /\ used' \in [writes : Nat, lapses : Nat, ids : SUBSET Accounts]
             /\ used'.ids = used.ids \cup {id}
  <2> DEFINE s == [active |-> TRUE, label |-> l]
             t == [i \in DOMAIN accounts \cup {id} |-> IF i = id THEN s ELSE accounts[i]]
  <2>1. s \in Acc!Stored
    BY DEF Acc!Stored
  <2>2. accounts' = t
    BY <1>1 DEF Acc!Upsert
  <2> HIDE DEF s
  <2>3. /\ DOMAIN accounts \subseteq Accounts
        /\ \A i \in DOMAIN accounts : accounts[i] \in Acc!Stored
    BY <1>0, TableIs
  <2>4. /\ DOMAIN t = DOMAIN accounts \cup {id} /\ t \in [DOMAIN t -> Acc!Stored]
        /\ \A i \in DOMAIN accounts : t[i] = accounts[i]
    BY <1>0, <2>1, <2>3
  <2> HIDE DEF t
  <2>5. t \in Tables
    BY <2>3, <2>4, TableIs
  <2>6. /\ used' \in [writes : Nat, lapses : Nat, ids : SUBSET Accounts]
        /\ used'.ids = used.ids \cup {id}
    BY <1>1, ElsewhereIs
  <2> QED
    BY <2>2, <2>4, <2>5, <2>6
<1>2. ASSUME NEW id \in DOMAIN accounts, NEW c \in Acc!Changes, ~heard, Acc!Elsewhere({}),
             accounts' = [accounts EXCEPT ![id] = Acc!Changed(@, c)]
      PROVE  /\ accounts' \in Tables /\ DOMAIN accounts' = DOMAIN accounts
             /\ used' \in [writes : Nat, lapses : Nat, ids : SUBSET Accounts]
             /\ used'.ids = used.ids
  <2> DEFINE s == Acc!Changed(accounts[id], c)
             t == [accounts EXCEPT ![id] = s]
  <2>1. /\ DOMAIN accounts \subseteq Accounts
        /\ \A i \in DOMAIN accounts : accounts[i] \in Acc!Stored
        /\ accounts \in [DOMAIN accounts -> Acc!Stored]
    BY <1>0, TableIs
  <2>2. s \in Acc!Stored
    BY <2>1, ChangedIs
  <2>3. accounts' = t
    BY <1>2
  <2> HIDE DEF s
  <2>4. DOMAIN t = DOMAIN accounts /\ t \in [DOMAIN t -> Acc!Stored]
    BY <2>1, <2>2
  <2> HIDE DEF t
  <2>5. t \in Tables
    BY <2>1, <2>4, TableIs
  <2>6. /\ used' \in [writes : Nat, lapses : Nat, ids : SUBSET Accounts] /\ used'.ids = used.ids
    <3>1. {} \in SUBSET Accounts /\ used.ids \cup {} = used.ids
      OBVIOUS
    <3> QED
      BY <1>2, <3>1, ElsewhereIs
  <2> QED
    BY <2>3, <2>4, <2>5, <2>6
<1>3. ASSUME Acc!Elsewhere({}), accounts' = accounts
      PROVE  /\ used' \in [writes : Nat, lapses : Nat, ids : SUBSET Accounts]
             /\ used'.ids = used.ids
  <2>1. {} \in SUBSET Accounts /\ used.ids \cup {} = used.ids
    OBVIOUS
  <2> QED
    BY <1>3, <2>1, ElsewhereIs
<1>4. \/ \E id \in Accounts \ used.ids, l \in Labels :
           /\ Acc!Elsewhere({id})
           /\ accounts' = Acc!Upsert(accounts, id, [active |-> TRUE, label |-> l])
      \/ \E id \in DOMAIN accounts, c \in Acc!Changes :
           ~heard /\ Acc!Elsewhere({}) /\ accounts' = [accounts EXCEPT ![id] = Acc!Changed(@, c)]
      \/ Acc!Elsewhere({}) /\ accounts' = accounts
  BY DEF Acc!Change
<1> QED
  BY <1>0, <1>1, <1>2, <1>3, <1>4

\* An account that a list knows of, and no write of this page explains, keeps to it
\* if it is not changed.
LEMMA StepChangeHeard == ASSUME ListInv, Acc!ChangeHeard PROVE ListInv'
<1>0. /\ ListType /\ accountsPage \in AccountsPage /\ accountsPage.data \in RowLists \cup {None}
      /\ seen \in [missed : BOOLEAN, raced : SUBSET Accounts]
  BY ListTypeIs DEF ListInv, ListType
<1>1. /\ accounts' \in Tables /\ accountWrites' = accountWrites
      /\ used' \in [writes : Nat, lapses : Nat, ids : SUBSET Accounts]
      /\ used.ids \subseteq used'.ids /\ DOMAIN accounts' \subseteq used'.ids
      /\ DOMAIN accounts \subseteq DOMAIN accounts'
      /\ DOMAIN accounts' \cap used.ids \subseteq DOMAIN accounts
      /\ \A i \in DOMAIN accounts : accounts'[i] = accounts[i]
  BY ChangeIs DEF Acc!ChangeHeard
<1>2. /\ accountsPage' \in AccountsPage /\ seen' \in [missed : BOOLEAN, raced : SUBSET Accounts]
      /\ accountsPage'.store = accountsPage.store /\ accountsPage'.data = accountsPage.data
      /\ accountsPage'.mounted = accountsPage.mounted
      /\ \/ accountsPage'.fetch = accountsPage.fetch
         \/ accountsPage'.fetch.pc = "asked" /\ accountsPage'.fetch.list = None
      /\ seen'.raced = seen.raced
      /\ accountsPage'.fetch.pc = "answered" => seen'.missed
      /\ accountsPage'.mounted /\ accountsPage'.data # None => accountsPage'.fetch.pc = "asked"
  BY <1>0, HeardIs DEF Acc!ChangeHeard
<1>3. ListType'
  BY <1>0, <1>1, <1>2 DEF ListType
<1>4. UsedIds'
  BY <1>1, <1>2 DEF ListInv, UsedIds
<1>5. OneWrite' /\ Replies'
  BY <1>1, <1>2 DEF ListInv, UsedIds, OneWrite, Replies
<1>6. ReadFits' /\ ShownFits'
  BY <1>2 DEF ReadFits, ShownFits
<1>7. \A i \in used.ids : /\ i \in DOMAIN accounts' <=> i \in DOMAIN accounts
                          /\ AccountExplained(i) => AccountExplained(i)'
  BY <1>1 DEF AccountExplained
<1>8. StoreFits'
  <2> SUFFICES ASSUME accountsPage.mounted, accountsPage.data # None,
                      NEW i \in Accounts, i \notin seen.raced
               PROVE  \/ Matches(accountsPage.store, accountsPage.data, i)
                      \/ Matches(accountsPage.store, accounts', i)
                      \/ i \in DOMAIN accountsPage.store /\ AccountExplained(i)'
    BY <1>2 DEF StoreFits
  <2>1. CASE i \in used.ids
    BY <1>1, <1>7, <2>1 DEF ListInv, StoreFits, Matches
  <2>2. CASE i \notin used.ids
    BY <2>2 DEF ListInv, UsedIds, Matches
  <2> QED
    BY <2>1, <2>2
<1> QED
  BY <1>3, <1>4, <1>5, <1>6, <1>8 DEF ListInv

\* A change that this page is not told of: a fault, which it has missed.
LEMMA StepChangeUnheard == ASSUME ListInv, Acc!ChangeUnheard PROVE ListInv'
<1>0. /\ ListType /\ seen \in [missed : BOOLEAN, raced : SUBSET Accounts]
      /\ DOMAIN accounts \subseteq Accounts
  BY ListTypeIs DEF ListInv, ListType
<1>1. /\ accounts' \in Tables /\ accountWrites' = accountWrites
      /\ used' \in [writes : Nat, lapses : Nat, ids : SUBSET Accounts]
      /\ used.ids \subseteq used'.ids /\ DOMAIN accounts' \subseteq used'.ids
      /\ DOMAIN accounts \subseteq DOMAIN accounts'
      /\ DOMAIN accounts' \cap used.ids \subseteq DOMAIN accounts
  BY ChangeIs DEF Acc!ChangeUnheard
<1>2. accountsPage' = accountsPage
  BY DEF Acc!ChangeUnheard
<1>3. /\ seen' \in [missed : BOOLEAN, raced : SUBSET Accounts] /\ seen'.missed
      /\ seen'.raced = seen.raced \cup {id \in DOMAIN accounts :
                                          accounts'[id] # accounts[id] /\ Acc!Pending(id)}
  BY <1>0 DEF Acc!ChangeUnheard
<1>4. ListType'
  BY <1>0, <1>1, <1>2, <1>3 DEF ListType
<1>5. UsedIds'
  BY <1>1, <1>2 DEF ListInv, UsedIds
<1>6. OneWrite'
  BY <1>1, <1>3 DEF ListInv, OneWrite
<1>7. \A i \in used.ids \ seen'.raced :
        /\ i \in DOMAIN accounts' <=> i \in DOMAIN accounts
        /\ i \in DOMAIN accounts => accounts'[i] = accounts[i] \/ ~Acc!Pending(i)
        /\ AccountExplained(i) => AccountExplained(i)'
  BY <1>1, <1>3 DEF AccountExplained
<1>8. Replies'
  <2> SUFFICES ASSUME NEW u \in accountWrites, u.pc = "replied", u.id \notin seen'.raced
               PROVE  /\ u.op.field = "delete" => u.id \notin DOMAIN accounts'
                      /\ u.op.field # "delete" =>
                           /\ u.id \in DOMAIN accounts'
                           /\ u.reply.active = accounts'[u.id].active
                           /\ u.reply.label = accounts'[u.id].label
    BY <1>1 DEF Replies
  <2>1. u.id \in used.ids /\ u.id \notin seen.raced /\ Acc!Pending(u.id)
    BY <1>3 DEF ListInv, UsedIds, Acc!Pending
  <2> QED
    BY <1>7, <2>1 DEF ListInv, Replies
<1>9. ReadFits' /\ ShownFits'
  BY <1>3 DEF ReadFits, ShownFits
<1>10. StoreFits'
  <2> SUFFICES ASSUME accountsPage.mounted, accountsPage.data # None,
                      NEW i \in Accounts, i \notin seen'.raced
               PROVE  \/ Matches(accountsPage.store, accountsPage.data, i)
                      \/ Matches(accountsPage.store, accounts', i)
                      \/ i \in DOMAIN accountsPage.store /\ AccountExplained(i)'
    BY <1>2 DEF StoreFits
  <2>0. \/ Matches(accountsPage.store, accountsPage.data, i)
        \/ Matches(accountsPage.store, accounts, i)
        \/ i \in DOMAIN accountsPage.store /\ AccountExplained(i)
    BY <1>3 DEF ListInv, StoreFits
  <2>1. CASE i \notin used.ids
    BY <2>1 DEF ListInv, UsedIds, Matches
  <2>2. CASE i \in used.ids /\ (i \in DOMAIN accounts => accounts'[i] = accounts[i])
    BY <1>7, <2>0, <2>2 DEF Matches
  <2>3. CASE i \in used.ids /\ i \in DOMAIN accounts /\ ~Acc!Pending(i)
    <3>1. ~AccountExplained(i) /\ ~Acc!Unread(i)
      BY <2>3 DEF Acc!Pending, AccountExplained
    <3> QED
      BY <2>0, <2>3, <3>1 DEF Acc!Unread, Matches
  <2> QED
    BY <1>7, <2>1, <2>2, <2>3
<1> QED
  BY <1>4, <1>5, <1>6, <1>8, <1>9, <1>10 DEF ListInv

\* Every step of the page keeps its invariant.
LEMMA NextList == ListInv /\ [Acc!Next]_accountsVars => ListInv'
<1> SUFFICES ASSUME ListInv, [Acc!Next]_accountsVars PROVE ListInv'
  OBVIOUS
<1>1. CASE UNCHANGED accountsVars
  <2>1. ListType' /\ UsedIds' /\ OneWrite' /\ Replies'
    BY <1>1 DEF ListInv, ListType, UsedIds, OneWrite, Replies, accountsVars
  <2>2. ReadFits' /\ ShownFits' /\ StoreFits'
    BY <1>1 DEF ListInv, ReadFits, ShownFits, StoreFits, AccountExplained, accountsVars
  <2> QED
    BY <2>1, <2>2 DEF ListInv
<1>2. CASE Acc!Next
  BY <1>2, StepMount, StepListQuery, StepButtons, StepServe, StepGetAccount, StepGetFails,
     StepWriteSucceeds, StepAccountWriteFails, StepChangeHeard, StepChangeUnheard DEF Acc!Next
<1> QED
  BY <1>1, <1>2

\* The property, from the invariant.
LEMMA QuietListIsServer == ListInv => Acc!ListIsServer
<1> SUFFICES ASSUME ListInv, Acc!Quiet
             PROVE  /\ DOMAIN Acc!List = DOMAIN accounts
                    /\ \A i \in DOMAIN Acc!List :
                         Acc!Shown(accounts[i], Acc!List[i].connected) = Acc!List[i]
  BY DEF Acc!ListIsServer
<1>0. /\ accountsPage.mounted /\ accountsPage.data # None /\ accountsPage.fetch.pc = "idle"
      /\ ~accountsPage.failed /\ accountWrites = {} /\ ~seen.missed /\ seen.raced = {}
  BY DEF Acc!Quiet
<1>1. /\ accountsPage.store \in RowLists /\ accountsPage.data \in RowLists
      /\ DOMAIN accounts \subseteq Accounts
  BY <1>0, ListTypeIs DEF ListInv
<1>2. \A i : ~AccountExplained(i)
  BY <1>0 DEF AccountExplained
<1>3. \A i \in Accounts : Matches(accountsPage.data, accounts, i)
  BY <1>0, <1>2 DEF ListInv, ShownFits
<1>4. \A i \in Accounts : Matches(accountsPage.store, accounts, i)
  BY <1>0, <1>2, <1>3 DEF ListInv, StoreFits, Matches
<1>5. \A i \in Accounts : Matches(Acc!List, accounts, i)
  BY <1>0, <1>3, <1>4 DEF Acc!List
<1>6. Acc!List \in RowLists
  BY <1>0, <1>1 DEF Acc!List
<1> DEFINE l == Acc!List
<1> HIDE DEF l
<1>7. /\ DOMAIN l \subseteq Accounts /\ \A i \in DOMAIN l : l[i] \in Row
      /\ \A i \in Accounts : Matches(l, accounts, i)
  BY <1>5, <1>6, RowListIs DEF l
<1>8. DOMAIN l = DOMAIN accounts
  BY <1>1, <1>7 DEF Matches
<1>9. \A i \in DOMAIN l : Acc!Shown(accounts[i], l[i].connected) = l[i]
  BY <1>7 DEF Matches, Acc!Shown, Row
<1> QED
  BY <1>8, <1>9 DEF l

-----------------------------------------------------------------------------
\* The accounts page of the demo.

\* Lists of accounts, and what a write does to one.
AccountLists == UNION {[S -> Rows!Account] : S \in SUBSET Accounts}

Ops == Rows!Changes \cup [field : {"delete"}, value : {None}]

\* The type invariant.
RowsType ==
  /\ demoAccounts \in AccountLists
  /\ mounted \in BOOLEAN
  /\ query \in [data : AccountLists \cup {None}, busy : BOOLEAN]
  /\ demoAccountStore \in AccountLists
  /\ demoWrites \in SUBSET [n : Nat, acc : Accounts, op : Ops]
  /\ demoActs \in Nat

\* Two lists have an account alike.
Same(f, g, a) == (a \in DOMAIN f <=> a \in DOMAIN g) /\ (a \in DOMAIN f => f[a] = g[a])

\* The data is the accounts, or is being asked for; the store has each account as one of
\* the two.
RowsFit ==
  mounted /\ query.data # None =>
    /\ query.busy \/ query.data = demoAccounts
    /\ \A a \in Accounts : \/ Same(demoAccountStore, demoAccounts, a)
                           \/ Same(demoAccountStore, query.data, a)

RowsInv == RowsType /\ RowsFit

\* Lists of accounts.
LEMMA AccountListIs ==
  \A f : f \in AccountLists <=> /\ DOMAIN f \subseteq Accounts
                                /\ f \in [DOMAIN f -> Rows!Account]
  BY DEF AccountLists

\* From PagesBounds.
LEMMA NoneIsNoList == None \notin AccountLists
  BY PagesBounds DEF Rows!DemoAccountsBounds, AccountLists, Rows!Account

\* An account put in a list.
LEMMA PutIs ==
  ASSUME NEW f \in AccountLists, NEW a \in Accounts, NEW v \in Rows!Account
  PROVE  /\ Rows!Put(f, a, v) \in AccountLists
         /\ a \in DOMAIN Rows!Put(f, a, v) /\ Rows!Put(f, a, v)[a] = v
         /\ \A b \in Accounts : b # a => Same(Rows!Put(f, a, v), f, b)
<1>1. DOMAIN f \subseteq Accounts /\ \A b \in DOMAIN f : f[b] \in Rows!Account
  BY AccountListIs
<1> DEFINE g == Rows!Put(f, a, v)
<1>2. /\ DOMAIN g = DOMAIN f \cup {a} /\ g \in [DOMAIN g -> Rows!Account] /\ g[a] = v
      /\ \A b \in DOMAIN f : b # a => g[b] = f[b]
  BY <1>1 DEF Rows!Put
<1> HIDE DEF g
<1>3. g \in AccountLists
  BY <1>1, <1>2, AccountListIs
<1> QED
  BY <1>2, <1>3 DEF g, Same

\* An account taken out of a list.
LEMMA WithoutAccount ==
  ASSUME NEW f \in AccountLists, NEW a \in Accounts
  PROVE  /\ Rows!Without(f, a) \in AccountLists
         /\ a \notin DOMAIN Rows!Without(f, a)
         /\ \A b \in Accounts : b # a => Same(Rows!Without(f, a), f, b)
<1>1. DOMAIN f \subseteq Accounts /\ \A b \in DOMAIN f : f[b] \in Rows!Account
  BY AccountListIs
<1> DEFINE g == Rows!Without(f, a)
<1>2. /\ DOMAIN g = DOMAIN f \ {a} /\ g \in [DOMAIN g -> Rows!Account]
      /\ \A b \in DOMAIN g : g[b] = f[b]
  BY <1>1 DEF Rows!Without, Rows!Restrict
<1> HIDE DEF g
<1>3. g \in AccountLists
  BY <1>1, <1>2, AccountListIs
<1> QED
  BY <1>2, <1>3 DEF g, Same

\* Lists with all accounts alike are the same.
LEMMA SameAll ==
  ASSUME NEW f \in AccountLists, NEW g \in AccountLists, \A a \in Accounts : Same(f, g, a)
  PROVE  f = g
<1>1. DOMAIN f = DOMAIN g
  BY AccountListIs DEF Same
<1>2. f \in [DOMAIN f -> Rows!Account] /\ g \in [DOMAIN f -> Rows!Account]
  BY <1>1, AccountListIs
<1>3. \A a \in DOMAIN f : f[a] = g[a]
  BY AccountListIs DEF Same
<1> QED
  BY <1>2, <1>3

\* The invariant holds at first.
LEMMA InitRows == Rows!Init => RowsInv
<1> SUFFICES ASSUME Rows!Init PROVE RowsInv
  OBVIOUS
<1>1. /\ demoAccounts \in [Accounts -> Rows!Account] /\ mounted = TRUE
      /\ query = [data |-> None, busy |-> TRUE] /\ demoAccountStore = [a \in {} |-> None]
      /\ demoWrites = {} /\ demoActs = 0
  BY DEF Rows!Init
<1>2. demoAccounts \in AccountLists /\ demoAccountStore \in AccountLists
  BY <1>1, AccountListIs
<1>3. query \in [data : AccountLists \cup {None}, busy : BOOLEAN]
  BY <1>1
<1>4. RowsType
  BY <1>1, <1>2, <1>3 DEF RowsType
<1>5. query.data = None
  BY <1>1
<1> QED
  BY <1>4, <1>5 DEF RowsInv, RowsFit

\* Mounting puts the data in the store.
LEMMA MountRows == ASSUME RowsInv, Rows!Mount PROVE RowsInv'
<1>1. /\ UNCHANGED <<demoAccounts, demoWrites, demoActs>> /\ mounted' = TRUE
      /\ query' = [query EXCEPT !.busy = TRUE]
      /\ demoAccountStore' = IF query.data = None THEN demoAccountStore ELSE query.data
  BY DEF Rows!Mount
<1>2. RowsType
  BY DEF RowsInv
<1>3. query' \in [data : AccountLists \cup {None}, busy : BOOLEAN]
      /\ query'.data = query.data /\ query'.busy = TRUE
  BY <1>1, <1>2 DEF RowsType
<1>4. demoAccountStore' \in AccountLists
  BY <1>1, <1>2 DEF RowsType
<1>5. RowsType'
  BY <1>1, <1>2, <1>3, <1>4 DEF RowsType
<1>6. RowsFit'
  BY <1>1, <1>3 DEF RowsFit, Same
<1> QED
  BY <1>5, <1>6 DEF RowsInv

\* Unmounting leaves them.
LEMMA UnmountRows == ASSUME RowsInv, Rows!Unmount PROVE RowsInv'
  BY DEF Rows!Unmount, RowsInv, RowsType, RowsFit

\* An answer becomes the data, and the store if the data is another.
LEMMA ListRows == ASSUME RowsInv, Rows!ListAccounts PROVE RowsInv'
<1>1. /\ UNCHANGED <<demoAccounts, mounted, demoWrites, demoActs>>
      /\ query' = [data |-> demoAccounts, busy |-> FALSE]
      /\ demoAccountStore' = IF mounted /\ demoAccounts # query.data
                             THEN demoAccounts ELSE demoAccountStore
  BY DEF Rows!ListAccounts
<1>2. RowsType /\ RowsFit
  BY DEF RowsInv
<1>3. query' \in [data : AccountLists \cup {None}, busy : BOOLEAN]
      /\ query'.data = demoAccounts
  BY <1>1, <1>2 DEF RowsType
<1>4. demoAccountStore' \in AccountLists
  BY <1>1, <1>2 DEF RowsType
<1>5. RowsType'
  BY <1>1, <1>2, <1>3, <1>4 DEF RowsType
<1>6. demoAccounts # None
  BY <1>2, NoneIsNoList DEF RowsType
<1>7. RowsFit'
  BY <1>1, <1>2, <1>3, <1>6 DEF RowsFit, Same
<1> QED
  BY <1>5, <1>7 DEF RowsInv

\* A button sends a request.
LEMMA AskRows ==
  ASSUME RowsInv, NEW a \in Accounts, NEW op \in Ops, Rows!Ask(a, op)
  PROVE  RowsInv'
<1> DEFINE new == [n |-> demoActs, acc |-> a, op |-> op]
<1>1. /\ UNCHANGED <<demoAccounts, mounted, query, demoAccountStore>>
      /\ demoActs' = demoActs + 1 /\ demoWrites' = demoWrites \cup {new}
  BY DEF Rows!Ask
<1>2. RowsType /\ RowsFit
  BY DEF RowsInv
<1>3. new \in [n : Nat, acc : Accounts, op : Ops]
  BY <1>2 DEF RowsType
<1> HIDE DEF new
<1> QED
  BY <1>1, <1>2, <1>3 DEF RowsInv, RowsType, RowsFit

\* What a request asked for is a change of a row.
LEMMA AskedRows ==
  ASSUME RowsInv, NEW a \in Accounts,
         Rows!Toggle(a) \/ Rows!Delete(a) \/ \E l \in Labels : Rows!SaveLabel(a, l)
  PROVE  RowsInv'
<1>1. /\ [field |-> "delete", value |-> None] \in Ops
      /\ \A l \in Labels : [field |-> "label", value |-> l] \in Ops
      /\ \A on \in BOOLEAN : [field |-> "active", value |-> on] \in Ops
  BY DEF Ops, Rows!Changes
<1> DEFINE on == ~Rows!Shown[a].active
<1>2. on \in BOOLEAN
  OBVIOUS
<1>3. CASE Rows!Toggle(a)
  <2>1. Rows!Ask(a, [field |-> "active", value |-> on])
    BY <1>3 DEF Rows!Toggle
  <2> HIDE DEF on
  <2> QED
    BY <1>1, <1>2, <2>1, AskRows
<1>4. CASE Rows!Delete(a)
  BY <1>1, <1>4, AskRows DEF Rows!Delete
<1>5. ASSUME NEW l \in Labels, Rows!SaveLabel(a, l) PROVE RowsInv'
  BY <1>1, <1>5, AskRows DEF Rows!SaveLabel
<1> QED
  BY <1>3, <1>4, <1>5

\* A change is served and heard of in one step.
LEMMA UpdateRows ==
  ASSUME RowsInv, NEW r \in demoWrites, Rows!UpdateAccount(r) PROVE RowsInv'
<1> DEFINE a == [demoAccounts[r.acc] EXCEPT ![r.op.field] = r.op.value]
<1>1. /\ UNCHANGED <<mounted, demoActs>> /\ demoWrites' = demoWrites \ {r}
      /\ r.op.field # "delete"
  BY DEF Rows!UpdateAccount, Rows!Ends
<1>2. RowsType /\ RowsFit
  BY DEF RowsInv
<1>3. r \in [n : Nat, acc : Accounts, op : Ops]
  BY <1>2 DEF RowsType
<1>4. CASE r.acc \notin DOMAIN demoAccounts
  <2>1. UNCHANGED <<demoAccounts, demoAccountStore, query>>
    BY <1>4 DEF Rows!UpdateAccount
  <2> QED
    BY <1>1, <1>2, <2>1 DEF RowsInv, RowsType, RowsFit
<1>5. CASE r.acc \in DOMAIN demoAccounts
  <2>1. /\ demoAccounts' = Rows!Put(demoAccounts, r.acc, a)
        /\ demoAccountStore' = Rows!Put(demoAccountStore, r.acc, a)
    BY <1>5 DEF Rows!UpdateAccount
  <2>2. PICK data \in {query.data} \cup IF query.data # None /\ r.acc \in DOMAIN query.data
                                        THEN {Rows!Put(query.data, r.acc, a)} ELSE {} :
          query' = Rows!Invalidated(data)
    BY <1>5 DEF Rows!UpdateAccount
  <2>3. a \in Rows!Account
    <3>1. demoAccounts[r.acc] \in Rows!Account
      BY <1>2, <1>5, AccountListIs DEF RowsType
    <3>2. \/ r.op.field = "active" /\ r.op.value \in BOOLEAN
          \/ r.op.field = "label" /\ r.op.value \in Labels
      BY <1>1, <1>3 DEF Ops, Rows!Changes
    <3> QED
      BY <3>1, <3>2 DEF Rows!Account
  <2>4. r.acc \in Accounts
    BY <1>3
  <2> HIDE DEF a
  <2>5. /\ demoAccounts' \in AccountLists /\ demoAccountStore' \in AccountLists
        /\ Same(demoAccountStore', demoAccounts', r.acc)
        /\ \A b \in Accounts : b # r.acc =>
             /\ Same(demoAccounts', demoAccounts, b)
             /\ Same(demoAccountStore', demoAccountStore, b)
    BY <1>2, <2>1, <2>3, <2>4, PutIs DEF RowsType, Same
  <2>6. /\ data \in AccountLists \cup {None} /\ (data = None <=> query.data = None)
        /\ query.data # None => \A b \in Accounts : b # r.acc => Same(data, query.data, b)
    <3>1. CASE data = query.data
      BY <1>2, <3>1 DEF RowsType, Same
    <3>2. CASE data # query.data
      <4>1. query.data \in AccountLists /\ query.data # None
            /\ data = Rows!Put(query.data, r.acc, a)
        BY <1>2, <2>2, <3>2 DEF RowsType
      <4> QED
        BY <2>3, <2>4, <4>1, PutIs, NoneIsNoList
    <3> QED
      BY <3>1, <3>2
  <2>7. query' = [data |-> data, busy |-> query.busy \/ mounted]
    BY <2>2 DEF Rows!Invalidated
  <2>8. RowsType'
    BY <1>1, <1>2, <2>5, <2>6, <2>7 DEF RowsType
  <2>9. RowsFit'
    <3> SUFFICES ASSUME mounted, query.data # None, NEW b \in Accounts
                 PROVE  \/ Same(demoAccountStore', demoAccounts', b)
                        \/ Same(demoAccountStore', data, b)
      BY <1>1, <2>6, <2>7 DEF RowsFit
    <3>1. CASE b = r.acc
      BY <2>5, <3>1
    <3>2. CASE b # r.acc
      BY <1>2, <2>5, <2>6, <3>2 DEF RowsFit, Same
    <3> QED
      BY <3>1, <3>2
  <2> QED
    BY <2>8, <2>9 DEF RowsInv
<1> QED
  BY <1>4, <1>5

\* So is a deletion.
LEMMA DeleteRows ==
  ASSUME RowsInv, NEW r \in demoWrites, Rows!DeleteAccount(r) PROVE RowsInv'
<1>1. /\ UNCHANGED <<mounted, demoActs>> /\ demoWrites' = demoWrites \ {r}
      /\ demoAccounts' = Rows!Without(demoAccounts, r.acc)
      /\ demoAccountStore' = Rows!Without(demoAccountStore, r.acc)
      /\ query' = [data |-> query.data, busy |-> query.busy \/ mounted]
  BY DEF Rows!DeleteAccount, Rows!Ends, Rows!Invalidated
<1>2. RowsType /\ RowsFit
  BY DEF RowsInv
<1>3. r.acc \in Accounts
  BY <1>2 DEF RowsType
<1>4. /\ demoAccounts' \in AccountLists /\ demoAccountStore' \in AccountLists
      /\ Same(demoAccountStore', demoAccounts', r.acc)
      /\ \A b \in Accounts : b # r.acc =>
           /\ Same(demoAccounts', demoAccounts, b)
           /\ Same(demoAccountStore', demoAccountStore, b)
  BY <1>1, <1>2, <1>3, WithoutAccount DEF RowsType, Same
<1>5. RowsType'
  BY <1>1, <1>2, <1>4 DEF RowsType
<1>6. RowsFit'
  <2> SUFFICES ASSUME mounted, query.data # None, NEW b \in Accounts
               PROVE  \/ Same(demoAccountStore', demoAccounts', b)
                      \/ Same(demoAccountStore', query.data, b)
    BY <1>1 DEF RowsFit
  <2>1. CASE b = r.acc
    BY <1>4, <2>1
  <2>2. CASE b # r.acc
    BY <1>2, <1>4, <2>2 DEF RowsFit, Same
  <2> QED
    BY <2>1, <2>2
<1> QED
  BY <1>5, <1>6 DEF RowsInv

\* Every step of the page keeps its invariant.
LEMMA NextRows == ASSUME RowsInv, [Rows!Next]_rowsVars PROVE RowsInv'
<1>1. CASE UNCHANGED rowsVars
  BY <1>1 DEF rowsVars, RowsInv, RowsType, RowsFit
<1>2. CASE Rows!Next
  BY <1>2, MountRows, UnmountRows, ListRows, AskedRows, UpdateRows, DeleteRows DEF Rows!Next
<1> QED
  BY <1>1, <1>2

\* The property, from the invariant.
LEMMA RowsAreShown == RowsInv => Rows!AccountsShown
<1> SUFFICES ASSUME RowsInv, mounted, query.data # None, ~query.busy
             PROVE  Rows!Shown = demoAccounts
  BY DEF Rows!AccountsShown
<1>1. /\ demoAccounts \in AccountLists /\ demoAccountStore \in AccountLists
      /\ query.data = demoAccounts
      /\ \A a \in Accounts : Same(demoAccountStore, demoAccounts, a)
  BY DEF RowsInv, RowsType, RowsFit
<1>2. demoAccountStore = demoAccounts
  BY <1>1, SameAll
<1> QED
  BY <1>1, <1>2 DEF Rows!Shown

-----------------------------------------------------------------------------
\* The page of a contact.

\* Whether a contact is tracked, as a set of values of its own: the provers then treat
\* them as any others.
Tracking == BOOLEAN
Trackings == UNION {[S -> Tracking] : S \in SUBSET Contacts}
Pc == {"idle", "asked", "answered"}
ListAsked == [data : Trackings \cup {None}, fresh : BOOLEAN, pc : Pc,
              got : Trackings \cup {None}, gotFresh : BOOLEAN]
TimelineAsked == [data : Tracking \cup {None}, fresh : BOOLEAN, pc : Pc,
                  got : Tracking \cup {None}, gotFresh : BOOLEAN]
ContactWrite == [n : Nat, id : Contacts, cid : Contacts, op : {"toggle", "delete"},
                 own : BOOLEAN, value : Tracking \cup {None},
                 pc : {"sent", "updated", "replied"}, reply : Tracking \cup {None}]

\* The type invariant.
PageType ==
  /\ contacts \in Trackings
  /\ list \in ListAsked /\ (list.pc = "answered" => list.got # None)
  /\ timeline \in [Contacts -> TimelineAsked]
  /\ \A c \in Contacts : timeline[c].pc = "answered" => timeline[c].got # None
  /\ store \in Trackings
  /\ route \in [open : Contacts \cup {None}, last : Contacts \cup {None}]
  /\ route.open # None => list.data # None
  /\ contactWrites \in SUBSET ContactWrite
  /\ \A w \in contactWrites : /\ w.op = "toggle" => w.value # None
                              /\ w.op = "toggle" /\ w.pc = "replied" => w.reply # None
                              /\ w.pc = "updated" => w.op = "toggle"
  /\ contactLeft \in [writes : Nat, lapses : Nat]

\* The list is as the table when it is fresh, and never lacks a contact of the table's:
\* the table only loses contacts.
ListRead ==
  /\ list.fresh => list.data = contacts
  /\ list.gotFresh => list.got = contacts
  /\ list.data # None => DOMAIN contacts \subseteq DOMAIN list.data
  /\ list.got # None => DOMAIN contacts \subseteq DOMAIN list.got

\* A timeline is as the table when it is fresh.
TimelineRead == \A c \in DOMAIN contacts :
  /\ timeline[c].fresh => timeline[c].data = contacts[c]
  /\ timeline[c].gotFresh => timeline[c].got = contacts[c]

\* Two writes of one contact race.
OwnWrite == \A w, v \in contactWrites : w.id = v.id /\ w # v => w.id \in raced

\* A reply is as the table, unless others changed the contact.
Answers == \A w \in contactWrites :
  w.pc = "replied" /\ w.op = "toggle" /\ w.id \in DOMAIN contacts \ raced =>
    w.reply = contacts[w.id]

\* A write of a contact that the server has at least begun to serve.
Underway(c) == \E w \in contactWrites : w.id = c /\ w.pc # "sent"

\* The store's contact is as the table, or as one of the queries that would overwrite it,
\* or a write's answer will.
HeaderFits == \A c \in DOMAIN contacts \ raced :
  Contact!Open(c) /\ c \in DOMAIN store /\ timeline[c].data # None =>
    \/ store[c] = contacts[c] \/ store[c] = list.data[c] \/ store[c] = timeline[c].data
    \/ Underway(c)

PageInv == PageType /\ ListRead /\ TimelineRead /\ OwnWrite /\ Answers /\ HeaderFits

\* From PagesBounds.
LEMMA TrackingIs ==
  /\ None \notin Tracking /\ None \notin Contacts /\ None \notin Trackings
  /\ Trackings = Contact!Partial
  BY PagesBounds DEF Tracking, Trackings, Contact!Partial, Contact!PageBounds

\* Tables and lists.
LEMMA TrackingsAre ==
  \A f : f \in Trackings <=> DOMAIN f \subseteq Contacts /\ f \in [DOMAIN f -> Tracking]
  BY DEF Trackings

\* What the query library does to a query.
Handled(Q) == \A q \in Q :
  /\ LET r == Contact!Ask(q)
     IN r \in Q /\ r.data = q.data /\ r.fresh = q.fresh /\ r.pc = "asked" /\ r.got = None
        /\ ~r.gotFresh
  /\ LET r == Contact!Outdated(q)
     IN r \in Q /\ r.data = q.data /\ ~r.fresh /\ r.pc = q.pc /\ r.got = q.got /\ ~r.gotFresh
  /\ LET r == Contact!Arrived(q)
     IN r \in Q /\ r.data = q.got /\ r.fresh = q.gotFresh /\ r.pc = "idle" /\ r.got = None
        /\ ~r.gotFresh
  /\ LET r == [q EXCEPT !.pc = "idle", !.got = None, !.gotFresh = FALSE]
     IN r \in Q /\ r.data = q.data /\ r.fresh = q.fresh /\ r.pc = "idle" /\ r.got = None
        /\ ~r.gotFresh
  /\ LET r == [q EXCEPT !.pc = "idle"]
     IN r \in Q /\ r.data = q.data /\ r.fresh = q.fresh /\ r.pc = "idle" /\ r.got = q.got
        /\ r.gotFresh = q.gotFresh

\* Both kinds of query are handled so.
LEMMA HandledQueries ==
  Handled(ListAsked) /\ Handled(TimelineAsked)
<1>1. ASSUME NEW D
      PROVE  Handled([data : D \cup {None}, fresh : BOOLEAN, pc : Pc, got : D \cup {None},
                      gotFresh : BOOLEAN])
  <2> DEFINE Q == [data : D \cup {None}, fresh : BOOLEAN, pc : Pc, got : D \cup {None},
                   gotFresh : BOOLEAN]
  <2> SUFFICES Handled(Q)
    OBVIOUS
  <2>1. ASSUME NEW q \in Q
        PROVE  LET r == Contact!Ask(q)
               IN r \in Q /\ r.data = q.data /\ r.fresh = q.fresh /\ r.pc = "asked" /\ r.got = None
                  /\ ~r.gotFresh
    BY DEF Contact!Ask, Pc
  <2>2. ASSUME NEW q \in Q
        PROVE  LET r == Contact!Outdated(q)
               IN r \in Q /\ r.data = q.data /\ ~r.fresh /\ r.pc = q.pc /\ r.got = q.got
                  /\ ~r.gotFresh
    BY DEF Contact!Outdated, Pc
  <2>4. ASSUME NEW q \in Q
        PROVE  LET r == Contact!Arrived(q)
               IN r \in Q /\ r.data = q.got /\ r.fresh = q.gotFresh /\ r.pc = "idle" /\ r.got = None
                  /\ ~r.gotFresh
    BY DEF Contact!Arrived, Contact!NotAsked, Pc
  <2>5. ASSUME NEW q \in Q
        PROVE  LET r == [q EXCEPT !.pc = "idle", !.got = None, !.gotFresh = FALSE]
               IN r \in Q /\ r.data = q.data /\ r.fresh = q.fresh /\ r.pc = "idle" /\ r.got = None
                  /\ ~r.gotFresh
    BY DEF Pc
  <2>6. ASSUME NEW q \in Q
        PROVE  LET r == [q EXCEPT !.pc = "idle"]
               IN r \in Q /\ r.data = q.data /\ r.fresh = q.fresh /\ r.pc = "idle" /\ r.got = q.got
                  /\ r.gotFresh = q.gotFresh
    BY DEF Pc
  <2> HIDE DEF Q
  <2> QED
    BY <2>1, <2>2, <2>4, <2>5, <2>6 DEF Handled
<1> QED
  BY <1>1 DEF ListAsked, TimelineAsked

\* The invariant holds at first.
LEMMA InitPage == Contact!Init => PageInv
<1> SUFFICES ASSUME Contact!Init PROVE PageInv
  OBVIOUS
<1>1. /\ Contact!NotAsked \in ListAsked /\ Contact!NotAsked \in TimelineAsked
      /\ Contact!NotAsked.data = None /\ ~Contact!NotAsked.fresh /\ ~Contact!NotAsked.gotFresh
      /\ Contact!NotAsked.pc = "idle"
  BY DEF Contact!NotAsked, ListAsked, TimelineAsked, Pc
<1>2. list = Contact!Ask(Contact!NotAsked)
  BY DEF Contact!Init
<1> DEFINE cold == Contact!NotAsked
<1> HIDE DEF cold
<1>3. /\ list \in ListAsked /\ list.data = None /\ ~list.fresh /\ list.pc = "asked"
      /\ list.got = None /\ ~list.gotFresh
  BY <1>1, <1>2, HandledQueries DEF Handled
<1>4. Contact!Nothing \in Trackings /\ DOMAIN Contact!Nothing = {}
  <2>1. DOMAIN Contact!Nothing = {} /\ Contact!Nothing \in [{} -> Tracking]
    BY DEF Contact!Nothing, Tracking
  <2> QED
    BY <2>1, TrackingsAre
<1>5. /\ contacts \in Trackings /\ store = Contact!Nothing /\ contactWrites = {} /\ raced = {}
      /\ timeline = [c \in Contacts |-> cold] /\ route.open = None
      /\ route \in [open : Contacts \cup {None}, last : Contacts \cup {None}]
      /\ contactLeft \in [writes : Nat, lapses : Nat]
  BY PagesBounds, TrackingIs DEF Contact!Init, Contact!PageBounds, cold
<1>6. \A c \in Contacts : timeline[c] \in TimelineAsked /\ timeline[c].pc = "idle"
                          /\ ~timeline[c].fresh /\ ~timeline[c].gotFresh
  BY <1>1, <1>5 DEF cold
<1>7. timeline \in [Contacts -> TimelineAsked]
  BY <1>1, <1>5 DEF cold
<1>8. PageType
  BY <1>3, <1>4, <1>5, <1>6, <1>7 DEF PageType
<1>9. ListRead /\ TimelineRead /\ OwnWrite /\ Answers
  <2>1. DOMAIN contacts \subseteq Contacts
    BY <1>5, TrackingsAre
  <2> QED
    BY <1>3, <1>5, <1>6, <2>1 DEF ListRead, TimelineRead, OwnWrite, Answers
<1>10. HeaderFits
  BY <1>4, <1>5 DEF HeaderFits
<1> QED
  BY <1>8, <1>9, <1>10 DEF PageInv

\* The pieces of a well-typed state.
LEMMA PageTypeIs ==
  ASSUME PageType
  PROVE  /\ DOMAIN contacts \subseteq Contacts
         /\ \A c \in DOMAIN contacts : contacts[c] \in Tracking
         /\ list.data \in Trackings \cup {None} /\ list.got \in Trackings \cup {None}
         /\ \A c \in Contacts : /\ timeline[c] \in TimelineAsked
                                /\ timeline[c].data \in Tracking \cup {None}
                                /\ timeline[c].got \in Tracking \cup {None}
         /\ DOMAIN store \subseteq Contacts
         /\ route.open \in Contacts \cup {None}
<1>1. /\ DOMAIN contacts \subseteq Contacts /\ DOMAIN store \subseteq Contacts
      /\ \A c \in DOMAIN contacts : contacts[c] \in Tracking
  BY TrackingsAre DEF PageType
<1>2. list.data \in Trackings \cup {None} /\ list.got \in Trackings \cup {None}
  BY DEF PageType, ListAsked
<1>3. \A c \in Contacts : timeline[c] \in TimelineAsked
  BY DEF PageType
<1>4. \A q \in TimelineAsked : q.data \in Tracking \cup {None} /\ q.got \in Tracking \cup {None}
  BY DEF TimelineAsked
<1>5. route.open \in Contacts \cup {None}
  BY DEF PageType
<1> QED
  BY <1>1, <1>2, <1>3, <1>4, <1>5

\* What is left stays a number.
LEMMA Spends ==
  ASSUME PageType, NEW what \in {"writes", "lapses"}, Contact!Spend(what)
  PROVE  contactLeft' \in [writes : Nat, lapses : Nat] /\ contactLeft.writes \in Nat
<1>1. CASE what = "writes"
  BY <1>1 DEF PageType, Contact!Spend
<1>2. CASE what = "lapses"
  BY <1>2 DEF PageType, Contact!Spend
<1> QED
  BY <1>1, <1>2

\* A timeline that changes, and the others.
LEMMA TimelineOf ==
  ASSUME NEW t \in [Contacts -> TimelineAsked], NEW c \in Contacts, NEW q \in TimelineAsked
  PROVE  LET u == [t EXCEPT ![c] = q]
         IN /\ u \in [Contacts -> TimelineAsked] /\ u[c] = q
            /\ \A d \in Contacts : d # c => u[d] = t[d]
  OBVIOUS

\* A query that is as good as it was, or is asked again.
AsGood(q, r) ==
  /\ r.data = q.data /\ r.fresh = q.fresh
  /\ r.got \in {q.got, None} /\ (r.gotFresh => q.gotFresh /\ r.got = q.got)
  /\ r.pc = "answered" => q.pc = "answered" /\ r.got = q.got

\* Queries that are asked, or fail.
LEMMA QueriesKeep ==
  ASSUME PageInv, UNCHANGED <<contacts, store, route, contactWrites, raced>>,
         contactLeft' \in [writes : Nat, lapses : Nat],
         list' \in ListAsked, AsGood(list, list'),
         timeline' \in [Contacts -> TimelineAsked],
         \A c \in Contacts : AsGood(timeline[c], timeline'[c])
  PROVE  PageInv'
<1>1. PageType'
  BY DEF PageInv, PageType, AsGood
<1>2. ListRead'
  BY DEF PageInv, ListRead, AsGood
<1>3. DOMAIN contacts \subseteq Contacts
  BY PageTypeIs DEF PageInv
<1>4. TimelineRead'
  BY <1>3 DEF PageInv, TimelineRead, AsGood
<1>5. OwnWrite' /\ Answers'
  BY DEF PageInv, OwnWrite, Answers
<1>6. HeaderFits'
  BY <1>3 DEF PageInv, HeaderFits, AsGood, Contact!Open, Underway
<1> QED
  BY <1>1, <1>2, <1>4, <1>5, <1>6 DEF PageInv

\* Asking keeps a query as good.
LEMMA KeptIs ==
  /\ \A q \in ListAsked \cup TimelineAsked : AsGood(q, q)
  /\ \A q \in ListAsked : Contact!Ask(q) \in ListAsked /\ AsGood(q, Contact!Ask(q))
  /\ \A q \in TimelineAsked : Contact!Ask(q) \in TimelineAsked /\ AsGood(q, Contact!Ask(q))
  /\ \A q \in ListAsked :
       Contact!Invalidated(q) \in ListAsked /\ AsGood(q, Contact!Invalidated(q))
  /\ \A q \in TimelineAsked :
       Contact!Invalidated(q) \in TimelineAsked /\ AsGood(q, Contact!Invalidated(q))
<1>1. \A q \in ListAsked \cup TimelineAsked : AsGood(q, q)
  BY DEF AsGood
<1>2. \A q \in ListAsked : Contact!Ask(q) \in ListAsked /\ AsGood(q, Contact!Ask(q))
  BY HandledQueries DEF Handled, AsGood
<1>3. \A q \in TimelineAsked :
        Contact!Ask(q) \in TimelineAsked /\ AsGood(q, Contact!Ask(q))
  BY HandledQueries DEF Handled, AsGood
<1> QED
  BY <1>1, <1>2, <1>3 DEF Contact!Invalidated

\* Polls, failures, a contact not found and events only ask.
LEMMA StepPolls ==
  ASSUME PageInv,
         \/ Contact!PollList
         \/ \E c \in Contacts : \/ Contact!PollTimeline(c) \/ Contact!TimelineNotFound(c)
                                \/ Contact!QueryFails(c) \/ Contact!Event(c)
  PROVE  PageInv'
<1>0. /\ PageType /\ list \in ListAsked /\ timeline \in [Contacts -> TimelineAsked]
      /\ \A c \in Contacts : timeline[c] \in TimelineAsked
      /\ contactLeft \in [writes : Nat, lapses : Nat]
  BY DEF PageInv, PageType
<1>1. ASSUME NEW c \in Contacts, NEW q \in TimelineAsked, AsGood(timeline[c], q),
             timeline' = [timeline EXCEPT ![c] = q]
      PROVE  /\ timeline' \in [Contacts -> TimelineAsked]
             /\ \A d \in Contacts : AsGood(timeline[d], timeline'[d])
  <2>1. /\ timeline' \in [Contacts -> TimelineAsked] /\ timeline'[c] = q
        /\ \A d \in Contacts : d # c => timeline'[d] = timeline[d]
    BY <1>0, <1>1, TimelineOf
  <2> QED
    BY <1>0, <1>1, <2>1, KeptIs
<1>2. CASE Contact!PollList
  <2>1. /\ UNCHANGED <<contacts, store, route, contactWrites, raced, contactLeft, timeline>>
        /\ list' = Contact!Ask(list)
    BY <1>2 DEF Contact!PollList
  <2> QED
    BY <1>0, <2>1, KeptIs, QueriesKeep
<1>3. ASSUME NEW c \in Contacts, Contact!PollTimeline(c) PROVE PageInv'
  <2> DEFINE q == Contact!Ask(timeline[c])
  <2>1. /\ UNCHANGED <<contacts, store, route, contactWrites, raced, contactLeft, list>>
        /\ timeline' = [timeline EXCEPT ![c] = q]
    BY <1>3 DEF Contact!PollTimeline
  <2>2. q \in TimelineAsked /\ AsGood(timeline[c], q)
    BY <1>0, KeptIs
  <2> HIDE DEF q
  <2> QED
    BY <1>0, <1>1, <2>1, <2>2, KeptIs, QueriesKeep
<1>4. ASSUME NEW c \in Contacts, Contact!TimelineNotFound(c) PROVE PageInv'
  <2> DEFINE q == [timeline[c] EXCEPT !.pc = "idle"]
  <2>1. /\ UNCHANGED <<contacts, store, route, contactWrites, raced, contactLeft, list>>
        /\ timeline' = [timeline EXCEPT ![c] = q]
    BY <1>4 DEF Contact!TimelineNotFound
  <2>2. q \in TimelineAsked /\ AsGood(timeline[c], q)
    BY <1>0, HandledQueries DEF Handled, AsGood
  <2> HIDE DEF q
  <2> QED
    BY <1>0, <1>1, <2>1, <2>2, KeptIs, QueriesKeep
<1>5. ASSUME NEW c \in Contacts, Contact!QueryFails(c) PROVE PageInv'
  <2>1. /\ UNCHANGED <<contacts, store, route, contactWrites, raced>>
        /\ contactLeft' \in [writes : Nat, lapses : Nat]
    BY <1>0, <1>5, Spends DEF Contact!QueryFails
  <2>2. CASE UNCHANGED timeline
             /\ list' = [list EXCEPT !.pc = "idle", !.got = None, !.gotFresh = FALSE]
    <3>1. list' \in ListAsked /\ AsGood(list, list')
      BY <1>0, <2>2, HandledQueries DEF Handled, AsGood
    <3> QED
      BY <1>0, <2>1, <2>2, <3>1, KeptIs, QueriesKeep
  <2>3. CASE UNCHANGED list
             /\ timeline' = [timeline EXCEPT ![c].pc = "idle", ![c].got = None,
                                             ![c].gotFresh = FALSE]
    <3> DEFINE q == [timeline[c] EXCEPT !.pc = "idle", !.got = None, !.gotFresh = FALSE]
    <3>1. timeline' = [timeline EXCEPT ![c] = q]
      BY <1>0, <2>3
    <3>2. q \in TimelineAsked /\ AsGood(timeline[c], q)
      BY <1>0, HandledQueries DEF Handled, AsGood
    <3> HIDE DEF q
    <3> QED
      BY <1>0, <1>1, <2>1, <2>3, <3>1, <3>2, KeptIs, QueriesKeep
  <2> QED
    BY <1>5, <2>2, <2>3 DEF Contact!QueryFails
<1>6. ASSUME NEW c \in Contacts, Contact!Event(c) PROVE PageInv'
  <2> DEFINE q == Contact!Invalidated(timeline[c])
  <2>1. /\ UNCHANGED <<contacts, store, route, contactWrites, raced>>
        /\ contactLeft' \in [writes : Nat, lapses : Nat]
        /\ list' = Contact!Invalidated(list)
        /\ timeline' = [timeline EXCEPT ![c] = q] \/ timeline' = timeline
    BY <1>0, <1>6, Spends DEF Contact!Event
  <2>2. q \in TimelineAsked /\ AsGood(timeline[c], q)
    BY <1>0, KeptIs
  <2> HIDE DEF q
  <2>3. list' \in ListAsked /\ AsGood(list, list')
    BY <1>0, <2>1, KeptIs
  <2> QED
    BY <1>0, <1>1, <2>1, <2>2, <2>3, KeptIs, QueriesKeep
<1> QED
  BY <1>2, <1>3, <1>4, <1>5, <1>6

\* A query served.
LEMMA ServedIs ==
  ASSUME NEW D, NEW d \in D,
         NEW q \in [data : D \cup {None}, fresh : BOOLEAN, pc : Pc, got : D \cup {None},
                    gotFresh : BOOLEAN]
  PROVE  LET r == Contact!Served(q, d)
         IN /\ r \in [data : D \cup {None}, fresh : BOOLEAN, pc : Pc, got : D \cup {None},
                     gotFresh : BOOLEAN]
            /\ r.data = q.data /\ r.fresh = q.fresh /\ r.pc = "answered" /\ r.got = d
  BY DEF Contact!Served, Pc

\* An answer is of the table as it is.
LEMMA StepServeQuery ==
  ASSUME PageInv, Contact!ServeList \/ \E c \in Contacts : Contact!ServeTimeline(c)
  PROVE  PageInv'
<1>0. /\ PageType /\ list \in ListAsked /\ timeline \in [Contacts -> TimelineAsked]
      /\ contacts \in Trackings /\ contacts # None
      /\ \A c \in Contacts : timeline[c] \in TimelineAsked
  BY TrackingIs DEF PageInv, PageType
<1>1. CASE Contact!ServeList
  <2>1. UNCHANGED <<contacts, timeline, store, route, contactWrites, raced, contactLeft>>
    BY <1>1 DEF Contact!ServeList
  <2>2. /\ list' \in ListAsked /\ list'.data = list.data /\ list'.fresh = list.fresh
        /\ list'.pc = "answered" /\ list'.got = contacts
    BY <1>0, <1>1, ServedIs DEF Contact!ServeList, ListAsked
  <2>3. PageType'
    BY <1>0, <2>1, <2>2 DEF PageType
  <2>4. ListRead' /\ TimelineRead' /\ OwnWrite' /\ Answers'
    BY <1>0, <2>1, <2>2 DEF PageInv, ListRead, TimelineRead, OwnWrite, Answers
  <2>5. HeaderFits'
    BY <2>1, <2>2 DEF PageInv, HeaderFits, Contact!Open, Underway
  <2> QED
    BY <2>3, <2>4, <2>5 DEF PageInv
<1>2. ASSUME NEW c \in Contacts, Contact!ServeTimeline(c) PROVE PageInv'
  <2> DEFINE q == Contact!Served(timeline[c], contacts[c])
  <2>1. /\ UNCHANGED <<contacts, list, store, route, contactWrites, raced, contactLeft>>
        /\ timeline' = [timeline EXCEPT ![c] = q] /\ c \in DOMAIN contacts
    BY <1>2 DEF Contact!ServeTimeline
  <2>2. contacts[c] \in Tracking /\ contacts[c] # None
    BY <1>0, <2>1, PageTypeIs, TrackingIs
  <2>3. /\ q \in TimelineAsked /\ q.data = timeline[c].data /\ q.fresh = timeline[c].fresh
        /\ q.pc = "answered" /\ q.got = contacts[c]
    BY <1>0, <2>2, ServedIs DEF TimelineAsked
  <2> HIDE DEF q
  <2>4. /\ timeline' \in [Contacts -> TimelineAsked] /\ timeline'[c] = q
        /\ \A d \in Contacts : d # c => timeline'[d] = timeline[d]
    BY <1>0, <2>1, <2>3, TimelineOf
  <2>5. PageType'
    BY <1>0, <2>1, <2>2, <2>3, <2>4 DEF PageType
  <2>6. DOMAIN contacts \subseteq Contacts
    BY <1>0, PageTypeIs
  <2>7. ListRead' /\ OwnWrite' /\ Answers'
    BY <2>1 DEF PageInv, ListRead, OwnWrite, Answers
  <2>8. TimelineRead'
    BY <2>1, <2>3, <2>4, <2>6 DEF PageInv, TimelineRead
  <2>9. HeaderFits'
    BY <2>1, <2>3, <2>4, <2>6 DEF PageInv, HeaderFits, Contact!Open, Underway
  <2> QED
    BY <2>5, <2>7, <2>8, <2>9 DEF PageInv
<1> QED
  BY <1>1, <1>2

\* The effect on the list: the store gets it, if it is not the list there was.
LEMMA StepListArrives == ASSUME PageInv, Contact!ListArrives PROVE PageInv'
<1>0. /\ PageType /\ list \in ListAsked /\ contacts \in Trackings /\ store \in Trackings
      /\ list.got \in Trackings /\ list.got # None /\ DOMAIN contacts \subseteq DOMAIN list.got
      /\ DOMAIN contacts \subseteq Contacts
  BY PageTypeIs DEF PageInv, PageType, ListRead, Contact!ListArrives
<1>1. UNCHANGED <<contacts, timeline, route, contactWrites, raced, contactLeft>>
  BY DEF Contact!ListArrives
<1>2. /\ list' \in ListAsked /\ list'.data = list.got /\ list'.fresh = list.gotFresh
      /\ list'.pc = "idle" /\ list'.got = None /\ ~list'.gotFresh
  BY <1>0, HandledQueries DEF Contact!ListArrives, Handled
<1> DEFINE s == Contact!UpsertAll(store, list.got)
<1>3. /\ s \in Trackings
      /\ \A c \in DOMAIN list.got : s[c] = list.got[c]
  <2> DEFINE g == list.got
  <2> HIDE DEF g
  <2>1. /\ DOMAIN store \subseteq Contacts /\ \A c \in DOMAIN store : store[c] \in Tracking
        /\ DOMAIN g \subseteq Contacts /\ \A c \in DOMAIN g : g[c] \in Tracking
    BY <1>0, TrackingsAre DEF g
  <2>2. s = [d \in DOMAIN store \cup DOMAIN g |-> IF d \in DOMAIN g THEN g[d] ELSE store[d]]
    BY DEF Contact!UpsertAll, g
  <2> HIDE DEF s
  <2>3. /\ DOMAIN s = DOMAIN store \cup DOMAIN g
        /\ \A d \in DOMAIN g : s[d] = g[d]
        /\ s \in [DOMAIN s -> Tracking]
    BY <2>1, <2>2
  <2>4. s \in Trackings
    BY <2>1, <2>3, TrackingsAre
  <2> QED
    BY <2>3, <2>4 DEF g
<1>4. store' = IF list.got # list.data THEN s ELSE store
  BY DEF Contact!ListArrives
<1> HIDE DEF s
<1>5. PageType'
  BY <1>0, <1>1, <1>2, <1>3, <1>4 DEF PageType
<1>6. ListRead' /\ TimelineRead' /\ OwnWrite' /\ Answers'
  BY <1>0, <1>1, <1>2 DEF PageInv, ListRead, TimelineRead, OwnWrite, Answers
<1>7. HeaderFits'
  <2>1. CASE list.got = list.data
    BY <1>1, <1>2, <1>4, <2>1 DEF PageInv, HeaderFits, Contact!Open, Underway
  <2>2. CASE list.got # list.data
    BY <1>0, <1>1, <1>2, <1>3, <1>4, <2>2 DEF HeaderFits
  <2> QED
    BY <2>1, <2>2
<1> QED
  BY <1>5, <1>6, <1>7 DEF PageInv

\* A contact put in the store.
LEMMA UpsertIs ==
  ASSUME NEW f \in Trackings, NEW c \in Contacts, NEW on \in Tracking
  PROVE  LET g == Contact!Upsert(f, c, on)
         IN /\ g \in Trackings /\ g[c] = on
            /\ \A d : d # c => /\ d \in DOMAIN g <=> d \in DOMAIN f
                               /\ d \in DOMAIN f => g[d] = f[d]
<1> DEFINE g == [d \in DOMAIN f \cup {c} |-> IF d = c THEN on ELSE f[d]]
<1>1. DOMAIN f \subseteq Contacts /\ \A d \in DOMAIN f : f[d] \in Tracking
  BY TrackingsAre
<1>2. /\ DOMAIN g = DOMAIN f \cup {c} /\ g[c] = on
      /\ \A d \in DOMAIN f : d # c => g[d] = f[d]
  OBVIOUS
<1>3. g \in [DOMAIN g -> Tracking]
  BY <1>1
<1> HIDE DEF g
<1>4. g \in Trackings
  BY <1>1, <1>2, <1>3, TrackingsAre
<1>5. Contact!Upsert(f, c, on) = g
  BY DEF Contact!Upsert, g
<1> QED
  BY <1>2, <1>4, <1>5

\* A contact taken out.
LEMMA WithoutTracking ==
  ASSUME NEW f \in Trackings, NEW c
  PROVE  LET g == Contact!Without(f, c)
         IN /\ g \in Trackings /\ DOMAIN g = DOMAIN f \ {c}
            /\ \A d \in DOMAIN g : g[d] = f[d]
<1> DEFINE g == [d \in DOMAIN f \ {c} |-> f[d]]
<1>1. DOMAIN f \subseteq Contacts /\ \A d \in DOMAIN f : f[d] \in Tracking
  BY TrackingsAre
<1>2. /\ DOMAIN g = DOMAIN f \ {c} /\ \A d \in DOMAIN g : g[d] = f[d]
  OBVIOUS
<1>3. g \in [DOMAIN g -> Tracking]
  BY <1>1
<1> HIDE DEF g
<1>4. g \in Trackings
  BY <1>1, <1>2, <1>3, TrackingsAre
<1>5. Contact!Without(f, c) = g
  BY DEF Contact!Without, Contact!Restrict, g
<1> QED
  BY <1>2, <1>4, <1>5

\* The effect on the timeline: the store gets its contact, if the page is open.
LEMMA StepTimelineArrives ==
  ASSUME PageInv, NEW c \in Contacts, Contact!TimelineArrives(c)
  PROVE  PageInv'
<1> DEFINE q == Contact!Arrived(timeline[c])
<1> DEFINE on == timeline[c].got
<1> DEFINE s == Contact!Upsert(store, c, on)
<1>0. /\ PageType /\ timeline \in [Contacts -> TimelineAsked] /\ timeline[c] \in TimelineAsked
      /\ store \in Trackings /\ on \in Tracking /\ on # None
      /\ DOMAIN contacts \subseteq Contacts
  BY PageTypeIs DEF PageInv, PageType, Contact!TimelineArrives
<1>1. /\ UNCHANGED <<contacts, list, route, contactWrites, raced, contactLeft>>
      /\ timeline' = [timeline EXCEPT ![c] = q]
      /\ store' = IF Contact!Open(c) /\ on # timeline[c].data THEN s ELSE store
  BY DEF Contact!TimelineArrives
<1>2. /\ q \in TimelineAsked /\ q.data = on /\ q.fresh = timeline[c].gotFresh
      /\ q.pc = "idle" /\ q.got = None /\ ~q.gotFresh
  BY <1>0, HandledQueries DEF Handled
<1>3. /\ s \in Trackings /\ s[c] = on
      /\ \A d : d # c => (d \in DOMAIN s <=> d \in DOMAIN store)
      /\ \A d : d # c /\ d \in DOMAIN store => s[d] = store[d]
  BY <1>0, UpsertIs
<1> HIDE DEF q, s, on
<1>4. /\ timeline' \in [Contacts -> TimelineAsked] /\ timeline'[c] = q
      /\ \A d \in Contacts : d # c => timeline'[d] = timeline[d]
  BY <1>0, <1>1, <1>2, TimelineOf
<1>5. PageType'
  BY <1>0, <1>1, <1>2, <1>3, <1>4 DEF PageType
<1>6. ListRead' /\ OwnWrite' /\ Answers'
  BY <1>1 DEF PageInv, ListRead, OwnWrite, Answers
<1>7. TimelineRead'
  BY <1>0, <1>1, <1>2, <1>4 DEF PageInv, TimelineRead, on
<1>8. HeaderFits'
  <2> SUFFICES ASSUME NEW d \in DOMAIN contacts \ raced, Contact!Open(d),
                      d \in DOMAIN store', timeline'[d].data # None
               PROVE  \/ store'[d] = contacts[d] \/ store'[d] = list.data[d]
                      \/ store'[d] = timeline'[d].data \/ Underway(d)
    BY <1>1 DEF HeaderFits, Contact!Open, Underway
  <2>1. CASE d # c
    BY <1>0, <1>1, <1>3, <1>4, <2>1 DEF PageInv, HeaderFits
  <2>2. CASE d = c /\ on # timeline[c].data
    BY <1>1, <1>2, <1>3, <1>4, <2>2
  <2>3. CASE d = c /\ on = timeline[c].data
    BY <1>0, <1>1, <1>2, <1>4, <2>3 DEF PageInv, HeaderFits
  <2> QED
    BY <2>1, <2>2, <2>3
<1> QED
  BY <1>5, <1>6, <1>7, <1>8 DEF PageInv

\* Requests of another render, or without some.
LEMMA Rewritten ==
  ASSUME PageInv, UNCHANGED <<contacts, raced>>, NEW S \in SUBSET contactWrites,
         NEW f \in [S -> ContactWrite],
         \A w \in S : /\ f[w].id = w.id /\ f[w].op = w.op /\ f[w].value = w.value
                      /\ f[w].pc = w.pc /\ f[w].reply = w.reply,
         contactWrites' = {f[w] : w \in S}
  PROVE  /\ contactWrites' \in SUBSET ContactWrite
         /\ \A w \in contactWrites' : /\ w.op = "toggle" => w.value # None
                                      /\ w.op = "toggle" /\ w.pc = "replied" => w.reply # None
                                      /\ w.pc = "updated" => w.op = "toggle"
         /\ OwnWrite' /\ Answers'
<1>1. \A w \in contactWrites : /\ w.op = "toggle" => w.value # None
                               /\ w.op = "toggle" /\ w.pc = "replied" => w.reply # None
                               /\ w.pc = "updated" => w.op = "toggle"
  BY DEF PageInv, PageType
<1>2. OwnWrite'
  BY DEF PageInv, OwnWrite
<1>3. Answers'
  BY DEF PageInv, Answers
<1> QED
  BY <1>1, <1>2, <1>3

\* No contact is open any more, and no write is owned.
LEMMA StepLeavePage == ASSUME PageInv, Contact!Leave PROVE PageInv'
<1> DEFINE f == [w \in contactWrites |-> [w EXCEPT !.own = FALSE]]
<1>0. PageType /\ contactWrites \in SUBSET ContactWrite
  BY DEF PageInv, PageType
<1>1. /\ UNCHANGED <<contacts, list, timeline, store, raced, contactLeft>>
      /\ contactWrites' = {f[w] : w \in contactWrites}
      /\ route' = [route EXCEPT !.open = None]
  BY DEF Contact!Leave, Contact!Unmounted
<1>2. \A w \in contactWrites : /\ f[w] \in ContactWrite
                               /\ f[w].id = w.id /\ f[w].op = w.op /\ f[w].value = w.value
                               /\ f[w].pc = w.pc /\ f[w].reply = w.reply
  BY <1>0 DEF ContactWrite
<1>3. f \in [contactWrites -> ContactWrite]
  BY <1>2
<1> HIDE DEF f
<1>4. /\ contactWrites' \in SUBSET ContactWrite
      /\ \A w \in contactWrites' : /\ w.op = "toggle" => w.value # None
                                   /\ w.op = "toggle" /\ w.pc = "replied" => w.reply # None
                                   /\ w.pc = "updated" => w.op = "toggle"
      /\ OwnWrite' /\ Answers'
  <2>1. UNCHANGED <<contacts, raced>> /\ contactWrites \in SUBSET contactWrites
    BY <1>1
  <2> QED
    BY <1>1, <1>2, <1>3, <2>1, Rewritten
<1>5. /\ route' \in [open : Contacts \cup {None}, last : Contacts \cup {None}]
      /\ route'.open = None
  BY <1>0, <1>1 DEF PageType
<1>6. PageType'
  BY <1>0, <1>1, <1>4, <1>5 DEF PageType
<1>7. ListRead' /\ TimelineRead'
  BY <1>1 DEF PageInv, ListRead, TimelineRead
<1>8. HeaderFits'
  BY <1>0, <1>1, <1>5, TrackingIs, PageTypeIs DEF HeaderFits, Contact!Open
<1> QED
  BY <1>4, <1>6, <1>7, <1>8 DEF PageInv

\* Another contact is opened: the store gets the cache's, if any.
LEMMA StepVisit ==
  ASSUME PageInv, NEW c \in Contacts, Contact!Visit(c)
  PROVE  PageInv'
<1> DEFINE f == [w \in contactWrites |-> [w EXCEPT !.cid = IF w.own THEN c ELSE @]]
<1> DEFINE on == timeline[c].data
<1> DEFINE s == Contact!Upsert(store, c, on)
<1> DEFINE q == Contact!Asked(timeline[c])
<1>0. /\ PageType /\ contactWrites \in SUBSET ContactWrite
      /\ timeline \in [Contacts -> TimelineAsked] /\ timeline[c] \in TimelineAsked
      /\ store \in Trackings /\ on \in Tracking \cup {None}
      /\ DOMAIN contacts \subseteq Contacts
  BY PageTypeIs DEF PageInv, PageType
<1>1. /\ UNCHANGED <<contacts, list, raced, contactLeft>>
      /\ contactWrites' = {f[w] : w \in contactWrites}
      /\ route' = [open |-> c, last |-> c] /\ list.data # None
      /\ store' = IF on = None THEN store ELSE s
      /\ timeline' = [timeline EXCEPT ![c] = q]
  BY <1>0 DEF Contact!Visit, Contact!Rerendered
<1>2. \A w \in contactWrites : /\ f[w] \in ContactWrite
                               /\ f[w].id = w.id /\ f[w].op = w.op /\ f[w].value = w.value
                               /\ f[w].pc = w.pc /\ f[w].reply = w.reply
  BY <1>0 DEF ContactWrite
<1>3. f \in [contactWrites -> ContactWrite]
  BY <1>2
<1>4. on # None => s \in Trackings /\ s[c] = on
  BY <1>0, UpsertIs
<1>5. q \in TimelineAsked /\ AsGood(timeline[c], q)
  BY <1>0, KeptIs DEF Contact!Asked
<1> HIDE DEF f, s, q
<1>6. /\ contactWrites' \in SUBSET ContactWrite
      /\ \A w \in contactWrites' : /\ w.op = "toggle" => w.value # None
                                   /\ w.op = "toggle" /\ w.pc = "replied" => w.reply # None
                                   /\ w.pc = "updated" => w.op = "toggle"
      /\ OwnWrite' /\ Answers'
  <2>1. UNCHANGED <<contacts, raced>> /\ contactWrites \in SUBSET contactWrites
    BY <1>1
  <2> QED
    BY <1>1, <1>2, <1>3, <2>1, Rewritten
<1>7. /\ timeline' \in [Contacts -> TimelineAsked] /\ timeline'[c] = q
      /\ \A d \in Contacts : d # c => timeline'[d] = timeline[d]
  BY <1>0, <1>1, <1>5, TimelineOf
<1>8. /\ route' \in [open : Contacts \cup {None}, last : Contacts \cup {None}]
      /\ route'.open = c
  BY <1>1
<1>9. PageType'
  BY <1>0, <1>1, <1>4, <1>5, <1>6, <1>7, <1>8 DEF PageType, AsGood
<1>10. ListRead'
  BY <1>1 DEF PageInv, ListRead
<1>11. TimelineRead'
  BY <1>0, <1>1, <1>5, <1>7 DEF PageInv, TimelineRead, AsGood
<1>12. HeaderFits'
  BY <1>0, <1>1, <1>4, <1>5, <1>7, <1>8 DEF HeaderFits, Contact!Open, AsGood
<1> QED
  BY <1>6, <1>9, <1>10, <1>11, <1>12 DEF PageInv

\* What is asked of another's request of the same contact.
LEMMA RequestKeeps ==
  ASSUME PageInv, UNCHANGED <<contacts, list, timeline, store, route>>,
         contactLeft' \in [writes : Nat, lapses : Nat],
         NEW c \in Contacts, NEW w \in ContactWrite, w.id = c, w.pc = "sent",
         w.op = "toggle" => w.value # None,
         raced' = IF \E v \in contactWrites : v.id = c THEN raced \cup {c} ELSE raced,
         contactWrites' = contactWrites \cup {w}
  PROVE  PageInv'
<1>1. PageType'
  BY DEF PageInv, PageType
<1>2. ListRead' /\ TimelineRead'
  BY DEF PageInv, ListRead, TimelineRead
<1>3. OwnWrite'
  BY DEF PageInv, OwnWrite
<1>4. Answers'
  BY DEF PageInv, Answers
<1>5. HeaderFits'
  BY DEF PageInv, HeaderFits, Contact!Open, Underway
<1> QED
  BY <1>1, <1>2, <1>3, <1>4, <1>5 DEF PageInv

\* What the header shows.
LEMMA HeaderIs ==
  ASSUME PageType, NEW c \in Contacts
  PROVE  Contact!Header(c) \in Tracking \cup {None}
<1>1. timeline[c].data \in Tracking \cup {None} /\ store \in Trackings
  BY PageTypeIs DEF PageType
<1>2. c \in DOMAIN store => store[c] \in Tracking
  BY <1>1, TrackingsAre
<1> QED
  BY <1>1, <1>2 DEF Contact!Header

\* The two buttons send a request.
LEMMA StepRequests ==
  ASSUME PageInv, NEW c \in Contacts, Contact!Toggle(c) \/ Contact!Delete(c)
  PROVE  PageInv'
<1>0. PageType
  BY DEF PageInv
<1>1. CASE Contact!Toggle(c)
  <2> DEFINE value == ~Contact!Header(c)
  <2> DEFINE w == [n |-> contactLeft.writes, id |-> c, cid |-> c, op |-> "toggle", own |-> TRUE,
                   value |-> value, pc |-> "sent", reply |-> None]
  <2>1. /\ UNCHANGED <<contacts, list, timeline, store, route>>
        /\ raced' = IF \E v \in contactWrites : v.id = c THEN raced \cup {c} ELSE raced
        /\ contactWrites' = contactWrites \cup {w}
        /\ Contact!Spend("writes") /\ Contact!Header(c) # None
    BY <1>1 DEF Contact!Toggle, Contact!Request
  <2>2. value \in Tracking
    <3>1. Contact!Header(c) \in Tracking
      BY <1>0, <2>1, HeaderIs
    <3> QED
      BY <3>1 DEF Tracking
  <2>3. value # None
    BY <2>2, TrackingIs
  <2>4. contactLeft' \in [writes : Nat, lapses : Nat] /\ contactLeft.writes \in Nat
    BY <1>0, <2>1, Spends
  <2> HIDE DEF value
  <2>5. w \in ContactWrite /\ w.id = c /\ w.pc = "sent" /\ w.value = value
    BY <2>2, <2>4 DEF ContactWrite
  <2> HIDE DEF w
  <2> QED
    BY <2>1, <2>3, <2>4, <2>5, RequestKeeps
<1>2. CASE Contact!Delete(c)
  <2> DEFINE w == [n |-> contactLeft.writes, id |-> c, cid |-> c, op |-> "delete", own |-> TRUE,
                   value |-> None, pc |-> "sent", reply |-> None]
  <2>1. /\ UNCHANGED <<contacts, list, timeline, store, route>>
        /\ raced' = IF \E v \in contactWrites : v.id = c THEN raced \cup {c} ELSE raced
        /\ contactWrites' = contactWrites \cup {w}
        /\ Contact!Spend("writes")
    BY <1>2 DEF Contact!Delete, Contact!Request
  <2>2. contactLeft' \in [writes : Nat, lapses : Nat] /\ contactLeft.writes \in Nat
    BY <1>0, <2>1, Spends
  <2>3. w \in ContactWrite /\ w.id = c /\ w.pc = "sent" /\ w.op = "delete"
    BY <2>2 DEF ContactWrite
  <2> HIDE DEF w
  <2> QED
    BY <2>1, <2>2, <2>3, RequestKeeps
<1> QED
  BY <1>1, <1>2

\* The table changes a contact, or loses it.
LEMMA TableChanges ==
  ASSUME PageInv, NEW c \in Contacts, Contact!OutdatedFor({c}),
         contacts' \in Trackings, DOMAIN contacts' \subseteq DOMAIN contacts,
         \A d \in DOMAIN contacts' : d # c => contacts'[d] = contacts[d]
  PROVE  /\ list' \in ListAsked /\ list'.data = list.data /\ list'.got = list.got
         /\ list'.pc = list.pc
         /\ timeline' \in [Contacts -> TimelineAsked]
         /\ \A d \in Contacts : timeline'[d].data = timeline[d].data
         /\ \A d \in Contacts : timeline'[d].got = timeline[d].got
         /\ \A d \in Contacts : timeline'[d].pc = timeline[d].pc
         /\ ListRead' /\ TimelineRead'
<1>0. /\ list \in ListAsked /\ \A d \in Contacts : timeline[d] \in TimelineAsked
      /\ DOMAIN contacts \subseteq Contacts
  BY PageTypeIs DEF PageInv, PageType
<1>1. /\ list' \in ListAsked /\ list'.data = list.data /\ list'.got = list.got
      /\ list'.pc = list.pc /\ ~list'.fresh /\ ~list'.gotFresh
  BY <1>0, HandledQueries DEF Handled, Contact!OutdatedFor
<1> DEFINE q(d) == IF d = c THEN Contact!Outdated(timeline[d]) ELSE timeline[d]
<1>2. \A d \in Contacts : /\ q(d) \in TimelineAsked /\ q(d).data = timeline[d].data
                          /\ q(d).got = timeline[d].got /\ q(d).pc = timeline[d].pc
                          /\ d = c => ~q(d).fresh /\ ~q(d).gotFresh
                          /\ d # c => q(d) = timeline[d]
  <2>1. LET r == Contact!Outdated(timeline[c])
        IN r \in TimelineAsked /\ r.data = timeline[c].data /\ ~r.fresh /\ r.pc = timeline[c].pc
           /\ r.got = timeline[c].got /\ ~r.gotFresh
    BY <1>0, HandledQueries DEF Handled
  <2> QED
    BY <1>0, <2>1
<1>3. timeline' = [d \in Contacts |-> q(d)]
  BY DEF Contact!OutdatedFor
<1> HIDE DEF q
<1>4. timeline' \in [Contacts -> TimelineAsked] /\ \A d \in Contacts : timeline'[d] = q(d)
  BY <1>2, <1>3
<1>5. ListRead'
  BY <1>1 DEF PageInv, ListRead
<1>6. TimelineRead'
  BY <1>0, <1>2, <1>4 DEF PageInv, TimelineRead
<1> QED
  BY <1>1, <1>2, <1>4, <1>5, <1>6

\* A request that is served, with what is left of it.
LEMMA RequestMoves ==
  ASSUME PageInv, NEW w \in contactWrites, NEW u \in ContactWrite, u.id = w.id, u.op = w.op,
         u.value = w.value, u.op = "toggle" /\ u.pc = "replied" => u.reply # None,
         u.pc = "updated" => u.op = "toggle",
         contactWrites' = (contactWrites \ {w}) \cup {u}, UNCHANGED raced
  PROVE  /\ contactWrites' \in SUBSET ContactWrite
         /\ \A v \in contactWrites' : /\ v.op = "toggle" => v.value # None
                                      /\ v.op = "toggle" /\ v.pc = "replied" => v.reply # None
                                      /\ v.pc = "updated" => v.op = "toggle"
         /\ OwnWrite'
         /\ \A d : Underway(d) /\ u.pc # "sent" => Underway(d)'
         /\ \A v \in contactWrites' : v # u =>
              v \in contactWrites /\ (v.id = w.id => v.id \in raced)
<1>1. /\ contactWrites' \in SUBSET ContactWrite
      /\ \A v \in contactWrites' : /\ v.op = "toggle" => v.value # None
                                   /\ v.op = "toggle" /\ v.pc = "replied" => v.reply # None
                                   /\ v.pc = "updated" => v.op = "toggle"
  BY DEF PageInv, PageType
<1>2. OwnWrite'
  BY DEF PageInv, OwnWrite
<1>3. \A d : Underway(d) /\ u.pc # "sent" => Underway(d)'
  BY DEF Underway
<1>4. \A v \in contactWrites' : v # u => v \in contactWrites /\ (v.id = w.id => v.id \in raced)
  BY DEF PageInv, OwnWrite
<1> QED
  BY <1>1, <1>2, <1>3, <1>4

\* A PATCH changes the table: until it is answered the store may be behind.
LEMMA StepUpdate ==
  ASSUME PageInv, NEW w \in contactWrites, Contact!Update(w)
  PROVE  PageInv'
<1> DEFINE u == [w EXCEPT !.pc = "updated", !.reply = None]
<1> DEFINE c == w.id
<1>0. PageType /\ w \in ContactWrite /\ c \in Contacts /\ contacts \in Trackings
      /\ DOMAIN contacts \subseteq Contacts
  BY PageTypeIs DEF PageInv, PageType, ContactWrite
<1>1. /\ UNCHANGED <<store, route, raced, contactLeft>>
      /\ contactWrites' = (contactWrites \ {w}) \cup {u}
      /\ Contact!OutdatedFor({c}) /\ w.op = "toggle" /\ w.pc = "sent"
      /\ contacts' = IF c \in DOMAIN contacts THEN [contacts EXCEPT ![c] = w.value] ELSE contacts
  BY DEF Contact!Update, Contact!At
<1>2. /\ u \in ContactWrite /\ u.id = c /\ u.op = "toggle" /\ u.value = w.value
      /\ u.pc = "updated"
  BY <1>0, <1>1 DEF ContactWrite
<1>3. w.value \in Tracking
  BY <1>0, <1>1 DEF PageType, ContactWrite
<1> HIDE DEF u, c
<1>4. /\ contacts' \in Trackings /\ DOMAIN contacts' = DOMAIN contacts
      /\ \A d \in DOMAIN contacts : d # c => contacts'[d] = contacts[d]
  <2>1. contacts \in [DOMAIN contacts -> Tracking]
    BY <1>0, TrackingsAre
  <2>2. /\ contacts' \in [DOMAIN contacts -> Tracking]
        /\ \A d \in DOMAIN contacts : d # c => contacts'[d] = contacts[d]
    BY <1>1, <1>3, <2>1
  <2>3. DOMAIN contacts' = DOMAIN contacts
    BY <2>2
  <2> QED
    BY <1>0, <2>2, <2>3, TrackingsAre
<1>5. /\ list' \in ListAsked /\ list'.data = list.data /\ list'.got = list.got
      /\ list'.pc = list.pc
      /\ timeline' \in [Contacts -> TimelineAsked]
      /\ \A d \in Contacts : timeline'[d].data = timeline[d].data
      /\ \A d \in Contacts : timeline'[d].got = timeline[d].got
      /\ \A d \in Contacts : timeline'[d].pc = timeline[d].pc
      /\ ListRead' /\ TimelineRead'
  BY <1>0, <1>1, <1>4, TableChanges
<1>6. /\ contactWrites' \in SUBSET ContactWrite
      /\ \A v \in contactWrites' : /\ v.op = "toggle" => v.value # None
                                   /\ v.op = "toggle" /\ v.pc = "replied" => v.reply # None
                                   /\ v.pc = "updated" => v.op = "toggle"
      /\ OwnWrite'
      /\ \A d : Underway(d) => Underway(d)'
      /\ \A v \in contactWrites' : v # u => v \in contactWrites /\ (v.id = c => v.id \in raced)
  BY <1>1, <1>2, RequestMoves DEF c
<1>7. PageType'
  BY <1>0, <1>1, <1>4, <1>5, <1>6 DEF PageType
<1>8. Answers'
  BY <1>1, <1>2, <1>4, <1>6 DEF PageInv, Answers
<1>9. HeaderFits'
  <2>1. Underway(c)'
    BY <1>1, <1>2 DEF Underway
  <2> QED
    BY <1>0, <1>1, <1>4, <1>5, <1>6, <2>1 DEF PageInv, HeaderFits, Contact!Open
<1> QED
  BY <1>5, <1>6, <1>7, <1>8, <1>9 DEF PageInv

\* A DELETE takes the contact out of the table.
LEMMA StepServeDelete ==
  ASSUME PageInv, NEW w \in contactWrites, Contact!ServeDelete(w)
  PROVE  PageInv'
<1> DEFINE u == [w EXCEPT !.pc = "replied", !.reply = None]
<1> DEFINE c == w.id
<1>0. PageType /\ w \in ContactWrite /\ c \in Contacts /\ contacts \in Trackings
      /\ DOMAIN contacts \subseteq Contacts
  BY PageTypeIs DEF PageInv, PageType, ContactWrite
<1>1. /\ UNCHANGED <<store, route, raced, contactLeft>>
      /\ contactWrites' = (contactWrites \ {w}) \cup {u}
      /\ Contact!OutdatedFor({c}) /\ w.op = "delete"
      /\ contacts' = Contact!Without(contacts, c)
  BY DEF Contact!ServeDelete, Contact!At
<1>2. /\ u \in ContactWrite /\ u.id = c /\ u.op = "delete" /\ u.value = w.value
      /\ u.pc = "replied"
  BY <1>0, <1>1 DEF ContactWrite
<1> HIDE DEF u, c
<1>4. /\ contacts' \in Trackings /\ DOMAIN contacts' = DOMAIN contacts \ {c}
      /\ \A d \in DOMAIN contacts' : contacts'[d] = contacts[d]
  BY <1>0, <1>1, WithoutTracking
<1>5. /\ list' \in ListAsked /\ list'.data = list.data /\ list'.got = list.got
      /\ list'.pc = list.pc
      /\ timeline' \in [Contacts -> TimelineAsked]
      /\ \A d \in Contacts : timeline'[d].data = timeline[d].data
      /\ \A d \in Contacts : timeline'[d].got = timeline[d].got
      /\ \A d \in Contacts : timeline'[d].pc = timeline[d].pc
      /\ ListRead' /\ TimelineRead'
  BY <1>0, <1>1, <1>4, TableChanges
<1>6. /\ contactWrites' \in SUBSET ContactWrite
      /\ \A v \in contactWrites' : /\ v.op = "toggle" => v.value # None
                                   /\ v.op = "toggle" /\ v.pc = "replied" => v.reply # None
                                   /\ v.pc = "updated" => v.op = "toggle"
      /\ OwnWrite'
      /\ \A d : Underway(d) => Underway(d)'
      /\ \A v \in contactWrites' : v # u => v \in contactWrites /\ (v.id = c => v.id \in raced)
  BY <1>1, <1>2, RequestMoves DEF c
<1>7. PageType'
  BY <1>0, <1>1, <1>4, <1>5, <1>6 DEF PageType
<1>8. Answers'
  BY <1>1, <1>2, <1>4, <1>6 DEF PageInv, Answers
<1>9. HeaderFits'
  BY <1>0, <1>1, <1>4, <1>5, <1>6 DEF PageInv, HeaderFits, Contact!Open
<1> QED
  BY <1>5, <1>6, <1>7, <1>8, <1>9 DEF PageInv

\* A request that ends.
LEMMA RequestEnds ==
  ASSUME PageInv, NEW w \in contactWrites, contactWrites' = contactWrites \ {w},
         UNCHANGED contacts, raced \subseteq raced'
  PROVE  /\ contactWrites' \in SUBSET ContactWrite
         /\ \A v \in contactWrites' : /\ v.op = "toggle" => v.value # None
                                      /\ v.op = "toggle" /\ v.pc = "replied" => v.reply # None
                                      /\ v.pc = "updated" => v.op = "toggle"
         /\ OwnWrite' /\ Answers'
         /\ \A d : d # w.id /\ Underway(d) => Underway(d)'
  BY DEF PageInv, PageType, OwnWrite, Answers, Underway

\* A reply is of the table as it is, and there is none if the contact is gone.
LEMMA StepGetContact ==
  ASSUME PageInv, NEW w \in contactWrites, Contact!Get(w)
  PROVE  PageInv'
<1> DEFINE c == w.id
<1> DEFINE on == contacts[c]
<1>0. PageType /\ w \in ContactWrite /\ c \in Contacts /\ contacts \in Trackings
      /\ DOMAIN contacts \subseteq Contacts /\ w.op = "toggle" /\ w.pc = "updated"
      /\ contactWrites \in SUBSET ContactWrite
  BY PageTypeIs DEF PageInv, PageType, ContactWrite, Contact!Get
<1>1. UNCHANGED <<contacts, list, timeline, store, route, raced, contactLeft>>
  BY DEF Contact!Get
<1>2. ListRead' /\ TimelineRead'
  BY <1>1 DEF PageInv, ListRead, TimelineRead
<1>3. CASE c \in DOMAIN contacts
  <2> DEFINE u == [w EXCEPT !.pc = "replied", !.reply = on]
  <2>1. on \in Tracking /\ on # None
    BY <1>0, <1>3, PageTypeIs, TrackingIs
  <2>2. contactWrites' = (contactWrites \ {w}) \cup {u}
    BY <1>3 DEF Contact!Get, Contact!At
  <2> HIDE DEF on
  <2>3. /\ u \in ContactWrite /\ u.id = c /\ u.op = "toggle" /\ u.value = w.value
        /\ u.pc = "replied" /\ u.reply = on
    BY <1>0, <2>1 DEF ContactWrite
  <2> HIDE DEF u, c
  <2>6. /\ contactWrites' \in SUBSET ContactWrite
        /\ \A v \in contactWrites' : /\ v.op = "toggle" => v.value # None
                                     /\ v.op = "toggle" /\ v.pc = "replied" => v.reply # None
                                     /\ v.pc = "updated" => v.op = "toggle"
        /\ OwnWrite'
        /\ \A d : Underway(d) => Underway(d)'
        /\ \A v \in contactWrites' : v # u => v \in contactWrites
    BY <1>0, <1>1, <2>1, <2>2, <2>3, RequestMoves DEF c
  <2>7. PageType'
    BY <1>0, <1>1, <2>6 DEF PageType
  <2>8. Answers'
    BY <1>1, <2>2, <2>3, <2>6 DEF PageInv, Answers, on
  <2>9. HeaderFits'
    BY <1>1, <2>6 DEF PageInv, HeaderFits, Contact!Open
  <2> QED
    BY <1>2, <2>6, <2>7, <2>8, <2>9 DEF PageInv
<1>4. CASE c \notin DOMAIN contacts
  <2>1. contactWrites' = contactWrites \ {w}
    BY <1>4 DEF Contact!Get
  <2>2. /\ contactWrites' \in SUBSET ContactWrite
        /\ \A v \in contactWrites' : /\ v.op = "toggle" => v.value # None
                                     /\ v.op = "toggle" /\ v.pc = "replied" => v.reply # None
                                     /\ v.pc = "updated" => v.op = "toggle"
        /\ OwnWrite' /\ Answers'
        /\ \A d : d # c /\ Underway(d) => Underway(d)'
    BY <1>1, <2>1, RequestEnds
  <2> HIDE DEF c
  <2>3. PageType'
    BY <1>0, <1>1, <2>2 DEF PageType
  <2>4. HeaderFits'
    BY <1>1, <1>4, <2>2 DEF PageInv, HeaderFits, Contact!Open
  <2> QED
    BY <1>2, <2>2, <2>3, <2>4 DEF PageInv
<1> QED
  BY <1>3, <1>4

\* A reply goes to the store.
LEMMA StepToggleSucceeds ==
  ASSUME PageInv, NEW w \in contactWrites, Contact!ToggleSucceeds(w)
  PROVE  PageInv'
<1> DEFINE c == w.id
<1> DEFINE on == w.reply
<1> DEFINE s == Contact!Upsert(store, c, on)
<1>0. /\ PageType /\ w \in ContactWrite /\ c \in Contacts /\ on \in Tracking
      /\ store \in Trackings /\ list \in ListAsked /\ DOMAIN contacts \subseteq Contacts
      /\ c \in DOMAIN contacts \ raced => on = contacts[c]
  BY PageTypeIs DEF PageInv, PageType, Answers, ContactWrite, Contact!ToggleSucceeds
<1>1. /\ UNCHANGED <<contacts, timeline, route, raced, contactLeft>>
      /\ store' = s /\ list' = Contact!Invalidated(list) /\ contactWrites' = contactWrites \ {w}
  BY DEF Contact!ToggleSucceeds
<1>2. list' \in ListAsked /\ AsGood(list, list')
  BY <1>0, <1>1, KeptIs
<1>3. /\ s \in Trackings /\ s[c] = on
      /\ \A d : d # c => (d \in DOMAIN s <=> d \in DOMAIN store)
      /\ \A d : d # c /\ d \in DOMAIN store => s[d] = store[d]
  BY <1>0, UpsertIs
<1>4. /\ contactWrites' \in SUBSET ContactWrite
      /\ \A v \in contactWrites' : /\ v.op = "toggle" => v.value # None
                                   /\ v.op = "toggle" /\ v.pc = "replied" => v.reply # None
                                   /\ v.pc = "updated" => v.op = "toggle"
      /\ OwnWrite' /\ Answers'
      /\ \A d : d # c /\ Underway(d) => Underway(d)'
  BY <1>1, RequestEnds
<1> HIDE DEF s, c, on
<1>5. PageType'
  BY <1>0, <1>1, <1>2, <1>3, <1>4 DEF PageType, AsGood
<1>6. ListRead' /\ TimelineRead'
  BY <1>1, <1>2 DEF PageInv, ListRead, TimelineRead, AsGood
<1>7. HeaderFits'
  BY <1>0, <1>1, <1>2, <1>3, <1>4 DEF PageInv, HeaderFits, Contact!Open, AsGood
<1> QED
  BY <1>4, <1>5, <1>6, <1>7 DEF PageInv

\* A contact deleted is not open any more.
LEMMA StepDeleteSucceeds ==
  ASSUME PageInv, NEW w \in contactWrites, Contact!DeleteSucceeds(w)
  PROVE  PageInv'
<1> DEFINE S == contactWrites \ {w}
<1> DEFINE f == [v \in S |-> [v EXCEPT !.own = FALSE]]
<1> DEFINE s == Contact!Without(store, w.cid)
<1>0. /\ PageType /\ contactWrites \in SUBSET ContactWrite /\ list \in ListAsked
      /\ store \in Trackings /\ DOMAIN contacts \subseteq Contacts
  BY PageTypeIs DEF PageInv, PageType
<1>1. /\ UNCHANGED <<contacts, timeline, raced, contactLeft>>
      /\ contactWrites' = {f[v] : v \in S}
      /\ store' = s /\ list' = Contact!Invalidated(list)
      /\ route' = [route EXCEPT !.open = None]
  BY DEF Contact!DeleteSucceeds
<1>2. \A v \in S : /\ f[v] \in ContactWrite
                   /\ f[v].id = v.id /\ f[v].op = v.op /\ f[v].value = v.value
                   /\ f[v].pc = v.pc /\ f[v].reply = v.reply
  <2>1. ASSUME NEW v \in ContactWrite
        PROVE  LET g == [v EXCEPT !.own = FALSE]
               IN /\ g \in ContactWrite /\ g.id = v.id /\ g.op = v.op /\ g.value = v.value
                  /\ g.pc = v.pc /\ g.reply = v.reply
    BY DEF ContactWrite
  <2>2. \A v \in S : f[v] = [v EXCEPT !.own = FALSE] /\ v \in ContactWrite
    BY <1>0
  <2> HIDE DEF f, S
  <2> QED
    BY ZenonT(30), <2>1, <2>2
<1>3. f \in [S -> ContactWrite] /\ S \in SUBSET contactWrites
  BY <1>2
<1>4. s \in Trackings
  BY <1>0, WithoutTracking
<1> HIDE DEF f, s, S
<1>5. /\ contactWrites' \in SUBSET ContactWrite
      /\ \A v \in contactWrites' : /\ v.op = "toggle" => v.value # None
                                   /\ v.op = "toggle" /\ v.pc = "replied" => v.reply # None
                                   /\ v.pc = "updated" => v.op = "toggle"
      /\ OwnWrite' /\ Answers'
  <2>1. UNCHANGED <<contacts, raced>>
    BY <1>1
  <2> QED
    BY <1>1, <1>2, <1>3, <2>1, Rewritten
<1>6. /\ route' \in [open : Contacts \cup {None}, last : Contacts \cup {None}]
      /\ route'.open = None
  BY <1>0, <1>1 DEF PageType
<1>7. list' \in ListAsked /\ AsGood(list, list')
  BY <1>0, <1>1, KeptIs
<1>8. PageType'
  BY <1>0, <1>1, <1>4, <1>5, <1>6, <1>7 DEF PageType, AsGood
<1>9. ListRead' /\ TimelineRead'
  BY <1>1, <1>7 DEF PageInv, ListRead, TimelineRead, AsGood
<1>10. HeaderFits'
  BY <1>0, <1>1, <1>6, TrackingIs DEF HeaderFits, Contact!Open
<1> QED
  BY <1>5, <1>8, <1>9, <1>10 DEF PageInv

\* A write that fails, served or not, counts as a race.
LEMMA StepRequestFails ==
  ASSUME PageInv, NEW w \in contactWrites, Contact!WriteFails(w)
  PROVE  PageInv'
<1>0. PageType
  BY DEF PageInv
<1>1. /\ UNCHANGED <<contacts, list, timeline, store, route>>
      /\ contactWrites' = contactWrites \ {w} /\ raced' = raced \cup {w.id}
      /\ contactLeft' \in [writes : Nat, lapses : Nat]
  BY <1>0, Spends DEF Contact!WriteFails
<1>2. /\ contactWrites' \in SUBSET ContactWrite
      /\ \A v \in contactWrites' : /\ v.op = "toggle" => v.value # None
                                   /\ v.op = "toggle" /\ v.pc = "replied" => v.reply # None
                                   /\ v.pc = "updated" => v.op = "toggle"
      /\ OwnWrite' /\ Answers'
      /\ \A d : d # w.id /\ Underway(d) => Underway(d)'
  BY <1>1, RequestEnds
<1>3. PageType'
  BY <1>0, <1>1, <1>2 DEF PageType
<1>4. ListRead' /\ TimelineRead'
  BY <1>1 DEF PageInv, ListRead, TimelineRead
<1>5. HeaderFits'
  BY <1>1, <1>2 DEF PageInv, HeaderFits, Contact!Open
<1> QED
  BY <1>2, <1>3, <1>4, <1>5 DEF PageInv

\* A change by another: a race, unless the store has the contact as the list.
LEMMA StepElsewhere ==
  ASSUME PageInv, NEW c \in Contacts, Contact!Elsewhere(c)
  PROVE  PageInv'
<1>0. /\ PageType /\ contacts \in Trackings /\ DOMAIN contacts \subseteq Contacts
      /\ c \in DOMAIN contacts
  BY PageTypeIs DEF PageInv, PageType, Contact!Elsewhere
<1>1. /\ UNCHANGED <<store, route, contactWrites>> /\ Contact!OutdatedFor({c})
      /\ raced' = IF Contact!Pending(c) THEN raced \cup {c} ELSE raced
      /\ contactLeft' \in [writes : Nat, lapses : Nat]
  BY <1>0, Spends DEF Contact!Elsewhere
<1>2. /\ contacts' \in Trackings /\ DOMAIN contacts' \subseteq DOMAIN contacts
      /\ \A d \in DOMAIN contacts' : d # c => contacts'[d] = contacts[d]
  <2>1. CASE contacts' = [contacts EXCEPT ![c] = ~@]
    <3> DEFINE on == ~contacts[c]
    <3>1. contacts \in [DOMAIN contacts -> Tracking]
      BY <1>0, TrackingsAre
    <3>2. on \in Tracking
      BY <1>0, <3>1 DEF Tracking
    <3>3. contacts' = [contacts EXCEPT ![c] = on]
      BY <2>1
    <3> HIDE DEF on
    <3>4. contacts' \in [DOMAIN contacts -> Tracking] /\ DOMAIN contacts' = DOMAIN contacts
      BY <3>1, <3>2, <3>3
    <3>5. \A d \in DOMAIN contacts : d # c => contacts'[d] = contacts[d]
      BY <3>1, <3>3
    <3> QED
      BY <1>0, <3>4, <3>5, TrackingsAre
  <2>2. CASE contacts' = Contact!Without(contacts, c)
    BY <1>0, <2>2, WithoutTracking
  <2> QED
    BY <2>1, <2>2 DEF Contact!Elsewhere
<1>3. /\ list' \in ListAsked /\ list'.data = list.data /\ list'.got = list.got
      /\ list'.pc = list.pc
      /\ timeline' \in [Contacts -> TimelineAsked]
      /\ \A d \in Contacts : timeline'[d].data = timeline[d].data
      /\ \A d \in Contacts : timeline'[d].got = timeline[d].got
      /\ \A d \in Contacts : timeline'[d].pc = timeline[d].pc
      /\ ListRead' /\ TimelineRead'
  BY <1>1, <1>2, TableChanges
<1>4. PageType'
  BY <1>0, <1>1, <1>2, <1>3 DEF PageType
<1>5. OwnWrite'
  BY <1>1 DEF PageInv, OwnWrite
<1>6. Answers'
  BY <1>1, <1>2 DEF PageInv, Answers, Contact!Pending
<1>7. HeaderFits'
  <2> SUFFICES ASSUME NEW d \in DOMAIN contacts' \ raced', Contact!Open(d),
                      d \in DOMAIN store, timeline'[d].data # None
               PROVE  \/ store[d] = contacts'[d] \/ store[d] = list'.data[d]
                      \/ store[d] = timeline'[d].data \/ Underway(d)'
    BY <1>1 DEF HeaderFits, Contact!Open
  <2>1. CASE d # c
    BY <1>0, <1>1, <1>2, <1>3, <2>1 DEF PageInv, HeaderFits, Underway
  <2>2. CASE d = c
    <3>1. ~Contact!Pending(c)
      BY <1>1, <2>2
    <3>2. list.data # None
      BY <1>0, <2>2, TrackingIs DEF PageType, Contact!Open
    <3>3. c \in DOMAIN list.data
      BY <1>0, <3>2 DEF PageInv, ListRead
    <3> QED
      BY <1>3, <2>2, <3>1, <3>2, <3>3 DEF Contact!Pending
  <2> QED
    BY <2>1, <2>2
<1> QED
  BY <1>3, <1>4, <1>5, <1>6, <1>7 DEF PageInv

\* Every step of the page keeps its invariant.
LEMMA NextPage == PageInv /\ [Contact!Next]_contactVars => PageInv'
<1> SUFFICES ASSUME PageInv, [Contact!Next]_contactVars PROVE PageInv'
  OBVIOUS
<1>1. CASE UNCHANGED contactVars
  BY <1>1 DEF contactVars, PageInv, PageType, ListRead, TimelineRead, OwnWrite, Answers,
              HeaderFits, Contact!Open, Underway
<1>2. CASE Contact!Next
  <2>1. CASE Contact!Leave \/ Contact!ListArrives
    BY <2>1, StepLeavePage, StepListArrives
  <2>2. CASE \/ Contact!PollList
             \/ \E c \in Contacts : \/ Contact!PollTimeline(c) \/ Contact!TimelineNotFound(c)
                                    \/ Contact!QueryFails(c) \/ Contact!Event(c)
    BY <2>2, StepPolls
  <2>3. CASE Contact!ServeList \/ \E c \in Contacts : Contact!ServeTimeline(c)
    BY <2>3, StepServeQuery
  <2>4. ASSUME NEW c \in Contacts,
               \/ Contact!Visit(c) \/ Contact!TimelineArrives(c)
               \/ Contact!Toggle(c) \/ Contact!Delete(c) \/ Contact!Elsewhere(c)
        PROVE  PageInv'
    BY <2>4, StepVisit, StepTimelineArrives, StepRequests, StepElsewhere
  <2>5. ASSUME NEW w \in contactWrites,
               \/ Contact!Update(w) \/ Contact!Get(w) \/ Contact!ServeDelete(w)
               \/ Contact!ToggleSucceeds(w) \/ Contact!DeleteSucceeds(w) \/ Contact!WriteFails(w)
        PROVE  PageInv'
    BY <2>5, StepUpdate, StepGetContact, StepServeDelete, StepToggleSucceeds, StepDeleteSucceeds,
       StepRequestFails
  <2> QED
    BY <1>2, <2>1, <2>2, <2>3, <2>4, <2>5 DEF Contact!Next
<1> QED
  BY <1>1, <1>2

\* The property, from the invariant.
LEMMA OpenPageIsServer == PageInv => Contact!OpenIsServer
<1> SUFFICES ASSUME PageInv, NEW c \in DOMAIN contacts, Contact!Open(c), contactWrites = {},
                    c \notin raced, list.fresh, timeline[c].fresh
             PROVE  Contact!Header(c) = contacts[c]
  BY DEF Contact!OpenIsServer
<1>1. contacts[c] \in Tracking /\ None \notin Tracking
  BY PageTypeIs, TrackingIs DEF PageInv
<1>2. list.data = contacts /\ timeline[c].data = contacts[c] /\ timeline[c].data # None
  BY <1>1 DEF PageInv, ListRead, TimelineRead
<1> QED
  BY <1>1, <1>2 DEF PageInv, HeaderFits, Underway, Contact!Header

-----------------------------------------------------------------------------
\* The demo.

\* The demo's server, cache, store, route and requests.
ContactLists == UNION {[S -> BOOLEAN] : S \in SUBSET DemoIds}
TL == [on : BOOLEAN, n : Nat]
TimelineQuery == [data : TL \cup {None}, busy : BOOLEAN]

\* An infinite query with pages in P; a first load has read none.
Paged(P) == {q \in [pages : Seq(P), kind : {"idle", "all", "next"}, built : Seq(P),
                    cut : BOOLEAN] : q.pages = <<>> => q.built = <<>>}

\* The sidebar's, and the chat's, that asks for messages before those of a page.
ListPages == [contacts : ContactLists, total : Nat]
ListQuery == Paged(ListPages)
ChatQuery == {q \in Paged(SUBSET Nat) :
                q.kind # "idle" /\ Copy!Had(q) # <<>> => Copy!Last(Copy!Had(q)) # {}}

Server == [contacts : [DemoAccs -> ContactLists], entries : [Copy!Keys -> Nat],
           messages : [Copy!Keys -> Seq(Nat)]]
Cache == [list : [DemoAccs -> ListQuery], timeline : [Copy!Keys -> TimelineQuery],
          chat : [Copy!Keys -> ChatQuery]]
DemoStore == [contacts : ContactLists, stale : SUBSET DemoIds, ws : [Copy!Keys -> SUBSET Nat],
              last : [Copy!Keys -> Nat \cup {None}]]
Route == [page : {"none"}, acc : {None}, cid : {None}]
         \cup [page : {"account"}, acc : DemoAccs, cid : {None}]
         \cup [page : {"contact", "messages"}, acc : DemoAccs, cid : DemoIds]
Write == [n : Nat, op : {"create"}, acc : DemoAccs, id : {None}, cid : {None},
          on : BOOLEAN, own : BOOLEAN]
         \cup [n : Nat, op : {"toggle", "delete", "send"}, acc : DemoAccs, id : DemoIds,
               cid : DemoIds, on : BOOLEAN, own : BOOLEAN]

\* The type invariant.
CopyType ==
  /\ server \in Server
  /\ cache \in Cache
  /\ demoStore \in DemoStore
  /\ demoRoute \in Route
  /\ requests \in SUBSET Write
  /\ demoLeft \in Nat

\* A contact is of one account.
Disjoint == \A a, b \in DemoAccs :
  a # b => DOMAIN server.contacts[a] \cap DOMAIN server.contacts[b] = {}

\* A query that has missed nothing, of pages that the server would answer as G says:
\* what a refetch has read is so; the pages are, if they are in use and no refetch is
\* under way, or if the next is asked for.
Reads(q, active, G) ==
  ~q.cut =>
    /\ (q.kind = "idle" /\ active) \/ q.kind = "next" =>
         \A i \in DOMAIN q.pages : q.pages[i] = G[i]
    /\ q.kind = "all" => \A i \in DOMAIN q.built : q.built[i] = G[i]

\* The pages of the sidebar.
ListIs(a) == [i \in Nat |-> Copy!ListPage(a, i)]

ListFits == \A a \in DemoAccs : Reads(cache.list[a], Copy!InAccount(a), ListIs(a))

\* The pages of a chat of n messages of different seconds: the newest, and so on.
ChatIs(n) == [i \in Nat |-> {m \in 1..n : (i - 1) * ChatSize <= n - m /\ n - m < i * ChatSize}]

ChatFits == \A k \in Copy!Keys : Copy!Distinct(server.messages[k]) =>
  Reads(cache.chat[k], Copy!OpenChat(k), ChatIs(Len(server.messages[k])))

\* Of n entries: the last event is the last entry, and timeline and events have them all.
EntryFits(n, last, ws, data) ==
  /\ last = n \/ (last = None /\ n = 0)
  /\ ws \subseteq 1..n
  /\ data # None => data.n <= n /\ 1..data.n \cup ws = 1..n

\* It is so of every contact.
EntriesFit == \A k \in Copy!Keys :
  EntryFits(server.entries[k], demoStore.last[k], demoStore.ws[k], cache.timeline[k].data)

\* What a page shows of a contact, the store first and then a query, is as it is or as
\* the query that is asked again has it.
Tracked(c, kept, q, on) ==
  LET shown == IF c \in DOMAIN kept THEN kept[c] ELSE q.data.on
  IN shown = on \/ (q.busy /\ shown = q.data.on)

\* It is so of the contact that is open, unless a list has put there what is stale.
TrackingFits == \A k \in Copy!Keys :
  /\ Copy!OpenContact(k) /\ cache.timeline[k].data # None
  /\ k[2] \in DOMAIN server.contacts[k[1]] /\ k[2] \notin demoStore.stale
  => Tracked(k[2], demoStore.contacts, cache.timeline[k], server.contacts[k[1]][k[2]])

CopyInv == CopyType /\ Disjoint /\ ListFits /\ ChatFits /\ EntriesFit /\ TrackingFits

\* From PagesBounds.
LEMMA CopyConstants ==
  /\ DemoIds \subseteq Nat \ {0} /\ IsFiniteSet(DemoIds) /\ First \in DemoAccs
  /\ BarSize \in Nat \ {0} /\ ChatSize \in Nat \ {0} /\ Backlogs \subseteq Nat
  /\ None \notin Nat /\ None \notin DemoAccs /\ None \notin TL /\ None \notin ContactLists
  BY PagesBounds DEF Copy!DemoBounds, TL, ContactLists, Copy!IsFiniteSet, IsFiniteSet

\* The demo's copy of the library's definition.
LEMMA CardinalityIs == \A S : Copy!Cardinality(S) = Cardinality(S)
  BY DEF Copy!Cardinality, Cardinality

\* Lists of contacts.
LEMMA ContactListIs ==
  \A f : f \in ContactLists <=> DOMAIN f \subseteq DemoIds /\ f \in [DOMAIN f -> BOOLEAN]
  BY DEF ContactLists

\* A list's contacts, with one put in it.
LEMMA PutDomain == \A f, c, on : DOMAIN Copy!Put(f, c, on) = DOMAIN f \cup {c}
  BY DEF Copy!Put

\* Each of them.
LEMMA PutAt ==
  \A f, c, on, d :
    d \in DOMAIN f \cup {c} => Copy!Put(f, c, on)[d] = IF d = c THEN on ELSE f[d]
  BY DEF Copy!Put

\* It is a list.
LEMMA PutContact ==
  ASSUME NEW f \in ContactLists, NEW c \in DemoIds, NEW on \in BOOLEAN
  PROVE  /\ Copy!Put(f, c, on) \in ContactLists
         /\ DOMAIN Copy!Put(f, c, on) = DOMAIN f \cup {c}
         /\ Copy!Put(f, c, on)[c] = on
         /\ \A d \in DOMAIN f : d # c => Copy!Put(f, c, on)[d] = f[d]
<1>1. DOMAIN f \subseteq DemoIds /\ \A d \in DOMAIN f : f[d] \in BOOLEAN
  BY ContactListIs
<1> DEFINE g == Copy!Put(f, c, on)
<1>2. /\ DOMAIN g = DOMAIN f \cup {c} /\ g \in [DOMAIN g -> BOOLEAN] /\ g[c] = on
      /\ \A d \in DOMAIN f : d # c => g[d] = f[d]
  BY <1>1 DEF Copy!Put
<1> HIDE DEF g
<1> QED
  BY <1>1, <1>2, ContactListIs DEF g

\* A list put over another.
LEMMA PutAllContacts ==
  ASSUME NEW f \in ContactLists, NEW g \in ContactLists
  PROVE  /\ Copy!PutAll(f, g) \in ContactLists
         /\ \A d \in DOMAIN g : d \in DOMAIN Copy!PutAll(f, g) /\ Copy!PutAll(f, g)[d] = g[d]
         /\ \A d : d \notin DOMAIN g =>
              /\ d \in DOMAIN Copy!PutAll(f, g) <=> d \in DOMAIN f
              /\ d \in DOMAIN f => Copy!PutAll(f, g)[d] = f[d]
<1>1. /\ DOMAIN f \subseteq DemoIds /\ \A d \in DOMAIN f : f[d] \in BOOLEAN
      /\ DOMAIN g \subseteq DemoIds /\ \A d \in DOMAIN g : g[d] \in BOOLEAN
  BY ContactListIs
<1> DEFINE h == Copy!PutAll(f, g)
<1>2. /\ DOMAIN h = DOMAIN f \cup DOMAIN g /\ h \in [DOMAIN h -> BOOLEAN]
      /\ \A d \in DOMAIN g : h[d] = g[d]
      /\ \A d \in DOMAIN f : d \notin DOMAIN g => h[d] = f[d]
  BY <1>1 DEF Copy!PutAll
<1> HIDE DEF h
<1> QED
  BY <1>1, <1>2, ContactListIs DEF h

\* A contact taken out.
LEMMA WithoutContact ==
  ASSUME NEW f \in ContactLists, NEW c
  PROVE  /\ Copy!Without(f, c) \in ContactLists
         /\ DOMAIN Copy!Without(f, c) = DOMAIN f \ {c}
         /\ \A d \in DOMAIN f : d # c => Copy!Without(f, c)[d] = f[d]
<1>1. DOMAIN f \subseteq DemoIds /\ \A d \in DOMAIN f : f[d] \in BOOLEAN
  BY ContactListIs
<1> DEFINE g == Copy!Without(f, c)
<1>2. /\ DOMAIN g = DOMAIN f \ {c} /\ g \in [DOMAIN g -> BOOLEAN]
      /\ \A d \in DOMAIN f : d # c => g[d] = f[d]
  BY <1>1 DEF Copy!Without, Copy!Restrict
<1> HIDE DEF g
<1> QED
  BY <1>1, <1>2, ContactListIs DEF g

\* The server, the cache and the store with one part changed.
LEMMA ServerContacts ==
  ASSUME NEW s \in Server, NEW a \in DemoAccs, NEW f \in ContactLists
  PROVE  LET t == [s EXCEPT !.contacts[a] = f]
         IN /\ t \in Server /\ t.entries = s.entries /\ t.messages = s.messages
            /\ t.contacts[a] = f /\ \A b \in DemoAccs : b # a => t.contacts[b] = s.contacts[b]
  BY DEF Server

\* An entry of the server.
LEMMA ServerEntries ==
  ASSUME NEW s \in Server, NEW k \in Copy!Keys, NEW n \in Nat
  PROVE  LET t == [s EXCEPT !.entries[k] = n]
         IN /\ t \in Server /\ t.contacts = s.contacts /\ t.messages = s.messages
            /\ t.entries[k] = n /\ \A j \in Copy!Keys : j # k => t.entries[j] = s.entries[j]
  BY DEF Server

\* A message of the server.
LEMMA ServerMessages ==
  ASSUME NEW s \in Server, NEW k \in Copy!Keys, NEW m \in Seq(Nat)
  PROVE  LET t == [s EXCEPT !.messages[k] = m]
         IN /\ t \in Server /\ t.contacts = s.contacts /\ t.entries = s.entries
            /\ t.messages[k] = m /\ \A j \in Copy!Keys : j # k => t.messages[j] = s.messages[j]
  BY DEF Server

\* A list of the cache.
LEMMA CacheList ==
  ASSUME NEW c \in Cache, NEW a \in DemoAccs, NEW q \in ListQuery
  PROVE  LET d == [c EXCEPT !.list[a] = q]
         IN /\ d \in Cache /\ d.timeline = c.timeline /\ d.chat = c.chat
            /\ d.list[a] = q /\ \A b \in DemoAccs : b # a => d.list[b] = c.list[b]
  BY DEF Cache

\* A timeline of the cache.
LEMMA CacheTimeline ==
  ASSUME NEW c \in Cache, NEW k \in Copy!Keys, NEW q \in TimelineQuery
  PROVE  LET d == [c EXCEPT !.timeline[k] = q]
         IN /\ d \in Cache /\ d.list = c.list /\ d.chat = c.chat
            /\ d.timeline[k] = q
            /\ \A j \in Copy!Keys : j # k => d.timeline[j] = c.timeline[j]
  BY DEF Cache

\* A chat of the cache.
LEMMA CacheChat ==
  ASSUME NEW c \in Cache, NEW k \in Copy!Keys, NEW q \in ChatQuery
  PROVE  LET d == [c EXCEPT !.chat[k] = q]
         IN /\ d \in Cache /\ d.list = c.list /\ d.timeline = c.timeline
            /\ d.chat[k] = q
            /\ \A j \in Copy!Keys : j # k => d.chat[j] = c.chat[j]
  BY DEF Cache

\* The store's contacts.
LEMMA StoreContacts ==
  ASSUME NEW s \in DemoStore, NEW f \in ContactLists
  PROVE  LET t == [s EXCEPT !.contacts = f]
         IN /\ t \in DemoStore /\ t.contacts = f /\ t.stale = s.stale /\ t.ws = s.ws
            /\ t.last = s.last
  BY DEF DemoStore

\* The store's events.
LEMMA StoreWs ==
  ASSUME NEW s \in DemoStore, NEW k \in Copy!Keys, NEW E \in SUBSET Nat
  PROVE  LET t == [s EXCEPT !.ws[k] = E]
         IN /\ t \in DemoStore /\ t.contacts = s.contacts /\ t.stale = s.stale
            /\ t.last = s.last
            /\ t.ws[k] = E /\ \A j \in Copy!Keys : j # k => t.ws[j] = s.ws[j]
  BY DEF DemoStore

\* The store's last events.
LEMMA StoreLast ==
  ASSUME NEW s \in DemoStore, NEW k \in Copy!Keys, NEW n \in Nat
  PROVE  LET t == [s EXCEPT !.last[k] = n]
         IN /\ t \in DemoStore /\ t.contacts = s.contacts /\ t.stale = s.stale
            /\ t.ws = s.ws
            /\ t.last[k] = n /\ \A j \in Copy!Keys : j # k => t.last[j] = s.last[j]
  BY DEF DemoStore

\* The pieces of a well-typed state.
LEMMA CopyHas ==
  ASSUME CopyType
  PROVE  /\ \A a \in DemoAccs : /\ server.contacts[a] \in ContactLists
                                /\ cache.list[a] \in ListQuery
         /\ \A k \in Copy!Keys :
              /\ k[1] \in DemoAccs /\ k[2] \in DemoIds /\ k = <<k[1], k[2]>>
              /\ server.entries[k] \in Nat /\ server.messages[k] \in Seq(Nat)
              /\ cache.timeline[k] \in TimelineQuery /\ cache.chat[k] \in ChatQuery
              /\ demoStore.ws[k] \in SUBSET Nat /\ demoStore.last[k] \in Nat \cup {None}
         /\ demoStore.contacts \in ContactLists /\ demoStore.stale \in SUBSET DemoIds
         /\ \A a \in DemoAccs, c \in DemoIds : <<a, c>> \in Copy!Keys
  BY DEF CopyType, Server, Cache, DemoStore, Copy!Keys

\* What the query library does to a query of a timeline.
LEMMA Operations ==
  ASSUME NEW q \in TimelineQuery
  PROVE  /\ q.data \in TL \cup {None} /\ q.busy \in BOOLEAN
         /\ Copy!Busy(q) \in TimelineQuery /\ Copy!Busy(q).data = q.data /\ Copy!Busy(q).busy
         /\ \A active \in BOOLEAN :
              /\ Copy!Invalidated(q, active) \in TimelineQuery
              /\ Copy!Invalidated(q, active).data = q.data
              /\ active \/ q.busy => Copy!Invalidated(q, active).busy
         /\ \A d \in TL \cup {None} :
              /\ Copy!Arrived(q, d) \in TimelineQuery
              /\ Copy!Arrived(q, d).data = d /\ ~Copy!Arrived(q, d).busy
  BY DEF TimelineQuery, Copy!Busy, Copy!Invalidated, Copy!Arrived

\* The parts of an infinite query.
LEMMA PagedHas ==
  ASSUME NEW P, NEW q \in Paged(P)
  PROVE  /\ q.pages \in Seq(P) /\ q.built \in Seq(P) /\ q.cut \in BOOLEAN
         /\ q.kind \in {"idle", "all", "next"} /\ (q.pages = <<>> => q.built = <<>>)
  BY DEF Paged

\* A fetch of all pages.
LEMMA AllIs ==
  ASSUME NEW P, NEW q \in Paged(P)
  PROVE  LET r == Copy!All(q)
         IN /\ r \in Paged(P) /\ r.pages = q.pages /\ r.kind = "all" /\ r.built = <<>> /\ ~r.cut
<1>1. Copy!All(q) = [q EXCEPT !.kind = "all", !.built = <<>>, !.cut = FALSE]
  BY DEF Copy!All
<1>2. <<>> \in Seq(P)
  OBVIOUS
<1> QED
  BY <1>1, <1>2 DEF Paged

\* A poll, or a page that opens: it is no longer idle.
LEMMA AskedIs ==
  ASSUME NEW P, NEW q \in Paged(P)
  PROVE  LET r == Copy!Asked(q)
         IN /\ r \in Paged(P) /\ r.pages = q.pages
            /\ r = q \/ (r.kind = "all" /\ r.built = <<>>)
            /\ \A active, open \in BOOLEAN : \A G : Reads(q, active, G) => Reads(r, open, G)
<1> DEFINE r == Copy!Asked(q)
<1>1. CASE q.kind = "idle"
  <2>1. r = Copy!All(q)
    BY <1>1 DEF Copy!Asked
  <2>2. r \in Paged(P) /\ r.pages = q.pages /\ r.kind = "all" /\ r.built = <<>>
    BY <2>1, AllIs
  <2>3. DOMAIN r.built = {}
    BY <2>2
  <2> HIDE DEF r
  <2>4. ASSUME NEW G, NEW open \in BOOLEAN PROVE Reads(r, open, G)
    BY <2>2, <2>3 DEF Reads
  <2> QED
    BY <2>2, <2>4 DEF r
<1>2. CASE q.kind # "idle"
  <2>1. r = q
    BY <1>2 DEF Copy!Asked
  <2> HIDE DEF r
  <2>2. ASSUME NEW G, NEW active \in BOOLEAN, NEW open \in BOOLEAN, Reads(q, active, G)
        PROVE  Reads(r, open, G)
    BY <1>2, <2>1, <2>2 DEF Reads
  <2> QED
    BY <2>1, <2>2 DEF r
<1> QED
  BY <1>1, <1>2

\* An invalidation, whatever the server answers now.
LEMMA AgainIs ==
  ASSUME NEW P, NEW q \in Paged(P), NEW active \in BOOLEAN
  PROVE  LET r == Copy!Again(q, active)
         IN /\ r \in Paged(P) /\ r.pages = q.pages
            /\ (r.kind = q.kind /\ r.built = q.built) \/ (r.kind = "all" /\ r.built = <<>>)
            /\ \A G : Reads(r, active, G)
<1> DEFINE r == Copy!Again(q, active)
<1>1. CASE active /\ q.pages # <<>>
  <2>1. r = Copy!All(q)
    BY <1>1 DEF Copy!Again
  <2>2. r \in Paged(P) /\ r.pages = q.pages /\ r.kind = "all" /\ r.built = <<>>
    BY <2>1, AllIs
  <2>3. DOMAIN r.built = {}
    BY <2>2
  <2> HIDE DEF r
  <2>4. ASSUME NEW G PROVE Reads(r, active, G)
    BY <2>2, <2>3 DEF Reads
  <2> QED
    BY <2>2, <2>4 DEF r
<1>2. CASE ~(active /\ q.pages # <<>>)
  <2> DEFINE cut == q.cut \/ (~active /\ (q.kind = "next" \/ q.built # <<>>))
  <2>1. r = [q EXCEPT !.cut = cut] /\ cut \in BOOLEAN
    BY <1>2, PagedHas DEF Copy!Again
  <2>2. /\ r \in Paged(P) /\ r.pages = q.pages /\ r.kind = q.kind /\ r.built = q.built
        /\ r.cut = cut
    <3> HIDE DEF cut, r
    <3> QED
      BY <2>1 DEF Paged
  <2>3. ASSUME ~r.cut
        PROVE  /\ (r.kind = "idle" /\ active) \/ r.kind = "next" => r.pages = <<>>
               /\ r.built = <<>>
    BY <1>2, <2>2, <2>3, PagedHas
  <2> HIDE DEF r, cut
  <2>4. ASSUME NEW G PROVE Reads(r, active, G)
    BY <2>3 DEF Reads
  <2> QED
    BY <2>2, <2>4 DEF r
<1> QED
  BY <1>1, <1>2

\* The next page is asked for.
LEMMA FurtherIs ==
  ASSUME NEW P, NEW q \in Paged(P), NEW param \in BOOLEAN, q.kind # "next"
  PROVE  LET r == Copy!Further(q, param)
         IN /\ r \in Paged(P) /\ r.pages = q.pages /\ r.built = <<>>
            /\ r.kind = IF param THEN "next" ELSE "idle"
            /\ \A G : Reads(q, TRUE, G) => Reads(r, TRUE, G)
<1> DEFINE r == Copy!Further(q, param)
           kind == IF param THEN "next" ELSE "idle"
           cut == q.cut \/ q.kind = "all"
<1>1. r = [q EXCEPT !.kind = kind, !.built = <<>>, !.cut = cut]
  BY DEF Copy!Further
<1>2. kind \in {"idle", "next"} /\ cut \in BOOLEAN /\ <<>> \in Seq(P)
  BY PagedHas
<1>3. q.kind \in {"idle", "all"}
  BY PagedHas
<1> HIDE DEF r
<1>4. r \in Paged(P) /\ r.pages = q.pages /\ r.kind = kind /\ r.built = <<>> /\ r.cut = cut
  <2> HIDE DEF kind, cut
  <2> QED
    BY <1>1, <1>2 DEF Paged
<1>5. ASSUME NEW G, Reads(q, TRUE, G) PROVE Reads(r, TRUE, G)
  BY <1>2, <1>3, <1>4, <1>5 DEF Reads
<1> QED
  BY <1>4, <1>5 DEF r

\* The pages before the one that is read are as the server would answer.
LEMMA HadIs ==
  ASSUME NEW P, NEW q \in Paged(P), q.kind # "idle"
  PROVE  LET had == Copy!Had(q)
         IN /\ had \in Seq(P)
            /\ \A active \in BOOLEAN : \A G :
                 Reads(q, active, G) /\ ~q.cut => \A i \in DOMAIN had : had[i] = G[i]
<1>1. q.pages \in Seq(P) /\ q.built \in Seq(P) /\ q.kind \in {"all", "next"}
  BY PagedHas
<1>2. CASE q.kind = "next"
  <2>1. Copy!Had(q) = q.pages
    BY <1>2 DEF Copy!Had
  <2> QED
    BY <1>1, <1>2, <2>1 DEF Reads
<1>3. CASE q.kind = "all"
  <2>1. Copy!Had(q) = q.built
    BY <1>3 DEF Copy!Had
  <2> QED
    BY <1>1, <1>3, <2>1 DEF Reads
<1> QED
  BY <1>1, <1>2, <1>3

\* A page arrives.
LEMMA GivenIs ==
  ASSUME NEW P, NEW q \in Paged(P), q.kind # "idle", NEW new \in P, NEW more \in BOOLEAN
  PROVE  LET r == Copy!Given(q, new, more)
             had == Append(Copy!Had(q), new)
         IN /\ r \in Paged(P) /\ r.cut = q.cut /\ had \in Seq(P)
            /\ \/ r.pages = had /\ r.kind = "idle" /\ r.built = <<>>
               \/ r.pages = q.pages /\ r.kind = "all" /\ r.built = had /\ more
            /\ \A active, open \in BOOLEAN : \A G :
                 /\ Reads(q, active, G) /\ (~q.cut => new = G[Len(Copy!Had(q)) + 1])
                 => /\ Reads(r, open, G)
                    /\ ~r.cut /\ r.pages = had => \A i \in DOMAIN r.pages : r.pages[i] = G[i]
<1> DEFINE r == Copy!Given(q, new, more)
           before == Copy!Had(q)
           had == Append(before, new)
<1>1. /\ q.pages \in Seq(P) /\ q.built \in Seq(P) /\ q.kind \in {"all", "next"} /\ q.cut \in BOOLEAN
      /\ q.pages = <<>> => q.built = <<>>
  BY PagedHas
<1>2. before \in Seq(P)
  BY HadIs
<1>3. r = IF q.kind = "all" /\ Len(had) < Len(q.pages) /\ more
          THEN [q EXCEPT !.built = had]
          ELSE [q EXCEPT !.pages = had, !.kind = "idle", !.built = <<>>]
  BY DEF Copy!Given, Copy!Ended
<1> HIDE DEF r, before
<1>4. /\ had \in Seq(P) /\ had # <<>> /\ Len(had) = Len(before) + 1 /\ <<>> \in Seq(P)
      /\ DOMAIN had = 1..Len(before) + 1 /\ had[Len(before) + 1] = new
      /\ \A i \in 1..Len(before) : had[i] = before[i]
  BY <1>2
<1> HIDE DEF had
<1>5. /\ r \in Paged(P) /\ r.cut = q.cut
      /\ \/ r.pages = had /\ r.kind = "idle" /\ r.built = <<>>
         \/ r.pages = q.pages /\ r.kind = "all" /\ r.built = had /\ more
  <2>1. CASE q.kind = "all" /\ Len(had) < Len(q.pages) /\ more
    <3>1. r = [q EXCEPT !.built = had] /\ q.pages # <<>>
      <4>1. Len(had) \in Nat /\ Len(had) < Len(q.pages)
        BY <1>1, <1>4, <2>1
      <4> QED
        BY <1>3, <2>1, <4>1
    <3> QED
      BY <1>1, <1>4, <2>1, <3>1 DEF Paged
  <2>2. CASE ~(q.kind = "all" /\ Len(had) < Len(q.pages) /\ more)
    <3>1. r = [q EXCEPT !.pages = had, !.kind = "idle", !.built = <<>>]
      BY <1>3, <2>2
    <3> QED
      BY <1>1, <1>4, <3>1 DEF Paged
  <2> QED
    BY <2>1, <2>2
<1>6. ASSUME NEW active \in BOOLEAN, NEW open \in BOOLEAN, NEW G, Reads(q, active, G),
             ~q.cut => new = G[Len(before) + 1]
      PROVE  /\ Reads(r, open, G)
             /\ ~r.cut /\ r.pages = had => \A i \in DOMAIN r.pages : r.pages[i] = G[i]
  <2>1. ASSUME ~q.cut PROVE \A i \in DOMAIN had : had[i] = G[i]
    <3>1. \A i \in DOMAIN before : before[i] = G[i]
      BY <1>6, <2>1, HadIs DEF before
    <3>2. DOMAIN before = 1..Len(before) /\ Len(before) \in Nat
      BY <1>2
    <3> QED
      BY <1>4, <1>6, <2>1, <3>1, <3>2
  <2> QED
    BY <1>5, <2>1 DEF Reads
<1> QED
  BY <1>4, <1>5, <1>6 DEF r, had, before

\* A contact is put in the store.
LEMMA DemoUpsertIs ==
  ASSUME NEW s \in DemoStore, NEW c \in DemoIds, NEW on \in BOOLEAN
  PROVE  LET t == Copy!Upsert(s, c, on)
         IN /\ t \in DemoStore /\ t.contacts = Copy!Put(s.contacts, c, on)
            /\ t.stale = s.stale \ {c} /\ t.ws = s.ws /\ t.last = s.last
<1>1. s.contacts \in ContactLists /\ s.stale \in SUBSET DemoIds
  BY DEF DemoStore
<1>2. Copy!Put(s.contacts, c, on) \in ContactLists
  BY <1>1, PutContact
<1> DEFINE f == Copy!Put(s.contacts, c, on)
           S == s.stale \ {c}
<1>3. Copy!Upsert(s, c, on) = [s EXCEPT !.contacts = f, !.stale = S]
  BY DEF Copy!Upsert
<1>4. f \in ContactLists /\ S \in SUBSET DemoIds
  BY <1>1, <1>2
<1> HIDE DEF f, S
<1>5. LET t == [s EXCEPT !.contacts = f, !.stale = S]
      IN t \in DemoStore /\ t.contacts = f /\ t.stale = S /\ t.ws = s.ws /\ t.last = s.last
  BY <1>4 DEF DemoStore
<1> QED
  BY <1>3, <1>5 DEF f, S

\* The effects on a timeline that fits keep the store fitting.
LEMMA EffectsFit ==
  ASSUME NEW s \in DemoStore, NEW k \in Copy!Keys, NEW tl \in TL, NEW n \in Nat,
         EntryFits(n, s.last[k], s.ws[k], tl)
  PROVE  LET t == Copy!Effects(s, k, tl)
         IN /\ t \in DemoStore
            /\ t.contacts = Copy!Put(s.contacts, k[2], tl.on) /\ t.stale = s.stale \ {k[2]}
            /\ EntryFits(n, t.last[k], t.ws[k], tl)
            /\ \A j \in Copy!Keys : j # k => t.last[j] = s.last[j] /\ t.ws[j] = s.ws[j]
<1> DEFINE on == Copy!Put(s.contacts, k[2], tl.on)
           a == Copy!Upsert(s, k[2], tl.on)
           b == Copy!SetLast(a, k, tl.n)
           E == b.ws[k] \ (1..tl.n)
           t == [b EXCEPT !.ws[k] = E]
<1>1. /\ tl.on \in BOOLEAN /\ tl.n \in Nat /\ tl # None /\ s.contacts \in ContactLists
      /\ s.last[k] \in Nat \cup {None} /\ k[2] \in DemoIds
  BY CopyConstants DEF TL, DemoStore, Copy!Keys
<1>3. Copy!Effects(s, k, tl) = t
  BY DEF Copy!Effects, Copy!Prune
<1>4. /\ a \in DemoStore /\ a.contacts = on /\ a.stale = s.stale \ {k[2]}
      /\ a.ws = s.ws /\ a.last = s.last
  BY <1>1, DemoUpsertIs
<1> HIDE DEF on
<1> HIDE DEF a
<1>5. /\ b \in DemoStore /\ b.contacts = on /\ b.stale = s.stale \ {k[2]} /\ b.ws = s.ws
      /\ b.last[k] = n
      /\ \A j \in Copy!Keys : j # k => b.last[j] = s.last[j]
  <2>1. b = IF a.last[k] # None /\ a.last[k] >= tl.n THEN a ELSE [a EXCEPT !.last[k] = tl.n]
    BY DEF Copy!SetLast
  <2>2. CASE s.last[k] = n
    <3>1. a.last[k] # None /\ a.last[k] >= tl.n
      BY <1>1, <1>4, <2>2, CopyConstants DEF EntryFits
    <3> QED
      BY <1>4, <2>1, <2>2, <3>1
  <2>3. CASE s.last[k] # n
    <3>1. a.last[k] = None /\ tl.n = 0 /\ n = 0
      BY <1>1, <1>4, <2>3 DEF EntryFits
    <3>2. b = [a EXCEPT !.last[k] = tl.n]
      BY <2>1, <3>1
    <3> HIDE DEF b
    <3> QED
      BY <1>1, <1>4, <3>1, <3>2, StoreLast
  <2> QED
    BY <2>2, <2>3
<1> HIDE DEF b
<1>6. E \in SUBSET Nat
  BY <1>5 DEF DemoStore
<1> HIDE DEF E
<1>7. /\ t \in DemoStore /\ t.contacts = on /\ t.stale = s.stale \ {k[2]}
      /\ t.last = b.last /\ t.ws[k] = E
      /\ \A j \in Copy!Keys : j # k => t.ws[j] = s.ws[j]
  BY <1>5, <1>6, StoreWs
<1>8. E = s.ws[k] \ (1..tl.n)
  BY <1>5 DEF E
<1> HIDE DEF t
<1>9. EntryFits(n, t.last[k], t.ws[k], tl)
  <2>1. s.ws[k] \subseteq 1..n /\ tl.n <= n /\ 1..tl.n \cup s.ws[k] = 1..n
    BY <1>1 DEF EntryFits
  <2>2. E \subseteq 1..n /\ 1..tl.n \cup E = 1..n
    BY <1>8, <2>1
  <2> QED
    BY <1>5, <1>7, <2>1, <2>2 DEF EntryFits
<1> QED
  BY <1>3, <1>5, <1>7, <1>9 DEF on

\* A finite set of numbers has a greatest.
LEMMA Greatest ==
  ASSUME NEW S, S \subseteq Nat, IsFiniteSet(S), S # {}
  PROVE  \E i \in S : \A j \in S : j <= i
<1> DEFINE Above(i) == {j \in S : j > i}
           F == {Above(i) : i \in S}
<1>1. F \in SUBSET FiniteSubsetsOf(S) /\ F # {}
  <2>1. F \in SUBSET SUBSET S /\ F # {}
    OBVIOUS
  <2> HIDE DEF F
  <2> QED
    BY <2>1, FS_FiniteSubsetsOfFinite
<1>2. PICK A \in F : \A B \in F : <<B, A>> \notin StrictSubsetOrdering(S)
  <2> HIDE DEF F
  <2> QED
    BY <1>1, FS_StrictSubsetOrderingWellFounded, WFMin
<1>3. PICK i \in S : A = Above(i)
  OBVIOUS
<1>4. ASSUME NEW j \in S, j > i PROVE FALSE
  <2>1. Above(j) \in F
    OBVIOUS
  <2>2. Above(j) \subseteq Above(i) /\ j \in Above(i) /\ j \notin Above(j)
    <3>1. \A k \in S : k \in Nat
      OBVIOUS
    <3>2. ASSUME NEW k \in Above(j) PROVE k \in Above(i)
      BY <1>4, <3>1
    <3>3. j \in Above(i) /\ ~(j > j)
      BY <1>4, <3>1
    <3> QED
      BY <3>2, <3>3
  <2>3. <<Above(j), A>> \in StrictSubsetOrdering(S)
    <3>1. Above(j) \in SUBSET S /\ Above(i) \in SUBSET S /\ Above(j) # Above(i)
      BY <2>2
    <3> HIDE DEF Above
    <3> QED
      BY <1>3, <2>2, <3>1 DEF StrictSubsetOrdering
  <2> QED
    BY <1>2, <2>1, <2>3
<1> QED
  BY <1>4

\* The contacts of a page of the sidebar.
LEMMA ListPageIs ==
  ASSUME CopyType, NEW a \in DemoAccs, NEW i \in Nat
  PROVE  LET all == server.contacts[a]
             new == Copy!ListPage(a, i)
         IN /\ new \in ListPages
            /\ DOMAIN new.contacts = {c \in DOMAIN all : (i - 1) * BarSize < Copy!Rank(all, c)
                                                         /\ Copy!Rank(all, c) <= i * BarSize}
            /\ \A c \in DOMAIN new.contacts : new.contacts[c] = all[c]
            /\ new.total = Cardinality(DOMAIN all)
<1> DEFINE all == server.contacts[a]
           S == {c \in DOMAIN all : (i - 1) * BarSize < Copy!Rank(all, c)
                                    /\ Copy!Rank(all, c) <= i * BarSize}
           f == Copy!Restrict(all, S)
<1>1. DOMAIN all \subseteq DemoIds /\ \A c \in DOMAIN all : all[c] \in BOOLEAN
  BY CopyHas, ContactListIs
<1>2. S \subseteq DOMAIN all
  OBVIOUS
<1>3. Copy!ListPage(a, i) = [contacts |-> f, total |-> Cardinality(DOMAIN all)]
  BY CardinalityIs DEF Copy!ListPage
<1> HIDE DEF S, all
<1>4. DOMAIN f = S /\ f \in [S -> BOOLEAN] /\ \A c \in S : f[c] = all[c]
  BY <1>1, <1>2 DEF Copy!Restrict
<1> HIDE DEF f
<1>5. f \in ContactLists
  BY <1>1, <1>2, <1>4, ContactListIs
<1>6. Cardinality(DOMAIN all) \in Nat
  BY <1>1, CopyConstants, FS_Subset, FS_CardinalityType
<1>7. [contacts |-> f, total |-> Cardinality(DOMAIN all)] \in ListPages
  BY <1>5, <1>6 DEF ListPages
<1> QED
  BY <1>3, <1>4, <1>7 DEF S, all

\* Contacts are counted from the first.
LEMMA RankIs ==
  ASSUME NEW f \in ContactLists, NEW c \in DOMAIN f
  PROVE  Copy!Rank(f, c) \in Nat \ {0}
<1> DEFINE S == {d \in DOMAIN f : d <= c}
<1>1. DOMAIN f \subseteq DemoIds /\ c \in S
  BY ContactListIs, CopyConstants
<1>2. S \subseteq DemoIds
  BY <1>1
<1>3. Copy!Rank(f, c) = Cardinality(S)
  BY CardinalityIs DEF Copy!Rank
<1> HIDE DEF S
<1>4. IsFiniteSet(S) /\ Cardinality(S) \in Nat
  BY <1>2, CopyConstants, FS_Subset, FS_CardinalityType
<1>5. Cardinality(S) # 0
  BY <1>1, <1>4, FS_EmptySet
<1> QED
  BY <1>3, <1>4, <1>5

\* The contacts that pages list, each as one of them has it.
LEMMA ListedIs ==
  ASSUME NEW ps \in Seq(ListPages)
  PROVE  LET f == Copy!Listed(ps)
         IN /\ f \in ContactLists
            /\ \A c \in DOMAIN f : \E i \in DOMAIN ps : c \in DOMAIN ps[i].contacts
                                                      /\ f[c] = ps[i].contacts[c]
<1> DEFINE Holds(c) == {i \in DOMAIN ps : c \in DOMAIN ps[i].contacts}
           U == UNION {DOMAIN ps[i].contacts : i \in DOMAIN ps}
           At(c) == ps[CHOOSE i \in Holds(c) : \A j \in Holds(c) : j <= i].contacts[c]
           f == [c \in U |-> At(c)]
<1>1. Copy!Listed(ps) = f
  BY DEF Copy!Listed
<1>2. /\ DOMAIN ps = 1..Len(ps) /\ Len(ps) \in Nat
      /\ \A i \in DOMAIN ps : DOMAIN ps[i].contacts \subseteq DemoIds
                             /\ \A c \in DOMAIN ps[i].contacts : ps[i].contacts[c] \in BOOLEAN
  <2>1. DOMAIN ps = 1..Len(ps) /\ Len(ps) \in Nat /\ \A i \in DOMAIN ps : ps[i] \in ListPages
    OBVIOUS
  <2>2. \A i \in DOMAIN ps : ps[i].contacts \in ContactLists
    BY <2>1 DEF ListPages
  <2> QED
    BY <2>1, <2>2, ContactListIs
<1>3. ASSUME NEW c \in U
      PROVE  \E i \in DOMAIN ps : c \in DOMAIN ps[i].contacts /\ At(c) = ps[i].contacts[c]
  <2>1. Holds(c) # {} /\ Holds(c) \subseteq 1..Len(ps)
    BY <1>2
  <2>2. IsFiniteSet(Holds(c)) /\ Holds(c) \subseteq Nat
    <3>1. IsFiniteSet(1..Len(ps)) /\ 1..Len(ps) \subseteq Nat
      BY <1>2, FS_Interval
    <3> HIDE DEF Holds
    <3> QED
      BY <2>1, <3>1, FS_Subset
  <2>3. \E i \in Holds(c) : \A j \in Holds(c) : j <= i
    <3> HIDE DEF Holds
    <3> QED
      BY <2>1, <2>2, Greatest
  <2> DEFINE i == CHOOSE i \in Holds(c) : \A j \in Holds(c) : j <= i
  <2>4. i \in Holds(c)
    <3> HIDE DEF Holds
    <3> QED
      BY <2>3
  <2> QED
    BY <2>4
<1>4. U \subseteq DemoIds
  BY <1>2
<1> HIDE DEF U, At
<1>5. DOMAIN f = U /\ \A c \in U : f[c] = At(c) /\ At(c) \in BOOLEAN
  BY <1>2, <1>3
<1>6. f \in [U -> BOOLEAN]
  BY <1>5
<1> HIDE DEF f
<1>7. f \in ContactLists
  BY <1>4, <1>5, <1>6, ContactListIs
<1> QED
  BY <1>1, <1>3, <1>5, <1>7

\* They are put in the store.
LEMMA UpsertAllIs ==
  ASSUME NEW s \in DemoStore, NEW ps \in Seq(ListPages), NEW cut \in BOOLEAN
  PROVE  LET f == Copy!Listed(ps)
             t == Copy!UpsertAll(s, ps, cut)
         IN /\ t \in DemoStore /\ t.contacts = Copy!PutAll(s.contacts, f)
            /\ t.stale = IF cut THEN s.stale \cup DOMAIN f ELSE s.stale \ DOMAIN f
            /\ t.ws = s.ws /\ t.last = s.last
<1> DEFINE f == Copy!Listed(ps)
           g == Copy!PutAll(s.contacts, f)
           S == IF cut THEN s.stale \cup DOMAIN f ELSE s.stale \ DOMAIN f
<1>1. f \in ContactLists /\ s.contacts \in ContactLists /\ s.stale \in SUBSET DemoIds
  BY ListedIs DEF DemoStore
<1>2. Copy!UpsertAll(s, ps, cut) = [s EXCEPT !.contacts = g, !.stale = S]
  BY DEF Copy!UpsertAll
<1> HIDE DEF f
<1>3. g \in ContactLists /\ DOMAIN f \subseteq DemoIds
  BY <1>1, PutAllContacts, ContactListIs
<1>4. S \in SUBSET DemoIds
  BY <1>1, <1>3
<1>6. g \in ContactLists
  BY <1>3
<1> HIDE DEF g, S
<1>5. LET t == [s EXCEPT !.contacts = g, !.stale = S]
      IN t \in DemoStore /\ t.contacts = g /\ t.stale = S /\ t.ws = s.ws /\ t.last = s.last
  BY <1>4, <1>6 DEF DemoStore
<1> QED
  BY <1>2, <1>5 DEF f, g, S

\* Pages that hold a contact of the server's, after a write to it.
LEMMA ThroughIs ==
  ASSUME NEW ps \in Seq(ListPages), NEW same, NEW c, NEW on \in BOOLEAN
  PROVE  LET r == Copy!Through(ps, same, c, on)
         IN r \in Seq(ListPages) /\ Len(r) = Len(ps)
<1> DEFINE At(i) == IF i \in same /\ c \in DOMAIN ps[i].contacts
                    THEN [ps[i] EXCEPT !.contacts[c] = on] ELSE ps[i]
           r == [i \in DOMAIN ps |-> At(i)]
<1>1. Copy!Through(ps, same, c, on) = r
  BY DEF Copy!Through
<1>2. DOMAIN ps = 1..Len(ps) /\ Len(ps) \in Nat /\ \A i \in DOMAIN ps : ps[i] \in ListPages
  OBVIOUS
<1>3. ASSUME NEW i \in DOMAIN ps PROVE At(i) \in ListPages
  <2>1. CASE i \in same /\ c \in DOMAIN ps[i].contacts
    <3> DEFINE f == ps[i].contacts
               g == [f EXCEPT ![c] = on]
    <3>1. f \in ContactLists /\ ps[i].total \in Nat
      BY <1>2 DEF ListPages
    <3>2. DOMAIN f \subseteq DemoIds /\ f \in [DOMAIN f -> BOOLEAN]
      BY <3>1, ContactListIs
    <3>3. DOMAIN g = DOMAIN f /\ g \in [DOMAIN f -> BOOLEAN]
      BY <3>2
    <3>4. g \in ContactLists
      <4> HIDE DEF g
      <4> QED
        BY <3>2, <3>3, ContactListIs
    <3>5. At(i) = [ps[i] EXCEPT !.contacts = g]
      BY <2>1
    <3> HIDE DEF g
    <3> QED
      BY <1>2, <3>4, <3>5 DEF ListPages
  <2>2. CASE ~(i \in same /\ c \in DOMAIN ps[i].contacts)
    BY <1>2, <2>2
  <2> QED
    BY <2>1, <2>2
<1> HIDE DEF At
<1>4. r \in Seq(ListPages) /\ Len(r) = Len(ps)
  BY <1>2, <1>3
<1> QED
  BY <1>1, <1>4

\* Pages of B fill up one after the other.
LEMMA Multiples == \A B \in Nat : \A i, j \in Nat : i <= j => i * B <= j * B
<1> SUFFICES ASSUME NEW B \in Nat, NEW i \in Nat, NEW j \in Nat, i <= j PROVE i * B <= j * B
  OBVIOUS
<1> DEFINE d == j - i
<1>1. d \in Nat /\ j = i + d
  OBVIOUS
<1> HIDE DEF d
<1>2. (i + d) * B = i * B + d * B /\ d * B \in Nat /\ i * B \in Nat
  BY <1>1
<1> QED
  BY <1>1, <1>2

\* What is r-th is on one of the first L pages or after them all.
LEMMA PageOf ==
  ASSUME NEW B \in Nat \ {0}, NEW L \in Nat, NEW r \in Nat \ {0}
  PROVE  (\E i \in 1..L : (i - 1) * B < r /\ r <= i * B) <=> r <= L * B
<1>1. ASSUME NEW i \in 1..L, r <= i * B PROVE r <= L * B
  <2>1. i * B <= L * B /\ i * B \in Nat /\ L * B \in Nat
    BY Multiples
  <2> QED
    BY <1>1, <2>1
<1>2. ASSUME r <= L * B PROVE \E i \in 1..L : (i - 1) * B < r /\ r <= i * B
  <2> DEFINE T == {j \in 0..L : j * B < r}
  <2>1. T \subseteq 0..L /\ IsFiniteSet(0..L) /\ 0..L \subseteq Nat
    BY FS_Interval
  <2>2. 0 \in T
    OBVIOUS
  <2>3. IsFiniteSet(T) /\ T \subseteq Nat /\ T # {}
    <3> HIDE DEF T
    <3> QED
      BY <2>1, <2>2, FS_Subset
  <2>4. PICK g \in T : \A j \in T : j <= g
    <3> HIDE DEF T
    <3> QED
      BY <2>3, Greatest
  <2>5. g \in 0..L /\ g * B < r /\ g * B \in Nat /\ L * B \in Nat
    OBVIOUS
  <2>6. g # L
    BY <1>2, <2>5
  <2>7. g + 1 \in 1..L /\ g + 1 \in 0..L /\ ~(g + 1 <= g) /\ (g + 1) - 1 = g
    BY <2>5, <2>6
  <2>8. g + 1 \notin T
    <3> HIDE DEF T
    <3> QED
      BY <2>4, <2>7
  <2>9. ~((g + 1) * B < r) /\ (g + 1) * B \in Nat
    BY <2>7, <2>8
  <2>10. r <= (g + 1) * B
    BY <2>9
  <2> QED
    BY <2>5, <2>7, <2>10
<1> QED
  BY <1>1, <1>2

\* It is on one page.
LEMMA OnePage ==
  ASSUME NEW B \in Nat \ {0}, NEW r \in Nat, NEW i \in Nat \ {0}, NEW j \in Nat \ {0},
         (i - 1) * B < r, r <= i * B, (j - 1) * B < r, r <= j * B
  PROVE  i = j
<1>1. ASSUME NEW m \in Nat \ {0}, NEW o \in Nat \ {0}, m < o, r <= m * B, (o - 1) * B < r
      PROVE  FALSE
  <2>1. m * B <= (o - 1) * B /\ m * B \in Nat /\ (o - 1) * B \in Nat
    <3>1. o - 1 \in Nat /\ m <= o - 1
      BY <1>1
    <3> QED
      BY <3>1, Multiples
  <2> QED
    BY <1>1, <2>1
<1>2. i < j \/ j < i \/ i = j
  OBVIOUS
<1> QED
  BY <1>1, <1>2

\* Messages of different seconds: the page before those that are read has the next ones.
LEMMA NewestIs ==
  ASSUME NEW times \in Seq(Nat), Copy!Distinct(times), NEW ps \in Seq(SUBSET Nat),
         ps # <<>> => /\ Copy!Last(ps) # {}
                      /\ Copy!Last(ps) = ChatIs(Len(times))[Len(ps)]
  PROVE  Copy!Newest(times, Copy!Before(times, ps)) = ChatIs(Len(times))[Len(ps) + 1]
<1> DEFINE n == Len(times)
           L == Len(ps)
           B == L * ChatSize
           D == (L - 1) * ChatSize
           A == {i \in 1..n : B <= n - i}
           Ahead(i) == {j \in A : times[j] > times[i] \/ (times[j] = times[i] /\ j < i)}
<1>1. /\ n \in Nat /\ L \in Nat /\ ChatSize \in Nat \ {0} /\ B \in Nat /\ D \in Int
      /\ DOMAIN times = 1..n /\ \A i \in 1..n : times[i] \in Nat
      /\ (L + 1) * ChatSize = B + ChatSize /\ (L + 1) - 1 = L
  BY CopyConstants
<1>2. \A i, j \in 1..n : times[i] < times[j] <=> i < j
  <2> SUFFICES ASSUME NEW i \in 1..n, NEW j \in 1..n PROVE times[i] < times[j] <=> i < j
    OBVIOUS
  <2>1. i < j => times[i] < times[j]
    BY <1>1 DEF Copy!Distinct
  <2>2. j < i => times[j] < times[i]
    BY <1>1 DEF Copy!Distinct
  <2>3. times[i] \in Nat /\ times[j] \in Nat /\ (i < j \/ j < i \/ i = j)
    BY <1>1
  <2> QED
    BY <2>1, <2>2, <2>3
<1>3. Copy!Before(times, ps) = A
  <2>1. CASE ps = <<>>
    <3>1. B = 0
      BY <2>1, <1>1
    <3>2. Copy!Before(times, ps) = 1..n
      BY <2>1, <1>1 DEF Copy!Before
    <3> HIDE DEF B, n
    <3>3. \A i \in 1..n : B <= n - i
      BY <1>1, <3>1
    <3> QED
      BY <3>2, <3>3
  <2>2. CASE ps # <<>>
    <3> DEFINE M == Copy!Last(ps)
    <3>1. Copy!Before(times, ps) = {i \in 1..n : \A j \in M : times[i] < times[j]}
      BY <2>2, <1>1 DEF Copy!Before
    <3>2. M = {m \in 1..n : D <= n - m /\ n - m < B} /\ M # {}
      BY <2>2, <1>1 DEF ChatIs
    <3> HIDE DEF M, B, D, n
    <3>3. \A i \in 1..n : (\A j \in M : times[i] < times[j]) <=> B <= n - i
      <4> SUFFICES ASSUME NEW i \in 1..n
                   PROVE  (\A j \in M : times[i] < times[j]) <=> B <= n - i
        OBVIOUS
      <4>1. ASSUME B <= n - i, NEW j \in M PROVE times[i] < times[j]
        <5>1. j \in 1..n /\ n - j < B
          BY <3>2
        <5>2. i < j
          BY <1>1, <4>1, <5>1
        <5> QED
          BY <1>2, <5>1, <5>2
      <4>2. ASSUME \A j \in M : times[i] < times[j], n - i < B PROVE FALSE
        <5>1. PICK m \in M : TRUE
          BY <3>2
        <5>2. m \in 1..n /\ D <= n - m
          BY <3>2
        <5>3. i < m
          BY <1>2, <4>2, <5>2
        <5>4. D <= n - i
          BY <1>1, <5>2, <5>3
        <5>5. i \in M
          BY <3>2, <4>2, <5>4
        <5> QED
          BY <1>1, <4>2, <5>5
      <4>3. n - i < B \/ B <= n - i
        BY <1>1
      <4> QED
        BY <4>1, <4>2, <4>3
    <3> QED
      BY <3>1, <3>3
  <2> QED
    BY <2>1, <2>2
<1>4. Copy!Newest(times, A) = {i \in A : Cardinality(Ahead(i)) < ChatSize}
  BY CardinalityIs DEF Copy!Newest
<1>5. ChatIs(n)[L + 1] = {m \in 1..n : B <= n - m /\ n - m < B + ChatSize}
  BY <1>1 DEF ChatIs
<1> HIDE DEF n, L, B
<1>6. \A i \in A : Cardinality(Ahead(i)) < ChatSize <=> n - i < B + ChatSize
  <2> SUFFICES ASSUME NEW i \in A
               PROVE  Cardinality(Ahead(i)) < ChatSize <=> n - i < B + ChatSize
    OBVIOUS
  <2>1. i \in 1..n /\ B <= n - i
    OBVIOUS
  <2>2. Ahead(i) = (i + 1)..(n - B)
    <3>1. ASSUME NEW j \in Ahead(i) PROVE j \in (i + 1)..(n - B)
      <4>1. j \in 1..n /\ B <= n - j /\ (times[j] > times[i] \/ (times[j] = times[i] /\ j < i))
        OBVIOUS
      <4>2. ~(times[j] < times[i]) /\ (times[j] = times[i] => ~(j < i))
        BY <1>1, <1>2, <2>1, <4>1
      <4>3. times[i] < times[j]
        BY <1>1, <2>1, <4>1, <4>2
      <4>4. i < j
        BY <1>2, <2>1, <4>1, <4>3
      <4> QED
        BY <1>1, <2>1, <4>1, <4>4
    <3>2. ASSUME NEW j \in (i + 1)..(n - B) PROVE j \in Ahead(i)
      <4>1. j \in 1..n /\ B <= n - j /\ i < j
        BY <1>1, <2>1
      <4>2. times[j] > times[i]
        BY <1>1, <1>2, <2>1, <4>1
      <4> QED
        BY <4>1, <4>2
    <3> HIDE DEF Ahead
    <3> QED
      BY <3>1, <3>2
  <2>3. Cardinality((i + 1)..(n - B)) = n - B - i
    <3>1. i + 1 \in Int /\ n - B \in Int
      BY <1>1, <2>1
    <3>2. Cardinality((i + 1)..(n - B)) = IF i + 1 > n - B THEN 0 ELSE (n - B) - (i + 1) + 1
      BY <3>1, FS_Interval
    <3> QED
      BY <1>1, <2>1, <3>2
  <2> HIDE DEF Ahead, A
  <2> QED
    BY <1>1, <2>1, <2>2, <2>3
<1> HIDE DEF Ahead
<1>7. {i \in A : Cardinality(Ahead(i)) < ChatSize}
      = {m \in 1..n : B <= n - m /\ n - m < B + ChatSize}
  <2>1. {i \in A : Cardinality(Ahead(i)) < ChatSize} = {i \in A : n - i < B + ChatSize}
    <3> HIDE DEF A
    <3> QED
      BY <1>6
  <2> QED
    BY <2>1
<1> QED
  BY <1>3, <1>4, <1>5, <1>7 DEF n, L

\* Chats whose queries may ask for the next page, or go on.
LEMMA ChatHas ==
  ASSUME NEW q \in ChatQuery
  PROVE  /\ q \in Paged(SUBSET Nat)
         /\ q.kind # "idle" /\ Copy!Had(q) # <<>> => Copy!Last(Copy!Had(q)) # {}
  BY DEF ChatQuery

\* What the query library does to the query of a chat.
LEMMA ChatOperations ==
  ASSUME NEW q \in ChatQuery
  PROVE  /\ Copy!Asked(q) \in ChatQuery
         /\ \A active \in BOOLEAN : Copy!Again(q, active) \in ChatQuery
<1>1. q \in Paged(SUBSET Nat)
  BY ChatHas
<1>2. ASSUME NEW r \in Paged(SUBSET Nat), r.pages = q.pages,
             (r.kind = q.kind /\ r.built = q.built) \/ (r.kind = "all" /\ r.built = <<>>)
      PROVE  r \in ChatQuery
  <2>1. r.kind = q.kind /\ r.built = q.built => Copy!Had(r) = Copy!Had(q)
    BY <1>2 DEF Copy!Had
  <2>2. r.kind = "all" /\ r.built = <<>> => Copy!Had(r) = <<>>
    BY DEF Copy!Had
  <2> QED
    BY <1>2, <2>1, <2>2, ChatHas DEF ChatQuery
<1>3. Copy!Asked(q) \in ChatQuery
  <2> DEFINE r == Copy!Asked(q)
  <2>1. /\ r \in Paged(SUBSET Nat) /\ r.pages = q.pages
        /\ r = q \/ (r.kind = "all" /\ r.built = <<>>)
    BY <1>1, AskedIs
  <2> HIDE DEF r
  <2>2. r \in ChatQuery
    BY <1>2, <2>1
  <2> QED
    BY <2>2 DEF r
<1>4. ASSUME NEW active \in BOOLEAN PROVE Copy!Again(q, active) \in ChatQuery
  <2> DEFINE r == Copy!Again(q, active)
  <2>1. /\ r \in Paged(SUBSET Nat) /\ r.pages = q.pages
        /\ (r.kind = q.kind /\ r.built = q.built) \/ (r.kind = "all" /\ r.built = <<>>)
    BY <1>1, AgainIs
  <2> HIDE DEF r
  <2>2. r \in ChatQuery
    BY <1>2, <2>1
  <2> QED
    BY <2>2 DEF r
<1> QED
  BY <1>3, <1>4

\* Older messages are asked for.
LEMMA ChatFurther ==
  ASSUME NEW q \in ChatQuery, NEW param \in BOOLEAN, q.kind # "next", Copy!Last(q.pages) # {}
  PROVE  Copy!Further(q, param) \in ChatQuery
<1> DEFINE r == Copy!Further(q, param)
<1>1. /\ r \in Paged(SUBSET Nat) /\ r.pages = q.pages /\ r.built = <<>>
      /\ r.kind = IF param THEN "next" ELSE "idle"
  BY ChatHas, FurtherIs
<1> HIDE DEF r
<1>2. r.kind = "next" => Copy!Had(r) = q.pages
  BY <1>1 DEF Copy!Had
<1>3. r \in ChatQuery
  BY <1>1, <1>2 DEF ChatQuery
<1> QED
  BY <1>3 DEF r

\* A page of messages arrives, and there may be more after it if it is not empty.
LEMMA ChatGiven ==
  ASSUME NEW q \in ChatQuery, q.kind # "idle", NEW new \in SUBSET Nat, NEW more \in BOOLEAN,
         more => new # {}
  PROVE  Copy!Given(q, new, more) \in ChatQuery
<1> DEFINE r == Copy!Given(q, new, more)
           before == Copy!Had(q)
           had == Append(before, new)
<1>1. q \in Paged(SUBSET Nat) /\ before \in Seq(SUBSET Nat)
  BY ChatHas, HadIs
<1>2. /\ r \in Paged(SUBSET Nat)
      /\ \/ r.pages = had /\ r.kind = "idle" /\ r.built = <<>>
         \/ r.pages = q.pages /\ r.kind = "all" /\ r.built = had /\ more
  <2> DEFINE P == SUBSET Nat
  <2>1. q \in Paged(P) /\ new \in P
    BY <1>1
  <2> HIDE DEF P
  <2>2. r \in Paged(P)
    BY <2>1, GivenIs
  <2>3. \/ r.pages = had /\ r.kind = "idle" /\ r.built = <<>>
        \/ r.pages = q.pages /\ r.kind = "all" /\ r.built = had /\ more
    BY <2>1, GivenIs
  <2> QED
    BY <2>2, <2>3 DEF P
<1> HIDE DEF r, before
<1>3. Copy!Last(had) = new
  BY <1>1 DEF Copy!Last
<1>4. r.kind = "all" => Copy!Had(r) = r.built
  BY DEF Copy!Had
<1> HIDE DEF had
<1>5. r \in ChatQuery
  BY <1>2, <1>3, <1>4 DEF ChatQuery
<1> QED
  BY <1>5 DEF r

\* A new contact has an id that none has.
LEMMA NewIdIsNew ==
  ASSUME CopyType
  PROVE  \A a \in DemoAccs : Copy!NextContactId \notin DOMAIN server.contacts[a]
<1> DEFINE all == (UNION {DOMAIN server.contacts[a] : a \in DemoAccs}) \cup {0}
<1>1. all \subseteq DemoIds \cup {0}
  <2>1. \A a \in DemoAccs : server.contacts[a] \in ContactLists
    BY CopyHas
  <2>2. \A a \in DemoAccs : DOMAIN server.contacts[a] \subseteq DemoIds
    BY <2>1, ContactListIs
  <2>3. ASSUME NEW i \in all PROVE i \in DemoIds \cup {0}
    <3>1. i = 0 \/ \E a \in DemoAccs : i \in DOMAIN server.contacts[a]
      OBVIOUS
    <3> QED
      BY <2>2, <3>1
  <2> QED
    BY <2>3
<1>2. all \subseteq Nat /\ all # {}
  <2>1. 0 \in all
    BY Zenon
  <2> HIDE DEF all
  <2> QED
    BY <1>1, <2>1, CopyConstants
<1>3. \A a \in DemoAccs : DOMAIN server.contacts[a] \subseteq all
  OBVIOUS
<1>4. Copy!NextContactId = 1 + CHOOSE i \in all : \A j \in all : j <= i
  BY DEF Copy!NextContactId
<1> HIDE DEF all
<1>5. IsFiniteSet(all)
  BY <1>1, CopyConstants, FS_AddElement, FS_Subset
<1>6. \E i \in all : \A j \in all : j <= i
  BY <1>2, <1>5, Greatest
<1> DEFINE i == CHOOSE i \in all : \A j \in all : j <= i
<1>7. i \in all /\ \A j \in all : j <= i
  BY <1>6
<1>8. Copy!NextContactId = 1 + i
  BY <1>4
<1> HIDE DEF i
<1> QED
  BY <1>2, <1>3, <1>7, <1>8

-----------------------------------------------------------------------------
\* The initial state and every step.

\* What is on the page.
LEMMA InUse == /\ \A a : Copy!InAccount(a) \in BOOLEAN
               /\ \A k : Copy!OpenContact(k) \in BOOLEAN /\ Copy!OpenChat(k) \in BOOLEAN
  BY DEF Copy!InAccount, Copy!OpenContact, Copy!OpenChat

\* The pages of the sidebar are those of the server's list.
LEMMA SameList == \A a : server'.contacts[a] = server.contacts[a] => ListIs(a)' = ListIs(a)
  BY DEF ListIs, Copy!ListPage

\* The queries, from the invariant.
LEMMA QueriesOf ==
  ASSUME CopyInv
  PROVE  /\ \A a \in DemoAccs : Reads(cache.list[a], Copy!InAccount(a), ListIs(a))
         /\ \A k \in Copy!Keys : Copy!Distinct(server.messages[k]) =>
              Reads(cache.chat[k], Copy!OpenChat(k), ChatIs(Len(server.messages[k])))
  BY DEF CopyInv, ListFits, ChatFits

\* A query that is no longer in use.
LEMMA Unused == \A q, G : \A active \in BOOLEAN : Reads(q, active, G) => Reads(q, FALSE, G)
  BY DEF Reads

\* The invariant holds at first.
LEMMA InitCopy == Copy!Init => CopyInv
<1> SUFFICES ASSUME Copy!Init PROVE CopyInv
  OBVIOUS
<1>1. PICK first \in Copy!Start :
        \E chats \in [Copy!Keys -> {[i \in 1..n |-> i] : n \in Backlogs}] :
          server = [contacts |-> first, entries |-> [k \in Copy!Keys |-> 0],
                    messages |-> chats]
  BY DEF Copy!Init
<1>13. PICK chats \in [Copy!Keys -> {[i \in 1..n |-> i] : n \in Backlogs}] :
         server = [contacts |-> first, entries |-> [k \in Copy!Keys |-> 0],
                   messages |-> chats]
  BY <1>1
<1>14. chats \in [Copy!Keys -> Seq(Nat)]
  <2> DEFINE F == {[i \in 1..n |-> i] : n \in Backlogs}
  <2>1. F \subseteq Seq(Nat)
    <3> SUFFICES ASSUME NEW n \in Backlogs PROVE [i \in 1..n |-> i] \in Seq(Nat)
      OBVIOUS
    <3>1. n \in Nat
      BY CopyConstants
    <3> QED
      BY <3>1
  <2>2. chats \in [Copy!Keys -> F]
    OBVIOUS
  <2> HIDE DEF F
  <2> QED
    BY <2>1, <2>2
<1>2. /\ first \in [DemoAccs -> {[c \in S |-> TRUE] : S \in SUBSET DemoIds \ {{}}}]
      /\ \A a, b \in DemoAccs : a # b => DOMAIN first[a] \cap DOMAIN first[b] = {}
  BY DEF Copy!Start
<1>3. \A f \in {[c \in S |-> TRUE] : S \in SUBSET DemoIds \ {{}}} : f \in ContactLists
  <2> TAKE f \in {[c \in S |-> TRUE] : S \in SUBSET DemoIds \ {{}}}
  <2>1. PICK S \in SUBSET DemoIds : f = [c \in S |-> TRUE]
    OBVIOUS
  <2>2. DOMAIN f = S /\ f \in [S -> BOOLEAN]
    BY <2>1
  <2> QED
    BY <2>1, <2>2, ContactListIs
<1>4. first \in [DemoAccs -> ContactLists]
  <2> DEFINE F == {[c \in S |-> TRUE] : S \in SUBSET DemoIds \ {{}}}
  <2>1. F \subseteq ContactLists /\ first \in [DemoAccs -> F]
    BY <1>2, <1>3
  <2> HIDE DEF F
  <2> QED
    BY <2>1
<1>5. server \in Server
  BY <1>13, <1>4, <1>14 DEF Server
<1>6. Copy!Cold.data = None /\ Copy!Cold.busy = FALSE
  BY DEF Copy!Cold
<1>7. Copy!Nothing \in ContactLists
  <2>1. DOMAIN Copy!Nothing = {} /\ Copy!Nothing \in [{} -> BOOLEAN]
    BY DEF Copy!Nothing
  <2> QED
    BY <2>1, ContactListIs
<1>15. /\ Copy!NoPages \in ListQuery /\ Copy!NoPages \in ChatQuery
       /\ \A active \in BOOLEAN : \A G : Reads(Copy!NoPages, active, G)
  <2> DEFINE q == Copy!NoPages
  <2>1. q = [pages |-> <<>>, kind |-> "idle", built |-> <<>>, cut |-> FALSE]
    BY DEF Copy!NoPages
  <2>2. \A P : q \in Paged(P)
    BY <2>1 DEF Paged
  <2>3. q.kind = "idle" /\ DOMAIN q.pages = {}
    BY <2>1
  <2> HIDE DEF q
  <2>4. q \in ListQuery /\ q \in ChatQuery
    BY <2>2, <2>3 DEF ListQuery, ChatQuery
  <2>5. \A active \in BOOLEAN : \A G : Reads(q, active, G)
    BY <2>3 DEF Reads
  <2> QED
    BY <2>4, <2>5 DEF q
<1>16. /\ cache.list = [a \in DemoAccs |-> Copy!NoPages]
       /\ cache.timeline = [k \in Copy!Keys |-> Copy!Cold]
       /\ cache.chat = [k \in Copy!Keys |-> Copy!NoPages]
       /\ cache = [list |-> cache.list, timeline |-> cache.timeline, chat |-> cache.chat]
  BY DEF Copy!Init
<1>17. Copy!Cold \in TimelineQuery
  BY DEF Copy!Cold, TimelineQuery
<1>18. cache \in Cache
  <2>1. /\ cache.list \in [DemoAccs -> ListQuery] /\ cache.timeline \in [Copy!Keys -> TimelineQuery]
        /\ cache.chat \in [Copy!Keys -> ChatQuery]
    BY <1>15, <1>16, <1>17
  <2> QED
    BY <1>16, <2>1 DEF Cache
<1>8. demoStore \in DemoStore
  BY <1>7 DEF Copy!Init, DemoStore
<1>9. CopyType
  BY <1>5, <1>8, <1>18, PagesBounds DEF CopyType, Copy!Init, Route, Copy!DemoBounds
<1>10. Disjoint
  BY <1>13, <1>2 DEF Disjoint
<1>19. ListFits /\ ChatFits
  BY <1>15, <1>16, InUse DEF ListFits, ChatFits
<1>11. TrackingFits
  BY <1>16, <1>6 DEF TrackingFits
<1>12. EntriesFit
  <2> SUFFICES ASSUME NEW k \in Copy!Keys
               PROVE  EntryFits(server.entries[k], demoStore.last[k], demoStore.ws[k],
                                cache.timeline[k].data)
    BY DEF EntriesFit
  <2>1. /\ server.entries[k] = 0 /\ demoStore.last[k] = None /\ demoStore.ws[k] = {}
        /\ cache.timeline[k].data = None
    BY <1>13, <1>6, <1>16 DEF Copy!Init
  <2> QED
    BY <2>1 DEF EntryFits
<1> QED
  BY <1>9, <1>10, <1>11, <1>12, <1>19 DEF CopyInv

\* A step that only asks, and one that only changes who hears of a write.
LEMMA AsksFit ==
  ASSUME CopyInv, UNCHANGED <<server, armed, cache, demoStore, demoRoute>>,
         requests' \in SUBSET Write, demoLeft' \in Nat
  PROVE  CopyInv'
<1> USE DEF CopyInv
<1>1. CopyType'
  BY DEF CopyType
<1>2. Disjoint' /\ EntriesFit' /\ TrackingFits'
  BY DEF Disjoint, EntriesFit, TrackingFits, Copy!OpenContact
<1>3. ListFits' /\ ChatFits'
  BY SameList DEF ListFits, ChatFits, Copy!InAccount, Copy!OpenChat
<1> QED
  BY <1>1, <1>2, <1>3

\* Steps of the simulators and writes of the user are counted down.
LEMMA Counts ==
  ASSUME CopyType
  PROVE  demoLeft \in Nat /\ (Copy!Act => demoLeft' \in Nat)
  BY DEF CopyType, Copy!Act

\* The route's parts.
LEMMA RouteIs ==
  ASSUME CopyType
  PROVE  /\ demoRoute.acc = None \/ demoRoute.acc \in DemoAccs
         /\ demoRoute.page \in {"account", "contact", "messages"} => demoRoute.acc \in DemoAccs
         /\ demoRoute.page \in {"contact", "messages"} =>
              demoRoute.cid \in DemoIds /\ <<demoRoute.acc, demoRoute.cid>> \in Copy!Keys
         /\ demoRoute.page = "none" => demoRoute.acc = None
  BY DEF CopyType, Route, Copy!Keys

\* The buttons send a request.
LEMMA StepRequest ==
  ASSUME CopyInv, Copy!AskCreate \/ Copy!AskContact \/ Copy!AskSend
  PROVE  CopyInv'
<1>1. CopyType
  BY DEF CopyInv
<1>2. ASSUME NEW op, NEW c, NEW on, Copy!Request(op, c, on),
             \A n \in Nat : [n |-> n, op |-> op, acc |-> demoRoute.acc, id |-> c, cid |-> c,
                             on |-> on, own |-> TRUE] \in Write
      PROVE  CopyInv'
  <2>1. requests' \in SUBSET Write /\ demoLeft' \in Nat
    BY <1>1, <1>2, Counts DEF Copy!Request, CopyType
  <2>2. UNCHANGED <<server, armed, cache, demoStore, demoRoute>>
    BY <1>2 DEF Copy!Request
  <2> QED
    BY <2>1, <2>2, AsksFit
<1>3. CASE Copy!AskCreate
  BY <1>1, <1>2, <1>3, RouteIs DEF Copy!AskCreate, Write
<1>4. CASE Copy!AskContact
  <2>1. demoRoute.acc \in DemoAccs /\ demoRoute.cid \in DemoIds
    BY <1>1, <1>4, RouteIs DEF Copy!AskContact
  <2>2. Copy!Request("delete", demoRoute.cid, FALSE) => CopyInv'
    BY <1>2, <2>1 DEF Write
  <2> DEFINE tl == cache.timeline[<<demoRoute.acc, demoRoute.cid>>].data
             on == ~Copy!ShownContact(demoRoute.cid, tl.on)
  <2>3. on \in BOOLEAN
    OBVIOUS
  <2>4. Copy!Request("toggle", demoRoute.cid, on) => CopyInv'
    <3> HIDE DEF on
    <3> QED
      BY <1>2, <2>1, <2>3 DEF Write
  <2> QED
    BY <1>4, <2>2, <2>4 DEF Copy!AskContact
<1>5. CASE Copy!AskSend
  <2>1. demoRoute.acc \in DemoAccs /\ demoRoute.cid \in DemoIds
    BY <1>1, <1>5, RouteIs DEF Copy!AskSend
  <2> QED
    BY <1>2, <1>5, <2>1 DEF Copy!AskSend, Write
<1> QED
  BY <1>3, <1>4, <1>5

\* A request with another render's handlers.
LEMMA Rehandled ==
  ASSUME NEW r \in Write
  PROVE  /\ \A b \in BOOLEAN : [r EXCEPT !.own = b] \in Write
         /\ r.op \in {"toggle", "delete"} =>
              \A c \in DemoIds : [r EXCEPT !.cid = c] \in Write
<1>1. CASE r.op = "create"
  BY <1>1 DEF Write
<1>2. CASE r.op # "create"
  BY <1>2 DEF Write
<1> QED
  BY <1>1, <1>2

\* Back to no account.
LEMMA StepLeave == ASSUME CopyInv, Copy!Leave PROVE CopyInv'
<1>0. CopyType /\ UNCHANGED <<server, cache, demoStore, demoLeft>>
  BY DEF CopyInv, Copy!Leave
<1>1. /\ demoRoute' \in Route /\ demoRoute'.acc = None /\ demoRoute'.page = "none"
      /\ \A a \in DemoAccs : Copy!InAccount(a)' = FALSE
      /\ \A k : Copy!OpenContact(k)' = FALSE /\ Copy!OpenChat(k)' = FALSE
  BY CopyConstants DEF Copy!Leave, Route, Copy!InAccount, Copy!OpenContact, Copy!OpenChat
<1>2. requests' \in SUBSET Write
  BY <1>0, Rehandled DEF CopyType, Copy!Leave
<1>3. CopyType'
  BY <1>0, <1>1, <1>2 DEF CopyType
<1>4. Disjoint' /\ EntriesFit' /\ TrackingFits'
  BY <1>0, <1>1 DEF CopyInv, Disjoint, EntriesFit, TrackingFits
<1>5. ListFits'
  <2> SUFFICES ASSUME NEW a \in DemoAccs PROVE Reads(cache.list[a], FALSE, ListIs(a))
    BY <1>0, <1>1, SameList DEF ListFits
  <2> QED
    BY QueriesOf, InUse, Unused
<1>6. ChatFits'
  <2> SUFFICES ASSUME NEW k \in Copy!Keys, Copy!Distinct(server.messages[k])
               PROVE  Reads(cache.chat[k], FALSE, ChatIs(Len(server.messages[k])))
    BY <1>0, <1>1 DEF ChatFits
  <2> QED
    BY QueriesOf, InUse, Unused
<1> QED
  BY <1>3, <1>4, <1>5, <1>6 DEF CopyInv

\* A step of the queries only, that keeps what the contact's page shows.
LEMMA QueriesFit ==
  ASSUME CopyInv, UNCHANGED <<server, demoStore, demoRoute, requests, demoLeft>>, cache' \in Cache,
         \A a \in DemoAccs : Reads(cache'.list[a], Copy!InAccount(a), ListIs(a)),
         \A k \in Copy!Keys : cache'.timeline[k].data = cache.timeline[k].data
                              /\ (cache.timeline[k].busy => cache'.timeline[k].busy),
         \A k \in Copy!Keys : Copy!Distinct(server.messages[k]) =>
           Reads(cache'.chat[k], Copy!OpenChat(k), ChatIs(Len(server.messages[k])))
  PROVE  CopyInv'
<1> USE DEF CopyInv
<1>1. CopyType' /\ Disjoint' /\ EntriesFit'
  BY DEF CopyType, Disjoint, EntriesFit
<1>2. ListFits' /\ ChatFits'
  BY SameList DEF ListFits, ChatFits, Copy!InAccount, Copy!OpenChat
<1>3. TrackingFits'
  BY DEF TrackingFits, Tracked, Copy!OpenContact
<1> QED
  BY <1>1, <1>2, <1>3

\* A step of one list.
LEMMA OneListFits ==
  ASSUME CopyInv, UNCHANGED <<server, demoStore, demoRoute, requests, demoLeft>>,
         NEW a \in DemoAccs, NEW q \in ListQuery, cache' = [cache EXCEPT !.list[a] = q],
         Reads(q, Copy!InAccount(a), ListIs(a))
  PROVE  CopyInv'
<1>1. /\ cache' \in Cache /\ cache'.timeline = cache.timeline /\ cache'.chat = cache.chat
      /\ cache'.list[a] = q
      /\ \A b \in DemoAccs : b # a => cache'.list[b] = cache.list[b]
  BY CacheList DEF CopyInv, CopyType
<1> QED
  BY <1>1, QueriesOf, QueriesFit

\* A step of one chat.
LEMMA OneChatFits ==
  ASSUME CopyInv, UNCHANGED <<server, demoStore, demoRoute, requests, demoLeft>>,
         NEW k \in Copy!Keys, NEW q \in ChatQuery, cache' = [cache EXCEPT !.chat[k] = q],
         Copy!Distinct(server.messages[k]) =>
           Reads(q, Copy!OpenChat(k), ChatIs(Len(server.messages[k])))
  PROVE  CopyInv'
<1>1. /\ cache' \in Cache /\ cache'.timeline = cache.timeline /\ cache'.list = cache.list
      /\ cache'.chat[k] = q
      /\ \A j \in Copy!Keys : j # k => cache'.chat[j] = cache.chat[j]
  BY CacheChat DEF CopyInv, CopyType
<1> QED
  BY <1>1, QueriesOf, QueriesFit

\* A poll asks the query that is in use.
LEMMA StepPoll == ASSUME CopyInv, Copy!Poll PROVE CopyInv'
<1>0. CopyType /\ cache \in Cache /\ UNCHANGED <<server, demoStore, demoRoute, requests, demoLeft>>
  BY DEF CopyInv, CopyType, Copy!Poll
<1>1. CASE demoRoute.acc # None /\ cache' = [cache EXCEPT !.list[demoRoute.acc] = Copy!Asked(@)]
  <2> DEFINE a == demoRoute.acc
             q == Copy!Asked(cache.list[a])
  <2>1. a \in DemoAccs
    BY <1>0, <1>1, RouteIs
  <2>2. cache.list[a] \in Paged(ListPages)
    BY <1>0, <2>1, CopyHas DEF ListQuery
  <2>3. /\ q \in Paged(ListPages)
        /\ \A active, open \in BOOLEAN : \A G :
             Reads(cache.list[a], active, G) => Reads(q, open, G)
    BY <2>2, AskedIs
  <2>4. cache' = [cache EXCEPT !.list[a] = q]
    BY <1>1
  <2> HIDE DEF q, a
  <2>5. Reads(q, Copy!InAccount(a), ListIs(a)) /\ q \in ListQuery
    BY <2>1, <2>3, QueriesOf, InUse DEF ListQuery
  <2> QED
    BY <1>0, <2>1, <2>4, <2>5, OneListFits
<1>2. CASE /\ demoRoute.page = "contact"
           /\ cache' = [cache EXCEPT !.timeline[<<demoRoute.acc, demoRoute.cid>>] = Copy!Busy(@)]
  <2> DEFINE k == <<demoRoute.acc, demoRoute.cid>>
             q == Copy!Busy(cache.timeline[k])
  <2>1. k \in Copy!Keys
    BY <1>0, <1>2, RouteIs
  <2>2. q \in TimelineQuery /\ q.data = cache.timeline[k].data /\ q.busy
    BY <1>0, <2>1, CopyHas, Operations
  <2>3. cache' = [cache EXCEPT !.timeline[k] = q]
    BY <1>2
  <2> HIDE DEF q, k
  <2>4. /\ cache' \in Cache /\ cache'.list = cache.list /\ cache'.chat = cache.chat
        /\ cache'.timeline[k] = q
        /\ \A j \in Copy!Keys : j # k => cache'.timeline[j] = cache.timeline[j]
    BY <1>0, <2>1, <2>2, <2>3, CacheTimeline
  <2> QED
    BY <1>0, <2>2, <2>4, QueriesOf, QueriesFit
<1> QED
  BY <1>1, <1>2 DEF Copy!Poll

\* The button for more contacts.
LEMMA StepMore == ASSUME CopyInv, NEW a \in DemoAccs, Copy!More(a) PROVE CopyInv'
<1>0. /\ CopyType /\ UNCHANGED <<server, demoStore, demoRoute, requests, demoLeft>>
      /\ Copy!InAccount(a)
  BY DEF CopyInv, Copy!More
<1> DEFINE l == cache.list[a]
           q == Copy!Further(l, TRUE)
<1>1. l.kind # "next" /\ cache' = [cache EXCEPT !.list[a] = q]
  BY DEF Copy!More
<1>2. l \in Paged(ListPages) /\ Reads(l, TRUE, ListIs(a))
  BY <1>0, CopyHas, QueriesOf DEF ListQuery
<1> HIDE DEF l
<1>3. q \in Paged(ListPages) /\ Reads(q, TRUE, ListIs(a))
  BY <1>1, <1>2, FurtherIs
<1> HIDE DEF q
<1>4. q \in ListQuery /\ Reads(q, Copy!InAccount(a), ListIs(a))
  BY <1>0, <1>3 DEF ListQuery
<1> QED
  BY <1>0, <1>1, <1>4, OneListFits

\* The button for older messages.
LEMMA StepLoadOlder == ASSUME CopyInv, NEW k \in Copy!Keys, Copy!LoadOlder(k) PROVE CopyInv'
<1>0. CopyType /\ UNCHANGED <<server, demoStore, demoRoute, requests, demoLeft>> /\ Copy!OpenChat(k)
  BY DEF CopyInv, Copy!LoadOlder
<1> DEFINE h == cache.chat[k]
           param == Copy!Cardinality(Copy!Last(h.pages)) = ChatSize
           q == Copy!Further(h, param)
<1>1. h.kind # "next" /\ Copy!Last(h.pages) # {} /\ cache' = [cache EXCEPT !.chat[k] = q]
  BY DEF Copy!LoadOlder
<1>2. h \in ChatQuery /\ param \in BOOLEAN
  BY <1>0, CopyHas
<1> HIDE DEF h, param
<1>3. h \in Paged(SUBSET Nat) /\ q \in ChatQuery
  BY <1>1, <1>2, ChatHas, ChatFurther
<1>4. \A G : Reads(h, TRUE, G) => Reads(q, TRUE, G)
  BY <1>1, <1>2, <1>3, FurtherIs
<1> HIDE DEF q
<1>5. Copy!Distinct(server.messages[k]) =>
        Reads(q, Copy!OpenChat(k), ChatIs(Len(server.messages[k])))
  BY <1>0, <1>4, QueriesOf DEF h
<1> QED
  BY <1>0, <1>1, <1>3, <1>5, OneChatFits

\* To an account: what its list had is put in the store.
LEMMA StepToAccount == ASSUME CopyInv, NEW a \in DemoAccs, Copy!ToAccount(a) PROVE CopyInv'
<1>0. CopyType /\ cache \in Cache /\ demoStore \in DemoStore
  BY DEF CopyInv, CopyType
<1> DEFINE l == cache.list[a]
           q == Copy!Asked(l)
<1>1. l \in Paged(ListPages)
  BY <1>0, CopyHas DEF ListQuery
<1>2. /\ q \in Paged(ListPages)
      /\ \A active, open \in BOOLEAN : \A G : Reads(l, active, G) => Reads(q, open, G)
  BY <1>1, AskedIs
<1>3. cache' = [cache EXCEPT !.list[a] = q]
  BY DEF Copy!ToAccount
<1> HIDE DEF q
<1>4. /\ cache' \in Cache /\ cache'.timeline = cache.timeline /\ cache'.chat = cache.chat
      /\ cache'.list[a] = q /\ \A b \in DemoAccs : b # a => cache'.list[b] = cache.list[b]
  BY <1>0, <1>2, <1>3, CacheList DEF ListQuery
<1>5. demoStore' \in DemoStore /\ demoStore'.ws = demoStore.ws /\ demoStore'.last = demoStore.last
  <2>1. demoStore' = Copy!UpsertAll(demoStore, l.pages, TRUE)
    BY DEF Copy!ToAccount
  <2>2. l.pages \in Seq(ListPages)
    BY <1>1, PagedHas
  <2> QED
    BY <1>0, <2>1, <2>2, UpsertAllIs
<1>6. /\ demoRoute' \in Route /\ demoRoute'.acc = a /\ demoRoute'.page = "account"
      /\ server' = server /\ requests' = requests /\ demoLeft' = demoLeft
      /\ \A b \in DemoAccs : Copy!InAccount(b)' = (b = a)
      /\ \A k : Copy!OpenContact(k)' = FALSE /\ Copy!OpenChat(k)' = FALSE
  BY DEF Copy!ToAccount, Route, Copy!InAccount, Copy!OpenContact, Copy!OpenChat
<1>7. CopyType'
  BY <1>0, <1>4, <1>5, <1>6 DEF CopyType
<1>8. Disjoint' /\ EntriesFit' /\ TrackingFits'
  BY <1>4, <1>5, <1>6 DEF CopyInv, Disjoint, EntriesFit, TrackingFits
<1>9. ListFits'
  <2> SUFFICES ASSUME NEW b \in DemoAccs PROVE Reads(cache'.list[b], b = a, ListIs(b))
    BY <1>6, SameList DEF ListFits
  <2>1. Reads(cache.list[b], Copy!InAccount(b), ListIs(b))
    BY QueriesOf
  <2>2. CASE b = a
    BY <1>2, <1>4, <2>1, <2>2, InUse
  <2>3. CASE b # a
    <3>1. Reads(cache.list[b], FALSE, ListIs(b))
      BY <2>1, InUse, Unused
    <3> QED
      BY <1>4, <2>3, <3>1
  <2> QED
    BY <2>2, <2>3
<1>10. ChatFits'
  <2> SUFFICES ASSUME NEW k \in Copy!Keys, Copy!Distinct(server.messages[k])
               PROVE  Reads(cache.chat[k], FALSE, ChatIs(Len(server.messages[k])))
    BY <1>4, <1>6 DEF ChatFits
  <2> QED
    BY QueriesOf, InUse, Unused
<1> QED
  BY <1>7, <1>8, <1>9, <1>10 DEF CopyInv

\* To the messages of the contact.
LEMMA StepToMessages == ASSUME CopyInv, Copy!ToMessages PROVE CopyInv'
<1>0. CopyType /\ cache \in Cache
  BY DEF CopyInv, CopyType
<1> DEFINE k == <<demoRoute.acc, demoRoute.cid>>
           h == cache.chat[k]
           q == Copy!Asked(h)
<1>1. k \in Copy!Keys /\ demoRoute.page = "contact"
  BY <1>0, RouteIs DEF Copy!ToMessages
<1>2. h \in ChatQuery
  BY <1>0, <1>1, CopyHas
<1>3. cache' = [cache EXCEPT !.chat[k] = q]
  BY DEF Copy!ToMessages
<1>4. /\ demoRoute' \in Route /\ demoRoute'.acc = demoRoute.acc /\ demoRoute'.page = "messages"
      /\ server' = server /\ demoStore' = demoStore /\ demoLeft' = demoLeft
      /\ \A a : Copy!InAccount(a)' = Copy!InAccount(a)
      /\ \A j : Copy!OpenContact(j)' = FALSE /\ Copy!OpenChat(j)' = (k = j)
  BY <1>0 DEF Copy!ToMessages, Route, CopyType, Copy!InAccount, Copy!OpenContact, Copy!OpenChat
<1> HIDE DEF k, h
<1>5. /\ q \in ChatQuery
      /\ \A active, open \in BOOLEAN : \A G : Reads(h, active, G) => Reads(q, open, G)
  BY <1>2, ChatHas, ChatOperations, AskedIs
<1> HIDE DEF q
<1>6. /\ cache' \in Cache /\ cache'.list = cache.list /\ cache'.timeline = cache.timeline
      /\ cache'.chat[k] = q
      /\ \A j \in Copy!Keys : j # k => cache'.chat[j] = cache.chat[j]
  BY <1>0, <1>1, <1>3, <1>5, CacheChat
<1>7. requests' \in SUBSET Write
  <2>1. \A r \in requests : (r.own /\ r.op = "create") \in BOOLEAN /\ r \in Write
    BY <1>0 DEF CopyType
  <2> QED
    BY <2>1, Rehandled DEF Copy!ToMessages
<1>8. CopyType'
  BY <1>0, <1>4, <1>6, <1>7 DEF CopyType
<1>9. Disjoint' /\ EntriesFit' /\ TrackingFits'
  BY <1>4, <1>6 DEF CopyInv, Disjoint, EntriesFit, TrackingFits
<1>10. ListFits'
  BY <1>4, <1>6, SameList, QueriesOf DEF ListFits
<1>11. ChatFits'
  <2> SUFFICES ASSUME NEW j \in Copy!Keys, Copy!Distinct(server.messages[j])
               PROVE  Reads(cache'.chat[j], k = j, ChatIs(Len(server.messages[j])))
    BY <1>4 DEF ChatFits
  <2>1. Reads(cache.chat[j], Copy!OpenChat(j), ChatIs(Len(server.messages[j])))
    BY QueriesOf
  <2>2. CASE j = k
    BY <1>5, <1>6, <2>1, <2>2, InUse DEF h
  <2>3. CASE j # k
    <3>1. Reads(cache.chat[j], FALSE, ChatIs(Len(server.messages[j])))
      BY <2>1, InUse, Unused
    <3> QED
      BY <1>6, <2>3, <3>1
  <2> QED
    BY <2>2, <2>3
<1> QED
  BY <1>8, <1>9, <1>10, <1>11 DEF CopyInv

\* To a contact: its effects run with what the cache has.
LEMMA StepToContact == ASSUME CopyInv, NEW c \in DemoIds, Copy!ToContact(c) PROVE CopyInv'
<1>0. CopyType /\ cache \in Cache /\ demoStore \in DemoStore
  BY DEF CopyInv, CopyType
<1> DEFINE k == <<demoRoute.acc, c>>
           q == Copy!Busy(cache.timeline[k])
<1>1. demoRoute.acc \in DemoAccs /\ k \in Copy!Keys /\ k[1] = demoRoute.acc /\ k[2] = c
  BY <1>0, RouteIs, CopyHas DEF Copy!ToContact
<1>2. q \in TimelineQuery /\ q.data = cache.timeline[k].data /\ q.busy
  BY <1>0, <1>1, CopyHas, Operations
<1>3. cache' = [cache EXCEPT !.timeline[k] = q]
  BY DEF Copy!ToContact
<1> HIDE DEF q
<1>4. /\ cache' \in Cache /\ cache'.list = cache.list /\ cache'.chat = cache.chat
      /\ cache'.timeline[k] = q
      /\ \A j \in Copy!Keys : j # k => cache'.timeline[j] = cache.timeline[j]
  <2> HIDE DEF k
  <2> QED
    BY <1>0, <1>1, <1>2, <1>3, CacheTimeline
<1>6. /\ demoStore' \in DemoStore
      /\ q.data # None => /\ c \in DOMAIN demoStore'.contacts
                          /\ demoStore'.contacts[c] = q.data.on
      /\ \A j \in Copy!Keys : EntryFits(server.entries[j], demoStore'.last[j], demoStore'.ws[j],
                                        cache.timeline[j].data)
  <2> DEFINE tl == cache.timeline[k].data
  <2>1. CASE tl = None
    BY <1>0, <1>2, <2>1 DEF Copy!ToContact, CopyInv, EntriesFit
  <2>2. CASE tl # None
    <3>1. demoStore' = Copy!Effects(demoStore, k, tl)
      BY <2>2 DEF Copy!ToContact
    <3>2. tl \in TL /\ server.entries[k] \in Nat /\ tl.on \in BOOLEAN
      BY <1>0, <1>1, <2>2, CopyHas DEF TimelineQuery, TL
    <3>3. \A j \in Copy!Keys : EntryFits(server.entries[j], demoStore.last[j], demoStore.ws[j],
                                         cache.timeline[j].data)
      BY DEF CopyInv, EntriesFit
    <3> DEFINE t == Copy!Effects(demoStore, k, tl)
    <3> HIDE DEF k
    <3>4. /\ t \in DemoStore
          /\ t.contacts = Copy!Put(demoStore.contacts, k[2], tl.on)
          /\ EntryFits(server.entries[k], t.last[k], t.ws[k], tl)
          /\ \A j \in Copy!Keys :
               j # k => t.last[j] = demoStore.last[j] /\ t.ws[j] = demoStore.ws[j]
      BY <1>0, <1>1, <3>2, <3>3, EffectsFit
    <3> HIDE DEF t
    <3>5. demoStore' = t
      BY <3>1 DEF t
    <3>6. c \in DOMAIN t.contacts /\ t.contacts[c] = tl.on
      <4> DEFINE f == Copy!Put(demoStore.contacts, c, tl.on)
      <4>1. c \in DOMAIN f
        <5>1. DOMAIN f = DOMAIN demoStore.contacts \cup {c}
          BY PutDomain
        <5> HIDE DEF f
        <5> QED
          BY <5>1
      <4>2. f[c] = tl.on
        BY PutAt
      <4>3. t.contacts = f
        BY <1>1, <3>4
      <4> HIDE DEF f
      <4> QED
        BY <4>1, <4>2, <4>3
    <3> QED
      BY <1>1, <1>2, <3>3, <3>4, <3>5, <3>6
  <2> QED
    BY <2>1, <2>2
<1>7. /\ demoRoute' \in Route /\ demoRoute'.acc = demoRoute.acc /\ demoRoute'.page = "contact"
      /\ demoRoute'.cid = c /\ server' = server /\ demoLeft' = demoLeft
      /\ \A a : Copy!InAccount(a)' = Copy!InAccount(a)
      /\ \A j : Copy!OpenChat(j)' = FALSE
  BY <1>0, <1>1 DEF Copy!ToContact, Route, CopyType, Copy!InAccount, Copy!OpenChat
<1>8. requests' \in SUBSET Write
  <2>1. \A r \in requests : [r EXCEPT !.cid = IF r.own /\ r.op \in {"toggle", "delete"}
                                              THEN c ELSE @] \in Write
    <3> TAKE r \in requests
    <3>1. r \in Write
      BY <1>0 DEF CopyType
    <3>2. CASE r.own /\ r.op \in {"toggle", "delete"}
      BY <3>1, <3>2, Rehandled
    <3>3. CASE ~(r.own /\ r.op \in {"toggle", "delete"})
      <4>1. [r EXCEPT !.cid = IF r.own /\ r.op \in {"toggle", "delete"} THEN c ELSE @] = r
        BY <3>1, <3>3 DEF Write
      <4> QED
        BY <3>1, <4>1
    <3> QED
      BY <3>2, <3>3
  <2> QED
    BY <2>1 DEF Copy!ToContact
<1>9. CopyType'
  BY <1>0, <1>4, <1>6, <1>7, <1>8 DEF CopyType
<1>10. Disjoint' /\ ListFits'
  BY <1>4, <1>7, SameList, QueriesOf DEF CopyInv, Disjoint, ListFits
<1>11. EntriesFit'
  <2>1. \A j \in Copy!Keys : cache'.timeline[j].data = cache.timeline[j].data
    BY <1>2, <1>4
  <2> QED
    BY <1>6, <1>7, <2>1 DEF EntriesFit
<1>12. ChatFits'
  <2> SUFFICES ASSUME NEW j \in Copy!Keys, Copy!Distinct(server.messages[j])
               PROVE  Reads(cache.chat[j], FALSE, ChatIs(Len(server.messages[j])))
    BY <1>4, <1>7 DEF ChatFits
  <2> QED
    BY QueriesOf, InUse, Unused
<1>13. TrackingFits'
  <2> SUFFICES ASSUME NEW j \in Copy!Keys, Copy!OpenContact(j)', cache'.timeline[j].data # None
               PROVE  Tracked(j[2], demoStore'.contacts, cache'.timeline[j],
                              server'.contacts[j[1]][j[2]])
    BY DEF TrackingFits
  <2>1. j = k
    BY <1>7 DEF Copy!OpenContact
  <2> QED
    BY <1>1, <1>2, <1>4, <1>6, <2>1 DEF Tracked
<1> QED
  BY <1>9, <1>10, <1>11, <1>12, <1>13 DEF CopyInv

-----------------------------------------------------------------------------
\* The simulators.

\* An invalidated query fits, whatever the server has now.
LEMMA AgainFits ==
  /\ \A l \in ListQuery, active \in BOOLEAN :
       Copy!Again(l, active) \in ListQuery /\ \A G : Reads(Copy!Again(l, active), active, G)
  /\ \A h \in ChatQuery, active \in BOOLEAN :
       Copy!Again(h, active) \in ChatQuery /\ \A G : Reads(Copy!Again(h, active), active, G)
<1>1. ASSUME NEW l \in ListQuery, NEW active \in BOOLEAN
      PROVE  Copy!Again(l, active) \in ListQuery /\ \A G : Reads(Copy!Again(l, active), active, G)
  BY AgainIs DEF ListQuery
<1>2. ASSUME NEW h \in ChatQuery, NEW active \in BOOLEAN
      PROVE  Copy!Again(h, active) \in ChatQuery /\ \A G : Reads(Copy!Again(h, active), active, G)
  BY ChatHas, ChatOperations, AgainIs
<1> QED
  BY <1>1, <1>2

\* A second of now, whatever the last message's.
LEMMA TimesAre == \A m \in Seq(Nat) : Copy!Times(m) \subseteq Nat
<1> SUFFICES ASSUME NEW m \in Seq(Nat) PROVE Copy!Times(m) \subseteq Nat
  OBVIOUS
<1>1. m # <<>> => Copy!Last(m) \in Nat
  BY DEF Copy!Last
<1> QED
  BY <1>1 DEF Copy!Times

\* The feed has a message for a contact.
LEMMA StepFireMessage == ASSUME CopyInv, Copy!FireMessage PROVE CopyInv'
<1>0. CopyType /\ cache \in Cache /\ server \in Server /\ First \in DemoAccs
  BY CopyConstants DEF CopyInv, CopyType
<1>1. demoLeft' \in Nat /\ UNCHANGED <<demoStore, demoRoute, requests>>
  BY <1>0, Counts DEF Copy!FireMessage
<1>2. CASE UNCHANGED <<server, cache>>
  <2>1. CopyType'
    BY <1>0, <1>1, <1>2 DEF CopyType
  <2>2. Disjoint' /\ EntriesFit' /\ TrackingFits'
    BY <1>1, <1>2 DEF CopyInv, Disjoint, EntriesFit, TrackingFits, Copy!OpenContact
  <2>3. ListFits' /\ ChatFits'
    BY <1>1, <1>2, SameList DEF CopyInv, ListFits, ChatFits, Copy!InAccount, Copy!OpenChat
  <2> QED
    BY <2>1, <2>2, <2>3 DEF CopyInv
<1>3. CASE ~UNCHANGED <<server, cache>>
  <2>1. PICK c \in DOMAIN server.contacts[First] :
          LET k == <<First, c>>
          IN /\ \E t \in Copy!Times(server.messages[k]) :
                  server' = [server EXCEPT !.messages[k] = Append(@, t)]
             /\ cache' = [cache EXCEPT
                  !.list[First] = Copy!Again(@, Copy!InAccount(First)),
                  !.timeline[k] = Copy!Invalidated(@, Copy!OpenContact(k)),
                  !.chat[k] = Copy!Again(@, Copy!OpenChat(k))]
    BY <1>3 DEF Copy!FireMessage
  <2> DEFINE k == <<First, c>>
             q == Copy!Again(cache.list[First], Copy!InAccount(First))
             p == Copy!Invalidated(cache.timeline[k], Copy!OpenContact(k))
             h == Copy!Again(cache.chat[k], Copy!OpenChat(k))
             d == [cache EXCEPT !.list[First] = q]
             e == [d EXCEPT !.timeline[k] = p]
  <2>2. k \in Copy!Keys
    BY <1>0, CopyHas, ContactListIs
  <2>3. PICK t \in Copy!Times(server.messages[k]) :
          server' = [server EXCEPT !.messages[k] = Append(server.messages[k], t)]
    BY <2>1
  <2> DEFINE m == Append(server.messages[k], t)
  <2>4. m \in Seq(Nat) /\ server' = [server EXCEPT !.messages[k] = m]
    <3>1. server.messages[k] \in Seq(Nat) /\ t \in Nat
      BY <1>0, <2>2, CopyHas, TimesAre
    <3> QED
      BY <2>3, <3>1
  <2>5. /\ q \in ListQuery /\ \A G : Reads(q, Copy!InAccount(First), G)
    BY <1>0, InUse, CopyHas, AgainFits
  <2>6. /\ p \in TimelineQuery /\ p.data = cache.timeline[k].data
        /\ cache.timeline[k].busy => p.busy
    <3>1. cache.timeline[k] \in TimelineQuery
      BY <1>0, <2>2, CopyHas
    <3>2. Copy!OpenContact(k) \in BOOLEAN
      BY InUse
    <3> HIDE DEF k
    <3> QED
      BY ONLY <3>1, <3>2, Operations
  <2>7. /\ h \in ChatQuery /\ \A G : Reads(h, Copy!OpenChat(k), G)
    <3>1. cache.chat[k] \in ChatQuery
      BY <1>0, <2>2, CopyHas
    <3> HIDE DEF k
    <3> QED
      BY InUse, <3>1, AgainFits
  <2>8. cache' = [e EXCEPT !.chat[k] = h]
    BY <2>1
  <2> HIDE DEF k, m, q, p, h
  <2>9. /\ server' \in Server /\ server'.contacts = server.contacts
        /\ server'.entries = server.entries
        /\ \A j \in Copy!Keys : j # k => server'.messages[j] = server.messages[j]
    BY <1>0, <2>2, <2>4, ServerMessages
  <2>10. /\ d \in Cache /\ d.timeline = cache.timeline /\ d.chat = cache.chat /\ d.list[First] = q
         /\ \A b \in DemoAccs : b # First => d.list[b] = cache.list[b]
    BY <1>0, <2>5, CacheList
  <2> HIDE DEF d
  <2>11. /\ e \in Cache /\ e.list = d.list /\ e.chat = d.chat /\ e.timeline[k] = p
         /\ \A j \in Copy!Keys : j # k => e.timeline[j] = d.timeline[j]
    BY <2>2, <2>6, <2>10, CacheTimeline
  <2> HIDE DEF e
  <2>12. /\ cache' \in Cache /\ cache'.list = e.list /\ cache'.timeline = e.timeline
         /\ cache'.chat[k] = h
         /\ \A j \in Copy!Keys : j # k => cache'.chat[j] = e.chat[j]
    BY <2>2, <2>7, <2>8, <2>11, CacheChat
  <2>13. \A b \in DemoAccs : Reads(cache'.list[b], Copy!InAccount(b), ListIs(b))
    BY <2>5, <2>10, <2>11, <2>12, QueriesOf
  <2>14. \A j \in Copy!Keys : cache'.timeline[j].data = cache.timeline[j].data
                              /\ (cache.timeline[j].busy => cache'.timeline[j].busy)
    BY <2>6, <2>10, <2>11, <2>12
  <2>15. CopyType'
    BY <1>0, <1>1, <2>9, <2>12 DEF CopyType
  <2>16. Disjoint' /\ ListFits'
    BY <1>1, <2>9, <2>13, SameList DEF CopyInv, Disjoint, ListFits, Copy!InAccount
  <2>17. ChatFits'
    <3> SUFFICES ASSUME NEW j \in Copy!Keys, Copy!Distinct(server'.messages[j])
                 PROVE  Reads(cache'.chat[j], Copy!OpenChat(j), ChatIs(Len(server'.messages[j])))
      BY <1>1 DEF ChatFits, Copy!OpenChat
    <3>1. CASE j = k
      BY <2>7, <2>12, <3>1
    <3>2. CASE j # k
      BY <2>9, <2>10, <2>11, <2>12, <3>2, QueriesOf
    <3> QED
      BY <3>1, <3>2
  <2>18. EntriesFit'
    BY <1>1, <2>9, <2>14 DEF CopyInv, EntriesFit
  <2>19. TrackingFits'
    BY <1>1, <2>9, <2>14 DEF CopyInv, TrackingFits, Tracked, Copy!OpenContact
  <2> QED
    BY <2>15, <2>16, <2>17, <2>18, <2>19 DEF CopyInv
<1> QED
  BY <1>2, <1>3

\* The feed has a presence for a contact: an entry, an event and the last.
LEMMA StepFirePresence ==
  ASSUME CopyInv, NEW a \in DemoAccs, Copy!FirePresence(a)
  PROVE  CopyInv'
<1>0. CopyType /\ cache \in Cache /\ server \in Server /\ demoStore \in DemoStore
  BY DEF CopyInv, CopyType
<1>1. demoLeft' \in Nat /\ UNCHANGED <<demoRoute, requests>>
  BY <1>0, Counts DEF Copy!FirePresence
<1>2. CASE UNCHANGED <<server, cache, demoStore>>
  <2>1. CopyType'
    BY <1>0, <1>1, <1>2 DEF CopyType
  <2>2. Disjoint' /\ EntriesFit' /\ TrackingFits'
    BY <1>1, <1>2 DEF CopyInv, Disjoint, EntriesFit, TrackingFits, Copy!OpenContact
  <2>3. ListFits' /\ ChatFits'
    BY <1>1, <1>2, SameList DEF CopyInv, ListFits, ChatFits, Copy!InAccount, Copy!OpenChat
  <2> QED
    BY <2>1, <2>2, <2>3 DEF CopyInv
<1>3. CASE ~UNCHANGED <<server, cache, demoStore>>
  <2>1. PICK c \in DOMAIN server.contacts[a] :
          LET k == <<a, c>>
              n == server.entries[k] + 1
          IN /\ server' = [server EXCEPT !.entries[k] = n]
             /\ demoStore' = Copy!SetLast(Copy!AddEntry(demoStore, k, n), k, n)
             /\ cache' = [cache EXCEPT !.list[a] = Copy!Again(@, Copy!InAccount(a)),
                                       !.timeline[k] = Copy!Invalidated(@, Copy!OpenContact(k))]
    BY <1>3 DEF Copy!FirePresence
  <2> DEFINE k == <<a, c>>
             n == server.entries[k] + 1
             q == Copy!Again(cache.list[a], Copy!InAccount(a))
             p == Copy!Invalidated(cache.timeline[k], Copy!OpenContact(k))
             d == [cache EXCEPT !.list[a] = q]
             E == demoStore.ws[k] \cup {n}
             s == [demoStore EXCEPT !.ws[k] = E]
  <2>2. k \in Copy!Keys
    BY <1>0, CopyHas, ContactListIs
  <2>4. /\ server.entries[k] \in Nat /\ n \in Nat /\ n = server.entries[k] + 1
        /\ server' = [server EXCEPT !.entries[k] = n]
    BY <1>0, <2>1, <2>2, CopyHas
  <2>5. q \in ListQuery /\ \A G : Reads(q, Copy!InAccount(a), G)
    BY <1>0, InUse, CopyHas, AgainFits
  <2>6. /\ p \in TimelineQuery /\ p.data = cache.timeline[k].data
        /\ cache.timeline[k].busy => p.busy
    <3>1. cache.timeline[k] \in TimelineQuery
      BY <1>0, <2>2, CopyHas
    <3>2. Copy!OpenContact(k) \in BOOLEAN
      BY InUse
    <3> HIDE DEF k
    <3> QED
      BY ONLY <3>1, <3>2, Operations
  <2>7. cache' = [d EXCEPT !.timeline[k] = p]
    BY <2>1
  <2>8. demoStore' = IF s.last[k] # None /\ s.last[k] >= n THEN s ELSE [s EXCEPT !.last[k] = n]
    BY <2>1 DEF Copy!SetLast, Copy!AddEntry
  <2>9. demoStore.ws[k] \in SUBSET Nat
    BY <1>0, <2>2, CopyHas
  <2> HIDE DEF k, n, q, p
  <2>10. /\ server' \in Server /\ server'.contacts = server.contacts
         /\ server'.messages = server.messages /\ server'.entries[k] = n
         /\ \A j \in Copy!Keys : j # k => server'.entries[j] = server.entries[j]
    BY <1>0, <2>2, <2>4, ServerEntries
  <2>11. /\ d \in Cache /\ d.timeline = cache.timeline /\ d.chat = cache.chat /\ d.list[a] = q
         /\ \A b \in DemoAccs : b # a => d.list[b] = cache.list[b]
    BY <1>0, <2>5, CacheList
  <2> HIDE DEF d
  <2>12. /\ cache' \in Cache /\ cache'.list = d.list /\ cache'.chat = d.chat
         /\ cache'.timeline[k] = p
         /\ \A j \in Copy!Keys : j # k => cache'.timeline[j] = d.timeline[j]
    BY <2>2, <2>6, <2>7, <2>11, CacheTimeline
  <2>13. E \in SUBSET Nat
    BY <2>4, <2>9
  <2> HIDE DEF E
  <2>14. /\ s \in DemoStore /\ s.contacts = demoStore.contacts /\ s.stale = demoStore.stale
         /\ s.last = demoStore.last
         /\ s.ws[k] = E /\ \A j \in Copy!Keys : j # k => s.ws[j] = demoStore.ws[j]
    BY <1>0, <2>2, <2>13, StoreWs
  <2> HIDE DEF s
  <2>15. EntryFits(server.entries[k], demoStore.last[k], demoStore.ws[k], cache.timeline[k].data)
    BY <2>2 DEF CopyInv, EntriesFit
  <2>16. ~(s.last[k] # None /\ s.last[k] >= n)
    BY <2>4, <2>14, <2>15, CopyConstants DEF EntryFits
  <2>17. /\ demoStore' \in DemoStore /\ demoStore'.contacts = demoStore.contacts
         /\ demoStore'.stale = demoStore.stale
         /\ demoStore'.ws = s.ws /\ demoStore'.last[k] = n
         /\ \A j \in Copy!Keys : j # k => demoStore'.last[j] = s.last[j]
    BY <2>2, <2>4, <2>8, <2>14, <2>16, StoreLast
  <2>18. \A b \in DemoAccs : Reads(cache'.list[b], Copy!InAccount(b), ListIs(b))
    BY <2>5, <2>11, <2>12, QueriesOf
  <2>19. \A j \in Copy!Keys : cache'.timeline[j].data = cache.timeline[j].data
                              /\ (cache.timeline[j].busy => cache'.timeline[j].busy)
    BY <2>6, <2>11, <2>12
  <2>20. CopyType'
    BY <1>0, <1>1, <2>10, <2>12, <2>17 DEF CopyType
  <2>21. Disjoint' /\ ListFits' /\ ChatFits'
    BY <1>1, <2>10, <2>11, <2>12, <2>18, SameList DEF CopyInv, Disjoint, ListFits, ChatFits,
       Copy!InAccount, Copy!OpenChat
  <2>22. EntriesFit'
    <3> SUFFICES ASSUME NEW j \in Copy!Keys
                 PROVE  EntryFits(server'.entries[j], demoStore'.last[j], demoStore'.ws[j],
                                  cache'.timeline[j].data)
      BY DEF EntriesFit
    <3>1. CASE j # k
      BY <2>10, <2>14, <2>17, <2>19, <3>1 DEF CopyInv, EntriesFit
    <3>2. CASE j = k
      <4> DEFINE m == server.entries[k]
      <4>1. E \subseteq 1..n
        BY <2>4, <2>15 DEF EntryFits, E
      <4>2. ASSUME cache.timeline[k].data # None
            PROVE  cache.timeline[k].data.n <= n /\ 1..cache.timeline[k].data.n \cup E = 1..n
        <5>1. cache.timeline[k].data.n \in Nat
          BY <1>0, <2>2, <4>2, CopyHas DEF TimelineQuery, TL
        <5>2. /\ cache.timeline[k].data.n <= m
              /\ 1..cache.timeline[k].data.n \cup demoStore.ws[k] = 1..m
          BY <2>15, <4>2 DEF EntryFits
        <5> QED
          BY <2>4, <5>1, <5>2 DEF E
      <4> QED
        BY <2>10, <2>14, <2>17, <2>19, <3>2, <4>1, <4>2 DEF EntryFits
    <3> QED
      BY <3>1, <3>2
  <2>23. TrackingFits'
    BY <1>1, <2>10, <2>17, <2>19 DEF CopyInv, TrackingFits, Tracked, Copy!OpenContact
  <2> QED
    BY <2>20, <2>21, <2>22, <2>23 DEF CopyInv
<1> QED
  BY <1>2, <1>3

-----------------------------------------------------------------------------
\* The queries' answers.

\* A page of a list arrives.
LEMMA StepListContacts ==
  ASSUME CopyInv, NEW a \in DemoAccs, Copy!ListContacts(a)
  PROVE  CopyInv'
<1>0. /\ CopyType /\ cache \in Cache /\ demoStore \in DemoStore
      /\ server.contacts[a] \in ContactLists /\ demoStore.contacts \in ContactLists
  BY CopyHas DEF CopyInv, CopyType
<1>1. UNCHANGED <<server, demoRoute, requests, demoLeft>>
  BY DEF Copy!ListContacts
<1> DEFINE l == cache.list[a]
           before == Copy!Had(l)
           new == Copy!ListPage(a, Len(before) + 1)
           had == Append(before, new)
           more == Copy!HasNext(had)
           q == Copy!Given(l, new, more)
           f == Copy!Listed(q.pages)
           g == Copy!PutAll(demoStore.contacts, f)
           stale == IF q.cut THEN demoStore.stale \cup DOMAIN f ELSE demoStore.stale \ DOMAIN f
<1>2. /\ l.kind # "idle" /\ cache' = [cache EXCEPT !.list[a] = q]
      /\ demoStore' = IF Copy!InAccount(a) /\ q.pages # l.pages
                      THEN Copy!UpsertAll(demoStore, q.pages, q.cut) ELSE demoStore
  BY DEF Copy!ListContacts
<1>3. l \in Paged(ListPages) /\ Reads(l, Copy!InAccount(a), ListIs(a))
  BY <1>0, CopyHas, QueriesOf DEF ListQuery
<1>4. Len(before) + 1 \in Nat
  <2>1. before \in Seq(ListPages)
    BY <1>2, <1>3, HadIs
  <2> QED
    BY <2>1
<1>5. new \in ListPages /\ new = ListIs(a)[Len(before) + 1] /\ more \in BOOLEAN
  <2> HIDE DEF before
  <2>1. new \in ListPages
    BY <1>0, <1>4, ListPageIs
  <2>2. new = ListIs(a)[Len(before) + 1]
    BY <1>4 DEF ListIs
  <2>3. more \in BOOLEAN
    BY DEF Copy!HasNext
  <2> QED
    BY <2>1, <2>2, <2>3
<1>6. /\ q \in Paged(ListPages)
      /\ q.pages = had \/ q.pages = l.pages
      /\ Reads(q, Copy!InAccount(a), ListIs(a))
      /\ ~q.cut /\ q.pages = had => \A i \in DOMAIN q.pages : q.pages[i] = ListIs(a)[i]
  <2> HIDE DEF more, new
  <2>1. /\ q \in Paged(ListPages)
        /\ q.pages = had \/ q.pages = l.pages
    BY <1>2, <1>3, <1>5, GivenIs
  <2>2. Copy!InAccount(a) \in BOOLEAN
    BY InUse
  <2>3. /\ Reads(q, Copy!InAccount(a), ListIs(a))
        /\ ~q.cut /\ q.pages = had => \A i \in DOMAIN q.pages : q.pages[i] = ListIs(a)[i]
    BY <1>2, <1>3, <1>5, <2>2, GivenIs
  <2> QED
    BY <2>1, <2>3
<1> HIDE DEF q, had, more
<1>7. /\ cache' \in Cache /\ cache'.timeline = cache.timeline /\ cache'.chat = cache.chat
      /\ cache'.list[a] = q /\ \A b \in DemoAccs : b # a => cache'.list[b] = cache.list[b]
  BY <1>0, <1>2, <1>6, CacheList DEF ListQuery
<1>8. q.pages \in Seq(ListPages) /\ q.cut \in BOOLEAN
  BY <1>6, PagedHas
<1>9. /\ f \in ContactLists
      /\ \A c \in DOMAIN f : \E i \in DOMAIN q.pages : c \in DOMAIN q.pages[i].contacts
                                                       /\ f[c] = q.pages[i].contacts[c]
  BY <1>8, ListedIs
<1>10. LET t == Copy!UpsertAll(demoStore, q.pages, q.cut)
       IN t \in DemoStore /\ t.contacts = g /\ t.stale = stale /\ t.ws = demoStore.ws
          /\ t.last = demoStore.last
  BY <1>0, <1>8, UpsertAllIs
<1> HIDE DEF f
<1>11. /\ \A d \in DOMAIN f : d \in DOMAIN g /\ g[d] = f[d]
       /\ \A d : d \notin DOMAIN f =>
            /\ d \in DOMAIN g <=> d \in DOMAIN demoStore.contacts
            /\ d \in DOMAIN demoStore.contacts => g[d] = demoStore.contacts[d]
  BY <1>0, <1>9, PutAllContacts
<1> HIDE DEF g
<1>12. /\ demoStore' \in DemoStore /\ demoStore'.ws = demoStore.ws
       /\ demoStore'.last = demoStore.last
       /\ \/ demoStore' = demoStore
          \/ /\ Copy!InAccount(a) /\ q.pages = had
             /\ demoStore'.contacts = g /\ demoStore'.stale = stale
  BY <1>0, <1>2, <1>6, <1>10
<1>13. CopyType'
  BY <1>0, <1>1, <1>7, <1>12 DEF CopyType
<1>14. Disjoint' /\ ChatFits' /\ EntriesFit'
  BY <1>1, <1>7, <1>12 DEF CopyInv, Disjoint, ChatFits, EntriesFit, Copy!OpenChat
<1>15. ListFits'
  <2>1. \A b \in DemoAccs : Reads(cache'.list[b], Copy!InAccount(b), ListIs(b))
    BY <1>6, <1>7, QueriesOf
  <2> QED
    BY <1>1, <2>1, SameList DEF ListFits, Copy!InAccount
<1>16. TrackingFits'
  <2> SUFFICES ASSUME NEW k \in Copy!Keys, Copy!OpenContact(k), cache.timeline[k].data # None,
                      k[2] \in DOMAIN server.contacts[k[1]], k[2] \notin demoStore'.stale
               PROVE  Tracked(k[2], demoStore'.contacts, cache.timeline[k],
                              server.contacts[k[1]][k[2]])
    BY <1>1, <1>7 DEF TrackingFits, Copy!OpenContact
  <2>1. CASE demoStore' = demoStore
    BY <2>1 DEF CopyInv, TrackingFits
  <2>2. CASE /\ Copy!InAccount(a) /\ q.pages = had
             /\ demoStore'.contacts = g /\ demoStore'.stale = stale
    <3>1. k[1] = a
      BY <2>2 DEF Copy!OpenContact, Copy!InAccount
    <3>2. CASE k[2] \in DOMAIN f
      <4>1. ~q.cut
        BY <2>2, <3>2
      <4>2. PICK i \in DOMAIN q.pages : k[2] \in DOMAIN q.pages[i].contacts
                                        /\ f[k[2]] = q.pages[i].contacts[k[2]]
        BY <1>9, <3>2
      <4>3. i \in Nat /\ q.pages[i] = Copy!ListPage(a, i)
        <5>1. i \in Nat
          BY <1>8
        <5>2. q.pages[i] = ListIs(a)[i]
          BY <1>6, <2>2, <4>1
        <5> QED
          BY <5>1, <5>2 DEF ListIs
      <4>4. f[k[2]] = server.contacts[a][k[2]]
        BY <1>0, <4>2, <4>3, ListPageIs
      <4> QED
        BY <1>11, <2>2, <3>1, <3>2, <4>4 DEF Tracked
    <3>3. CASE k[2] \notin DOMAIN f
      <4>1. k[2] \notin demoStore.stale
        BY <2>2, <3>3
      <4>2. Tracked(k[2], demoStore.contacts, cache.timeline[k], server.contacts[k[1]][k[2]])
        BY <4>1 DEF CopyInv, TrackingFits
      <4> QED
        BY <1>11, <2>2, <3>3, <4>2 DEF Tracked
    <3> QED
      BY <3>2, <3>3
  <2> QED
    BY <1>12, <2>1, <2>2
<1> QED
  BY <1>13, <1>14, <1>15, <1>16 DEF CopyInv

\* A page of messages arrives.
LEMMA StepMessages ==
  ASSUME CopyInv, NEW k \in Copy!Keys, Copy!Messages(k)
  PROVE  CopyInv'
<1>0. /\ CopyType /\ UNCHANGED <<server, demoStore, demoRoute, requests, demoLeft>>
      /\ server.messages[k] \in Seq(Nat)
  BY CopyHas DEF CopyInv, Copy!Messages
<1> DEFINE h == cache.chat[k]
           times == server.messages[k]
           n == Len(times)
           before == Copy!Had(h)
           new == Copy!Newest(times, Copy!Before(times, before))
<1>1. PICK extra \in BOOLEAN :
        cache' = [cache EXCEPT !.chat[k] =
          Copy!Given(h, new, new # {} /\ (Copy!Cardinality(new) = ChatSize \/ extra))]
  BY DEF Copy!Messages
<1> DEFINE more == new # {} /\ (Copy!Cardinality(new) = ChatSize \/ extra)
           q == Copy!Given(h, new, more)
<1>2. h \in ChatQuery /\ h.kind # "idle"
  BY <1>0, CopyHas DEF Copy!Messages
<1>3. new \in SUBSET Nat /\ more \in BOOLEAN /\ (more => new # {})
  <2>1. Copy!Before(times, before) \subseteq DOMAIN times
    BY DEF Copy!Before
  <2>2. new \subseteq Copy!Before(times, before)
    BY DEF Copy!Newest
  <2>3. DOMAIN times \subseteq Nat
    BY <1>0
  <2> HIDE DEF new, times
  <2> QED
    BY <2>1, <2>2, <2>3
<1> HIDE DEF h
<1>4. q \in ChatQuery
  <2> HIDE DEF new, more
  <2> QED
    BY <1>2, <1>3, ChatGiven
<1>5. ASSUME Copy!Distinct(times) PROVE Reads(q, Copy!OpenChat(k), ChatIs(n))
  <2> DEFINE P == SUBSET Nat
  <2>1. h \in Paged(P) /\ new \in P
    BY <1>2, <1>3, ChatHas
  <2>2. Reads(h, Copy!OpenChat(k), ChatIs(n)) /\ Copy!OpenChat(k) \in BOOLEAN
    BY <1>5, QueriesOf, InUse DEF h
  <2>3. before \in Seq(P)
    <3> HIDE DEF P
    <3> QED
      BY <1>2, <2>1, HadIs
  <2>4. ASSUME ~h.cut PROVE new = ChatIs(n)[Len(before) + 1]
    <3>1. \A i \in DOMAIN before : before[i] = ChatIs(n)[i]
      <4> HIDE DEF P, n
      <4> QED
        BY <1>2, <2>1, <2>2, <2>4, HadIs
    <3>2. before # <<>> => Copy!Last(before) # {}
      BY <1>2, ChatHas
    <3> HIDE DEF before
    <3>3. before # <<>> => Len(before) \in DOMAIN before
      BY <2>3
    <3>4. before # <<>> => Copy!Last(before) = ChatIs(n)[Len(before)]
      BY <3>1, <3>3 DEF Copy!Last
    <3> HIDE DEF times
    <3> QED
      BY <1>0, <1>5, <2>3, <3>2, <3>4, NewestIs DEF times
  <2> HIDE DEF P, new, more, n
  <2> QED
    BY <1>2, <1>3, <2>1, <2>2, <2>4, GivenIs
<1>6. cache' = [cache EXCEPT !.chat[k] = q]
  BY <1>1
<1> HIDE DEF q
<1> QED
  BY <1>0, <1>4, <1>5, <1>6, OneChatFits

\* A timeline arrives, and its effects run if its page is open.
LEMMA StepTimeline ==
  ASSUME CopyInv, NEW k \in Copy!Keys, Copy!Timeline(k)
  PROVE  CopyInv'
<1>0. /\ CopyType /\ cache \in Cache /\ demoStore \in DemoStore
      /\ cache.timeline[k] \in TimelineQuery /\ server.entries[k] \in Nat
      /\ server.contacts[k[1]] \in ContactLists
      /\ EntryFits(server.entries[k], demoStore.last[k], demoStore.ws[k], cache.timeline[k].data)
  BY CopyHas DEF CopyInv, CopyType, EntriesFit
<1>1. UNCHANGED <<server, demoRoute, requests, demoLeft>>
  BY DEF Copy!Timeline
<1>2. ASSUME NEW q \in TimelineQuery, cache' = [cache EXCEPT !.timeline[k] = q],
             demoStore' \in DemoStore,
             EntryFits(server.entries[k], demoStore'.last[k], demoStore'.ws[k], q.data),
             \A j \in Copy!Keys : j # k => demoStore'.last[j] = demoStore.last[j]
                                           /\ demoStore'.ws[j] = demoStore.ws[j],
             Copy!OpenContact(k) \/ (demoStore'.contacts = demoStore.contacts
                                      /\ demoStore'.stale = demoStore.stale),
             /\ Copy!OpenContact(k) /\ q.data # None /\ k[2] \in DOMAIN server.contacts[k[1]]
             /\ k[2] \notin demoStore'.stale
             => Tracked(k[2], demoStore'.contacts, q, server.contacts[k[1]][k[2]])
      PROVE  CopyInv'
  <2>1. /\ cache' \in Cache /\ cache'.list = cache.list /\ cache'.chat = cache.chat
        /\ cache'.timeline[k] = q
        /\ \A j \in Copy!Keys : j # k => cache'.timeline[j] = cache.timeline[j]
    BY <1>0, <1>2, CacheTimeline
  <2>2. CopyType'
    BY <1>0, <1>1, <1>2, <2>1 DEF CopyType
  <2>3. Disjoint' /\ ListFits' /\ ChatFits'
    BY <1>1, <2>1, SameList DEF CopyInv, Disjoint, ListFits, ChatFits, Copy!InAccount, Copy!OpenChat
  <2>4. EntriesFit'
    BY <1>1, <1>2, <2>1 DEF CopyInv, EntriesFit
  <2>5. TrackingFits'
    <3> SUFFICES ASSUME NEW j \in Copy!Keys, Copy!OpenContact(j), cache'.timeline[j].data # None,
                        j[2] \in DOMAIN server.contacts[j[1]], j[2] \notin demoStore'.stale
                 PROVE  Tracked(j[2], demoStore'.contacts, cache'.timeline[j],
                                server.contacts[j[1]][j[2]])
      BY <1>1 DEF TrackingFits, Copy!OpenContact
    <3>1. CASE j = k
      BY <1>2, <2>1, <3>1
    <3>2. CASE j # k
      <4>1. ~Copy!OpenContact(k)
        BY <3>2 DEF Copy!OpenContact
      <4> QED
        BY <1>2, <2>1, <3>2, <4>1 DEF CopyInv, TrackingFits
    <3> QED
      BY <3>1, <3>2
  <2> QED
    BY <2>2, <2>3, <2>4, <2>5 DEF CopyInv
<1>3. CASE k[2] \notin DOMAIN server.contacts[k[1]]
  <2> DEFINE q == [cache.timeline[k] EXCEPT !.busy = FALSE]
  <2>1. q \in TimelineQuery /\ q.data = cache.timeline[k].data
    BY <1>0 DEF TimelineQuery
  <2>2. cache' = [cache EXCEPT !.timeline[k] = q] /\ demoStore' = demoStore
    BY <1>3 DEF Copy!Timeline
  <2> HIDE DEF q
  <2> QED
    BY <1>0, <1>2, <1>3, <2>1, <2>2
<1>4. CASE k[2] \in DOMAIN server.contacts[k[1]]
  <2> DEFINE tl == [on |-> server.contacts[k[1]][k[2]], n |-> server.entries[k]]
             q == Copy!Arrived(cache.timeline[k], tl)
             on == server.contacts[k[1]][k[2]]
  <2>1. tl \in TL /\ tl.on = on /\ tl.n = server.entries[k] /\ tl # None
    <3>1. server.contacts[k[1]][k[2]] \in BOOLEAN
      BY <1>0, <1>4, ContactListIs
    <3> QED
      BY <1>0, <3>1, CopyConstants DEF TL
  <2>2. /\ cache' = [cache EXCEPT !.timeline[k] = q]
        /\ demoStore' = IF Copy!OpenContact(k) /\ tl # cache.timeline[k].data
                        THEN Copy!Effects(demoStore, k, tl) ELSE demoStore
    BY <1>4 DEF Copy!Timeline
  <2> HIDE DEF tl
  <2>3. q \in TimelineQuery /\ q.data = tl /\ ~q.busy
    BY <1>0, <2>1, Operations
  <2> HIDE DEF q
  <2>4. CASE Copy!OpenContact(k) /\ tl # cache.timeline[k].data
    <3> DEFINE t == Copy!Effects(demoStore, k, tl)
    <3>1. EntryFits(server.entries[k], demoStore.last[k], demoStore.ws[k], tl)
      <4>1. demoStore.ws[k] \subseteq 1..server.entries[k]
        BY <1>0 DEF EntryFits
      <4>2. tl.n <= server.entries[k] /\ 1..tl.n \cup demoStore.ws[k] = 1..server.entries[k]
        BY <1>0, <2>1, <4>1
      <4> QED
        BY <1>0, <4>1, <4>2 DEF EntryFits
    <3>2. /\ t \in DemoStore
          /\ t.contacts = Copy!Put(demoStore.contacts, k[2], tl.on)
          /\ EntryFits(server.entries[k], t.last[k], t.ws[k], tl)
          /\ \A j \in Copy!Keys :
               j # k => t.last[j] = demoStore.last[j] /\ t.ws[j] = demoStore.ws[j]
      BY <1>0, <2>1, <3>1, EffectsFit
    <3> HIDE DEF t
    <3>3. demoStore' = t
      BY <2>2, <2>4 DEF t
    <3> DEFINE f == Copy!Put(demoStore.contacts, k[2], tl.on)
    <3>4. k[2] \in DOMAIN f
      <4>1. DOMAIN f = DOMAIN demoStore.contacts \cup {k[2]}
        BY PutDomain
      <4> HIDE DEF f
      <4> QED
        BY <4>1
    <3>5. f[k[2]] = tl.on
      BY PutAt
    <3> HIDE DEF f
    <3>6. t.contacts = f
      BY <3>2 DEF f
    <3>7. Tracked(k[2], demoStore'.contacts, q, on)
      BY <2>1, <3>3, <3>4, <3>5, <3>6 DEF Tracked
    <3> HIDE DEF on
    <3> QED
      BY <1>2, <2>2, <2>3, <2>4, <3>2, <3>3, <3>7 DEF on
  <2>5. CASE ~(Copy!OpenContact(k) /\ tl # cache.timeline[k].data)
    <3>1. demoStore' = demoStore
      BY <2>2, <2>5
    <3>2. EntryFits(server.entries[k], demoStore.last[k], demoStore.ws[k], tl)
      <4>1. demoStore.ws[k] \subseteq 1..server.entries[k]
        BY <1>0 DEF EntryFits
      <4>2. tl.n <= server.entries[k] /\ 1..tl.n \cup demoStore.ws[k] = 1..server.entries[k]
        BY <1>0, <2>1, <4>1
      <4> QED
        BY <1>0, <4>1, <4>2 DEF EntryFits
    <3>3. ASSUME Copy!OpenContact(k), k[2] \notin demoStore.stale
          PROVE  Tracked(k[2], demoStore.contacts, q, on)
      <4>1. tl = cache.timeline[k].data
        BY <2>5, <3>3
      <4>2. Tracked(k[2], demoStore.contacts, cache.timeline[k], on)
        BY <1>4, <2>1, <3>3, <4>1 DEF CopyInv, TrackingFits
      <4> QED
        BY <2>1, <2>3, <4>1, <4>2 DEF Tracked
    <3> QED
      BY <1>0, <1>2, <2>2, <2>3, <3>1, <3>2, <3>3
  <2> QED
    BY <2>4, <2>5
<1> QED
  BY <1>3, <1>4

-----------------------------------------------------------------------------
\* The writes' ends.

\* What a request has.
LEMMA WriteIs ==
  ASSUME NEW r \in Write
  PROVE  /\ r.acc \in DemoAccs /\ r.on \in BOOLEAN
         /\ r.op \in {"toggle", "delete", "send"} => r.id \in DemoIds
  BY DEF Write

\* A message is sent.
LEMMA StepSendMessage ==
  ASSUME CopyInv, NEW r \in requests, Copy!SendMessage(r)
  PROVE  CopyInv'
<1>0. CopyType /\ cache \in Cache /\ server \in Server /\ r \in Write
  BY DEF CopyInv, CopyType
<1>1. /\ UNCHANGED <<demoStore, demoRoute, demoLeft>>
      /\ requests' \in SUBSET Write
  BY <1>0 DEF Copy!SendMessage, Copy!Ends, CopyType
<1> DEFINE k == <<r.acc, r.id>>
           h == Copy!Again(cache.chat[k], Copy!OpenChat(k))
<1>2. k \in Copy!Keys
  BY <1>0, WriteIs, CopyHas DEF Copy!SendMessage, Copy!Ends
<1>3. PICK t \in Copy!Times(server.messages[k]) :
        server' = [server EXCEPT !.messages[k] = Append(server.messages[k], t)]
  BY DEF Copy!SendMessage
<1> DEFINE m == Append(server.messages[k], t)
<1>4. m \in Seq(Nat)
  <2>1. server.messages[k] \in Seq(Nat) /\ t \in Nat
    BY <1>0, <1>2, CopyHas, TimesAre
  <2> QED
    BY <2>1
<1>5. h \in ChatQuery /\ \A G : Reads(h, Copy!OpenChat(k), G)
  <2>1. cache.chat[k] \in ChatQuery /\ Copy!OpenChat(k) \in BOOLEAN
    BY <1>0, <1>2, CopyHas, InUse
  <2> HIDE DEF k
  <2> QED
    BY ONLY <2>1, AgainFits
<1>6. server' = [server EXCEPT !.messages[k] = m] /\ cache' = [cache EXCEPT !.chat[k] = h]
  BY <1>3 DEF Copy!SendMessage
<1> HIDE DEF k, m, h
<1>7. /\ server' \in Server /\ server'.contacts = server.contacts
      /\ server'.entries = server.entries
      /\ \A j \in Copy!Keys : j # k => server'.messages[j] = server.messages[j]
  BY <1>0, <1>2, <1>4, <1>6, ServerMessages
<1>8. /\ cache' \in Cache /\ cache'.list = cache.list /\ cache'.timeline = cache.timeline
      /\ cache'.chat[k] = h
      /\ \A j \in Copy!Keys : j # k => cache'.chat[j] = cache.chat[j]
  BY <1>0, <1>2, <1>5, <1>6, CacheChat
<1>9. CopyType'
  BY <1>0, <1>1, <1>7, <1>8 DEF CopyType
<1>10. Disjoint' /\ ListFits' /\ EntriesFit' /\ TrackingFits'
  BY <1>1, <1>7, <1>8, SameList DEF CopyInv, Disjoint, ListFits, EntriesFit, TrackingFits,
     Copy!InAccount, Copy!OpenContact
<1>11. ChatFits'
  <2> SUFFICES ASSUME NEW j \in Copy!Keys, Copy!Distinct(server'.messages[j])
               PROVE  Reads(cache'.chat[j], Copy!OpenChat(j), ChatIs(Len(server'.messages[j])))
    BY <1>1 DEF ChatFits, Copy!OpenChat
  <2>1. CASE j = k
    BY <1>5, <1>8, <2>1
  <2>2. CASE j # k
    BY <1>7, <1>8, <2>2, QueriesOf
  <2> QED
    BY <2>1, <2>2
<1> QED
  BY <1>9, <1>10, <1>11 DEF CopyInv

\* A contact is deleted.
LEMMA StepDeleteContact ==
  ASSUME CopyInv, NEW r \in requests, Copy!DeleteContact(r)
  PROVE  CopyInv'
<1>0. /\ CopyType /\ cache \in Cache /\ server \in Server /\ demoStore \in DemoStore /\ r \in Write
      /\ r.acc \in DemoAccs
  BY WriteIs DEF CopyInv, CopyType
<1>1. /\ demoLeft' = demoLeft /\ requests' \in SUBSET Write
      /\ demoRoute' = [page |-> "none", acc |-> None, cid |-> None]
  BY <1>0 DEF Copy!DeleteContact, Copy!Ends, CopyType
<1>13. /\ \A b \in DemoAccs : Copy!InAccount(b)' = FALSE
       /\ \A k : Copy!OpenContact(k)' = FALSE /\ Copy!OpenChat(k)' = FALSE
  BY <1>1, CopyConstants DEF Copy!InAccount, Copy!OpenContact, Copy!OpenChat
<1> DEFINE a == r.acc
           f == Copy!Without(server.contacts[a], r.id)
           g == Copy!Without(demoStore.contacts, r.cid)
           q == Copy!Again(cache.list[a], Copy!InAccount(a))
<1>2. f \in ContactLists /\ DOMAIN f \subseteq DOMAIN server.contacts[a] /\ g \in ContactLists
  <2>1. server.contacts[a] \in ContactLists /\ demoStore.contacts \in ContactLists
    BY <1>0, CopyHas
  <2>2. f \in ContactLists /\ DOMAIN f = DOMAIN server.contacts[a] \ {r.id}
    BY <2>1, WithoutContact
  <2>3. g \in ContactLists
    BY <2>1, WithoutContact
  <2> HIDE DEF f, g
  <2> QED
    BY <2>2, <2>3
<1>3. q \in ListQuery /\ \A G : Reads(q, Copy!InAccount(a), G)
  <2>1. cache.list[a] \in ListQuery /\ Copy!InAccount(a) \in BOOLEAN
    BY <1>0, CopyHas, InUse
  <2> QED
    BY <2>1, AgainFits
<1>4. /\ server' = [server EXCEPT !.contacts[a] = f]
      /\ demoStore' = [demoStore EXCEPT !.contacts = g]
      /\ cache' = [cache EXCEPT !.list[a] = q]
  BY DEF Copy!DeleteContact
<1> HIDE DEF f, g, q
<1>5. /\ server' \in Server /\ server'.entries = server.entries
      /\ server'.messages = server.messages /\ server'.contacts[a] = f
      /\ \A b \in DemoAccs : b # a => server'.contacts[b] = server.contacts[b]
  BY <1>0, <1>2, <1>4, ServerContacts
<1>6. /\ demoStore' \in DemoStore /\ demoStore'.ws = demoStore.ws
      /\ demoStore'.last = demoStore.last
  BY <1>0, <1>2, <1>4, StoreContacts
<1>8. /\ cache' \in Cache /\ cache'.timeline = cache.timeline /\ cache'.chat = cache.chat
      /\ cache'.list[a] = q /\ \A b \in DemoAccs : b # a => cache'.list[b] = cache.list[b]
  BY <1>0, <1>3, <1>4, CacheList
<1>9. CopyType'
  BY <1>0, <1>1, <1>5, <1>6, <1>8 DEF CopyType, Route
<1>10. Disjoint'
  BY <1>2, <1>5 DEF CopyInv, Disjoint
<1>11. EntriesFit'
  BY <1>5, <1>6, <1>8 DEF CopyInv, EntriesFit
<1>12. TrackingFits'
  BY <1>13 DEF TrackingFits
<1>14. ListFits'
  <2> SUFFICES ASSUME NEW b \in DemoAccs PROVE Reads(cache'.list[b], FALSE, ListIs(b)')
    BY <1>13 DEF ListFits
  <2>1. CASE b = a
    BY <1>3, <1>8, <2>1, InUse, Unused
  <2>2. CASE b # a
    <3>1. ListIs(b)' = ListIs(b)
      BY <1>5, <2>2, SameList
    <3> QED
      BY <1>8, <2>2, <3>1, QueriesOf, InUse, Unused
  <2> QED
    BY <2>1, <2>2
<1>15. ChatFits'
  <2> SUFFICES ASSUME NEW k \in Copy!Keys, Copy!Distinct(server.messages[k])
               PROVE  Reads(cache.chat[k], FALSE, ChatIs(Len(server.messages[k])))
    BY <1>5, <1>8, <1>13 DEF ChatFits
  <2> QED
    BY QueriesOf, InUse, Unused
<1> QED
  BY <1>9, <1>10, <1>11, <1>12, <1>14, <1>15 DEF CopyInv

\* A contact is created.
LEMMA StepCreateContact ==
  ASSUME CopyInv, NEW r \in requests, Copy!CreateContact(r)
  PROVE  CopyInv'
<1>0. /\ CopyType /\ cache \in Cache /\ server \in Server /\ demoStore \in DemoStore /\ r \in Write
      /\ r.acc \in DemoAccs
  BY WriteIs DEF CopyInv, CopyType
<1>1. /\ demoLeft' = demoLeft /\ requests' \in SUBSET Write /\ demoRoute' = demoRoute
  BY <1>0 DEF Copy!CreateContact, Copy!Ends, CopyType
<1> DEFINE a == r.acc
           id == Copy!NextContactId
           f == Copy!Put(server.contacts[a], id, TRUE)
           g == Copy!Put(demoStore.contacts, id, TRUE)
           q == Copy!Again(cache.list[a], Copy!InAccount(a))
<1>2. id \in DemoIds /\ \A b \in DemoAccs : id \notin DOMAIN server.contacts[b]
  BY <1>0, NewIdIsNew DEF Copy!CreateContact
<1>3. q \in ListQuery /\ \A G : Reads(q, Copy!InAccount(a), G)
  <2>1. cache.list[a] \in ListQuery /\ Copy!InAccount(a) \in BOOLEAN
    BY <1>0, CopyHas, InUse
  <2> QED
    BY <2>1, AgainFits
<1>4. /\ server' = [server EXCEPT !.contacts[a] = f]
      /\ demoStore' = Copy!Upsert(demoStore, id, TRUE)
      /\ cache' = [cache EXCEPT !.list[a] = q]
  BY DEF Copy!CreateContact
<1> HIDE DEF id, q
<1>5. /\ DOMAIN f = DOMAIN server.contacts[a] \cup {id}
      /\ DOMAIN g = DOMAIN demoStore.contacts \cup {id}
  BY PutDomain
<1>6. /\ f[id] = TRUE /\ \A c \in DOMAIN server.contacts[a] : c # id => f[c] = server.contacts[a][c]
      /\ g[id] = TRUE /\ \A c \in DOMAIN demoStore.contacts : c # id => g[c] = demoStore.contacts[c]
  <2>1. f[id] = TRUE /\ \A c \in DOMAIN server.contacts[a] : c # id => f[c] = server.contacts[a][c]
    BY DEF Copy!Put
  <2>2. g[id] = TRUE /\ \A c \in DOMAIN demoStore.contacts : c # id => g[c] = demoStore.contacts[c]
    BY DEF Copy!Put
  <2> QED
    BY <2>1, <2>2
<1>7. f \in ContactLists /\ g \in ContactLists
  <2>1. server.contacts[a] \in ContactLists /\ demoStore.contacts \in ContactLists
    BY <1>0, CopyHas
  <2> QED
    BY <1>2, <2>1, PutContact
<1> HIDE DEF f, g
<1>8. /\ server' \in Server /\ server'.entries = server.entries
      /\ server'.messages = server.messages /\ server'.contacts[a] = f
      /\ \A b \in DemoAccs : b # a => server'.contacts[b] = server.contacts[b]
  BY <1>0, <1>4, <1>7, ServerContacts
<1>9. /\ demoStore' \in DemoStore /\ demoStore'.ws = demoStore.ws
      /\ demoStore'.last = demoStore.last /\ demoStore'.contacts = g
      /\ demoStore'.stale = demoStore.stale \ {id}
  BY <1>0, <1>2, <1>4, DemoUpsertIs DEF g
<1>10. /\ cache' \in Cache /\ cache'.timeline = cache.timeline /\ cache'.chat = cache.chat
       /\ cache'.list[a] = q /\ \A b \in DemoAccs : b # a => cache'.list[b] = cache.list[b]
  BY <1>0, <1>3, <1>4, CacheList
<1>11. CopyType'
  BY <1>0, <1>1, <1>8, <1>9, <1>10 DEF CopyType
<1>12. Disjoint'
  <2> SUFFICES ASSUME NEW x \in DemoAccs, NEW y \in DemoAccs, x # y
               PROVE  DOMAIN server'.contacts[x] \cap DOMAIN server'.contacts[y] = {}
    BY DEF Disjoint
  <2>1. DOMAIN server.contacts[x] \cap DOMAIN server.contacts[y] = {}
    BY DEF CopyInv, Disjoint
  <2>2. \A b \in DemoAccs : DOMAIN server'.contacts[b] =
          IF b = a THEN DOMAIN server.contacts[b] \cup {id} ELSE DOMAIN server.contacts[b]
    BY <1>5, <1>8
  <2> QED
    BY <1>2, <2>1, <2>2
<1>13. EntriesFit' /\ ChatFits'
  BY <1>1, <1>8, <1>9, <1>10 DEF CopyInv, EntriesFit, ChatFits, Copy!OpenChat
<1>14. ListFits'
  <2> SUFFICES ASSUME NEW b \in DemoAccs
               PROVE  Reads(cache'.list[b], Copy!InAccount(b), ListIs(b)')
    BY <1>1 DEF ListFits, Copy!InAccount
  <2>1. CASE b = a
    BY <1>3, <1>10, <2>1
  <2>2. CASE b # a
    <3>1. ListIs(b)' = ListIs(b)
      BY <1>8, <2>2, SameList
    <3> QED
      BY <1>10, <2>2, <3>1, QueriesOf
  <2> QED
    BY <2>1, <2>2
<1>15. TrackingFits'
  <2> SUFFICES ASSUME NEW k \in Copy!Keys, Copy!OpenContact(k), cache.timeline[k].data # None,
                      k[2] \in DOMAIN server'.contacts[k[1]], k[2] \notin demoStore'.stale
               PROVE  Tracked(k[2], g, cache.timeline[k], server'.contacts[k[1]][k[2]])
    BY <1>1, <1>9, <1>10 DEF TrackingFits, Copy!OpenContact
  <2>0. k[1] \in DemoAccs
    BY <1>0, CopyHas
  <2>1. CASE k[2] = id
    <3>1. k[1] = a
      BY <1>2, <1>8, <2>0, <2>1
    <3>2. server'.contacts[k[1]][k[2]] = g[k[2]] /\ k[2] \in DOMAIN g
      BY <1>5, <1>6, <1>8, <2>1, <3>1
    <3> QED
      BY <3>2 DEF Tracked
  <2>2. CASE k[2] # id
    <3>1. /\ k[2] \in DOMAIN server.contacts[k[1]]
          /\ server'.contacts[k[1]][k[2]] = server.contacts[k[1]][k[2]]
      BY <1>5, <1>6, <1>8, <2>0, <2>2
    <3>2. /\ k[2] \in DOMAIN g <=> k[2] \in DOMAIN demoStore.contacts
          /\ k[2] \in DOMAIN g => g[k[2]] = demoStore.contacts[k[2]]
      BY <1>5, <1>6, <2>2
    <3> QED
      BY <1>9, <2>2, <3>1, <3>2 DEF CopyInv, TrackingFits, Tracked
  <2> QED
    BY <2>1, <2>2
<1> QED
  BY <1>11, <1>12, <1>13, <1>14, <1>15 DEF CopyInv

\* A contact is tracked, or no longer.
LEMMA StepUpdateContact ==
  ASSUME CopyInv, NEW r \in requests, Copy!UpdateContact(r)
  PROVE  CopyInv'
<1>0. /\ CopyType /\ cache \in Cache /\ server \in Server /\ demoStore \in DemoStore /\ r \in Write
      /\ r.acc \in DemoAccs /\ r.on \in BOOLEAN /\ r.id \in DemoIds
  BY WriteIs DEF CopyInv, CopyType, Copy!UpdateContact, Copy!Ends
<1>1. /\ demoLeft' = demoLeft /\ requests' \in SUBSET Write /\ demoRoute' = demoRoute
  BY <1>0 DEF Copy!UpdateContact, Copy!Ends, CopyType
<1>2. CASE r.id \notin DOMAIN server.contacts[r.acc]
  <2>1. UNCHANGED <<server, demoStore, cache>>
    BY <1>2 DEF Copy!UpdateContact
  <2>2. CopyType'
    BY <1>0, <1>1, <2>1 DEF CopyType
  <2>3. Disjoint' /\ ListFits' /\ ChatFits' /\ EntriesFit' /\ TrackingFits'
    BY <1>1, <2>1, SameList DEF CopyInv, Disjoint, ListFits, ChatFits, EntriesFit, TrackingFits,
       Copy!InAccount, Copy!OpenChat, Copy!OpenContact
  <2> QED
    BY <2>2, <2>3 DEF CopyInv
<1>3. CASE r.id \in DOMAIN server.contacts[r.acc]
  <2> DEFINE a == r.acc
             k == <<a, r.id>>
             tl == cache.timeline[k].data
             l == cache.list[a]
             f == [server.contacts[a] EXCEPT ![r.id] = r.on]
             g == Copy!Put(demoStore.contacts, r.id, r.on)
  <2>1. PICK same \in SUBSET DOMAIN l.pages, sameBuilt \in SUBSET DOMAIN l.built,
             seenTl \in {tl} \cup IF tl # None THEN {[tl EXCEPT !.on = r.on]} ELSE {} :
          cache' = [cache EXCEPT
            !.list[a] = Copy!Again([l EXCEPT
               !.pages = Copy!Through(l.pages, same, r.id, r.on),
               !.built = Copy!Through(l.built, sameBuilt, r.id, r.on)], Copy!InAccount(a)),
            !.timeline[k].data = seenTl]
    BY <1>3 DEF Copy!UpdateContact
  <2>2. /\ server' = [server EXCEPT !.contacts[a] = f]
        /\ demoStore' = Copy!Upsert(demoStore, r.id, r.on)
    BY <1>3 DEF Copy!UpdateContact
  <2> DEFINE ps == Copy!Through(l.pages, same, r.id, r.on)
             bs == Copy!Through(l.built, sameBuilt, r.id, r.on)
             l1 == [l EXCEPT !.pages = ps, !.built = bs]
             q == Copy!Again(l1, Copy!InAccount(a))
             p == [cache.timeline[k] EXCEPT !.data = seenTl]
             d == [cache EXCEPT !.list[a] = q]
  <2>3. cache' = [d EXCEPT !.timeline[k] = p]
    BY <2>1
  <2>4. /\ k \in Copy!Keys /\ k[1] = a /\ k[2] = r.id /\ l \in ListQuery
        /\ cache.timeline[k] \in TimelineQuery
        /\ server.contacts[a] \in ContactLists /\ demoStore.contacts \in ContactLists
    BY <1>0, CopyHas
  <2>5. l1 \in ListQuery
    <3>1. /\ l.pages \in Seq(ListPages) /\ l.built \in Seq(ListPages)
          /\ l.pages = <<>> => l.built = <<>>
      BY <2>4, PagedHas DEF ListQuery
    <3>2. ps \in Seq(ListPages) /\ Len(ps) = Len(l.pages)
      BY <1>0, <3>1, ThroughIs
    <3>3. bs \in Seq(ListPages) /\ Len(bs) = Len(l.built)
      BY <1>0, <3>1, ThroughIs
    <3> HIDE DEF ps, bs, l
    <3>4. ps = <<>> => bs = <<>>
      <4>1. ps = <<>> => l.pages = <<>>
        BY <3>1, <3>2
      <4>2. l.built = <<>> => bs = <<>>
        BY <3>1, <3>3
      <4> QED
        BY <3>1, <4>1, <4>2
    <3> QED
      BY <2>4, <3>2, <3>3, <3>4 DEF ListQuery, Paged
  <2> HIDE DEF l1
  <2>7. q \in ListQuery /\ \A G : Reads(q, Copy!InAccount(a), G)
    BY <2>5, InUse, AgainFits
  <2>8. /\ seenTl \in TL \cup {None} /\ (seenTl # None => tl # None /\ seenTl.n = tl.n)
    <3>1. tl \in TL \cup {None}
      BY <2>4 DEF TimelineQuery
    <3>2. CASE seenTl = tl
      BY <3>1, <3>2
    <3>3. CASE tl # None /\ seenTl = [tl EXCEPT !.on = r.on]
      BY <1>0, <3>1, <3>3 DEF TL
    <3> QED
      BY <2>1, <3>2, <3>3
  <2>9. p \in TimelineQuery /\ p.data = seenTl
    BY <2>4, <2>8 DEF TimelineQuery
  <2>10. /\ DOMAIN f = DOMAIN server.contacts[a] /\ f[r.id] = r.on
         /\ \A c \in DOMAIN server.contacts[a] : c # r.id => f[c] = server.contacts[a][c]
    BY <1>3
  <2>11. f \in ContactLists
    <3>1. DOMAIN server.contacts[a] \subseteq DemoIds
          /\ server.contacts[a] \in [DOMAIN server.contacts[a] -> BOOLEAN]
      BY <2>4, ContactListIs
    <3>2. f \in [DOMAIN server.contacts[a] -> BOOLEAN]
      BY <1>0, <3>1
    <3> HIDE DEF f
    <3> QED
      BY <2>10, <3>1, <3>2, ContactListIs
  <2>12. g \in ContactLists
    BY <1>0, <2>4, PutContact
  <2>13. DOMAIN g = DOMAIN demoStore.contacts \cup {r.id}
    BY PutDomain
  <2>14. /\ g[r.id] = r.on
         /\ \A c \in DOMAIN demoStore.contacts : c # r.id => g[c] = demoStore.contacts[c]
    BY PutAt
  <2> HIDE DEF f, g, q, p
  <2>15. /\ server' \in Server /\ server'.entries = server.entries
         /\ server'.messages = server.messages /\ server'.contacts[a] = f
         /\ \A b \in DemoAccs : b # a => server'.contacts[b] = server.contacts[b]
    BY <1>0, <2>2, <2>11, ServerContacts
  <2>16. /\ demoStore' \in DemoStore /\ demoStore'.ws = demoStore.ws
         /\ demoStore'.last = demoStore.last /\ demoStore'.contacts = g
         /\ demoStore'.stale = demoStore.stale \ {r.id}
    BY <1>0, <2>2, DemoUpsertIs DEF g
  <2>17. /\ d \in Cache /\ d.timeline = cache.timeline /\ d.chat = cache.chat /\ d.list[a] = q
         /\ \A b \in DemoAccs : b # a => d.list[b] = cache.list[b]
    BY <1>0, <2>7, CacheList
  <2> HIDE DEF d
  <2>18. /\ cache' \in Cache /\ cache'.list = d.list /\ cache'.chat = d.chat
         /\ cache'.timeline[k] = p
         /\ \A j \in Copy!Keys : j # k => cache'.timeline[j] = d.timeline[j]
    <3> HIDE DEF k
    <3> QED
      BY <2>3, <2>4, <2>9, <2>17, CacheTimeline
  <2>19. CopyType'
    BY <1>0, <1>1, <2>15, <2>16, <2>18 DEF CopyType
  <2>20. Disjoint'
    <3>1. \A b \in DemoAccs : DOMAIN server'.contacts[b] = DOMAIN server.contacts[b]
      BY <2>10, <2>15
    <3> QED
      BY <3>1 DEF CopyInv, Disjoint
  <2>21. ListFits'
    <3> SUFFICES ASSUME NEW b \in DemoAccs
                 PROVE  Reads(cache'.list[b], Copy!InAccount(b), ListIs(b)')
      BY <1>1 DEF ListFits, Copy!InAccount
    <3>1. CASE b = a
      BY <2>7, <2>17, <2>18, <3>1
    <3>2. CASE b # a
      <4>1. ListIs(b)' = ListIs(b)
        BY <2>15, <3>2, SameList
      <4> QED
        BY <2>17, <2>18, <3>2, <4>1, QueriesOf
    <3> QED
      BY <3>1, <3>2
  <2>22. ChatFits'
    BY <1>1, <2>15, <2>17, <2>18 DEF CopyInv, ChatFits, Copy!OpenChat
  <2>23. EntriesFit'
    <3> SUFFICES ASSUME NEW j \in Copy!Keys
                 PROVE  EntryFits(server.entries[j], demoStore.last[j], demoStore.ws[j],
                                  cache'.timeline[j].data)
      BY <2>15, <2>16 DEF EntriesFit
    <3>1. EntryFits(server.entries[j], demoStore.last[j], demoStore.ws[j], cache.timeline[j].data)
      BY DEF CopyInv, EntriesFit
    <3>2. CASE j = k
      <4> HIDE DEF k
      <4> QED
        BY <2>8, <2>9, <2>18, <3>1, <3>2 DEF EntryFits
    <3>3. CASE j # k
      <4> HIDE DEF k
      <4> QED
        BY <2>17, <2>18, <3>1, <3>3
    <3> QED
      BY <3>2, <3>3
  <2>24. TrackingFits'
    <3> SUFFICES ASSUME NEW j \in Copy!Keys, Copy!OpenContact(j), cache'.timeline[j].data # None,
                        j[2] \in DOMAIN server'.contacts[j[1]], j[2] \notin demoStore'.stale
                 PROVE  Tracked(j[2], g, cache'.timeline[j], server'.contacts[j[1]][j[2]])
      BY <1>1, <2>16 DEF TrackingFits, Copy!OpenContact
    <3>0. j[1] \in DemoAccs /\ j[2] \in DOMAIN server.contacts[j[1]]
      BY <1>0, <2>10, <2>15, CopyHas
    <3>1. CASE j[2] = r.id
      <4>1. j[1] = a
        BY <1>0, <1>3, <3>0, <3>1 DEF CopyInv, Disjoint
      <4>2. server'.contacts[j[1]][j[2]] = g[j[2]] /\ j[2] \in DOMAIN g
        BY <2>10, <2>13, <2>14, <2>15, <3>1, <4>1
      <4> QED
        BY <4>2 DEF Tracked
    <3>2. CASE j[2] # r.id
      <4>1. server'.contacts[j[1]][j[2]] = server.contacts[j[1]][j[2]]
        BY <2>10, <2>15, <3>0, <3>2
      <4>2. /\ j[2] \in DOMAIN g <=> j[2] \in DOMAIN demoStore.contacts
            /\ j[2] \in DOMAIN g => g[j[2]] = demoStore.contacts[j[2]]
        BY <2>13, <2>14, <3>2
      <4>3. cache'.timeline[j] = cache.timeline[j]
        BY <2>4, <2>17, <2>18, <3>2
      <4> QED
        BY <2>16, <3>0, <3>2, <4>1, <4>2, <4>3 DEF CopyInv, TrackingFits, Tracked
    <3> QED
      BY <3>1, <3>2
  <2> QED
    BY <2>19, <2>20, <2>21, <2>22, <2>23, <2>24 DEF CopyInv
<1> QED
  BY <1>2, <1>3

\* Every step of the demo keeps its invariant.
LEMMA NextCopy == CopyInv /\ [Copy!Next]_demoVars => CopyInv'
<1> SUFFICES ASSUME CopyInv, [Copy!Next]_demoVars PROVE CopyInv'
  OBVIOUS
<1>1. CASE UNCHANGED demoVars
  <2>1. CopyType'
    BY <1>1 DEF CopyInv, CopyType, demoVars
  <2>2. Disjoint' /\ ListFits' /\ ChatFits' /\ EntriesFit' /\ TrackingFits'
    BY <1>1, SameList DEF CopyInv, Disjoint, ListFits, ChatFits, EntriesFit, TrackingFits,
       Copy!InAccount, Copy!OpenChat, Copy!OpenContact, demoVars
  <2> QED
    BY <2>1, <2>2 DEF CopyInv
<1>2. CASE Copy!Next
  BY <1>2, StepFirePresence, StepToAccount, StepListContacts, StepFireMessage, StepLeave,
     StepToMessages, StepPoll, StepMore, StepLoadOlder, StepToContact, StepTimeline,
     StepMessages, StepRequest,
     StepCreateContact, StepUpdateContact, StepDeleteContact, StepSendMessage
     DEF Copy!Next
<1> QED
  BY <1>1, <1>2

\* What follows.

\* The dots, from the invariant.
LEMMA DotsAreLatest == CopyInv => Copy!DotIsLatest
  BY DEF CopyInv, EntriesFit, EntryFits, Copy!DotIsLatest

\* Pages of the sidebar that are the server's, and how they are numbered.
LEMMA ListPagesShow ==
  ASSUME CopyType, NEW a \in DemoAccs, NEW ps \in Seq(ListPages),
         \A i \in DOMAIN ps : ps[i] = ListIs(a)[i]
  PROVE  LET all == server.contacts[a]
         IN /\ \A c \in DemoIds : (\E i \in DOMAIN ps : c \in DOMAIN ps[i].contacts) <=>
                 c \in DOMAIN all /\ Copy!Rank(all, c) <= Len(ps) * BarSize
            /\ \A i, j \in DOMAIN ps :
                 i # j => DOMAIN ps[i].contacts \cap DOMAIN ps[j].contacts = {}
            /\ \A i \in DOMAIN ps :
                 /\ \A c \in DOMAIN ps[i].contacts : ps[i].contacts[c] = all[c]
                 /\ ps[i].total = Cardinality(DOMAIN all)
<1> DEFINE all == server.contacts[a]
<1>1. DOMAIN ps = 1..Len(ps) /\ Len(ps) \in Nat /\ BarSize \in Nat \ {0}
  BY CopyConstants
<1>2. \A c \in DOMAIN all : Copy!Rank(all, c) \in Nat \ {0}
  BY CopyHas, RankIs
<1>3. \A i \in DOMAIN ps :
        /\ DOMAIN ps[i].contacts = {c \in DOMAIN all : (i - 1) * BarSize < Copy!Rank(all, c)
                                                       /\ Copy!Rank(all, c) <= i * BarSize}
        /\ \A c \in DOMAIN ps[i].contacts : ps[i].contacts[c] = all[c]
        /\ ps[i].total = Cardinality(DOMAIN all)
  <2> TAKE i \in DOMAIN ps
  <2>1. i \in Nat /\ ps[i] = Copy!ListPage(a, i)
    <3>1. i \in Nat
      BY <1>1
    <3> QED
      BY <3>1 DEF ListIs
  <2> QED
    BY <2>1, ListPageIs
<1> HIDE DEF all
<1>4. ASSUME NEW c \in DemoIds
      PROVE  (\E i \in DOMAIN ps : c \in DOMAIN ps[i].contacts) <=>
               c \in DOMAIN all /\ Copy!Rank(all, c) <= Len(ps) * BarSize
  <2>1. CASE c \in DOMAIN all
    <3> DEFINE r == Copy!Rank(all, c)
    <3>1. r \in Nat \ {0} /\ \A i \in DOMAIN ps :
            c \in DOMAIN ps[i].contacts <=> (i - 1) * BarSize < r /\ r <= i * BarSize
      BY <1>2, <1>3, <2>1
    <3> HIDE DEF r
    <3>2. (\E i \in 1..Len(ps) : (i - 1) * BarSize < r /\ r <= i * BarSize)
          <=> r <= Len(ps) * BarSize
      BY <1>1, <3>1, PageOf
    <3>3. (\E i \in DOMAIN ps : c \in DOMAIN ps[i].contacts) <=> r <= Len(ps) * BarSize
      BY <1>1, <3>1, <3>2
    <3> QED
      BY <2>1, <3>3 DEF r
  <2>2. CASE c \notin DOMAIN all
    BY <1>3, <2>2
  <2> QED
    BY <2>1, <2>2
<1>5. ASSUME NEW i \in DOMAIN ps, NEW j \in DOMAIN ps,
             NEW c \in DOMAIN ps[i].contacts, c \in DOMAIN ps[j].contacts
      PROVE  i = j
  <2> DEFINE r == Copy!Rank(all, c)
  <2>1. /\ r \in Nat /\ (i - 1) * BarSize < r /\ r <= i * BarSize
        /\ (j - 1) * BarSize < r /\ r <= j * BarSize
    BY <1>2, <1>3, <1>5
  <2>2. i \in Nat \ {0} /\ j \in Nat \ {0}
    BY <1>1
  <2> HIDE DEF r
  <2> QED
    BY <1>1, <2>1, <2>2, OnePage
<1> QED
  BY <1>3, <1>4, <1>5 DEF all

\* Pages of a chat that are the server's.
LEMMA ChatPagesShow ==
  ASSUME NEW n \in Nat, NEW ps \in Seq(SUBSET Nat), \A i \in DOMAIN ps : ps[i] = ChatIs(n)[i]
  PROVE  /\ UNION Copy!ToSet(ps) = {m \in 1..n : n - m < Len(ps) * ChatSize}
         /\ \A i, j \in DOMAIN ps : i # j => ps[i] \cap ps[j] = {}
<1>1. /\ DOMAIN ps = 1..Len(ps) /\ Len(ps) \in Nat /\ ChatSize \in Nat \ {0}
      /\ \A i \in DOMAIN ps : (i - 1) * ChatSize \in Int /\ i * ChatSize \in Int
      /\ Len(ps) * ChatSize \in Int
  BY CopyConstants
<1>2. \A i \in DOMAIN ps :
        ps[i] = {m \in 1..n : (i - 1) * ChatSize <= n - m /\ n - m < i * ChatSize}
  <2> TAKE i \in DOMAIN ps
  <2>1. i \in Nat
    BY <1>1
  <2> QED
    BY <2>1, Zenon DEF ChatIs
<1>3. \A m \in 1..n, i \in DOMAIN ps :
        m \in ps[i] <=> (i - 1) * ChatSize < n - m + 1 /\ n - m + 1 <= i * ChatSize
  <2> TAKE m \in 1..n, i \in DOMAIN ps
  <2>1. m \in ps[i] <=> (i - 1) * ChatSize <= n - m /\ n - m < i * ChatSize
    BY <1>2
  <2> DEFINE x == (i - 1) * ChatSize
             y == i * ChatSize
  <2>2. x \in Int /\ y \in Int
    BY <1>1
  <2> HIDE DEF x, y
  <2>3. (x <= n - m /\ n - m < y) <=> (x < n - m + 1 /\ n - m + 1 <= y)
    BY <2>2
  <2> QED
    BY <2>1, <2>3 DEF x, y
<1>4. \A m \in 1..n : n - m + 1 \in Nat \ {0}
  OBVIOUS
<1>5. ASSUME NEW m
      PROVE  m \in UNION Copy!ToSet(ps) <=> m \in {o \in 1..n : n - o < Len(ps) * ChatSize}
  <2>1. m \in UNION Copy!ToSet(ps) <=> \E i \in DOMAIN ps : m \in ps[i]
    BY DEF Copy!ToSet
  <2>2. CASE m \in 1..n
    <3> DEFINE r == n - m + 1
    <3>1. r \in Nat \ {0} /\ \A i \in DOMAIN ps :
            m \in ps[i] <=> (i - 1) * ChatSize < r /\ r <= i * ChatSize
      BY <1>3, <1>4, <2>2
    <3>2. r <= Len(ps) * ChatSize <=> n - m < Len(ps) * ChatSize
      <4> DEFINE y == Len(ps) * ChatSize
      <4>1. y \in Int
        BY <1>1
      <4> HIDE DEF y
      <4>2. r <= y <=> n - m < y
        BY <2>2, <4>1
      <4> QED
        BY <4>2 DEF y
    <3> HIDE DEF r
    <3>3. (\E i \in 1..Len(ps) : (i - 1) * ChatSize < r /\ r <= i * ChatSize)
          <=> r <= Len(ps) * ChatSize
      BY <1>1, <3>1, PageOf
    <3>4. (\E i \in DOMAIN ps : m \in ps[i]) <=> r <= Len(ps) * ChatSize
      BY <1>1, <3>1, <3>3
    <3> QED
      BY <2>1, <2>2, <3>2, <3>4
  <2>3. CASE m \notin 1..n
    BY <1>2, <2>1, <2>3
  <2> QED
    BY <2>2, <2>3
<1>6. ASSUME NEW i \in DOMAIN ps, NEW j \in DOMAIN ps, NEW m \in ps[i], m \in ps[j]
      PROVE  i = j
  <2>1. m \in 1..n
    BY <1>2
  <2> DEFINE r == n - m + 1
  <2>2. /\ r \in Nat /\ (i - 1) * ChatSize < r /\ r <= i * ChatSize
        /\ (j - 1) * ChatSize < r /\ r <= j * ChatSize
    BY <1>3, <1>4, <1>6, <2>1
  <2>3. i \in Nat \ {0} /\ j \in Nat \ {0}
    BY <1>1
  <2> HIDE DEF r
  <2> QED
    BY <1>1, <2>2, <2>3, OnePage
<1>7. UNION Copy!ToSet(ps) = {o \in 1..n : n - o < Len(ps) * ChatSize}
  BY <1>5
<1>8. \A i, j \in DOMAIN ps : i # j => ps[i] \cap ps[j] = {}
  BY <1>6
<1> QED
  BY <1>7, <1>8

\* The pages, from the invariant.
LEMMA ServerIsShown == CopyInv => Copy!PagesShowServer
<1> SUFFICES ASSUME CopyInv PROVE Copy!PagesShowServer
  OBVIOUS
<1>0. CopyType
  BY DEF CopyInv
<1>1. ASSUME NEW a \in DemoAccs, Copy!InAccount(a), Copy!UpToDate(cache.list[a])
      PROVE  LET all == server.contacts[a]
                 ps == cache.list[a].pages
             IN /\ \A c \in DemoIds : (\E i \in DOMAIN ps : c \in DOMAIN ps[i].contacts) <=>
                     c \in DOMAIN all /\ Copy!Rank(all, c) <= Len(ps) * BarSize
                /\ \A i, j \in DOMAIN ps :
                     i # j => DOMAIN ps[i].contacts \cap DOMAIN ps[j].contacts = {}
                /\ \A i \in DOMAIN ps :
                     /\ \A c \in DOMAIN ps[i].contacts : ps[i].contacts[c] = all[c]
                     /\ ps[i].total = Copy!Cardinality(DOMAIN all)
  <2> DEFINE q == cache.list[a]
             ps == q.pages
  <2>1. q \in Paged(ListPages) /\ Reads(q, Copy!InAccount(a), ListIs(a))
    BY <1>0, CopyHas, QueriesOf DEF ListQuery
  <2>2. ps \in Seq(ListPages)
    BY <2>1, PagedHas
  <2>3. \A i \in DOMAIN ps : ps[i] = ListIs(a)[i]
    BY <1>1, <2>1 DEF Copy!UpToDate, Reads
  <2> HIDE DEF ps
  <2> QED
    BY <1>0, <2>2, <2>3, ListPagesShow, CardinalityIs DEF ps
<1>2. ASSUME NEW k \in Copy!Keys, Copy!OpenContact(k), Copy!Settled(cache.timeline[k]),
             k[2] \in DOMAIN server.contacts[k[1]]
      PROVE  /\ k[2] \notin demoStore.stale =>
                  Copy!ShownContact(k[2], cache.timeline[k].data.on) = server.contacts[k[1]][k[2]]
             /\ 1..cache.timeline[k].data.n \cup demoStore.ws[k] = 1..server.entries[k]
  <2>1. ~cache.timeline[k].busy /\ cache.timeline[k].data # None
    BY <1>2 DEF Copy!Settled
  <2>2. ASSUME k[2] \notin demoStore.stale
        PROVE  Copy!ShownContact(k[2], cache.timeline[k].data.on) = server.contacts[k[1]][k[2]]
    <3>1. Tracked(k[2], demoStore.contacts, cache.timeline[k], server.contacts[k[1]][k[2]])
      BY <1>2, <2>1, <2>2 DEF CopyInv, TrackingFits
    <3> QED
      BY <2>1, <3>1 DEF Tracked, Copy!ShownContact
  <2>3. 1..cache.timeline[k].data.n \cup demoStore.ws[k] = 1..server.entries[k]
    BY <2>1 DEF CopyInv, EntriesFit, EntryFits
  <2> QED
    BY <2>2, <2>3
<1>3. ASSUME NEW k \in Copy!Keys, Copy!OpenChat(k), Copy!UpToDate(cache.chat[k]),
             Copy!Distinct(server.messages[k])
      PROVE  LET n == Len(server.messages[k])
                 ps == cache.chat[k].pages
             IN /\ UNION Copy!ToSet(ps) = {i \in 1..n : n - i < Len(ps) * ChatSize}
                /\ \A i, j \in DOMAIN ps : i # j => ps[i] \cap ps[j] = {}
  <2> DEFINE q == cache.chat[k]
             ps == q.pages
             n == Len(server.messages[k])
  <2>1. q \in ChatQuery /\ Reads(q, Copy!OpenChat(k), ChatIs(n)) /\ n \in Nat
    <3>1. q \in ChatQuery /\ server.messages[k] \in Seq(Nat)
      BY <1>0, CopyHas
    <3>2. n \in Nat
      BY <3>1
    <3>3. Reads(q, Copy!OpenChat(k), ChatIs(n))
      BY <1>3, QueriesOf
    <3> QED
      BY <3>1, <3>2, <3>3
  <2>2. ps \in Seq(SUBSET Nat)
    BY <2>1, ChatHas, PagedHas
  <2>3. \A i \in DOMAIN ps : ps[i] = ChatIs(n)[i]
    BY <1>3, <2>1 DEF Copy!UpToDate, Reads
  <2> HIDE DEF ps, n
  <2> QED
    BY <2>1, <2>2, <2>3, ChatPagesShow DEF ps, n
<1> QED
  BY <1>1, <1>2, <1>3 DEF Copy!PagesShowServer

-----------------------------------------------------------------------------
\* The pages together.

\* The invariant of the page that is open.
PagesInv ==
  /\ page = "accounts" => ListInv
  /\ page = "schedule" => FormInv
  /\ page = "contact" => PageInv
  /\ page = "demo" => CopyInv
  /\ page = "demo accounts" => RowsInv
  /\ page = "demo schedule" => PlanInv

\* A step is one of the page that is open, which stays open.
LEMMA PageSteps ==
  ASSUME [Next]_vars
  PROVE  /\ page' = page
         /\ page = "accounts" => [Acc!Next]_accountsVars
         /\ page = "schedule" => [Form!Next]_formVars
         /\ page = "contact" => [Contact!Next]_contactVars
         /\ page = "demo" => [Copy!Next]_demoVars
         /\ page = "demo accounts" => [Rows!Next]_rowsVars
         /\ page = "demo schedule" => [Plan!Next]_planVars
<1>1. CASE UNCHANGED vars
  BY <1>1 DEF vars
<1>2. CASE Next
  BY <1>2 DEF Next
<1> QED
  BY <1>1, <1>2

\* Every step of the client keeps its page's invariant.
LEMMA PagesInvariant == Spec => []PagesInv
<1>1. Init => PagesInv
  BY InitList, InitForm, InitPage, InitCopy, InitRows, InitPlan DEF Init, PagesInv
<1>2. PagesInv /\ [Next]_vars => PagesInv'
  <2> SUFFICES ASSUME PagesInv, [Next]_vars PROVE PagesInv'
    OBVIOUS
  <2> USE PageSteps
  <2>1. (page = "accounts" => ListInv)'
    BY NextList DEF PagesInv
  <2>2. (page = "schedule" => FormInv)'
    BY NextForm DEF PagesInv
  <2>3. (page = "contact" => PageInv)'
    BY NextPage DEF PagesInv
  <2>4. (page = "demo" => CopyInv)'
    BY NextCopy DEF PagesInv
  <2>5. (page = "demo accounts" => RowsInv)'
    BY NextRows DEF PagesInv
  <2>6. (page = "demo schedule" => PlanInv)'
    BY NextPlan DEF PagesInv
  <2> QED
    BY <2>1, <2>2, <2>3, <2>4, <2>5, <2>6 DEF PagesInv
<1> QED
  BY <1>1, <1>2, PTL DEF Spec

\* A clean schedule panel at rest shows the schedule that is stored, whatever was
\* typed, saved, answered late or refetched before, in the client and in the demo
\* (SchedulePanel.tsx): an answer never overwrites a later edit.
THEOREM CleanFormsAreSaved == Spec => []FormIsSaved
<1>1. PagesInv => FormIsSaved
  BY CleanFormIsSaved, CleanFormIsPlan DEF PagesInv, FormIsSaved
<1> QED
  BY <1>1, PagesInvariant, PTL

\* The accounts page at rest shows the server's accounts, except those that two
\* changed at once: cache, store and answers of writes never settle on an account
\* that is not so (AccountsList.tsx).
THEOREM AccountsAreServers == Spec => []ListIsServer
<1>1. PagesInv => ListIsServer
  BY QuietListIsServer DEF PagesInv, ListIsServer
<1> QED
  BY <1>1, PagesInvariant, PTL

\* Header and list of an open contact agree with the server once both queries have
\* read it as it is (ContactDetail.tsx, ContactSidebarItem.tsx): of the effects and
\* answers that write the store's contact, the last to do so had the latest.
THEOREM ContactsAreServers == Spec => []OpenIsServer
<1>1. PagesInv => OpenIsServer
  BY OpenPageIsServer DEF PagesInv, OpenIsServer
<1> QED
  BY <1>1, PagesInvariant, PTL

\* The demo's accounts page at rest shows the demo's accounts.
THEOREM DemoAccountsAreShown == Spec => []AccountsShown
<1>1. PagesInv => AccountsShown
  BY RowsAreShown DEF PagesInv, AccountsShown
<1> QED
  BY <1>1, PagesInvariant, PTL

\* The demo's contact pages show what its server has once their queries are at rest,
\* also with writes under way: list and chat page by page, for pages of any size, as
\* many as they have and each once, unless a refetch was cancelled (AppSidebar.tsx,
\* Messages.tsx); header and timeline as they are.
THEOREM DemoShowsServer == Spec => []PagesShowServer
<1>1. PagesInv => PagesShowServer
  BY ServerIsShown DEF PagesInv, PagesShowServer
<1> QED
  BY <1>1, PagesInvariant, PTL

\* A dot of the demo says the latest presence: a fetched timeline never takes an
\* event of its feed back.
THEOREM DemoDotIsLatest == Spec => []DotIsLatest
<1>1. PagesInv => DotIsLatest
  BY DotsAreLatest DEF PagesInv, DotIsLatest
<1> QED
  BY <1>1, PagesInvariant, PTL
=============================================================================
