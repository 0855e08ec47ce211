---------------------------- MODULE ProfileList ----------------------------
(***************************************************************************)
(* The list of profiles: ConfigStore's profiles, selection and file        *)
(* (core/config_store.py), and the page that edits and measures them       *)
(* (ui/window.py, ProfilesPage).  Rows, ticks and the selection are        *)
(* indexes, measurements and the running tunnel belong to objects, and     *)
(* every change of the list renumbers the rows.                            *)
(*                                                                         *)
(* Everything runs on the GUI thread except the measuring threads, whose   *)
(* one result comes back as a queued signal (MeasureDone).  A profile is   *)
(* an object with an endpoint: two objects may be equal as values.  What a *)
(* measurement's result says is left out.                                  *)
(***************************************************************************)
EXTENDS Integers, Sequences, FiniteSets, SequencesExt, Picking

CONSTANTS
  Endpoints,       \* what an import can hold
  NoProfile,
  MaxObjects,      \* bound: profile objects ever made
  MaxConcurrent,   \* _PING_MAX_CONCURRENCY (3)
  Watched          \* any one of the objects, for MeasurementsEnd

ASSUME ProfileAssumption ==
  /\ NoProfile \notin Endpoints
  /\ MaxObjects \in Nat /\ MaxConcurrent \in Nat \ {0}
  /\ Watched \in Nat

VARIABLES
  profiles,     \* ConfigStore.profiles
  selected,     \* selected_index + 1; 0 for none
  minted,       \* history: profile objects made so far
  file,         \* what profiles.json holds
  checked,      \* ProfilesPage._checked
  ticked,       \* history: the objects the user has ticked
  rows,         \* what each row shows
  queue,        \* _inline_queue
  running,      \* _inline_pending
  tunnel        \* EngineController.profile

store == <<profiles, selected, minted, file>>
marks == <<checked, ticked>>
pings == <<queue, running>>
profileVars == <<store, marks, rows, pings, tunnel>>

Objects == [id : 1..MaxObjects, endpoint : Endpoints]
Torn == [profiles |-> <<>>, selected |-> 0]

ProfileTypeOK ==
  /\ profiles \in Seq(Objects) /\ selected \in 0..Len(profiles)
  /\ minted \in 0..MaxObjects
  /\ file.profiles \in Seq(Objects) /\ file.selected \in 0..Len(file.profiles)
  /\ checked \subseteq 1..Len(profiles) /\ ticked \subseteq 1..MaxObjects
  /\ rows \in [1..Len(profiles) -> {"plain", "busy"}]
  /\ queue \in Seq(Objects) /\ running \subseteq Objects
  /\ Cardinality(running) <= MaxConcurrent
  /\ tunnel \in Endpoints \cup {NoProfile}

ProfileInit ==
  /\ profiles = <<>> /\ selected = 0 /\ minted = 0
  /\ file = [profiles |-> <<>>, selected |-> 0]
  /\ checked = {} /\ ticked = {} /\ rows = <<>>
  /\ queue = <<>> /\ running = {}
  /\ tunnel = NoProfile

Ids(ps) == {ps[i].id : i \in 1..Len(ps)}
EndpointAt(ps, i) == IF i = 0 THEN NoProfile ELSE ps[i].endpoint
PendingIds == Ids(queue) \cup {o.id : o \in running}

\* refresh(): ticks out of range go, rows are rebuilt, results of profiles that
\* are gone are dropped.
Refresh(ps, marked) ==
  /\ checked' = marked \cap 1..Len(ps)
  /\ rows' = [i \in 1..Len(ps) |-> IF ps[i].id \in PendingIds THEN "busy" ELSE "plain"]
  /\ UNCHANGED <<queue, running>>

\* save_profiles
Save(ps, sel) ==
  /\ profiles' = ps /\ selected' = sel
  /\ file' = [profiles |-> ps, selected |-> sel]

\* Mutant of EmitSelection: the engine gets the profile selected before the change.
EmitSelectionEarly == tunnel' = EndpointAt(profiles, selected)

\* _emit_selection, up to MainWindow's engine.set_profile.
EmitSelection == tunnel' = EndpointAt(profiles', selected')

\* The program ends and is started again, and MainWindow hands the engine what was
\* selected.  The file is written in place, so an end in the middle of a write leaves
\* one that loads as no profiles at all.
Restart ==
  /\ file' \in {file, Torn}
  /\ profiles' = file'.profiles /\ selected' = file'.selected
  /\ checked' = {} /\ ticked' = {}
  /\ rows' = [i \in 1..Len(profiles') |-> "plain"]
  /\ queue' = <<>> /\ running' = {}
  /\ EmitSelection
  /\ UNCHANGED minted
-----------------------------------------------------------------------------
(* The store's operations, with the handlers that call them                *)

\* add_profiles: one more at the end, selected if nothing was.
Added(endpoint) ==
  /\ minted < MaxObjects
  /\ minted' = minted + 1
  /\ LET new == Append(profiles, [id |-> minted + 1, endpoint |-> endpoint])
     IN Save(new, IF selected = 0 THEN Len(new) ELSE selected)

AddProfiles(endpoint) ==
  /\ Added(endpoint)
  /\ Refresh(profiles', checked)
  /\ EmitSelection
  /\ UNCHANGED ticked

\* The clean-IP scanner's configurations: the engine does not hear of them.
ScannerAdds(endpoint) ==
  /\ Added(endpoint)
  /\ Refresh(profiles', checked)
  /\ UNCHANGED <<ticked, tunnel>>

Without(gone) == Pick(profiles, DOMAIN profiles \ gone)

\* Mutant of SelectionAfter: the index stays where it was.
SelectionStays(gone) == Min({selected, Len(Without(gone))})

\* remove_profiles: the same profile, found by value, or a neighbour of the first gone.
SelectionAfter(gone) ==
  LET kept == Without(gone) IN
  IF selected = 0 \/ selected \in gone
  THEN Min({Max({Min(gone) - 1, 1}), Len(kept)})
  ELSE SelectInSeq(kept, LAMBDA o : o.endpoint = profiles[selected].endpoint)

Delete(gone, marked) ==
  /\ Save(Without(gone), SelectionAfter(gone))
  /\ Refresh(Without(gone), marked)
  /\ EmitSelection
  /\ ticked' = ticked \ {profiles[i].id : i \in gone}
  /\ UNCHANGED minted

DeleteChecked == checked # {} /\ Delete(checked, {})

\* Mutant of Shifted: the ticks keep their numbers.
NotShifted(i) == checked \ {i}

\* The other ticks after row i is gone.
Shifted(i) == {IF j < i THEN j ELSE j - 1 : j \in checked \ {i}}

DeleteOne(i) == Delete({i}, Shifted(i))

\* The editor returns a new object; the tunnel hears of it if it is the selected.
Edit(i, endpoint) ==
  /\ minted < MaxObjects
  /\ LET new == [profiles EXCEPT ![i] = [id |-> minted + 1, endpoint |-> endpoint]]
     IN Save(new, selected) /\ Refresh(new, checked)
  /\ minted' = minted + 1
  /\ ticked' = IF i \in checked THEN (ticked \ {profiles[i].id}) \cup {minted + 1}
               ELSE ticked
  /\ IF i = selected THEN EmitSelection ELSE UNCHANGED tunnel

Activate(i) ==
  /\ Save(profiles, i)
  /\ Refresh(profiles, checked)
  /\ EmitSelection
  /\ UNCHANGED <<minted, ticked>>

\* The row's box, and "select all" / "clear", which rebuild the rows.
Tick(i) ==
  /\ checked' = IF i \in checked THEN checked \ {i} ELSE checked \cup {i}
  /\ ticked' = {profiles[j].id : j \in checked'}
  /\ UNCHANGED <<store, pings, rows, tunnel>>

TickAll(all) ==
  /\ profiles # <<>>
  /\ Refresh(profiles, IF all THEN DOMAIN profiles ELSE {})
  /\ ticked' = {profiles[j].id : j \in checked'}
  /\ UNCHANGED <<store, tunnel>>
-----------------------------------------------------------------------------
(* Measuring                                                               *)

\* Mutant of Pump: off by one at the cap.
PumpShort(q, r) ==
  LET n == Min({Len(q), Max({MaxConcurrent - Cardinality(r) - 1, 0})})
  IN /\ running' = r \cup {q[k] : k \in 1..n}
     /\ queue' = SubSeq(q, n + 1, Len(q))

\* Mutant of Pump: no cap.
PumpAll(q, r) == running' = r \cup {q[k] : k \in 1..Len(q)} /\ queue' = <<>>

\* _pump_ping_queue: start the first ones, up to the cap.
Pump(q, r) ==
  LET n == Min({Len(q), MaxConcurrent - Cardinality(r)})
  IN /\ running' = r \cup {q[k] : k \in 1..n}
     /\ queue' = SubSeq(q, n + 1, Len(q))

\* What _profile_pending lets through.
Fresh(asked) == Pick(asked, {i \in DOMAIN asked : asked[i].id \notin PendingIds})

Measure(asked) ==
  /\ rows' = [i \in 1..Len(profiles) |->
                IF profiles[i].id \in Ids(Fresh(asked)) THEN "busy" ELSE rows[i]]
  /\ Pump(queue \o Fresh(asked), running)
  /\ UNCHANGED <<store, marks, tunnel>>

MeasureRow(i) == profiles[i].id \notin PendingIds /\ Measure(<<profiles[i]>>)
MeasureAll == profiles # <<>> /\ Measure(profiles)
MeasureChecked == checked # {} /\ Measure(Pick(profiles, checked))

\* Mutant of RowOf: an equal profile will do.
RowOfEqual(o) == SelectInSeq(profiles, LAMBDA p : p.endpoint = o.endpoint)

\* _row_index_for_profile, 0 when the object is not in the list any more.
RowOf(o) == SelectInSeq(profiles, LAMBDA p : p = o)

\* _inline_ping_done: the row of that object, if there is one, and the next ping.
MeasureDone(o) ==
  /\ o \in running
  /\ rows' = [i \in 1..Len(profiles) |-> IF i = RowOf(o) THEN "plain" ELSE rows[i]]
  /\ Pump(queue, running \ {o})
  /\ UNCHANGED <<store, marks, tunnel>>
-----------------------------------------------------------------------------
ProfileNext ==
  \/ Restart
  \/ \E e \in Endpoints : AddProfiles(e) \/ ScannerAdds(e)
  \/ DeleteChecked
  \/ \E i \in 1..Len(profiles) :
       DeleteOne(i) \/ Activate(i) \/ Tick(i) \/ MeasureRow(i)
       \/ \E e \in Endpoints : Edit(i, e)
  \/ \E all \in BOOLEAN : TickAll(all)
  \/ MeasureAll \/ MeasureChecked
  \/ \E o \in running : MeasureDone(o)

\* Every measurement has a deadline, and its signal is delivered.
ProfileFairness ==
  \A i \in 1..MaxObjects :
    WF_profileVars(\E o \in running : o.id = i /\ MeasureDone(o))

ProfileSpec == ProfileInit /\ [][ProfileNext]_profileVars /\ ProfileFairness
-----------------------------------------------------------------------------
(* Properties                                                              *)

\* The ticks are the objects the user ticked, so that a bulk delete deletes those
\* and no others, whatever was deleted, edited or added since.
TicksFollowObjects == {profiles[i].id : i \in checked} = ticked

\* A step that neither activates a profile nor removes or edits the selected one
\* leaves the same server selected (config_store.py: "The active selection is
\* kept pointing at the same profile"), a crash in the middle of a write aside.
SelectionFollows ==
  [][selected # 0 /\ profiles[selected].id \in Ids(profiles') /\ profiles' # profiles
       => EndpointAt(profiles', selected') = EndpointAt(profiles, selected)]_profileVars

\* The engine holds the selected profile, or none: the first configurations may come
\* from the clean-IP scanner, which selects one and does not tell the engine.
TunnelFollows == tunnel \in {NoProfile, EndpointAt(profiles, selected)}

\* A row spins exactly while its own object is queued or measured.
RowsTell == \A i \in 1..Len(profiles) : rows[i] = "busy" <=> profiles[i].id \in PendingIds

\* Every measurement that was asked for ends, behind however many others.
MeasurementsEnd == Watched \in PendingIds ~> Watched \notin PendingIds
=============================================================================
