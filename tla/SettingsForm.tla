---------------------------- MODULE SettingsForm ----------------------------
(***************************************************************************)
(* The settings and their copies.  ConfigStore.config (core/config_store.py) *)
(* is read from config.json once and written there by every handler that   *)
(* changes it; the settings page and the pool page each keep a form of a   *)
(* part of it that is written back as a whole, the pool page lists the     *)
(* saved (SNI, IP) pairs, the dashboard shows the mode, and the engine     *)
(* works from a copy of its own (EngineController.config).  Other handlers *)
(* write settings too: the pool page's sweep the pairs, the list of        *)
(* profiles the mode, the strategy page the strategy.                      *)
(*                                                                         *)
(* One handler of the GUI thread is one step.  Every writer of the pairs   *)
(* asks whether a pair is there already, so the list is a set, and which   *)
(* of an SNI's IPs comes first is a choice.  The pool page's fields are    *)
(* one field, pool; the SNI stands also for the ports and boxes beside it. *)
(* Settings are such as the program writes: what loading makes of a        *)
(* config.json edited by hand is left out.                                 *)
(***************************************************************************)
EXTENDS Naturals, FiniteSets

CONSTANTS
  Snis, Addresses,   \* what a user may type, beside nothing
  DefaultPairs,      \* the saved pairs of DEFAULT_CONFIG
  DefaultRoute,      \* its FAKE_SNI and CONNECT_IP
  OldFiles,          \* bound: settings a config.json may hold that was not written since
  MaxEdits           \* bound: fields edited and not yet saved

SavedPairs == [sni : Snis, ip : Addresses]
NoText == ""

VARIABLES
  settings,   \* ConfigStore.config
  kept,       \* config.json holds the settings: the last write of it did not fail
  form,       \* the widgets of the two pages, _sni_ip_pairs among them
  edited,     \* history: fields the user has edited since the form was loaded or saved
  badge,      \* the dashboard's mode
  conf,       \* EngineController.config; it makes no use of the pairs
  canMode,    \* the mode can be chosen: set_mode_applicable
  onPool,     \* the pool page is the one on the screen
  listed      \* the pool page's list of saved pairs

copies == <<badge, conf, canMode>>
screen == <<onPool, listed>>
settingsVars == <<settings, kept, form, edited, copies, screen>>

Modes == {"Tunnel", "SNI Only"}
FormFields == {"mode", "sni", "ip", "pairs"}
PoolFields == {"pool"}
Fields == FormFields \cup PoolFields
Names == Fields \cup {"strategy"}

\* What a field may hold.
Values(f) ==
  CASE f = "mode" -> Modes
    [] f = "sni" -> Snis \cup {NoText}
    [] f = "ip" -> Addresses \cup {NoText}
    [] f = "pairs" -> SUBSET SavedPairs
    [] f = "pool" -> {0, 1}
    [] f = "strategy" -> {"auto", "manual"}

Stores == [mode : Values("mode"), sni : Values("sni"), ip : Values("ip"),
           pairs : Values("pairs"), pool : Values("pool"), strategy : Values("strategy")]

ASSUME SettingsAssumption ==
  /\ DefaultPairs \subseteq SavedPairs /\ DefaultRoute \in SavedPairs
  /\ NoText \notin Snis \cup Addresses
  /\ OldFiles \subseteq Stores /\ MaxEdits \in Nat

Defaults == [mode |-> "Tunnel", sni |-> DefaultRoute.sni, ip |-> DefaultRoute.ip,
             pairs |-> DefaultPairs, pool |-> 0, strategy |-> "auto"]

\* The IPs saved for an SNI; a field without an IP is filled with the first of them.
IpsFor(pairs, sni) == {k.ip : k \in {p \in pairs : p.sni = sni}}
Filled(s) ==
  IF s.ip # NoText \/ IpsFor(s.pairs, s.sni) = {} THEN {s.ip} ELSE IpsFor(s.pairs, s.sni)

\* load_from and load_pool_settings: what the widgets may show of the settings s.
FormsOf(s) == {[f \in Fields |-> IF f = "ip" THEN ip ELSE s[f]] : ip \in Filled(s)}
ListOf(s) == s.pairs
ConfOf(s) == [f \in {"mode", "sni", "ip", "pool", "strategy"} |-> s[f]]

SettingsTypeOK ==
  /\ settings \in Stores
  /\ DOMAIN form = Fields /\ \A f \in Fields : form[f] \in Values(f)
  /\ DOMAIN conf = Names \ {"pairs"} /\ \A f \in DOMAIN conf : conf[f] \in Values(f)
  /\ edited \subseteq Fields /\ badge \in Modes /\ listed \subseteq SavedPairs
  /\ {kept, canMode, onPool} \subseteq BOOLEAN

\* MainWindow's construction: everything is filled from the store.
Load(s, ok) ==
  /\ settings' = s /\ kept' = TRUE /\ form' \in FormsOf(s) /\ edited' = {}
  /\ badge' = s.mode /\ conf' = ConfOf(s) /\ canMode' = ok
  /\ onPool' = FALSE /\ listed' = ListOf(s)

SettingsInit ==
  /\ settings = Defaults /\ kept = TRUE /\ form \in FormsOf(Defaults) /\ edited = {}
  /\ badge = Defaults.mode /\ conf = ConfOf(Defaults) /\ canMode \in BOOLEAN
  /\ onPool = FALSE /\ listed = ListOf(Defaults)

\* The program starts again, after an end in the middle of a write perhaps, or the
\* window is rebuilt in the other language: it reads config.json, which is torn, or
\* holds what some earlier write left when the later ones failed.
Rebuild ==
  \E s \in {Defaults} \cup (IF kept THEN {settings} ELSE OldFiles), ok \in BOOLEAN : Load(s, ok)
-----------------------------------------------------------------------------
(* The forms                                                               *)

EditForm(f, value) ==
  /\ onPool = (f \in PoolFields)
  /\ form' = [form EXCEPT ![f] = value]
  /\ edited' = edited \cup {f} /\ Cardinality(edited') <= MaxEdits
  /\ UNCHANGED <<settings, kept, copies, screen>>

EditMode == canMode /\ \E mode \in Modes : EditForm("mode", mode)
EditOther == \E f \in {"sni", "ip", "pool"} : \E value \in Values(f) : EditForm(f, value)

\* An SNI of the list is picked: its first saved IP comes with it, if there is one.
PickSni ==
  /\ ~onPool
  /\ \E sni \in Snis :
       LET ips == IpsFor(form.pairs, sni)
       IN \E ip \in (IF ips = {} THEN {form.ip} ELSE ips) :
            form' = [form EXCEPT !.sni = sni, !.ip = ip]
  /\ edited' = edited \cup {"sni", "ip"} /\ Cardinality(edited') <= MaxEdits
  /\ UNCHANGED <<settings, kept, copies, screen>>

\* _add_pair and _remove_pair: the SNI and the IP that the form shows.
FormPair == [sni |-> form.sni, ip |-> form.ip]
AddPair == FormPair \in SavedPairs \ form.pairs /\ EditForm("pairs", form.pairs \cup {FormPair})
RemovePair == FormPair \in form.pairs /\ EditForm("pairs", form.pairs \ {FormPair})

\* collect() or collect_pool_settings(): one form, as a whole.
Collected(fields) ==
  [f \in DOMAIN settings |-> IF f \in fields THEN form[f] ELSE settings[f]]

\* save_config: a write that fails is passed over, the file is old then, or torn.
SaveConfig == kept' \in BOOLEAN

\* The store, its file and the engine, one after the other.
Keep(s) == settings' = s /\ SaveConfig /\ conf' = ConfOf(s)

SaveForm ==
  /\ ~onPool
  /\ Keep(Collected(FormFields)) /\ badge' = settings'.mode
  /\ edited' = edited \ FormFields
  /\ UNCHANGED <<form, canMode, screen>>

SavePoolForm ==
  /\ onPool
  /\ Keep(Collected(PoolFields))
  /\ edited' = edited \ PoolFields
  /\ UNCHANGED <<form, badge, canMode, screen>>

\* The pool page lists the pairs anew whenever it comes up, and then every second.
TurnTo(pool) ==
  /\ onPool' = pool
  /\ listed' = IF pool THEN ListOf(settings) ELSE listed
  /\ UNCHANGED <<settings, kept, form, edited, copies>>
-----------------------------------------------------------------------------
(* The other writers                                                       *)

\* Mutant of WritePairs: the settings page does not hear of it.
WritePairsQuietly(pairs) ==
  /\ settings' = [settings EXCEPT !.pairs = pairs]
  /\ SaveConfig /\ listed' = pairs
  /\ UNCHANGED <<form, edited, copies, onPool>>

\* _scan_persist; pairs_changed reloads the settings page's form, other edits in it
\* included.
WritePairs(pairs) ==
  /\ settings' = [settings EXCEPT !.pairs = pairs]
  /\ SaveConfig /\ listed' = pairs
  /\ \E g \in FormsOf(settings') :
       form' = [f \in Fields |-> IF f \in FormFields THEN g[f] ELSE form[f]]
  /\ edited' = edited \ FormFields
  /\ UNCHANGED <<copies, onPool>>

\* Those that are not saved yet (import_sni_pairs, _scan_add_rows).
NewAmong(found) == found \ settings.pairs

\* Nothing happens unless one of them is new.
SaveNew(found) ==
  onPool /\ NewAmong(found) # {} /\ WritePairs(settings.pairs \cup NewAmong(found))

\* Rows of the sweep's table, or a file.
AddFound == \E rows \in SUBSET SavedPairs : SaveNew(rows)
ImportFile == \E found \in SUBSET SavedPairs : SaveNew(found)

RemoveRows ==
  onPool /\ \E rows \in SUBSET SavedPairs \ {{}} : WritePairs(settings.pairs \ rows)

ClearPairs == onPool /\ settings.pairs # {} /\ WritePairs({})

\* A profile is selected: one that a core runs needs the tunnel.
ChooseProfile ==
  /\ ~onPool /\ canMode' \in BOOLEAN
  /\ IF settings.mode = "SNI Only"
     THEN /\ Keep([settings EXCEPT !.mode = "Tunnel"])
          /\ form' = [form EXCEPT !.mode = "Tunnel"] /\ edited' = edited \ {"mode"}
          /\ badge' = "Tunnel"
     ELSE UNCHANGED <<settings, kept, conf, form, edited, badge>>
  /\ UNCHANGED screen

SelectNothing ==
  /\ ~onPool /\ canMode' = TRUE
  /\ UNCHANGED <<settings, kept, conf, form, edited, badge, screen>>

\* The strategy page: the switch of the automatic prober, and a card, which turns the
\* prober off.
SetProber(s) ==
  /\ ~onPool
  /\ Keep([settings EXCEPT !.strategy = s])
  /\ UNCHANGED <<form, edited, badge, canMode, screen>>
SwitchProber == \E s \in {"auto", "manual"} : SetProber(s)
PickCard == SetProber("manual")

\* A setting that is left out is saved: the theme.
SaveTheme == SaveConfig /\ UNCHANGED <<settings, form, edited, copies, screen>>
-----------------------------------------------------------------------------
SettingsNext ==
  \/ Rebuild
  \/ EditMode \/ EditOther \/ PickSni \/ AddPair \/ RemovePair \/ SaveForm \/ SavePoolForm
  \/ \E pool \in BOOLEAN : TurnTo(pool)
  \/ AddFound \/ ImportFile \/ RemoveRows \/ ClearPairs
  \/ ChooseProfile \/ SelectNothing \/ SwitchProber \/ PickCard
  \/ SaveTheme

SettingsSpec == SettingsInit /\ [][SettingsNext]_settingsVars

\* No copy is stale, whatever became of the writes to the file: a save of the form
\* changes what the user has edited and nothing another page has written since, but for
\* an address that is missing and was filled in with one saved for the SNI; the
\* dashboard names the mode in force; the pool page lists the pairs in force; the
\* engine starts from the settings in force.
CopiesAgree ==
  /\ \A f \in (Fields \ {"ip"}) \ edited : form[f] = settings[f]
  /\ "ip" \notin edited => form.ip \in {settings.ip} \cup Filled(settings)
  /\ badge = settings.mode
  /\ onPool => listed = settings.pairs
  /\ conf = ConfOf(settings)
=============================================================================
