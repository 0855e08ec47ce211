----------------------------- MODULE DeskProofs -----------------------------
(***************************************************************************)
(* What holds of the settings, of the measuring threads and of the bypass  *)
(* method, and of the desk they share with the window, the list and the    *)
(* scans: the desk is each of its parts, side by side.                     *)
(*                                                                         *)
(* Settings: every writer hands what it has written to each copy, or       *)
(* leaves the field to the user's edit.                                    *)
(*                                                                         *)
(* Measuring threads: a thread is between taking the lock and releasing it *)
(* exactly while locked names it, so the threads write xray_config.json    *)
(* one at a time; a core that is launched but has not read the file yet    *)
(* has its thread waiting inside the lock, so the file still holds that    *)
(* thread's configuration, unless the live tunnel has written its own.     *)
(*                                                                         *)
(* Bypass method: a chain holds no strategy twice, so a place in it, with  *)
(* an IP, says all that was in force before; and the two counters count no *)
(* more than what was heard of the strategy in force.                      *)
(***************************************************************************)
EXTENDS MCDesk, WindowProofs, ListProofs, ScanProofs

-----------------------------------------------------------------------------
(* The settings                                                            *)

\* The settings and the form have the fields they should have.
Shaped ==
  /\ settings = [f \in Names |-> settings[f]]
  /\ form = [f \in Fields |-> form[f]]

SettingsInv == Shaped /\ CopiesAgree

USE DEF Names, Fields, FormFields, PoolFields

LEMMA StoresShaped ==
  ASSUME NEW s \in Stores \cup {Defaults}
  PROVE  s = [f \in Names |-> s[f]]
BY DEF Defaults, Stores

\* What the widgets show of the settings is what is in them, the IP aside.
LEMMA FormsShow ==
  ASSUME NEW s, NEW g \in FormsOf(s)
  PROVE  /\ g = [f \in Fields |-> g[f]]
         /\ \A f \in Fields \ {"ip"} : g[f] = s[f]
         /\ g["ip"] \in Filled(s)
BY DEF FormsOf

\* Which IPs a field without one is filled with depends on three of the fields.
LEMMA FilledSame ==
  ASSUME NEW s, NEW t, s.ip = t.ip, s.sni = t.sni, s.pairs = t.pairs
  PROVE  Filled(s) = Filled(t)
BY DEF Filled, IpsFor

\* Copies that are made of one and the same store agree with it.
LEMMA LoadAgrees ==
  ASSUME NEW s \in Stores \cup {Defaults}, settings' = s, form' \in FormsOf(s),
         badge' = s.mode, listed' = ListOf(s), conf' = ConfOf(s)
  PROVE  SettingsInv'
<1>1. settings' = [f \in Names |-> settings'[f]]
  BY StoresShaped
<1>2. /\ form' = [f \in Fields |-> form'[f]]
      /\ \A f \in Fields \ {"ip"} : form'[f] = s[f]
      /\ form'["ip"] \in Filled(s)
  BY FormsShow
<1>3. CopiesAgree'
  BY <1>2 DEF CopiesAgree, ListOf
<1>4. QED
  BY <1>1, <1>2, <1>3 DEF SettingsInv, Shaped

LEMMA SettingsInitOK == ASSUME SettingsInit PROVE SettingsInv
<1>1. /\ settings = Defaults /\ form \in FormsOf(Defaults) /\ badge = Defaults.mode
      /\ conf = ConfOf(Defaults) /\ listed = ListOf(Defaults)
  BY DEF SettingsInit
<1>2. settings = [f \in Names |-> settings[f]]
  BY <1>1, StoresShaped
<1>3. /\ form = [f \in Fields |-> form[f]]
      /\ \A f \in Fields \ {"ip"} : form[f] = settings[f]
      /\ form["ip"] \in Filled(settings)
  BY <1>1, FormsShow
<1>4. CopiesAgree
  BY <1>1, <1>3 DEF CopiesAgree, ListOf
<1>5. QED
  BY <1>2, <1>3, <1>4 DEF SettingsInv, Shaped

\* The window is built anew.
LEMMA RebuildStep == ASSUME SettingsInv, Rebuild PROVE SettingsInv'
<1>1. PICK s \in {Defaults} \cup (IF kept THEN {settings} ELSE OldFiles), ok \in BOOLEAN :
        Load(s, ok)
  BY DEF Rebuild
<1>2. /\ settings' = s /\ form' \in FormsOf(s) /\ badge' = s.mode
      /\ listed' = ListOf(s) /\ conf' = ConfOf(s)
  BY <1>1 DEF Load
<1>3. CASE s \in Stores \cup {Defaults}
  BY <1>2, <1>3, LoadAgrees
<1>4. CASE s = settings
  <2>1. settings' = [f \in Names |-> settings'[f]]
    BY <1>2, <1>4 DEF SettingsInv, Shaped
  <2>2. /\ form' = [f \in Fields |-> form'[f]]
        /\ \A f \in Fields \ {"ip"} : form'[f] = s[f]
        /\ form'["ip"] \in Filled(s)
    BY <1>2, FormsShow
  <2>3. CopiesAgree'
    BY <1>2, <2>2 DEF CopiesAgree, ListOf
  <2>4. QED
    BY <2>1, <2>2, <2>3 DEF SettingsInv, Shaped
<1>5. QED
  BY <1>1, <1>3, <1>4, SettingsAssumption

\* What a writer leaves in the store keeps the fields.
LEMMA KeepShaped ==
  ASSUME Shaped, NEW f \in Names, NEW value
  PROVE  /\ [settings EXCEPT ![f] = value] = [g \in Names |-> IF g = f THEN value ELSE settings[g]]
         /\ f \in Fields => [form EXCEPT ![f] = value] =
                              [g \in Fields |-> IF g = f THEN value ELSE form[g]]
BY DEF Shaped

\* A field that differs from the store is one the user has edited, or the IP that was
\* filled in.
LEMMA EditFieldStep ==
  ASSUME SettingsInv, NEW f \in Fields, NEW value, EditForm(f, value)
  PROVE  SettingsInv'
<1>1. form' = [g \in Fields |-> IF g = f THEN value ELSE form[g]]
  BY KeepShaped DEF SettingsInv, EditForm
<1>2. UNCHANGED <<settings, badge, onPool, listed, conf>> /\ edited' = edited \cup {f}
  BY DEF EditForm, copies, screen
<1>3. QED
  BY <1>1, <1>2 DEF SettingsInv, Shaped, CopiesAgree

LEMMA PickSniStep == ASSUME SettingsInv, PickSni PROVE SettingsInv'
<1>1. PICK sni, ip : form' = [form EXCEPT !.sni = sni, !.ip = ip]
  BY DEF PickSni
<1>2. form' = [g \in Fields |-> IF g = "ip" THEN ip ELSE IF g = "sni" THEN sni ELSE form[g]]
  BY <1>1 DEF SettingsInv, Shaped
<1>3. UNCHANGED <<settings, badge, onPool, listed, conf>> /\ edited' = edited \cup {"sni", "ip"}
  BY DEF PickSni, copies, screen
<1>4. QED
  BY <1>2, <1>3 DEF SettingsInv, Shaped, CopiesAgree

\* A saved form is what is in the store, in its fields.
LEMMA SaveStep == ASSUME SettingsInv, SaveForm \/ SavePoolForm PROVE SettingsInv'
<1>1. \A fields : Collected(fields) =
        [g \in Names |-> IF g \in fields THEN form[g] ELSE settings[g]]
  BY DEF SettingsInv, Shaped, Collected
<1>2. CASE SaveForm
  <2>1. settings' = [g \in Names |-> IF g \in FormFields THEN form[g] ELSE settings[g]]
    BY <1>1, <1>2 DEF SaveForm, Keep
  <2>2. QED
    BY <1>2, <2>1 DEF SettingsInv, Shaped, CopiesAgree, SaveForm, Keep, screen
<1>3. CASE SavePoolForm
  <2>1. settings' = [g \in Names |-> IF g \in PoolFields THEN form[g] ELSE settings[g]]
    BY <1>1, <1>3 DEF SavePoolForm, Keep
  <2>2. Filled(settings') = Filled(settings)
    BY <2>1, FilledSame
  <2>3. QED
    BY <1>3, <2>1, <2>2 DEF SettingsInv, Shaped, CopiesAgree, SavePoolForm, Keep, screen
<1>4. QED BY <1>2, <1>3

\* The pool page writes the pairs and hands them to the settings page and its list.
LEMMA PairsStep ==
  ASSUME SettingsInv, NEW pairs, WritePairs(pairs)
  PROVE  SettingsInv'
<1>1. settings' = [g \in Names |-> IF g = "pairs" THEN pairs ELSE settings[g]]
  BY KeepShaped DEF SettingsInv, WritePairs
<1>2. PICK g \in FormsOf(settings') :
        form' = [f \in Fields |-> IF f \in FormFields THEN g[f] ELSE form[f]]
  BY DEF WritePairs
<1>3. /\ \A f \in Fields \ {"ip"} : g[f] = settings'[f]
      /\ g["ip"] \in Filled(settings')
  BY FormsShow
<1>4. conf = ConfOf(settings')
  BY <1>1 DEF SettingsInv, CopiesAgree, ConfOf
<1>5. UNCHANGED <<badge, conf, onPool>> /\ listed' = pairs /\ edited' = edited \ FormFields
  BY DEF WritePairs, copies
<1>6. CopiesAgree'
  BY <1>1, <1>2, <1>3, <1>4, <1>5 DEF SettingsInv, CopiesAgree
<1>7. QED
  BY <1>1, <1>2, <1>6 DEF SettingsInv, Shaped

\* A profile that a core runs needs the tunnel: the mode is written everywhere.
LEMMA ProfileStep == ASSUME SettingsInv, ChooseProfile PROVE SettingsInv'
<1>1. CASE settings.mode = "SNI Only"
  <2>1. /\ settings' = [g \in Names |-> IF g = "mode" THEN "Tunnel" ELSE settings[g]]
        /\ form' = [g \in Fields |-> IF g = "mode" THEN "Tunnel" ELSE form[g]]
    BY <1>1, KeepShaped DEF SettingsInv, ChooseProfile, Keep
  <2>2. Filled(settings') = Filled(settings)
    BY <2>1, FilledSame
  <2>3. QED
    BY <1>1, <2>1, <2>2 DEF SettingsInv, Shaped, CopiesAgree, ChooseProfile, Keep, screen
<1>2. CASE settings.mode # "SNI Only"
  BY <1>2 DEF SettingsInv, Shaped, CopiesAgree, ChooseProfile, screen
<1>3. QED BY <1>1, <1>2

LEMMA ProberStep == ASSUME SettingsInv, NEW s, SetProber(s) PROVE SettingsInv'
<1>1. settings' = [g \in Names |-> IF g = "strategy" THEN s ELSE settings[g]]
  BY KeepShaped DEF SettingsInv, SetProber, Keep
<1>2. Filled(settings') = Filled(settings)
  BY <1>1, FilledSame
<1>3. QED
  BY <1>1, <1>2 DEF SettingsInv, Shaped, CopiesAgree, SetProber, Keep, screen

\* SettingsInv is inductive ...
THEOREM SettingsInvariant == SettingsSpec => []SettingsInv
<1>1. SettingsInv /\ [SettingsNext]_settingsVars => SettingsInv'
  <2> SUFFICES ASSUME SettingsInv, [SettingsNext]_settingsVars PROVE SettingsInv'
    OBVIOUS
  <2>1. CASE Rebuild BY <2>1, RebuildStep
  <2>2. CASE EditMode \/ EditOther \/ AddPair \/ RemovePair
    BY <2>2, EditFieldStep DEF EditMode, EditOther, AddPair, RemovePair
  <2>3. CASE PickSni BY <2>3, PickSniStep
  <2>4. CASE SaveForm \/ SavePoolForm BY <2>4, SaveStep
  <2>5. ASSUME NEW pool \in BOOLEAN, TurnTo(pool) PROVE SettingsInv'
    BY <2>5 DEF SettingsInv, Shaped, CopiesAgree, TurnTo, ListOf, copies
  <2>6. CASE AddFound \/ ImportFile \/ RemoveRows \/ ClearPairs
    BY <2>6, PairsStep DEF AddFound, ImportFile, SaveNew, RemoveRows, ClearPairs
  <2>7. CASE ChooseProfile BY <2>7, ProfileStep
  <2>8. CASE SelectNothing
    BY <2>8 DEF SettingsInv, Shaped, CopiesAgree, SelectNothing, screen
  <2>9. CASE SwitchProber \/ PickCard
    BY <2>9, ProberStep DEF SwitchProber, PickCard
  <2>10. CASE SaveTheme
    BY <2>10 DEF SettingsInv, Shaped, CopiesAgree, SaveTheme, copies, screen
  <2>11. CASE UNCHANGED settingsVars
    BY <2>11 DEF SettingsInv, Shaped, CopiesAgree, settingsVars, copies, screen
  <2>12. QED
    BY <2>1, <2>2, <2>3, <2>4, <2>5, <2>6, <2>7, <2>8, <2>9, <2>10, <2>11 DEF SettingsNext
<1>2. QED
  BY SettingsInitOK, <1>1, PTL DEF SettingsSpec

\* ... so no writer of the settings leaves another page, the dashboard or the engine
\* with what was there before, whether or not the file could be written; only a form
\* without an address shows one that is not in the settings, a saved one of its SNI.
THEOREM SettingsAgree == SettingsSpec => []CopiesAgree
<1>1. SettingsInv => CopiesAgree
  BY DEF SettingsInv
<1>2. QED
  BY SettingsInvariant, <1>1, PTL

\* A store is a value of its type for each of its fields.
LEMMA StoreFields ==
  /\ \A s \in Stores : \A f \in Names : s[f] \in Values(f)
  /\ \A s : s = [f \in Names |-> s[f]] /\ (\A f \in Names : s[f] \in Values(f)) => s \in Stores
<1>1. ASSUME NEW s \in Stores, NEW f \in Names PROVE s[f] \in Values(f)
  BY DEF Stores
<1>2. ASSUME NEW s, s = [f \in Names |-> s[f]], \A f \in Names : s[f] \in Values(f)
      PROVE  s \in Stores
  <2>1. /\ s.mode \in Values("mode") /\ s.sni \in Values("sni") /\ s.ip \in Values("ip")
        /\ s.pairs \in Values("pairs") /\ s.pool \in Values("pool")
        /\ s.strategy \in Values("strategy")
    BY <1>2
  <2>2. s = [mode |-> s.mode, sni |-> s.sni, ip |-> s.ip, pairs |-> s.pairs,
             pool |-> s.pool, strategy |-> s.strategy]
    BY <1>2
  <2>3. QED
    BY <2>1, <2>2 DEF Stores
<1>3. QED
  BY <1>1, <1>2

\* The IP of a saved pair is an IP.
LEMMA FilledTyped ==
  ASSUME NEW s, s.ip \in Values("ip"), s.pairs \in Values("pairs")
  PROVE  Filled(s) \subseteq Values("ip")
BY DEF Filled, IpsFor, Values, SavedPairs

LEMMA DefaultsTyped == Defaults \in Stores
BY SettingsAssumption DEF Defaults, Stores, Values, Modes, SavedPairs

\* The switches of the window, and whether the file was written.
Switches == canMode \in BOOLEAN /\ onPool \in BOOLEAN /\ kept \in BOOLEAN

LEMMA SwitchesStep == ASSUME Switches, SettingsNext PROVE Switches'
<1>1. kept' = kept \/ kept' = TRUE \/ kept' \in BOOLEAN
  BY DEF SettingsNext, Rebuild, Load, EditMode, EditOther, PickSni, AddPair, RemovePair, EditForm,
     SaveForm, SavePoolForm, Keep, SaveConfig, TurnTo, AddFound, ImportFile, SaveNew, RemoveRows,
     ClearPairs, WritePairs, ChooseProfile, SelectNothing, SwitchProber, PickCard, SetProber,
     SaveTheme
<1>2. \/ UNCHANGED <<canMode, onPool>>
      \/ \E ok \in BOOLEAN : canMode' = ok /\ onPool' = FALSE
      \/ \E pool \in BOOLEAN : onPool' = pool /\ canMode' = canMode
      \/ canMode' \in BOOLEAN /\ onPool' = onPool
      \/ canMode' = TRUE /\ onPool' = onPool
  BY DEF SettingsNext, Rebuild, Load, EditMode, EditOther, PickSni, AddPair, RemovePair, EditForm,
     SaveForm, SavePoolForm, TurnTo, AddFound, ImportFile, SaveNew, RemoveRows, ClearPairs,
     WritePairs, ChooseProfile, SelectNothing, SwitchProber, PickCard, SetProber, SaveTheme,
     copies, screen
<1>3. QED
  BY <1>1, <1>2, Zenon DEF Switches

\* The values in the store, the form and the list.
Contents ==
  /\ \A f \in Names : settings[f] \in Values(f)
  /\ \A f \in Fields : form[f] \in Values(f)
  /\ edited \subseteq Fields /\ listed \in Values("pairs")

\* What is loaded from a store is of its types.
LEMMA LoadTyped ==
  ASSUME NEW s, \A f \in Names : s[f] \in Values(f), NEW g \in FormsOf(s)
  PROVE  (\A f \in Fields : g[f] \in Values(f)) /\ ListOf(s) \in Values("pairs")
<1>1. (\A f \in Fields \ {"ip"} : g[f] = s[f]) /\ g["ip"] \in Filled(s)
  BY FormsShow
<1>2. Filled(s) \subseteq Values("ip")
  BY FilledTyped
<1>3. QED
  BY <1>1, <1>2 DEF ListOf

LEMMA EditTyped ==
  ASSUME Contents, Shaped, NEW f \in Fields, NEW value \in Values(f), EditForm(f, value)
  PROVE  Contents'
<1>1. form' = [g \in Fields |-> IF g = f THEN value ELSE form[g]]
  BY KeepShaped DEF EditForm
<1>2. UNCHANGED <<settings, listed>> /\ edited' = edited \cup {f}
  BY DEF EditForm, screen
<1>3. QED
  BY <1>1, <1>2 DEF Contents

LEMMA PickTyped == ASSUME Contents, Shaped, PickSni PROVE Contents'
<1>1. PICK sni \in Snis :
        \E ip \in {form.ip} \cup IpsFor(form.pairs, sni) :
          form' = [form EXCEPT !.sni = sni, !.ip = ip]
  BY DEF PickSni
<1>2. PICK ip \in {form.ip} \cup IpsFor(form.pairs, sni) :
        form' = [form EXCEPT !.sni = sni, !.ip = ip]
  BY <1>1
<1>3. form' = [g \in Fields |-> IF g = "ip" THEN ip ELSE IF g = "sni" THEN sni ELSE form[g]]
  BY <1>2 DEF Shaped
<1>4. form.pairs \in Values("pairs") /\ form.ip \in Values("ip")
  BY DEF Contents
<1>5. sni \in Values("sni") /\ ip \in Values("ip")
  BY <1>2, <1>4 DEF Values, SavedPairs, IpsFor
<1>6. UNCHANGED <<settings, listed>> /\ edited' = edited \cup {"sni", "ip"}
  BY DEF PickSni, screen
<1>7. QED
  BY <1>3, <1>5, <1>6 DEF Contents

LEMMA SaveTyped == ASSUME Contents, Shaped, SaveForm \/ SavePoolForm PROVE Contents'
<1>1. \A fields \in {FormFields, PoolFields} : \A f \in Names :
        Collected(fields)[f] \in Values(f)
  BY DEF Contents, Shaped, Collected
<1>2. \A f \in Names : settings'[f] \in Values(f)
  BY <1>1 DEF SaveForm, SavePoolForm, Keep
<1>3. QED
  BY <1>2 DEF Contents, SaveForm, SavePoolForm, screen

LEMMA WriteTyped ==
  ASSUME Contents, Shaped, NEW pairs \in Values("pairs"), WritePairs(pairs)
  PROVE  Contents'
<1>1. settings' = [f \in Names |-> IF f = "pairs" THEN pairs ELSE settings[f]]
  BY KeepShaped DEF WritePairs
<1>2. \A f \in Names : settings'[f] \in Values(f)
  BY <1>1 DEF Contents
<1>3. PICK g \in FormsOf(settings') :
        form' = [f \in Fields |-> IF f \in FormFields THEN g[f] ELSE form[f]]
  BY DEF WritePairs
<1>4. \A f \in Fields : g[f] \in Values(f)
  BY <1>2, LoadTyped
<1>5. QED
  BY <1>2, <1>3, <1>4 DEF Contents, WritePairs

\* One field of the store is set to a value of its own.
LEMMA SetTyped ==
  ASSUME Contents, Shaped, NEW f \in Names, NEW value \in Values(f)
  PROVE  /\ \A g \in Names : [settings EXCEPT ![f] = value][g] \in Values(g)
         /\ f \in Fields => \A g \in Fields : [form EXCEPT ![f] = value][g] \in Values(g)
BY KeepShaped DEF Contents

LEMMA ContentsStep == ASSUME Contents, [SettingsNext]_settingsVars, SettingsInv PROVE Contents'
<1>1. CASE Rebuild
  <2>1. PICK s \in {Defaults} \cup (IF kept THEN {settings} ELSE OldFiles), ok \in BOOLEAN :
          Load(s, ok)
    BY <1>1 DEF Rebuild
  <2>2. \A f \in Names : s[f] \in Values(f)
    BY <2>1, StoreFields, DefaultsTyped, SettingsAssumption DEF Contents
  <2>3. QED
    BY <2>1, <2>2, LoadTyped DEF Load, Contents
<1>2. CASE EditMode
  <2>1. \E mode \in Values("mode") : EditForm("mode", mode)
    BY <1>2 DEF EditMode, Values
  <2>2. QED
    BY <2>1, EditTyped DEF SettingsInv
<1>3. CASE EditOther
  BY <1>3, EditTyped DEF EditOther, SettingsInv
<1>4. CASE AddPair \/ RemovePair
  <2>1. form.pairs \in SUBSET SavedPairs
    BY DEF Contents, Values
  <2>2. \E pairs \in SUBSET SavedPairs : EditForm("pairs", pairs)
    BY <1>4, <2>1 DEF AddPair, RemovePair
  <2>3. QED
    BY <2>2, EditTyped DEF SettingsInv, Values
<1>5. CASE PickSni
  BY <1>5, PickTyped DEF SettingsInv
<1>6. CASE SaveForm \/ SavePoolForm
  BY <1>6, SaveTyped DEF SettingsInv
<1>7. CASE \E pool \in BOOLEAN : TurnTo(pool)
  BY <1>7 DEF TurnTo, ListOf, Contents
<1>8. CASE AddFound \/ ImportFile \/ RemoveRows \/ ClearPairs
  <2>1. settings.pairs \in SUBSET SavedPairs
    BY DEF Contents, Values
  <2>2. \E pairs \in SUBSET SavedPairs : WritePairs(pairs)
    BY <1>8, <2>1 DEF AddFound, ImportFile, SaveNew, NewAmong, RemoveRows, ClearPairs
  <2>3. QED
    BY <2>2, WriteTyped DEF SettingsInv, Values
<1>9. CASE ChooseProfile
  <2>1. "Tunnel" \in Values("mode")
    BY DEF Values, Modes
  <2>2. /\ \A f \in Names : [settings EXCEPT !.mode = "Tunnel"][f] \in Values(f)
        /\ \A f \in Fields : [form EXCEPT !.mode = "Tunnel"][f] \in Values(f)
    BY <2>1, SetTyped DEF SettingsInv
  <2>3. QED
    BY <1>9, <2>2 DEF ChooseProfile, Keep, screen, Contents
<1>10. CASE SelectNothing \/ SaveTheme
  BY <1>10 DEF SelectNothing, SaveTheme, screen, Contents
<1>11. CASE SwitchProber \/ PickCard
  <2>1. PICK s \in {"auto", "manual"} : SetProber(s)
    BY <1>11 DEF SwitchProber, PickCard
  <2>2. s \in Values("strategy")
    BY DEF Values
  <2>3. \A f \in Names : [settings EXCEPT !.strategy = s][f] \in Values(f)
    BY <2>2, SetTyped DEF SettingsInv
  <2>4. QED
    BY <2>1, <2>3 DEF SetProber, Keep, screen, Contents
<1>12. CASE UNCHANGED settingsVars
  BY <1>12 DEF settingsVars, screen, Contents
<1>13. QED
  BY <1>1, <1>2, <1>3, <1>4, <1>5, <1>6, <1>7, <1>8, <1>9, <1>10, <1>11, <1>12 DEF SettingsNext

\* Every copy of the settings is one of values its widgets can show.
THEOREM SettingsTypes == SettingsSpec => []SettingsTypeOK
<1>1. SettingsInit => Contents /\ Switches
  <2> SUFFICES ASSUME SettingsInit PROVE Contents /\ Switches
    OBVIOUS
  <2>1. Contents
    <3>1. settings = Defaults /\ form \in FormsOf(settings) /\ edited = {}
          /\ listed = ListOf(settings)
      BY DEF SettingsInit
    <3>2. \A f \in Names : settings[f] \in Values(f)
      BY <3>1, StoreFields, DefaultsTyped
    <3>3. QED
      BY <3>1, <3>2, LoadTyped DEF Contents
  <2>2. Switches
    BY Zenon DEF SettingsInit, Switches
  <2>3. QED
    BY <2>1, <2>2
<1>2. Contents /\ Switches /\ SettingsInv /\ [SettingsNext]_settingsVars => Contents' /\ Switches'
  <2> SUFFICES ASSUME Contents, Switches, SettingsInv, [SettingsNext]_settingsVars
               PROVE  Contents' /\ Switches'
    OBVIOUS
  <2>1. Contents'
    BY ContentsStep
  <2>2. CASE UNCHANGED settingsVars
    <3>1. UNCHANGED <<kept, canMode, onPool>>
      BY <2>2 DEF settingsVars, copies, screen
    <3>2. Switches'
      BY <3>1, Zenon DEF Switches
    <3>3. QED
      BY <2>1, <3>2
  <2>3. QED
    BY <2>1, <2>2, SwitchesStep
<1>3. Contents /\ Switches /\ SettingsInv => SettingsTypeOK
  <2> SUFFICES ASSUME Contents, Switches, SettingsInv PROVE SettingsTypeOK
    OBVIOUS
  <2>1. settings \in Stores
    BY StoreFields DEF Contents, SettingsInv, Shaped
  <2>2. badge \in Modes /\ listed \subseteq SavedPairs /\ edited \subseteq Fields
    BY DEF Contents, SettingsInv, CopiesAgree, Values
  <2>3. DOMAIN form = Fields /\ \A f \in Fields : form[f] \in Values(f)
    BY DEF Contents, SettingsInv, Shaped
  <2>4. DOMAIN conf = Names \ {"pairs"} /\ \A f \in DOMAIN conf : conf[f] \in Values(f)
    BY DEF Contents, SettingsInv, CopiesAgree, ConfOf
  <2>5. {kept, canMode, onPool} \subseteq BOOLEAN
    BY Zenon DEF Switches
  <2>6. QED
    BY <2>1, <2>2, <2>3, <2>4, <2>5 DEF SettingsTypeOK
<1>4. QED
  BY <1>1, <1>2, <1>3, SettingsInvariant, PTL DEF SettingsSpec

HIDE DEF Names, Fields, FormFields, PoolFields
-----------------------------------------------------------------------------
(* The measuring threads                                                   *)

\* What a thread holds, at each of its places.
Holds(w) ==
  /\ locked = w <=> at[w] \in {"spoofing", "launching", "settling"}
  /\ core[w] # "none" => at[w] \in {"settling", "asking", "closing"}
  /\ core[w] = "launched" => at[w] = "settling" /\ written \in {w, Engine}
  /\ spoofer[w] = "up" => at[w] \in {"launching", "settling", "asking", "closing"}
  /\ core[w] \in Probers => core[w] = w
  /\ at[w] = "idle" => tries[w] = 0
  /\ at[w] = "waiting" => tries[w] < MaxTries(w)

\* A process that was launched had a configuration written for it.
Launched == core[Engine] # "none" => written # Nobody

MeasureInv == MeasureTypeOK /\ Launched /\ \A w \in Probers : Holds(w)

LEMMA MeasureInitOK == ASSUME MeasureInit PROVE MeasureInv
BY MeasureAssumption DEF MeasureInit, MeasureInv, MeasureTypeOK, Holds, Launched, Owners, MaxTries

\* Every step keeps the types ...
LEMMA MeasureTypeStep ==
  ASSUME MeasureInv, MeasureNext
  PROVE  MeasureTypeOK'
<1> USE DEF MeasureInv, MeasureTypeOK, Owners, Goes
<1>1. ASSUME NEW w \in Probers, Asked(w) PROVE MeasureTypeOK'
  BY <1>1 DEF Asked
<1>2. ASSUME NEW w \in Probers, AskLive(w) PROVE MeasureTypeOK'
  BY <1>2 DEF AskLive
<1>3. ASSUME NEW w \in Probers, TakeLock(w) PROVE MeasureTypeOK'
  BY <1>3 DEF TakeLock, Holds, MaxTries
<1>4. ASSUME NEW w \in Probers, SpooferStarts(w) PROVE MeasureTypeOK'
  BY <1>4 DEF SpooferStarts
<1>5. ASSUME NEW w \in Probers, SpooferFails(w) PROVE MeasureTypeOK'
  BY <1>5 DEF SpooferFails, AttemptOver
<1>6. ASSUME NEW w \in Probers, CoreLaunch(w) PROVE MeasureTypeOK'
  BY <1>6 DEF CoreLaunch
<1>7. ASSUME NEW w \in Probers, CoreFails(w) PROVE MeasureTypeOK'
  BY <1>7 DEF CoreFails, AttemptOver, Stopped
<1>8. ASSUME NEW w \in Probers, Settled(w) PROVE MeasureTypeOK'
  BY <1>8 DEF Settled
<1>9. ASSUME NEW w \in Probers, AskThrough(w) PROVE MeasureTypeOK'
  BY <1>9 DEF AskThrough
<1>10. ASSUME NEW w \in Probers, Close(w) PROVE MeasureTypeOK'
  BY <1>10 DEF Close, AttemptOver, Stopped
<1>11. ASSUME NEW o \in Owners, CoreReads(o) PROVE MeasureTypeOK'
  BY <1>11, MeasureAssumption DEF CoreReads, Holds, Launched
<1>12. CASE LiveLaunch \/ LiveStop
  BY <1>12 DEF LiveLaunch, LiveStop
<1>13. QED
  BY <1>1, <1>2, <1>3, <1>4, <1>5, <1>6, <1>7, <1>8, <1>9, <1>10, <1>11, <1>12
  DEF MeasureNext, Steps

\* ... and that the file has been written ...
LEMMA LaunchedStep ==
  ASSUME MeasureInv, MeasureNext
  PROVE  Launched'
<1> USE MeasureAssumption DEF MeasureInv, MeasureTypeOK, Owners, Launched
<1>1. CASE core'[Engine] = core[Engine] /\ (written' = written \/ written' \in Owners)
  BY <1>1
<1>2. CASE LiveLaunch \/ LiveStop \/ CoreReads(Engine)
  BY <1>2 DEF LiveLaunch, LiveStop, CoreReads
<1>3. MeasureNext => \/ core'[Engine] = core[Engine]
                       /\ (written' = written \/ written' \in Owners)
                    \/ LiveLaunch \/ LiveStop \/ CoreReads(Engine)
  BY DEF MeasureNext, Steps, Asked, AskLive, TakeLock, SpooferStarts, SpooferFails,
         CoreLaunch, CoreFails, Settled, AskThrough, Close, CoreReads
<1>4. QED
  BY <1>1, <1>2, <1>3

\* ... and what each thread holds.  u is the thread that steps, w any other or the
\* same.
LEMMA HeldStep ==
  ASSUME MeasureInv, MeasureNext, NEW w \in Probers
  PROVE  Holds(w)'
<1> USE MeasureAssumption DEF MeasureInv, MeasureTypeOK, Owners, Goes, Holds, MaxTries
<1>1. ASSUME NEW u \in Probers, Asked(u) PROVE Holds(w)'
  BY <1>1 DEF Asked
<1>2. ASSUME NEW u \in Probers, AskLive(u) PROVE Holds(w)'
  BY <1>2 DEF AskLive
<1>3. ASSUME NEW u \in Probers, TakeLock(u) PROVE Holds(w)'
  BY <1>3 DEF TakeLock
<1>4. ASSUME NEW u \in Probers, SpooferStarts(u) PROVE Holds(w)'
  BY <1>4 DEF SpooferStarts
<1>5. ASSUME NEW u \in Probers, SpooferFails(u) PROVE Holds(w)'
  BY <1>5 DEF SpooferFails, AttemptOver
<1>6. ASSUME NEW u \in Probers, CoreLaunch(u) PROVE Holds(w)'
  BY <1>6 DEF CoreLaunch
<1>7. ASSUME NEW u \in Probers, CoreFails(u) PROVE Holds(w)'
  BY <1>7 DEF CoreFails, AttemptOver, Stopped
<1>8. ASSUME NEW u \in Probers, Settled(u) PROVE Holds(w)'
  BY <1>8 DEF Settled
<1>9. ASSUME NEW u \in Probers, AskThrough(u) PROVE Holds(w)'
  BY <1>9 DEF AskThrough
<1>10. ASSUME NEW u \in Probers, Close(u) PROVE Holds(w)'
  BY <1>10 DEF Close, AttemptOver, Stopped
<1>11. ASSUME NEW o \in Owners, CoreReads(o) PROVE Holds(w)'
  BY <1>11 DEF CoreReads
<1>12. CASE LiveLaunch \/ LiveStop
  BY <1>12 DEF LiveLaunch, LiveStop
<1>13. QED
  BY <1>1, <1>2, <1>3, <1>4, <1>5, <1>6, <1>7, <1>8, <1>9, <1>10, <1>11, <1>12
  DEF MeasureNext, Steps

\* The invariant, and with it the threads' types, in every reachable state.
THEOREM MeasureInvariant == MeasureSpec => []MeasureInv
<1>1. MeasureInit => MeasureInv
  BY MeasureInitOK
<1>2. MeasureInv /\ [MeasureNext]_measureVars => MeasureInv'
  <2>1. ASSUME MeasureInv, MeasureNext PROVE MeasureInv'
    <3>1. MeasureTypeOK'
      BY <2>1, MeasureTypeStep
    <3>2. \A w \in Probers : Holds(w)'
      BY <2>1, HeldStep
    <3>3. Launched'
      BY <2>1, LaunchedStep
    <3>4. QED
      BY <3>1, <3>2, <3>3 DEF MeasureInv
  <2>2. ASSUME MeasureInv, UNCHANGED measureVars PROVE MeasureInv'
    BY <2>2 DEF measureVars, MeasureInv, MeasureTypeOK, Holds, Launched
  <2>3. QED
    BY <2>1, <2>2
<1>3. QED
  BY <1>1, <1>2, PTL DEF MeasureSpec

\* The lock does what it is for: no measurement's core runs the profile of another
\* measurement, although all of them are launched from one file.
THEOREM ProbesStayApart == MeasureSpec => []ProbesKeepApart
<1>1. MeasureInv => ProbesKeepApart
  BY DEF MeasureInv, Holds, ProbesKeepApart
<1>2. QED
  BY <1>1, MeasureInvariant, PTL

\* A measurement that has ended, or waits for its next attempt, holds no process,
\* no spoofer and no lock.
THEOREM MeasureCleansUp == MeasureSpec => []MeasureLeavesNothing
<1>1. MeasureInv => MeasureLeavesNothing
  BY DEF MeasureInv, Holds, MeasureLeavesNothing
<1>2. QED
  BY <1>1, MeasureInvariant, PTL
-----------------------------------------------------------------------------
(* The bypass method                                                       *)

LastIp == Max({NumIps, 1})

\* No element comes twice.
Distinct(s) == \A j, k \in 1..Len(s) : s[j] = s[k] => j = k

\* A chain is made while there is none, and has each strategy once.
ChainOK ==
  /\ step["start"] # "idle" => resilience = Off
  /\ Distinct(resilience)

\* What was in force is what lies behind the place, in the order of the rotation.
PlaceOK ==
  IF resilience = Off
  THEN place = [strategy |-> 1, ip |-> 1] /\ ~gaveUp
  ELSE /\ place.strategy \in 1..Len(resilience) /\ place.ip \in 1..LastIp
       /\ tried \subseteq ToSet(resilience) \X (1..LastIp)
       /\ \A k \in 1..Len(resilience), i \in 1..LastIp :
            <<resilience[k], i>> \in tried <=>
              i < place.ip \/ (i = place.ip /\ k <= place.strategy)
       /\ gaveUp => place.strategy = Len(resilience) /\ place.ip = LastIp

\* The controller counts what was heard of the strategy in force.
HeardOK == forged = heard.forged /\ Len(tail) <= heard.samples

BypassInv == BypassTypeOK /\ ChainOK /\ PlaceOK /\ HeardOK

\* What RotationEarned says of a step.
Earned ==
  /\ resilience' = resilience /\ place' # place =>
       /\ heard.forged + 1 >= RstBudget \/ heard.samples + 1 >= MinSamples
       /\ <<resilience[place'.strategy], place'.ip>> \notin tried
  /\ gaveUp' => tried = ToSet(resilience) \X (1..LastIp)

LEMMA LastIpOK == LastIp \in Nat /\ LastIp >= 1 /\ LastIp >= NumIps
                  /\ (LastIp = NumIps \/ LastIp = 1)
<1>1. NumIps \in Nat
  BY BypassAssumption
<1>2. QED
  BY <1>1, MoreOf DEF LastIp

\* The first of every element: what is in a list, once.
LEMMA FirstsOf ==
  ASSUME NEW S, NEW s \in Seq(S)
  PROVE  LET w == Pick(s, {k \in DOMAIN s : \A j \in 1..(k - 1) : s[j] # s[k]})
         IN w \in Seq(S) /\ Distinct(w)
<1> DEFINE I == {k \in DOMAIN s : \A j \in 1..(k - 1) : s[j] # s[k]}
           w == Pick(s, I)
           f == InOrder(I)
<1>1. DOMAIN s = 1..Len(s) /\ I \in SUBSET (1..Len(s))
  OBVIOUS
<1>2. \A j, k \in I : s[j] = s[k] => j = k
  <2>1. ASSUME NEW j \in I, NEW k \in I, j < k PROVE s[j] # s[k]
    <3>1. j \in 1..(k - 1)
      BY <1>1, <2>1
    <3>2. QED
      BY <3>1
  <2>2. \A j \in I : j \in Nat
    BY <1>1
  <2>3. QED
    BY <2>1, <2>2
<1> HIDE DEF I
<1>3. /\ w \in Seq(S) /\ f \in [1..Len(w) -> I] /\ Increasing(f, Len(w))
      /\ \A k \in 1..Len(w) : w[k] = s[f[k]]
  BY <1>1, PickOf
<1> HIDE DEF w, f
<1>4. \A k \in 1..Len(w) : f[k] \in I /\ f[k] \in Nat
  <2>1. \A k \in 1..Len(w) : f[k] \in I
    BY <1>3
  <2>2. \A k \in I : k \in Nat
    BY <1>1
  <2>3. QED
    BY <2>1, <2>2
<1>5. \A j, k \in 1..Len(w) : f[j] = f[k] => j = k
  BY <1>3, <1>4 DEF Increasing
<1>6. Distinct(w)
  BY <1>2, <1>3, <1>4, <1>5 DEF Distinct
<1>7. QED
  BY <1>3, <1>6 DEF w, I

\* A set in some order.
LEMMA OrdersOf ==
  ASSUME NEW S, IsFiniteSet(S), NEW s \in SetToSeqs(S)
  PROVE  s \in Seq(S) /\ Distinct(s)
<1>1. PICK n \in Nat : n = Cardinality(S)
  BY FS_CardinalityType
<1>2. s \in [1..n -> S] /\ \A i, j \in 1..n : i # j => s[i] # s[j]
  BY <1>1 DEF SetToSeqs
<1>3. s \in Seq(S) /\ Len(s) = n
  BY <1>2
<1>4. QED
  BY <1>2, <1>3 DEF Distinct

LEMMA Few == ASSUME NEW S \in SUBSET Candidate PROVE IsFiniteSet(S)
<1>1. IsFiniteSet(BOOLEAN)
  <2>1. IsFiniteSet({TRUE}) /\ IsFiniteSet({FALSE})
    BY FS_Singleton
  <2>2. IsFiniteSet({TRUE} \cup {FALSE})
    BY <2>1, FS_Union
  <2>3. BOOLEAN = {TRUE} \cup {FALSE}
    BY Zenon
  <2>4. QED
    BY <2>2, <2>3, Zenon
<1>2. IsFiniteSet(Candidate)
  BY <1>1, BypassAssumption, FS_Product DEF Candidate
<1>3. QED
  BY <1>2, FS_Subset

\* A chain begins somewhere and has no strategy twice, whatever the prober's candidates.
LEMMA ChainsAre ==
  ASSUME BypassTypeOK, NEW chain \in Chains
  PROVE  chain \in Seq(Strategies) /\ Len(chain) >= 1 /\ Distinct(chain)
<1>1. /\ DOMAIN prober.works \in SUBSET Candidate /\ method \in Strategies
  BY DEF BypassTypeOK
<1>2. ASSUME NEW order \in FallbackOrders
      PROVE  Chained(<<method>>, order) \in Seq(Strategies) /\ Distinct(Chained(<<method>>, order))
  <2> DEFINE others == DOMAIN prober.works \ {prober.selected}
             good == {k \in others : prober.works[k]}
             all == <<method>> \o [k \in DOMAIN order |-> order[k][1]]
  <2>1. good \in SUBSET Candidate /\ others \ good \in SUBSET Candidate
    BY <1>1
  <2>2. PICK a \in SetToSeqs(good), b \in SetToSeqs(others \ good) : order = a \o b
    BY DEF FallbackOrders
  <2> HIDE DEF others, good
  <2>3. a \in Seq(Candidate) /\ b \in Seq(Candidate)
    <3>1. a \in Seq(good) /\ b \in Seq(others \ good)
      BY <2>1, OrdersOf, Few
    <3>2. QED
      BY <2>1, <3>1
  <2>4. order \in Seq(Candidate)
    BY <2>2, <2>3
  <2>5. [k \in DOMAIN order |-> order[k][1]] \in Seq(Strategies)
    <3>1. \A k \in 1..Len(order) : order[k][1] \in Strategies
      BY <2>4 DEF Candidate
    <3>2. DOMAIN order = 1..Len(order) /\ Len(order) \in Nat
      BY <2>4
    <3>3. QED
      BY <3>1, <3>2
  <2>6. all \in Seq(Strategies)
    BY <1>1, <2>5
  <2> HIDE DEF all
  <2>7. QED
    BY <2>6, FirstsOf DEF Chained, all
<1>3. ASSUME NEW rest \in SetToSeqs(Strategies \ {method})
      PROVE  /\ <<method>> \o rest \in Seq(Strategies) /\ Len(<<method>> \o rest) >= 1
             /\ Distinct(<<method>> \o rest)
  <2>1. IsFiniteSet(Strategies \ {method})
    BY BypassAssumption, FS_Subset
  <2>2. rest \in Seq(Strategies \ {method}) /\ Distinct(rest)
    BY <2>1, OrdersOf
  <2>3. PICK n \in Nat : n = Len(rest)
    BY <2>2
  <2>4. rest \in Seq(Strategies) /\ \A k \in 1..n : rest[k] # method
    BY <2>2, <2>3
  <2> DEFINE w == <<method>> \o rest
  <2>5. /\ w \in Seq(Strategies) /\ Len(w) = n + 1 /\ w[1] = method
        /\ \A k \in 2..(n + 1) : w[k] = rest[k - 1]
    BY <1>1, <2>3, <2>4
  <2> HIDE DEF w
  <2>6. \A k \in 1..(n + 1) : k = 1 \/ (k \in 2..(n + 1) /\ k - 1 \in 1..n)
    OBVIOUS
  <2>7. Distinct(w)
    <3>1. \A j, k \in 1..n : rest[j] = rest[k] => j = k
      BY <2>2, <2>3 DEF Distinct
    <3>2. ASSUME NEW j \in 1..(n + 1), NEW k \in 1..(n + 1), w[j] = w[k] PROVE j = k
      BY <2>4, <2>5, <2>6, <3>1, <3>2
    <3>3. QED
      BY <2>5, <3>2 DEF Distinct
  <2>8. QED
    BY <2>5, <2>7 DEF w
<1>4. \/ \E order \in FallbackOrders : chain = Chained(<<method>>, order) /\ Len(chain) > 1
      \/ \E rest \in SetToSeqs(Strategies \ {method}) : chain = <<method>> \o rest
  BY DEF Chains
<1>5. CASE \E order \in FallbackOrders : chain = Chained(<<method>>, order) /\ Len(chain) > 1
  BY <1>2, <1>5
<1>6. CASE \E rest \in SetToSeqs(Strategies \ {method}) : chain = <<method>> \o rest
  BY <1>3, <1>6
<1>7. QED
  BY <1>4, <1>5, <1>6

\* The place moves on to what lies before it.
LEMMA MoveOn ==
  ASSUME BypassInv, resilience # Off, resilience' = resilience,
         NEW k \in 1..Len(resilience), NEW i \in 1..LastIp,
         \/ k = place.strategy + 1 /\ i = place.ip
         \/ k = 1 /\ i = place.ip + 1 /\ place.strategy = Len(resilience),
         GoTo([strategy |-> k, ip |-> i])
  PROVE  /\ <<resilience[k], i>> \notin tried
         /\ ~gaveUp /\ ~gaveUp'
         /\ PlaceOK'
<1> DEFINE n == Len(resilience)
           s == place.strategy
           p == place.ip
<1>1. /\ resilience \in Seq(Strategies) /\ n \in Nat /\ n >= 1 /\ LastIp \in Nat
      /\ s \in 1..n /\ p \in 1..LastIp
      /\ tried \subseteq ToSet(resilience) \X (1..LastIp)
      /\ \A j \in 1..n, q \in 1..LastIp :
           <<resilience[j], q>> \in tried <=> q < p \/ (q = p /\ j <= s)
      /\ gaveUp => s = n /\ p = LastIp
  BY LastIpOK DEF BypassInv, BypassTypeOK, PlaceOK, Off
<1>2. \A j, l \in 1..n : resilience[j] = resilience[l] => j = l
  BY DEF BypassInv, ChainOK, Distinct
<1>3. place' = [strategy |-> k, ip |-> i] /\ tried' = tried \cup {<<resilience[k], i>>}
      /\ gaveUp' = gaveUp
  BY DEF GoTo
<1>4. resilience[k] \in ToSet(resilience)
  BY <1>1 DEF ToSet
<1> HIDE DEF n, s, p
<1>5. (k = s + 1 /\ i = p) \/ (k = 1 /\ i = p + 1 /\ s = n)
  BY DEF s, p, n
<1>6. k \in 1..n
  BY DEF n
<1>7. <<resilience[k], i>> \notin tried /\ ~gaveUp
  BY <1>1, <1>5, <1>6
<1>8. ASSUME NEW j \in 1..n, NEW q \in 1..LastIp
      PROVE  <<resilience[j], q>> \in tried' <=> q < i \/ (q = i /\ j <= k)
  <2>1. <<resilience[j], q>> \in tried' <=>
          <<resilience[j], q>> \in tried \/ (j = k /\ q = i)
    BY <1>2, <1>3, <1>6
  <2>2. <<resilience[j], q>> \in tried <=> q < p \/ (q = p /\ j <= s)
    BY <1>1
  <2>3. (q < p \/ (q = p /\ j <= s)) \/ (j = k /\ q = i) <=> q < i \/ (q = i /\ j <= k)
    BY <1>1, <1>5, <1>6
  <2>4. QED
    BY <2>1, <2>2, <2>3
<1>9. tried' \subseteq ToSet(resilience) \X (1..LastIp)
  BY <1>1, <1>3, <1>4
<1>10. PlaceOK'
  <2>1. place'.strategy = k /\ place'.ip = i /\ ~gaveUp'
    BY <1>3, <1>7
  <2>2. LastIp' = LastIp
    BY DEF LastIp
  <2>3. QED
    BY <1>6, <1>8, <1>9, <2>1, <2>2 DEF PlaceOK, n
<1>11. QED
  BY <1>3, <1>7, <1>10

\* At the last place everything was in force.
LEMMA AllTried ==
  ASSUME BypassInv, resilience # Off, place.strategy = Len(resilience), place.ip = LastIp
  PROVE  tried = ToSet(resilience) \X (1..LastIp)
<1>1. /\ resilience \in Seq(Strategies) /\ Len(resilience) \in Nat /\ LastIp \in Nat
      /\ tried \subseteq ToSet(resilience) \X (1..LastIp)
      /\ \A k \in 1..Len(resilience), i \in 1..LastIp : <<resilience[k], i>> \in tried
  BY LastIpOK DEF BypassInv, BypassTypeOK, PlaceOK, Off
<1>2. ToSet(resilience) = {resilience[k] : k \in 1..Len(resilience)}
  BY <1>1, ElementsOf
<1>3. ToSet(resilience) \X (1..LastIp) \subseteq tried
  BY <1>1, <1>2
<1>4. QED
  BY <1>1, <1>3

\* A rotation: something that was not in force, or the end of the chain on every IP.
LEMMA RotateStep ==
  ASSUME BypassInv, resilience # Off, resilience' = resilience,
         NEW count \in 0..RstBudget, NEW rates \in Seq(Rates), Len(rates) <= MinSamples,
         NEW news \in [forged : 0..RstBudget, samples : 0..MinSamples],
         news.forged = count, Len(rates) <= news.samples,
         Rotate(count, rates, news)
  PROVE  /\ place' # place => <<resilience[place'.strategy], place'.ip>> \notin tried
         /\ gaveUp' => tried = ToSet(resilience) \X (1..LastIp)
         /\ PlaceOK' /\ HeardOK'
         /\ place' \in [strategy : Nat, ip : Nat]
         /\ forged' \in 0..RstBudget /\ tail' \in Seq(Rates) /\ Len(tail') <= MinSamples
         /\ heard' \in [forged : 0..RstBudget, samples : 0..MinSamples]
         /\ gaveUp' \in BOOLEAN
<1> DEFINE n == Len(resilience)
<1>1. /\ n \in Nat /\ n >= 1 /\ place \in [strategy : Nat, ip : Nat]
      /\ place.strategy \in 1..n /\ place.ip \in 1..LastIp
      /\ RstBudget \in Nat /\ MinSamples \in Nat /\ gaveUp \in BOOLEAN
  BY BypassAssumption DEF BypassInv, BypassTypeOK, PlaceOK, Off
<1>2. ASSUME NEW k \in 1..n, NEW i \in 1..LastIp,
             \/ k = place.strategy + 1 /\ i = place.ip
             \/ k = 1 /\ i = place.ip + 1 /\ place.strategy = n,
             GoTo([strategy |-> k, ip |-> i])
      PROVE  /\ <<resilience[place'.strategy], place'.ip>> \notin tried
             /\ ~gaveUp' /\ gaveUp' \in BOOLEAN /\ PlaceOK' /\ HeardOK'
             /\ place' \in [strategy : Nat, ip : Nat]
             /\ forged' \in 0..RstBudget /\ tail' \in Seq(Rates) /\ Len(tail') <= MinSamples
             /\ heard' \in [forged : 0..RstBudget, samples : 0..MinSamples]
  <2>1. place' = [strategy |-> k, ip |-> i] /\ forged' = 0 /\ tail' = <<>> /\ heard' = Nothing
    BY <1>2 DEF GoTo
  <2>2. <<resilience[k], i>> \notin tried /\ ~gaveUp' /\ PlaceOK'
    BY <1>2, MoveOn
  <2>3. HeardOK'
    BY <2>1 DEF HeardOK, Nothing
  <2>4. place' \in [strategy : Nat, ip : Nat]
    BY <2>1, LastIpOK
  <2>5. forged' \in 0..RstBudget /\ tail' \in Seq(Rates) /\ Len(tail') <= MinSamples
    BY <1>1, <2>1
  <2>6. heard' \in [forged : 0..RstBudget, samples : 0..MinSamples]
    BY <1>1, <2>1 DEF Nothing
  <2>7. gaveUp' = gaveUp
    BY <1>2 DEF GoTo
  <2>8. gaveUp' \in BOOLEAN
    BY <1>1, <2>7, Zenon
  <2>9. place'.strategy = k /\ place'.ip = i
    BY <2>1
  <2>10. QED
    BY <2>2, <2>3, <2>4, <2>5, <2>6, <2>8, <2>9
<1>3. CASE place.strategy < n
  <2>1. GoTo([place EXCEPT !.strategy = @ + 1])
    BY <1>3 DEF Rotate
  <2>2. [place EXCEPT !.strategy = @ + 1] = [strategy |-> place.strategy + 1, ip |-> place.ip]
    BY <1>1
  <2>3. place.strategy + 1 \in 1..n
    BY <1>1, <1>3
  <2>4. QED
    BY <1>1, <1>2, <2>1, <2>2, <2>3
<1>4. CASE ~(place.strategy < n) /\ place.ip < NumIps
  <2>1. GoTo([strategy |-> 1, ip |-> place.ip + 1])
    BY <1>4 DEF Rotate
  <2>2. place.ip + 1 \in 1..LastIp /\ 1 \in 1..n /\ place.strategy = n
    BY <1>1, <1>4, LastIpOK, BypassAssumption
  <2>3. QED
    BY <1>1, <1>2, <2>1, <2>2
<1>5. CASE ~(place.strategy < n) /\ ~(place.ip < NumIps)
  <2>1. /\ gaveUp' = TRUE /\ forged' = count /\ tail' = rates /\ heard' = news
        /\ place' = place /\ tried' = tried
    BY <1>5 DEF Rotate
  <2>2. place.strategy = n /\ place.ip = LastIp
    BY <1>1, <1>5, LastIpOK, BypassAssumption
  <2>3. tried = ToSet(resilience) \X (1..LastIp)
    BY <2>2, AllTried
  <2>4. PlaceOK'
    BY <2>1, <2>2 DEF BypassInv, PlaceOK, LastIp, Off
  <2>5. HeardOK'
    BY <2>1 DEF HeardOK
  <2>6. gaveUp' \in BOOLEAN
    BY <2>1, Zenon
  <2>7. place' \in [strategy : Nat, ip : Nat]
    BY <1>1, <2>1
  <2>8. /\ forged' \in 0..RstBudget /\ tail' \in Seq(Rates) /\ Len(tail') <= MinSamples
        /\ heard' \in [forged : 0..RstBudget, samples : 0..MinSamples]
    BY <2>1
  <2>9. QED
    BY <2>1, <2>3, <2>4, <2>5, <2>6, <2>7, <2>8
<1>6. QED
  BY <1>3, <1>4, <1>5

\* Nothing of the chain moves while a prober is at work.
LEMMA StillStep ==
  ASSUME BypassInv, UNCHANGED <<rotation, evidence>>
  PROVE  PlaceOK' /\ HeardOK' /\ Earned
<1>1. /\ UNCHANGED <<resilience, place, forged, tail, tried, heard, gaveUp>>
  BY DEF rotation, evidence
<1>2. PlaceOK' /\ HeardOK'
  BY <1>1 DEF BypassInv, PlaceOK, HeardOK, LastIp, Off
<1>3. gaveUp => tried = ToSet(resilience) \X (1..LastIp)
  BY AllTried DEF BypassInv, PlaceOK
<1>4. QED
  BY <1>1, <1>2, <1>3 DEF Earned

LEMMA CandidatesAre ==
  ASSUME NEW cs \in CandidateSets
  PROVE  cs \in SUBSET Candidate
<1>1. (Strategies \X {FALSE}) \subseteq Candidate
  BY DEF Candidate
<1>2. \A served : Adopted(served) \cap Candidate \subseteq Candidate
  OBVIOUS
<1> HIDE DEF Adopted
<1>3. \A r \in Remote : r \subseteq Candidate
  BY <1>2 DEF Remote
<1>4. QED
  BY <1>1, <1>3 DEF CandidateSets, Local

ProberOK(p) ==
  /\ DOMAIN p.works \subseteq Candidate
  /\ p.works \in [DOMAIN p.works -> BOOLEAN]
  /\ p.selected \in DOMAIN p.works \cup {<<>>}

LEMMA BeginStep ==
  ASSUME BypassInv, NEW c \in {"start", "measure"}, BeginChoice(c)
  PROVE  BypassInv' /\ Earned
<1>1. PlaceOK' /\ HeardOK' /\ Earned
  BY StillStep DEF BeginChoice
<1>2. step' \in [{"start", "measure"} -> {"idle", "made", "picked"}] /\ method' \in Strategies
  BY DEF BeginChoice, BypassInv, BypassTypeOK
<1>3. ProberOK(prober')
  <2>1. CASE prober' = prober
    BY <2>1 DEF BypassInv, BypassTypeOK, ProberOK
  <2>2. ASSUME NEW cs \in CandidateSets,
               prober' = [works |-> [k \in cs |-> FALSE], selected |-> <<>>]
        PROVE  ProberOK(prober')
    <3>1. cs \subseteq Candidate
      BY CandidatesAre
    <3>2. prober'.works = [k \in cs |-> FALSE] /\ prober'.selected = <<>>
      BY <2>2
    <3>3. DOMAIN prober'.works = cs /\ prober'.works \in [cs -> BOOLEAN]
      BY <3>2
    <3>4. QED
      BY <3>1, <3>2, <3>3 DEF ProberOK
  <2>3. QED
    BY <2>1, <2>2 DEF BeginChoice
<1>4. UNCHANGED <<resilience, place, forged, tail, baseline, heard, gaveUp>>
  BY DEF BeginChoice, rotation, evidence
<1>5. BypassTypeOK'
  BY <1>2, <1>3, <1>4 DEF BypassInv, BypassTypeOK, ProberOK
<1>6. ChainOK'
  BY <1>4 DEF BeginChoice, BypassInv, BypassTypeOK, ChainOK, Distinct
<1>7. QED
  BY <1>1, <1>5, <1>6 DEF BypassInv

LEMMA RunStep ==
  ASSUME BypassInv, NEW c \in {"start", "measure"}, RunProber(c)
  PROVE  BypassInv' /\ Earned
<1>1. PlaceOK' /\ HeardOK' /\ Earned
  BY StillStep DEF RunProber
<1>2. PICK answered \in Responders(DOMAIN prober.works) :
        LET works == Recorded(prober.works, answered)
        IN \E k \in Best(works) :
             /\ prober' = [works |-> works, selected |-> k]
             /\ method' \in IF c = "measure" THEN {method}
                            ELSE IF k = <<>> THEN Strategies ELSE {k[1]}
  BY DEF RunProber
<1> DEFINE works == Recorded(prober.works, answered)
<1>3. DOMAIN works = DOMAIN prober.works /\ DOMAIN works \subseteq Candidate
  BY DEF Recorded, BypassInv, BypassTypeOK
<1>4. works \in [DOMAIN works -> BOOLEAN]
  BY DEF Recorded
<1> HIDE DEF works
<1>5. PICK k \in Best(works) :
        /\ prober' = [works |-> works, selected |-> k]
        /\ method' \in IF c = "measure" THEN {method}
                       ELSE IF k = <<>> THEN Strategies ELSE {k[1]}
  BY <1>2 DEF works
<1>6. k \in DOMAIN works \/ k = <<>>
  BY DEF Best
<1>7. ProberOK(prober')
  <2>1. prober'.works = works /\ prober'.selected = k
    BY <1>5
  <2>2. QED
    BY <1>3, <1>4, <1>6, <2>1 DEF ProberOK
<1>8. method' \in Strategies
  <2>1. k \in Candidate => k[1] \in Strategies
    BY DEF Candidate
  <2>2. QED
    BY <1>3, <1>5, <1>6, <2>1 DEF BypassInv, BypassTypeOK
<1>9. /\ UNCHANGED <<resilience, place, forged, tail, baseline, heard, gaveUp>>
      /\ step[c] = "made" /\ step' = [step EXCEPT ![c] = IF c = "start" THEN "picked" ELSE "idle"]
  BY DEF RunProber, rotation, evidence
<1>10. step' \in [{"start", "measure"} -> {"idle", "made", "picked"}]
  BY <1>9 DEF BypassInv, BypassTypeOK
<1>11. BypassTypeOK'
  BY <1>7, <1>8, <1>9, <1>10 DEF BypassInv, BypassTypeOK, ProberOK
<1>12. ChainOK'
  BY <1>9 DEF BypassInv, BypassTypeOK, ChainOK, Distinct
<1>13. QED
  BY <1>1, <1>11, <1>12 DEF BypassInv

\* What the controller's handlers leave alone.
LEMMA HandlerKeeps ==
  ASSUME BypassInv, UNCHANGED <<prober, step, method, resilience>>,
         place' \in [strategy : Nat, ip : Nat],
         forged' \in 0..RstBudget, tail' \in Seq(Rates), Len(tail') <= MinSamples,
         baseline' \in Rates \cup {0}, gaveUp' \in BOOLEAN,
         heard' \in [forged : 0..RstBudget, samples : 0..MinSamples]
  PROVE  BypassTypeOK' /\ ChainOK'
BY DEF BypassInv, BypassTypeOK, ChainOK, Distinct

LEMMA RstStep ==
  ASSUME BypassInv, NEW rst \in Rst, OnRst(rst)
  PROVE  BypassInv' /\ Earned
<1> DEFINE count == Min({forged + 1, RstBudget})
           news == [heard EXCEPT !.forged = Min({@ + 1, RstBudget})]
<1>1. /\ forged \in 0..RstBudget /\ RstBudget \in Nat /\ RstBudget >= 1 /\ MinSamples \in Nat
      /\ heard \in [forged : 0..RstBudget, samples : 0..MinSamples]
      /\ forged = heard.forged /\ Len(tail) <= heard.samples
      /\ tail \in Seq(Rates) /\ Len(tail) <= MinSamples /\ gaveUp \in BOOLEAN
      /\ place \in [strategy : Nat, ip : Nat] /\ baseline \in Rates \cup {0}
  BY BypassAssumption DEF BypassInv, BypassTypeOK, HeardOK
<1>2. count \in 0..RstBudget /\ (count >= RstBudget => forged + 1 >= RstBudget)
  BY <1>1, LessOf
<1>3. /\ news \in [forged : 0..RstBudget, samples : 0..MinSamples]
      /\ news.forged = count /\ news.samples = heard.samples
  BY <1>1, <1>2
<1>4. /\ resilience # Off /\ UNCHANGED <<prober, step, method, resilience, baseline>>
      /\ IF count >= RstBudget THEN Rotate(count, tail, news)
         ELSE forged' = count /\ heard' = news /\ UNCHANGED <<place, tail, tried, gaveUp>>
  BY DEF OnRst, choice
<1> HIDE DEF count, news
<1>5. CASE count >= RstBudget
  <2>1. /\ place' # place => <<resilience[place'.strategy], place'.ip>> \notin tried
        /\ gaveUp' => tried = ToSet(resilience) \X (1..LastIp)
        /\ PlaceOK' /\ HeardOK'
        /\ place' \in [strategy : Nat, ip : Nat]
        /\ forged' \in 0..RstBudget /\ tail' \in Seq(Rates) /\ Len(tail') <= MinSamples
        /\ heard' \in [forged : 0..RstBudget, samples : 0..MinSamples]
        /\ gaveUp' \in BOOLEAN
    BY <1>1, <1>2, <1>3, <1>4, <1>5, RotateStep
  <2>2. BypassTypeOK' /\ ChainOK'
    BY <1>1, <1>4, <2>1, HandlerKeeps
  <2>3. Earned
    BY <1>1, <1>2, <1>5, <2>1 DEF Earned
  <2>4. QED
    BY <2>1, <2>2, <2>3 DEF BypassInv
<1>6. CASE ~(count >= RstBudget)
  <2>1. forged' = count /\ heard' = news /\ UNCHANGED <<place, tail, tried, gaveUp>>
    BY <1>4, <1>6
  <2>2. PlaceOK' /\ HeardOK'
    BY <1>1, <1>3, <1>4, <2>1 DEF BypassInv, PlaceOK, HeardOK, LastIp, Off
  <2>3. BypassTypeOK' /\ ChainOK'
    BY <1>1, <1>2, <1>3, <1>4, <2>1, HandlerKeeps
  <2>4. Earned
    BY <2>1, AllTried DEF Earned, BypassInv, PlaceOK
  <2>5. QED
    BY <2>2, <2>3, <2>4 DEF BypassInv
<1>7. QED
  BY <1>5, <1>6

LEMMA SampleStep ==
  ASSUME BypassInv, NEW rate \in Rates, OnThroughput(rate)
  PROVE  BypassInv' /\ Earned
<1> DEFINE all == Append(tail, rate)
           rates == IF Len(all) > MinSamples THEN Tail(all) ELSE all
           news == [heard EXCEPT !.samples = Min({@ + 1, MinSamples})]
<1>1. /\ forged \in 0..RstBudget /\ RstBudget \in Nat /\ MinSamples \in Nat /\ MinSamples >= 1
      /\ heard \in [forged : 0..RstBudget, samples : 0..MinSamples]
      /\ forged = heard.forged /\ Len(tail) <= heard.samples
      /\ tail \in Seq(Rates) /\ Len(tail) <= MinSamples /\ gaveUp \in BOOLEAN
      /\ place \in [strategy : Nat, ip : Nat] /\ baseline \in Rates \cup {0}
      /\ Rates \subseteq Nat
  BY BypassAssumption DEF BypassInv, BypassTypeOK, HeardOK
<1>2. PICK l \in Nat : l = Len(tail)
  BY <1>1
<1>3. all \in Seq(Rates) /\ Len(all) = l + 1
  BY <1>1, <1>2
<1> HIDE DEF all
<1>4. /\ rates \in Seq(Rates) /\ Len(rates) <= MinSamples /\ Len(rates) <= l + 1
      /\ (Len(rates) = MinSamples => l + 1 >= MinSamples)
  <2>1. CASE l + 1 > MinSamples
    <3>1. rates = Tail(all) /\ all # <<>> /\ l = MinSamples
      BY <1>1, <1>2, <1>3, <2>1
    <3>2. rates \in Seq(Rates) /\ Len(rates) = l
      BY <1>3, <3>1
    <3>3. QED
      BY <1>1, <1>2, <3>1, <3>2
  <2>2. CASE ~(l + 1 > MinSamples)
    BY <1>1, <1>2, <1>3, <2>2
  <2>3. QED
    BY <2>1, <2>2
<1>5. /\ news \in [forged : 0..RstBudget, samples : 0..MinSamples]
      /\ news.forged = forged
      /\ news.samples = IF heard.samples + 1 <= MinSamples THEN heard.samples + 1 ELSE MinSamples
  <2> DEFINE m == Min({heard.samples + 1, MinSamples})
  <2>1. heard.samples \in Nat /\ heard.samples <= MinSamples
    BY <1>1
  <2>2. m = IF heard.samples + 1 <= MinSamples THEN heard.samples + 1 ELSE MinSamples
    BY <1>1, <2>1, LessOf
  <2>3. m \in 0..MinSamples
    BY <1>1, <2>1, <2>2
  <2>4. news = [heard EXCEPT !.samples = m]
    OBVIOUS
  <2> HIDE DEF m, news
  <2>5. QED
    BY <1>1, <2>2, <2>3, <2>4
<1>6. Len(rates) <= news.samples
  BY <1>1, <1>2, <1>4, <1>5
<1>7. /\ resilience # Off /\ UNCHANGED <<prober, step, method, resilience>>
      /\ baseline' = Max({baseline, rate})
      /\ IF Throttled(rates, baseline') THEN Rotate(forged, rates, news)
         ELSE tail' = rates /\ heard' = news /\ UNCHANGED <<place, forged, tried, gaveUp>>
  BY DEF OnThroughput, choice, all
<1> HIDE DEF rates, news
<1>8. baseline' \in Rates \cup {0}
  <2>1. baseline \in Int /\ rate \in Int
    BY <1>1
  <2>2. Max({baseline, rate}) \in {baseline, rate}
    BY <2>1, MoreOf
  <2>3. QED
    BY <1>1, <1>7, <2>2
<1>9. CASE Throttled(rates, baseline')
  <2>1. /\ place' # place => <<resilience[place'.strategy], place'.ip>> \notin tried
        /\ gaveUp' => tried = ToSet(resilience) \X (1..LastIp)
        /\ PlaceOK' /\ HeardOK'
        /\ place' \in [strategy : Nat, ip : Nat]
        /\ forged' \in 0..RstBudget /\ tail' \in Seq(Rates) /\ Len(tail') <= MinSamples
        /\ heard' \in [forged : 0..RstBudget, samples : 0..MinSamples]
        /\ gaveUp' \in BOOLEAN
    BY <1>1, <1>4, <1>5, <1>6, <1>7, <1>9, RotateStep
  <2>2. BypassTypeOK' /\ ChainOK'
    BY <1>7, <1>8, <2>1, HandlerKeeps
  <2>3. heard.samples + 1 >= MinSamples
    <3>1. Len(rates) = MinSamples
      BY <1>9 DEF Throttled
    <3>2. QED
      BY <1>1, <1>2, <1>4, <3>1
  <2>4. Earned
    BY <2>1, <2>3 DEF Earned
  <2>5. QED
    BY <2>1, <2>2, <2>4 DEF BypassInv
<1>10. CASE ~Throttled(rates, baseline')
  <2>1. tail' = rates /\ heard' = news /\ UNCHANGED <<place, forged, tried, gaveUp>>
    BY <1>7, <1>10
  <2>2. PlaceOK' /\ HeardOK'
    BY <1>1, <1>5, <1>6, <1>7, <2>1 DEF BypassInv, PlaceOK, HeardOK, LastIp, Off
  <2>3. BypassTypeOK' /\ ChainOK'
    BY <1>1, <1>4, <1>5, <1>7, <1>8, <2>1, HandlerKeeps
  <2>4. Earned
    BY <2>1, AllTried DEF Earned, BypassInv, PlaceOK
  <2>5. QED
    BY <2>2, <2>3, <2>4 DEF BypassInv
<1>11. QED
  BY <1>9, <1>10

LEMMA NewFlowStep == ASSUME BypassInv, NewFlow PROVE BypassInv' /\ Earned
<1>1. /\ forged' = 0 /\ heard' = [heard EXCEPT !.forged = 0]
      /\ UNCHANGED <<prober, step, method, resilience, place, tail, baseline, tried, gaveUp>>
  BY DEF NewFlow, choice
<1>2. /\ heard' \in [forged : 0..RstBudget, samples : 0..MinSamples]
      /\ heard'.forged = 0 /\ heard'.samples = heard.samples /\ forged' \in 0..RstBudget
  <2>1. heard \in [forged : 0..RstBudget, samples : 0..MinSamples]
    BY DEF BypassInv, BypassTypeOK
  <2>2. 0 \in 0..RstBudget
    BY BypassAssumption
  <2>3. QED
    BY <1>1, <2>1, <2>2
<1>3. PlaceOK' /\ HeardOK'
  BY <1>1, <1>2 DEF BypassInv, PlaceOK, HeardOK, LastIp, Off
<1>4. BypassTypeOK' /\ ChainOK'
  BY <1>1, <1>2 DEF BypassInv, BypassTypeOK, ChainOK, Distinct
<1>5. Earned
  BY <1>1, AllTried DEF Earned, BypassInv, PlaceOK
<1>6. QED
  BY <1>3, <1>4, <1>5 DEF BypassInv

\* A chain comes with the place at its start.
LEMMA FreshRotation ==
  ASSUME BypassInv, UNCHANGED <<prober, method>>,
         resilience' \in Chains \cup {Off},
         step' \in [{"start", "measure"} -> {"idle", "made", "picked"}],
         step'["start"] # "idle" => resilience' = Off,
         place' = [strategy |-> 1, ip |-> 1], forged' = 0, tail' = <<>>, baseline' = 0,
         tried' = IF resilience' = Off THEN {} ELSE {<<resilience'[1], 1>>},
         heard' = Nothing, gaveUp' = FALSE
  PROVE  BypassInv'
<1>1. /\ resilience' \in Seq(Strategies) /\ Distinct(resilience')
      /\ resilience' # Off => Len(resilience') >= 1
  <2>1. CASE resilience' = Off
    BY <2>1 DEF Off, Distinct
  <2>2. CASE resilience' \in Chains
    BY <2>2, ChainsAre DEF BypassInv
  <2>3. QED
    BY <2>1, <2>2
<1>2. RstBudget \in Nat /\ MinSamples \in Nat
  BY BypassAssumption
<1>3. BypassTypeOK'
  <2>1. place' \in [strategy : Nat, ip : Nat]
    OBVIOUS
  <2>2. heard' \in [forged : 0..RstBudget, samples : 0..MinSamples]
    BY <1>2 DEF Nothing
  <2>3. tail' \in Seq(Rates) /\ Len(tail') <= MinSamples /\ forged' \in 0..RstBudget
    BY <1>2
  <2>4. gaveUp' \in BOOLEAN
    BY Zenon
  <2>5. QED
    BY <1>1, <2>1, <2>2, <2>3, <2>4 DEF BypassInv, BypassTypeOK
<1>4. ChainOK'
  BY <1>1 DEF ChainOK
<1>5. PlaceOK'
  <2>1. CASE resilience' = Off
    BY <2>1 DEF PlaceOK, Off
  <2>2. CASE resilience' # Off
    <3>1. PICK n \in Nat : n = Len(resilience') /\ n >= 1
      BY <1>1, <2>2
    <3>2. LastIp' = LastIp /\ LastIp \in Nat /\ LastIp >= 1
      BY LastIpOK DEF LastIp
    <3>3. place'.strategy = 1 /\ place'.ip = 1 /\ tried' = {<<resilience'[1], 1>>}
      BY <2>2
    <3>4. resilience'[1] \in ToSet(resilience')
      BY <1>1, <3>1 DEF ToSet
    <3>5. \A k \in 1..n : resilience'[k] = resilience'[1] => k = 1
      BY <1>1, <3>1 DEF Distinct
    <3>6. \A k \in 1..n, i \in 1..LastIp :
            <<resilience'[k], i>> \in tried' <=> i < 1 \/ (i = 1 /\ k <= 1)
      BY <3>1, <3>2, <3>3, <3>5
    <3>7. QED
      BY <2>2, <3>1, <3>2, <3>3, <3>4, <3>6 DEF PlaceOK, Off
  <2>3. QED
    BY <2>1, <2>2
<1>6. HeardOK'
  BY DEF HeardOK, Nothing
<1>7. QED
  BY <1>3, <1>4, <1>5, <1>6 DEF BypassInv

LEMMA BuildStep == ASSUME BypassInv, BuildResilience PROVE BypassInv' /\ Earned
<1>1. step["start"] = "picked" /\ resilience = Off /\ place = [strategy |-> 1, ip |-> 1]
  BY DEF BuildResilience, BypassInv, ChainOK, PlaceOK
<1>2. step' \in [{"start", "measure"} -> {"idle", "made", "picked"}] /\ step'["start"] = "idle"
  BY DEF BuildResilience, BypassInv, BypassTypeOK
<1>3. BypassInv'
  BY <1>2, FreshRotation DEF BuildResilience
<1>4. Earned
  BY <1>1 DEF Earned, BuildResilience
<1>5. QED
  BY <1>3, <1>4

LEMMA StopStep == ASSUME BypassInv, StopSession PROVE BypassInv' /\ Earned
<1>1. UNCHANGED <<prober, step, method>> /\ resilience' = Off /\ resilience # Off
  BY DEF StopSession, choice
<1>2. step \in [{"start", "measure"} -> {"idle", "made", "picked"}]
  BY DEF BypassInv, BypassTypeOK
<1>3. BypassInv'
  BY <1>1, <1>2, FreshRotation DEF StopSession
<1>4. Earned
  BY <1>1 DEF Earned, StopSession
<1>5. QED
  BY <1>3, <1>4

LEMMA BypassStarts == BypassInit => BypassInv
<1> SUFFICES ASSUME BypassInit PROVE BypassInv
  OBVIOUS
<1> USE DEF BypassInit
<1>1. RstBudget \in Nat /\ MinSamples \in Nat
  BY BypassAssumption
<1>2. prober.works = [k \in {} |-> FALSE] /\ prober.selected = <<>>
  BY DEF NoProber
<1>3. /\ place \in [strategy : Nat, ip : Nat] /\ forged \in 0..RstBudget
      /\ heard \in [forged : 0..RstBudget, samples : 0..MinSamples]
      /\ tail \in Seq(Rates) /\ Len(tail) <= MinSamples
      /\ resilience \in Seq(Strategies)
      /\ step \in [{"start", "measure"} -> {"idle", "made", "picked"}]
  BY <1>1 DEF Nothing, Off
<1>4. gaveUp \in BOOLEAN
  BY Zenon
<1>5. BypassTypeOK
  BY <1>2, <1>3, <1>4 DEF BypassTypeOK
<1>6. ChainOK /\ PlaceOK /\ HeardOK
  BY DEF ChainOK, Distinct, PlaceOK, HeardOK, Off, Nothing
<1>7. QED
  BY <1>5, <1>6 DEF BypassInv

LEMMA BypassStep == ASSUME BypassInv, [BypassNext]_bypassVars PROVE BypassInv' /\ [Earned]_bypassVars
<1>1. ASSUME NEW c \in {"start", "measure"}, BeginChoice(c) \/ RunProber(c)
      PROVE  BypassInv' /\ Earned
  BY <1>1, BeginStep, RunStep
<1>2. CASE BuildResilience \/ StopSession
  BY <1>2, BuildStep, StopStep
<1>3. ASSUME NEW rst \in Rst, OnRst(rst) PROVE BypassInv' /\ Earned
  BY <1>3, RstStep
<1>4. ASSUME NEW rate \in Rates, OnThroughput(rate) PROVE BypassInv' /\ Earned
  BY <1>4, SampleStep
<1>5. CASE NewFlow
  BY <1>5, NewFlowStep
<1>6. CASE UNCHANGED bypassVars
  BY <1>6 DEF bypassVars, choice, rotation, evidence, BypassInv, BypassTypeOK, ChainOK,
     Distinct, PlaceOK, HeardOK, LastIp, Off
<1>7. QED
  BY <1>1, <1>2, <1>3, <1>4, <1>5, <1>6 DEF BypassNext

\* The bypass method's invariant, for any strategies, chains, mirrors and IPs.
THEOREM BypassInvariant == BypassSpec => []BypassInv
<1>1. BypassInv /\ [BypassNext]_bypassVars => BypassInv'
  BY BypassStep
<1>2. QED
  BY BypassStarts, <1>1, PTL DEF BypassSpec

\* A strategy is given up for what was heard of itself, what follows was not in force
\* before, and the controller gives up when everything was (resilience.py,
\* _rotate_strategy and _rotate_ip) - for any candidates of either thread's prober.
THEOREM RotationIsEarned == BypassSpec => RotationEarned
<1>1. BypassInv /\ [BypassNext]_bypassVars => [Earned]_bypassVars
  BY BypassStep
<1>2. QED
  BY <1>1, BypassInvariant, PTL DEF BypassSpec, RotationEarned, Earned, LastIp
-----------------------------------------------------------------------------
(* The desk                                                                *)

LEMMA DeskStarts ==
  DeskInit => /\ WindowInit /\ ProfileInit /\ SettingsInit /\ SniInit /\ CleanInit
              /\ MeasureInit /\ BypassInit
BY DEF DeskInit

\* A step of the desk is a step of one part and leaves the others alone.
LEMMA DeskSteps ==
  [DeskNext]_DeskVars =>
    /\ [WindowNext]_windowVars /\ [ProfileNext]_profileVars /\ [SettingsNext]_settingsVars
    /\ [SniNext]_sniVars /\ [CleanNext]_cleanVars /\ [MeasureNext]_measureVars
    /\ [BypassNext]_bypassVars
BY DEF DeskNext, DeskVars

\* A behaviour of the desk is one of each of its parts: what is proved of a part on its
\* own holds beside the others, with the fairness the part asks for.
THEOREM DeskIsItsParts ==
  DeskSpec => /\ WindowSpec /\ ProfileSpec /\ SettingsSpec /\ SniSpec /\ CleanSpec
              /\ MeasureSpec /\ BypassSpec
<1>1. QED
  BY DeskStarts, DeskSteps, PTL DEF DeskSpec, WindowSpec, ProfileSpec, SettingsSpec, SniSpec,
     CleanSpec, MeasureSpec, BypassSpec

\* The types of every part, for any values of all the constants.
THEOREM DeskTypes == DeskSpec => []DeskTypeOK
<1>1. WindowInv => WindowTypeOK
  BY DEF WindowInv
<1>2. ListInv => ProfileTypeOK
  BY DEF ListInv
<1>3. SweepInv => SniTypeOK
  BY DEF SweepInv
<1>4. MeasureInv => MeasureTypeOK
  BY DEF MeasureInv
<1>5. BypassInv => BypassTypeOK
  BY DEF BypassInv
<1>6. DeskTypeOK <=> /\ WindowTypeOK /\ ProfileTypeOK /\ SettingsTypeOK
                     /\ SniTypeOK /\ CleanTypeOK /\ MeasureTypeOK /\ BypassTypeOK
  BY DEF DeskTypeOK
<1>7. QED
  BY <1>1, <1>2, <1>3, <1>4, <1>5, <1>6, DeskIsItsParts, WindowInvariant, ListInvariant,
     SettingsTypes, SweepInvariant, ScanTypes, MeasureInvariant, BypassInvariant, PTL
=============================================================================
