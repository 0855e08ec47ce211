------------------------------- MODULE MCDesk -------------------------------
(***************************************************************************)
(* The desk: the components of the window that share no state, explored    *)
(* side by side.  scenario says which of them this behaviour is about; the *)
(* others stay as they began, so the states add up and do not multiply.    *)
(***************************************************************************)
EXTENDS RestartWindow, ProfileList, SettingsForm, SniScan, CleanIpScan, MeasureCores,
        BypassChoice

VARIABLE scenario

\* What a mirror's manifest may list: a strategy nobody knows is among it.
Listed == {{<<"wrong_seq", TRUE>>, <<"unknown", FALSE>>}, {<<"unknown", FALSE>>}}

\* One SNI with one IP, and the pair of them.
PresetRoute == [sni |-> "n1", ip |-> "a1"]
Preset == {PresetRoute}

\* A configuration without an address, which the form fills in, and another mode.
Earlier == {[mode |-> "SNI Only", sni |-> "n1", ip |-> "", pairs |-> Preset, pool |-> 1,
             strategy |-> "manual"]}

DeskInit ==
  /\ scenario \in {"window", "list", "settings", "sweep", "scan", "measure", "bypass"}
  /\ WindowInit /\ ProfileInit /\ SniInit /\ CleanInit
  /\ IF scenario = "settings" THEN SettingsInit ELSE SettingsInit /\ canMode
  /\ IF scenario = "measure" THEN MeasureInit
     ELSE MeasureInit /\ route = [w \in Probers |-> "dead"]
  /\ IF scenario = "bypass" THEN BypassInit
     ELSE BypassInit /\ method = CHOOSE s \in Strategies : TRUE

DeskNext ==
  /\ UNCHANGED scenario
  /\ \/ /\ scenario = "window" /\ WindowNext
        /\ UNCHANGED <<profileVars, settingsVars, sniVars, cleanVars, measureVars, bypassVars>>
     \/ /\ scenario = "list" /\ ProfileNext
        /\ UNCHANGED <<windowVars, settingsVars, sniVars, cleanVars, measureVars, bypassVars>>
     \/ /\ scenario = "settings" /\ SettingsNext
        /\ UNCHANGED <<windowVars, profileVars, sniVars, cleanVars, measureVars, bypassVars>>
     \/ /\ scenario = "sweep" /\ SniNext
        /\ UNCHANGED <<windowVars, profileVars, settingsVars, cleanVars, measureVars, bypassVars>>
     \/ /\ scenario = "scan" /\ CleanNext
        /\ UNCHANGED <<windowVars, profileVars, settingsVars, sniVars, measureVars, bypassVars>>
     \/ /\ scenario = "measure" /\ MeasureNext
        /\ UNCHANGED <<windowVars, profileVars, settingsVars, sniVars, cleanVars, bypassVars>>
     \/ /\ scenario = "bypass" /\ BypassNext
        /\ UNCHANGED <<windowVars, profileVars, settingsVars, sniVars, cleanVars, measureVars>>

DeskVars ==
  <<scenario, windowVars, profileVars, settingsVars, sniVars, cleanVars, measureVars,
    bypassVars>>

DeskSpec ==
  /\ DeskInit /\ [][DeskNext]_DeskVars
  /\ WindowFairness /\ ProfileFairness /\ SniFairness /\ CleanFairness
  /\ MeasureFairness

DeskTypeOK ==
  /\ WindowTypeOK /\ ProfileTypeOK /\ SettingsTypeOK
  /\ SniTypeOK /\ CleanTypeOK /\ MeasureTypeOK /\ BypassTypeOK
=============================================================================
