--------------------------- MODULE SettingsDialog ---------------------------
(***************************************************************************)
(* components/layout/settings-dialog.tsx, store/settings.ts and the        *)
(* settings of the agent (agent/settings.go).                              *)
(*                                                                         *)
(* One form edits two stores: the settings of the agent, written key by    *)
(* key, and those of the browser.  The dialog can be closed, opened again  *)
(* and edited while it is still loading or saving.                         *)
(***************************************************************************)
EXTENDS Naturals

CONSTANTS
  NoForm,        \* "Loading..."
  GeneralKeys, ProxyKeys,   \* the agent's settings, by their section of the form
  LocalKeys, SettingValues,
  MaxSettingsActs  \* bound: acts of the user

VARIABLES
  backend,       \* the settings the agent stores
  local,         \* the settings of the browser
  settingsOpen,
  form,          \* [backend, local], or NoForm
  loads,         \* the loads on their way
  saves,         \* the saves on their way
  settingsActs

settingsVars == <<backend, local, settingsOpen, form, loads, saves, settingsActs>>

BackendKeys == GeneralKeys \cup ProxyKeys
BackendSettings == [BackendKeys -> SettingValues]
LocalSettings == [LocalKeys -> SettingValues]
Saving == saves # {}

SettingsInit ==
  /\ backend \in BackendSettings /\ local \in LocalSettings
  /\ settingsOpen = FALSE /\ form = NoForm /\ loads = {} /\ saves = {} /\ settingsActs = 0

SettingsAct == settingsActs < MaxSettingsActs /\ settingsActs' = settingsActs + 1

(***************************************************************************)
(* Opening: the agent is asked for its settings, and the form is set when  *)
(* it answers, with the browser's as they were at the opening, whatever    *)
(* has become of the form and the dialog.                                  *)
(***************************************************************************)
OpenDialog ==
  /\ SettingsAct /\ ~settingsOpen /\ settingsOpen' = TRUE
  /\ loads' = loads \cup {[id |-> settingsActs, local |-> local, answer |-> NoForm]}
  /\ UNCHANGED <<backend, local, form, saves>>

LoadSettings(l) ==
  /\ l.answer = NoForm /\ loads' = (loads \ {l}) \cup {[l EXCEPT !.answer = backend]}
  /\ UNCHANGED <<backend, local, settingsOpen, form, saves, settingsActs>>

Loaded(l) ==
  /\ l.answer # NoForm /\ loads' = loads \ {l}
  /\ form' = [backend |-> l.answer, local |-> l.local]
  /\ UNCHANGED <<backend, local, settingsOpen, saves, settingsActs>>

LoadFails(l) ==
  /\ loads' = loads \ {l}
  /\ UNCHANGED <<backend, local, settingsOpen, form, saves, settingsActs>>

(***************************************************************************)
(* The sections of the form, each with its part of the settings.           *)
(***************************************************************************)
Patch(backendKeys, localKeys) ==
  /\ SettingsAct /\ settingsOpen /\ form # NoForm
  /\ \/ \E key \in backendKeys, value \in SettingValues : form' = [form EXCEPT !.backend[key] = value]
     \/ \E key \in localKeys, value \in SettingValues : form' = [form EXCEPT !.local[key] = value]
  /\ UNCHANGED <<backend, local, settingsOpen, loads, saves>>

GeneralSection == Patch(GeneralKeys, LocalKeys)
ProxySection == Patch(ProxyKeys, {})

Cancel ==
  /\ SettingsAct /\ settingsOpen /\ settingsOpen' = FALSE /\ form' = NoForm
  /\ UNCHANGED <<backend, local, loads, saves>>

(***************************************************************************)
(* Saving: the agent first, key by key in any order, then the browser.     *)
(* Closing the dialog does not stop it.                                    *)
(***************************************************************************)
(* Mutant: the button stays enabled while a save is on its way.            *)
SaveAgain ==
  /\ SettingsAct /\ settingsOpen /\ form # NoForm
  /\ saves' = saves \cup {[id |-> settingsActs, form |-> form, todo |-> BackendKeys]}
  /\ UNCHANGED <<backend, local, settingsOpen, form, loads>>

HandleSave ==
  /\ SettingsAct /\ settingsOpen /\ form # NoForm /\ ~Saving
  /\ saves' = saves \cup {[id |-> settingsActs, form |-> form, todo |-> BackendKeys]}
  /\ UNCHANGED <<backend, local, settingsOpen, form, loads>>

PutSettings(s) ==
  /\ \E key \in s.todo :
       /\ backend' = [backend EXCEPT ![key] = s.form.backend[key]]
       /\ saves' = (saves \ {s}) \cup {[s EXCEPT !.todo = @ \ {key}]}
  /\ UNCHANGED <<local, settingsOpen, form, loads, settingsActs>>

Saved(s) ==
  /\ s.todo = {} /\ saves' = saves \ {s}
  /\ local' = s.form.local
  /\ form' = IF form = NoForm THEN form ELSE [form EXCEPT !.backend = backend]
  /\ settingsOpen' = FALSE
  /\ UNCHANGED <<backend, loads, settingsActs>>

(* A key cannot be stored, or the answer is lost: what is stored stays.    *)
SaveFails(s) ==
  /\ saves' = saves \ {s}
  /\ UNCHANGED <<backend, local, settingsOpen, form, loads, settingsActs>>

SettingsNext ==
  \/ OpenDialog \/ GeneralSection \/ ProxySection \/ Cancel \/ HandleSave
  \/ \E l \in loads : LoadSettings(l) \/ Loaded(l) \/ LoadFails(l)
  \/ \E s \in saves : PutSettings(s) \/ Saved(s) \/ SaveFails(s)

SettingsSpec == SettingsInit /\ [][SettingsNext]_settingsVars
-----------------------------------------------------------------------------
(***************************************************************************)
(* The two stores change together: when the settings of the browser are    *)
(* replaced, the agent holds the other half of the very same form, though  *)
(* the dialog may have been closed, reopened and edited since, and though  *)
(* a save before it may have failed half way.                              *)
(***************************************************************************)
SaveIsWhole ==
  [][local' # local =>
       \E s \in saves : local' = s.form.local /\ backend = s.form.backend]_settingsVars
=============================================================================
