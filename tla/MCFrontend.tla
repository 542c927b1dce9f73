----------------------------- MODULE MCFrontend -----------------------------
(* The user works in one part of the front end: the pane of a request,     *)
(* where it is sent (see MCRequestPane) or edited (MCEditor), its scripts  *)
(* (MCScriptVariables), the pane of a collection and of a folder in it,    *)
(* the table of a run, the history, the settings, or an input that offers  *)
(* variables.  The state of the others stays as before they are used.      *)
EXTENDS MCRequestPane, MCScriptVariables, MCEditor, CollectionPane, HistoryPanel, SettingsDialog,
        RunResults, VariableInput

MCScriptKeys == {"a", "b", "c"}
MCScriptValues == {<<"x">>, <<"b", "y">>, <<"c", "c">>}
MCPathKeysOf == "/plain" :> {} @@ "/items/:t" :> {text1}
MCScopeOf == [collection |-> <<"c", Null>>, folder |-> <<"c", "f">>]
MCSuggestions == <<<<"a">>, <<"a", "a">>>>

VARIABLE part

uiVars == <<resultVars, inputVars>>

FrontendInit ==
  /\ part \in {"send", "scripts", "edit", "collection", "history", "settings", "results", "input"}
  /\ MCInit /\ (part # "send" => activeEnvironmentId = e1)
  /\ IF part = "scripts" THEN MCScriptsInit
     ELSE /\ event = "done" /\ given = NoMaps /\ mutations = NoMaps
          /\ dataRow = <<>> /\ iterationData = <<>>
          /\ preResult = NoMaps /\ answer = NoMaps /\ ops = 0
  /\ MCEditorInit
  /\ part # "edit" => editorTabId = 1 /\ requestSubTab = <<"params", "params">>
  /\ PaneInit /\ environment = "e1"
  /\ part # "collection" =>
       paneTabId = "folder" /\ runOptions = [x \in {"collection", "folder"} |-> Null]
  /\ HistoryInit /\ (part # "history" => sent = 0)
  /\ SettingsInit
  /\ part # "settings" => (\A k \in DOMAIN backend : backend[k] = 0) /\ (\A k \in DOMAIN local : local[k] = 0)
  /\ ResultsInit /\ (part # "results" => totalIterations = 1)
  /\ InputInit
  /\ part # "input" => shownTab = 1 /\ values = [x \in 1..2 |-> <<>>]

FrontendNext ==
  \/ /\ part = "send" /\ Next
     /\ UNCHANGED <<part, scriptVars, editorVars, paneVars, historyVars, settingsVars, uiVars>>
  \/ /\ part = "scripts" /\ ScriptsNext
     /\ UNCHANGED <<part, vars, editorVars, paneVars, historyVars, settingsVars, uiVars>>
  \/ /\ part = "edit" /\ EditorNext
     /\ UNCHANGED <<part, vars, scriptVars, paneVars, historyVars, settingsVars, uiVars>>
  \/ /\ part = "collection" /\ PaneNext
     /\ UNCHANGED <<part, vars, scriptVars, editorVars, historyVars, settingsVars, uiVars>>
  \/ /\ part = "history" /\ HistoryNext
     /\ UNCHANGED <<part, vars, scriptVars, editorVars, paneVars, settingsVars, uiVars>>
  \/ /\ part = "settings" /\ SettingsNext
     /\ UNCHANGED <<part, vars, scriptVars, editorVars, paneVars, historyVars, uiVars>>
  \/ /\ part = "results" /\ ResultsNext
     /\ UNCHANGED <<part, vars, scriptVars, editorVars, paneVars, historyVars, settingsVars, inputVars>>
  \/ /\ part = "input" /\ InputNext
     /\ UNCHANGED <<part, vars, scriptVars, editorVars, paneVars, historyVars, settingsVars, resultVars>>

FrontendSpec ==
  FrontendInit
    /\ [][FrontendNext]_<<part, vars, scriptVars, editorVars, paneVars, historyVars, settingsVars,
                          uiVars>>
=============================================================================
