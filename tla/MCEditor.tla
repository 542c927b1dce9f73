------------------------------ MODULE MCEditor ------------------------------
(* Two open requests: one as it was imported, with part of an API key and  *)
(* without settings, the other with a row of form data that has a file.    *)
EXTENDS RequestEditor

CONSTANTS text1, file1

MCParam(enabled, value) == [enabled |-> enabled, key |-> text1, value |-> value]
MCImported ==
  [method |-> "GET", url |-> [base |-> "/items/:t", query |-> <<<<text1, text1>>>>],
   params |-> <<MCParam(TRUE, text1), MCParam(FALSE, Blank)>>, headers |-> <<>>, pathVariables |-> <<>>,
   auth |-> Auth("apiKey", [NoFields EXCEPT !.apiKey = [key |-> text1]]), body |-> EmptyBody,
   preRequestScript |-> Blank, testScript |-> Blank, settings |-> Nothing]
MCNew ==
  [MCImported EXCEPT !.url = [base |-> "/plain", query |-> Nothing], !.params = <<>>,
     !.auth = Auth("basic", NoFields), !.settings = DefaultRequestSettings,
     !.body = [EmptyBody EXCEPT !.type = "form-data",
                 !.formData = <<[FormDataItem(1) EXCEPT !.valueType = "file"]>>]]

MCEditorInit ==
  /\ request = <<MCImported, MCNew>>
  /\ requestSubTab \in {<<s, s>> : s \in SubTabs}
  /\ editorTabId \in EditorTabs
  /\ readers = {} /\ confirm = Nothing /\ editorActs = 0
=============================================================================
