--------------------------- MODULE RequestEditor ----------------------------
(***************************************************************************)
(* components/layout/request-pane.tsx: editing the request of a tab, by    *)
(* its URL bar and the forms under it.  Sending it is in RequestPane.      *)
(*                                                                         *)
(* Two things are hard here.  The URL and the table of parameters are two  *)
(* views of one thing, each rewritten when the other is edited.  And most  *)
(* forms write back the whole of what they were rendered with and one      *)
(* change, so whatever is written late, when a file has been read or a     *)
(* question answered, writes back older values too.                        *)
(***************************************************************************)
EXTENDS Naturals, SequencesExt, Selection, AuthPanel

CONSTANTS
  Nothing,       \* no query, no file, no settings, no open question
  EditorTabs,    \* the open tabs on requests
  Bases,         \* URLs without their query
  PathKeysOf,    \* the names after a ":" in the path of each
  Files,
  RowIds,        \* ids for rows of form data, numbers
  MaxEditorActs, MaxTableRows   \* bounds: acts of the user, rows of a table

VARIABLES
  request,       \* of each tab
  requestSubTab, \* of each tab
  editorTabId,
  readers,       \* the writes that wait for a file to be read
  confirm,       \* the write that waits for "Delete?" to be answered
  editorActs

editorVars == <<request, requestSubTab, editorTabId, readers, confirm, editorActs>>

MakeKV == [enabled |-> TRUE, key |-> Blank, value |-> Blank]
FormDataItem(id) ==
  [id |-> id, enabled |-> TRUE, key |-> Blank, valueType |-> "text", value |-> Blank, file |-> Nothing]

EmptyBody ==
  [type |-> "none", raw |-> Blank, rawContentType |-> "json", formData |-> <<>>, urlencoded |-> <<>>,
   graphqlQuery |-> Blank, graphqlVariables |-> Blank, binary |-> Nothing]
BodyTypes == {"none", "raw", "form-data", "x-www-form-urlencoded", "binary", "graphql"}

RequestSettings ==
  [followRedirects : BOOLEAN, maxRedirects : Nat, followOriginalMethod : BOOLEAN,
   followAuthHeader : BOOLEAN, removeReferer : BOOLEAN, sslVerify : BOOLEAN, timeout : Nat,
   httpVersion : {"auto", "http1", "http2"}, encodeUrl : BOOLEAN, cookieJar : BOOLEAN,
   proxy : [enabled : BOOLEAN, url : Text, username : Text, password : Text]]
ASSUME EditorAssumption == Nothing \notin RequestSettings

NoProxy == [enabled |-> FALSE, url |-> Blank, username |-> Blank, password |-> Blank]
DefaultRequestSettings ==
  [followRedirects |-> TRUE, maxRedirects |-> 10, followOriginalMethod |-> FALSE,
   followAuthHeader |-> TRUE, removeReferer |-> FALSE, sslVerify |-> TRUE, timeout |-> 30000,
   httpVersion |-> "auto", encodeUrl |-> TRUE, cookieJar |-> TRUE, proxy |-> NoProxy]

SubTabs == {"params", "auth", "headers", "body", "scripts", "settings", "code"}

(***************************************************************************)
(* The requests as they are opened: a new one, or one that was imported.   *)
(***************************************************************************)
KVRows == [enabled : BOOLEAN, key : Text, value : Text]
Urls == [base : Bases, query : {Nothing} \cup Seq(Text \X Text)]
Fields == {"method", "url", "params", "headers", "pathVariables", "auth", "body",
           "preRequestScript", "testScript", "settings"}
IsRequest(r) ==
  /\ Fields \subseteq DOMAIN r /\ r.url \in Urls /\ r.params \in Seq(KVRows)
  /\ r.settings \in {Nothing} \cup RequestSettings /\ IsAuth(r.auth)

EditorInit ==
  /\ DOMAIN request = EditorTabs /\ \A t \in EditorTabs : IsRequest(request[t])
  /\ requestSubTab \in [EditorTabs -> SubTabs] /\ editorTabId \in EditorTabs
  /\ readers = {} /\ confirm = Nothing /\ editorActs = 0

(***************************************************************************)
(* The URL and the parameters.  A query is its list of pairs.              *)
(***************************************************************************)
ParseQueryParams(url) ==
  IF url.query = Nothing THEN <<>>
  ELSE [n \in DOMAIN url.query |-> [enabled |-> TRUE, key |-> url.query[n][1], value |-> url.query[n][2]]]

Used(params) == Among(params, {n \in DOMAIN params : params[n].enabled /\ params[n].key # Blank})
Pairs(params) == [n \in DOMAIN params |-> <<params[n].key, params[n].value>>]

(* Mutant: a parameter that is not enabled stays in the URL.               *)
BuildUrlWithAll(url, params) ==
  [url EXCEPT !.query = IF params = <<>> THEN Nothing ELSE Pairs(params)]

BuildUrlWithParams(url, params) ==
  [url EXCEPT !.query = IF Used(params) = <<>> THEN Nothing ELSE Pairs(Used(params))]

(* The URL is typed.  Without a "?" the parameters stay, out of the URL.   *)
TypeUrl(r, url) ==
  [r EXCEPT !.url = url,
            !.params = IF url.query = Nothing THEN @ ELSE ParseQueryParams(url)]

(***************************************************************************)
(* Tables of keys and values: a cell is changed, a row deleted or added.   *)
(***************************************************************************)
KVRow(row) ==
  {[row EXCEPT !.enabled = ~@]} \cup {[row EXCEPT !.key = t] : t \in Text}
    \cup {[row EXCEPT !.value = t] : t \in Text}

ChangedRows(rows) ==
  UNION {{[rows EXCEPT ![n] = row] : row \in KVRow(rows[n])} : n \in DOMAIN rows}
DeletedRows(rows) == {RemoveAt(rows, n) : n \in DOMAIN rows}
AddedRow(rows, row) == IF Len(rows) < MaxTableRows THEN {Append(rows, row)} ELSE {}
KVTable(rows) == ChangedRows(rows) \cup DeletedRows(rows) \cup AddedRow(rows, MakeKV)

ParamsTab(r) ==
  {[r EXCEPT !.params = p, !.url = BuildUrlWithParams(@, p)] :
     p \in ChangedRows(r.params) \cup DeletedRows(r.params)}
    \cup {[r EXCEPT !.params = p] : p \in AddedRow(r.params, MakeKV)}

HeadersTab(r) == {[r EXCEPT !.headers = rows] : rows \in KVTable(r.headers)}

(* The variables of the path: those the URL names, with the values that    *)
(* were ever typed for them.                                               *)
PathVarKeys(r) == PathKeysOf[r.url.base]
PathVarValue(r, key) == IF key \in DOMAIN r.pathVariables THEN r.pathVariables[key] ELSE Blank
WithValue(values, key, value) == [k \in DOMAIN values \cup {key} |-> IF k = key THEN value ELSE values[k]]
PathVarsSection(r) ==
  {[r EXCEPT !.pathVariables = WithValue(@, key, value)] : key \in PathVarKeys(r), value \in Text}

UrlBar(r) ==
  {[r EXCEPT !.method = m] : m \in {"GET", "POST"}}
    \cup {TypeUrl(r, [base |-> base, query |-> query]) :
            base \in Bases, query \in {Nothing, <<>>} \cup {<<p>> : p \in Text \X Text}}

ScriptsTab(r) ==
  {[r EXCEPT !.preRequestScript = t] : t \in Text} \cup {[r EXCEPT !.testScript = t] : t \in Text}

AuthTab(r) == {[r EXCEPT !.auth = auth] : auth \in EditedAuth(r.auth)}

(***************************************************************************)
(* The settings: what has none shows the defaults, and gets all of them    *)
(* with the first change.                                                  *)
(***************************************************************************)
ShownSettings(r) == IF r.settings = Nothing THEN DefaultRequestSettings ELSE r.settings

Switches == {"followRedirects", "encodeUrl", "cookieJar", "sslVerify",
             "followOriginalMethod", "followAuthHeader", "removeReferer"}
GeneralSettings(s) ==
  {[s EXCEPT ![switch] = ~@] : switch \in Switches}
    \cup {[s EXCEPT !.timeout = n] : n \in {0, 30000}}
    \cup (IF s.followRedirects THEN {[s EXCEPT !.maxRedirects = n] : n \in {0, 10}} ELSE {})
    \cup {[s EXCEPT !.httpVersion = v] : v \in {"auto", "http1", "http2"}}
ProxySettings(s) ==
  {[s EXCEPT !.proxy.enabled = ~@]}
    \cup (IF s.proxy.enabled THEN {[s EXCEPT !.proxy[f] = t] : f \in {"url", "username", "password"}, t \in Text}
          ELSE {})

SettingsTab(r) ==
  {[r EXCEPT !.settings = s] : s \in GeneralSettings(ShownSettings(r)) \cup ProxySettings(ShownSettings(r))}
ResetSettings(r) == [r EXCEPT !.settings = DefaultRequestSettings]

(***************************************************************************)
(* The body.                                                               *)
(***************************************************************************)
FormDataRow(item) ==
  {[item EXCEPT !.enabled = ~@]} \cup {[item EXCEPT !.key = t] : t \in Text}
    \cup {[item EXCEPT !.valueType = type, !.value = Blank, !.file = Nothing] : type \in {"text", "file"}}
    \cup (IF item.valueType = "text" THEN {[item EXCEPT !.value = t] : t \in Text} ELSE {})

(* No row that any waiting write knows of has the id.                      *)
IdsOf(body) == {body.formData[n].id : n \in DOMAIN body.formData}
FreeIds ==
  RowIds \ (UNION {IdsOf(request[t].body) : t \in EditorTabs} \cup UNION {IdsOf(w.body) : w \in readers})
NewId == CHOOSE id \in FreeIds : \A other \in FreeIds : id <= other

FormDataTable(items) ==
  UNION {{[items EXCEPT ![n] = item] : item \in FormDataRow(items[n])} : n \in DOMAIN items}
    \cup (IF FreeIds # {} THEN AddedRow(items, FormDataItem(NewId)) ELSE {})

RawBody(body) ==
  {[body EXCEPT !.raw = t] : t \in Text}
    \cup {[body EXCEPT !.rawContentType = t] : t \in {"json", "text"}}

GraphqlBody(body) ==
  {[body EXCEPT !.graphqlQuery = t] : t \in Text}
    \cup {[body EXCEPT !.graphqlVariables = t] : t \in Text}

FormDataBody(body) == {[body EXCEPT !.formData = items] : items \in FormDataTable(body.formData)}

UrlencodedBody(body) ==
  {[body EXCEPT !.urlencoded = rows] :
     rows \in ChangedRows(body.urlencoded) \cup AddedRow(body.urlencoded, MakeKV)}

BodyTab(body) ==
  {[body EXCEPT !.type = type] : type \in BodyTypes}
    \cup CASE body.type = "raw" -> RawBody(body)
           [] body.type = "graphql" -> GraphqlBody(body)
           [] body.type = "form-data" -> FormDataBody(body)
           [] body.type = "x-www-form-urlencoded" -> UrlencodedBody(body)
           [] OTHER -> {}

EditedBody(r) == {[r EXCEPT !.body = body] : body \in BodyTab(r.body)}

(* What a file will write when it has been read: to the body as it was     *)
(* when the file was chosen.                                               *)
BinaryFile(body) ==
  IF body.type = "binary" THEN {[body EXCEPT !.binary = file] : file \in Files} ELSE {}
HandleFileChange(body) ==
  IF body.type = "form-data"
  THEN {[body EXCEPT !.formData[n].file = file] :
          n \in {m \in DOMAIN body.formData : body.formData[m].valueType = "file"}, file \in Files}
  ELSE {}

(* What a deletion will write once it is confirmed.                        *)
DeletedFromBody(body) ==
  CASE body.type = "form-data" -> {[body EXCEPT !.formData = items] : items \in DeletedRows(body.formData)}
    [] body.type = "x-www-form-urlencoded" ->
         {[body EXCEPT !.urlencoded = rows] : rows \in DeletedRows(body.urlencoded)}
    [] OTHER -> {}

(***************************************************************************)
(* The steps.                                                              *)
(***************************************************************************)
Write(tab, body) == request' = [request EXCEPT ![tab].body = body]
SubTab == requestSubTab[editorTabId]

(* What may become of the request by one edit on the sub-tab that is shown. *)
Edited(r) ==
  UrlBar(r) \cup
  CASE SubTab = "params" -> ParamsTab(r) \cup PathVarsSection(r)
    [] SubTab = "headers" -> HeadersTab(r)
    [] SubTab = "auth" -> AuthTab(r)
    [] SubTab = "body" -> EditedBody(r)
    [] SubTab = "scripts" -> ScriptsTab(r)
    [] SubTab = "settings" -> SettingsTab(r)
    [] OTHER -> {}

Edit ==
  /\ confirm = Nothing
  /\ \E r \in Edited(request[editorTabId]) : request' = [request EXCEPT ![editorTabId] = r]
  /\ UNCHANGED <<requestSubTab, editorTabId, readers, confirm>>

Reset ==
  /\ confirm = Nothing /\ SubTab = "settings"
  /\ request' = [request EXCEPT ![editorTabId] = ResetSettings(@)]
  /\ UNCHANGED <<requestSubTab, editorTabId, readers, confirm>>

ChooseFile ==
  /\ confirm = Nothing /\ SubTab = "body"
  /\ LET body == request[editorTabId].body IN
     \E late \in BinaryFile(body) \cup HandleFileChange(body) :
       readers' = readers \cup {[tab |-> editorTabId, body |-> late]}
  /\ UNCHANGED <<request, requestSubTab, editorTabId, confirm>>

RequestDelete ==
  /\ confirm = Nothing /\ SubTab = "body"
  /\ \E body \in DeletedFromBody(request[editorTabId].body) : confirm' = [tab |-> editorTabId, body |-> body]
  /\ UNCHANGED <<request, requestSubTab, editorTabId, readers>>

AnswerDelete ==
  /\ confirm # Nothing /\ confirm' = Nothing
  /\ \/ Write(confirm.tab, confirm.body)
     \/ UNCHANGED request
  /\ UNCHANGED <<requestSubTab, editorTabId, readers>>

SetTabSubTab ==
  /\ confirm = Nothing
  /\ \E s \in SubTabs \ {SubTab} : requestSubTab' = [requestSubTab EXCEPT ![editorTabId] = s]
  /\ UNCHANGED <<request, editorTabId, readers, confirm>>

(* The rows of the other tab take the place of the row with the question.  *)
SwitchTab ==
  /\ \E t \in EditorTabs \ {editorTabId} : editorTabId' = t
  /\ confirm' = Nothing
  /\ UNCHANGED <<request, requestSubTab, readers>>

(* Mutant: the file goes to the tab that is shown when it has been read.   *)
FileReadHere(w) == Write(editorTabId, w.body) /\ readers' = readers \ {w}

FileRead(w) == Write(w.tab, w.body) /\ readers' = readers \ {w}

EditorUserAct ==
  \/ Edit \/ Reset \/ ChooseFile \/ RequestDelete \/ AnswerDelete \/ SetTabSubTab \/ SwitchTab

EditorNext ==
  \/ EditorUserAct /\ editorActs < MaxEditorActs /\ editorActs' = editorActs + 1
  \/ (\E w \in readers : FileRead(w)) /\ UNCHANGED <<requestSubTab, editorTabId, confirm, editorActs>>

EditorSpec == EditorInit /\ [][EditorNext]_editorVars
-----------------------------------------------------------------------------
(***************************************************************************)
(* The URL, when it has a query, and the table of parameters say the same: *)
(* what is in the one is enabled and named in the other, in the same       *)
(* order, whichever was edited last (docs/development.md, URL and Params   *)
(* sync).                                                                  *)
(***************************************************************************)
Named(query) == Among(query, {n \in DOMAIN query : query[n][1] # Blank})
QueryIsParams ==
  \A t \in EditorTabs :
    LET r == request[t] IN r.url.query # Nothing => Named(r.url.query) = Pairs(Used(r.params))

Differ(f, g) == {x \in DOMAIN f : f[x] # g[x]}
AtMostOne(s) == Cardinality(s) <= 1

(***************************************************************************)
(* An edit changes one thing that is shown: no field of another type of    *)
(* authorization, no other setting, no other part of the body, nothing in  *)
(* the other tab.  Only files and answers that come late put back older    *)
(* values, and "Reset to defaults" all settings.                           *)
(***************************************************************************)
EditKeepsOthers ==
  [][request' # request /\ Edit =>
       LET r == request[editorTabId]
           s == request'[editorTabId]
       IN /\ Differ(request, request') \subseteq {editorTabId}
          /\ AtMostOne(Differ(r, s) \ {"params"})
          /\ "params" \in Differ(r, s) => Differ(r, s) \subseteq {"params", "url"}
          /\ AtMostOne(Differ(r.body, s.body))
          /\ AtMostOne(Differ(ShownSettings(r), ShownSettings(s)))
          /\ r.auth # s.auth =>
               AtMostOne(UNION {{type} \X Differ(ShownAuth(r.auth)[type], ShownAuth(s.auth)[type]) :
                                  type \in FormTypes})
          /\ AtMostOne({key \in PathVarKeys(r) \cap PathVarKeys(s) :
                          PathVarValue(r, key) # PathVarValue(s, key)})]_editorVars

(***************************************************************************)
(* A file goes to the tab it was chosen in, whatever is shown when it has  *)
(* been read, and leaves all but the body of its request alone.            *)
(***************************************************************************)
FilesLandHome ==
  [][\A w \in readers \ readers' :
       /\ Differ(request, request') \subseteq {w.tab}
       /\ Differ(request[w.tab], request'[w.tab]) \subseteq {"body"}
       /\ \E v \in readers : v.tab = w.tab /\ v.body = request'[w.tab].body]_editorVars

(***************************************************************************)
(* What the form shows is what is sent: where a field was never typed, or  *)
(* is missing in an imported request, the engine does what it would do     *)
(* with the default that is shown.                                         *)
(***************************************************************************)
ShownIsSent ==
  \A t \in EditorTabs :
    LET auth == request[t].auth IN Applier(auth) = Applier(Auth(auth.type, ShownAuth(auth)))
=============================================================================
