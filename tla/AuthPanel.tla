----------------------------- MODULE AuthPanel ------------------------------
(***************************************************************************)
(* components/layout/auth-panel.tsx: the form of an authorization, used by *)
(* the pane of a request and by the pane of a collection or folder; and    *)
(* what the agent and the engine make of it when a request is sent.        *)
(*                                                                         *)
(* An authorization is its type and, for every type that has been edited,  *)
(* a record of its fields, so that changing the type and back loses        *)
(* nothing.  The form shows a default where a field is missing; what is    *)
(* typed is written together with the defaults of the other fields.        *)
(*                                                                         *)
(* Texts are Empty, their default or one of Texts; what a list offers is   *)
(* abstracted to its default and one other choice.                         *)
(***************************************************************************)
CONSTANTS Blank, Texts, Other

Text == {Blank} \cup Texts
Choice(default) == {default, Other}

(***************************************************************************)
(* What the form shows of a type when nothing is known of it.              *)
(***************************************************************************)
Bearer == [token |-> Blank]
Basic == [username |-> Blank, password |-> Blank]
Jwt == [algorithm |-> "HS256", secret |-> Blank, payload |-> "{}", addTo |-> "header"]
Digest == [username |-> Blank, password |-> Blank]
OAuth1 == [consumerKey |-> Blank, consumerSecret |-> Blank, token |-> Blank,
           tokenSecret |-> Blank, signatureMethod |-> "HMAC-SHA1"]
OAuth2 == [grantType |-> "authorization_code", accessToken |-> Blank,
           tokenType |-> "Bearer", addTokenTo |-> "header"]
Hawk == [authId |-> Blank, authKey |-> Blank, algorithm |-> "sha256"]
Aws == [accessKey |-> Blank, secretKey |-> Blank, region |-> Blank, service |-> Blank, sessionToken |-> Blank]
Ntlm == [username |-> Blank, password |-> Blank, domain |-> Blank, workstation |-> Blank]
(* Mutant: the form shows another place than the one the engine takes.     *)
ApiKeyInQuery == [key |-> Blank, value |-> Blank, addTo |-> "query"]
ApiKey == [key |-> Blank, value |-> Blank, addTo |-> "header"]
Akamai == [accessToken |-> Blank, clientToken |-> Blank, clientSecret |-> Blank, baseUrl |-> Blank]
Asap == [issuer |-> Blank, audience |-> Blank, keyId |-> Blank, privateKey |-> Blank]

Defaults ==
  [bearer |-> Bearer, basic |-> Basic, jwt |-> Jwt, digest |-> Digest, oauth1 |-> OAuth1,
   oauth2 |-> OAuth2, hawk |-> Hawk, aws |-> Aws, ntlm |-> Ntlm,
   apiKey |-> ApiKey, akamai |-> Akamai, asap |-> Asap]

FormTypes == DOMAIN Defaults
AuthTypes == FormTypes \cup {"inherit", "none"}

(* Fields that are left out of the record when they are emptied.           *)
Optional == [aws |-> {"sessionToken"}, ntlm |-> {"domain", "workstation"}]
IsOptional(type, field) == type \in DOMAIN Optional /\ field \in Optional[type]

(* Empty texts may be typed into; defaults are what a list or the payload  *)
(* begins with.                                                            *)
Inputs(type, field) ==
  IF Defaults[type][field] = Blank THEN Text ELSE Choice(Defaults[type][field])

(* An authorization: of a type, and with the fields known of each type.    *)
NoFields == [type \in FormTypes |-> <<>>]
Auth(type, fields) == [type |-> type, fields |-> fields]
IsAuth(auth) == {"type", "fields"} \subseteq DOMAIN auth /\ DOMAIN auth.fields = FormTypes

Known(auth, type, field) == field \in DOMAIN auth.fields[type]
ShownField(auth, type, field) ==
  IF Known(auth, type, field) THEN auth.fields[type][field] ELSE Defaults[type][field]
ShownAuth(auth) ==
  [type \in FormTypes |-> [field \in DOMAIN Defaults[type] |-> ShownField(auth, type, field)]]

(***************************************************************************)
(* The ways of changing it.                                                *)
(***************************************************************************)
SetType(auth, type) == [auth EXCEPT !.type = type]

(* Mutant: the field that is typed is all that is written.                 *)
SetFieldOnly(auth, field, value) == [auth EXCEPT !.fields[auth.type] = [f \in {field} |-> value]]

(* The record with the field, and with the defaults of those it lacks.     *)
SetField(auth, field, value) ==
  LET type == auth.type
      known == DOMAIN auth.fields[type]
      kept == {f \in DOMAIN Defaults[type] \ {field} : f \in known \/ ~IsOptional(type, f)}
      set == IF IsOptional(type, field) /\ value = Blank THEN {} ELSE {field}
  IN [auth EXCEPT !.fields[type] =
        [f \in kept \cup set |-> IF f = field THEN value ELSE ShownField(auth, type, f)]]

EditedAuth(auth) ==
  {SetType(auth, type) : type \in AuthTypes}
    \cup {SetField(auth, f[1], f[2]) :
            f \in UNION {{field} \X Inputs(auth.type, field) :
                           field \in IF auth.type \in FormTypes THEN DOMAIN Defaults[auth.type] ELSE {}}}

(***************************************************************************)
(* What is sent: send.go toParserAuth and the constructors of engine/auth. *)
(* A field that is missing is "" there.  The types the engine does not     *)
(* have, and "inherit", are sent as none.                                  *)
(***************************************************************************)
Param(auth, type, field) == IF Known(auth, type, field) THEN auth.fields[type][field] ELSE Blank

Required == [bearer |-> {"token"}, basic |-> {"username"}, digest |-> {"username"},
             apiKey |-> {"key"}, aws |-> {"accessKey", "secretKey", "region", "service"}]

(* newOAuth2 wants accessTokenUrl and clientId, which the form has not.    *)
Applier(auth) ==
  LET type == auth.type IN
  CASE type = "oauth2" -> [error |-> "missing accessTokenUrl"]
    [] type \in DOMAIN Required ->
         LET params == [f \in DOMAIN Defaults[type] |-> Param(auth, type, f)] IN
         IF \E f \in Required[type] : params[f] = Blank THEN [error |-> "missing param"]
         ELSE IF type = "apiKey" /\ params.addTo = Blank
         THEN [type |-> type, params |-> [params EXCEPT !.addTo = "header"]]
         ELSE [type |-> type, params |-> params]
    [] OTHER -> [type |-> "none"]
=============================================================================
