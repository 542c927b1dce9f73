----------------------------- MODULE JsonStore ------------------------------
(***************************************************************************)
(* agent/store.go behind the handlers of collections.go and                *)
(* environments.go: one JSON file per document, written in place with      *)
(* os.WriteFile, read without a lock, listed file by file.  Every call is  *)
(* a goroutine of its own.  The server has no shutdown: the process ends   *)
(* wherever it is.                                                         *)
(*                                                                         *)
(* A document is a value of Contents; a file may also be Empty, opened     *)
(* with O_TRUNC and not yet written, or Torn, no JSON any more.            *)
(***************************************************************************)
CONSTANTS
  Docs, Clients, Contents,
  Absent, Empty, Torn, Unreadable,
  OneWriter, \* no client saves a document another is saving
  CanCrash, DiskFails

ASSUME ContentsAssumption ==
  /\ {Absent, Empty, Torn, Unreadable} \cap Contents = {}
  /\ Empty \notin {Absent, Torn, Unreadable} /\ Torn \notin {Absent, Unreadable}
  /\ Absent # Unreadable
  /\ {OneWriter, CanCrash, DiskFails} \subseteq BOOLEAN

VARIABLES
  file,   \* what each path holds
  pc,     \* where the call of each client is
  id,     \* the document it is about
  data,   \* the document it saves
  linked, \* the file it has opened is still the one at the path
  before, \* what the path held when it opened it
  left,   \* files a list has still to read
  read    \* what it has read so far

callVars == <<id, data, linked, before, left, read>>
vars == <<file, pc, callVars>>

Whole == Contents \cup {Absent}
NothingRead == [d \in {} |-> Absent]

TypeOK ==
  /\ file \in [Docs -> Whole \cup {Empty, Torn}]
  /\ pc \in [Clients -> {"idle", "save", "write", "get", "list", "files", "delete"}]
  /\ id \in [Clients -> Docs] /\ data \in [Clients -> Contents]
  /\ linked \in [Clients -> BOOLEAN] /\ before \in [Clients -> Whole \cup {Empty, Torn}]
  /\ left \in [Clients -> SUBSET Docs]
  /\ read \in [Clients -> UNION {[some -> Whole \cup {Unreadable}] : some \in SUBSET Docs}]

Init ==
  /\ file = [d \in Docs |-> Absent] /\ pc = [c \in Clients |-> "idle"]
  /\ id \in [Clients -> Docs] /\ data \in [Clients -> Contents]
  /\ linked = [c \in Clients |-> FALSE] /\ before = [c \in Clients |-> Absent]
  /\ left = [c \in Clients |-> {}] /\ read = [c \in Clients |-> NothingRead]

Saving(d) == {c \in Clients : pc[c] \in {"save", "write"} /\ id[c] = d}

-----------------------------------------------------------------------------
(* Variants of steps below with a plausible mistake, for the sensitivity   *)
(* runs; the specification does not use them.                              *)

\* The file is opened without O_TRUNC: a longer document keeps its end.
OpenKeeps(c) ==
  /\ pc[c] = "save"
  /\ file' = [file EXCEPT ![id[c]] = IF @ = Absent THEN Empty ELSE @]
  /\ before' = [before EXCEPT ![c] = file[id[c]]] /\ linked' = [linked EXCEPT ![c] = TRUE]
  /\ pc' = [pc EXCEPT ![c] = "write"]
  /\ UNCHANGED <<id, data, left, read>>

\* A temporary file is renamed over the path.
WriteRenames(c) ==
  /\ pc[c] = "write"
  /\ file' = [file EXCEPT ![id[c]] = data[c]]
  /\ pc' = [pc EXCEPT ![c] = "idle"] /\ linked' = [linked EXCEPT ![c] = FALSE]
  /\ before' = [before EXCEPT ![c] = Absent]
  /\ UNCHANGED <<id, data, left, read>>

-----------------------------------------------------------------------------
\* writeJSON of what is not JSON sends an empty body, which no client parses.
Sent(content) == IF content \in Whole THEN content ELSE Unreadable
Reads(c, d) == [read EXCEPT ![c] = [e \in DOMAIN @ \cup {d} |-> IF e = d THEN Sent(file[d]) ELSE @[e]]]

Request(c, call) ==
  /\ pc[c] = "idle"
  /\ \E d \in Docs, v \in Contents :
       /\ OneWriter /\ call = "save" => Saving(d) = {}
       /\ id' = IF call = "list" THEN id ELSE [id EXCEPT ![c] = d]
       /\ data' = IF call = "save" THEN [data EXCEPT ![c] = v] ELSE data
  /\ pc' = [pc EXCEPT ![c] = call] /\ read' = [read EXCEPT ![c] = NothingRead]
  /\ UNCHANGED <<file, linked, before, left>>

\* save: os.OpenFile with O_CREATE and O_TRUNC, then one write.
Open(c) ==
  /\ pc[c] = "save"
  /\ file' = [file EXCEPT ![id[c]] = Empty]
  /\ before' = [before EXCEPT ![c] = file[id[c]]] /\ linked' = [linked EXCEPT ![c] = TRUE]
  /\ pc' = [pc EXCEPT ![c] = "write"]
  /\ UNCHANGED <<id, data, left, read>>

Close(c) ==
  /\ pc' = [pc EXCEPT ![c] = "idle"] /\ linked' = [linked EXCEPT ![c] = FALSE]
  /\ before' = [before EXCEPT ![c] = Absent]
  /\ UNCHANGED <<id, data, left, read>>

\* Over the bytes of another writer, the longer end of which remains.  A
\* file removed since it was opened is written to no path.
Write(c) ==
  /\ pc[c] = "write"
  /\ \E result \in IF file[id[c]] = Empty THEN {data[c]} ELSE {data[c], Torn} :
       file' = IF linked[c] THEN [file EXCEPT ![id[c]] = result] ELSE file
  /\ Close(c)

\* The disk is full: the error is answered, what was written stays.
WriteFails(c) ==
  /\ DiskFails /\ pc[c] = "write"
  /\ \E result \in {file[id[c]], Torn} :
       file' = IF linked[c] THEN [file EXCEPT ![id[c]] = result] ELSE file
  /\ Close(c)

Get(c) ==
  /\ pc[c] = "get"
  /\ read' = Reads(c, id[c])
  /\ pc' = [pc EXCEPT ![c] = "idle"]
  /\ UNCHANGED <<file, id, data, linked, before, left>>

\* list: os.ReadDir, then os.ReadFile of every name.
ReadDir(c) ==
  /\ pc[c] = "list"
  /\ left' = [left EXCEPT ![c] = {d \in Docs : file[d] # Absent}]
  /\ pc' = [pc EXCEPT ![c] = "files"]
  /\ UNCHANGED <<file, id, data, linked, before, read>>

\* A file that is gone fails the whole list.
ReadFile(c) ==
  /\ pc[c] = "files"
  /\ \E d \in left[c] :
       /\ read' = Reads(c, d)
       /\ left' = [left EXCEPT ![c] = IF file[d] = Absent THEN {} ELSE @ \ {d}]
       /\ pc' = [pc EXCEPT ![c] = IF file[d] = Absent THEN "idle" ELSE @]
  /\ UNCHANGED <<file, id, data, linked, before>>

ListEnds(c) ==
  /\ pc[c] = "files" /\ left[c] = {}
  /\ pc' = [pc EXCEPT ![c] = "idle"]
  /\ UNCHANGED <<file, callVars>>

\* os.Remove; it is no error if there is no file.
Delete(c) ==
  /\ pc[c] = "delete"
  /\ file' = [file EXCEPT ![id[c]] = Absent]
  /\ linked' = [e \in Clients |-> linked[e] /\ id[e] # id[c]]
  /\ pc' = [pc EXCEPT ![c] = "idle"]
  /\ UNCHANGED <<id, data, before, left, read>>

Crash ==
  /\ CanCrash
  /\ pc' = [c \in Clients |-> "idle"] /\ linked' = [c \in Clients |-> FALSE]
  /\ before' = [c \in Clients |-> Absent] /\ left' = [c \in Clients |-> {}]
  /\ read' = [c \in Clients |-> NothingRead]
  /\ UNCHANGED <<file, id, data>>

Next ==
  \/ \E c \in Clients :
       \/ \E call \in {"save", "get", "list", "delete"} : Request(c, call)
       \/ Open(c) \/ Write(c) \/ WriteFails(c) \/ Get(c)
       \/ ReadDir(c) \/ ReadFile(c) \/ ListEnds(c) \/ Delete(c)
  \/ Crash

Spec == Init /\ [][Next]_vars

-----------------------------------------------------------------------------
(* A document nobody is saving is whole on the disk or not there: what one *)
(* instance of the agent has stored is there for the next one.             *)
WholeAtRest ==
  \A d \in Docs : (\A c \in Clients : ~(pc[c] = "write" /\ id[c] = d)) => file[d] \in Whole

(* As long as no two calls save one document, what a client reads is the   *)
(* document as some call left it, never the half of one, though files are  *)
(* neither locked nor replaced atomically.                                 *)
Overwriting(d) == {c \in Clients : pc[c] = "write" /\ linked[c] /\ id[c] = d}
Doc(d) ==
  IF Overwriting(d) = {} THEN file[d]
  ELSE before[CHOOSE c \in Overwriting(d) : TRUE]
Promise == INSTANCE DocStore WITH doc <- [d \in Docs |-> Doc(d)], seen <- read
KeepsDocuments == Promise!Spec

(* A document that was deleted while it was being saved stays deleted: it  *)
(* only comes back through a call that opens it anew.                      *)
NoResurrection ==
  [][\A d \in Docs : file[d] = Absent /\ file'[d] # Absent =>
       \E c \in Clients : id[c] = d /\ pc[c] = "save" /\ pc'[c] = "write"]_vars

(* Whatever a crash or a full disk has left at the path, the next save of  *)
(* the document that is answered has repaired it.                          *)
SaveRepairs ==
  [][\A c \in Clients : Write(c) /\ linked[c] => file'[id[c]] = data[c]]_vars
=============================================================================
