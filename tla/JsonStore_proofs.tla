-------------------------- MODULE JsonStore_proofs --------------------------
(***************************************************************************)
(* Proofs about JsonStore, for any number of documents and clients.        *)
(***************************************************************************)
EXTENDS JsonStore, TLAPS

Faultless == OneWriter /\ ~CanCrash /\ ~DiskFails

\* A handle is linked between the opening and the write only.
LinkedWriting == \A c \in Clients : linked[c] => pc[c] = "write"

\* and the file is there: a delete breaks the link.
LinkedThere == \A c \in Clients : linked[c] => file[id[c]] # Absent

\* No two saves of one document.
SavesApart ==
  OneWriter => \A c, e \in Clients :
    c # e /\ pc[c] \in {"save", "write"} /\ pc[e] \in {"save", "write"} => id[c] # id[e]

\* Nobody has written into a file between its opening and its write.
OpenedEmpty == OneWriter => \A c \in Clients : linked[c] => file[id[c]] = Empty

\* What was overwritten was whole, and so is what nobody overwrites.
OldWhole == Faultless => \A c \in Clients : linked[c] => before[c] \in Whole
RestWhole ==
  Faultless => \A d \in Docs : (\A c \in Clients : ~(linked[c] /\ id[c] = d)) => file[d] \in Whole

Inv == TypeOK /\ LinkedWriting /\ LinkedThere /\ SavesApart /\ OpenedEmpty /\ OldWhole /\ RestWhole

-----------------------------------------------------------------------------
LEMMA InitInv == Init => Inv
<1>. SUFFICES ASSUME Init PROVE Inv
  OBVIOUS
<1>1. NothingRead \in UNION {[some -> Whole \cup {Unreadable}] : some \in SUBSET Docs}
  <2>1. NothingRead \in [{} -> Whole \cup {Unreadable}]
    BY DEF NothingRead
  <2>. QED
    BY <2>1
<1>2. TypeOK
  BY <1>1 DEF Init, TypeOK, Whole
<1>. QED
  BY <1>2 DEF Init, Inv, LinkedWriting, LinkedThere, SavesApart, OpenedEmpty, OldWhole, RestWhole, Whole

\* What a client has read, with one document more.
LEMMA ReadsType ==
  ASSUME TypeOK, NEW c \in Clients, NEW d \in Docs, file \in [Docs -> Whole \cup {Empty, Torn}]
  PROVE  Reads(c, d) \in [Clients -> UNION {[some -> Whole \cup {Unreadable}] : some \in SUBSET Docs}]
<1> DEFINE Sets == UNION {[some -> Whole \cup {Unreadable}] : some \in SUBSET Docs}
           more == [e \in DOMAIN read[c] \cup {d} |-> IF e = d THEN Sent(file[d]) ELSE read[c][e]]
<1>1. PICK some \in SUBSET Docs : read[c] \in [some -> Whole \cup {Unreadable}]
  BY DEF TypeOK
<1>2. Sent(file[d]) \in Whole \cup {Unreadable}
  BY DEF Sent
<1>3. more \in [some \cup {d} -> Whole \cup {Unreadable}]
  BY <1>1, <1>2
<1>4. some \cup {d} \in SUBSET Docs
  BY <1>1
<1>5. more \in Sets
  BY <1>3, <1>4
<1>6. Reads(c, d) = [read EXCEPT ![c] = more]
  BY DEF Reads
<1>. QED
  BY <1>5, <1>6 DEF TypeOK

LEMMA NothingReadType ==
  NothingRead \in UNION {[some -> Whole \cup {Unreadable}] : some \in SUBSET Docs}
<1>1. NothingRead \in [{} -> Whole \cup {Unreadable}]
  BY DEF NothingRead
<1>. QED
  BY <1>1

(* The type invariant is inductive by itself. *)
LEMMA TypeStep ==
  ASSUME TypeOK, [Next]_vars
  PROVE  TypeOK'
<1> USE ContentsAssumption DEF callVars
<1>1. ASSUME NEW c \in Clients, NEW call \in {"save", "get", "list", "delete"}, Request(c, call) PROVE TypeOK'
  BY <1>1, NothingReadType DEF Request, TypeOK
<1>2. ASSUME NEW c \in Clients, Open(c) PROVE TypeOK'
  BY <1>2 DEF Open, TypeOK, Whole
<1>3. ASSUME NEW c \in Clients, Write(c) PROVE TypeOK'
  BY <1>3 DEF Write, Close, TypeOK, Whole
<1>4. ASSUME NEW c \in Clients, WriteFails(c) PROVE TypeOK'
  BY <1>4 DEF WriteFails, Close, TypeOK, Whole
<1>5. ASSUME NEW c \in Clients, Get(c) PROVE TypeOK'
  BY <1>5, ReadsType DEF Get, TypeOK
<1>6. ASSUME NEW c \in Clients, ReadDir(c) PROVE TypeOK'
  BY <1>6 DEF ReadDir, TypeOK, Whole
<1>7. ASSUME NEW c \in Clients, ReadFile(c) PROVE TypeOK'
  <2>1. PICK d \in left[c] :
          /\ read' = Reads(c, d)
          /\ left' = [left EXCEPT ![c] = IF file[d] = Absent THEN {} ELSE @ \ {d}]
          /\ pc' = [pc EXCEPT ![c] = IF file[d] = Absent THEN "idle" ELSE @]
    BY <1>7 DEF ReadFile
  <2>2. d \in Docs
    BY <2>1 DEF TypeOK
  <2>. QED
    BY <1>7, <2>1, <2>2, ReadsType DEF ReadFile, TypeOK
<1>8. ASSUME NEW c \in Clients, ListEnds(c) PROVE TypeOK'
  BY <1>8 DEF ListEnds, TypeOK, Whole
<1>9. ASSUME NEW c \in Clients, Delete(c) PROVE TypeOK'
  BY <1>9 DEF Delete, TypeOK, Whole
<1>10. ASSUME Crash PROVE TypeOK'
  BY <1>10, NothingReadType DEF Crash, TypeOK, Whole
<1>11. CASE UNCHANGED vars
  BY <1>11 DEF vars, TypeOK
<1>. QED
  BY <1>1, <1>2, <1>3, <1>4, <1>5, <1>6, <1>7, <1>8, <1>9, <1>10, <1>11 DEF Next

LEMMA LinkedWritingStep ==
  ASSUME TypeOK, LinkedWriting, [Next]_vars
  PROVE  LinkedWriting'
<1> USE ContentsAssumption DEF TypeOK, LinkedWriting, callVars
<1>1. ASSUME NEW c \in Clients, NEW call \in {"save", "get", "list", "delete"}, Request(c, call) PROVE LinkedWriting'
  BY <1>1 DEF Request, Saving
<1>2. ASSUME NEW c \in Clients, Open(c) PROVE LinkedWriting'
  BY <1>2 DEF Open
<1>3. ASSUME NEW c \in Clients, Write(c) PROVE LinkedWriting'
  BY <1>3 DEF Write, Close
<1>4. ASSUME NEW c \in Clients, WriteFails(c) PROVE LinkedWriting'
  BY <1>4 DEF WriteFails, Close
<1>5. ASSUME NEW c \in Clients, Get(c) PROVE LinkedWriting'
  BY <1>5 DEF Get, Reads, Sent
<1>6. ASSUME NEW c \in Clients, ReadDir(c) PROVE LinkedWriting'
  BY <1>6 DEF ReadDir
<1>7. ASSUME NEW c \in Clients, ReadFile(c) PROVE LinkedWriting'
  BY <1>7 DEF ReadFile, Reads, Sent
<1>8. ASSUME NEW c \in Clients, ListEnds(c) PROVE LinkedWriting'
  BY <1>8 DEF ListEnds
<1>9. ASSUME NEW c \in Clients, Delete(c) PROVE LinkedWriting'
  BY <1>9 DEF Delete
<1>10. ASSUME Crash PROVE LinkedWriting'
  BY <1>10 DEF Crash
<1>11. CASE UNCHANGED vars
  BY <1>11 DEF vars
<1>. QED
  BY <1>1, <1>2, <1>3, <1>4, <1>5, <1>6, <1>7, <1>8, <1>9, <1>10, <1>11 DEF Next

LEMMA SavesApartStep ==
  ASSUME TypeOK, SavesApart, [Next]_vars
  PROVE  SavesApart'
<1> USE ContentsAssumption DEF TypeOK, SavesApart, callVars
<1>1. ASSUME NEW c \in Clients, NEW call \in {"save", "get", "list", "delete"}, Request(c, call) PROVE SavesApart'
  BY <1>1 DEF Request, Saving
<1>2. ASSUME NEW c \in Clients, Open(c) PROVE SavesApart'
  BY <1>2 DEF Open
<1>3. ASSUME NEW c \in Clients, Write(c) PROVE SavesApart'
  BY <1>3 DEF Write, Close
<1>4. ASSUME NEW c \in Clients, WriteFails(c) PROVE SavesApart'
  BY <1>4 DEF WriteFails, Close
<1>5. ASSUME NEW c \in Clients, Get(c) PROVE SavesApart'
  BY <1>5 DEF Get, Reads, Sent
<1>6. ASSUME NEW c \in Clients, ReadDir(c) PROVE SavesApart'
  BY <1>6 DEF ReadDir
<1>7. ASSUME NEW c \in Clients, ReadFile(c) PROVE SavesApart'
  BY <1>7 DEF ReadFile, Reads, Sent
<1>8. ASSUME NEW c \in Clients, ListEnds(c) PROVE SavesApart'
  BY <1>8 DEF ListEnds
<1>9. ASSUME NEW c \in Clients, Delete(c) PROVE SavesApart'
  BY <1>9 DEF Delete
<1>10. ASSUME Crash PROVE SavesApart'
  BY <1>10 DEF Crash
<1>11. CASE UNCHANGED vars
  BY <1>11 DEF vars
<1>. QED
  BY <1>1, <1>2, <1>3, <1>4, <1>5, <1>6, <1>7, <1>8, <1>9, <1>10, <1>11 DEF Next

LEMMA OpenedEmptyStep ==
  ASSUME TypeOK, LinkedWriting, SavesApart, OpenedEmpty, [Next]_vars
  PROVE  OpenedEmpty'
<1> USE ContentsAssumption DEF TypeOK, LinkedWriting, SavesApart, OpenedEmpty, callVars
<1>1. ASSUME NEW c \in Clients, NEW call \in {"save", "get", "list", "delete"}, Request(c, call) PROVE OpenedEmpty'
  BY <1>1 DEF Request, Saving
<1>2. ASSUME NEW c \in Clients, Open(c) PROVE OpenedEmpty'
  BY <1>2 DEF Open
<1>3. ASSUME NEW c \in Clients, Write(c) PROVE OpenedEmpty'
  BY <1>3 DEF Write, Close
<1>4. ASSUME NEW c \in Clients, WriteFails(c) PROVE OpenedEmpty'
  BY <1>4 DEF WriteFails, Close
<1>5. ASSUME NEW c \in Clients, Get(c) PROVE OpenedEmpty'
  BY <1>5 DEF Get, Reads, Sent
<1>6. ASSUME NEW c \in Clients, ReadDir(c) PROVE OpenedEmpty'
  BY <1>6 DEF ReadDir
<1>7. ASSUME NEW c \in Clients, ReadFile(c) PROVE OpenedEmpty'
  BY <1>7 DEF ReadFile, Reads, Sent
<1>8. ASSUME NEW c \in Clients, ListEnds(c) PROVE OpenedEmpty'
  BY <1>8 DEF ListEnds
<1>9. ASSUME NEW c \in Clients, Delete(c) PROVE OpenedEmpty'
  BY <1>9 DEF Delete
<1>10. ASSUME Crash PROVE OpenedEmpty'
  BY <1>10 DEF Crash
<1>11. CASE UNCHANGED vars
  BY <1>11 DEF vars
<1>. QED
  BY <1>1, <1>2, <1>3, <1>4, <1>5, <1>6, <1>7, <1>8, <1>9, <1>10, <1>11 DEF Next

LEMMA OldWholeStep ==
  ASSUME TypeOK, LinkedWriting, SavesApart, RestWhole, OldWhole, [Next]_vars
  PROVE  OldWhole'
<1> USE ContentsAssumption DEF TypeOK, LinkedWriting, SavesApart, RestWhole, OldWhole, Faultless, callVars
<1>1. ASSUME NEW c \in Clients, NEW call \in {"save", "get", "list", "delete"}, Request(c, call) PROVE OldWhole'
  BY <1>1 DEF Request, Saving
<1>2. ASSUME NEW c \in Clients, Open(c) PROVE OldWhole'
  BY <1>2 DEF Open
<1>3. ASSUME NEW c \in Clients, Write(c) PROVE OldWhole'
  BY <1>3 DEF Write, Close
<1>4. ASSUME NEW c \in Clients, WriteFails(c) PROVE OldWhole'
  BY <1>4 DEF WriteFails, Close
<1>5. ASSUME NEW c \in Clients, Get(c) PROVE OldWhole'
  BY <1>5 DEF Get, Reads, Sent
<1>6. ASSUME NEW c \in Clients, ReadDir(c) PROVE OldWhole'
  BY <1>6 DEF ReadDir
<1>7. ASSUME NEW c \in Clients, ReadFile(c) PROVE OldWhole'
  BY <1>7 DEF ReadFile, Reads, Sent
<1>8. ASSUME NEW c \in Clients, ListEnds(c) PROVE OldWhole'
  BY <1>8 DEF ListEnds
<1>9. ASSUME NEW c \in Clients, Delete(c) PROVE OldWhole'
  BY <1>9 DEF Delete
<1>10. ASSUME Crash PROVE OldWhole'
  BY <1>10 DEF Crash
<1>11. CASE UNCHANGED vars
  BY <1>11 DEF vars
<1>. QED
  BY <1>1, <1>2, <1>3, <1>4, <1>5, <1>6, <1>7, <1>8, <1>9, <1>10, <1>11 DEF Next

LEMMA RestWholeStep ==
  ASSUME TypeOK, LinkedWriting, SavesApart, OpenedEmpty, OldWhole, RestWhole, [Next]_vars
  PROVE  RestWhole'
<1> USE ContentsAssumption DEF TypeOK, LinkedWriting, SavesApart, OpenedEmpty, RestWhole, Faultless, Whole, callVars
<1>1. ASSUME NEW c \in Clients, NEW call \in {"save", "get", "list", "delete"}, Request(c, call) PROVE RestWhole'
  BY <1>1 DEF Request, Saving
<1>2. ASSUME NEW c \in Clients, Open(c) PROVE RestWhole'
  BY <1>2 DEF Open
<1>3. ASSUME NEW c \in Clients, Write(c) PROVE RestWhole'
  BY <1>3 DEF Write, Close
<1>4. ASSUME NEW c \in Clients, WriteFails(c) PROVE RestWhole'
  BY <1>4 DEF WriteFails, Close
<1>5. ASSUME NEW c \in Clients, Get(c) PROVE RestWhole'
  BY <1>5 DEF Get, Reads, Sent
<1>6. ASSUME NEW c \in Clients, ReadDir(c) PROVE RestWhole'
  BY <1>6 DEF ReadDir
<1>7. ASSUME NEW c \in Clients, ReadFile(c) PROVE RestWhole'
  BY <1>7 DEF ReadFile, Reads, Sent
<1>8. ASSUME NEW c \in Clients, ListEnds(c) PROVE RestWhole'
  BY <1>8 DEF ListEnds
<1>9. ASSUME NEW c \in Clients, Delete(c) PROVE RestWhole'
  BY <1>9 DEF Delete
<1>10. ASSUME Crash PROVE RestWhole'
  BY <1>10 DEF Crash
<1>11. CASE UNCHANGED vars
  BY <1>11 DEF vars
<1>. QED
  BY <1>1, <1>2, <1>3, <1>4, <1>5, <1>6, <1>7, <1>8, <1>9, <1>10, <1>11 DEF Next

LEMMA LinkedThereStep ==
  ASSUME TypeOK, LinkedWriting, LinkedThere, [Next]_vars
  PROVE  LinkedThere'
<1> USE ContentsAssumption DEF TypeOK, LinkedWriting, LinkedThere, callVars
<1>1. ASSUME NEW c \in Clients, NEW call \in {"save", "get", "list", "delete"}, Request(c, call) PROVE LinkedThere'
  BY <1>1 DEF Request, Saving
<1>2. ASSUME NEW c \in Clients, Open(c) PROVE LinkedThere'
  BY <1>2 DEF Open
<1>3. ASSUME NEW c \in Clients, Write(c) PROVE LinkedThere'
  BY <1>3 DEF Write, Close
<1>4. ASSUME NEW c \in Clients, WriteFails(c) PROVE LinkedThere'
  BY <1>4 DEF WriteFails, Close
<1>5. ASSUME NEW c \in Clients, Get(c) PROVE LinkedThere'
  BY <1>5 DEF Get, Reads, Sent
<1>6. ASSUME NEW c \in Clients, ReadDir(c) PROVE LinkedThere'
  BY <1>6 DEF ReadDir
<1>7. ASSUME NEW c \in Clients, ReadFile(c) PROVE LinkedThere'
  BY <1>7 DEF ReadFile, Reads, Sent
<1>8. ASSUME NEW c \in Clients, ListEnds(c) PROVE LinkedThere'
  BY <1>8 DEF ListEnds
<1>9. ASSUME NEW c \in Clients, Delete(c) PROVE LinkedThere'
  BY <1>9 DEF Delete
<1>10. ASSUME Crash PROVE LinkedThere'
  BY <1>10 DEF Crash
<1>11. CASE UNCHANGED vars
  BY <1>11 DEF vars
<1>. QED
  BY <1>1, <1>2, <1>3, <1>4, <1>5, <1>6, <1>7, <1>8, <1>9, <1>10, <1>11 DEF Next

(* All of it holds in every reachable state. *)
THEOREM Invariance == Spec => []Inv
<1>1. Inv /\ [Next]_vars => Inv'
  BY TypeStep, LinkedWritingStep, LinkedThereStep, SavesApartStep, OpenedEmptyStep, OldWholeStep, RestWholeStep
  DEF Inv
<1>. QED
  BY InitInv, <1>1, PTL DEF Spec

(* Types, whatever fails. *)
THEOREM TypeCorrect == Spec => []TypeOK
<1>1. Inv => TypeOK
  BY DEF Inv
<1>. QED
  BY <1>1, Invariance, PTL

(* Without faults, and as long as no two saves of one document overlap, a  *)
(* document nobody is saving is whole on the disk or not there.            *)
THEOREM WholeAtRestHolds == ASSUME Faultless PROVE Spec => []WholeAtRest
<1>1. Inv => WholeAtRest
  BY DEF Inv, RestWhole, LinkedWriting, WholeAtRest, Faultless
<1>. QED
  BY <1>1, Invariance, PTL

(* A document deleted while it is being saved stays deleted, whatever      *)
(* fails and however many clients save it.                                 *)
THEOREM NoResurrectionHolds == Spec => NoResurrection
<1> DEFINE Reopened ==
      \A d \in Docs : file[d] = Absent /\ file'[d] # Absent =>
        \E c \in Clients : id[c] = d /\ pc[c] = "save" /\ pc'[c] = "write"
<1>1. ASSUME Inv, Next PROVE Reopened
  <2> USE <1>1 DEF Inv, TypeOK
  <2>1. ASSUME NEW c \in Clients, Open(c) PROVE Reopened
    BY <2>1 DEF Open
  <2>2. ASSUME NEW c \in Clients, Write(c) \/ WriteFails(c) PROVE Reopened
    BY <2>2 DEF Write, WriteFails, LinkedThere
  <2>3. ASSUME NEW c \in Clients, Delete(c) PROVE Reopened
    BY <2>3 DEF Delete
  <2>4. CASE UNCHANGED file
    BY <2>4
  <2>. QED
    BY <2>1, <2>2, <2>3, <2>4 DEF Next, Request, Get, ReadDir, ReadFile, ListEnds, Crash
<1>2. Inv /\ [Next]_vars => [Reopened]_vars
  BY <1>1
<1>. QED
  BY <1>2, Invariance, PTL DEF Spec, NoResurrection

(* A save that is answered has repaired whatever was left at its path.     *)
THEOREM SaveRepairsHolds == ASSUME OneWriter PROVE Spec => SaveRepairs
<1> DEFINE Repaired == \A c \in Clients : Write(c) /\ linked[c] => file'[id[c]] = data[c]
<1>1. Inv /\ [Next]_vars => [Repaired]_vars
  BY DEF Inv, TypeOK, OpenedEmpty, Write
<1>. QED
  BY <1>1, Invariance, PTL DEF Spec, SaveRepairs

-----------------------------------------------------------------------------
(* The refinement.  Doc is what a document was before a save opened it,    *)
(* until the save has written.                                             *)
DocFacts ==
  /\ \A c \in Clients : linked[c] => Doc(id[c]) = before[c]
  /\ \A d \in Docs : (\A c \in Clients : ~(linked[c] /\ id[c] = d)) => Doc(d) = file[d]

LEMMA DocFactsHold == ASSUME OneWriter, Inv PROVE DocFacts
<1>1. ASSUME NEW c \in Clients, linked[c] PROVE Doc(id[c]) = before[c]
  <2>1. Overwriting(id[c]) = {c}
    BY <1>1 DEF Inv, LinkedWriting, SavesApart, Overwriting
  <2>. QED
    BY <2>1 DEF Doc
<1>2. ASSUME NEW d \in Docs, \A c \in Clients : ~(linked[c] /\ id[c] = d) PROVE Doc(d) = file[d]
  BY <1>2 DEF Doc, Overwriting
<1>. QED
  BY <1>1, <1>2 DEF DocFacts

\* What is sent of a document is the document, or nothing a client can read.
LEMMA SentIsDoc ==
  ASSUME Faultless, Inv, NEW d \in Docs
  PROVE  Sent(file[d]) \in {Doc(d), Unreadable}
<1>1. DocFacts
  BY DocFactsHold DEF Faultless
<1>2. CASE \A c \in Clients : ~(linked[c] /\ id[c] = d)
  BY <1>1, <1>2 DEF DocFacts, Inv, RestWhole, Sent
<1>3. CASE \E c \in Clients : linked[c] /\ id[c] = d
  BY <1>3, ContentsAssumption DEF Faultless, Inv, OpenedEmpty, Sent, Whole
<1>. QED
  BY <1>2, <1>3

Documents == [d \in Docs |-> Doc(d)]

LEMMA StepSimulates ==
  ASSUME Faultless, Inv, Inv', DocFacts, DocFacts', Next
  PROVE  Promise!Next \/ UNCHANGED <<Documents, read>>
<1> DEFINE Goal == Promise!Next \/ UNCHANGED <<Documents, read>>
<1> USE DEF Faultless
<1>1. ASSUME NEW c \in Clients, NEW call \in {"save", "get", "list", "delete"}, Request(c, call) PROVE Goal
  <2>1. \A d \in Docs : Doc(d)' = Doc(d)
    BY <1>1 DEF Request, Inv, TypeOK, LinkedWriting, DocFacts
  <2>2. Promise!Ask(c)
    BY <1>1, <2>1 DEF Request, Promise!Ask, Promise!Nothing, NothingRead
  <2>. QED
    BY <2>2 DEF Promise!Next
<1>2. ASSUME NEW c \in Clients, Open(c) PROVE Goal
  <2>1. \A d \in Docs : Doc(d)' = Doc(d)
    <3>1. /\ file'[id[c]] = Empty /\ \A d \in Docs : d # id[c] => file'[d] = file[d]
          /\ linked'[c] /\ before'[c] = file[id[c]] /\ UNCHANGED id /\ id[c] \in Docs
          /\ \A e \in Clients : e # c => linked'[e] = linked[e] /\ before'[e] = before[e]
      BY <1>2 DEF Open, Inv, TypeOK
    <3>2. \A e \in Clients : linked[e] => e # c /\ id[e] # id[c]
      BY <1>2 DEF Open, Inv, LinkedWriting, SavesApart
    <3>3. TAKE d \in Docs
    <3>4. CASE d = id[c]
      BY <3>1, <3>2, <3>4 DEF DocFacts
    <3>5. CASE d # id[c] /\ \E e \in Clients : linked[e] /\ id[e] = d
      BY <3>1, <3>2, <3>5 DEF DocFacts
    <3>6. CASE d # id[c] /\ \A e \in Clients : ~(linked[e] /\ id[e] = d)
      <4>1. Doc(d) = file[d]
        BY <3>6 DEF DocFacts
      <4>2. \A e \in Clients : ~(linked'[e] /\ id'[e] = d)
        BY <3>1, <3>6
      <4>. QED
        BY <3>1, <3>6, <4>1, <4>2 DEF DocFacts
    <3>. QED
      BY <3>4, <3>5, <3>6
  <2>. QED
    BY <1>2, <2>1 DEF Open, Documents
<1>3. ASSUME NEW c \in Clients, Write(c) PROVE Goal
  <2>1. CASE linked[c]
    <3>1. file' = [file EXCEPT ![id[c]] = data[c]]
      BY <1>3, <2>1 DEF Write, Inv, OpenedEmpty
    <3>2. \A d \in Docs : Doc(d)' = IF d = id[c] THEN data[c] ELSE Doc(d)
      <4>1. \A e \in Clients : linked'[e] <=> linked[e] /\ e # c
        BY <1>3 DEF Write, Close, Inv, TypeOK
      <4>2. id' = id /\ \A e \in Clients \ {c} : before'[e] = before[e]
        BY <1>3 DEF Write, Close, Inv, TypeOK
      <4>3. \A e \in Clients : linked[e] /\ e # c => id[e] # id[c]
        BY <1>3, <2>1 DEF Inv, LinkedWriting, SavesApart
      <4>4. file'[id[c]] = data[c] /\ \A d \in Docs : d # id[c] => file'[d] = file[d]
        BY <3>1 DEF Inv, TypeOK
      <4>5. ASSUME NEW d \in Docs, d = id[c] PROVE Doc(d)' = data[c]
        BY <4>5, <4>1, <4>2, <4>3, <4>4 DEF DocFacts, Inv, TypeOK
      <4>6. ASSUME NEW d \in Docs, d # id[c] PROVE Doc(d)' = Doc(d)
        BY <4>1, <4>2, <4>4, <4>6 DEF DocFacts, Inv, TypeOK
      <4>. QED
        BY <4>5, <4>6
    <3>3. data[c] \in Contents /\ id[c] \in Docs /\ read' = read
      BY <1>3 DEF Write, Close, Inv, TypeOK
    <3>4. [d \in Docs |-> Doc(d)]' = [[d \in Docs |-> Doc(d)] EXCEPT ![id[c]] = data[c]]
      BY <3>2
    <3>5. Promise!Put(id[c])
      BY <3>3, <3>4 DEF Promise!Put
    <3>. QED
      BY <3>3, <3>5 DEF Promise!Next
  <2>2. CASE ~linked[c]
    <3>1. \A d \in Docs : Doc(d)' = Doc(d)
      BY <1>3, <2>2 DEF Write, Close, Inv, TypeOK, DocFacts
    <3>. QED
      BY <1>3, <3>1 DEF Write, Close, Documents
  <2>. QED
    BY <2>1, <2>2
<1>4. ASSUME NEW c \in Clients, WriteFails(c) PROVE Goal
  BY <1>4 DEF WriteFails
<1>5. ASSUME NEW c \in Clients, Get(c) PROVE Goal
  <2>1. \A d \in Docs : Doc(d)' = Doc(d)
    BY <1>5 DEF Get, Inv, DocFacts
  <2>2. read' = Reads(c, id[c]) /\ id[c] \in Docs
    BY <1>5 DEF Get, Inv, TypeOK
  <2>3. Promise!Look(c, id[c])
    BY <2>1, <2>2, SentIsDoc DEF Reads, Inv, TypeOK, Promise!Look
  <2>. QED
    BY <2>2, <2>3 DEF Promise!Next
<1>6. ASSUME NEW c \in Clients, ReadDir(c) PROVE Goal
  <2>1. \A d \in Docs : Doc(d)' = Doc(d)
    BY <1>6 DEF ReadDir, Inv, DocFacts
  <2>. QED
    BY <1>6, <2>1 DEF ReadDir, Documents
<1>7. ASSUME NEW c \in Clients, ReadFile(c) PROVE Goal
  <2>1. \A d \in Docs : Doc(d)' = Doc(d)
    BY <1>7 DEF ReadFile, Inv, DocFacts
  <2>2. PICK d \in left[c] : read' = Reads(c, d)
    BY <1>7 DEF ReadFile
  <2>3. d \in Docs
    BY <2>2 DEF Inv, TypeOK
  <2>4. Promise!Look(c, d)
    BY <2>1, <2>2, <2>3, SentIsDoc DEF Reads, Inv, TypeOK, Promise!Look
  <2>. QED
    BY <2>3, <2>4 DEF Promise!Next
<1>8. ASSUME NEW c \in Clients, ListEnds(c) PROVE Goal
  <2>1. \A d \in Docs : Doc(d)' = Doc(d)
    BY <1>8 DEF ListEnds, callVars, Inv, DocFacts
  <2>. QED
    BY <1>8, <2>1 DEF ListEnds, callVars, Documents
<1>9. ASSUME NEW c \in Clients, Delete(c) PROVE Goal
  <2>1. \A d \in Docs : Doc(d)' = IF d = id[c] THEN Absent ELSE Doc(d)
    BY <1>9 DEF Delete, Inv, TypeOK, LinkedWriting, DocFacts
  <2>2. Promise!Remove(id[c])
    <3>1. id[c] \in Docs /\ UNCHANGED read
      BY <1>9 DEF Delete, Inv, TypeOK
    <3>2. [d \in Docs |-> Doc(d)]' = [[d \in Docs |-> Doc(d)] EXCEPT ![id[c]] = Absent]
      BY <2>1, <3>1
    <3>. QED
      BY <3>1, <3>2 DEF Promise!Remove
  <2>. QED
    BY <2>2 DEF Promise!Next, Inv, TypeOK
<1>10. ASSUME Crash PROVE Goal
  BY <1>10 DEF Crash
<1>. QED
  BY <1>1, <1>2, <1>3, <1>4, <1>5, <1>6, <1>7, <1>8, <1>9, <1>10 DEF Next

(* The files, written in place and without a lock, implement DocStore.     *)
THEOREM KeepsDocumentsHolds == ASSUME Faultless PROVE Spec => KeepsDocuments
<1>1. Init => Promise!Init
  <2>. SUFFICES ASSUME Init PROVE Promise!Init
    OBVIOUS
  <2>1. \A d \in Docs : Doc(d) = Absent
    BY DEF Init, Doc, Overwriting
  <2>. QED
    BY <2>1 DEF Init, Promise!Init, Promise!Nothing, NothingRead
<1>2. Inv => DocFacts
  BY DocFactsHold DEF Faultless
<1>3. Inv' => DocFacts'
  BY <1>2, PTL
<1>4. Inv /\ Inv' /\ [Next]_vars => [Promise!Next]_<<Documents, read>>
  <2>. SUFFICES ASSUME Inv, Inv', [Next]_vars
                PROVE  [Promise!Next]_<<Documents, read>>
    OBVIOUS
  <2>1. CASE Next
    BY <2>1, <1>2, <1>3, StepSimulates
  <2>2. CASE UNCHANGED vars
    BY <2>2 DEF vars, callVars, Documents, Doc, Overwriting
  <2>. QED
    BY <2>1, <2>2
<1>. QED
  BY <1>1, <1>4, Invariance, PTL DEF Spec, KeepsDocuments, Promise!Spec, Documents
=============================================================================
