------------------------- MODULE SandboxIPC_proofs -------------------------
(***************************************************************************)
(* Theorems of SandboxIPC for any set of calls, any capacities and faults. *)
(* IInv, the inductive invariant, says of every place a script can be      *)
(* (stdin, Node, stdout, readLoop's hand, a channel) how far its call has  *)
(* come and what is registered under its id.                               *)
(***************************************************************************)
EXTENDS SandboxIPC, FiniteSetTheorems, FunctionTheorems, SequenceTheorems, TLAPS

Written == {"writing", "waiting", "remove", "done"}

IdsDistinct ==
  /\ \A c \in Calls : IF pc[c] = "idle" THEN id[c] = 0 ELSE id[c] \in 1 .. nextID
  /\ \A c, e \in Calls : id[c] = id[e] /\ id[c] # 0 => c = e

LockHeld == \A c \in Calls : pc[c] = "writing" <=> mu = c

\* A registered channel belongs to a call that has not returned, is empty,
\* and is not the one readLoop is sending on.
InflightLive ==
  \A n \in DOMAIN inflight :
    /\ id[inflight[n]] = n
    /\ pc[inflight[n]] \in {"write", "writing", "waiting", "remove"}
    /\ chan[inflight[n]] = <<>>
    /\ reader = "send" => dest # inflight[n]

\* A line on its way to Node is the only one of its call, and has not run.
LinesFresh ==
  /\ \A i \in 1 .. Len(stdin) : pc[stdin[i]] \in Written /\ stdin[i] \notin ran
  /\ \A i, j \in 1 .. Len(stdin) : stdin[i] = stdin[j] => i = j

\* What Node works on or has answered was written and has been started.
RepliesRan ==
  /\ \A c \in ran : pc[c] \in Written
  /\ running \subseteq ran
  /\ \A i \in 1 .. Len(stdout) : stdout[i].kind # "log" => stdout[i].script \in ran
  /\ reader \in {"take", "send"} => held \in ran
  /\ reader = "send" => dest = held /\ chan[dest] = <<>>

Answered ==
  /\ \A c \in Calls : chan[c] # <<>> => chan[c] = <<c>> /\ c \in ran
  /\ \A c \in Calls : outcome[c] = "answer" => pc[c] = "done" /\ answer[c] = c
  /\ \A c \in Calls : outcome[c] # "answer" => answer[c] = Nobody

\* A registered call that has not returned still has its answer coming.
Expected ==
  \A c \in Calls : pc[c] \in {"write", "writing", "waiting"} =>
     id[c] \in DOMAIN inflight \/ (reader = "send" /\ dest = c) \/ chan[c] # <<>>

IInv ==
  /\ TypeOK /\ IdsDistinct /\ LockHeld /\ InflightLive
  /\ LinesFresh /\ RepliesRan /\ Answered /\ Expected

-----------------------------------------------------------------------------
(* The pipes as queues. *)
LEMMA StdinTail ==
  ASSUME TypeOK, stdin # <<>>
  PROVE  /\ Len(stdin) \in Nat \ {0} /\ Head(stdin) = stdin[1] /\ stdin[1] \in Calls
         /\ Tail(stdin) \in Seq(Calls) /\ Len(Tail(stdin)) = Len(stdin) - 1
         /\ \A i \in 1 .. Len(Tail(stdin)) : Tail(stdin)[i] = stdin[i + 1]
  BY HeadTailProperties, EmptySeq DEF TypeOK

LEMMA StdoutTail ==
  ASSUME TypeOK, stdout # <<>>
  PROVE  /\ Len(stdout) \in Nat \ {0} /\ Head(stdout) = stdout[1]
         /\ stdout[1] \in Replies \cup {LogLine}
         /\ Tail(stdout) \in Seq(Replies \cup {LogLine}) /\ Len(Tail(stdout)) = Len(stdout) - 1
         /\ \A i \in 1 .. Len(Tail(stdout)) : Tail(stdout)[i] = stdout[i + 1]
  BY HeadTailProperties, EmptySeq DEF TypeOK

LEMMA StdinAppend ==
  ASSUME TypeOK, NEW c \in Calls
  PROVE  /\ Append(stdin, c) \in Seq(Calls) /\ Len(Append(stdin, c)) = Len(stdin) + 1
         /\ Len(stdin) \in Nat
         /\ \A i \in 1 .. Len(stdin) : Append(stdin, c)[i] = stdin[i]
         /\ Append(stdin, c)[Len(stdin) + 1] = c
  BY AppendProperties DEF TypeOK

LEMMA StdoutAppend ==
  ASSUME TypeOK, NEW m \in Replies \cup {LogLine}
  PROVE  /\ Append(stdout, m) \in Seq(Replies \cup {LogLine})
         /\ Len(Append(stdout, m)) = Len(stdout) + 1 /\ Len(stdout) \in Nat
         /\ \A i \in 1 .. Len(stdout) : Append(stdout, m)[i] = stdout[i]
         /\ Append(stdout, m)[Len(stdout) + 1] = m
  BY AppendProperties DEF TypeOK

\* The id of a script that has run is its own: whoever is registered under it
\* is the call that sent the script.
LEMMA HeldRegistered ==
  ASSUME TypeOK, IdsDistinct, InflightLive, RepliesRan, reader = "take"
  PROVE  /\ \A e \in Calls : id[e] = id[held] => e = held
         /\ id[held] \in DOMAIN inflight => inflight[id[held]] = held /\ chan[held] = <<>>
<1>1. held \in Calls /\ held \in ran
  BY DEF TypeOK, RepliesRan
<1>2. pc[held] # "idle"
  BY <1>1 DEF RepliesRan, Written
<1>3. id[held] \in 1 .. nextID /\ id[held] # 0
  BY <1>1, <1>2 DEF IdsDistinct, TypeOK
<1>4. \A e \in Calls : id[e] = id[held] => e = held
  BY <1>1, <1>3 DEF IdsDistinct
<1>5. ASSUME id[held] \in DOMAIN inflight PROVE inflight[id[held]] = held /\ chan[held] = <<>>
  <2>1. inflight[id[held]] \in Calls
    BY <1>5 DEF TypeOK
  <2>2. QED
    BY <1>4, <1>5, <2>1 DEF InflightLive
<1>. QED
  BY <1>4, <1>5

(* The type invariant is inductive by itself. *)
LEMMA TypeStep ==
  ASSUME TypeOK, [Next]_vars
  PROVE  TypeOK'
<1> USE DEF TypeOK, Goto, Delete, ChanCap, vars, goVars, readVars, nodeVars
<1>1. ASSUME NEW c \in Calls, TakeId(c) PROVE TypeOK'
  BY <1>1 DEF TakeId
<1>2. ASSUME NEW c \in Calls, Register(c) PROVE TypeOK'
  BY <1>2 DEF Register
<1>3. ASSUME NEW c \in Calls, BeginWrite(c) PROVE TypeOK'
  BY <1>3 DEF BeginWrite
<1>4. ASSUME NEW c \in Calls, EndWrite(c) PROVE TypeOK'
  BY <1>4 DEF EndWrite
<1>5. ASSUME NEW c \in Calls, FailWrite(c) PROVE TypeOK'
  BY <1>5 DEF FailWrite
<1>6. ASSUME NEW c \in Calls, SelectTimeout(c) PROVE TypeOK'
  BY <1>6 DEF SelectTimeout
<1>7. ASSUME NEW c \in Calls, SelectExited(c) PROVE TypeOK'
  BY <1>7 DEF SelectExited
<1>8. ASSUME NEW c \in Calls, SelectAnswer(c) PROVE TypeOK'
  <2>1. Head(chan[c]) \in Calls /\ Tail(chan[c]) \in Seq(Calls)
    BY <1>8, HeadTailProperties DEF SelectAnswer
  <2>2. QED
    BY <1>8, <2>1 DEF SelectAnswer
<1>9. ASSUME NEW c \in Calls, RemoveInflight(c) PROVE TypeOK'
  BY <1>9 DEF RemoveInflight
<1>10. ASSUME NEW c \in Calls, Expire(c) PROVE TypeOK'
  BY <1>10 DEF Expire
<1>11. ASSUME NEW c \in Calls, NodeReply(c) PROVE TypeOK'
  <2>1. \A k \in {"reply", "huge"} : [script |-> c, kind |-> k] \in Replies
    BY DEF Replies
  <2>2. stdout' \in Seq(Replies \cup {LogLine})
    BY <1>11, <2>1, StdoutAppend DEF NodeReply
  <2>3. QED
    BY <1>11, <2>2 DEF NodeReply
<1>12. ASSUME NEW c \in Calls, NodeHang(c) PROVE TypeOK'
  BY <1>12 DEF NodeHang
<1>13. CASE ReaderScan
  <2>1. Tail(stdout) \in Seq(Replies \cup {LogLine})
    BY <1>13, StdoutTail DEF ReaderScan
  <2>2. Head(stdout).kind = "reply" => Head(stdout).script \in Calls
    BY <1>13, StdoutTail DEF ReaderScan, Replies, LogLine
  <2>3. QED
    BY <1>13, <2>1, <2>2 DEF ReaderScan
<1>14. CASE ReaderTake
  BY <1>14 DEF ReaderTake
<1>15. CASE ReaderSend
  BY <1>15 DEF ReaderSend
<1>16. CASE ReaderEnd
  BY <1>16 DEF ReaderEnd
<1>17. CASE NodeRead
  <2>1. Head(stdin) \in Calls /\ Tail(stdin) \in Seq(Calls)
    BY <1>17, StdinTail DEF NodeRead
  <2>2. Append(stdout, LogLine) \in Seq(Replies \cup {LogLine})
    BY StdoutAppend
  <2>3. QED
    BY <1>17, <2>1, <2>2 DEF NodeRead
<1>18. CASE NodeWritten
  BY <1>18 DEF NodeWritten
<1>19. CASE NodeCrash
  BY <1>19 DEF NodeCrash
<1>20. CASE NodeEnd
  BY <1>20 DEF NodeEnd
<1>21. CASE Close
  BY <1>21 DEF Close
<1>22. CASE CloseReturn
  BY <1>22 DEF CloseReturn
<1>23. CASE Finished
  BY <1>23 DEF Finished
<1>24. CASE UNCHANGED vars
  BY <1>24
<1>. QED
  BY <1>1, <1>2, <1>3, <1>4, <1>5, <1>6, <1>7, <1>8, <1>9, <1>10, <1>11, <1>12, <1>13, <1>14, <1>15, <1>16, <1>17, <1>18, <1>19, <1>20, <1>21, <1>22, <1>23, <1>24 DEF Next, CallStep, ReaderStep

LEMMA IdsStep ==
  ASSUME TypeOK, IdsDistinct, [Next]_vars
  PROVE  IdsDistinct'
<1> USE DEF TypeOK, Goto, Delete, ChanCap, vars, goVars, readVars, nodeVars, IdsDistinct
<1>1. ASSUME NEW c \in Calls, TakeId(c) PROVE IdsDistinct'
  BY <1>1 DEF TakeId
<1>2. ASSUME NEW c \in Calls, Register(c) PROVE IdsDistinct'
  BY <1>2 DEF Register
<1>3. ASSUME NEW c \in Calls, BeginWrite(c) PROVE IdsDistinct'
  BY <1>3 DEF BeginWrite
<1>4. ASSUME NEW c \in Calls, EndWrite(c) PROVE IdsDistinct'
  BY <1>4 DEF EndWrite
<1>5. ASSUME NEW c \in Calls, FailWrite(c) PROVE IdsDistinct'
  BY <1>5 DEF FailWrite
<1>6. ASSUME NEW c \in Calls, SelectTimeout(c) PROVE IdsDistinct'
  BY <1>6 DEF SelectTimeout
<1>7. ASSUME NEW c \in Calls, SelectExited(c) PROVE IdsDistinct'
  BY <1>7 DEF SelectExited
<1>8. ASSUME NEW c \in Calls, SelectAnswer(c) PROVE IdsDistinct'
  BY <1>8 DEF SelectAnswer
<1>9. ASSUME NEW c \in Calls, RemoveInflight(c) PROVE IdsDistinct'
  BY <1>9 DEF RemoveInflight
<1>10. ASSUME NEW c \in Calls, Expire(c) PROVE IdsDistinct'
  BY <1>10 DEF Expire
<1>11. ASSUME NEW c \in Calls, NodeReply(c) PROVE IdsDistinct'
  BY <1>11 DEF NodeReply
<1>12. ASSUME NEW c \in Calls, NodeHang(c) PROVE IdsDistinct'
  BY <1>12 DEF NodeHang
<1>13. CASE ReaderScan
  BY <1>13 DEF ReaderScan
<1>14. CASE ReaderTake
  BY <1>14 DEF ReaderTake
<1>15. CASE ReaderSend
  BY <1>15 DEF ReaderSend
<1>16. CASE ReaderEnd
  BY <1>16 DEF ReaderEnd
<1>17. CASE NodeRead
  BY <1>17 DEF NodeRead
<1>18. CASE NodeWritten
  BY <1>18 DEF NodeWritten
<1>19. CASE NodeCrash
  BY <1>19 DEF NodeCrash
<1>20. CASE NodeEnd
  BY <1>20 DEF NodeEnd
<1>21. CASE Close
  BY <1>21 DEF Close
<1>22. CASE CloseReturn
  BY <1>22 DEF CloseReturn
<1>23. CASE Finished
  BY <1>23 DEF Finished
<1>24. CASE UNCHANGED vars
  BY <1>24
<1>. QED
  BY <1>1, <1>2, <1>3, <1>4, <1>5, <1>6, <1>7, <1>8, <1>9, <1>10, <1>11, <1>12, <1>13, <1>14, <1>15, <1>16, <1>17, <1>18, <1>19, <1>20, <1>21, <1>22, <1>23, <1>24 DEF Next, CallStep, ReaderStep

LEMMA LockStep ==
  ASSUME TypeOK, LockHeld, [Next]_vars
  PROVE  LockHeld'
<1> USE DEF TypeOK, Goto, Delete, ChanCap, vars, goVars, readVars, nodeVars, LockHeld
<1>1. ASSUME NEW c \in Calls, TakeId(c) PROVE LockHeld'
  BY <1>1 DEF TakeId
<1>2. ASSUME NEW c \in Calls, Register(c) PROVE LockHeld'
  BY <1>2 DEF Register
<1>3. ASSUME NEW c \in Calls, BeginWrite(c) PROVE LockHeld'
  BY <1>3, CallAssumption DEF BeginWrite
<1>4. ASSUME NEW c \in Calls, EndWrite(c) PROVE LockHeld'
  BY <1>4, CallAssumption DEF EndWrite
<1>5. ASSUME NEW c \in Calls, FailWrite(c) PROVE LockHeld'
  BY <1>5, CallAssumption DEF FailWrite
<1>6. ASSUME NEW c \in Calls, SelectTimeout(c) PROVE LockHeld'
  BY <1>6 DEF SelectTimeout
<1>7. ASSUME NEW c \in Calls, SelectExited(c) PROVE LockHeld'
  BY <1>7 DEF SelectExited
<1>8. ASSUME NEW c \in Calls, SelectAnswer(c) PROVE LockHeld'
  BY <1>8 DEF SelectAnswer
<1>9. ASSUME NEW c \in Calls, RemoveInflight(c) PROVE LockHeld'
  BY <1>9 DEF RemoveInflight
<1>10. ASSUME NEW c \in Calls, Expire(c) PROVE LockHeld'
  BY <1>10 DEF Expire
<1>11. ASSUME NEW c \in Calls, NodeReply(c) PROVE LockHeld'
  BY <1>11 DEF NodeReply
<1>12. ASSUME NEW c \in Calls, NodeHang(c) PROVE LockHeld'
  BY <1>12 DEF NodeHang
<1>13. CASE ReaderScan
  BY <1>13 DEF ReaderScan
<1>14. CASE ReaderTake
  BY <1>14 DEF ReaderTake
<1>15. CASE ReaderSend
  BY <1>15 DEF ReaderSend
<1>16. CASE ReaderEnd
  BY <1>16 DEF ReaderEnd
<1>17. CASE NodeRead
  BY <1>17 DEF NodeRead
<1>18. CASE NodeWritten
  BY <1>18 DEF NodeWritten
<1>19. CASE NodeCrash
  BY <1>19 DEF NodeCrash
<1>20. CASE NodeEnd
  BY <1>20 DEF NodeEnd
<1>21. CASE Close
  BY <1>21 DEF Close
<1>22. CASE CloseReturn
  BY <1>22 DEF CloseReturn
<1>23. CASE Finished
  BY <1>23 DEF Finished
<1>24. CASE UNCHANGED vars
  BY <1>24
<1>. QED
  BY <1>1, <1>2, <1>3, <1>4, <1>5, <1>6, <1>7, <1>8, <1>9, <1>10, <1>11, <1>12, <1>13, <1>14, <1>15, <1>16, <1>17, <1>18, <1>19, <1>20, <1>21, <1>22, <1>23, <1>24 DEF Next, CallStep, ReaderStep

LEMMA InflightStep ==
  ASSUME TypeOK, IdsDistinct, RepliesRan, Answered, InflightLive, [Next]_vars
  PROVE  InflightLive'
<1> USE DEF TypeOK, Goto, Delete, ChanCap, vars, goVars, readVars, nodeVars, InflightLive, IdsDistinct, RepliesRan, Written
<1>1. ASSUME NEW c \in Calls, TakeId(c) PROVE InflightLive'
  BY <1>1 DEF TakeId
<1>2. ASSUME NEW c \in Calls, Register(c) PROVE InflightLive'
  <2> HIDE DEF TypeOK, InflightLive, IdsDistinct, RepliesRan
  <2>1. pc[c] = "register" /\ id[c] \in 1 .. nextID
    BY <1>2 DEF Register, IdsDistinct
  <2>2. c \notin ran
    BY <2>1 DEF RepliesRan
  <2>3. chan[c] = <<>>
    BY <2>2 DEF Answered
  <2>4. reader = "send" => dest # c
    BY <2>2 DEF RepliesRan
  <2>5. \A n \in DOMAIN inflight : inflight[n] # c
    BY <2>1 DEF InflightLive
  <2>6. \A n \in DOMAIN inflight : n # id[c]
    BY <2>1, <2>5 DEF InflightLive, IdsDistinct, TypeOK
  <2>7. QED
    BY <1>2, <2>1, <2>3, <2>4, <2>5, <2>6 DEF Register, InflightLive, TypeOK
<1>3. ASSUME NEW c \in Calls, BeginWrite(c) PROVE InflightLive'
  BY <1>3 DEF BeginWrite
<1>4. ASSUME NEW c \in Calls, EndWrite(c) PROVE InflightLive'
  BY <1>4 DEF EndWrite
<1>5. ASSUME NEW c \in Calls, FailWrite(c) PROVE InflightLive'
  BY <1>5 DEF FailWrite
<1>6. ASSUME NEW c \in Calls, SelectTimeout(c) PROVE InflightLive'
  BY <1>6 DEF SelectTimeout
<1>7. ASSUME NEW c \in Calls, SelectExited(c) PROVE InflightLive'
  BY <1>7 DEF SelectExited
<1>8. ASSUME NEW c \in Calls, SelectAnswer(c) PROVE InflightLive'
  <2>1. /\ chan[c] # <<>> /\ UNCHANGED <<inflight, id, reader, dest>>
        /\ \A e \in Calls \ {c} : pc'[e] = pc[e] /\ chan'[e] = chan[e]
    BY <1>8 DEF SelectAnswer
  <2>2. \A n \in DOMAIN inflight : inflight[n] \in Calls \ {c}
    BY <2>1
  <2>3. QED
    BY <2>1, <2>2 DEF InflightLive
<1>9. ASSUME NEW c \in Calls, RemoveInflight(c) PROVE InflightLive'
  BY <1>9 DEF RemoveInflight
<1>10. ASSUME NEW c \in Calls, Expire(c) PROVE InflightLive'
  BY <1>10 DEF Expire
<1>11. ASSUME NEW c \in Calls, NodeReply(c) PROVE InflightLive'
  BY <1>11 DEF NodeReply
<1>12. ASSUME NEW c \in Calls, NodeHang(c) PROVE InflightLive'
  BY <1>12 DEF NodeHang
<1>13. CASE ReaderScan
  BY <1>13 DEF ReaderScan
<1>14. CASE ReaderTake
  BY <1>14 DEF ReaderTake
<1>15. CASE ReaderSend
  BY <1>15 DEF ReaderSend
<1>16. CASE ReaderEnd
  BY <1>16 DEF ReaderEnd
<1>17. CASE NodeRead
  BY <1>17 DEF NodeRead
<1>18. CASE NodeWritten
  BY <1>18 DEF NodeWritten
<1>19. CASE NodeCrash
  BY <1>19 DEF NodeCrash
<1>20. CASE NodeEnd
  BY <1>20 DEF NodeEnd
<1>21. CASE Close
  BY <1>21 DEF Close
<1>22. CASE CloseReturn
  BY <1>22 DEF CloseReturn
<1>23. CASE Finished
  BY <1>23 DEF Finished
<1>24. CASE UNCHANGED vars
  BY <1>24
<1>. QED
  BY <1>1, <1>2, <1>3, <1>4, <1>5, <1>6, <1>7, <1>8, <1>9, <1>10, <1>11, <1>12, <1>13, <1>14, <1>15, <1>16, <1>17, <1>18, <1>19, <1>20, <1>21, <1>22, <1>23, <1>24 DEF Next, CallStep, ReaderStep

LEMMA LinesStep ==
  ASSUME TypeOK, RepliesRan, LinesFresh, [Next]_vars
  PROVE  LinesFresh'
<1> USE DEF TypeOK, Goto, Delete, ChanCap, vars, goVars, readVars, nodeVars, LinesFresh, Written
<1>1. ASSUME NEW c \in Calls, TakeId(c) PROVE LinesFresh'
  <2> HIDE DEF TypeOK, LinesFresh
  <2>1. pc[c] = "idle" /\ pc' = [pc EXCEPT ![c] = "register"] /\ ran' = ran /\ stdin' = stdin
    BY <1>1 DEF TakeId
  <2>2. \A e \in Calls : pc[e] \in Written => pc'[e] = pc[e]
    BY <2>1 DEF TypeOK
  <2>3. \A i \in 1 .. Len(stdin) : stdin[i] \in Calls
    BY ElementOfSeq DEF TypeOK
  <2>4. QED
    BY <2>1, <2>2, <2>3 DEF LinesFresh
<1>2. ASSUME NEW c \in Calls, Register(c) PROVE LinesFresh'
  BY <1>2 DEF Register
<1>3. ASSUME NEW c \in Calls, BeginWrite(c) PROVE LinesFresh'
  <2> HIDE DEF TypeOK, LinesFresh
  <2>1. pc[c] = "write" /\ pc' = [pc EXCEPT ![c] = "writing"] /\ ran' = ran /\ stdin' = Append(stdin, c)
    BY <1>3 DEF BeginWrite
  <2>2. c \notin ran
    BY <2>1 DEF RepliesRan
  <2>3. \A i \in 1 .. Len(stdin) : stdin[i] # c
    BY <2>1 DEF LinesFresh
  <2>4. /\ Len(stdin') = Len(stdin) + 1 /\ Len(stdin) \in Nat /\ stdin'[Len(stdin) + 1] = c
        /\ \A i \in 1 .. Len(stdin) : stdin'[i] = stdin[i]
    BY <2>1, StdinAppend
  <2>5. ASSUME NEW i \in 1 .. Len(stdin') PROVE pc'[stdin'[i]] \in Written /\ stdin'[i] \notin ran'
    <3>1. CASE i = Len(stdin) + 1
      BY <2>1, <2>2, <2>4, <3>1 DEF TypeOK
    <3>2. CASE i \in 1 .. Len(stdin)
      BY <2>1, <2>3, <2>4, <3>2 DEF LinesFresh, TypeOK
    <3>3. QED
      BY <2>4, <3>1, <3>2
  <2>6. ASSUME NEW i \in 1 .. Len(stdin'), NEW j \in 1 .. Len(stdin'), stdin'[i] = stdin'[j] PROVE i = j
    BY <2>3, <2>4, <2>6 DEF LinesFresh
  <2>7. QED
    BY <2>5, <2>6 DEF LinesFresh
<1>4. ASSUME NEW c \in Calls, EndWrite(c) PROVE LinesFresh'
  BY <1>4 DEF EndWrite
<1>5. ASSUME NEW c \in Calls, FailWrite(c) PROVE LinesFresh'
  BY <1>5 DEF FailWrite
<1>6. ASSUME NEW c \in Calls, SelectTimeout(c) PROVE LinesFresh'
  BY <1>6 DEF SelectTimeout
<1>7. ASSUME NEW c \in Calls, SelectExited(c) PROVE LinesFresh'
  BY <1>7 DEF SelectExited
<1>8. ASSUME NEW c \in Calls, SelectAnswer(c) PROVE LinesFresh'
  <2> HIDE DEF TypeOK
  <2>1. pc' = [pc EXCEPT ![c] = "done"] /\ UNCHANGED <<stdin, ran>>
    BY <1>8 DEF SelectAnswer
  <2>2. QED
    BY <2>1 DEF TypeOK
<1>9. ASSUME NEW c \in Calls, RemoveInflight(c) PROVE LinesFresh'
  BY <1>9 DEF RemoveInflight
<1>10. ASSUME NEW c \in Calls, Expire(c) PROVE LinesFresh'
  BY <1>10 DEF Expire
<1>11. ASSUME NEW c \in Calls, NodeReply(c) PROVE LinesFresh'
  BY <1>11 DEF NodeReply
<1>12. ASSUME NEW c \in Calls, NodeHang(c) PROVE LinesFresh'
  BY <1>12 DEF NodeHang
<1>13. CASE ReaderScan
  BY <1>13 DEF ReaderScan
<1>14. CASE ReaderTake
  BY <1>14 DEF ReaderTake
<1>15. CASE ReaderSend
  BY <1>15 DEF ReaderSend
<1>16. CASE ReaderEnd
  BY <1>16 DEF ReaderEnd
<1>17. CASE NodeRead
  <2> HIDE DEF TypeOK, LinesFresh
  <2>1. /\ Len(stdin) \in Nat \ {0} /\ Len(stdin') = Len(stdin) - 1 /\ ran' = ran \cup {stdin[1]}
        /\ \A i \in 1 .. Len(stdin') : stdin'[i] = stdin[i + 1]
    BY <1>17, StdinTail DEF NodeRead
  <2>2. pc' = pc
    BY <1>17 DEF NodeRead
  <2>3. ASSUME NEW i \in 1 .. Len(stdin') PROVE pc'[stdin'[i]] \in Written /\ stdin'[i] \notin ran'
    <3>1. i + 1 \in 1 .. Len(stdin) /\ 1 \in 1 .. Len(stdin) /\ i + 1 # 1
      BY <2>1
    <3>2. QED
      BY <2>1, <2>2, <3>1 DEF LinesFresh
  <2>4. ASSUME NEW i \in 1 .. Len(stdin'), NEW j \in 1 .. Len(stdin'), stdin'[i] = stdin'[j] PROVE i = j
    <3>1. i + 1 \in 1 .. Len(stdin) /\ j + 1 \in 1 .. Len(stdin) /\ stdin[i + 1] = stdin[j + 1]
      BY <2>1, <2>4
    <3>2. QED
      BY <2>1, <3>1 DEF LinesFresh
  <2>5. QED
    BY <2>3, <2>4 DEF LinesFresh
<1>18. CASE NodeWritten
  BY <1>18 DEF NodeWritten
<1>19. CASE NodeCrash
  BY <1>19 DEF NodeCrash
<1>20. CASE NodeEnd
  BY <1>20 DEF NodeEnd
<1>21. CASE Close
  BY <1>21 DEF Close
<1>22. CASE CloseReturn
  BY <1>22 DEF CloseReturn
<1>23. CASE Finished
  BY <1>23 DEF Finished
<1>24. CASE UNCHANGED vars
  BY <1>24
<1>. QED
  BY <1>1, <1>2, <1>3, <1>4, <1>5, <1>6, <1>7, <1>8, <1>9, <1>10, <1>11, <1>12, <1>13, <1>14, <1>15, <1>16, <1>17, <1>18, <1>19, <1>20, <1>21, <1>22, <1>23, <1>24 DEF Next, CallStep, ReaderStep

LEMMA RepliesStep ==
  ASSUME TypeOK, IdsDistinct, InflightLive, LinesFresh, RepliesRan, [Next]_vars
  PROVE  RepliesRan'
<1> USE DEF TypeOK, Goto, Delete, ChanCap, vars, goVars, readVars, nodeVars, RepliesRan, Written
<1>1. ASSUME NEW c \in Calls, TakeId(c) PROVE RepliesRan'
  BY <1>1 DEF TakeId
<1>2. ASSUME NEW c \in Calls, Register(c) PROVE RepliesRan'
  BY <1>2 DEF Register
<1>3. ASSUME NEW c \in Calls, BeginWrite(c) PROVE RepliesRan'
  BY <1>3 DEF BeginWrite
<1>4. ASSUME NEW c \in Calls, EndWrite(c) PROVE RepliesRan'
  BY <1>4 DEF EndWrite
<1>5. ASSUME NEW c \in Calls, FailWrite(c) PROVE RepliesRan'
  BY <1>5 DEF FailWrite
<1>6. ASSUME NEW c \in Calls, SelectTimeout(c) PROVE RepliesRan'
  BY <1>6 DEF SelectTimeout
<1>7. ASSUME NEW c \in Calls, SelectExited(c) PROVE RepliesRan'
  BY <1>7 DEF SelectExited
<1>8. ASSUME NEW c \in Calls, SelectAnswer(c) PROVE RepliesRan'
  BY <1>8 DEF SelectAnswer
<1>9. ASSUME NEW c \in Calls, RemoveInflight(c) PROVE RepliesRan'
  BY <1>9 DEF RemoveInflight
<1>10. ASSUME NEW c \in Calls, Expire(c) PROVE RepliesRan'
  BY <1>10 DEF Expire
<1>11. ASSUME NEW c \in Calls, NodeReply(c) PROVE RepliesRan'
  <2>1. PICK k \in {"reply", "huge"} : stdout' = Append(stdout, [script |-> c, kind |-> k])
    BY <1>11 DEF NodeReply
  <2>2. [script |-> c, kind |-> k] \in Replies
    BY DEF Replies
  <2> HIDE DEF TypeOK
  <2>3. c \in ran
    BY <1>11 DEF NodeReply
  <2> DEFINE m == [script |-> c, kind |-> k]
  <2>4. /\ Len(stdout') = Len(stdout) + 1 /\ Len(stdout) \in Nat /\ stdout'[Len(stdout) + 1] = m
        /\ \A i \in 1 .. Len(stdout) : stdout'[i] = stdout[i]
    BY <2>1, <2>2, StdoutAppend
  <2>5. m.script = c
    OBVIOUS
  <2> HIDE DEF m
  <2>6. \A i \in 1 .. Len(stdout') : stdout'[i].kind # "log" => stdout'[i].script \in ran
    BY <2>3, <2>4, <2>5
  <2>7. QED
    BY <1>11, <2>6 DEF NodeReply
<1>12. ASSUME NEW c \in Calls, NodeHang(c) PROVE RepliesRan'
  BY <1>12 DEF NodeHang
<1>13. CASE ReaderScan
  <2> HIDE DEF TypeOK, RepliesRan
  <2>1. /\ Len(stdout) \in Nat \ {0} /\ Head(stdout) = stdout[1] /\ Len(Tail(stdout)) = Len(stdout) - 1
        /\ \A i \in 1 .. Len(Tail(stdout)) : Tail(stdout)[i] = stdout[i + 1]
    BY <1>13, StdoutTail DEF ReaderScan
  <2>2. stdout' \in {stdout, Tail(stdout)} /\ UNCHANGED <<pc, chan, dest, running, ran>>
    BY <1>13 DEF ReaderScan
  <2>3. ASSUME NEW i \in 1 .. Len(stdout'), stdout'[i].kind # "log" PROVE stdout'[i].script \in ran
    <3>1. CASE stdout' = stdout
      BY <2>3, <3>1 DEF RepliesRan
    <3>2. CASE stdout' = Tail(stdout)
      <4>1. i \in 1 .. Len(Tail(stdout)) /\ stdout'[i] = Tail(stdout)[i]
        BY <3>2
      <4>2. i + 1 \in 1 .. Len(stdout) /\ stdout'[i] = stdout[i + 1]
        BY <2>1, <4>1
      <4>3. QED
        BY <2>3, <4>2 DEF RepliesRan
    <3>3. QED
      BY <2>2, <3>1, <3>2
  <2>4. Head(stdout).kind = "reply" => Head(stdout).script \in ran
    <3>1. 1 \in 1 .. Len(stdout)
      BY <2>1
    <3>2. QED
      BY <2>1, <3>1 DEF RepliesRan
  <2>5. reader' # "send" /\ (reader' = "take" => held' \in ran)
    BY <1>13, <2>4 DEF ReaderScan
  <2>6. QED
    BY <2>2, <2>3, <2>5 DEF RepliesRan
<1>14. CASE ReaderTake
  <2>1. ASSUME id[held] \in DOMAIN inflight
        PROVE inflight[id[held]] = held /\ chan[held] = <<>>
    BY <1>14, <2>1, HeldRegistered DEF ReaderTake
  <2>2. QED
    BY <1>14, <2>1 DEF ReaderTake
<1>15. CASE ReaderSend
  BY <1>15 DEF ReaderSend
<1>16. CASE ReaderEnd
  BY <1>16 DEF ReaderEnd
<1>17. CASE NodeRead
  <2> HIDE DEF TypeOK, RepliesRan
  <2>1. Head(stdin) = stdin[1] /\ stdin[1] \in Calls /\ 1 \in 1 .. Len(stdin)
    <3>1. stdin # <<>>
      BY <1>17 DEF NodeRead
    <3>2. Len(stdin) \in Nat \ {0} /\ Head(stdin) = stdin[1] /\ stdin[1] \in Calls
      BY <3>1, StdinTail
    <3>3. QED
      BY <3>2
  <2>2. pc[stdin[1]] \in Written
    BY <2>1 DEF LinesFresh
  <2>3. \A i \in 1 .. Len(Append(stdout, LogLine)) :
          Append(stdout, LogLine)[i].kind # "log" => Append(stdout, LogLine)[i].script \in ran
    BY StdoutAppend DEF LogLine, RepliesRan
  <2>4. /\ stdout' \in {stdout, Append(stdout, LogLine)} /\ UNCHANGED <<pc, chan, reader, held, dest>>
        /\ running' = running \cup {stdin[1]} /\ ran' = ran \cup {stdin[1]}
    BY <1>17, <2>1 DEF NodeRead
  <2>5. QED
    BY <2>2, <2>3, <2>4 DEF RepliesRan
<1>18. CASE NodeWritten
  BY <1>18 DEF NodeWritten
<1>19. CASE NodeCrash
  BY <1>19 DEF NodeCrash
<1>20. CASE NodeEnd
  BY <1>20 DEF NodeEnd
<1>21. CASE Close
  BY <1>21 DEF Close
<1>22. CASE CloseReturn
  BY <1>22 DEF CloseReturn
<1>23. CASE Finished
  BY <1>23 DEF Finished
<1>24. CASE UNCHANGED vars
  BY <1>24
<1>. QED
  BY <1>1, <1>2, <1>3, <1>4, <1>5, <1>6, <1>7, <1>8, <1>9, <1>10, <1>11, <1>12, <1>13, <1>14, <1>15, <1>16, <1>17, <1>18, <1>19, <1>20, <1>21, <1>22, <1>23, <1>24 DEF Next, CallStep, ReaderStep

LEMMA AnsweredStep ==
  ASSUME TypeOK, RepliesRan, Answered, [Next]_vars
  PROVE  Answered'
<1> USE DEF TypeOK, Goto, Delete, ChanCap, vars, goVars, readVars, nodeVars, Answered
<1>1. ASSUME NEW c \in Calls, TakeId(c) PROVE Answered'
  BY <1>1 DEF TakeId
<1>2. ASSUME NEW c \in Calls, Register(c) PROVE Answered'
  BY <1>2 DEF Register
<1>3. ASSUME NEW c \in Calls, BeginWrite(c) PROVE Answered'
  BY <1>3 DEF BeginWrite
<1>4. ASSUME NEW c \in Calls, EndWrite(c) PROVE Answered'
  BY <1>4 DEF EndWrite
<1>5. ASSUME NEW c \in Calls, FailWrite(c) PROVE Answered'
  BY <1>5 DEF FailWrite
<1>6. ASSUME NEW c \in Calls, SelectTimeout(c) PROVE Answered'
  BY <1>6 DEF SelectTimeout
<1>7. ASSUME NEW c \in Calls, SelectExited(c) PROVE Answered'
  BY <1>7 DEF SelectExited
<1>8. ASSUME NEW c \in Calls, SelectAnswer(c) PROVE Answered'
  <2>1. chan[c] = <<c>> /\ Head(<<c>>) = c /\ Tail(<<c>>) = <<>>
    BY <1>8 DEF SelectAnswer
  <2>2. chan' = [chan EXCEPT ![c] = <<>>] /\ answer' = [answer EXCEPT ![c] = c]
    BY <1>8, <2>1 DEF SelectAnswer
  <2>3. QED
    <3>1. /\ UNCHANGED ran
          /\ \A e \in Calls \ {c} : /\ chan'[e] = chan[e] /\ outcome'[e] = outcome[e]
                                    /\ answer'[e] = answer[e] /\ pc'[e] = pc[e]
      BY <1>8, <2>2 DEF SelectAnswer
    <3>2. chan'[c] = <<>> /\ outcome'[c] = "answer" /\ answer'[c] = c /\ pc'[c] = "done"
      BY <1>8, <2>2 DEF SelectAnswer
    <3>3. ASSUME NEW e \in Calls
          PROVE  /\ chan'[e] # <<>> => chan'[e] = <<e>> /\ e \in ran'
                 /\ outcome'[e] = "answer" => pc'[e] = "done" /\ answer'[e] = e
                 /\ outcome'[e] # "answer" => answer'[e] = Nobody
      <4> HIDE DEF TypeOK
      <4>1. CASE e = c
        BY <3>2, <4>1
      <4>2. CASE e # c
        BY <3>1, <4>2
      <4>. QED
        BY <4>1, <4>2
    <3>. QED
      BY <3>3
<1>9. ASSUME NEW c \in Calls, RemoveInflight(c) PROVE Answered'
  BY <1>9 DEF RemoveInflight
<1>10. ASSUME NEW c \in Calls, Expire(c) PROVE Answered'
  BY <1>10 DEF Expire
<1>11. ASSUME NEW c \in Calls, NodeReply(c) PROVE Answered'
  BY <1>11 DEF NodeReply
<1>12. ASSUME NEW c \in Calls, NodeHang(c) PROVE Answered'
  BY <1>12 DEF NodeHang
<1>13. CASE ReaderScan
  BY <1>13 DEF ReaderScan
<1>14. CASE ReaderTake
  BY <1>14 DEF ReaderTake
<1>15. CASE ReaderSend
  <2>1. dest \in Calls /\ held = dest /\ chan[dest] = <<>> /\ dest \in ran
    BY <1>15 DEF ReaderSend, RepliesRan
  <2>2. Append(<<>>, dest) = <<dest>> /\ <<dest>> # <<>>
    OBVIOUS
  <2>3. chan' = [chan EXCEPT ![dest] = <<dest>>]
    BY <1>15, <2>1, <2>2 DEF ReaderSend
  <2>4. QED
    BY <1>15, <2>1, <2>2, <2>3 DEF ReaderSend
<1>16. CASE ReaderEnd
  BY <1>16 DEF ReaderEnd
<1>17. CASE NodeRead
  BY <1>17 DEF NodeRead
<1>18. CASE NodeWritten
  BY <1>18 DEF NodeWritten
<1>19. CASE NodeCrash
  BY <1>19 DEF NodeCrash
<1>20. CASE NodeEnd
  BY <1>20 DEF NodeEnd
<1>21. CASE Close
  BY <1>21 DEF Close
<1>22. CASE CloseReturn
  BY <1>22 DEF CloseReturn
<1>23. CASE Finished
  BY <1>23 DEF Finished
<1>24. CASE UNCHANGED vars
  BY <1>24
<1>. QED
  BY <1>1, <1>2, <1>3, <1>4, <1>5, <1>6, <1>7, <1>8, <1>9, <1>10, <1>11, <1>12, <1>13, <1>14, <1>15, <1>16, <1>17, <1>18, <1>19, <1>20, <1>21, <1>22, <1>23, <1>24 DEF Next, CallStep, ReaderStep

LEMMA ExpectedStep ==
  ASSUME TypeOK, IdsDistinct, InflightLive, RepliesRan, Expected, [Next]_vars
  PROVE  Expected'
<1> USE DEF TypeOK, Goto, Delete, ChanCap, vars, goVars, readVars, nodeVars, Expected
<1>1. ASSUME NEW c \in Calls, TakeId(c) PROVE Expected'
  BY <1>1 DEF TakeId, IdsDistinct
<1>2. ASSUME NEW c \in Calls, Register(c) PROVE Expected'
  BY <1>2 DEF Register
<1>3. ASSUME NEW c \in Calls, BeginWrite(c) PROVE Expected'
  BY <1>3 DEF BeginWrite
<1>4. ASSUME NEW c \in Calls, EndWrite(c) PROVE Expected'
  BY <1>4 DEF EndWrite
<1>5. ASSUME NEW c \in Calls, FailWrite(c) PROVE Expected'
  BY <1>5 DEF FailWrite
<1>6. ASSUME NEW c \in Calls, SelectTimeout(c) PROVE Expected'
  BY <1>6 DEF SelectTimeout
<1>7. ASSUME NEW c \in Calls, SelectExited(c) PROVE Expected'
  BY <1>7 DEF SelectExited
<1>8. ASSUME NEW c \in Calls, SelectAnswer(c) PROVE Expected'
  BY <1>8 DEF SelectAnswer
<1>9. ASSUME NEW c \in Calls, RemoveInflight(c) PROVE Expected'
  <2>1. \A e \in Calls : pc[e] # "idle" /\ e # c => id[e] # id[c]
    BY <1>9 DEF RemoveInflight, IdsDistinct
  <2>2. QED
    BY <1>9, <2>1 DEF RemoveInflight
<1>10. ASSUME NEW c \in Calls, Expire(c) PROVE Expected'
  BY <1>10 DEF Expire
<1>11. ASSUME NEW c \in Calls, NodeReply(c) PROVE Expected'
  BY <1>11 DEF NodeReply
<1>12. ASSUME NEW c \in Calls, NodeHang(c) PROVE Expected'
  BY <1>12 DEF NodeHang
<1>13. CASE ReaderScan
  BY <1>13 DEF ReaderScan
<1>14. CASE ReaderTake
  <2>1. CASE id[held] \in DOMAIN inflight
    <3>1. inflight[id[held]] = held
      BY <1>14, <2>1, HeldRegistered DEF ReaderTake
    <3>2. \A e \in Calls : id[e] = id[held] => e = held
      BY <1>14, <2>1, HeldRegistered DEF ReaderTake
    <3>3. QED
      BY <1>14, <2>1, <3>1, <3>2 DEF ReaderTake
  <2>2. CASE id[held] \notin DOMAIN inflight
    BY <1>14, <2>2 DEF ReaderTake
  <2>3. QED
    BY <2>1, <2>2
<1>15. CASE ReaderSend
  <2>1. dest \in Calls /\ chan[dest] = <<>>
    BY <1>15 DEF ReaderSend, RepliesRan
  <2>2. Append(<<>>, held) # <<>>
    OBVIOUS
  <2>3. chan'[dest] # <<>> /\ \A e \in Calls : e # dest => chan'[e] = chan[e]
    BY <1>15, <2>1, <2>2 DEF ReaderSend
  <2>4. QED
    BY <1>15, <2>1, <2>3 DEF ReaderSend
<1>16. CASE ReaderEnd
  BY <1>16 DEF ReaderEnd
<1>17. CASE NodeRead
  BY <1>17 DEF NodeRead
<1>18. CASE NodeWritten
  BY <1>18 DEF NodeWritten
<1>19. CASE NodeCrash
  BY <1>19 DEF NodeCrash
<1>20. CASE NodeEnd
  BY <1>20 DEF NodeEnd
<1>21. CASE Close
  BY <1>21 DEF Close
<1>22. CASE CloseReturn
  BY <1>22 DEF CloseReturn
<1>23. CASE Finished
  BY <1>23 DEF Finished
<1>24. CASE UNCHANGED vars
  BY <1>24
<1>. QED
  BY <1>1, <1>2, <1>3, <1>4, <1>5, <1>6, <1>7, <1>8, <1>9, <1>10, <1>11, <1>12, <1>13, <1>14, <1>15, <1>16, <1>17, <1>18, <1>19, <1>20, <1>21, <1>22, <1>23, <1>24 DEF Next, CallStep, ReaderStep

-----------------------------------------------------------------------------
LEMMA IInvInit == Init => IInv
  BY CallAssumption DEF Init, IInv, TypeOK, IdsDistinct, LockHeld, InflightLive, LinesFresh,
     RepliesRan, Answered, Expected, Written

LEMMA IInvStep == IInv /\ [Next]_vars => IInv'
  BY TypeStep, IdsStep, LockStep, InflightStep, LinesStep, RepliesStep, AnsweredStep,
     ExpectedStep DEF IInv

(* Type correctness, with the invariant it is part of. *)
THEOREM Invariance == Spec => []IInv
  BY IInvInit, IInvStep, PTL DEF Spec

(* Every variable keeps its type for any number of calls.                  *)
THEOREM TypeCorrect == Spec => []TypeOK
<1>1. IInv => TypeOK
  BY DEF IInv
<1>2. QED
  BY <1>1, Invariance, PTL

(* A call that Execute answers gets the answer to its own script, whatever *)
(* the order of the answers and however many calls timed out before.       *)
THEOREM OwnAnswerHolds == Spec => []OwnAnswer
<1>1. IInv => OwnAnswer
  BY DEF IInv, Answered, OwnAnswer
<1>2. QED
  BY <1>1, Invariance, PTL

(* No way out of Execute leaves an entry in r.inflight.                    *)
THEOREM NoLeakHolds == Spec => []NoLeak
<1>1. ASSUME IInv, NEW c \in Calls, pc[c] = "done" PROVE id[c] \notin DOMAIN inflight
  <2>1. id[c] \in 1 .. nextID /\ id[c] # 0
    BY <1>1 DEF IInv, IdsDistinct, TypeOK
  <2>2. \A e \in Calls : id[e] = id[c] => e = c
    BY <1>1, <2>1 DEF IInv, IdsDistinct
  <2>3. \A n \in DOMAIN inflight : inflight[n] \in Calls /\ id[inflight[n]] = n /\ pc[inflight[n]] # "done"
    BY <1>1 DEF IInv, InflightLive, TypeOK
  <2>4. QED
    BY <1>1, <2>2, <2>3
<1>2. IInv => NoLeak
  BY <1>1 DEF NoLeak
<1>3. QED
  BY <1>2, Invariance, PTL

(* readLoop's send on a channel it found under r.mu never blocks.          *)
THEOREM ReaderNeverBlocksHolds == Spec => []ReaderNeverBlocks
<1>1. IInv => ReaderNeverBlocks
  BY DEF IInv, RepliesRan, ReaderNeverBlocks, ChanCap
<1>2. QED
  BY <1>1, Invariance, PTL

(* A waiting call is registered, being answered, or has its answer.        *)
THEOREM AnswerNotLostHolds == Spec => []AnswerNotLost
<1>1. IInv => AnswerNotLost
  BY DEF IInv, Expected, AnswerNotLost
<1>2. QED
  BY <1>1, Invariance, PTL

-----------------------------------------------------------------------------
(* The refinement.  Four steps are visible: taking an id submits the call, *)
(* reading a line runs its script, the arm of the select that finds an     *)
(* answer answers, removeInflight fails; every other step only moves       *)
(* pending calls, lines and replies.                                       *)
PromisePhase == [c \in Calls |-> Phase(c)]

LEMMA VisibleSubmit ==
  ASSUME TypeOK, NEW c \in Calls, TakeId(c)
  PROVE  Promise!Submit(c)
<1>1. pc[c] = "idle" /\ pc' = [pc EXCEPT ![c] = "register"] /\ UNCHANGED <<outcome, answer, ran>>
  BY DEF TakeId, Goto, nodeVars
<1>2. PromisePhase[c] = "idle"
  BY <1>1 DEF PromisePhase, Phase
<1>3. PromisePhase' = [PromisePhase EXCEPT ![c] = "pending"]
  BY <1>1 DEF PromisePhase, Phase, TypeOK
<1>4. QED
  BY <1>1, <1>2, <1>3 DEF Promise!Submit, PromisePhase

LEMMA VisibleRun ==
  ASSUME IInv, NodeRead
  PROVE  \E c \in Calls : Promise!Run(c)
<1>1. stdin # <<>> /\ ran' = ran \cup {Head(stdin)} /\ UNCHANGED <<pc, outcome, answer>>
  BY DEF NodeRead, goVars
<1>2. Head(stdin) = stdin[1] /\ stdin[1] \in Calls /\ Len(stdin) \in Nat \ {0}
  BY <1>1, StdinTail DEF IInv
<1>3. 1 \in 1 .. Len(stdin)
  BY <1>2
<1>4. stdin[1] \notin ran /\ pc[stdin[1]] \in Written
  BY <1>3 DEF IInv, LinesFresh
<1>5. PromisePhase[stdin[1]] # "idle" /\ PromisePhase' = PromisePhase
  BY <1>1, <1>2, <1>4 DEF PromisePhase, Phase, Written
<1>6. QED
  BY <1>1, <1>2, <1>4, <1>5 DEF Promise!Run, PromisePhase

LEMMA VisibleAnswer ==
  ASSUME IInv, NEW c \in Calls, SelectAnswer(c)
  PROVE  Promise!Answer(c)
<1>1. /\ pc[c] = "waiting" /\ pc' = [pc EXCEPT ![c] = "done"] /\ UNCHANGED ran /\ chan[c] # <<>>
      /\ outcome' = [outcome EXCEPT ![c] = "answer"] /\ answer' = [answer EXCEPT ![c] = Head(chan[c])]
  BY DEF SelectAnswer, Goto, nodeVars
<1>2. chan[c] = <<c>> /\ c \in ran
  BY <1>1 DEF IInv, Answered
<1>3. Head(<<c>>) = c
  OBVIOUS
<1>4. PromisePhase[c] = "pending"
  BY <1>1 DEF PromisePhase, Phase
<1>5. PromisePhase' = [PromisePhase EXCEPT ![c] = "answered"]
  BY <1>1 DEF PromisePhase, Phase, IInv, TypeOK
<1>6. QED
  BY <1>1, <1>2, <1>3, <1>4, <1>5 DEF Promise!Answer, PromisePhase

LEMMA VisibleFail ==
  ASSUME IInv, NEW c \in Calls, RemoveInflight(c)
  PROVE  Promise!Fail(c)
<1>1. pc[c] = "remove" /\ pc' = [pc EXCEPT ![c] = "done"] /\ UNCHANGED <<outcome, answer, ran>>
  BY DEF RemoveInflight, Goto, nodeVars
<1>2. outcome[c] # "answer"
  BY <1>1 DEF IInv, Answered
<1>3. PromisePhase[c] = "pending"
  BY <1>1 DEF PromisePhase, Phase
<1>4. PromisePhase' = [PromisePhase EXCEPT ![c] = "failed"]
  BY <1>1, <1>2 DEF PromisePhase, Phase, IInv, TypeOK
<1>5. QED
  BY <1>1, <1>3, <1>4 DEF Promise!Fail, PromisePhase

\* A step that moves one pending call to a pending place changes nothing.
LEMMA PendingMove ==
  ASSUME TypeOK, NEW c \in Calls, NEW here, NEW there, Goto(c, here, there),
         here \notin {"idle", "done"}, there \notin {"idle", "done"},
         UNCHANGED <<answer, ran>>, \A e \in Calls : e # c => outcome'[e] = outcome[e]
  PROVE  UNCHANGED Promise!avars
<1>1. PromisePhase' = PromisePhase
  BY DEF PromisePhase, Phase, Goto, TypeOK
<1>2. QED
  BY <1>1 DEF Promise!avars, PromisePhase

LEMMA NoMove ==
  ASSUME UNCHANGED <<pc, outcome, answer, ran>>
  PROVE  UNCHANGED Promise!avars
<1>1. PromisePhase' = PromisePhase
  BY DEF PromisePhase, Phase
<1>2. QED
  BY <1>1 DEF Promise!avars, PromisePhase

LEMMA PromiseStep ==
  ASSUME IInv, [Next]_vars
  PROVE  [Promise!Next]_(Promise!avars)
<1> USE DEF IInv
<1>1. ASSUME NEW c \in Calls, TakeId(c) PROVE [Promise!Next]_(Promise!avars)
  BY <1>1, VisibleSubmit DEF Promise!Next
<1>2. ASSUME NEW c \in Calls, Register(c) PROVE [Promise!Next]_(Promise!avars)
  <2>1. /\ Goto(c, "register", "write") /\ UNCHANGED <<answer, ran>>
        /\ \A e \in Calls : e # c => outcome'[e] = outcome[e]
    BY <1>2 DEF Register, TypeOK, nodeVars
  <2>2. QED
    BY <2>1, PendingMove
<1>3. ASSUME NEW c \in Calls, BeginWrite(c) PROVE [Promise!Next]_(Promise!avars)
  <2>1. /\ Goto(c, "write", "writing") /\ UNCHANGED <<answer, ran>>
        /\ \A e \in Calls : e # c => outcome'[e] = outcome[e]
    BY <1>3 DEF BeginWrite, TypeOK, nodeVars
  <2>2. QED
    BY <2>1, PendingMove
<1>4. ASSUME NEW c \in Calls, EndWrite(c) PROVE [Promise!Next]_(Promise!avars)
  <2>1. /\ Goto(c, "writing", "waiting") /\ UNCHANGED <<answer, ran>>
        /\ \A e \in Calls : e # c => outcome'[e] = outcome[e]
    BY <1>4 DEF EndWrite, TypeOK, nodeVars
  <2>2. QED
    BY <2>1, PendingMove
<1>5. ASSUME NEW c \in Calls, FailWrite(c) PROVE [Promise!Next]_(Promise!avars)
  <2>1. /\ Goto(c, "writing", "remove") /\ UNCHANGED <<answer, ran>>
        /\ \A e \in Calls : e # c => outcome'[e] = outcome[e]
    BY <1>5 DEF FailWrite, TypeOK, nodeVars
  <2>2. QED
    BY <2>1, PendingMove
<1>6. ASSUME NEW c \in Calls, SelectTimeout(c) PROVE [Promise!Next]_(Promise!avars)
  <2>1. /\ Goto(c, "waiting", "remove") /\ UNCHANGED <<answer, ran>>
        /\ \A e \in Calls : e # c => outcome'[e] = outcome[e]
    BY <1>6 DEF SelectTimeout, TypeOK, nodeVars
  <2>2. QED
    BY <2>1, PendingMove
<1>7. ASSUME NEW c \in Calls, SelectExited(c) PROVE [Promise!Next]_(Promise!avars)
  <2>1. /\ Goto(c, "waiting", "remove") /\ UNCHANGED <<answer, ran>>
        /\ \A e \in Calls : e # c => outcome'[e] = outcome[e]
    BY <1>7 DEF SelectExited, TypeOK, nodeVars
  <2>2. QED
    BY <2>1, PendingMove
<1>8. ASSUME NEW c \in Calls, SelectAnswer(c) PROVE [Promise!Next]_(Promise!avars)
  BY <1>8, VisibleAnswer DEF Promise!Next
<1>9. ASSUME NEW c \in Calls, RemoveInflight(c) PROVE [Promise!Next]_(Promise!avars)
  BY <1>9, VisibleFail DEF Promise!Next
<1>10. ASSUME NEW c \in Calls, Expire(c) PROVE [Promise!Next]_(Promise!avars)
  BY <1>10, NoMove DEF Expire, goVars, nodeVars, vars
<1>11. ASSUME NEW c \in Calls, NodeReply(c) PROVE [Promise!Next]_(Promise!avars)
  BY <1>11, NoMove DEF NodeReply, goVars, nodeVars, vars
<1>12. ASSUME NEW c \in Calls, NodeHang(c) PROVE [Promise!Next]_(Promise!avars)
  BY <1>12, NoMove DEF NodeHang, goVars, nodeVars, vars
<1>13. CASE ReaderScan
  BY <1>13, NoMove DEF ReaderScan, goVars, nodeVars, vars
<1>14. CASE ReaderTake
  BY <1>14, NoMove DEF ReaderTake, goVars, nodeVars, vars
<1>15. CASE ReaderSend
  BY <1>15, NoMove DEF ReaderSend, goVars, nodeVars, vars
<1>16. CASE ReaderEnd
  BY <1>16, NoMove DEF ReaderEnd, goVars, nodeVars, vars
<1>17. CASE NodeRead
  BY <1>17, VisibleRun DEF Promise!Next
<1>18. CASE NodeWritten
  BY <1>18, NoMove DEF NodeWritten, goVars, nodeVars, vars
<1>19. CASE NodeCrash
  BY <1>19, NoMove DEF NodeCrash, goVars, nodeVars, vars
<1>20. CASE NodeEnd
  BY <1>20, NoMove DEF NodeEnd, goVars, nodeVars, vars
<1>21. CASE Close
  BY <1>21, NoMove DEF Close, goVars, nodeVars, vars
<1>22. CASE CloseReturn
  BY <1>22, NoMove DEF CloseReturn, goVars, nodeVars, vars
<1>23. CASE Finished
  BY <1>23, NoMove DEF Finished, goVars, nodeVars, vars
<1>24. CASE UNCHANGED vars
  BY <1>24, NoMove DEF vars, goVars, nodeVars
<1>. QED
  BY <1>1, <1>2, <1>3, <1>4, <1>5, <1>6, <1>7, <1>8, <1>9, <1>10, <1>11, <1>12, <1>13, <1>14, <1>15, <1>16, <1>17, <1>18, <1>19, <1>20, <1>21, <1>22, <1>23, <1>24 DEF Next, CallStep, ReaderStep

(* However calls, timeouts, Node and readLoop interleave, the host keeps   *)
(* the promise of ScriptCalls: a script runs at most once, an answer is    *)
(* the answer of a script that ran, and every call ends at most once.      *)
THEOREM Refinement == Spec => KeepsPromise
<1>1. Init => Promise!Init
  BY DEF Init, Promise!Init, Phase
<1>2. IInv /\ [Next]_vars => [Promise!Next]_(Promise!avars)
  BY PromiseStep
<1>3. QED
  BY <1>1, <1>2, Invariance, PTL DEF Spec, KeepsPromise, Promise!Spec

-----------------------------------------------------------------------------
(* Deadlock.  What a step of a call, of readLoop, of Node or of Close      *)
(* waits for; a fault, a timer and the user are not counted on.            *)
CallReady(c) ==
  \/ pc[c] \in {"register", "write", "remove"} /\ mu = Nobody
  \/ pc[c] = "writing" /\ (Len(stdin) <= StdinCap \/ node = "exited")
  \/ pc[c] = "waiting" /\ (expired[c] \/ reader = "closed" \/ chan[c] # <<>>)
ReaderReady ==
  \/ reader = "scan" /\ (stdout # <<>> \/ node = "exited")
  \/ reader = "take" /\ mu = Nobody
  \/ reader = "send" /\ Len(chan[dest]) < ChanCap
NodeReady ==
  \/ node = "ready" /\ (stdin # <<>> \/ running # {})
  \/ node = "writing" /\ Len(stdout) <= StdoutCap

Pending == {c \in Calls : pc[c] \notin {"idle", "done"}}
Stuck ==
  /\ Pending # {}
  /\ \A c \in Calls : ~CallReady(c)
  /\ ~ReaderReady /\ ~NodeReady

\* A request fills stdin and Node, which would read it, waits for room on
\* stdout.
PipesFull ==
  /\ \E c \in Calls : mu = c /\ pc[c] = "writing"
  /\ Len(stdin) > StdinCap
  /\ node = "writing" /\ Len(stdout) > StdoutCap

\* The scripts whose lines have not been written to the end or have not been
\* read by readLoop.
Replied(c) == \E i \in 1 .. Len(stdout) : stdout[i].kind # "log" /\ stdout[i].script = c
Holding(c) == reader \in {"take", "send"} /\ held = c

AnsweredOnce ==
  /\ \A i, j \in 1 .. Len(stdout) :
       stdout[i].kind # "log" /\ stdout[j].kind # "log" /\ stdout[i].script = stdout[j].script => i = j
  /\ \A c \in running : ~Replied(c) /\ ~Holding(c)
  /\ \A c \in Calls : Holding(c) => ~Replied(c)

\* What a fault alone can bring about.
FaultsOnly ==
  /\ node = "spinning" => "spin" \in Faults
  /\ \A i \in 1 .. Len(stdout) : stdout[i].kind \in {"log", "huge"} => stdout[i].kind \in Faults
  /\ reader = "closed" => "huge" \in Faults \/ node = "exited"
  /\ node = "exited" => "crash" \in Faults \/ closer # "open"
  /\ closer # "open" => Pending = {}
  /\ reader = "scan" => held = Nobody

\* The script of a call that waits is somewhere between stdin and its channel,
\* or hangs.
OnItsWay ==
  \A c \in Calls : pc[c] \in {"writing", "waiting"} =>
    \/ \E i \in 1 .. Len(stdin) : stdin[i] = c
    \/ c \in running \/ Replied(c) \/ Holding(c) \/ chan[c] # <<>>
    \/ node = "exited" \/ reader = "closed"
    \/ c \in ran /\ "hang" \in Faults


\* While Node writes and its last line is not an answer, the script that
\* logs has yet to answer.
WriterKnown ==
  node = "writing" /\ stdout # <<>> => stdout[Len(stdout)].kind # "log" \/ running # {}

FlowInv == AnsweredOnce /\ FaultsOnly /\ OnItsWay /\ WriterKnown

LEMMA FlowInit == Init => FlowInv
  BY DEF Init, FlowInv, AnsweredOnce, FaultsOnly, OnItsWay, WriterKnown, Replied, Holding, Pending

\* The flow of answers does not change with a step that leaves these alone.
Flow == <<stdout, running, reader, held>>

LEMMA SameFlow ==
  ASSUME UNCHANGED Flow
  PROVE  \A c \in Calls : (Replied(c)' <=> Replied(c)) /\ (Holding(c)' <=> Holding(c))
  BY DEF Flow, Replied, Holding

LEMMA QuietAnswers ==
  ASSUME TypeOK, AnsweredOnce, UNCHANGED <<stdout, reader, held>>, running' \subseteq running
  PROVE  AnsweredOnce'
<1>1. \A c : (Replied(c)' <=> Replied(c)) /\ (Holding(c)' <=> Holding(c))
  BY DEF Replied, Holding
<1>. QED
  BY <1>1 DEF AnsweredOnce

\* readLoop takes the first line.
LEMMA TakeLine ==
  ASSUME TypeOK, stdout # <<>>, stdout' = Tail(stdout)
  PROVE  /\ \A c : Replied(c) => Replied(c)' \/ (Head(stdout).kind # "log" /\ Head(stdout).script = c)
         /\ \A c : Replied(c)' => Replied(c)
         /\ AnsweredOnce /\ Head(stdout).kind # "log" =>
              \A h : h = Head(stdout).script => ~Replied(h)'
         /\ Head(stdout).kind # "log" => Replied(Head(stdout).script)
<1>1. /\ Len(stdout) \in Nat \ {0} /\ Head(stdout) = stdout[1] /\ Len(stdout') = Len(stdout) - 1
      /\ \A i \in 1 .. Len(stdout') : stdout'[i] = stdout[i + 1]
  BY StdoutTail
<1>2. ASSUME NEW c, Replied(c) PROVE Replied(c)' \/ (Head(stdout).kind # "log" /\ Head(stdout).script = c)
  <2>1. PICK i \in 1 .. Len(stdout) : stdout[i].kind # "log" /\ stdout[i].script = c
    BY <1>2 DEF Replied
  <2>2. CASE i = 1
    BY <1>1, <2>1, <2>2
  <2>3. CASE i # 1
    <3>1. i - 1 \in 1 .. Len(stdout') /\ stdout'[i - 1] = stdout[i]
      <4>1. i - 1 \in 1 .. Len(stdout') /\ (i - 1) + 1 = i
        BY <1>1, <2>1, <2>3
      <4>2. QED
        BY <1>1, <4>1
    <3>2. QED
      BY <2>1, <3>1 DEF Replied
  <2>4. QED
    BY <2>2, <2>3
<1>3. \A i \in 1 .. Len(stdout') : i + 1 \in 1 .. Len(stdout) /\ i + 1 # 1
  BY <1>1
<1>4. \A c : Replied(c)' => Replied(c)
  BY <1>1, <1>3 DEF Replied
<1>5. 1 \in 1 .. Len(stdout)
  BY <1>1
<1>6. ASSUME AnsweredOnce, Head(stdout).kind # "log", NEW h, h = Head(stdout).script, Replied(h)' PROVE FALSE
  <2>1. PICK i \in 1 .. Len(stdout') : stdout'[i].kind # "log" /\ stdout'[i].script = Head(stdout).script
    BY <1>6 DEF Replied
  <2>2. i + 1 \in 1 .. Len(stdout) /\ i + 1 # 1 /\ stdout[i + 1].kind # "log" /\ stdout[i + 1].script = stdout[1].script
    BY <1>1, <1>3, <2>1
  <2>3. QED
    BY <1>1, <1>5, <1>6, <2>2 DEF AnsweredOnce
<1>7. Head(stdout).kind # "log" => Replied(Head(stdout).script)
  BY <1>1, <1>5 DEF Replied
<1>. QED
  BY <1>2, <1>4, <1>6, <1>7

\* Node appends a line.
LEMMA AddLine ==
  ASSUME TypeOK, NEW m \in Replies \cup {LogLine}, stdout' = Append(stdout, m)
  PROVE  /\ \A c : Replied(c)' <=> Replied(c) \/ (m.kind # "log" /\ m.script = c)
         /\ stdout' # <<>> /\ stdout'[Len(stdout')] = m
         /\ AnsweredOnce /\ (m.kind = "log" \/ ~Replied(m.script)) =>
              \A i, j \in 1 .. Len(stdout') :
                stdout'[i].kind # "log" /\ stdout'[j].kind # "log" /\ stdout'[i].script = stdout'[j].script => i = j
<1>1. /\ Len(stdout') = Len(stdout) + 1 /\ Len(stdout) \in Nat /\ stdout'[Len(stdout) + 1] = m
      /\ \A i \in 1 .. Len(stdout) : stdout'[i] = stdout[i]
  BY StdoutAppend
<1>2. \A i \in 1 .. Len(stdout') : i = Len(stdout) + 1 \/ i \in 1 .. Len(stdout)
  BY <1>1
<1>3. Len(stdout) + 1 \in 1 .. Len(stdout') /\ \A i \in 1 .. Len(stdout) : i \in 1 .. Len(stdout')
  BY <1>1
<1>4. ASSUME NEW c PROVE Replied(c)' <=> Replied(c) \/ (m.kind # "log" /\ m.script = c)
  BY <1>1, <1>2, <1>3 DEF Replied
<1>5. stdout' # <<>>
  <2>1. Len(stdout') # 0 /\ Len(<<>>) = 0
    BY <1>1
  <2>2. QED
    BY <2>1
<1>6. ASSUME AnsweredOnce, m.kind = "log" \/ ~Replied(m.script),
             NEW i \in 1 .. Len(stdout'), NEW j \in 1 .. Len(stdout'),
             stdout'[i].kind # "log", stdout'[j].kind # "log", stdout'[i].script = stdout'[j].script
      PROVE  i = j
  BY <1>1, <1>2, <1>6 DEF AnsweredOnce, Replied
<1>. QED
  BY <1>1, <1>4, <1>5, <1>6

LEMMA DropLine ==
  ASSUME TypeOK, AnsweredOnce, stdout # <<>>, stdout' = Tail(stdout)
  PROVE  \A i, j \in 1 .. Len(stdout') :
           stdout'[i].kind # "log" /\ stdout'[j].kind # "log" /\ stdout'[i].script = stdout'[j].script => i = j
<1>1. /\ Len(stdout) \in Nat \ {0} /\ Len(stdout') = Len(stdout) - 1
      /\ \A i \in 1 .. Len(stdout') : stdout'[i] = stdout[i + 1]
  BY StdoutTail
<1>2. ASSUME NEW i \in 1 .. Len(stdout'), NEW j \in 1 .. Len(stdout'), stdout'[i].kind # "log",
             stdout'[j].kind # "log", stdout'[i].script = stdout'[j].script
      PROVE  i = j
  <2>1. /\ i + 1 \in 1 .. Len(stdout) /\ j + 1 \in 1 .. Len(stdout)
        /\ stdout'[i] = stdout[i + 1] /\ stdout'[j] = stdout[j + 1]
    BY <1>1
  <2>2. i + 1 = j + 1
    BY <1>2, <2>1 DEF AnsweredOnce
  <2>3. QED
    BY <2>2
<1>. QED
  BY <1>2

LEMMA FirstLineFresh ==
  ASSUME TypeOK, LinesFresh, stdin # <<>>
  PROVE  Head(stdin) \in Calls /\ Head(stdin) \notin ran
<1>1. Len(stdin) \in Nat \ {0} /\ Head(stdin) = stdin[1] /\ stdin[1] \in Calls
  BY StdinTail
<1>2. 1 \in 1 .. Len(stdin)
  BY <1>1
<1>. QED
  BY <1>1, <1>2 DEF LinesFresh

LEMMA AnsweredOnceStep ==
  ASSUME TypeOK, LinesFresh, RepliesRan, AnsweredOnce, [Next]_vars
  PROVE  AnsweredOnce'
<1>1. ASSUME NEW c \in Calls, TakeId(c) PROVE AnsweredOnce'
  BY <1>1, QuietAnswers DEF TakeId, Goto, Delete, vars, goVars, readVars, nodeVars
<1>2. ASSUME NEW c \in Calls, Register(c) PROVE AnsweredOnce'
  BY <1>2, QuietAnswers DEF Register, Goto, Delete, vars, goVars, readVars, nodeVars
<1>3. ASSUME NEW c \in Calls, BeginWrite(c) PROVE AnsweredOnce'
  BY <1>3, QuietAnswers DEF BeginWrite, Goto, Delete, vars, goVars, readVars, nodeVars
<1>4. ASSUME NEW c \in Calls, EndWrite(c) PROVE AnsweredOnce'
  BY <1>4, QuietAnswers DEF EndWrite, Goto, Delete, vars, goVars, readVars, nodeVars
<1>5. ASSUME NEW c \in Calls, FailWrite(c) PROVE AnsweredOnce'
  BY <1>5, QuietAnswers DEF FailWrite, Goto, Delete, vars, goVars, readVars, nodeVars
<1>6. ASSUME NEW c \in Calls, SelectTimeout(c) PROVE AnsweredOnce'
  BY <1>6, QuietAnswers DEF SelectTimeout, Goto, Delete, vars, goVars, readVars, nodeVars
<1>7. ASSUME NEW c \in Calls, SelectExited(c) PROVE AnsweredOnce'
  BY <1>7, QuietAnswers DEF SelectExited, Goto, Delete, vars, goVars, readVars, nodeVars
<1>8. ASSUME NEW c \in Calls, SelectAnswer(c) PROVE AnsweredOnce'
  BY <1>8, QuietAnswers DEF SelectAnswer, Goto, Delete, vars, goVars, readVars, nodeVars
<1>9. ASSUME NEW c \in Calls, RemoveInflight(c) PROVE AnsweredOnce'
  BY <1>9, QuietAnswers DEF RemoveInflight, Goto, Delete, vars, goVars, readVars, nodeVars
<1>10. ASSUME NEW c \in Calls, Expire(c) PROVE AnsweredOnce'
  BY <1>10, QuietAnswers DEF Expire, Goto, Delete, vars, goVars, readVars, nodeVars
<1>11. ASSUME NEW c \in Calls, NodeReply(c) PROVE AnsweredOnce'
  <2>1. PICK k \in {"reply", "huge"} : stdout' = Append(stdout, [script |-> c, kind |-> k])
    BY <1>11 DEF NodeReply
  <2>2. PICK m \in Replies : m = [script |-> c, kind |-> k]
    BY DEF Replies
  <2>3. m.script = c /\ m.kind # "log" /\ stdout' = Append(stdout, m)
    BY <2>1, <2>2
  <2>4. c \in running /\ running' = running \ {c} /\ UNCHANGED <<reader, held>>
    BY <1>11 DEF NodeReply, readVars
  <2>5. ~Replied(c) /\ ~Holding(c)
    BY <2>4 DEF AnsweredOnce
  <2>6. \A e : Replied(e)' <=> Replied(e) \/ e = c
    BY <2>3, AddLine
  <2>7. \A i, j \in 1 .. Len(stdout') :
          stdout'[i].kind # "log" /\ stdout'[j].kind # "log" /\ stdout'[i].script = stdout'[j].script => i = j
    BY <2>3, <2>5, AddLine
  <2>8. \A e : Holding(e)' <=> Holding(e)
    BY <2>4 DEF Holding
  <2>9. QED
    BY <2>4, <2>5, <2>6, <2>7, <2>8 DEF AnsweredOnce
<1>12. ASSUME NEW c \in Calls, NodeHang(c) PROVE AnsweredOnce'
  BY <1>12, QuietAnswers DEF NodeHang, Goto, Delete, vars, goVars, readVars, nodeVars
<1>13. CASE ReaderScan
  <2>1. stdout # <<>> /\ reader = "scan" /\ running' = running
    BY <1>13 DEF ReaderScan, nodeVars
  <2>2. CASE Head(stdout).kind = "huge"
    <3>1. reader' = "closed" /\ stdout' \in {stdout, Tail(stdout)}
      BY <1>13, <2>2 DEF ReaderScan
    <3>2. \A e : ~Holding(e)'
      BY <3>1 DEF Holding
    <3>3. CASE stdout' = stdout
      BY <2>1, <3>2, <3>3 DEF AnsweredOnce, Replied
    <3>4. CASE stdout' = Tail(stdout)
      BY <2>1, <3>2, <3>4, TakeLine, DropLine DEF AnsweredOnce
    <3>5. QED
      BY <3>1, <3>3, <3>4
  <2>3. CASE Head(stdout).kind # "huge"
    <3>1. stdout' = Tail(stdout)
      BY <1>13, <2>3 DEF ReaderScan
    <3>2. \A e : Holding(e)' => Head(stdout).kind # "log" /\ Head(stdout).script = e
      BY <1>13, <2>3 DEF ReaderScan, Holding
    <3>3. \A e : Holding(e)' => ~Replied(e)' /\ e \notin running
      <4>1. Head(stdout).kind # "log" =>
              (\A h : h = Head(stdout).script => ~Replied(h)') /\ Replied(Head(stdout).script)
        BY <2>1, <3>1, TakeLine
      <4>2. QED
        BY <3>2, <4>1 DEF AnsweredOnce
    <3>4. \A e : Replied(e)' => Replied(e)
      BY <2>1, <3>1, TakeLine
    <3>5. QED
      BY <2>1, <3>1, <3>3, <3>4, DropLine DEF AnsweredOnce
  <2>4. QED
    BY <2>2, <2>3
<1>14. CASE ReaderTake
  <2>1. UNCHANGED <<stdout, running>> /\ \A e : Holding(e)' => Holding(e) \/ e = Nobody
    BY <1>14 DEF ReaderTake, Holding, nodeVars
  <2>2. \A e : Replied(e)' <=> Replied(e)
    BY <2>1 DEF Replied
  <2>3. Nobody \notin running /\ Nobody \notin Calls
    BY CallAssumption DEF TypeOK
  <2>4. QED
    BY <2>1, <2>2, <2>3 DEF AnsweredOnce
<1>15. CASE ReaderSend
  <2>1. UNCHANGED <<stdout, running>> /\ \A e : ~Holding(e)'
    BY <1>15 DEF ReaderSend, Holding, nodeVars
  <2>2. \A e : Replied(e)' <=> Replied(e)
    BY <2>1 DEF Replied
  <2>3. QED
    BY <2>1, <2>2 DEF AnsweredOnce
<1>16. CASE ReaderEnd
  <2>1. UNCHANGED <<stdout, running>> /\ \A e : ~Holding(e)'
    BY <1>16 DEF ReaderEnd, Holding, nodeVars
  <2>2. \A e : Replied(e)' <=> Replied(e)
    BY <2>1 DEF Replied
  <2>3. QED
    BY <2>1, <2>2 DEF AnsweredOnce
<1>17. CASE NodeRead
  <2>1. /\ stdin # <<>> /\ running' = running \cup {Head(stdin)} /\ UNCHANGED <<reader, held>>
        /\ stdout' \in {stdout, Append(stdout, LogLine)}
    BY <1>17 DEF NodeRead, readVars
  <2>2. LogLine \in Replies \cup {LogLine} /\ LogLine.kind = "log"
    BY DEF LogLine
  <2>3. \A e : Holding(e)' <=> Holding(e)
    BY <2>1 DEF Holding
  <2>4. \A e : Replied(e)' <=> Replied(e)
    BY <2>1, <2>2, AddLine DEF Replied
  <2>5. \A i, j \in 1 .. Len(stdout') :
          stdout'[i].kind # "log" /\ stdout'[j].kind # "log" /\ stdout'[i].script = stdout'[j].script => i = j
    <3>1. CASE stdout' = stdout
      BY <3>1 DEF AnsweredOnce
    <3>2. CASE stdout' = Append(stdout, LogLine)
      BY <3>2, <2>2, AddLine
    <3>3. QED
      BY <2>1, <3>1, <3>2
  <2>6. Head(stdin) \in Calls /\ Head(stdin) \notin ran
    BY <2>1, FirstLineFresh
  <2>7. \A e : Replied(e) \/ Holding(e) => e \in ran
    BY DEF Replied, Holding, RepliesRan
  <2>8. QED
    BY <2>1, <2>3, <2>4, <2>5, <2>6, <2>7 DEF AnsweredOnce
<1>18. CASE NodeWritten
  BY <1>18, QuietAnswers DEF NodeWritten, Goto, Delete, vars, goVars, readVars, nodeVars
<1>19. CASE NodeCrash
  BY <1>19, QuietAnswers DEF NodeCrash, Goto, Delete, vars, goVars, readVars, nodeVars
<1>20. CASE NodeEnd
  BY <1>20, QuietAnswers DEF NodeEnd, Goto, Delete, vars, goVars, readVars, nodeVars
<1>21. CASE Close
  BY <1>21, QuietAnswers DEF Close, Goto, Delete, vars, goVars, readVars, nodeVars
<1>22. CASE CloseReturn
  BY <1>22, QuietAnswers DEF CloseReturn, Goto, Delete, vars, goVars, readVars, nodeVars
<1>23. CASE Finished
  BY <1>23, QuietAnswers DEF Finished, Goto, Delete, vars, goVars, readVars, nodeVars
<1>24. CASE UNCHANGED vars
  BY <1>24, QuietAnswers DEF Goto, Delete, vars, goVars, readVars, nodeVars
<1>. QED
  BY <1>1, <1>2, <1>3, <1>4, <1>5, <1>6, <1>7, <1>8, <1>9, <1>10, <1>11, <1>12, <1>13, <1>14, <1>15, <1>16, <1>17, <1>18, <1>19, <1>20, <1>21, <1>22, <1>23, <1>24 DEF Next, CallStep, ReaderStep
\* What lines are on stdout after one is taken or added.
LinesAre(S) == \A i \in 1 .. Len(stdout) : stdout[i].kind \in {"log", "huge"} => stdout[i].kind \in S

LEMMA KindsTail ==
  ASSUME TypeOK, LinesAre(Faults), stdout # <<>>, stdout' \in {stdout, Tail(stdout)}
  PROVE  LinesAre(Faults)' /\ (Head(stdout).kind \in {"log", "huge"} => Head(stdout).kind \in Faults)
<1>1. /\ Len(stdout) \in Nat \ {0} /\ Head(stdout) = stdout[1] /\ Len(Tail(stdout)) = Len(stdout) - 1
      /\ \A i \in 1 .. Len(Tail(stdout)) : Tail(stdout)[i] = stdout[i + 1]
  BY StdoutTail
<1>2. 1 \in 1 .. Len(stdout) /\ \A i \in 1 .. Len(Tail(stdout)) : i + 1 \in 1 .. Len(stdout)
  BY <1>1
<1>3. CASE stdout' = stdout
  BY <1>1, <1>2, <1>3 DEF LinesAre
<1>4. CASE stdout' = Tail(stdout)
  BY <1>1, <1>2, <1>4 DEF LinesAre
<1>. QED
  BY <1>3, <1>4

LEMMA KindsAppend ==
  ASSUME TypeOK, LinesAre(Faults), NEW m \in Replies \cup {LogLine}, stdout' = Append(stdout, m),
         m.kind \in {"log", "huge"} => m.kind \in Faults
  PROVE  LinesAre(Faults)'
<1>1. /\ Len(stdout') = Len(stdout) + 1 /\ Len(stdout) \in Nat /\ stdout'[Len(stdout) + 1] = m
      /\ \A i \in 1 .. Len(stdout) : stdout'[i] = stdout[i]
  BY StdoutAppend
<1>2. \A i \in 1 .. Len(stdout') : i = Len(stdout) + 1 \/ i \in 1 .. Len(stdout)
  BY <1>1
<1>. QED
  BY <1>1, <1>2 DEF LinesAre

LEMMA FaultsOnlyStep ==
  ASSUME TypeOK, FaultsOnly, [Next]_vars
  PROVE  FaultsOnly'
<1>1. ASSUME NEW c \in Calls, TakeId(c) PROVE FaultsOnly'
  <2>1. closer = "open" /\ UNCHANGED <<node, stdout, reader, held, closer>>
    BY <1>1 DEF TakeId, readVars, nodeVars
  <2>2. QED
    BY <2>1 DEF FaultsOnly, LinesAre, Pending
<1>2. ASSUME NEW c \in Calls, Register(c) PROVE FaultsOnly'
  <2>1. UNCHANGED <<node, stdout, reader, held, closer>> /\ Pending' \subseteq Pending
    BY <1>2 DEF Register, Pending, Goto, TypeOK, readVars, nodeVars
  <2>2. QED
    BY <2>1 DEF FaultsOnly
<1>3. ASSUME NEW c \in Calls, BeginWrite(c) PROVE FaultsOnly'
  <2>1. UNCHANGED <<node, stdout, reader, held, closer>> /\ Pending' \subseteq Pending
    BY <1>3 DEF BeginWrite, Pending, Goto, TypeOK, readVars, nodeVars
  <2>2. QED
    BY <2>1 DEF FaultsOnly
<1>4. ASSUME NEW c \in Calls, EndWrite(c) PROVE FaultsOnly'
  <2>1. UNCHANGED <<node, stdout, reader, held, closer>> /\ Pending' \subseteq Pending
    BY <1>4 DEF EndWrite, Pending, Goto, TypeOK, readVars, nodeVars
  <2>2. QED
    BY <2>1 DEF FaultsOnly
<1>5. ASSUME NEW c \in Calls, FailWrite(c) PROVE FaultsOnly'
  <2>1. UNCHANGED <<node, stdout, reader, held, closer>> /\ Pending' \subseteq Pending
    BY <1>5 DEF FailWrite, Pending, Goto, TypeOK, readVars, nodeVars
  <2>2. QED
    BY <2>1 DEF FaultsOnly
<1>6. ASSUME NEW c \in Calls, SelectTimeout(c) PROVE FaultsOnly'
  <2>1. UNCHANGED <<node, stdout, reader, held, closer>> /\ Pending' \subseteq Pending
    BY <1>6 DEF SelectTimeout, Pending, Goto, TypeOK, readVars, nodeVars
  <2>2. QED
    BY <2>1 DEF FaultsOnly
<1>7. ASSUME NEW c \in Calls, SelectExited(c) PROVE FaultsOnly'
  <2>1. UNCHANGED <<node, stdout, reader, held, closer>> /\ Pending' \subseteq Pending
    BY <1>7 DEF SelectExited, Pending, Goto, TypeOK, readVars, nodeVars
  <2>2. QED
    BY <2>1 DEF FaultsOnly
<1>8. ASSUME NEW c \in Calls, SelectAnswer(c) PROVE FaultsOnly'
  <2>1. UNCHANGED <<node, stdout, reader, held, closer>> /\ Pending' \subseteq Pending
    BY <1>8 DEF SelectAnswer, Pending, Goto, TypeOK, readVars, nodeVars
  <2>2. QED
    BY <2>1 DEF FaultsOnly
<1>9. ASSUME NEW c \in Calls, RemoveInflight(c) PROVE FaultsOnly'
  <2>1. UNCHANGED <<node, stdout, reader, held, closer>> /\ Pending' \subseteq Pending
    BY <1>9 DEF RemoveInflight, Pending, Goto, TypeOK, readVars, nodeVars
  <2>2. QED
    BY <2>1 DEF FaultsOnly
<1>10. ASSUME NEW c \in Calls, Expire(c) PROVE FaultsOnly'
  <2>1. UNCHANGED <<node, stdout, reader, held, closer>> /\ Pending' \subseteq Pending
    BY <1>10 DEF Expire, Pending, Goto, TypeOK, readVars, nodeVars
  <2>2. QED
    BY <2>1 DEF FaultsOnly
<1>11. ASSUME NEW c \in Calls, NodeReply(c) PROVE FaultsOnly'
  <2>1. PICK k \in {"reply"} \cup (Faults \cap {"huge"}) : stdout' = Append(stdout, [script |-> c, kind |-> k])
    BY <1>11 DEF NodeReply
  <2>2. PICK m \in Replies : m = [script |-> c, kind |-> k]
    BY DEF Replies
  <2>3. LinesAre(Faults)'
    <3>1. LinesAre(Faults) /\ (m.kind \in {"log", "huge"} => m.kind \in Faults) /\ stdout' = Append(stdout, m)
      BY <2>1, <2>2 DEF FaultsOnly, LinesAre
    <3>2. QED
      BY <3>1, KindsAppend
  <2>4. node = "ready" /\ node' = "writing" /\ UNCHANGED <<reader, held, pc, closer>>
    BY <1>11 DEF NodeReply, readVars, goVars
  <2>5. QED
    BY <2>3, <2>4 DEF FaultsOnly, LinesAre, Pending
<1>12. ASSUME NEW c \in Calls, NodeHang(c) PROVE FaultsOnly'
  BY <1>12 DEF NodeHang, FaultsOnly, Pending, Goto, Delete, vars, goVars, readVars, nodeVars
<1>13. CASE ReaderScan
  <2>1. LinesAre(Faults)' /\ (Head(stdout).kind \in {"log", "huge"} => Head(stdout).kind \in Faults)
    <3>1. stdout # <<>> /\ stdout' \in {stdout, Tail(stdout)}
      BY <1>13 DEF ReaderScan
    <3>2. QED
      BY <3>1, KindsTail DEF FaultsOnly, LinesAre
  <2>2. /\ reader' = "closed" => Head(stdout).kind = "huge"
        /\ reader' = "scan" => held' = held /\ reader = "scan"
        /\ UNCHANGED <<node, closer, pc>>
    BY <1>13 DEF ReaderScan, nodeVars, goVars
  <2>3. QED
    BY <2>1, <2>2 DEF FaultsOnly, LinesAre, Pending
<1>14. CASE ReaderTake
  <2>1. reader' \in {"send", "scan"} /\ (reader' = "scan" => held' = Nobody) /\ UNCHANGED <<node, stdout, pc, closer>>
    BY <1>14 DEF ReaderTake, nodeVars
  <2>2. QED
    BY <2>1 DEF FaultsOnly, LinesAre, Pending
<1>15. CASE ReaderSend
  <2>1. reader' = "scan" /\ held' = Nobody /\ UNCHANGED <<node, stdout, pc, closer>>
    BY <1>15 DEF ReaderSend, nodeVars
  <2>2. QED
    BY <2>1 DEF FaultsOnly, LinesAre, Pending
<1>16. CASE ReaderEnd
  <2>1. reader' = "closed" /\ node = "exited" /\ UNCHANGED <<node, stdout, pc, closer>>
    BY <1>16 DEF ReaderEnd, nodeVars, goVars
  <2>2. QED
    BY <2>1 DEF FaultsOnly, LinesAre, Pending
<1>17. CASE NodeRead
  <2>1. /\ stdin # <<>> /\ UNCHANGED <<reader, held, pc, closer>>
        /\ \/ UNCHANGED <<node, stdout>>
           \/ "log" \in Faults /\ stdout' = Append(stdout, LogLine) /\ node' = "writing"
           \/ "spin" \in Faults /\ node' = "spinning" /\ UNCHANGED stdout
    BY <1>17 DEF NodeRead, readVars, goVars
  <2>2. LinesAre(Faults)'
    <3>1. LinesAre(Faults) /\ LogLine \in Replies \cup {LogLine} /\ LogLine.kind = "log"
      BY DEF FaultsOnly, LinesAre, LogLine
    <3>2. CASE stdout' = stdout
      BY <3>1, <3>2 DEF LinesAre
    <3>3. CASE "log" \in Faults /\ stdout' = Append(stdout, LogLine)
      BY <3>1, <3>3, KindsAppend
    <3>4. QED
      BY <2>1, <3>2, <3>3
  <2>3. node \in {"ready"}
    BY <1>17 DEF NodeRead
  <2>4. QED
    BY <2>1, <2>2, <2>3 DEF FaultsOnly, LinesAre, Pending
<1>18. CASE NodeWritten
  BY <1>18 DEF NodeWritten, FaultsOnly, Pending, Goto, Delete, vars, goVars, readVars, nodeVars
<1>19. CASE NodeCrash
  BY <1>19 DEF NodeCrash, FaultsOnly, Pending, Goto, Delete, vars, goVars, readVars, nodeVars
<1>20. CASE NodeEnd
  BY <1>20 DEF NodeEnd, FaultsOnly, Pending, Goto, Delete, vars, goVars, readVars, nodeVars
<1>21. CASE Close
  BY <1>21 DEF Close, FaultsOnly, Pending, Goto, Delete, vars, goVars, readVars, nodeVars
<1>22. CASE CloseReturn
  BY <1>22 DEF CloseReturn, FaultsOnly, Pending, Goto, Delete, vars, goVars, readVars, nodeVars
<1>23. CASE Finished
  BY <1>23 DEF Finished, FaultsOnly, Pending, Goto, Delete, vars, goVars, readVars, nodeVars
<1>24. CASE UNCHANGED vars
  BY <1>24 DEF FaultsOnly, Pending, Goto, Delete, vars, goVars, readVars, nodeVars
<1>. QED
  BY <1>1, <1>2, <1>3, <1>4, <1>5, <1>6, <1>7, <1>8, <1>9, <1>10, <1>11, <1>12, <1>13, <1>14, <1>15, <1>16, <1>17, <1>18, <1>19, <1>20, <1>21, <1>22, <1>23, <1>24 DEF Next, CallStep, ReaderStep
LEMMA AppendNotEmpty ==
  ASSUME NEW S, NEW s \in Seq(S), NEW e \in S
  PROVE  Append(s, e) # <<>>
<1>1. Len(Append(s, e)) = Len(s) + 1 /\ Len(s) \in Nat
  BY AppendProperties, LenProperties
<1>2. Len(Append(s, e)) # 0 /\ Len(<<>>) = 0
  BY <1>1
<1>. QED
  BY <1>2

LEMMA OnItsWayStep ==
  ASSUME TypeOK, RepliesRan, Expected, OnItsWay, [Next]_vars
  PROVE  OnItsWay'
<1>1. ASSUME NEW c \in Calls, TakeId(c) PROVE OnItsWay'
  <2>1. /\ UNCHANGED <<node, stdin, stdout, reader, held, running, ran, chan>>
        /\ \A e \in Calls : pc'[e] \in {"writing", "waiting"} => pc[e] \in {"writing", "waiting"}
    BY <1>1 DEF TakeId, Goto, TypeOK, readVars, nodeVars
  <2>2. QED
    BY <2>1 DEF OnItsWay, Replied, Holding
<1>2. ASSUME NEW c \in Calls, Register(c) PROVE OnItsWay'
  <2>1. /\ UNCHANGED <<node, stdin, stdout, reader, held, running, ran, chan>>
        /\ \A e \in Calls : pc'[e] \in {"writing", "waiting"} => pc[e] \in {"writing", "waiting"}
    BY <1>2 DEF Register, Goto, TypeOK, readVars, nodeVars
  <2>2. QED
    BY <2>1 DEF OnItsWay, Replied, Holding
<1>3. ASSUME NEW c \in Calls, BeginWrite(c) PROVE OnItsWay'
  <2>1. /\ pc' = [pc EXCEPT ![c] = "writing"] /\ UNCHANGED <<running, ran, stdout, reader, held, chan, node>>
        /\ stdin' = Append(stdin, c)
    BY <1>3 DEF BeginWrite, Goto, readVars, nodeVars
  <2>2. /\ Len(stdin') = Len(stdin) + 1 /\ Len(stdin) \in Nat /\ stdin'[Len(stdin) + 1] = c
        /\ \A i \in 1 .. Len(stdin) : stdin'[i] = stdin[i]
    BY <2>1, StdinAppend
  <2>3. Len(stdin) + 1 \in 1 .. Len(stdin') /\ \A i \in 1 .. Len(stdin) : i \in 1 .. Len(stdin')
    BY <2>2
  <2>4. \A e \in Calls : pc'[e] \in {"writing", "waiting"} => e = c \/ pc[e] \in {"writing", "waiting"}
    BY <2>1 DEF TypeOK
  <2>5. ASSUME NEW e \in Calls, e = c \/ \E i \in 1 .. Len(stdin) : stdin[i] = e
        PROVE  \E i \in 1 .. Len(stdin') : stdin'[i] = e
    BY <2>2, <2>3, <2>5
  <2>6. QED
    BY <2>1, <2>4, <2>5 DEF OnItsWay, Replied, Holding
<1>4. ASSUME NEW c \in Calls, EndWrite(c) PROVE OnItsWay'
  <2>1. /\ UNCHANGED <<node, stdin, stdout, reader, held, running, ran, chan>>
        /\ \A e \in Calls : pc'[e] \in {"writing", "waiting"} => pc[e] \in {"writing", "waiting"}
    BY <1>4 DEF EndWrite, Goto, TypeOK, readVars, nodeVars
  <2>2. QED
    BY <2>1 DEF OnItsWay, Replied, Holding
<1>5. ASSUME NEW c \in Calls, FailWrite(c) PROVE OnItsWay'
  <2>1. /\ UNCHANGED <<node, stdin, stdout, reader, held, running, ran, chan>>
        /\ \A e \in Calls : pc'[e] \in {"writing", "waiting"} => pc[e] \in {"writing", "waiting"}
    BY <1>5 DEF FailWrite, Goto, TypeOK, readVars, nodeVars
  <2>2. QED
    BY <2>1 DEF OnItsWay, Replied, Holding
<1>6. ASSUME NEW c \in Calls, SelectTimeout(c) PROVE OnItsWay'
  <2>1. /\ UNCHANGED <<node, stdin, stdout, reader, held, running, ran, chan>>
        /\ \A e \in Calls : pc'[e] \in {"writing", "waiting"} => pc[e] \in {"writing", "waiting"}
    BY <1>6 DEF SelectTimeout, Goto, TypeOK, readVars, nodeVars
  <2>2. QED
    BY <2>1 DEF OnItsWay, Replied, Holding
<1>7. ASSUME NEW c \in Calls, SelectExited(c) PROVE OnItsWay'
  <2>1. /\ UNCHANGED <<node, stdin, stdout, reader, held, running, ran, chan>>
        /\ \A e \in Calls : pc'[e] \in {"writing", "waiting"} => pc[e] \in {"writing", "waiting"}
    BY <1>7 DEF SelectExited, Goto, TypeOK, readVars, nodeVars
  <2>2. QED
    BY <2>1 DEF OnItsWay, Replied, Holding
<1>8. ASSUME NEW c \in Calls, SelectAnswer(c) PROVE OnItsWay'
  <2>1. /\ UNCHANGED <<running, ran, stdin, stdout, reader, held, node>>
        /\ \A e \in Calls : pc'[e] \in {"writing", "waiting"} => pc[e] = pc'[e] /\ chan'[e] = chan[e]
    BY <1>8 DEF SelectAnswer, Goto, readVars, nodeVars, TypeOK
  <2>2. QED
    BY <2>1 DEF OnItsWay, Replied, Holding
<1>9. ASSUME NEW c \in Calls, RemoveInflight(c) PROVE OnItsWay'
  <2>1. /\ UNCHANGED <<node, stdin, stdout, reader, held, running, ran, chan>>
        /\ \A e \in Calls : pc'[e] \in {"writing", "waiting"} => pc[e] \in {"writing", "waiting"}
    BY <1>9 DEF RemoveInflight, Goto, TypeOK, readVars, nodeVars
  <2>2. QED
    BY <2>1 DEF OnItsWay, Replied, Holding
<1>10. ASSUME NEW c \in Calls, Expire(c) PROVE OnItsWay'
  <2>1. /\ UNCHANGED <<node, stdin, stdout, reader, held, running, ran, chan>>
        /\ \A e \in Calls : pc'[e] \in {"writing", "waiting"} => pc[e] \in {"writing", "waiting"}
    BY <1>10 DEF Expire, Goto, TypeOK, readVars, nodeVars
  <2>2. QED
    BY <2>1 DEF OnItsWay, Replied, Holding
<1>11. ASSUME NEW c \in Calls, NodeReply(c) PROVE OnItsWay'
  <2>1. PICK k \in {"reply", "huge"} : stdout' = Append(stdout, [script |-> c, kind |-> k])
    BY <1>11 DEF NodeReply
  <2>2. PICK m \in Replies : m = [script |-> c, kind |-> k]
    BY DEF Replies
  <2>3. m.script = c /\ m.kind # "log" /\ stdout' = Append(stdout, m)
    BY <2>1, <2>2
  <2>4. \A e : Replied(e) \/ e = c => Replied(e)'
    BY <2>3, AddLine
  <2>5. running' = running \ {c} /\ UNCHANGED <<pc, chan, reader, held, stdin, ran>> /\ node # "exited"
    BY <1>11 DEF NodeReply, readVars, goVars
  <2>6. QED
    BY <2>4, <2>5 DEF OnItsWay, Holding
<1>12. ASSUME NEW c \in Calls, NodeHang(c) PROVE OnItsWay'
  <2>1. /\ "hang" \in Faults /\ c \in running /\ running' = running \ {c}
        /\ UNCHANGED <<pc, chan, reader, held, stdin, stdout, ran, node>>
    BY <1>12 DEF NodeHang, readVars, goVars
  <2>2. c \in ran
    BY <2>1 DEF RepliesRan
  <2>3. QED
    BY <2>1, <2>2 DEF OnItsWay, Holding, Replied
<1>13. CASE ReaderScan
  <2>1. stdout # <<>> /\ UNCHANGED <<pc, running, ran, stdin, chan, node>> /\ reader = "scan"
    BY <1>13 DEF ReaderScan, nodeVars, goVars
  <2>2. CASE reader' = "closed"
    BY <2>1, <2>2 DEF OnItsWay
  <2>3. CASE reader' # "closed"
    <3>1. stdout' = Tail(stdout)
      BY <1>13, <2>1, <2>3 DEF ReaderScan
    <3>2. \A e : Replied(e) => Replied(e)' \/ (Head(stdout).kind # "log" /\ Head(stdout).script = e)
      BY <2>1, <3>1, TakeLine
    <3>3. \A e : Head(stdout).kind # "log" /\ Head(stdout).script = e => Holding(e)'
      BY <1>13, <2>1, <2>3 DEF ReaderScan, Holding
    <3>4. \A e : ~Holding(e)
      BY <2>1 DEF Holding
    <3>5. QED
      BY <2>1, <3>2, <3>3, <3>4 DEF OnItsWay
  <2>4. QED
    BY <2>2, <2>3
<1>14. CASE ReaderTake
  <2>1. UNCHANGED <<pc, running, ran, stdin, stdout, chan, node>> /\ reader = "take"
    BY <1>14 DEF ReaderTake, nodeVars
  <2>2. \A e : Replied(e)' <=> Replied(e)
    BY <2>1 DEF Replied
  <2>3. ASSUME NEW e \in Calls, pc[e] \in {"writing", "waiting"}, Holding(e) PROVE Holding(e)' \/ chan[e] # <<>>
    <3>1. held = e
      BY <2>3 DEF Holding
    <3>2. CASE id[held] \in DOMAIN inflight
      BY <1>14, <3>1, <3>2 DEF ReaderTake, Holding
    <3>3. CASE id[held] \notin DOMAIN inflight
      BY <2>1, <2>3, <3>1, <3>3 DEF Expected
    <3>4. QED
      BY <3>2, <3>3
  <2>4. QED
    BY <2>1, <2>2, <2>3 DEF OnItsWay
<1>15. CASE ReaderSend
  <2>1. /\ UNCHANGED <<pc, running, ran, stdin, stdout, node>> /\ reader = "send"
        /\ chan' = [chan EXCEPT ![dest] = Append(chan[dest], held)]
    BY <1>15 DEF ReaderSend, nodeVars
  <2>2. \A e : Replied(e)' <=> Replied(e)
    BY <2>1 DEF Replied
  <2>3. dest \in Calls /\ dest = held
    BY <2>1 DEF TypeOK, RepliesRan
  <2>4. \A e \in Calls : chan[e] # <<>> \/ Holding(e) => chan'[e] # <<>>
    <3>1. chan'[held] # <<>>
      <4>1. chan[held] \in Seq(Calls) /\ held \in Calls
        BY <2>3 DEF TypeOK
      <4>2. Append(chan[held], held) # <<>>
        BY <4>1, AppendNotEmpty
      <4>3. QED
        BY <2>1, <2>3, <4>2 DEF TypeOK
    <3>2. \A e \in Calls : e # held => chan'[e] = chan[e]
      BY <2>1, <2>3 DEF TypeOK
    <3>3. QED
      BY <3>1, <3>2 DEF Holding
  <2>5. QED
    BY <2>1, <2>2, <2>4 DEF OnItsWay
<1>16. CASE ReaderEnd
  BY <1>16 DEF ReaderEnd, OnItsWay
<1>17. CASE NodeRead
  <2>1. /\ stdin # <<>> /\ stdin' = Tail(stdin) /\ running' = running \cup {Head(stdin)}
        /\ ran' = ran \cup {Head(stdin)}
        /\ UNCHANGED <<pc, chan, reader, held>> /\ stdout' \in {stdout, Append(stdout, LogLine)}
        /\ node # "exited"
    BY <1>17 DEF NodeRead, readVars, goVars
  <2>2. \A e : Replied(e) => Replied(e)'
    <3>1. LogLine \in Replies \cup {LogLine}
      OBVIOUS
    <3>2. QED
      BY <2>1, <3>1, AddLine DEF Replied
  <2>3. ASSUME NEW e \in Calls, \E i \in 1 .. Len(stdin) : stdin[i] = e
        PROVE  e = Head(stdin) \/ \E i \in 1 .. Len(stdin') : stdin'[i] = e
    <3>1. PICK i \in 1 .. Len(stdin) : stdin[i] = e
      BY <2>3
    <3>2. /\ Len(stdin) \in Nat \ {0} /\ Head(stdin) = stdin[1] /\ Len(stdin') = Len(stdin) - 1
          /\ \A j \in 1 .. Len(stdin') : stdin'[j] = stdin[j + 1]
      BY <2>1, StdinTail
    <3>3. CASE i # 1
      <4>1. i - 1 \in 1 .. Len(stdin') /\ (i - 1) + 1 = i
        BY <3>1, <3>2, <3>3
      <4>2. QED
        BY <3>1, <3>2, <4>1
    <3>4. QED
      BY <3>1, <3>2, <3>3
  <2>4. QED
    BY <2>1, <2>2, <2>3 DEF OnItsWay, Holding
<1>18. CASE NodeWritten
  <2>1. UNCHANGED <<pc, chan, reader, held, stdin, stdout, running, ran>> /\ node # "exited"
    BY <1>18 DEF NodeWritten, readVars, goVars
  <2>2. QED
    BY <2>1 DEF OnItsWay, Holding, Replied
<1>19. CASE NodeCrash
  BY <1>19 DEF NodeCrash, OnItsWay
<1>20. CASE NodeEnd
  BY <1>20 DEF NodeEnd, OnItsWay
<1>21. CASE Close
  BY <1>21 DEF Close, OnItsWay, Replied, Holding, Goto, Delete, vars, goVars, readVars, nodeVars
<1>22. CASE CloseReturn
  BY <1>22 DEF CloseReturn, OnItsWay, Replied, Holding, Goto, Delete, vars, goVars, readVars, nodeVars
<1>23. CASE Finished
  BY <1>23 DEF Finished, OnItsWay, Replied, Holding, Goto, Delete, vars, goVars, readVars, nodeVars
<1>24. CASE UNCHANGED vars
  BY <1>24 DEF OnItsWay, Replied, Holding, Goto, Delete, vars, goVars, readVars, nodeVars
<1>. QED
  BY <1>1, <1>2, <1>3, <1>4, <1>5, <1>6, <1>7, <1>8, <1>9, <1>10, <1>11, <1>12, <1>13, <1>14, <1>15, <1>16, <1>17, <1>18, <1>19, <1>20, <1>21, <1>22, <1>23, <1>24 DEF Next, CallStep, ReaderStep
LEMMA WriterKnownStep ==
  ASSUME TypeOK, WriterKnown, [Next]_vars
  PROVE  WriterKnown'
<1>1. ASSUME NEW c \in Calls, TakeId(c) PROVE WriterKnown'
  BY <1>1 DEF TakeId, WriterKnown, Goto, Delete, vars, goVars, readVars, nodeVars
<1>2. ASSUME NEW c \in Calls, Register(c) PROVE WriterKnown'
  BY <1>2 DEF Register, WriterKnown, Goto, Delete, vars, goVars, readVars, nodeVars
<1>3. ASSUME NEW c \in Calls, BeginWrite(c) PROVE WriterKnown'
  BY <1>3 DEF BeginWrite, WriterKnown, Goto, Delete, vars, goVars, readVars, nodeVars
<1>4. ASSUME NEW c \in Calls, EndWrite(c) PROVE WriterKnown'
  BY <1>4 DEF EndWrite, WriterKnown, Goto, Delete, vars, goVars, readVars, nodeVars
<1>5. ASSUME NEW c \in Calls, FailWrite(c) PROVE WriterKnown'
  BY <1>5 DEF FailWrite, WriterKnown, Goto, Delete, vars, goVars, readVars, nodeVars
<1>6. ASSUME NEW c \in Calls, SelectTimeout(c) PROVE WriterKnown'
  BY <1>6 DEF SelectTimeout, WriterKnown, Goto, Delete, vars, goVars, readVars, nodeVars
<1>7. ASSUME NEW c \in Calls, SelectExited(c) PROVE WriterKnown'
  BY <1>7 DEF SelectExited, WriterKnown, Goto, Delete, vars, goVars, readVars, nodeVars
<1>8. ASSUME NEW c \in Calls, SelectAnswer(c) PROVE WriterKnown'
  BY <1>8 DEF SelectAnswer, WriterKnown, Goto, Delete, vars, goVars, readVars, nodeVars
<1>9. ASSUME NEW c \in Calls, RemoveInflight(c) PROVE WriterKnown'
  BY <1>9 DEF RemoveInflight, WriterKnown, Goto, Delete, vars, goVars, readVars, nodeVars
<1>10. ASSUME NEW c \in Calls, Expire(c) PROVE WriterKnown'
  BY <1>10 DEF Expire, WriterKnown, Goto, Delete, vars, goVars, readVars, nodeVars
<1>11. ASSUME NEW c \in Calls, NodeReply(c) PROVE WriterKnown'
  <2>1. PICK k \in {"reply", "huge"} : stdout' = Append(stdout, [script |-> c, kind |-> k])
    BY <1>11 DEF NodeReply
  <2>2. PICK m \in Replies : m = [script |-> c, kind |-> k]
    BY DEF Replies
  <2>3. m.kind # "log" /\ stdout' = Append(stdout, m)
    BY <2>1, <2>2
  <2>4. stdout'[Len(stdout')].kind # "log"
    BY <2>3, AddLine
  <2>5. QED
    BY <2>4 DEF WriterKnown
<1>12. ASSUME NEW c \in Calls, NodeHang(c) PROVE WriterKnown'
  BY <1>12 DEF NodeHang, WriterKnown
<1>13. CASE ReaderScan
  <2>1. stdout # <<>> /\ UNCHANGED <<running, node>> /\ stdout' \in {stdout, Tail(stdout)}
    BY <1>13 DEF ReaderScan, nodeVars
  <2>2. /\ Len(stdout) \in Nat \ {0} /\ Len(Tail(stdout)) = Len(stdout) - 1
        /\ \A i \in 1 .. Len(Tail(stdout)) : Tail(stdout)[i] = stdout[i + 1]
    BY <2>1, StdoutTail
  <2>3. CASE stdout' = stdout
    BY <2>1, <2>3 DEF WriterKnown
  <2>4. CASE stdout' = Tail(stdout) /\ stdout' # <<>>
    <3>1. Tail(stdout) \in Seq(Replies \cup {LogLine}) /\ Tail(stdout) # <<>>
      BY <2>1, <2>4, StdoutTail
    <3>2. Len(Tail(stdout)) # 0
      BY <3>1, EmptySeq
    <3>3. Len(stdout') \in 1 .. Len(Tail(stdout)) /\ Len(stdout') + 1 = Len(stdout)
      BY <2>2, <2>4, <3>2
    <3>4. stdout'[Len(stdout')] = stdout[Len(stdout)]
      BY <2>2, <2>4, <3>3
    <3>5. QED
      BY <2>1, <3>4 DEF WriterKnown
  <2>5. QED
    BY <2>1, <2>3, <2>4 DEF WriterKnown
<1>14. CASE ReaderTake
  BY <1>14 DEF ReaderTake, WriterKnown, Goto, Delete, vars, goVars, readVars, nodeVars
<1>15. CASE ReaderSend
  BY <1>15 DEF ReaderSend, WriterKnown, Goto, Delete, vars, goVars, readVars, nodeVars
<1>16. CASE ReaderEnd
  BY <1>16 DEF ReaderEnd, WriterKnown, Goto, Delete, vars, goVars, readVars, nodeVars
<1>17. CASE NodeRead
  <2>1. running' # {}
    BY <1>17 DEF NodeRead
  <2>2. QED
    BY <2>1 DEF WriterKnown
<1>18. CASE NodeWritten
  BY <1>18 DEF NodeWritten, WriterKnown
<1>19. CASE NodeCrash
  BY <1>19 DEF NodeCrash, WriterKnown
<1>20. CASE NodeEnd
  BY <1>20 DEF NodeEnd, WriterKnown
<1>21. CASE Close
  BY <1>21 DEF Close, WriterKnown, Goto, Delete, vars, goVars, readVars, nodeVars
<1>22. CASE CloseReturn
  BY <1>22 DEF CloseReturn, WriterKnown, Goto, Delete, vars, goVars, readVars, nodeVars
<1>23. CASE Finished
  BY <1>23 DEF Finished, WriterKnown, Goto, Delete, vars, goVars, readVars, nodeVars
<1>24. CASE UNCHANGED vars
  BY <1>24 DEF WriterKnown, Goto, Delete, vars, goVars, readVars, nodeVars
<1>. QED
  BY <1>1, <1>2, <1>3, <1>4, <1>5, <1>6, <1>7, <1>8, <1>9, <1>10, <1>11, <1>12, <1>13, <1>14, <1>15, <1>16, <1>17, <1>18, <1>19, <1>20, <1>21, <1>22, <1>23, <1>24 DEF Next, CallStep, ReaderStep
LEMMA FlowStep == IInv /\ FlowInv /\ [Next]_vars => FlowInv'
  BY AnsweredOnceStep, FaultsOnlyStep, OnItsWayStep, WriterKnownStep DEF IInv, FlowInv

LEMMA FlowHolds == Spec => [](IInv /\ FlowInv)
  BY IInvInit, IInvStep, FlowInit, FlowStep, PTL DEF Spec

LEMMA NotEmpty ==
  ASSUME TypeOK, Len(stdin) > StdinCap
  PROVE  stdin # <<>>
  BY CapAssumption DEF TypeOK

\* With the mutex free only a script that never answers keeps a call waiting.
LEMMA StuckFree ==
  ASSUME IInv, FlowInv, Stuck, mu = Nobody
  PROVE  \/ node = "spinning" /\ "spin" \in Faults
         \/ "hang" \in Faults /\ \A c \in Pending : pc[c] = "waiting" /\ Hangs(c)
<1>1. \A c \in Calls : pc[c] # "writing"
  BY CallAssumption DEF IInv, LockHeld
<1>2. \A c \in Pending : pc[c] = "waiting" /\ chan[c] = <<>> /\ reader # "closed"
  BY <1>1 DEF Stuck, CallReady, Pending, IInv, TypeOK
<1>3. reader = "scan"
  <2>1. reader # "closed"
    BY <1>2 DEF Stuck
  <2>2. reader # "take"
    BY DEF Stuck, ReaderReady
  <2>3. reader # "send"
    BY DEF Stuck, ReaderReady, IInv, RepliesRan, ChanCap
  <2>4. QED
    BY <2>1, <2>2, <2>3 DEF IInv, TypeOK
<1>4. stdout = <<>> /\ node # "exited" /\ held = Nobody
  BY <1>3 DEF Stuck, ReaderReady, FlowInv, FaultsOnly
<1>5. node \in {"ready", "spinning"}
  <2>1. Len(stdout) <= StdoutCap
    BY <1>4, CapAssumption
  <2>2. QED
    BY <1>4, <2>1 DEF Stuck, NodeReady, IInv, TypeOK
<1>6. CASE node = "spinning"
  BY <1>6 DEF FlowInv, FaultsOnly
<1>7. CASE node = "ready"
  <2>1. stdin = <<>> /\ running = {}
    BY <1>7 DEF Stuck, NodeReady
  <2>2. \A c \in Calls : ~Replied(c) /\ ~Holding(c)
    BY <1>3, <1>4 DEF Replied, Holding
  <2>3. ASSUME NEW c \in Pending PROVE c \in ran /\ "hang" \in Faults /\ Hangs(c)
    <3>1. c \in Calls /\ pc[c] = "waiting" /\ chan[c] = <<>> /\ held # c
      BY <1>2, <1>4, <2>3, CallAssumption DEF Pending
    <3>2. ~(\E i \in 1 .. Len(stdin) : stdin[i] = c)
      BY <2>1
    <3>3. c \in ran /\ "hang" \in Faults
      BY <1>2, <1>4, <2>1, <2>2, <2>3, <3>1, <3>2 DEF FlowInv, OnItsWay
    <3>4. DOMAIN stdout = {}
      BY <1>4
    <3>5. QED
      BY <1>4, <2>1, <3>1, <3>3, <3>4 DEF Hangs
  <2>4. QED
    BY <1>2, <2>3 DEF Stuck
<1>. QED
  BY <1>5, <1>6, <1>7

\* With the mutex held the writer waits for Node and Node for readLoop.
LEMMA StuckHeld ==
  ASSUME IInv, FlowInv, Stuck, mu # Nobody
  PROVE  \/ PipesFull /\ reader \in {"take", "closed"}
         \/ node = "spinning" /\ "spin" \in Faults
<1>1. mu \in Calls /\ pc[mu] = "writing"
  BY DEF IInv, TypeOK, LockHeld
<1>2. Len(stdin) > StdinCap /\ node # "exited"
  <2>1. ~(Len(stdin) <= StdinCap) /\ node # "exited"
    BY <1>1 DEF Stuck, CallReady
  <2>2. Len(stdin) \in Nat
    BY LenProperties DEF IInv, TypeOK
  <2>3. QED
    BY <2>1, <2>2, CapAssumption
<1>3. node # "ready"
  BY <1>2, NotEmpty DEF Stuck, NodeReady, IInv
<1>4. CASE node = "spinning"
  BY <1>4 DEF FlowInv, FaultsOnly
<1>5. CASE node = "writing"
  <2>1. Len(stdout) > StdoutCap
    <3>1. ~(Len(stdout) <= StdoutCap)
      BY <1>5 DEF Stuck, NodeReady
    <3>2. Len(stdout) \in Nat
      BY LenProperties DEF IInv, TypeOK
    <3>3. QED
      BY <3>1, <3>2, CapAssumption
  <2>2. stdout # <<>>
    BY <2>1, CapAssumption
  <2>3. reader # "scan"
    BY <2>2 DEF Stuck, ReaderReady
  <2>4. reader # "send"
    BY DEF Stuck, ReaderReady, IInv, RepliesRan, ChanCap
  <2>5. QED
    BY <1>1, <1>2, <1>5, <2>1, <2>3, <2>4 DEF PipesFull, IInv, TypeOK
<1>. QED
  BY <1>2, <1>3, <1>4, <1>5 DEF IInv, TypeOK

(* Whenever a call has not returned and neither a call, readLoop nor Node  *)
(* can go on, there is one of four reasons and no fifth: a script hangs or *)
(* spins; Execute holds r.mu in a write that Node does not read because it *)
(* writes to readLoop, which waits for r.mu; or readLoop has given up on a *)
(* line that is too long and nobody reads what Node writes.                *)
WhyStuck ==
  Stuck =>
    \/ "hang" \in Faults /\ \A c \in Pending : pc[c] = "waiting" /\ Hangs(c)
    \/ "spin" \in Faults /\ node = "spinning"
    \/ PipesFull /\ reader = "take"
    \/ PipesFull /\ reader = "closed" /\ "huge" \in Faults
THEOREM WhyStuckHolds == Spec => []WhyStuck
<1>1. ASSUME IInv, FlowInv, Stuck PROVE WhyStuck
  <2>1. CASE mu = Nobody
    BY <1>1, <2>1, StuckFree DEF WhyStuck
  <2>2. PipesFull /\ reader = "closed" => "huge" \in Faults
    BY <1>1 DEF PipesFull, FlowInv, FaultsOnly
  <2>3. CASE mu # Nobody
    BY <1>1, <2>2, <2>3, StuckHeld DEF WhyStuck
  <2>4. QED
    BY <2>1, <2>3
<1>2. IInv /\ FlowInv => WhyStuck
  BY <1>1 DEF WhyStuck
<1>3. QED
  BY <1>2, FlowHolds, PTL

-----------------------------------------------------------------------------
(* How many calls it takes for the pipes to block each other.              *)

\* The lines of stdin, the reply in readLoop's hand and the script whose line
\* Node writes belong to calls of their own.
LEMMA CycleCalls ==
  ASSUME IInv, FlowInv, PipesFull, reader = "take", IsFiniteSet(Calls)
  PROVE  Cardinality(Calls) >= StdinCap + 3
<1>1. PICK n \in Nat : n = StdinCap
  BY CapAssumption
<1>2. Len(stdin) \in Nat /\ Len(stdin) > n /\ stdin \in Seq(Calls)
  BY <1>1, LenProperties DEF PipesFull, IInv, TypeOK
<1>3. held \in Calls /\ held \in ran /\ Holding(held)
  BY DEF IInv, TypeOK, RepliesRan, Holding
<1>4. PICK x \in Calls : x \in ran /\ x # held
  <2>1. stdout # <<>> /\ Len(stdout) \in Nat /\ Len(stdout) # 0 /\ stdout \in Seq(Replies \cup {LogLine})
    BY CapAssumption, LenProperties DEF PipesFull, IInv, TypeOK
  <2>2. stdout[Len(stdout)].kind # "log" \/ running # {}
    BY <2>1 DEF PipesFull, FlowInv, WriterKnown
  <2>3. CASE running # {}
    <3>1. PICK y \in running : TRUE
      BY <2>3
    <3>2. y \in Calls /\ y \in ran /\ ~Holding(y)
      BY <3>1 DEF IInv, TypeOK, RepliesRan, FlowInv, AnsweredOnce
    <3>3. QED
      BY <1>3, <3>2
  <2>4. CASE stdout[Len(stdout)].kind # "log"
    <3>1. PICK k \in 1 .. Len(stdout) : k = Len(stdout)
      BY <2>1
    <3>2. stdout[k].kind # "log" /\ stdout[k].script \in ran
      BY <2>4, <3>1 DEF IInv, RepliesRan
    <3>3. Replied(stdout[k].script)
      BY <3>2 DEF Replied
    <3>4. stdout[k].script # held
      BY <1>3, <3>3 DEF FlowInv, AnsweredOnce
    <3>5. ran \subseteq Calls
      BY DEF IInv, TypeOK
    <3>6. QED
      BY <3>2, <3>4, <3>5
  <2>5. QED
    BY <2>2, <2>3, <2>4
<1>5. \A i \in 1 .. Len(stdin) : stdin[i] \in Calls /\ stdin[i] # held /\ stdin[i] # x
  BY <1>2, <1>3, <1>4, ElementOfSeq DEF IInv, LinesFresh
<1>6. \A i, j \in 1 .. Len(stdin) : stdin[i] = stdin[j] => i = j
  BY DEF IInv, LinesFresh
<1>7. PICK f \in [1 .. n + 3 -> Calls] :
         \A i \in 1 .. n + 3 : f[i] = IF i <= n + 1 THEN stdin[i] ELSE IF i = n + 2 THEN held ELSE x
  <2>1. \A i \in 1 .. n + 3 : (IF i <= n + 1 THEN stdin[i] ELSE IF i = n + 2 THEN held ELSE x) \in Calls
    BY <1>1, <1>2, <1>3, <1>4, <1>5
  <2>2. [i \in 1 .. n + 3 |-> IF i <= n + 1 THEN stdin[i] ELSE IF i = n + 2 THEN held ELSE x]
          \in [1 .. n + 3 -> Calls]
    BY <2>1
  <2>3. QED
    BY <2>2
<1>8. ASSUME NEW i \in 1 .. n + 3, NEW j \in 1 .. n + 3, f[i] = f[j] PROVE i = j
  <2>1. \A k \in 1 .. n + 3 : k <= n + 1 => k \in 1 .. Len(stdin)
    BY <1>2
  <2>2. \A k \in 1 .. n + 3 : ~(k <= n + 1) => k = n + 2 \/ k = n + 3
    OBVIOUS
  <2>3. CASE i <= n + 1 /\ j <= n + 1
    BY <1>6, <1>7, <1>8, <2>1, <2>3
  <2>4. CASE i <= n + 1 /\ ~(j <= n + 1)
    BY <1>5, <1>7, <1>8, <2>1, <2>4
  <2>5. CASE ~(i <= n + 1) /\ j <= n + 1
    BY <1>5, <1>7, <1>8, <2>1, <2>5
  <2>6. CASE ~(i <= n + 1) /\ ~(j <= n + 1)
    BY <1>4, <1>7, <1>8, <2>2, <2>6
  <2>7. QED
    BY <2>3, <2>4, <2>5, <2>6
<1>9. f \in Injection(1 .. n + 3, Calls)
  BY <1>8, Fun_IsInj
<1>10. Cardinality(1 .. n + 3) <= Cardinality(Calls)
  BY <1>9, FS_Injection
<1>11. Cardinality(1 .. n + 3) = n + 3
  <2>1. n + 3 \in Int /\ ~(1 > n + 3)
    OBVIOUS
  <2>2. QED
    BY <2>1, FS_Interval
<1>12. Cardinality(Calls) \in Nat
  BY FS_CardinalityType
<1>. QED
  BY <1>1, <1>10, <1>11, <1>12

\* Without log lines every line of stdout is an answer as well.
LEMMA QuietCycleCalls ==
  ASSUME IInv, FlowInv, PipesFull, reader = "take", IsFiniteSet(Calls), "log" \notin Faults
  PROVE  Cardinality(Calls) >= StdinCap + StdoutCap + 3
<1>1. PICK n \in Nat : n = StdinCap
  BY CapAssumption
<1>2. PICK m \in Nat : m = StdoutCap
  BY CapAssumption
<1>3. Len(stdin) \in Nat /\ Len(stdin) > n /\ Len(stdout) \in Nat /\ Len(stdout) > m
  BY <1>1, <1>2, LenProperties DEF PipesFull, IInv, TypeOK
<1>4. held \in Calls /\ held \in ran /\ Holding(held)
  BY DEF IInv, TypeOK, RepliesRan, Holding
<1>5. ran \subseteq Calls
  BY DEF IInv, TypeOK
<1>6. \A i \in 1 .. Len(stdin) : stdin[i] \in Calls /\ stdin[i] \notin ran
  BY ElementOfSeq DEF IInv, LinesFresh, TypeOK
<1>7. \A i, j \in 1 .. Len(stdin) : stdin[i] = stdin[j] => i = j
  BY DEF IInv, LinesFresh
<1>8. \A i \in 1 .. Len(stdout) : stdout[i].kind # "log"
  BY DEF FlowInv, FaultsOnly
<1>9. \A i \in 1 .. Len(stdout) : stdout[i].script \in ran /\ stdout[i].script # held
  <2>1. ASSUME NEW i \in 1 .. Len(stdout) PROVE stdout[i].script \in ran /\ stdout[i].script # held
    <3>1. Replied(stdout[i].script)
      BY <1>8 DEF Replied
    <3>2. QED
      BY <1>4, <1>8, <3>1 DEF FlowInv, AnsweredOnce, IInv, RepliesRan
  <2>2. QED
    BY <2>1
<1>10. \A i, j \in 1 .. Len(stdout) : stdout[i].script = stdout[j].script => i = j
  BY <1>8 DEF FlowInv, AnsweredOnce
<1> DEFINE N == n + m + 3
           Who(i) == IF i <= n + 1 THEN stdin[i]
                     ELSE IF i <= n + m + 2 THEN stdout[i - (n + 1)].script ELSE held
<1>11. /\ \A i \in 1 .. N : i <= n + 1 => i \in 1 .. Len(stdin)
       /\ \A i \in 1 .. N : ~(i <= n + 1) /\ i <= n + m + 2 => i - (n + 1) \in 1 .. Len(stdout)
       /\ \A i \in 1 .. N : ~(i <= n + m + 2) => i = N
       /\ \A i \in 1 .. N : i <= n + 1 => i <= n + m + 2
  BY <1>3
<1>12. PICK f \in [1 .. N -> Calls] : \A i \in 1 .. N : f[i] = Who(i)
  <2>1. \A i \in 1 .. N : Who(i) \in Calls
    BY <1>4, <1>5, <1>6, <1>9, <1>11
  <2>2. [i \in 1 .. N |-> Who(i)] \in [1 .. N -> Calls]
    BY <2>1
  <2>3. QED
    BY <2>2
<1>13. ASSUME NEW i \in 1 .. N, NEW j \in 1 .. N, f[i] = f[j], i <= n + 1 PROVE i = j
  <2>1. f[i] = stdin[i] /\ i \in 1 .. Len(stdin)
    BY <1>11, <1>12, <1>13
  <2>2. CASE j <= n + 1
    BY <1>7, <1>11, <1>12, <1>13, <2>1, <2>2
  <2>3. CASE ~(j <= n + 1)
    <3>1. f[j] \in ran
      BY <1>4, <1>9, <1>11, <1>12, <2>3
    <3>2. QED
      BY <1>6, <1>13, <2>1, <3>1
  <2>4. QED
    BY <2>2, <2>3
<1>14. ASSUME NEW i \in 1 .. N, NEW j \in 1 .. N, f[i] = f[j], ~(i <= n + 1), ~(j <= n + 1) PROVE i = j
  <2>1. CASE i <= n + m + 2 /\ j <= n + m + 2
    <3>1. f[i] = stdout[i - (n + 1)].script /\ f[j] = stdout[j - (n + 1)].script
      BY <1>12, <1>14, <2>1
    <3>2. i - (n + 1) = j - (n + 1)
      BY <1>10, <1>11, <1>14, <2>1, <3>1
    <3>3. QED
      BY <3>2
  <2>2. CASE i <= n + m + 2 /\ ~(j <= n + m + 2)
    BY <1>9, <1>11, <1>12, <1>14, <2>2
  <2>3. CASE ~(i <= n + m + 2) /\ j <= n + m + 2
    BY <1>9, <1>11, <1>12, <1>14, <2>3
  <2>4. CASE ~(i <= n + m + 2) /\ ~(j <= n + m + 2)
    BY <1>11, <2>4
  <2>5. QED
    BY <2>1, <2>2, <2>3, <2>4
<1>15. \A i, j \in 1 .. N : f[i] = f[j] => i = j
  BY <1>13, <1>14
<1>16. f \in Injection(1 .. N, Calls)
  BY <1>15, Fun_IsInj
<1>17. Cardinality(1 .. N) <= Cardinality(Calls)
  BY <1>16, FS_Injection
<1>18. Cardinality(1 .. N) = N
  <2>1. N \in Int /\ ~(1 > N)
    OBVIOUS
  <2>2. N - 1 + 1 = N
    OBVIOUS
  <2>3. QED
    BY <2>1, <2>2, FS_Interval
<1>19. Cardinality(Calls) \in Nat
  BY FS_CardinalityType
<1>. QED
  BY <1>1, <1>2, <1>17, <1>18, <1>19

(* The cycle of r.mu and the two pipes takes three calls more than stdin   *)
(* holds, whatever scripts do; if they do not log, also as many more as    *)
(* stdout holds.  The run sandbox_pipe_deadlock has exactly that many.     *)
CycleTakesCalls ==
  PipesFull /\ reader = "take" =>
    /\ Cardinality(Calls) >= StdinCap + 3
    /\ "log" \in Faults \/ Cardinality(Calls) >= StdinCap + StdoutCap + 3
THEOREM CycleTakesCallsHolds == IsFiniteSet(Calls) /\ Spec => []CycleTakesCalls
<1>1. IsFiniteSet(Calls) /\ IInv /\ FlowInv => CycleTakesCalls
  BY CycleCalls, QuietCycleCalls DEF CycleTakesCalls
<1>2. ASSUME IsFiniteSet(Calls) PROVE Spec => []CycleTakesCalls
  <2>1. IInv /\ FlowInv => CycleTakesCalls
    BY <1>1, <1>2
  <2>2. QED
    BY <2>1, FlowHolds, PTL
<1>3. QED
  BY <1>2

(* Scripts that answer or throw, and do no more than log, never leave the  *)
(* host stuck while there are fewer calls than the cycle takes.            *)
NeverStuck == ~Stuck
THEOREM NeverStuckHolds ==
  ASSUME IsFiniteSet(Calls), Faults \subseteq {"log", "crash"}, Cardinality(Calls) < StdinCap + 3
  PROVE  Spec => []NeverStuck
<1>1. Cardinality(Calls) \in Nat
  BY FS_CardinalityType
<1>2. IInv /\ FlowInv => CycleTakesCalls
  BY CycleCalls, QuietCycleCalls DEF CycleTakesCalls
<1>3. WhyStuck /\ CycleTakesCalls => NeverStuck
  BY <1>1, CapAssumption DEF WhyStuck, CycleTakesCalls, NeverStuck
<1>4. QED
  BY <1>2, <1>3, WhyStuckHolds, FlowHolds, PTL

(* The cycle of r.mu and the two pipes is final: no timeout, answer, new   *)
(* call or Close ends it, and from then on no call of Execute returns but  *)
(* those whose answer is already in their channel.                         *)
Cycle == PipesFull /\ reader = "take"
Unanswered == {c \in Calls : pc[c] # "done" /\ chan[c] = <<>>}
CycleIsFinal == [][Cycle => Cycle' /\ Unanswered \subseteq Unanswered']_vars
LEMMA CycleStays ==
  ASSUME IInv, Cycle, [Next]_vars
  PROVE  Cycle' /\ Unanswered \subseteq Unanswered'
<1>1. PICK w \in Calls : mu = w /\ pc[w] = "writing"
  BY DEF Cycle, PipesFull
<1>2. mu # Nobody /\ \A c \in Calls : pc[c] = "writing" => c = w
  BY <1>1, CallAssumption DEF IInv, LockHeld
<1>3. Len(stdin) > StdinCap /\ node = "writing" /\ Len(stdout) > StdoutCap /\ reader = "take"
  BY DEF Cycle, PipesFull
<1>4. ~(Len(stdin) <= StdinCap) /\ ~(Len(stdout) <= StdoutCap)
  <2>1. Len(stdin) \in Nat /\ Len(stdout) \in Nat
    BY LenProperties DEF IInv, TypeOK
  <2>2. QED
    BY <1>3, <2>1, CapAssumption
<1> DEFINE Same == /\ mu' = mu /\ pc'[w] = pc[w] /\ UNCHANGED <<stdin, stdout, node, reader>>
                   /\ Unanswered \subseteq Unanswered'
<1>5. pc \in [Calls -> {"idle", "register", "write", "writing", "waiting", "remove", "done"}] /\ chan \in [Calls -> Seq(Calls)]
  BY DEF IInv, TypeOK
<1>6. ASSUME Same PROVE Cycle' /\ Unanswered \subseteq Unanswered'
  BY <1>1, <1>3, <1>6 DEF Cycle, PipesFull
<1>7. ASSUME NEW c \in Calls, TakeId(c) \/ Expire(c) \/ SelectTimeout(c) PROVE Same
  BY <1>1, <1>5, <1>7 DEF TakeId, Expire, SelectTimeout, Goto, Unanswered, readVars, nodeVars
<1>8. ASSUME NEW c \in Calls, SelectAnswer(c) PROVE Same
  <2>1. pc[c] = "waiting" /\ chan[c] # <<>> /\ c # w /\ c \notin Unanswered
    BY <1>1, <1>8 DEF SelectAnswer, Goto, Unanswered
  <2>2. \A e \in Calls \ {c} : pc'[e] = pc[e] /\ chan'[e] = chan[e]
    BY <1>5, <1>8 DEF SelectAnswer, Goto
  <2>3. QED
    BY <1>1, <1>8, <2>1, <2>2 DEF SelectAnswer, Unanswered, readVars, nodeVars
<1>9. ASSUME NEW c \in Calls, Register(c) \/ BeginWrite(c) \/ RemoveInflight(c) PROVE FALSE
  BY <1>2, <1>9 DEF Register, BeginWrite, RemoveInflight
<1>10. ASSUME NEW c \in Calls, EndWrite(c) \/ FailWrite(c) \/ SelectExited(c) PROVE FALSE
  BY <1>3, <1>4, <1>10 DEF EndWrite, FailWrite, SelectExited
<1>11. ~ReaderStep
  BY <1>2, <1>3 DEF ReaderStep, ReaderScan, ReaderTake, ReaderSend, ReaderEnd
<1>12. ~NodeRead /\ ~NodeCrash /\ ~NodeEnd /\ ~NodeWritten /\ \A c \in Calls : ~NodeReply(c) /\ ~NodeHang(c)
  BY <1>3, <1>4 DEF NodeRead, NodeCrash, NodeEnd, NodeWritten, NodeReply, NodeHang
<1>13. ~Close /\ ~CloseReturn /\ ~Finished
  BY <1>1, <1>3 DEF Close, CloseReturn, Finished
<1>14. ASSUME UNCHANGED vars PROVE Same
  BY <1>14 DEF vars, goVars, readVars, nodeVars, Unanswered
<1>15. ASSUME NEW c \in Calls, TakeId(c) \/ CallStep(c) \/ Expire(c) PROVE Same
  BY <1>7, <1>8, <1>9, <1>10, <1>15 DEF CallStep
<1>. QED
  BY <1>6, <1>11, <1>12, <1>13, <1>14, <1>15 DEF Next
THEOREM CycleIsFinalHolds == Spec => CycleIsFinal
<1>1. IInv /\ [Next]_vars => [Cycle => Cycle' /\ Unanswered \subseteq Unanswered']_vars
  BY CycleStays
<1>2. QED
  BY <1>1, Invariance, PTL DEF Spec, CycleIsFinal
=============================================================================
