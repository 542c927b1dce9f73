--------------------------- MODULE RunPane_proofs ---------------------------
(***************************************************************************)
(* Theorems of RunStream for any number of connections, any plan and any   *)
(* buffer that leaves room for the start and the end of the plan.  IInv    *)
(* adds to the properties what the goroutine's phase says of the log, and  *)
(* that the channel is behind the log and ahead of what was taken from it. *)
(*                                                                         *)
(* Then of RunPane, for any run and any number of other connections.       *)
(* Every step of RunPane is a step of RunStream, so IInv holds; PaneInv    *)
(* adds where each event is between the log and the pane: the log, the     *)
(* channel, the wire and what is shown are one increasing sequence, cut at *)
(* three places.                                                           *)
(***************************************************************************)
EXTENDS RunPane, SequenceTheorems, TLAPS

Types == {"start", "request"} \cup Final

Progress ==
  /\ done <=> phase \in {"closing", "end"}
  /\ phase \in {"finishing", "closing", "end"} => Ended(events)
  /\ phase = "sending" => events # <<>>
  /\ summary => done /\ Last(events) = "done"
  /\ polled = "summary" => summary

Replays == \A s \in Subs : replayed[s] # <<>> => done /\ replayed[s] = events

\* Sorted channel, after what was taken, before what is still to be sent.
ChanOrder ==
  /\ \A i, j \in 1 .. Len(ch) : i < j => ch[i] < ch[j]
  /\ phase = "sending" => \A i \in 1 .. Len(ch) : ch[i] < Len(events)
GotOrder ==
  /\ \A s \in Subs : \A i, j \in 1 .. Len(got[s]) : i < j => got[s][i] < got[s][j]
  /\ \A s \in Subs : \A i \in 1 .. Len(got[s]) : \A j \in 1 .. Len(ch) : got[s][i] < ch[j]
  /\ phase = "sending" => \A s \in Subs : \A i \in 1 .. Len(got[s]) : got[s][i] < Len(events)

Apart ==
  /\ \A s, t \in Subs : s # t =>
       \A i \in 1 .. Len(got[s]), j \in 1 .. Len(got[t]) : got[s][i] # got[t][j]
  /\ \A s \in Subs : \A i \in 1 .. Len(got[s]) : got[s][i] \notin dropped
  /\ \A i \in 1 .. Len(ch) : ch[i] \notin dropped
  /\ phase = "sending" => Len(events) \notin dropped

Accounted ==
  \A n \in 1 .. Len(events) :
    \/ phase = "sending" /\ n = Len(events)
    \/ \E i \in 1 .. Len(ch) : ch[i] = n
    \/ n \in dropped
    \/ \E s \in Subs : \E i \in 1 .. Len(got[s]) : got[s][i] = n

Sent == IF phase = "sending" THEN Len(events) - 1 ELSE Len(events)
Room ==
  /\ Len(ch) <= Sent
  /\ dropped # {} => Len(events) > Planned + 2

IInv == TypeOK /\ Progress /\ Replays /\ ChanOrder /\ GotOrder /\ Apart /\ Accounted /\ Room

-----------------------------------------------------------------------------
(* The sequences as the steps change them. *)
LEMMA ChanTail ==
  ASSUME TypeOK, ch # <<>>
  PROVE  /\ Len(ch) \in Nat \ {0} /\ Head(ch) = ch[1] /\ ch[1] \in 1 .. Len(events)
         /\ Tail(ch) \in Seq(1 .. Len(events)) /\ Len(Tail(ch)) = Len(ch) - 1
         /\ \A i \in 1 .. Len(Tail(ch)) : Tail(ch)[i] = ch[i + 1]
  BY HeadTailProperties, EmptySeq DEF TypeOK

LEMMA ChanAppend ==
  ASSUME TypeOK, events # <<>>
  PROVE  /\ Len(events) \in 1 .. Len(events)
         /\ Append(ch, Len(events)) \in Seq(1 .. Len(events))
         /\ Len(Append(ch, Len(events))) = Len(ch) + 1 /\ Len(ch) \in Nat
         /\ \A i \in 1 .. Len(ch) : Append(ch, Len(events))[i] = ch[i]
         /\ Append(ch, Len(events))[Len(ch) + 1] = Len(events)
<1>1. Len(events) \in 1 .. Len(events)
  BY EmptySeq DEF TypeOK
<1>. QED
  BY <1>1, AppendProperties DEF TypeOK

LEMMA GotAppend ==
  ASSUME TypeOK, NEW s \in Subs, NEW n \in 1 .. Len(events)
  PROVE  /\ Append(got[s], n) \in Seq(1 .. Len(events))
         /\ Len(Append(got[s], n)) = Len(got[s]) + 1 /\ Len(got[s]) \in Nat
         /\ \A i \in 1 .. Len(got[s]) : Append(got[s], n)[i] = got[s][i]
         /\ Append(got[s], n)[Len(got[s]) + 1] = n
  BY AppendProperties DEF TypeOK

LEMMA LogAppend ==
  ASSUME TypeOK, NEW type \in {"start", "request", "error", "done"}
  PROVE  /\ Append(events, type) \in Seq(Types) /\ Append(events, type) # <<>>
         /\ Len(Append(events, type)) = Len(events) + 1 /\ Len(events) \in Nat
         /\ Append(events, type)[Len(events) + 1] = type
  BY AppendProperties DEF TypeOK, Types, Final

LEMMA LogLast ==
  ASSUME TypeOK, events # <<>>
  PROVE  Last(events) \in Types
  BY EmptySeq DEF TypeOK, Types, Last

LEMMA LongerLog ==
  ASSUME TypeOK
  PROVE  /\ \A q \in Seq(1 .. Len(events)) : q \in Seq(1 .. Len(events) + 1)
         /\ 1 .. Len(events) \subseteq 1 .. Len(events) + 1
<1>1. Len(events) \in Nat
  BY DEF TypeOK
<1>2. 1 .. Len(events) \subseteq 1 .. Len(events) + 1
  BY <1>1
<1>3. Seq(1 .. Len(events)) \subseteq Seq(1 .. Len(events) + 1)
  BY <1>2, SeqMonotonic
<1>. QED
  BY <1>2, <1>3

LEMMA SizeFact ==
  /\ BufSize \in Nat /\ BufSize >= Planned + 2
  BY SizeAssumption DEF BufSize

(* Types. *)
LEMMA TypeStep ==
  ASSUME TypeOK, Progress, [Next]_vars
  PROVE  TypeOK'
<1> USE DEF TypeOK, vars, runVars, subVars
<1>1. ASSUME NEW type \in {"start", "request", "error", "done"}, AppendEvent(type) PROVE TypeOK'
  <2>1. events' \in Seq({"start", "request"} \cup Final) /\ Len(events') = Len(events) + 1
    BY <1>1, LogAppend DEF AppendEvent, Types
  <2>2. ch \in Seq(1 .. Len(events')) /\ (\A t \in Subs : got[t] \in Seq(1 .. Len(events')))
    BY <2>1, LongerLog
  <2>3. dropped \subseteq 1 .. Len(events')
    BY <2>1, LongerLog
  <2>. QED
    BY <1>1, <2>1, <2>2, <2>3 DEF AppendEvent
<1>2. ASSUME SendEvent PROVE TypeOK'
  <2>1. events # <<>>
    BY <1>2 DEF SendEvent, Progress
  <2>2. Len(events) \in 1 .. Len(events) /\ Append(ch, Len(events)) \in Seq(1 .. Len(events))
        /\ Len(Append(ch, Len(events))) = Len(ch) + 1
    BY <2>1, ChanAppend
  <2>3. ch' = ch \/ (ch' = Append(ch, Len(events)) /\ Len(ch) < BufSize)
    BY <1>2 DEF SendEvent
  <2>4. Len(ch) \in Nat /\ BufSize \in Nat
    BY SizeFact
  <2>5. ch' \in Seq(1 .. Len(events)) /\ Len(ch') <= BufSize
    <3>1. CASE ch' = ch
      BY <3>1
    <3>2. CASE ch' = Append(ch, Len(events)) /\ Len(ch) < BufSize
      <4>1. Len(ch) + 1 <= BufSize
        BY <2>4, <3>2
      <4>. QED
        BY <2>2, <3>2, <4>1
    <3>. QED
      BY <2>3, <3>1, <3>2
  <2>. QED
    BY <1>2, <2>2, <2>5 DEF SendEvent
<1>3. ASSUME Finish PROVE TypeOK'
  BY <1>3 DEF Finish
<1>4. ASSUME CloseChannel PROVE TypeOK'
  BY <1>4 DEF CloseChannel
<1>5. ASSUME NEW s \in Subs, Connect(s) PROVE TypeOK'
  BY <1>5 DEF Connect
<1>6. ASSUME NEW s \in Subs, CheckDone(s) PROVE TypeOK'
  BY <1>6 DEF CheckDone
<1>7. ASSUME NEW s \in Subs, Receive(s) PROVE TypeOK'
  <2>1. ch' \in Seq(1 .. Len(events)) /\ Len(ch') <= BufSize
    BY <1>7, ChanTail, SizeFact DEF Receive
  <2>2. got' \in [Subs -> Seq(1 .. Len(events))]
    BY <1>7, ChanTail, GotAppend DEF Receive
  <2>. QED
    BY <1>7, <2>1, <2>2 DEF Receive
<1>8. ASSUME NEW s \in Subs, ChannelClosed(s) PROVE TypeOK'
  BY <1>8 DEF ChannelClosed
<1>9. ASSUME NEW s \in Subs, ClientLeaves(s) PROVE TypeOK'
  BY <1>9 DEF ClientLeaves
<1>10. ASSUME NEW s \in Subs, CtxDone(s) PROVE TypeOK'
  BY <1>10 DEF CtxDone
<1>11. ASSUME GetRun PROVE TypeOK'
  BY <1>11 DEF GetRun
<1>12. CASE UNCHANGED vars
  BY <1>12
<1>. QED
  BY <1>1, <1>2, <1>3, <1>4, <1>5, <1>6, <1>7, <1>8, <1>9, <1>10, <1>11, <1>12 DEF Next, RunStep, HandlerStep

(* What the phase says of the log and the flags. *)
LEMMA ProgressStep ==
  ASSUME TypeOK, Progress, [Next]_vars
  PROVE  Progress'
<1> USE DEF Progress, vars, runVars, subVars
<1>1. ASSUME NEW type \in {"start", "request", "error", "done"}, AppendEvent(type) PROVE Progress'
  BY <1>1, LogAppend DEF AppendEvent, TypeOK
<1>2. ASSUME SendEvent PROVE Progress'
  BY <1>2, LogLast DEF SendEvent, Ended
<1>3. ASSUME Finish PROVE Progress'
  BY <1>3 DEF Finish, Ended, Final
<1>4. ASSUME CloseChannel PROVE Progress'
  BY <1>4 DEF CloseChannel
<1>5. ASSUME NEW s \in Subs, Connect(s) PROVE Progress'
  BY <1>5 DEF Connect
<1>6. ASSUME NEW s \in Subs, CheckDone(s) PROVE Progress'
  BY <1>6 DEF CheckDone
<1>7. ASSUME NEW s \in Subs, Receive(s) PROVE Progress'
  BY <1>7 DEF Receive
<1>8. ASSUME NEW s \in Subs, ChannelClosed(s) PROVE Progress'
  BY <1>8 DEF ChannelClosed
<1>9. ASSUME NEW s \in Subs, ClientLeaves(s) PROVE Progress'
  BY <1>9 DEF ClientLeaves
<1>10. ASSUME NEW s \in Subs, CtxDone(s) PROVE Progress'
  BY <1>10 DEF CtxDone
<1>11. ASSUME GetRun PROVE Progress'
  BY <1>11 DEF GetRun, TypeOK
<1>12. CASE UNCHANGED vars
  BY <1>12
<1>. QED
  BY <1>1, <1>2, <1>3, <1>4, <1>5, <1>6, <1>7, <1>8, <1>9, <1>10, <1>11, <1>12 DEF Next, RunStep, HandlerStep

(* A replay is only sent of a log that no longer grows. *)
LEMMA ReplaysStep ==
  ASSUME TypeOK, Progress, Replays, [Next]_vars
  PROVE  Replays'
<1> USE DEF Replays, vars, runVars, subVars
<1>1. ASSUME NEW type \in {"start", "request", "error", "done"}, AppendEvent(type) PROVE Replays'
  BY <1>1 DEF AppendEvent, Progress
<1>2. ASSUME SendEvent PROVE Replays'
  BY <1>2 DEF SendEvent
<1>3. ASSUME Finish PROVE Replays'
  BY <1>3 DEF Finish
<1>4. ASSUME CloseChannel PROVE Replays'
  BY <1>4 DEF CloseChannel
<1>5. ASSUME NEW s \in Subs, Connect(s) PROVE Replays'
  BY <1>5 DEF Connect
<1>6. ASSUME NEW s \in Subs, CheckDone(s) PROVE Replays'
  BY <1>6 DEF CheckDone, TypeOK
<1>7. ASSUME NEW s \in Subs, Receive(s) PROVE Replays'
  BY <1>7 DEF Receive
<1>8. ASSUME NEW s \in Subs, ChannelClosed(s) PROVE Replays'
  BY <1>8 DEF ChannelClosed
<1>9. ASSUME NEW s \in Subs, ClientLeaves(s) PROVE Replays'
  BY <1>9 DEF ClientLeaves
<1>10. ASSUME NEW s \in Subs, CtxDone(s) PROVE Replays'
  BY <1>10 DEF CtxDone
<1>11. ASSUME GetRun PROVE Replays'
  BY <1>11 DEF GetRun
<1>12. CASE UNCHANGED vars
  BY <1>12
<1>. QED
  BY <1>1, <1>2, <1>3, <1>4, <1>5, <1>6, <1>7, <1>8, <1>9, <1>10, <1>11, <1>12 DEF Next, RunStep, HandlerStep

(* The channel is sorted. *)
LEMMA ChanOrderStep ==
  ASSUME TypeOK, Progress, ChanOrder, [Next]_vars
  PROVE  ChanOrder'
<1> USE DEF ChanOrder, vars, runVars, subVars
<1>1. ASSUME NEW type \in {"start", "request", "error", "done"}, AppendEvent(type) PROVE ChanOrder'
  <2>1. Len(events') = Len(events) + 1 /\ Len(events) \in Nat
    BY <1>1, LogAppend DEF AppendEvent
  <2>2. \A i \in 1 .. Len(ch) : ch[i] \in 1 .. Len(events)
    BY DEF TypeOK
  <2>. QED
    BY <1>1, <2>1, <2>2 DEF AppendEvent
<1>2. ASSUME SendEvent PROVE ChanOrder'
  <2>1. events # <<>>
    BY <1>2 DEF SendEvent, Progress
  <2>2. CASE ch' = ch
    BY <1>2, <2>2 DEF SendEvent
  <2>3. CASE ch' = Append(ch, Len(events))
    BY <1>2, <2>1, <2>3, ChanAppend DEF SendEvent
  <2>. QED
    BY <1>2, <2>2, <2>3 DEF SendEvent
<1>3. ASSUME Finish PROVE ChanOrder'
  BY <1>3 DEF Finish
<1>4. ASSUME CloseChannel PROVE ChanOrder'
  BY <1>4 DEF CloseChannel
<1>5. ASSUME NEW s \in Subs, Connect(s) PROVE ChanOrder'
  BY <1>5 DEF Connect
<1>6. ASSUME NEW s \in Subs, CheckDone(s) PROVE ChanOrder'
  BY <1>6 DEF CheckDone
<1>7. ASSUME NEW s \in Subs, Receive(s) PROVE ChanOrder'
  <2>0. Len(ch') = Len(ch) - 1 /\ Len(ch) \in Nat /\ \A i \in 1 .. Len(ch') : ch'[i] = ch[i + 1]
    BY <1>7, ChanTail DEF Receive
  <2>1. \A i \in 1 .. Len(ch') : i + 1 \in 1 .. Len(ch) /\ ch'[i] = ch[i + 1]
    BY <2>0
  <2>2. \A i \in 1 .. Len(ch') : i \in Nat
    OBVIOUS
  <2>3. \A i, j \in 1 .. Len(ch') : i < j => i + 1 < j + 1
    BY <2>2
  <2>4. \A i, j \in 1 .. Len(ch') : i < j => ch'[i] < ch'[j]
    BY <2>1, <2>3
  <2>. QED
    BY <1>7, <2>1, <2>4 DEF Receive
<1>8. ASSUME NEW s \in Subs, ChannelClosed(s) PROVE ChanOrder'
  BY <1>8 DEF ChannelClosed
<1>9. ASSUME NEW s \in Subs, ClientLeaves(s) PROVE ChanOrder'
  BY <1>9 DEF ClientLeaves
<1>10. ASSUME NEW s \in Subs, CtxDone(s) PROVE ChanOrder'
  BY <1>10 DEF CtxDone
<1>11. ASSUME GetRun PROVE ChanOrder'
  BY <1>11 DEF GetRun
<1>12. CASE UNCHANGED vars
  BY <1>12
<1>. QED
  BY <1>1, <1>2, <1>3, <1>4, <1>5, <1>6, <1>7, <1>8, <1>9, <1>10, <1>11, <1>12 DEF Next, RunStep, HandlerStep

(* What a connection took is sorted and older than the channel. *)
LEMMA GotOrderStep ==
  ASSUME TypeOK, Progress, ChanOrder, GotOrder, [Next]_vars
  PROVE  GotOrder'
<1> USE DEF GotOrder, vars, runVars, subVars
<1>1. ASSUME NEW type \in {"start", "request", "error", "done"}, AppendEvent(type) PROVE GotOrder'
  <2>1. Len(events') = Len(events) + 1 /\ Len(events) \in Nat
    BY <1>1, LogAppend DEF AppendEvent
  <2>2. \A s \in Subs : \A i \in 1 .. Len(got[s]) : got[s][i] \in 1 .. Len(events)
    BY DEF TypeOK
  <2>. QED
    BY <1>1, <2>1, <2>2 DEF AppendEvent
<1>2. ASSUME SendEvent PROVE GotOrder'
  <2>1. events # <<>>
    BY <1>2 DEF SendEvent, Progress
  <2>2. CASE ch' = ch
    BY <1>2, <2>2 DEF SendEvent
  <2>3. CASE ch' = Append(ch, Len(events))
    BY <1>2, <2>1, <2>3, ChanAppend DEF SendEvent
  <2>. QED
    BY <1>2, <2>2, <2>3 DEF SendEvent
<1>3. ASSUME Finish PROVE GotOrder'
  BY <1>3 DEF Finish
<1>4. ASSUME CloseChannel PROVE GotOrder'
  BY <1>4 DEF CloseChannel
<1>5. ASSUME NEW s \in Subs, Connect(s) PROVE GotOrder'
  BY <1>5 DEF Connect
<1>6. ASSUME NEW s \in Subs, CheckDone(s) PROVE GotOrder'
  BY <1>6 DEF CheckDone
<1>7. ASSUME NEW s \in Subs, Receive(s) PROVE GotOrder'
  <2>1. ch # <<>> /\ Len(ch) \in Nat \ {0} /\ Head(ch) = ch[1] /\ ch[1] \in 1 .. Len(events)
    BY <1>7, ChanTail DEF Receive
  <2>0. Len(ch') = Len(ch) - 1 /\ \A i \in 1 .. Len(ch') : ch'[i] = ch[i + 1]
    BY <1>7, ChanTail DEF Receive
  <2>2. \A j \in 1 .. Len(ch') : j + 1 \in 1 .. Len(ch) /\ 1 < j + 1 /\ ch'[j] = ch[j + 1]
    BY <2>0, <2>1
  <2>3. got'[s] = Append(got[s], ch[1]) /\ \A t \in Subs \ {s} : got'[t] = got[t]
    BY <1>7, <2>1 DEF Receive, TypeOK
  <2>4. /\ Len(got'[s]) = Len(got[s]) + 1 /\ Len(got[s]) \in Nat
        /\ \A i \in 1 .. Len(got[s]) : got'[s][i] = got[s][i]
        /\ got'[s][Len(got[s]) + 1] = ch[1]
    BY <2>1, <2>3, GotAppend
  <2>5. 1 \in 1 .. Len(ch)
    BY <2>1
  <2>6. \A j \in 1 .. Len(ch') : ch[1] < ch'[j]
    BY <2>2, <2>5 DEF ChanOrder
  <2>7. \A i \in 1 .. Len(got[s]) : got[s][i] < ch[1]
    BY <2>5
  <2>8. \A i \in 1 .. Len(got'[s]) : i \in 1 .. Len(got[s]) \/ i = Len(got[s]) + 1
    BY <2>4
  <2>9. \A i, j \in 1 .. Len(got'[s]) : i < j => got'[s][i] < got'[s][j]
    BY <2>4, <2>7, <2>8
  <2>10. \A i \in 1 .. Len(got'[s]) : \A j \in 1 .. Len(ch') : got'[s][i] < ch'[j]
    BY <2>2, <2>4, <2>6, <2>8
  <2>11. \A t \in Subs : \A i \in 1 .. Len(got'[t]) : \A j \in 1 .. Len(ch') : got'[t][i] < ch'[j]
    BY <2>2, <2>3, <2>10
  <2>12. phase = "sending" => ch[1] < Len(events)
    BY <2>5 DEF ChanOrder
  <2>. QED
    BY <1>7, <2>3, <2>4, <2>8, <2>9, <2>11, <2>12 DEF Receive
<1>8. ASSUME NEW s \in Subs, ChannelClosed(s) PROVE GotOrder'
  BY <1>8 DEF ChannelClosed
<1>9. ASSUME NEW s \in Subs, ClientLeaves(s) PROVE GotOrder'
  BY <1>9 DEF ClientLeaves
<1>10. ASSUME NEW s \in Subs, CtxDone(s) PROVE GotOrder'
  BY <1>10 DEF CtxDone
<1>11. ASSUME GetRun PROVE GotOrder'
  BY <1>11 DEF GetRun
<1>12. CASE UNCHANGED vars
  BY <1>12
<1>. QED
  BY <1>1, <1>2, <1>3, <1>4, <1>5, <1>6, <1>7, <1>8, <1>9, <1>10, <1>11, <1>12 DEF Next, RunStep, HandlerStep

(* Nothing is in two places. *)
LEMMA ApartStep ==
  ASSUME TypeOK, Progress, ChanOrder, GotOrder, Apart, [Next]_vars
  PROVE  Apart'
<1> USE DEF Apart, vars, runVars, subVars
<1>1. ASSUME NEW type \in {"start", "request", "error", "done"}, AppendEvent(type) PROVE Apart'
  <2>1. Len(events') = Len(events) + 1 /\ Len(events) \in Nat
    BY <1>1, LogAppend DEF AppendEvent
  <2>2. Len(events') \notin dropped
    BY <2>1 DEF TypeOK
  <2>. QED
    BY <1>1, <2>2 DEF AppendEvent
<1>2. ASSUME SendEvent PROVE Apart'
  <2>1. events # <<>> /\ phase = "sending" /\ Len(events) \in Nat
    BY <1>2 DEF SendEvent, Progress, TypeOK
  <2>2. CASE ch' = ch /\ dropped' = dropped \cup {Len(events)}
    <3>1. \A i \in 1 .. Len(ch) : ch[i] \in Nat /\ ch[i] # Len(events)
      BY <2>1 DEF ChanOrder, TypeOK
    <3>2. \A s \in Subs : \A i \in 1 .. Len(got[s]) : got[s][i] \in Nat /\ got[s][i] # Len(events)
      BY <2>1 DEF GotOrder, TypeOK
    <3>. QED
      BY <1>2, <2>2, <3>1, <3>2 DEF SendEvent
  <2>3. CASE ch' = Append(ch, Len(events)) /\ dropped' = dropped
    <3>1. \A i \in 1 .. Len(ch') : (i \in 1 .. Len(ch) /\ ch'[i] = ch[i]) \/ ch'[i] = Len(events)
      BY <2>1, <2>3, ChanAppend
    <3>. QED
      BY <1>2, <2>1, <2>3, <3>1 DEF SendEvent
  <2>. QED
    BY <1>2, <2>2, <2>3 DEF SendEvent
<1>3. ASSUME Finish PROVE Apart'
  BY <1>3 DEF Finish
<1>4. ASSUME CloseChannel PROVE Apart'
  BY <1>4 DEF CloseChannel
<1>5. ASSUME NEW s \in Subs, Connect(s) PROVE Apart'
  BY <1>5 DEF Connect
<1>6. ASSUME NEW s \in Subs, CheckDone(s) PROVE Apart'
  BY <1>6 DEF CheckDone
<1>7. ASSUME NEW s \in Subs, Receive(s) PROVE Apart'
  <2>1. ch # <<>> /\ Len(ch) \in Nat \ {0} /\ Head(ch) = ch[1] /\ ch[1] \in 1 .. Len(events)
    BY <1>7, ChanTail DEF Receive
  <2>0. Len(ch') = Len(ch) - 1 /\ \A i \in 1 .. Len(ch') : ch'[i] = ch[i + 1]
    BY <1>7, ChanTail DEF Receive
  <2>2. 1 \in 1 .. Len(ch) /\ \A j \in 1 .. Len(ch') : j + 1 \in 1 .. Len(ch) /\ ch'[j] = ch[j + 1]
    BY <2>0, <2>1
  <2>3. got'[s] = Append(got[s], ch[1]) /\ \A t \in Subs \ {s} : got'[t] = got[t]
    BY <1>7, <2>1 DEF Receive, TypeOK
  <2>4. \A i \in 1 .. Len(got'[s]) : (i \in 1 .. Len(got[s]) /\ got'[s][i] = got[s][i]) \/ got'[s][i] = ch[1]
    BY <2>1, <2>3, GotAppend
  <2>5. \A t \in Subs : \A i \in 1 .. Len(got[t]) : got[t][i] \in Nat /\ got[t][i] # ch[1]
    <3>1. TAKE t \in Subs
    <3>2. TAKE i \in 1 .. Len(got[t])
    <3>3. got[t][i] \in Nat
      BY <3>2 DEF TypeOK
    <3>4. got[t][i] < ch[1]
      BY <2>2, <3>2 DEF GotOrder
    <3>. QED
      BY <2>1, <3>3, <3>4
  <2>6. \A t \in Subs : t # s =>
          \A i \in 1 .. Len(got'[s]), j \in 1 .. Len(got'[t]) : got'[s][i] # got'[t][j]
    BY <2>3, <2>4, <2>5
  <2>7. \A t, u \in Subs : t # s /\ u # s /\ t # u =>
          \A i \in 1 .. Len(got'[t]), j \in 1 .. Len(got'[u]) : got'[t][i] # got'[u][j]
    BY <2>3
  <2>8. \A t \in Subs : \A i \in 1 .. Len(got'[t]) : got'[t][i] \notin dropped
    <3>1. TAKE t \in Subs
    <3>2. TAKE i \in 1 .. Len(got'[t])
    <3>3. CASE t = s
      BY <2>2, <2>4, <3>2, <3>3
    <3>4. CASE t # s
      BY <2>3, <3>2, <3>4
    <3>. QED
      BY <3>3, <3>4
  <2>9. \A i \in 1 .. Len(ch') : ch'[i] \notin dropped
    BY <2>2
  <2>10. \A t, u \in Subs : t # u =>
          \A i \in 1 .. Len(got'[t]), j \in 1 .. Len(got'[u]) : got'[t][i] # got'[u][j]
    BY <2>6, <2>7
  <2>. QED
    BY <1>7, <2>8, <2>9, <2>10 DEF Receive
<1>8. ASSUME NEW s \in Subs, ChannelClosed(s) PROVE Apart'
  BY <1>8 DEF ChannelClosed
<1>9. ASSUME NEW s \in Subs, ClientLeaves(s) PROVE Apart'
  BY <1>9 DEF ClientLeaves
<1>10. ASSUME NEW s \in Subs, CtxDone(s) PROVE Apart'
  BY <1>10 DEF CtxDone
<1>11. ASSUME GetRun PROVE Apart'
  BY <1>11 DEF GetRun
<1>12. CASE UNCHANGED vars
  BY <1>12
<1>. QED
  BY <1>1, <1>2, <1>3, <1>4, <1>5, <1>6, <1>7, <1>8, <1>9, <1>10, <1>11, <1>12 DEF Next, RunStep, HandlerStep

(* Nothing vanishes. *)
LEMMA AccountedStep ==
  ASSUME TypeOK, Progress, Accounted, [Next]_vars
  PROVE  Accounted'
<1> USE DEF Accounted, vars, runVars, subVars
<1>1. ASSUME NEW type \in {"start", "request", "error", "done"}, AppendEvent(type) PROVE Accounted'
  <2>1. Len(events') = Len(events) + 1 /\ Len(events) \in Nat /\ phase' = "sending"
    BY <1>1, LogAppend DEF AppendEvent
  <2>2. phase # "sending"
    BY <1>1 DEF AppendEvent
  <2>. QED
    BY <1>1, <2>1, <2>2 DEF AppendEvent
<1>2. ASSUME SendEvent PROVE Accounted'
  <2>1. events # <<>>
    BY <1>2 DEF SendEvent, Progress
  <2>2. CASE ch' = ch /\ dropped' = dropped \cup {Len(events)}
    BY <1>2, <2>2 DEF SendEvent
  <2>3. CASE ch' = Append(ch, Len(events)) /\ dropped' = dropped
    <3>1. \A i \in 1 .. Len(ch) : i \in 1 .. Len(ch') /\ ch'[i] = ch[i]
      BY <2>1, <2>3, ChanAppend
    <3>2. Len(ch) + 1 \in 1 .. Len(ch') /\ ch'[Len(ch) + 1] = Len(events)
      BY <2>1, <2>3, ChanAppend
    <3>. QED
      BY <1>2, <2>3, <3>1, <3>2 DEF SendEvent
  <2>. QED
    BY <1>2, <2>2, <2>3 DEF SendEvent
<1>3. ASSUME Finish PROVE Accounted'
  BY <1>3 DEF Finish
<1>4. ASSUME CloseChannel PROVE Accounted'
  BY <1>4 DEF CloseChannel
<1>5. ASSUME NEW s \in Subs, Connect(s) PROVE Accounted'
  BY <1>5 DEF Connect
<1>6. ASSUME NEW s \in Subs, CheckDone(s) PROVE Accounted'
  BY <1>6 DEF CheckDone
<1>7. ASSUME NEW s \in Subs, Receive(s) PROVE Accounted'
  <2>1. ch # <<>> /\ Len(ch) \in Nat \ {0} /\ Head(ch) = ch[1] /\ ch[1] \in 1 .. Len(events)
    BY <1>7, ChanTail DEF Receive
  <2>2. got'[s] = Append(got[s], ch[1]) /\ \A t \in Subs \ {s} : got'[t] = got[t]
    BY <1>7, <2>1 DEF Receive, TypeOK
  <2>3. Len(got[s]) + 1 \in 1 .. Len(got'[s]) /\ got'[s][Len(got[s]) + 1] = ch[1]
    BY <2>1, <2>2, GotAppend
  <2>4. \A i \in 1 .. Len(got[s]) : i \in 1 .. Len(got'[s]) /\ got'[s][i] = got[s][i]
    BY <2>1, <2>2, GotAppend
  <2>0. Len(ch') = Len(ch) - 1 /\ \A i \in 1 .. Len(ch') : ch'[i] = ch[i + 1]
    BY <1>7, ChanTail DEF Receive
  <2>5. \A i \in 1 .. Len(ch) : i = 1 \/ (i - 1 \in 1 .. Len(ch') /\ i - 1 + 1 = i)
    BY <2>0, <2>1
  <2>6. \A n \in 1 .. Len(events) : (\E i \in 1 .. Len(ch) : ch[i] = n) =>
          n = ch[1] \/ \E i \in 1 .. Len(ch') : ch'[i] = n
    <3>1. ASSUME NEW i \in 1 .. Len(ch), i # 1 PROVE \E k \in 1 .. Len(ch') : ch'[k] = ch[i]
      <4>1. i - 1 \in 1 .. Len(ch') /\ i - 1 + 1 = i
        BY <2>5, <3>1
      <4>2. ch'[i - 1] = ch[i - 1 + 1]
        BY <2>0, <4>1
      <4>. QED
        BY <4>1, <4>2
    <3>. QED
      BY <3>1
  <2>7. \A n \in 1 .. Len(events) : (\E t \in Subs : \E i \in 1 .. Len(got[t]) : got[t][i] = n) =>
          \E t \in Subs : \E i \in 1 .. Len(got'[t]) : got'[t][i] = n
    <3>1. SUFFICES ASSUME NEW n \in 1 .. Len(events), NEW t \in Subs, NEW i \in 1 .. Len(got[t]), got[t][i] = n
                   PROVE  \E u \in Subs : \E j \in 1 .. Len(got'[u]) : got'[u][j] = n
      OBVIOUS
    <3>2. i \in 1 .. Len(got'[t]) /\ got'[t][i] = n
      BY <2>2, <2>4, <3>1
    <3>. QED
      BY <3>2
  <2>8. \E t \in Subs : \E i \in 1 .. Len(got'[t]) : got'[t][i] = ch[1]
    BY <2>3
  <2>. QED
    <3>1. UNCHANGED <<phase, events, dropped>>
      BY <1>7 DEF Receive
    <3>2. SUFFICES ASSUME NEW n \in 1 .. Len(events)
                   PROVE  \/ phase = "sending" /\ n = Len(events)
                          \/ \E i \in 1 .. Len(ch') : ch'[i] = n
                          \/ n \in dropped
                          \/ \E t \in Subs : \E i \in 1 .. Len(got'[t]) : got'[t][i] = n
      BY <3>1
    <3>3. CASE \E i \in 1 .. Len(ch) : ch[i] = n
      BY <2>6, <2>8, <3>3
    <3>4. CASE \E t \in Subs : \E i \in 1 .. Len(got[t]) : got[t][i] = n
      BY <2>7, <3>4
    <3>. QED
      BY <3>3, <3>4
<1>8. ASSUME NEW s \in Subs, ChannelClosed(s) PROVE Accounted'
  BY <1>8 DEF ChannelClosed
<1>9. ASSUME NEW s \in Subs, ClientLeaves(s) PROVE Accounted'
  BY <1>9 DEF ClientLeaves
<1>10. ASSUME NEW s \in Subs, CtxDone(s) PROVE Accounted'
  BY <1>10 DEF CtxDone
<1>11. ASSUME GetRun PROVE Accounted'
  BY <1>11 DEF GetRun
<1>12. CASE UNCHANGED vars
  BY <1>12
<1>. QED
  BY <1>1, <1>2, <1>3, <1>4, <1>5, <1>6, <1>7, <1>8, <1>9, <1>10, <1>11, <1>12 DEF Next, RunStep, HandlerStep

(* The channel is never longer than what was sent. *)
LEMMA RoomStep ==
  ASSUME TypeOK, Progress, Room, [Next]_vars
  PROVE  Room'
<1> USE DEF Room, vars, runVars, subVars
<1>1. ASSUME NEW type \in {"start", "request", "error", "done"}, AppendEvent(type) PROVE Room'
  <2>1. Len(events') = Len(events) + 1 /\ Len(events) \in Nat /\ Len(ch) \in Nat
    BY <1>1, LogAppend DEF AppendEvent, TypeOK
  <2>. QED
    BY <1>1, <2>1, SizeAssumption DEF AppendEvent, Sent
<1>2. ASSUME SendEvent PROVE Room'
  <2>1. events # <<>> /\ Len(events) \in Nat /\ Len(ch) \in Nat
    BY <1>2 DEF SendEvent, Progress, TypeOK
  <2>2. Len(ch) <= Len(events) - 1 /\ Sent' = Len(events)
    BY <1>2, <2>1 DEF SendEvent, Sent
  <2>3. CASE ch' = ch /\ Len(ch) >= BufSize
    BY <1>2, <2>1, <2>2, <2>3, SizeFact, SizeAssumption DEF SendEvent
  <2>4. CASE ch' = Append(ch, Len(events)) /\ dropped' = dropped
    BY <1>2, <2>1, <2>2, <2>4, ChanAppend DEF SendEvent
  <2>. QED
    BY <1>2, <2>3, <2>4 DEF SendEvent
<1>3. ASSUME Finish PROVE Room'
  BY <1>3 DEF Finish, Sent, TypeOK
<1>4. ASSUME CloseChannel PROVE Room'
  BY <1>4 DEF CloseChannel, Sent, TypeOK
<1>5. ASSUME NEW s \in Subs, Connect(s) PROVE Room'
  BY <1>5 DEF Connect, Sent
<1>6. ASSUME NEW s \in Subs, CheckDone(s) PROVE Room'
  BY <1>6 DEF CheckDone, Sent
<1>7. ASSUME NEW s \in Subs, Receive(s) PROVE Room'
  <2>1. Len(ch') = Len(ch) - 1 /\ Len(ch) \in Nat /\ Len(events) \in Nat
    BY <1>7, ChanTail DEF Receive, TypeOK
  <2>2. Sent' = Sent
    BY <1>7 DEF Receive, Sent
  <2>3. Len(ch') <= Sent'
    <3>1. Sent \in Int
      BY <2>1 DEF Sent
    <3>. QED
      BY <2>1, <2>2, <3>1
  <2>. QED
    BY <1>7, <2>3 DEF Receive
<1>8. ASSUME NEW s \in Subs, ChannelClosed(s) PROVE Room'
  BY <1>8 DEF ChannelClosed, Sent
<1>9. ASSUME NEW s \in Subs, ClientLeaves(s) PROVE Room'
  BY <1>9 DEF ClientLeaves, Sent
<1>10. ASSUME NEW s \in Subs, CtxDone(s) PROVE Room'
  BY <1>10 DEF CtxDone, Sent
<1>11. ASSUME GetRun PROVE Room'
  BY <1>11 DEF GetRun, Sent
<1>12. CASE UNCHANGED vars
  BY <1>12 DEF Sent
<1>. QED
  BY <1>1, <1>2, <1>3, <1>4, <1>5, <1>6, <1>7, <1>8, <1>9, <1>10, <1>11, <1>12 DEF Next, RunStep, HandlerStep

-----------------------------------------------------------------------------
LEMMA InitHolds == Init => IInv
<1>1. ASSUME Init PROVE TypeOK
  <2>1. <<>> \in Seq({"start", "request"} \cup Final) /\ <<>> \in Seq(1 .. 0) /\ Len(<<>>) = 0
    BY EmptySeq
  <2>2. events \in Seq({"start", "request"} \cup Final) /\ ch \in Seq(1 .. Len(events)) /\ Len(ch) <= BufSize
    BY <1>1, <2>1, SizeFact DEF Init
  <2>3. got \in [Subs -> Seq(1 .. Len(events))] /\ replayed \in [Subs -> Seq({"start", "request"} \cup Final)]
    BY <1>1, <2>1 DEF Init
  <2>4. dropped \subseteq 1 .. Len(events)
    BY <1>1 DEF Init
  <2>. QED
    BY <1>1, <2>2, <2>3, <2>4 DEF Init, TypeOK
<1>2. ASSUME Init PROVE Progress /\ Replays
  BY <1>2 DEF Init, Progress, Replays
<1>3. ASSUME Init PROVE ChanOrder /\ GotOrder /\ Apart /\ Accounted
  BY <1>3, EmptySeq DEF Init, ChanOrder, GotOrder, Apart, Accounted
<1>4. ASSUME Init PROVE Room
  BY <1>4, EmptySeq DEF Init, Room, Sent
<1>. QED
  BY <1>1, <1>2, <1>3, <1>4 DEF IInv

(* The strengthened invariant holds in every reachable state. *)
THEOREM Invariance == Spec => []IInv
<1>1. IInv /\ [Next]_vars => IInv'
  BY TypeStep, ProgressStep, ReplaysStep, ChanOrderStep, GotOrderStep, ApartStep, AccountedStep, RoomStep DEF IInv
<1>. QED
  BY InitHolds, <1>1, PTL DEF Spec

(* Every variable keeps its type. *)
THEOREM TypeCorrect == Spec => []TypeOK
<1>1. IInv => TypeOK
  BY DEF IInv
<1>. QED
  BY <1>1, Invariance, PTL

(* Every event of the log is waiting to be sent, in the channel, dropped,  *)
(* or taken by exactly one connection, however many follow the run.        *)
THEOREM EachEventOnceHolds == Spec => []EachEventOnce
<1>1. ASSUME IInv PROVE EachEventOnce
  <2>1. /\ DOMAIN ch = 1 .. Len(ch) /\ \A s \in Subs : DOMAIN got[s] = 1 .. Len(got[s])
        /\ Len(events) \in Nat /\ (\A i \in 1 .. Len(ch) : ch[i] \in Nat)
        /\ \A s \in Subs : \A i \in 1 .. Len(got[s]) : got[s][i] \in Nat
    BY <1>1 DEF IInv, TypeOK
  <2>2. \A i \in 1 .. Len(events) : i \in Unsent \cup Queued \cup dropped \cup UNION {Taken(s) : s \in Subs}
    BY <1>1, <2>1 DEF IInv, Accounted, Unsent, Queued, Taken
  <2>3. \A s, t \in Subs : s # t => Taken(s) \cap Taken(t) = {}
    BY <1>1, <2>1 DEF IInv, Apart, Taken
  <2>4. \A s \in Subs : Taken(s) \cap Unsent = {}
    BY <1>1, <2>1 DEF IInv, GotOrder, Taken, Unsent
  <2>5. \A s \in Subs : Taken(s) \cap Queued = {}
    BY <1>1, <2>1 DEF IInv, GotOrder, Taken, Queued
  <2>6. \A s \in Subs : Taken(s) \cap dropped = {}
    BY <1>1, <2>1 DEF IInv, Apart, Taken
  <2>. QED
    BY <2>2, <2>3, <2>4, <2>5, <2>6 DEF EachEventOnce
<1>. QED
  BY <1>1, Invariance, PTL

(* A connection sees the events in the order the run produced them.        *)
THEOREM InOrderHolds == Spec => []InOrder
<1>1. ASSUME IInv PROVE InOrder
  <2>1. \A s \in Subs : DOMAIN got[s] = 1 .. Len(got[s])
    BY <1>1 DEF IInv, TypeOK
  <2>. QED
    BY <1>1, <2>1 DEF IInv, GotOrder, InOrder
<1>. QED
  BY <1>1, Invariance, PTL

(* A replay is the whole run, to its final event.                          *)
THEOREM ReplayCompleteHolds == Spec => []ReplayComplete
<1>1. ASSUME IInv PROVE ReplayComplete
  BY <1>1 DEF IInv, Replays, Progress, ReplayComplete
<1>. QED
  BY <1>1, Invariance, PTL

(* Within its plan a run loses no event, even if nobody ever listens.      *)
THEOREM NoDropWithinPlanHolds == Spec => []NoDropWithinPlan
<1>1. ASSUME IInv PROVE NoDropWithinPlan
  BY <1>1, SizeAssumption DEF IInv, TypeOK, Room, NoDropWithinPlan
<1>. QED
  BY <1>1, Invariance, PTL

(* A summary is only answered for a run that ended well.                   *)
THEOREM SummaryIsFinalHolds == Spec => []SummaryIsFinal
<1>1. ASSUME IInv PROVE SummaryIsFinal
  BY <1>1 DEF IInv, Progress, SummaryIsFinal
<1>. QED
  BY <1>1, Invariance, PTL

(***************************************************************************)
(* RunPane.                                                                *)
(***************************************************************************)
Over == phase \in {"finishing", "closing", "end"}

(* One start, and one final event after which nothing is appended.         *)
LogShape ==
  /\ \A i \in 1 .. Len(events) : events[i] \in Final => i = Len(events) /\ phase # "ready"
  /\ \A i \in 1 .. Len(events) : events[i] = "start" <=> i = 1
  /\ closed <=> phase = "end"

PaneTyped ==
  /\ status \in {"none", "running", "done", "error"} /\ es \in {"none", "open", "closed"}
  /\ completed \in BOOLEAN /\ broken \in BOOLEAN
  /\ shown \in Seq(1 .. Len(events)) /\ wire \in Seq(1 .. Len(events))

(* How far the connection is, at the two ends of it.                       *)
Stages ==
  /\ es = "none" <=> status = "none"
  /\ es = "none" <=> conn[Pane] = "none"
  /\ es = "open" => status = "running"
  /\ es # "closed" => ~completed
  /\ conn[Pane] \in {"none", "asked"} => shown = <<>> /\ wire = <<>>
  /\ conn[Pane] # "ended" => replayed[Pane] = <<>>
  /\ conn[Pane] = "leaving" /\ es = "open" => broken

Increasing ==
  /\ \A i, j \in 1 .. Len(shown) : i < j => shown[i] < shown[j]
  /\ \A i, j \in 1 .. Len(wire) : i < j => wire[i] < wire[j]
  /\ \A i \in 1 .. Len(shown), j \in 1 .. Len(wire) : shown[i] < wire[j]

(* What has left the channel is before what is in it.                      *)
Ahead ==
  replayed[Pane] = <<>> =>
    /\ \A i \in 1 .. Len(shown) : \A j \in 1 .. Len(ch) : shown[i] < ch[j]
    /\ \A i \in 1 .. Len(wire) : \A j \in 1 .. Len(ch) : wire[i] < ch[j]
    /\ phase = "sending" => \A i \in 1 .. Len(shown) : shown[i] < Len(events)
    /\ phase = "sending" => \A i \in 1 .. Len(wire) : wire[i] < Len(events)

IsShown(n) == \E i \in 1 .. Len(shown) : shown[i] = n
OnWire(n) == \E i \in 1 .. Len(wire) : wire[i] = n
InChannel(n) == \E i \in 1 .. Len(ch) : ch[i] = n
TakenAway(n) == \E s \in Subs \ {Pane} : \E i \in 1 .. Len(got[s]) : got[s][i] = n

ReplayWhole ==
  replayed[Pane] # <<>> /\ es = "open" => \A n \in 1 .. Len(events) : IsShown(n) \/ OnWire(n)

(* While the pane listens no event is anywhere else.                       *)
Covered ==
  es # "closed" =>
    \A n \in 1 .. Len(events) :
      \/ phase = "sending" /\ n = Len(events)
      \/ InChannel(n) \/ n \in dropped \/ TakenAway(n) \/ OnWire(n) \/ IsShown(n)

NoEndShown == es = "open" => \A i \in 1 .. Len(shown) : events[shown[i]] # "done"

(* The agent only ends a live response that nobody left when all is sent.  *)
SentWhole ==
  es = "open" /\ conn[Pane] = "ended" /\ ~broken /\ replayed[Pane] = <<>> => closed /\ ch = <<>>

DoneSays ==
  status = "done" =>
    Over /\ \A n \in 1 .. Len(events) : IsShown(n) \/ n \in dropped \/ TakenAway(n)

ErrorSays ==
  status = "error" =>
    \/ broken
    \/ Over /\ (Last(events) = "error" \/ Len(events) \in dropped \/ TakenAway(Len(events)))

PaneInv ==
  /\ LogShape /\ PaneTyped /\ Stages /\ Increasing /\ Ahead /\ ReplayWhole
  /\ Covered /\ NoEndShown /\ SentWhole /\ DoneSays /\ ErrorSays

-----------------------------------------------------------------------------
(* Every step is one of RunStream.                                         *)
LEMMA StreamStep == [PaneNext]_allVars => [Next]_vars
BY PaneAssumption DEF PaneNext, allVars, Next, Agent, PaneHandler, PaneAccepted, PaneWritten,
  PaneHandlerEnds, PaneGone, OtherClient, HandleRun, OnMessage, OnServerEnd, OnConnectionLost,
  OnError, Cleanup, HandlerStep

LEMMA Lengths ==
  ASSUME TypeOK, PaneTyped
  PROVE  /\ Len(events) \in Nat /\ Len(ch) \in Nat /\ Len(shown) \in Nat /\ Len(wire) \in Nat
         /\ \A i \in 1 .. Len(shown) : shown[i] \in 1 .. Len(events)
         /\ \A i \in 1 .. Len(wire) : wire[i] \in 1 .. Len(events)
         /\ \A i \in 1 .. Len(ch) : ch[i] \in 1 .. Len(events)
<1>1. Len(events) \in Nat
  BY DEF TypeOK
<1>2. ch \in Seq(1 .. Len(events)) /\ shown \in Seq(1 .. Len(events)) /\ wire \in Seq(1 .. Len(events))
  BY DEF TypeOK, PaneTyped
<1>3. Len(ch) \in Nat /\ Len(shown) \in Nat /\ Len(wire) \in Nat
  BY <1>2, LenProperties
<1>. QED
  BY <1>1, <1>2, <1>3, ElementOfSeq

LEMMA InitPaneInv == PaneInit => PaneInv
<1>. SUFFICES ASSUME PaneInit PROVE PaneInv
  OBVIOUS
<1>1. <<>> \in Seq(1 .. Len(events)) /\ Len(events) = 0 /\ Len(shown) = 0 /\ Len(wire) = 0
  BY EmptySeq DEF PaneInit, Init
<1>2. LogShape /\ PaneTyped
  <2>1. LogShape
    BY <1>1 DEF PaneInit, Init, LogShape
  <2>2. shown \in Seq(1 .. Len(events)) /\ wire \in Seq(1 .. Len(events))
    BY <1>1 DEF PaneInit
  <2>. QED
    BY <2>1, <2>2 DEF PaneInit, PaneTyped
<1>3. Stages
  BY PaneAssumption DEF PaneInit, Init, Stages
<1>4. Increasing /\ Ahead /\ ReplayWhole /\ Covered /\ NoEndShown
  BY <1>1 DEF PaneInit, Init, Increasing, Ahead, ReplayWhole, Covered, NoEndShown
<1>5. SentWhole /\ DoneSays /\ ErrorSays
  BY DEF PaneInit, SentWhole, DoneSays, ErrorSays
<1>. QED
  BY <1>2, <1>3, <1>4, <1>5 DEF PaneInv

-----------------------------------------------------------------------------
(* The steps of the run.                                                   *)
LEMMA AppendEventStep ==
  ASSUME IInv, PaneInv, UNCHANGED <<paneVars, wire>>,
         NEW type \in {"start", "request", "error", "done"}, AppendEvent(type)
  PROVE  PaneInv'
<1>. USE DEF AppendEvent, paneVars, subVars
<1>1. /\ Len(events') = Len(events) + 1 /\ events'[Len(events) + 1] = type
      /\ \A i \in 1 .. Len(events) : events'[i] = events[i]
      /\ phase = "ready" /\ phase' = "sending" /\ ~done
  BY AppendProperties DEF IInv, TypeOK, Progress
<1>2. TypeOK /\ PaneTyped
  BY DEF IInv, PaneInv
<1>3. LogShape'
  <2>1. Len(events) = 0 <=> events = <<>>
    BY <1>2, EmptySeq DEF TypeOK
  <2>. QED
    BY <1>1, <1>2, <2>1, Lengths DEF PaneInv, LogShape
<1>4. PaneTyped'
  <2>1. shown \in Seq(1 .. Len(events')) /\ wire \in Seq(1 .. Len(events'))
    BY <1>1, <1>2, LongerLog DEF PaneTyped
  <2>. QED
    BY <1>2, <2>1 DEF PaneTyped
<1>5. Stages' /\ Increasing'
  BY DEF PaneInv, Stages, Increasing
<1>6. Ahead'
  <2>1. /\ \A i \in 1 .. Len(shown) : shown[i] < Len(events')
        /\ \A i \in 1 .. Len(wire) : wire[i] < Len(events')
    BY <1>1, <1>2, Lengths
  <2>2. UNCHANGED <<shown, wire, ch, replayed>>
    OBVIOUS
  <2>. QED
    BY <2>1, <2>2 DEF PaneInv, Ahead
<1>7. ReplayWhole'
  BY <1>1, PaneAssumption DEF IInv, Replays, ReplayWhole
<1>8. Covered'
  <2>. SUFFICES ASSUME es # "closed", NEW n \in 1 .. Len(events'), n # Len(events')
       PROVE InChannel(n) \/ n \in dropped \/ TakenAway(n) \/ OnWire(n) \/ IsShown(n)
    BY <1>1 DEF Covered, InChannel, IsShown, OnWire, TakenAway
  <2>1. n \in 1 .. Len(events)
    BY <1>1, <1>2, Lengths
  <2>. QED
    BY <1>1, <2>1 DEF PaneInv, Covered
<1>9. NoEndShown'
  BY <1>1, <1>2, Lengths DEF PaneInv, NoEndShown
<1>10. SentWhole' /\ DoneSays' /\ ErrorSays'
  BY <1>1 DEF PaneInv, SentWhole, DoneSays, ErrorSays, Over
<1>. QED
  BY <1>3, <1>4, <1>5, <1>6, <1>7, <1>8, <1>9, <1>10 DEF PaneInv

LEMMA SendEventStep ==
  ASSUME IInv, PaneInv, UNCHANGED <<paneVars, wire>>, SendEvent
  PROVE  PaneInv'
<1>. USE DEF SendEvent, paneVars, subVars
<1>1. TypeOK /\ PaneTyped /\ Progress /\ phase = "sending" /\ phase' \in {"ready", "finishing"}
  BY DEF IInv, PaneInv
<1>2. events # <<>> /\ Len(events) \in 1 .. Len(events) /\ ~done
  BY <1>1, EmptySeq DEF TypeOK, Progress
<1>3. \/ /\ ch' = Append(ch, Len(events)) /\ dropped' = dropped
         /\ Len(ch') = Len(ch) + 1 /\ ch'[Len(ch) + 1] = Len(events)
         /\ \A i \in 1 .. Len(ch) : ch'[i] = ch[i]
      \/ ch' = ch /\ dropped' = dropped \cup {Len(events)}
  BY <1>1, <1>2, ChanAppend
<1>4. LogShape'
  BY <1>1, <1>2 DEF PaneInv, LogShape, Last
<1>5. PaneTyped' /\ Stages' /\ Increasing' /\ NoEndShown'
  BY <1>1 DEF PaneInv, PaneTyped, Stages, Increasing, NoEndShown
<1>6. Ahead'
  <2>. SUFFICES ASSUME replayed[Pane] = <<>>
       PROVE /\ \A i \in 1 .. Len(shown) : \A j \in 1 .. Len(ch') : shown[i] < ch'[j]
             /\ \A i \in 1 .. Len(wire) : \A j \in 1 .. Len(ch') : wire[i] < ch'[j]
    BY <1>1 DEF Ahead
  <2>1. /\ \A i \in 1 .. Len(shown) : shown[i] < Len(events) /\ \A j \in 1 .. Len(ch) : shown[i] < ch[j]
        /\ \A i \in 1 .. Len(wire) : wire[i] < Len(events) /\ \A j \in 1 .. Len(ch) : wire[i] < ch[j]
    BY <1>1 DEF PaneInv, Ahead
  <2>2. \A j \in 1 .. Len(ch') : ch'[j] = Len(events) \/ (j \in 1 .. Len(ch) /\ ch'[j] = ch[j])
    BY <1>1, <1>3, Lengths
  <2>. QED
    BY <2>1, <2>2
<1>7. ReplayWhole'
  BY <1>2, PaneAssumption DEF IInv, Replays, ReplayWhole
<1>8. Covered'
  <2>. SUFFICES ASSUME es # "closed", NEW n \in 1 .. Len(events)
       PROVE InChannel(n)' \/ n \in dropped' \/ TakenAway(n) \/ OnWire(n) \/ IsShown(n)
    BY DEF Covered, TakenAway, OnWire, IsShown
  <2>1. \/ n = Len(events) \/ InChannel(n) \/ n \in dropped \/ TakenAway(n) \/ OnWire(n) \/ IsShown(n)
    BY DEF PaneInv, Covered
  <2>2. InChannel(n) => InChannel(n)'
    BY <1>1, <1>3, Lengths DEF InChannel
  <2>3. n = Len(events) => InChannel(n)' \/ n \in dropped'
    BY <1>1, <1>3, Lengths DEF InChannel
  <2>. QED
    BY <1>3, <2>1, <2>2, <2>3
<1>9. SentWhole' /\ DoneSays' /\ ErrorSays'
  BY <1>1 DEF PaneInv, SentWhole, DoneSays, ErrorSays, Over, LogShape
<1>. QED
  BY <1>4, <1>5, <1>6, <1>7, <1>8, <1>9 DEF PaneInv

LEMMA RunEndsStep ==
  ASSUME IInv, PaneInv, UNCHANGED <<paneVars, wire>>, Finish \/ CloseChannel
  PROVE  PaneInv'
<1>. USE DEF Finish, CloseChannel, paneVars, subVars
<1>1. /\ Over /\ Over' /\ phase' \notin {"ready", "sending"}
      /\ phase' = "end" <=> closed'
      /\ UNCHANGED <<events, ch, dropped, conn, got, replayed>>
      /\ closed => closed'
  BY DEF Over, PaneInv, LogShape
<1>2. LogShape'
  BY <1>1 DEF PaneInv, LogShape
<1>3. PaneTyped' /\ Stages' /\ Increasing' /\ NoEndShown' /\ ReplayWhole'
  BY <1>1 DEF PaneInv, PaneTyped, Stages, Increasing, NoEndShown, ReplayWhole, IsShown, OnWire
<1>4. Ahead' /\ SentWhole'
  BY <1>1 DEF PaneInv, Ahead, SentWhole
<1>5. Covered'
  BY <1>1 DEF PaneInv, Covered, InChannel, IsShown, OnWire, TakenAway, Over
<1>6. DoneSays'
  BY <1>1 DEF PaneInv, DoneSays, IsShown, TakenAway
<1>7. ErrorSays'
  BY <1>1 DEF PaneInv, ErrorSays, TakenAway, Last
<1>. QED
  BY <1>2, <1>3, <1>4, <1>5, <1>6, <1>7 DEF PaneInv

-----------------------------------------------------------------------------
(* The steps of the handlers.                                              *)
LEMMA OtherClientStep ==
  ASSUME IInv, PaneInv, OtherClient
  PROVE  PaneInv'
<1>1. TypeOK /\ PaneTyped
  BY DEF IInv, PaneInv
<1>2. /\ UNCHANGED <<events, closed, done, phase, dropped, paneVars, wire>>
      /\ conn'[Pane] = conn[Pane] /\ replayed'[Pane] = replayed[Pane]
  BY <1>1, PaneAssumption DEF TypeOK, OtherClient, Connect, HandlerStep, CheckDone, Receive, ChannelClosed,
    CtxDone, ClientLeaves, runVars
<1>3. /\ \A n \in 1 .. Len(events) : InChannel(n) => InChannel(n)' \/ TakenAway(n)'
      /\ \A n \in 1 .. Len(events) : TakenAway(n) => TakenAway(n)'
      /\ \A j \in 1 .. Len(ch') : \E k \in 1 .. Len(ch) : ch'[j] = ch[k]
      /\ ch = <<>> => ch' = <<>>
  <2>1. CASE UNCHANGED <<ch, got>>
    BY <1>1, <2>1 DEF InChannel, TakenAway
  <2>2. ASSUME NEW s \in Subs \ {Pane}, Receive(s)
        PROVE <1>3!:
    <3>1. /\ ch # <<>> /\ ch' = Tail(ch) /\ Len(ch') = Len(ch) - 1 /\ Len(ch) \in Nat \ {0}
          /\ \A j \in 1 .. Len(ch') : ch'[j] = ch[j + 1]
      BY <1>1, <2>2, ChanTail DEF Receive
    <3>2. /\ Len(got'[s]) = Len(got[s]) + 1 /\ Len(got[s]) \in Nat /\ got'[s][Len(got[s]) + 1] = ch[1]
          /\ \A k \in 1 .. Len(got[s]) : got'[s][k] = got[s][k]
          /\ \A t \in Subs : t # s => got'[t] = got[t]
      <4>1. ch[1] \in 1 .. Len(events) /\ got' = [got EXCEPT ![s] = Append(got[s], ch[1])]
        BY <1>1, <2>2, ChanTail DEF Receive
      <4>. QED
        BY <1>1, <4>1, GotAppend DEF TypeOK
    <3>3. \A n \in 1 .. Len(events) : TakenAway(n) => TakenAway(n)'
      <4>. SUFFICES ASSUME NEW n \in 1 .. Len(events), NEW t \in Subs \ {Pane},
                           NEW k \in 1 .. Len(got[t]), got[t][k] = n
           PROVE \E m \in 1 .. Len(got'[t]) : got'[t][m] = n
        BY DEF TakenAway
      <4>. QED
        BY <3>2
    <3>4. \A n \in 1 .. Len(events) : InChannel(n) => InChannel(n)' \/ TakenAway(n)'
      <4>. SUFFICES ASSUME NEW n \in 1 .. Len(events), NEW k \in 1 .. Len(ch), ch[k] = n
           PROVE InChannel(n)' \/ TakenAway(n)'
        BY DEF InChannel
      <4>1. CASE k = 1
        BY <3>2, <4>1 DEF TakenAway
      <4>2. CASE k # 1
        <5>1. k - 1 \in 1 .. Len(ch') /\ ch'[k - 1] = n
          BY <3>1, <4>2
        <5>. QED
          BY <5>1 DEF InChannel
      <4>. QED
        BY <4>1, <4>2
    <3>. QED
      BY <3>1, <3>3, <3>4
  <2>. QED
    BY <2>1, <2>2 DEF OtherClient, Connect, HandlerStep, CheckDone, ChannelClosed, CtxDone,
      ClientLeaves, runVars
<1>4. LogShape' /\ PaneTyped' /\ Stages' /\ Increasing' /\ NoEndShown' /\ ReplayWhole'
  BY <1>2 DEF PaneInv, LogShape, PaneTyped, Stages, Increasing, NoEndShown, ReplayWhole, IsShown,
    OnWire, paneVars
<1>5. Ahead'
  BY <1>1, <1>2, <1>3, Lengths DEF PaneInv, Ahead, paneVars
<1>6. SentWhole'
  BY <1>2, <1>3 DEF PaneInv, SentWhole, paneVars
<1>7. Covered'
  <2>. SUFFICES ASSUME es # "closed", NEW n \in 1 .. Len(events)
       PROVE \/ phase = "sending" /\ n = Len(events)
             \/ InChannel(n)' \/ n \in dropped \/ TakenAway(n)' \/ OnWire(n) \/ IsShown(n)
    BY <1>2 DEF Covered, OnWire, IsShown, paneVars
  <2>. QED
    BY <1>3 DEF PaneInv, Covered
<1>8. DoneSays'
  BY <1>2, <1>3 DEF PaneInv, DoneSays, Over, IsShown, paneVars
<1>9. ErrorSays'
  <2>1. Over => Len(events) \in 1 .. Len(events)
    BY <1>1, EmptySeq DEF IInv, Progress, Ended, Over, TypeOK
  <2>. QED
    BY <1>2, <1>3, <2>1 DEF PaneInv, ErrorSays, Over, Last, paneVars
<1>. QED
  BY <1>4, <1>5, <1>6, <1>7, <1>8, <1>9 DEF PaneInv

LEMMA PaneAcceptedStep ==
  ASSUME IInv, PaneInv, PaneAccepted
  PROVE  PaneInv'
<1>1. TypeOK /\ PaneTyped
  BY DEF IInv, PaneInv
<1>2. /\ UNCHANGED <<runVars, got, paneVars>> /\ conn[Pane] = "asked"
      /\ shown = <<>> /\ wire = <<>> /\ Len(shown) = 0 /\ Len(wire) = 0 /\ replayed[Pane] = <<>>
  BY <1>1, EmptySeq DEF PaneAccepted, CheckDone, PaneInv, Stages
<1>3. CASE done
  <2>1. /\ wire' \in Seq(1 .. Len(events)) /\ Len(wire') = Len(events)
        /\ \A i \in 1 .. Len(events) : wire'[i] = i
    <3>1. WholeLog \in Seq(1 .. Len(events)) /\ Len(WholeLog) = Len(events)
      BY <1>1, Lengths DEF WholeLog
    <3>2. wire' = WholeLog
      BY <1>2, <1>3, <3>1 DEF PaneAccepted
    <3>. QED
      BY <3>1, <3>2 DEF WholeLog
  <2>2. conn'[Pane] = "ended" /\ replayed'[Pane] = events /\ events # <<>>
    BY <1>1, <1>3, PaneAssumption DEF PaneAccepted, CheckDone, TypeOK, IInv, Progress, Ended
  <2>3. LogShape' /\ PaneTyped' /\ NoEndShown' /\ DoneSays' /\ ErrorSays'
    BY <1>2, <2>1 DEF PaneInv, LogShape, PaneTyped, NoEndShown, DoneSays, ErrorSays, Over, IsShown,
      TakenAway, Last, paneVars, runVars
  <2>4. Stages' /\ Ahead' /\ SentWhole'
    BY <1>2, <2>2 DEF PaneInv, Stages, Ahead, SentWhole, paneVars
  <2>5. Increasing'
    BY <1>1, <1>2, <2>1, Lengths DEF Increasing, paneVars, runVars
  <2>6. ReplayWhole' /\ Covered'
    BY <1>1, <1>2, <2>1, Lengths DEF ReplayWhole, Covered, OnWire, paneVars, runVars
  <2>. QED
    BY <2>3, <2>4, <2>5, <2>6 DEF PaneInv
<1>4. CASE ~done
  <2>1. conn'[Pane] = "live" /\ UNCHANGED <<replayed, wire>>
    BY <1>1, <1>2, <1>4, PaneAssumption DEF PaneAccepted, CheckDone, TypeOK
  <2>2. LogShape' /\ PaneTyped' /\ Increasing' /\ Ahead' /\ NoEndShown'
    BY <1>2, <2>1 DEF PaneInv, LogShape, PaneTyped, Increasing, Ahead, NoEndShown, paneVars, runVars
  <2>3. Stages' /\ SentWhole'
    BY <1>2, <2>1 DEF PaneInv, Stages, SentWhole, paneVars
  <2>4. ReplayWhole' /\ Covered' /\ DoneSays' /\ ErrorSays'
    BY <1>2, <2>1 DEF PaneInv, ReplayWhole, Covered, DoneSays, ErrorSays, Over, InChannel, IsShown,
      OnWire, TakenAway, Last, paneVars, runVars
  <2>. QED
    BY <2>2, <2>3, <2>4 DEF PaneInv
<1>. QED
  BY <1>3, <1>4

LEMMA WireAppend ==
  ASSUME TypeOK, PaneTyped, NEW n \in 1 .. Len(events)
  PROVE  /\ Append(wire, n) \in Seq(1 .. Len(events))
         /\ Len(Append(wire, n)) = Len(wire) + 1 /\ Len(wire) \in Nat
         /\ \A i \in 1 .. Len(wire) : Append(wire, n)[i] = wire[i]
         /\ Append(wire, n)[Len(wire) + 1] = n
  BY AppendProperties DEF PaneTyped

LEMMA PaneWrittenStep ==
  ASSUME IInv, PaneInv, PaneWritten
  PROVE  PaneInv'
<1>1. TypeOK /\ PaneTyped
  BY DEF IInv, PaneInv
<1>2. /\ UNCHANGED <<events, closed, done, phase, dropped, conn, replayed, paneVars>>
      /\ conn[Pane] \in {"live", "leaving"} /\ replayed[Pane] = <<>>
      /\ \A s \in Subs \ {Pane} : got'[s] = got[s]
  BY <1>1, PaneAssumption DEF PaneWritten, Receive, TypeOK, PaneInv, Stages
<1>3. /\ ch # <<>> /\ Head(ch) = ch[1] /\ ch[1] \in 1 .. Len(events) /\ Len(ch') = Len(ch) - 1
      /\ Len(ch) \in Nat \ {0} /\ \A j \in 1 .. Len(ch') : ch'[j] = ch[j + 1]
  BY <1>1, ChanTail DEF PaneWritten, Receive
<1>4. /\ \A i \in 1 .. Len(shown) : shown[i] < ch[1]
      /\ \A i \in 1 .. Len(wire) : wire[i] < ch[1]
      /\ \A j \in 1 .. Len(ch') : ch[1] < ch'[j]
      /\ \A j \in 1 .. Len(ch') : \E k \in 1 .. Len(ch) : ch'[j] = ch[k]
      /\ phase = "sending" => ch[1] < Len(events)
  <2>1. /\ \A i \in 1 .. Len(shown) : shown[i] < ch[1]
        /\ \A i \in 1 .. Len(wire) : wire[i] < ch[1]
    BY <1>2, <1>3 DEF PaneInv, Ahead
  <2>2. \A j \in 1 .. Len(ch') : j + 1 \in 1 .. Len(ch) /\ 1 \in 1 .. Len(ch) /\ 1 < j + 1
    BY <1>3
  <2>3. \A j \in 1 .. Len(ch') : ch[1] < ch'[j] /\ \E k \in 1 .. Len(ch) : ch'[j] = ch[k]
    BY <1>3, <2>2 DEF IInv, ChanOrder
  <2>4. phase = "sending" => ch[1] < Len(events)
    BY <1>3 DEF IInv, ChanOrder
  <2>. QED
    BY <2>1, <2>3, <2>4
<1>5. \/ /\ es = "open" /\ wire' = Append(wire, ch[1]) /\ wire' \in Seq(1 .. Len(events))
         /\ Len(wire') = Len(wire) + 1 /\ wire'[Len(wire) + 1] = ch[1]
         /\ \A i \in 1 .. Len(wire) : wire'[i] = wire[i]
      \/ es # "open" /\ wire' = wire
  <2>1. CASE es = "open"
    <3>1. wire' = Append(wire, ch[1])
      BY <1>3, <2>1 DEF PaneWritten
    <3>. QED
      BY <1>1, <1>3, <2>1, <3>1, WireAppend
  <2>2. CASE es # "open"
    BY <2>2 DEF PaneWritten
  <2>. QED
    BY <2>1, <2>2
<1>6. LogShape' /\ PaneTyped' /\ NoEndShown' /\ ReplayWhole'
  <2>1. wire' \in Seq(1 .. Len(events))
    BY <1>1, <1>5 DEF PaneTyped
  <2>2. LogShape' /\ NoEndShown'
    BY <1>2 DEF PaneInv, LogShape, NoEndShown, paneVars
  <2>3. PaneTyped'
    BY <1>1, <1>2, <2>1 DEF PaneTyped, paneVars
  <2>4. ReplayWhole'
    BY <1>2 DEF ReplayWhole
  <2>. QED
    BY <2>2, <2>3, <2>4
<1>7. Stages'
  BY <1>2 DEF PaneInv, Stages, paneVars
<1>8. Increasing'
  <2>1. CASE wire' = wire
    BY <1>2, <2>1 DEF PaneInv, Increasing, paneVars
  <2>2. CASE wire' # wire
    <3>1. /\ Len(wire') = Len(wire) + 1 /\ wire'[Len(wire) + 1] = ch[1] /\ Len(wire) \in Nat
          /\ \A i \in 1 .. Len(wire) : wire'[i] = wire[i]
      BY <1>1, <1>5, <2>2, Lengths
    <3>2. \A i, j \in 1 .. Len(wire') : i < j => wire'[i] < wire'[j]
      BY <1>4, <3>1 DEF PaneInv, Increasing
    <3>3. \A i \in 1 .. Len(shown), j \in 1 .. Len(wire') : shown[i] < wire'[j]
      BY <1>4, <3>1 DEF PaneInv, Increasing
    <3>. QED
      BY <1>2, <3>2, <3>3 DEF PaneInv, Increasing, paneVars
  <2>. QED
    BY <2>1, <2>2
<1>9. Ahead'
  <2>1. /\ \A i \in 1 .. Len(shown) : \A j \in 1 .. Len(ch') : shown[i] < ch'[j]
        /\ \A i \in 1 .. Len(wire) : \A j \in 1 .. Len(ch') : wire[i] < ch'[j]
        /\ phase = "sending" => \A i \in 1 .. Len(shown) : shown[i] < Len(events)
        /\ phase = "sending" => \A i \in 1 .. Len(wire) : wire[i] < Len(events)
    BY <1>2, <1>4 DEF PaneInv, Ahead
  <2>2. \A i \in 1 .. Len(wire') : wire'[i] = ch[1] \/ (i \in 1 .. Len(wire) /\ wire'[i] = wire[i])
    BY <1>1, <1>5, Lengths
  <2>. QED
    BY <1>2, <1>4, <2>1, <2>2 DEF Ahead, paneVars
<1>10. SentWhole'
  BY <1>2 DEF SentWhole
<1>11. Covered'
  <2>. SUFFICES ASSUME es # "closed", NEW n \in 1 .. Len(events)
       PROVE \/ phase = "sending" /\ n = Len(events)
             \/ InChannel(n)' \/ n \in dropped \/ TakenAway(n) \/ OnWire(n)' \/ IsShown(n)
    BY <1>2 DEF Covered, TakenAway, IsShown, paneVars
  <2>1. es = "open"
    BY <1>2 DEF PaneInv, Stages, PaneTyped
  <2>2. OnWire(n) => OnWire(n)'
    <3>1. SUFFICES ASSUME NEW i \in 1 .. Len(wire), wire[i] = n
                   PROVE  OnWire(n)'
      BY DEF OnWire
    <3>2. i \in 1 .. Len(wire') /\ wire'[i] = wire[i]
      BY <1>1, <1>5, Lengths
    <3>. QED
      BY <3>1, <3>2 DEF OnWire
  <2>3. ASSUME NEW k \in 1 .. Len(ch), ch[k] = n PROVE InChannel(n)' \/ OnWire(n)'
    <3>1. CASE k = 1
      BY <1>1, <1>5, <2>1, <2>3, <3>1, Lengths DEF OnWire
    <3>2. CASE k # 1
      <4>1. k - 1 \in 1 .. Len(ch') /\ ch'[k - 1] = n
        BY <1>3, <2>3, <3>2
      <4>. QED
        BY <4>1 DEF InChannel
    <3>. QED
      BY <3>1, <3>2
  <2>. QED
    BY <2>2, <2>3 DEF PaneInv, Covered, InChannel
<1>12. DoneSays' /\ ErrorSays'
  BY <1>2 DEF PaneInv, DoneSays, ErrorSays, Over, IsShown, TakenAway, Last, paneVars
<1>. QED
  BY <1>6, <1>7, <1>8, <1>9, <1>10, <1>11, <1>12 DEF PaneInv

LEMMA PaneHandlerEndsStep ==
  ASSUME IInv, PaneInv, PaneHandlerEnds \/ PaneGone
  PROVE  PaneInv'
<1>1. TypeOK /\ PaneTyped
  BY DEF IInv, PaneInv
<1>2. /\ UNCHANGED <<runVars, got, replayed, status, shown, es, completed, wire>>
      /\ conn[Pane] \in {"live", "leaving"} /\ conn'[Pane] \in {"leaving", "ended"}
      /\ replayed[Pane] = <<>> /\ (broken => broken')
      /\ conn'[Pane] = "leaving" /\ es = "open" => broken'
      /\ conn'[Pane] = "ended" /\ es = "open" => broken' \/ (closed /\ ch = <<>>)
  BY <1>1, PaneAssumption DEF PaneHandlerEnds, PaneGone, ChannelClosed, CtxDone, ClientLeaves,
    TypeOK, PaneInv, Stages, paneVars
<1>3. PaneTyped'
  BY <1>1, <1>2 DEF PaneHandlerEnds, PaneGone, PaneTyped, paneVars, runVars
<1>4. LogShape' /\ Increasing' /\ Ahead' /\ NoEndShown'
  BY <1>2 DEF PaneInv, LogShape, Increasing, Ahead, NoEndShown, runVars
<1>5. Stages'
  BY <1>2 DEF PaneInv, Stages
<1>6. SentWhole'
  BY <1>2 DEF SentWhole, runVars
<1>7. ReplayWhole' /\ Covered' /\ DoneSays' /\ ErrorSays'
  BY <1>2 DEF PaneInv, ReplayWhole, Covered, DoneSays, ErrorSays, Over, InChannel, IsShown,
    OnWire, TakenAway, Last, runVars
<1>. QED
  BY <1>3, <1>4, <1>5, <1>6, <1>7 DEF PaneInv

-----------------------------------------------------------------------------
(* The steps of the browser.                                               *)
LEMMA HandleRunStep ==
  ASSUME IInv, PaneInv, HandleRun
  PROVE  PaneInv'
<1>1. TypeOK /\ PaneTyped
  BY DEF IInv, PaneInv
<1>2. /\ UNCHANGED <<runVars, got, replayed, shown, completed, broken, wire>>
      /\ status' = "running" /\ es' = "open" /\ es = "none" /\ ~completed
      /\ conn[Pane] = "none" /\ conn'[Pane] = "asked"
      /\ replayed[Pane] = <<>> /\ shown = <<>> /\ wire = <<>> /\ Len(shown) = 0
  BY <1>1, EmptySeq, PaneAssumption DEF HandleRun, Connect, TypeOK, PaneTyped, PaneInv, Stages
<1>3. LogShape' /\ PaneTyped' /\ Increasing' /\ Ahead' /\ NoEndShown'
  BY <1>1, <1>2 DEF PaneInv, LogShape, PaneTyped, Increasing, Ahead, NoEndShown, runVars
<1>4. Stages' /\ SentWhole' /\ ReplayWhole' /\ DoneSays' /\ ErrorSays'
  BY <1>2 DEF PaneInv, Stages, SentWhole, ReplayWhole, DoneSays, ErrorSays
<1>5. Covered'
  BY <1>2 DEF PaneInv, Covered, InChannel, IsShown, OnWire, TakenAway, runVars
<1>. QED
  BY <1>3, <1>4, <1>5 DEF PaneInv

(* The next event on the wire.                                             *)
LEMMA WireTail ==
  ASSUME TypeOK, PaneTyped, wire # <<>>
  PROVE  /\ Len(wire) \in Nat \ {0} /\ Head(wire) = wire[1] /\ wire[1] \in 1 .. Len(events)
         /\ Tail(wire) \in Seq(1 .. Len(events)) /\ Len(Tail(wire)) = Len(wire) - 1
         /\ \A i \in 1 .. Len(Tail(wire)) : Tail(wire)[i] = wire[i + 1]
  BY HeadTailProperties, EmptySeq DEF PaneTyped

LEMMA ShownAppend ==
  ASSUME TypeOK, PaneTyped, NEW n \in 1 .. Len(events)
  PROVE  /\ Append(shown, n) \in Seq(1 .. Len(events))
         /\ Len(Append(shown, n)) = Len(shown) + 1 /\ Len(shown) \in Nat
         /\ \A i \in 1 .. Len(shown) : Append(shown, n)[i] = shown[i]
         /\ Append(shown, n)[Len(shown) + 1] = n
  BY AppendProperties DEF PaneTyped

LEMMA OnMessageStep ==
  ASSUME IInv, PaneInv, OnMessage
  PROVE  PaneInv'
<1>1. TypeOK /\ PaneTyped
  BY DEF IInv, PaneInv
<1>2. /\ UNCHANGED <<vars, broken>> /\ es = "open" /\ wire # <<>> /\ status = "running" /\ ~completed
      /\ conn[Pane] \notin {"none", "asked"}
  BY DEF OnMessage, PaneInv, Stages
<1>3. PICK h \in 1 .. Len(events) :
        /\ h = wire[1] /\ Head(wire) = h /\ Len(wire) \in Nat \ {0} /\ Len(events) \in Nat
        /\ Tail(wire) \in Seq(1 .. Len(events)) /\ Len(Tail(wire)) = Len(wire) - 1
        /\ \A i \in 1 .. Len(Tail(wire)) : Tail(wire)[i] = wire[i + 1]
  BY <1>1, <1>2, WireTail, Lengths
<1>4. /\ shown' = Append(shown, h) /\ shown' \in Seq(1 .. Len(events))
      /\ Len(shown') = Len(shown) + 1 /\ Len(shown) \in Nat /\ shown'[Len(shown) + 1] = h
      /\ \A i \in 1 .. Len(shown) : shown'[i] = shown[i]
  BY <1>1, <1>3, ShownAppend DEF OnMessage
<1>5. /\ \A i \in 1 .. Len(shown) : shown[i] < h
      /\ \A i \in 2 .. Len(wire) : h < wire[i]
      /\ \A i, j \in 1 .. Len(shown') : i < j => shown'[i] < shown'[j]
  BY <1>3, <1>4 DEF PaneInv, Increasing
<1>6. \A n \in 1 .. Len(events) : IsShown(n) \/ OnWire(n) => IsShown(n)' \/ \E i \in 2 .. Len(wire) : wire[i] = n
  <2>. SUFFICES ASSUME NEW n \in 1 .. Len(events), IsShown(n) \/ OnWire(n)
       PROVE IsShown(n)' \/ \E i \in 2 .. Len(wire) : wire[i] = n
    OBVIOUS
  <2>1. IsShown(n) => IsShown(n)'
    BY <1>4 DEF IsShown
  <2>2. n = h => IsShown(n)'
    BY <1>4 DEF IsShown
  <2>3. OnWire(n) => n = h \/ \E i \in 2 .. Len(wire) : wire[i] = n
    BY <1>3 DEF OnWire
  <2>. QED
    BY <2>1, <2>2, <2>3
<1>7. LogShape'
  BY <1>2 DEF PaneInv, LogShape, vars, runVars
<1>8. Ahead'
  <2>. SUFFICES ASSUME replayed[Pane] = <<>>
       PROVE /\ \A i \in 1 .. Len(shown') : \A j \in 1 .. Len(ch) : shown'[i] < ch[j]
             /\ \A i \in 1 .. Len(wire') : \A j \in 1 .. Len(ch) : wire'[i] < ch[j]
             /\ phase = "sending" => \A i \in 1 .. Len(shown') : shown'[i] < Len(events)
             /\ phase = "sending" => \A i \in 1 .. Len(wire') : wire'[i] < Len(events)
    BY <1>2 DEF Ahead, vars, runVars, subVars
  <2>1. \A i \in 1 .. Len(shown') : shown'[i] = h \/ (i \in 1 .. Len(shown) /\ shown'[i] = shown[i])
    BY <1>4
  <2>2. /\ \A j \in 1 .. Len(ch) : h < ch[j] /\ \A i \in 1 .. Len(shown) : shown[i] < ch[j]
        /\ \A i \in 1 .. Len(wire) : \A j \in 1 .. Len(ch) : wire[i] < ch[j]
        /\ phase = "sending" => h < Len(events)
        /\ phase = "sending" => \A i \in 1 .. Len(shown) : shown[i] < Len(events)
        /\ phase = "sending" => \A i \in 1 .. Len(wire) : wire[i] < Len(events)
    BY <1>3 DEF PaneInv, Ahead
  <2>3. CASE wire' = <<>>
    <3>1. Len(wire') = 0
      BY <2>3, EmptySeq
    <3>. QED
      BY <2>1, <2>2, <3>1
  <2>4. CASE wire' = Tail(wire)
    <3>1. \A i \in 1 .. Len(wire') : i + 1 \in 1 .. Len(wire) /\ wire'[i] = wire[i + 1]
      BY <1>3, <2>4
    <3>. QED
      BY <2>1, <2>2, <3>1
  <2>. QED
    BY <2>3, <2>4 DEF OnMessage
<1>9. CASE events[h] = "done"
  <2>1. /\ status' = "done" /\ completed' = TRUE /\ es' = "closed" /\ wire' = <<>>
        /\ Len(wire') = 0 /\ wire' \in Seq(1 .. Len(events))
    BY <1>3, <1>9, EmptySeq DEF OnMessage
  <2>2. h = Len(events) /\ phase # "ready"
    BY <1>3, <1>9 DEF PaneInv, LogShape, Final
  <2>3. phase # "sending"
    BY <1>3, <2>2, PaneAssumption DEF PaneInv, Ahead, IInv, Replays, Progress
  <2>4. Over
    BY <1>1, <2>2, <2>3 DEF Over, TypeOK
  <2>5. ASSUME NEW n \in 1 .. Len(events)
        PROVE IsShown(n)' \/ n \in dropped \/ TakenAway(n)
    <3>1. IsShown(n) \/ OnWire(n) => IsShown(n)'
      <4>1. \A i \in 2 .. Len(wire) : wire[i] \in 1 .. Len(events) /\ Len(events) < wire[i]
        BY <1>1, <1>3, <1>5, <2>2, Lengths
      <4>2. ~ \E i \in 2 .. Len(wire) : wire[i] = n
        BY <1>3, <4>1
      <4>. QED
        BY <1>6, <4>2
    <3>2. CASE replayed[Pane] # <<>>
      BY <1>2, <3>1, <3>2 DEF PaneInv, ReplayWhole
    <3>3. CASE replayed[Pane] = <<>>
      <4>1. \A j \in 1 .. Len(ch) : ch[j] \in 1 .. Len(events)
        BY <1>1, Lengths
      <4>2. \A j \in 1 .. Len(ch) : wire[1] < ch[j]
        BY <1>3, <3>3 DEF PaneInv, Ahead
      <4>3. ~InChannel(n)
        BY <1>3, <2>2, <4>1, <4>2 DEF InChannel
      <4>. QED
        BY <1>2, <2>3, <3>1, <4>3 DEF PaneInv, Covered
    <3>. QED
      BY <3>2, <3>3
  <2>6. PaneTyped'
    BY <1>1, <1>2, <1>4, <2>1 DEF PaneTyped, vars, runVars
  <2>7. Stages'
    BY <1>2, <2>1 DEF PaneInv, Stages, vars, subVars
  <2>8. Increasing'
    BY <1>5, <2>1 DEF Increasing
  <2>9. ReplayWhole' /\ Covered' /\ NoEndShown' /\ SentWhole' /\ ErrorSays'
    BY <2>1 DEF ReplayWhole, Covered, NoEndShown, SentWhole, ErrorSays
  <2>10. DoneSays'
    BY <1>2, <2>4, <2>5 DEF DoneSays, Over, TakenAway, vars, runVars, subVars
  <2>. QED
    BY <1>7, <1>8, <2>6, <2>7, <2>8, <2>9, <2>10 DEF PaneInv
<1>10. CASE events[h] # "done"
  <2>1. UNCHANGED <<status, completed, es>> /\ wire' = Tail(wire)
    BY <1>3, <1>10 DEF OnMessage
  <2>2. PaneTyped'
    BY <1>1, <1>2, <1>3, <1>4, <2>1 DEF PaneTyped, vars, runVars
  <2>3. Stages'
    BY <1>2, <2>1 DEF PaneInv, Stages, vars, subVars
  <2>4. Increasing'
    <3>1. \A i, j \in 1 .. Len(wire') : i < j => wire'[i] < wire'[j]
      BY <1>3, <2>1 DEF PaneInv, Increasing
    <3>2. \A j \in 1 .. Len(wire') : h < wire'[j] /\ \A i \in 1 .. Len(shown) : shown[i] < wire'[j]
      BY <1>3, <1>5, <2>1 DEF PaneInv, Increasing
    <3>3. \A i \in 1 .. Len(shown'), j \in 1 .. Len(wire') : shown'[i] < wire'[j]
      BY <1>4, <3>2
    <3>. QED
      BY <1>5, <3>1, <3>3 DEF Increasing
  <2>5. \A n \in 1 .. Len(events) : IsShown(n) \/ OnWire(n) => IsShown(n)' \/ OnWire(n)'
    <3>1. \A i \in 2 .. Len(wire) : i - 1 \in 1 .. Len(wire') /\ wire'[i - 1] = wire[i]
      BY <1>3, <2>1
    <3>. QED
      BY <1>6, <3>1 DEF OnWire
  <2>6. ReplayWhole' /\ Covered'
    BY <1>2, <2>1, <2>5 DEF PaneInv, ReplayWhole, Covered, InChannel, TakenAway, vars, runVars, subVars
  <2>7. NoEndShown'
    BY <1>2, <1>4, <1>10, <2>1 DEF PaneInv, NoEndShown, vars, runVars
  <2>8. SentWhole' /\ DoneSays' /\ ErrorSays'
    BY <1>2, <2>1 DEF PaneInv, SentWhole, DoneSays, ErrorSays, vars, runVars, subVars
  <2>. QED
    BY <1>7, <1>8, <2>2, <2>3, <2>4, <2>6, <2>7, <2>8 DEF PaneInv
<1>. QED
  BY <1>9, <1>10

(* A live response that ends by itself has sent all there was.             *)
LEMMA OnServerEndStep ==
  ASSUME IInv, PaneInv, OnServerEnd
  PROVE  PaneInv'
<1>1. TypeOK /\ PaneTyped
  BY DEF IInv, PaneInv
<1>2. /\ UNCHANGED <<vars, shown, completed, broken>> /\ status' = "error" /\ es' = "closed"
      /\ wire' = <<>> /\ wire = <<>> /\ Len(wire) = 0 /\ es = "open" /\ conn[Pane] = "ended"
  BY EmptySeq DEF OnServerEnd, OnError, PaneInv, Stages
<1>3. ASSUME ~broken
      PROVE  Over /\ (Last(events) = "error" \/ Len(events) \in dropped \/ TakenAway(Len(events)))
  <2>1. /\ Over /\ phase # "sending" /\ Ended(events)
        /\ \A n \in 1 .. Len(events) : IsShown(n) \/ n \in dropped \/ TakenAway(n)
    <3>1. CASE replayed[Pane] # <<>>
      <4>1. phase \in {"closing", "end"}
        BY <3>1, PaneAssumption DEF IInv, Replays, Progress
      <4>2. \A n \in 1 .. Len(events) : IsShown(n)
        BY <1>2, <3>1 DEF PaneInv, ReplayWhole, OnWire
      <4>. QED
        BY <4>1, <4>2 DEF IInv, Progress, Over
    <3>2. CASE replayed[Pane] = <<>>
      <4>1. phase = "end" /\ ch = <<>> /\ Len(ch) = 0
        BY <1>2, <1>3, <3>2, EmptySeq DEF PaneInv, SentWhole, LogShape
      <4>2. \A n \in 1 .. Len(events) : n \in dropped \/ TakenAway(n) \/ IsShown(n)
        BY <1>2, <4>1 DEF PaneInv, Covered, InChannel, OnWire
      <4>. QED
        BY <4>1, <4>2 DEF IInv, Progress, Over
    <3>. QED
      BY <3>1, <3>2
  <2>2. Len(events) \in 1 .. Len(events) /\ Last(events) \in {"error", "done"}
    BY <1>1, <2>1, EmptySeq DEF Ended, TypeOK, Final
  <2>3. IsShown(Len(events)) => Last(events) # "done"
    BY <1>2 DEF PaneInv, NoEndShown, IsShown, Last
  <2>. QED
    BY <2>1, <2>2, <2>3
<1>4. LogShape'
  BY <1>2 DEF PaneInv, LogShape, vars, runVars
<1>5. PaneTyped' /\ Increasing'
  <2>1. wire' \in Seq(1 .. Len(events)) /\ Len(wire') = 0
    BY <1>2, EmptySeq
  <2>. QED
    BY <1>1, <1>2, <2>1 DEF PaneInv, PaneTyped, Increasing, vars, runVars
<1>6. Stages' /\ Ahead'
  BY <1>2 DEF PaneInv, Stages, Ahead, vars, runVars, subVars
<1>7. ReplayWhole' /\ Covered' /\ NoEndShown' /\ SentWhole' /\ DoneSays'
  BY <1>2 DEF ReplayWhole, Covered, NoEndShown, SentWhole, DoneSays
<1>8. ErrorSays'
  BY <1>2, <1>3 DEF ErrorSays, Over, TakenAway, Last, vars, runVars, subVars
<1>. QED
  BY <1>4, <1>5, <1>6, <1>7, <1>8 DEF PaneInv

(* The connection is lost, or the pane is gone.                            *)
LEMMA PaneClosesStep ==
  ASSUME IInv, PaneInv, OnConnectionLost \/ Cleanup
  PROVE  PaneInv'
<1>1. TypeOK /\ PaneTyped
  BY DEF IInv, PaneInv
<1>2. /\ UNCHANGED <<vars, shown, completed>> /\ status = "running" /\ es = "open"
      /\ es' = "closed" /\ wire' = <<>> /\ broken' \in BOOLEAN
      /\ \/ status' = "error" /\ broken'
         \/ status' = "running"
  BY <1>1 DEF OnConnectionLost, OnError, Cleanup, PaneTyped, PaneInv, Stages
<1>3. LogShape' /\ NoEndShown' /\ SentWhole' /\ ReplayWhole' /\ Covered' /\ DoneSays' /\ ErrorSays'
  BY <1>2 DEF PaneInv, LogShape, NoEndShown, SentWhole, ReplayWhole, Covered, DoneSays, ErrorSays,
    vars, runVars
<1>4. PaneTyped' /\ Increasing'
  <2>1. wire' \in Seq(1 .. Len(events)) /\ Len(wire') = 0
    BY <1>2, EmptySeq
  <2>. QED
    BY <1>1, <1>2, <2>1 DEF PaneInv, PaneTyped, Increasing, vars, runVars
<1>5. Stages' /\ Ahead'
  BY <1>2 DEF PaneInv, Stages, Ahead, vars, runVars, subVars
<1>. QED
  BY <1>3, <1>4, <1>5 DEF PaneInv

LEMMA PaneInvStep == IInv /\ PaneInv /\ [PaneNext]_allVars => PaneInv'
<1>. SUFFICES ASSUME IInv, PaneInv, [PaneNext]_allVars PROVE PaneInv'
  OBVIOUS
<1>1. CASE Agent
  BY <1>1, AppendEventStep, SendEventStep, RunEndsStep DEF Agent, RunStep
<1>2. CASE PaneHandler
  BY <1>2, PaneAcceptedStep, PaneWrittenStep, PaneHandlerEndsStep DEF PaneHandler
<1>3. CASE PaneGone \/ OtherClient \/ HandleRun
  BY <1>3, PaneHandlerEndsStep, OtherClientStep, HandleRunStep
<1>4. CASE OnMessage \/ OnServerEnd \/ OnConnectionLost \/ Cleanup
  BY <1>4, OnMessageStep, OnServerEndStep, PaneClosesStep
<1>5. CASE UNCHANGED allVars
  BY <1>5 DEF allVars, vars, runVars, subVars, paneVars, PaneInv, LogShape, PaneTyped, Stages,
    Increasing, Ahead, ReplayWhole, Covered, NoEndShown, SentWhole, DoneSays, ErrorSays, Over,
    InChannel, IsShown, OnWire, TakenAway, Last
<1>. QED
  BY <1>1, <1>2, <1>3, <1>4, <1>5 DEF PaneNext

-----------------------------------------------------------------------------
(* Every event of the run is where PaneInv says, in every reachable state. *)
THEOREM PaneInvariance == PaneSpec => [](IInv /\ PaneInv)
<1>1. PaneInit => IInv /\ PaneInv
  BY InitHolds, InitPaneInv DEF PaneInit
<1>2. IInv /\ PaneInv /\ [PaneNext]_allVars => IInv' /\ PaneInv'
  <2>1. IInv /\ [Next]_vars => IInv'
    BY TypeStep, ProgressStep, ReplaysStep, ChanOrderStep, GotOrderStep, ApartStep, AccountedStep,
      RoomStep DEF IInv
  <2>. QED
    BY <2>1, StreamStep, PaneInvStep
<1>. QED
  BY <1>1, <1>2, PTL DEF PaneSpec

(* A run the store calls done has ended, and the pane shows each of its    *)
(* events once and in order but those the buffer had no room for or that   *)
(* another connection took: collection-pane.tsx and the agent's stream.    *)
THEOREM DoneShowsAllHolds == PaneSpec => []DoneShowsAll
<1>1. ASSUME IInv, PaneInv PROVE DoneShowsAll
  <2>1. TypeOK /\ PaneTyped /\ DOMAIN shown = 1 .. Len(shown)
        /\ \A s \in Subs : DOMAIN got[s] = 1 .. Len(got[s])
    BY <1>1 DEF IInv, PaneInv, TypeOK, PaneTyped
  <2>. SUFFICES ASSUME status = "done" PROVE DoneShowsAll
    BY DEF DoneShowsAll
  <2>2. Over /\ \A n \in 1 .. Len(events) : IsShown(n) \/ n \in dropped \/ TakenAway(n)
    BY <1>1 DEF PaneInv, DoneSays
  <2>3. Ended(events)
    BY <1>1, <2>2 DEF IInv, Progress, Over
  <2>4. \A n \in 1 .. Len(events) : n \in Shown \cup dropped \cup TakenByOthers
    BY <2>1, <2>2 DEF IsShown, TakenAway, Shown, TakenByOthers, Taken
  <2>5. \A i, j \in DOMAIN shown : i < j => shown[i] < shown[j]
    BY <1>1, <2>1 DEF PaneInv, Increasing
  <2>. QED
    BY <2>3, <2>4, <2>5 DEF DoneShowsAll
<1>. QED
  BY <1>1, PaneInvariance, PTL

(* A run the store calls failed has failed, or its connection was lost, or *)
(* its final event did not reach the pane's stream: the agent closing the  *)
(* stream at the end of a good run never turns it into a failed one.       *)
THEOREM ErrorHasCauseHolds == PaneSpec => []ErrorHasCause
<1>1. ASSUME IInv, PaneInv PROVE ErrorHasCause
  <2>1. \A s \in Subs : DOMAIN got[s] = 1 .. Len(got[s])
    BY <1>1 DEF IInv, TypeOK
  <2>2. TakenAway(Len(events)) => Len(events) \in TakenByOthers
    BY <2>1 DEF TakenAway, TakenByOthers, Taken
  <2>. QED
    BY <1>1, <2>2 DEF PaneInv, ErrorSays, ErrorHasCause
<1>. QED
  BY <1>1, PaneInvariance, PTL

-----------------------------------------------------------------------------
PaneLog == [i \in DOMAIN shown |-> events[shown[i]]]

(* Only a message changes what is shown, and it appends to it: a start can *)
(* only be first, and nothing follows an end.                              *)
LEMMA LogStep == IInv /\ PaneInv /\ [PaneNext]_allVars => [Promise!Next]_PaneLog
<1>. SUFFICES ASSUME IInv, PaneInv, [PaneNext]_allVars, PaneLog' # PaneLog PROVE Promise!Next
  OBVIOUS
<1>1. TypeOK /\ PaneTyped /\ DOMAIN shown = 1 .. Len(shown) /\ Len(shown) \in Nat
      /\ \A i \in 1 .. Len(shown) : shown[i] \in 1 .. Len(events)
  BY Lengths DEF IInv, PaneInv, PaneTyped
<1>2. CASE OnMessage
  <2>1. PICK h \in 1 .. Len(events) :
          /\ h = wire[1] /\ Len(wire) \in Nat \ {0} /\ events' = events /\ Len(events) \in Nat
          /\ shown' = Append(shown, h)
    BY <1>1, <1>2, WireTail, Lengths DEF OnMessage, vars, runVars
  <2>2. /\ DOMAIN shown' = 1 .. Len(shown) + 1 /\ shown'[Len(shown) + 1] = h
        /\ \A i \in 1 .. Len(shown) : shown'[i] = shown[i] /\ shown[i] < h
    BY <1>1, <2>1, ShownAppend DEF PaneInv, Increasing
  <2>3. events \in Seq(Types) /\ events[h] \in Types /\ \A i \in 1 .. Len(shown) : events[shown[i]] \in Types
    BY <1>1 DEF TypeOK, Types
  <2>4. /\ PaneLog \in Seq(Types) /\ Len(PaneLog) = Len(shown)
        /\ \A i \in 1 .. Len(shown) : PaneLog[i] = events[shown[i]]
    <3>1. PaneLog = [i \in 1 .. Len(shown) |-> events[shown[i]]]
      BY <1>1 DEF PaneLog
    <3>. QED
      BY <1>1, <2>3, <3>1
  <2>5. PaneLog' = Append(PaneLog, events[h])
    <3>1. PaneLog' = [i \in 1 .. Len(shown) + 1 |-> events[shown'[i]]]
      BY <2>1, <2>2 DEF PaneLog
    <3>2. /\ \A i \in 1 .. Len(shown) + 1 : events[shown'[i]] \in Types
          /\ \A i \in 1 .. Len(shown) + 1 : PaneLog'[i] = events[shown'[i]]
      BY <1>1, <2>2, <2>3, <3>1
    <3>3. PaneLog' \in Seq(Types) /\ Len(PaneLog') = Len(shown) + 1
      BY <1>1, <3>1, <3>2
    <3>4. /\ Append(PaneLog, events[h]) \in Seq(Types)
          /\ Len(Append(PaneLog, events[h])) = Len(shown) + 1
          /\ Append(PaneLog, events[h])[Len(shown) + 1] = events[h]
          /\ \A i \in 1 .. Len(shown) : Append(PaneLog, events[h])[i] = PaneLog[i]
      BY <2>3, <2>4, AppendProperties
    <3>5. \A i \in 1 .. Len(PaneLog') : PaneLog'[i] = Append(PaneLog, events[h])[i]
      BY <1>1, <2>2, <2>4, <3>2, <3>3, <3>4
    <3>. QED
      BY <3>3, <3>4, <3>5, SeqEqual
  <2>6. \A i \in 1 .. Len(shown) : PaneLog[i] \notin Final
    <3>1. \A i \in 1 .. Len(shown) : shown[i] \in 1 .. Len(events) /\ shown[i] # Len(events)
      BY <1>1, <2>1, <2>2
    <3>. QED
      BY <2>4, <3>1 DEF PaneInv, LogShape
  <2>7. ~(PaneLog # <<>> /\ PaneLog[Len(PaneLog)] \in Final)
    BY <1>1, <2>4, <2>6, EmptySeq
  <2>8. CASE events[h] = "start"
    <3>1. h = 1 /\ Len(shown) = 0
      BY <1>1, <2>1, <2>2, <2>8 DEF PaneInv, LogShape
    <3>2. PaneLog = <<>> /\ PaneLog' = <<"start">>
      BY <2>4, <2>5, <2>8, <3>1, EmptySeq
    <3>. QED
      BY <3>2 DEF Promise!Next, Promise!Start, PaneLog
  <2>9. CASE events[h] = "request"
    BY <2>4, <2>5, <2>7, <2>9 DEF Promise!Next, Promise!Request, Promise!Over, Promise!Final, Final, PaneLog
  <2>10. CASE events[h] \in Final
    BY <2>4, <2>5, <2>7, <2>10 DEF Promise!Next, Promise!End, Promise!Over, Promise!Final, Final, PaneLog
  <2>. QED
    BY <2>3, <2>8, <2>9, <2>10 DEF Types
<1>3. CASE \E type \in {"start", "request", "error", "done"} : AppendEvent(type) /\ UNCHANGED paneVars
  <2>1. UNCHANGED shown /\ \A n \in 1 .. Len(events) : events'[n] = events[n]
    BY <1>1, <1>3, AppendProperties DEF AppendEvent, paneVars, TypeOK
  <2>. QED
    BY <1>1, <2>1 DEF PaneLog
<1>4. CASE UNCHANGED <<events, shown>>
  BY <1>4 DEF PaneLog
<1>. QED
  BY <1>2, <1>3, <1>4 DEF PaneNext, Agent, RunStep, SendEvent, Finish, CloseChannel, PaneHandler,
    PaneAccepted, PaneWritten, PaneHandlerEnds, PaneGone, OtherClient, HandlerStep, CheckDone, Receive,
    ChannelClosed, CtxDone, ClientLeaves, Connect, HandleRun, OnServerEnd, OnConnectionLost, OnError,
    Cleanup, allVars, vars, runVars, paneVars

(* What the pane shows of a run keeps the promise of RunLog: a start only  *)
(* first, then requests, one end, and nothing after it, whether it came    *)
(* from the live stream, from a replay, or stopped half-way.               *)
THEOREM KeepsRunLogHolds == PaneSpec => KeepsRunLog
<1>1. PaneInit => Promise!Init
  <2>1. ASSUME PaneInit PROVE DOMAIN shown = {}
    BY <2>1 DEF PaneInit
  <2>. QED
    BY <2>1 DEF Promise!Init, PaneInit
<1>2. PaneSpec => [][Promise!Next]_PaneLog
  BY LogStep, PaneInvariance, PTL DEF PaneSpec
<1>. QED
  BY <1>1, <1>2, PTL DEF PaneSpec, KeepsRunLog, Promise!Spec, PaneLog

-----------------------------------------------------------------------------
(***************************************************************************)
(* What keeps a pane waiting, and what is left until it is told.           *)
(***************************************************************************)
Longest == Planned + Looped + 2

(* With what the model allows setNextRequest to add, the log is finite.    *)
LogBounded ==
  /\ Len(events) <= Longest
  /\ phase = "ready" \/ (events # <<>> /\ Last(events) \notin Final) => Len(events) < Longest

(* Weights: an event to come passes the goroutine, the channel and the     *)
(* wire, and a replay writes all of the log to the wire.                   *)
PhaseLeft == IF phase = "sending" THEN 6 ELSE IF phase = "finishing" THEN 2 ELSE IF phase = "closing" THEN 1 ELSE 0
ConnLeft ==
  IF conn[Pane] = "none" THEN Longest + 5 ELSE IF conn[Pane] = "asked" THEN Longest + 3
  ELSE IF conn[Pane] = "live" THEN 2 ELSE IF conn[Pane] = "leaving" THEN 1 ELSE 0
ListenLeft == IF es = "open" THEN 1 ELSE 0
PaneLeft == 7 * (Longest - Len(events)) + PhaseLeft + 2 * Len(ch) + Len(wire) + ConnLeft + ListenLeft

LEMMA LogBoundedStep ==
  ASSUME IInv, LogBounded, [Next]_vars
  PROVE  LogBounded'
<1>1. Len(events) \in Nat /\ Longest \in Nat /\ Planned \in Nat /\ Looped \in Nat
  BY SizeAssumption DEF IInv, TypeOK, Longest
<1>2. ASSUME NEW type \in {"start", "request", "error", "done"}, AppendEvent(type) PROVE LogBounded'
  <2>1. Len(events') = Len(events) + 1 /\ Last(events') = type /\ phase' = "sending"
    BY <1>2, LogAppend DEF AppendEvent, IInv, Last
  <2>2. Len(events) < Longest
    BY <1>2 DEF AppendEvent, LogBounded
  <2>3. type = "start" => Len(events) = 0
    BY <1>2, EmptySeq DEF AppendEvent
  <2>4. type = "request" => Len(events) <= Planned + Looped
    BY <1>2 DEF AppendEvent
  <2>. QED
    BY <1>1, <2>1, <2>2, <2>3, <2>4 DEF LogBounded, Longest, Final
<1>3. ASSUME SendEvent PROVE LogBounded'
  <2>1. events # <<>> /\ events' = events /\ (phase' = "ready" => Last(events) \notin Final)
    BY <1>3 DEF SendEvent, IInv, Progress
  <2>. QED
    BY <2>1 DEF LogBounded, Longest, Last
<1>4. ASSUME UNCHANGED <<events, phase>> \/ Finish \/ CloseChannel PROVE LogBounded'
  BY <1>4 DEF LogBounded, Longest, Last, Finish, CloseChannel
<1>. QED
  BY <1>2, <1>3, <1>4 DEF Next, RunStep, HandlerStep, Connect, CheckDone, Receive, ChannelClosed, ClientLeaves,
    CtxDone, GetRun, vars, runVars

LEMMA LeftTypes ==
  ASSUME TypeOK, PaneTyped, LogBounded
  PROVE  /\ Longest - Len(events) \in Nat /\ PhaseLeft \in 0 .. 6 /\ Len(ch) \in Nat /\ Len(wire) \in Nat
         /\ ConnLeft \in Nat /\ ListenLeft \in 0 .. 1 /\ Longest \in Nat /\ Len(events) \in Nat
<1>1. Longest \in Nat
  BY SizeAssumption DEF Longest
<1>2. Len(events) \in Nat /\ Len(ch) \in Nat /\ Len(wire) \in Nat
  BY Lengths
<1>. QED
  BY <1>1, <1>2 DEF LogBounded, PhaseLeft, ConnLeft, ListenLeft

(* The steps that count.                                                   *)
Counts ==
  \/ Agent \/ PaneHandler \/ PaneGone \/ HandleRun
  \/ OnMessage \/ OnServerEnd \/ OnConnectionLost \/ Cleanup

LEMMA AgentCounts ==
  ASSUME IInv, PaneInv, LogBounded, Agent
  PROVE  PaneLeft' < PaneLeft
<1>1. /\ Longest - Len(events) \in Nat /\ Len(ch) \in Nat /\ Len(wire) \in Nat /\ ConnLeft \in Nat
      /\ ListenLeft \in 0 .. 1 /\ Longest \in Nat /\ Len(events) \in Nat
  BY LeftTypes DEF IInv, PaneInv
<1>2. wire' = wire /\ ConnLeft' = ConnLeft /\ ListenLeft' = ListenLeft /\ Longest' = Longest
  BY DEF Agent, RunStep, AppendEvent, SendEvent, Finish, CloseChannel, ConnLeft, ListenLeft, Longest, subVars, paneVars
<1>3. CASE \E type \in {"start", "request", "error", "done"} : AppendEvent(type)
  <2>1. Len(events') = Len(events) + 1 /\ ch' = ch /\ PhaseLeft = 0 /\ PhaseLeft' = 6
    BY <1>3, LogAppend DEF AppendEvent, IInv, PhaseLeft
  <2>. QED
    BY <1>1, <1>2, <2>1 DEF PaneLeft
<1>4. CASE SendEvent
  <2>1. events # <<>>
    BY <1>4 DEF SendEvent, IInv, Progress
  <2>2. Len(ch') = Len(ch) + 1 \/ Len(ch') = Len(ch)
    BY <1>4, <2>1, ChanAppend DEF SendEvent, IInv
  <2>3. events' = events /\ PhaseLeft = 6 /\ PhaseLeft' \in {0, 2}
    BY <1>4 DEF SendEvent, PhaseLeft
  <2>4. PICK c \in Nat, p \in 0 .. 2 : c = Len(ch') /\ p = PhaseLeft' /\ c <= Len(ch) + 1
    BY <1>1, <2>2, <2>3
  <2>5. PICK k \in Nat : k = Longest - Len(events)
    BY <1>1
  <2>6. PaneLeft' = 7 * k + p + 2 * c + Len(wire) + ConnLeft + ListenLeft
    BY <1>2, <2>3, <2>4, <2>5 DEF PaneLeft
  <2>7. PaneLeft = 7 * k + 6 + 2 * Len(ch) + Len(wire) + ConnLeft + ListenLeft
    BY <2>3, <2>5 DEF PaneLeft
  <2>8. PICK n \in Nat, m \in Nat, x \in Nat, y \in Nat :
           n = Len(ch) /\ m = Len(wire) /\ x = ConnLeft /\ y = ListenLeft
    BY <1>1
  <2>9. 7 * k + p + 2 * c + m + x + y < 7 * k + 6 + 2 * n + m + x + y
    <3>1. c <= n + 1 /\ p <= 2 /\ p \in Nat
      BY <2>4, <2>8
    <3>. QED
      BY <3>1
  <2>. QED
    BY <2>6, <2>7, <2>8, <2>9
<1>5. CASE Finish \/ CloseChannel
  <2>1. events' = events /\ ch' = ch /\ PhaseLeft \in 0 .. 2 /\ PhaseLeft' = PhaseLeft - 1
    BY <1>5 DEF Finish, CloseChannel, PhaseLeft
  <2>. QED
    BY <1>1, <1>2, <2>1 DEF PaneLeft
<1>. QED
  BY <1>3, <1>4, <1>5 DEF Agent, RunStep

LEMMA HandlerCounts ==
  ASSUME IInv, PaneInv, LogBounded, PaneHandler \/ PaneGone \/ HandleRun
  PROVE  PaneLeft' < PaneLeft
<1>1. /\ Longest - Len(events) \in Nat /\ PhaseLeft \in 0 .. 6 /\ Len(ch) \in Nat /\ Len(wire) \in Nat
      /\ ConnLeft \in Nat /\ ListenLeft \in 0 .. 1 /\ Longest \in Nat /\ Len(events) \in Nat
  BY LeftTypes DEF IInv, PaneInv
<1>2. events' = events /\ PhaseLeft' = PhaseLeft /\ Longest' = Longest
  BY DEF PaneHandler, PaneAccepted, PaneWritten, PaneHandlerEnds, PaneGone, HandleRun, CheckDone, Receive,
    ChannelClosed, CtxDone, ClientLeaves, Connect, PhaseLeft, Longest, runVars
<1>3. conn \in [Subs -> {"none", "asked", "live", "leaving", "ended"}] /\ Pane \in Subs
  BY PaneAssumption DEF IInv, TypeOK
<1>4. CASE PaneAccepted
  <2>1. ch' = ch /\ ListenLeft' = ListenLeft /\ ConnLeft = Longest + 3 /\ ConnLeft' \in {0, 2}
    BY <1>3, <1>4 DEF PaneAccepted, CheckDone, ConnLeft, ListenLeft, paneVars, runVars, Longest
  <2>2. Len(wire') = Len(wire) \/ Len(wire') = Len(wire) + Len(events)
    <3>1. WholeLog \in Seq(1 .. Len(events)) /\ Len(WholeLog) = Len(events)
      <4>1. WholeLog \in [1 .. Len(events) -> 1 .. Len(events)]
        BY DEF WholeLog
      <4>. QED
        BY <1>1, <4>1, SeqDef, LenProperties
    <3>2. wire \in Seq(1 .. Len(events))
      BY DEF PaneInv, PaneTyped
    <3>3. Len(wire \o WholeLog) = Len(wire) + Len(events)
      <4>1. PICK q, T : q = WholeLog /\ T = 1 .. Len(events)
        OBVIOUS
      <4>2. q \in Seq(T) /\ wire \in Seq(T) /\ Len(q) = Len(events)
        BY <3>1, <3>2, <4>1
      <4>3. Len(wire \o q) = Len(wire) + Len(q)
        BY <4>2, ConcatProperties
      <4>. QED
        BY <4>1, <4>2, <4>3
    <3>. QED
      BY <1>4, <3>3 DEF PaneAccepted
  <2>3. Len(events) <= Longest
    BY DEF LogBounded
  <2>. QED
    BY <1>1, <1>2, <2>1, <2>2, <2>3 DEF PaneLeft
<1>5. CASE PaneWritten
  <2>1. ch # <<>> /\ ch' = Tail(ch) /\ ConnLeft' = ConnLeft /\ ListenLeft' = ListenLeft
    BY <1>5 DEF PaneWritten, Receive, ConnLeft, ListenLeft, paneVars, Longest
  <2>2. Len(ch') = Len(ch) - 1
    BY <2>1, ChanTail DEF IInv
  <2>3. Len(wire') = Len(wire) \/ Len(wire') = Len(wire) + 1
    <3>1. wire \in Seq(1 .. Len(events)) /\ Head(ch) \in 1 .. Len(events)
      BY <2>1, ChanTail DEF PaneInv, PaneTyped, IInv
    <3>. QED
      BY <1>5, <3>1, AppendProperties DEF PaneWritten
  <2>. QED
    BY <1>1, <1>2, <2>1, <2>2, <2>3 DEF PaneLeft
<1>6. CASE PaneHandlerEnds \/ PaneGone
  <2>1. ch' = ch /\ wire' = wire /\ ListenLeft' = ListenLeft /\ ConnLeft' < ConnLeft
    BY <1>3, <1>6 DEF PaneHandlerEnds, PaneGone, ChannelClosed, CtxDone, ClientLeaves, ConnLeft, ListenLeft, paneVars,
      runVars, Longest
  <2>2. ConnLeft' \in Nat
    BY <1>1, <1>2 DEF ConnLeft
  <2>. QED
    BY <1>1, <1>2, <2>1, <2>2 DEF PaneLeft
<1>7. CASE HandleRun
  <2>1. ch' = ch /\ wire' = wire /\ ListenLeft' = 1 /\ ConnLeft = Longest + 5 /\ ConnLeft' = Longest + 3
    BY <1>3, <1>7 DEF HandleRun, Connect, ConnLeft, ListenLeft, runVars, Longest
  <2>. QED
    BY <1>1, <1>2, <2>1 DEF PaneLeft
<1>. QED
  BY <1>4, <1>5, <1>6, <1>7 DEF PaneHandler

LEMMA BrowserCounts ==
  ASSUME IInv, PaneInv, LogBounded, OnMessage \/ OnServerEnd \/ OnConnectionLost \/ Cleanup
  PROVE  PaneLeft' < PaneLeft
<1>1. /\ Longest - Len(events) \in Nat /\ PhaseLeft \in 0 .. 6 /\ Len(ch) \in Nat /\ Len(wire) \in Nat
      /\ ConnLeft \in Nat /\ Longest \in Nat /\ Len(events) \in Nat
  BY LeftTypes DEF IInv, PaneInv
<1>2. /\ events' = events /\ ch' = ch /\ PhaseLeft' = PhaseLeft /\ Longest' = Longest /\ ConnLeft' = ConnLeft
      /\ ListenLeft = 1
  BY DEF OnMessage, OnServerEnd, OnConnectionLost, OnError, Cleanup, PhaseLeft, ConnLeft, ListenLeft, Longest,
    vars, runVars, subVars
<1>3. wire \in Seq(1 .. Len(events))
  BY DEF PaneInv, PaneTyped
<1>4. CASE es' = "closed" /\ wire' = <<>>
  <2>1. Len(wire') = 0 /\ ListenLeft' = 0
    BY <1>4, EmptySeq DEF ListenLeft
  <2>. QED
    BY <1>1, <1>2, <2>1 DEF PaneLeft
<1>5. CASE OnMessage /\ wire' = Tail(wire) /\ UNCHANGED es
  <2>1. Len(wire') = Len(wire) - 1 /\ ListenLeft' = ListenLeft
    BY <1>3, <1>5, HeadTailProperties DEF OnMessage, ListenLeft
  <2>. QED
    BY <1>1, <1>2, <2>1 DEF PaneLeft
<1>. QED
  BY <1>4, <1>5 DEF OnMessage, OnServerEnd, OnConnectionLost, OnError, Cleanup

LEMMA OthersDoNotCount ==
  ASSUME IInv, PaneInv, LogBounded, OtherClient \/ UNCHANGED allVars
  PROVE  PaneLeft' <= PaneLeft
<1>1. /\ Longest - Len(events) \in Nat /\ PhaseLeft \in 0 .. 6 /\ Len(ch) \in Nat /\ Len(wire) \in Nat
      /\ ConnLeft \in Nat /\ ListenLeft \in 0 .. 1 /\ Longest \in Nat /\ Len(events) \in Nat
  BY LeftTypes DEF IInv, PaneInv
<1>2. conn'[Pane] = conn[Pane] /\ UNCHANGED <<events, phase, wire, es>>
  BY PaneAssumption DEF OtherClient, Connect, HandlerStep, CheckDone, Receive, ChannelClosed, CtxDone, ClientLeaves,
    IInv, TypeOK, paneVars, runVars, vars, subVars, allVars
<1>3. PhaseLeft' = PhaseLeft /\ ConnLeft' = ConnLeft /\ ListenLeft' = ListenLeft /\ Longest' = Longest
  BY <1>2 DEF PhaseLeft, ConnLeft, ListenLeft, Longest
<1>4. ch' = ch \/ (ch # <<>> /\ ch' = Tail(ch))
  BY DEF OtherClient, Connect, HandlerStep, CheckDone, Receive, ChannelClosed, CtxDone, ClientLeaves, runVars, vars,
    allVars
<1>5. Len(ch') <= Len(ch) /\ Len(ch') \in Nat
  BY <1>1, <1>4, ChanTail DEF IInv
<1>. QED
  BY <1>1, <1>2, <1>3, <1>5 DEF PaneLeft

(* While the pane listens, somebody who is fair has a step to take: the    *)
(* goroutine of the run, the handler of the pane's connection, or the      *)
(* browser with a message or with the end of the response.                 *)
SomebodyMoves ==
  status = "running" /\ es = "open" =>
    \/ phase # "end"
    \/ conn[Pane] \in {"asked", "leaving"} \/ (conn[Pane] = "live" /\ (ch # <<>> \/ closed))
    \/ wire # <<>> \/ conn[Pane] = "ended"

(* What is left of the run and its way to the pane only gets less, and     *)
(* does with each step of these: other clients that follow the run take    *)
(* events away from the pane, but keep nobody waiting.                     *)
TellsThePane == [][(Counts => PaneLeft' < PaneLeft) /\ PaneLeft' <= PaneLeft]_allVars
LeftIsNatural == PaneLeft \in Nat

(* So PaneSettles needs nothing but the fairness of PaneFairSpec: no       *)
(* interleaving of the run, the stream and other clients leaves a pane     *)
(* that is mounted in "running" with nothing to come, and none goes on for *)
(* ever.                                                                   *)
THEOREM PaneIsTold == PaneSpec => [](SomebodyMoves /\ LeftIsNatural) /\ TellsThePane
<1>1. PaneInit => LogBounded
  BY SizeAssumption, EmptySeq DEF PaneInit, Init, LogBounded, Longest
<1>2. IInv /\ PaneInv /\ LogBounded /\ [PaneNext]_allVars => LogBounded'
  BY LogBoundedStep, StreamStep
<1>3. IInv /\ PaneInv => SomebodyMoves
  BY PaneAssumption DEF SomebodyMoves, IInv, TypeOK, PaneInv, LogShape, Stages
<1>4. IInv /\ PaneInv /\ LogBounded => LeftIsNatural
  <2>. SUFFICES ASSUME TypeOK, PaneTyped, LogBounded PROVE PaneLeft \in Nat
    BY DEF LeftIsNatural, IInv, PaneInv
  <2>1. PICK k \in Nat : k = Longest - Len(events)
    BY LeftTypes
  <2>2. PaneLeft = 7 * k + PhaseLeft + 2 * Len(ch) + Len(wire) + ConnLeft + ListenLeft
    BY <2>1 DEF PaneLeft
  <2>3. PICK p \in Nat, n \in Nat, m \in Nat, x \in Nat, y \in Nat :
           p = PhaseLeft /\ n = Len(ch) /\ m = Len(wire) /\ x = ConnLeft /\ y = ListenLeft
    <3>1. PhaseLeft \in Nat /\ ListenLeft \in Nat
      BY DEF PhaseLeft, ListenLeft
    <3>2. Len(ch) \in Nat /\ Len(wire) \in Nat /\ ConnLeft \in Nat
      BY LeftTypes
    <3>. QED
      BY <3>1, <3>2
  <2>4. 7 * k + p + 2 * n + m + x + y \in Nat
    OBVIOUS
  <2>. QED
    BY <2>2, <2>3, <2>4
<1>5. IInv /\ PaneInv /\ LogBounded /\ LeftIsNatural /\ LeftIsNatural' /\ [PaneNext]_allVars =>
        [(Counts => PaneLeft' < PaneLeft) /\ PaneLeft' <= PaneLeft]_allVars
  <2>. SUFFICES ASSUME IInv, PaneInv, LogBounded, LeftIsNatural, LeftIsNatural', PaneNext
                PROVE  (Counts => PaneLeft' < PaneLeft) /\ PaneLeft' <= PaneLeft
    OBVIOUS
  <2>1. Counts => PaneLeft' < PaneLeft
    BY AgentCounts, HandlerCounts, BrowserCounts DEF Counts
  <2>2. Counts \/ OtherClient
    BY DEF PaneNext, Counts
  <2>. QED
    BY <2>1, <2>2, OthersDoNotCount DEF LeftIsNatural
<1>. QED
  BY <1>1, <1>2, <1>3, <1>4, <1>5, PaneInvariance, PTL DEF PaneSpec, TellsThePane
=============================================================================
