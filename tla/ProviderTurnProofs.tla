------------------------- MODULE ProviderTurnProofs -------------------------
(***************************************************************************)
(* Theorems about ProviderTurn, for every number of attempts, of lines a   *)
(* process writes and of lines the reader may keep.                        *)
(***************************************************************************)
EXTENDS ProviderTurn, SequenceTheorems, TLAPS

(* The process is gone when the reader was told so, writes no more when    *)
(* the reader is done, and belongs to an attempt.                          *)
ProcessLife ==
    /\ told => ~Running
    /\ reader = "done" => ~Running \/ ~child.open
    /\ Running => attempt >= 1
    /\ reader = "reading" => attempt >= 1

(* Where the process is dead, and with which exception the caller gets     *)
(* where.                                                                  *)
Within == {"feeding", "reading", "yielded", "joining", "reaping", "judging", "cleaning",
           "waiting"}

CallerPlaces ==
    /\ pc \in Within => attempt >= 1
    /\ pc \in {"begin", "waiting"} => attempt < MaxAttempts
    /\ pc \in {"begin", "waiting", "joining", "judging"} => Swept
    /\ pc \in {"feeding", "yielded", "reaping"} => mode # "chat"
    /\ pc = "joining" => mode = "chat"
    /\ pc = "yielded" => emitted
    /\ mode = "chat" /\ pc \in {"reading", "joining"} => safe
    /\ pc \in {"failed", "cleaning"} => raising # "none"
    /\ pc = "failed" => Swept \/ (mode = "astream" /\ emitted)
    /\ raising = "transient" => pc \in {"failed", "waiting", "ended"}
    /\ pc = "failed" /\ raising = "transient" => Swept /\ attempt >= 1

(* The reader says once, and last, why it stopped.                         *)
QueueOrder ==
    /\ \A i \in 1 .. Len(queue) : queue[i] \notin Lines => i = Len(queue) /\ reader = "done"
    /\ reader = "reading" => Len(queue) <= MaxBuffered
    /\ reader = "off" => queue = <<>>
    /\ reader = "done" /\ pc \in Within \ {"waiting"} => pipe = <<>>
    /\ pc \in {"reaping", "judging"} /\ mode # "chat" =>
         reader = "done" /\ queue # <<>> /\ queue[1] = "eof"

(* No line is taken twice ...                                              *)
NoneTwice ==
    IF mode = "chat"
    THEN LinesIn(queue) + Len(pipe) <= child.wrote /\ taken <= child.wrote
    ELSE taken + LinesIn(queue) + Len(pipe) <= child.wrote

(* ... and every one is on its way or with the caller, while the attempt   *)
(* lasts and nothing was thrown away.                                      *)
Accounted ==
    \/ attempt \in lost \/ "overflow" \in noted
    \/ pc \in {"begin", "cleaning", "failed", "waiting", "ended"}
    \/ mode = "chat" /\ pc = "judging" /\ taken = child.wrote
    \/ mode = "chat" /\ pc # "judging" /\ LinesIn(queue) + Len(pipe) = child.wrote
    \/ mode # "chat" /\ taken + LinesIn(queue) + Len(pipe) = child.wrote

(* An effect shows in a line that is still on its way, or in safe.         *)
Unsafe == ~safe \/ "overflow" \in noted

EffectsShow ==
    /\ pc \in {"begin", "waiting"} => worked \subseteq lost
    /\ attempt \in worked \ lost =>
         \/ Unsafe
         \/ pc \in {"cleaning", "failed", "ended"}
         \/ pc # "judging" /\ \E i \in 1 .. Len(pipe) : pipe[i] # "envelope"
         \/ pc # "judging" /\ \E i \in 1 .. LinesIn(queue) : queue[i] # "envelope"
    /\ attempt \in worked \ lost /\ pc = "failed" /\ raising = "transient" => ~safe

TurnInv ==
    /\ ProcessLife /\ CallerPlaces /\ QueueOrder /\ NoneTwice /\ Accounted /\ EffectsShow
    /\ ReplaysAreSafe /\ AnswersAreWhole /\ NothingOutlives

(* The inductive invariant. *)
IInv == TypeOK /\ TurnInv

-----------------------------------------------------------------------------
(* Lemmas. *)

(* What a kill leaves. *)
LEMMA DeadProcess ==
    ASSUME TypeOK
    PROVE  /\ child \in Processes /\ Dead \in Processes
           /\ Dead.run # "running" /\ ~Dead.helper
           /\ Dead.wrote = child.wrote /\ Dead.open = child.open
           /\ child.run # "running" => Dead.code = child.code /\ Dead.run = child.run
BY DEF TypeOK, Processes, Dead, Running

(* What the reader has for the caller can be counted. *)
LEMMA LinesCounted ==
    ASSUME IInv
    PROVE  LinesIn(queue) \in Nat /\ LinesIn(queue) <= Len(queue) /\ Len(queue) \in Nat
<1>1. Len(queue) \in Nat /\ (queue # <<>> => Len(queue) >= 1)
  BY DEF IInv, TypeOK
<1> QED
  BY <1>1 DEF LinesIn

(* What the reader adds comes last. *)
LEMMA LinesAppended ==
    ASSUME IInv, reader = "reading", NEW x \in Lines \cup {"eof", "limit"}
    PROVE  /\ Append(queue, x) \in Seq(Lines \cup {"eof", "limit"})
           /\ Append(queue, x) # <<>>
           /\ Len(Append(queue, x)) = Len(queue) + 1
           /\ LinesIn(queue) = Len(queue)
           /\ LinesIn(Append(queue, x)) = IF x \in Lines THEN Len(queue) + 1 ELSE Len(queue)
           /\ \A i \in 1 .. Len(queue) : Append(queue, x)[i] = queue[i] /\ queue[i] \in Lines
           /\ Append(queue, x)[Len(queue) + 1] = x
<1>1. queue \in Seq(Lines \cup {"eof", "limit"}) /\ Len(queue) \in Nat
  BY DEF IInv, TypeOK
<1>2. /\ Append(queue, x) \in Seq(Lines \cup {"eof", "limit"})
      /\ Append(queue, x) # <<>>
      /\ Len(Append(queue, x)) = Len(queue) + 1
      /\ \A i \in 1 .. Len(queue) : Append(queue, x)[i] = queue[i]
      /\ Append(queue, x)[Len(queue) + 1] = x
  BY <1>1
<1>3. \A i \in 1 .. Len(queue) : queue[i] \in Lines
  BY DEF IInv, TurnInv, QueueOrder
<1>4. LinesIn(queue) = Len(queue)
  <2>1. queue # <<>> => Len(queue) \in 1 .. Len(queue)
    BY <1>1
  <2> QED
    BY <1>3, <2>1 DEF LinesIn
<1>5. LinesIn(Append(queue, x)) = IF x \in Lines THEN Len(queue) + 1 ELSE Len(queue)
  BY <1>1, <1>2 DEF LinesIn
<1> QED
  BY <1>2, <1>3, <1>4, <1>5

(* What the caller takes came first. *)
LEMMA LinesTaken ==
    ASSUME IInv, queue # <<>>, Head(queue) \in Lines
    PROVE  /\ Head(queue) = queue[1]
           /\ Tail(queue) \in Seq(Lines \cup {"eof", "limit"})
           /\ Len(Tail(queue)) = Len(queue) - 1
           /\ Len(queue) >= 1
           /\ LinesIn(queue) >= 1
           /\ LinesIn(Tail(queue)) = LinesIn(queue) - 1
           /\ \A i \in 1 .. Len(queue) - 1 : Tail(queue)[i] = queue[i + 1]
<1>1. queue \in Seq(Lines \cup {"eof", "limit"}) /\ Len(queue) \in Nat /\ Len(queue) >= 1
  BY DEF IInv, TypeOK
<1>2. /\ Head(queue) = queue[1]
      /\ Tail(queue) \in Seq(Lines \cup {"eof", "limit"})
      /\ Len(Tail(queue)) = Len(queue) - 1
      /\ \A i \in 1 .. Len(queue) - 1 : Tail(queue)[i] = queue[i + 1]
  BY <1>1
<1>3. CASE Len(queue) = 1
  <2>1. Tail(queue) = <<>>
    BY <1>2, <1>3, EmptySeq, 1 - 1 = 0
  <2> QED
    BY <1>1, <1>2, <1>3, <2>1 DEF LinesIn
<1>4. CASE Len(queue) > 1
  <2>1. Tail(queue) # <<>>
    <3>1. Len(Tail(queue)) # 0
      BY <1>1, <1>2, <1>4
    <3> QED
      BY <3>1, EmptySeq
  <2>2. Len(queue) - 1 \in 1 .. Len(queue) - 1 /\ (Len(queue) - 1) + 1 = Len(queue)
    BY <1>1, <1>4
  <2>3. Tail(queue)[Len(queue) - 1] = queue[Len(queue)]
    BY <1>2, <2>2
  <2> QED
    BY <1>1, <1>2, <1>4, <2>1, <2>3 DEF LinesIn
<1> QED
  BY <1>1, <1>2, <1>3, <1>4

(* Once the caller has come to the end there is nothing behind it. *)
LEMMA OnlyTheEnd ==
    ASSUME IInv, queue # <<>>, queue[1] \notin Lines
    PROVE  Len(queue) = 1 /\ LinesIn(queue) = 0 /\ reader = "done"
<1>1. Len(queue) \in Nat /\ Len(queue) >= 1
  BY DEF IInv, TypeOK
<1> QED
  BY <1>1 DEF IInv, TurnInv, QueueOrder, LinesIn

-----------------------------------------------------------------------------
(* The invariant is kept, actor by actor. *)

(* The invariant holds at first. *)
LEMMA InitIInv == Init => IInv
<1> SUFFICES ASSUME Init PROVE IInv
  OBVIOUS
<1> USE DEF TurnInv, Running, Exited, Swept, Within, Unsafe
<1>1. child \in Processes /\ child.run = "none" /\ child.wrote = 0 /\ ~child.helper
  BY ProviderTurnAssumption DEF Init, NoProcess, Processes
<1>2. /\ queue \in Seq(Lines \cup {"eof", "limit"}) /\ Len(queue) = 0
      /\ pipe \in Seq(Lines) /\ Len(pipe) = 0 /\ LinesIn(queue) = 0
  BY DEF Init, LinesIn
<1>3. TypeOK
  <2>1. told \in BOOLEAN /\ cancel \in BOOLEAN /\ safe \in BOOLEAN /\ emitted \in BOOLEAN
    BY DEF Init
  <2>2. attempt \in 0 .. MaxAttempts /\ taken \in 0 .. MaxLines
          /\ Len(pipe) <= MaxLines /\ Len(queue) <= MaxBuffered + 1
    BY <1>2, ProviderTurnAssumption DEF Init
  <2> QED
    BY <1>1, <1>2, <2>1, <2>2 DEF Init, TypeOK, Places, Raised
<1>4. ProcessLife /\ CallerPlaces /\ QueueOrder
  BY <1>1, <1>2, ProviderTurnAssumption DEF Init, ProcessLife, CallerPlaces, QueueOrder
<1>5. NoneTwice /\ Accounted /\ EffectsShow
  BY <1>1, <1>2 DEF Init, NoneTwice, Accounted, EffectsShow
<1>6. ReplaysAreSafe /\ AnswersAreWhole /\ NothingOutlives
  BY <1>1 DEF Init, ReplaysAreSafe, AnswersAreWhole, NothingOutlives
<1> QED
  BY <1>3, <1>4, <1>5, <1>6 DEF IInv

(* The process writes only while somebody reads, and its line is kept. *)
LEMMA WritePreserves ==
    ASSUME IInv, NEW line \in Lines, Write(line)
    PROVE  IInv'
<1> USE DEF TurnInv, call, output, evidence, history, Running, Exited, Swept, Within, Unsafe
<1>1. /\ child \in Processes /\ pipe \in Seq(Lines)
      /\ child.run = "running" /\ child.open /\ child.wrote < MaxLines
      /\ child.wrote \in Nat /\ attempt \in 1 .. MaxAttempts
  <2>1. child \in Processes /\ pipe \in Seq(Lines) /\ attempt \in 0 .. MaxAttempts
    BY DEF IInv, TypeOK
  <2> QED
    BY <2>1, ProviderTurnAssumption DEF Write, Processes, IInv, ProcessLife
<1>2. reader # "done" /\ ~told
  BY <1>1 DEF IInv, ProcessLife
<1>3. pipe' = Append(pipe, line)
  BY <1>2 DEF Write
<1>4. /\ pipe' \in Seq(Lines) /\ Len(pipe') = Len(pipe) + 1 /\ Len(pipe) \in Nat
      /\ \A i \in 1 .. Len(pipe) : pipe'[i] = pipe[i]
      /\ pipe'[Len(pipe) + 1] = line
  BY <1>1, <1>3
<1>5. /\ child' = [child EXCEPT !.wrote = child.wrote + 1]
      /\ child' \in Processes
      /\ child'.wrote = child.wrote + 1 /\ child'.run = "running" /\ child'.open
      /\ child'.helper = child.helper
  BY <1>1, ProviderTurnAssumption DEF Write, Processes
<1>6. LinesIn(queue)' = LinesIn(queue) /\ queue' = queue /\ taken' = taken
        /\ LinesIn(queue) \in Nat /\ taken \in Nat
  BY LinesCounted DEF Write, LinesIn, IInv, TypeOK
<1>7. Len(pipe') <= MaxLines
  BY <1>1, <1>4, <1>5, <1>6, ProviderTurnAssumption DEF IInv, NoneTwice
<1>8. worked' \subseteq worked \cup {attempt} /\ worked \subseteq worked'
  BY DEF Write
<1>9. TypeOK'
  BY <1>1, <1>4, <1>5, <1>7, <1>8 DEF Write, IInv, TypeOK
<1>10. ProcessLife' /\ CallerPlaces'
  BY <1>1, <1>2, <1>5 DEF Write, IInv, ProcessLife, CallerPlaces
<1>11. QueueOrder'
  BY <1>2, <1>6 DEF Write, IInv, QueueOrder
<1>12. NoneTwice' /\ Accounted'
  <2>1. Len(pipe') = Len(pipe) + 1 /\ LinesIn(queue') = LinesIn(queue)
    BY <1>4, <1>6
  <2>2. NoneTwice'
    BY <1>1, <1>4, <1>5, <1>6, <2>1 DEF Write, IInv, NoneTwice
  <2>3. pc # "judging"
    BY <1>1 DEF IInv, CallerPlaces
  <2>4. Accounted'
    <3>1. /\ mode' = mode /\ attempt' = attempt /\ lost' = lost /\ noted' = noted
          /\ pc' = pc /\ taken' = taken
      BY DEF Write
    <3>2. LinesIn(queue') + Len(pipe') = child'.wrote
            <=> LinesIn(queue) + Len(pipe) = child.wrote
      <4>1. LinesIn(queue) \in Nat /\ Len(pipe) \in Nat /\ child.wrote \in Nat
        BY <1>1, <1>4, <1>6
      <4> HIDE DEF LinesIn
      <4> QED
        BY <1>5, <2>1, <4>1
    <3>3. taken' + LinesIn(queue') + Len(pipe') = child'.wrote
            <=> taken + LinesIn(queue) + Len(pipe) = child.wrote
      BY <1>1, <1>4, <1>5, <1>6, <2>1
    <3> QED
      BY <2>3, <3>1, <3>2, <3>3 DEF IInv, Accounted
  <2> QED
    BY <2>2, <2>4
<1>13. EffectsShow'
  <2>1. pc \notin {"begin", "waiting", "judging"} /\ (pc = "failed" => raising # "transient")
    BY <1>1 DEF IInv, CallerPlaces
  <2>2. ASSUME line # "envelope" PROVE Len(pipe') \in 1 .. Len(pipe') /\ pipe'[Len(pipe')] # "envelope"
    BY <1>4, <2>2
  <2>3. CASE line # "envelope"
    BY <2>1, <2>2, <2>3 DEF Write, EffectsShow
  <2>4. CASE line = "envelope"
    <3>1. worked' = worked
      BY <2>4 DEF Write
    <3>2. (\E i \in 1 .. Len(pipe) : pipe[i] # "envelope") =>
            \E i \in 1 .. Len(pipe') : pipe'[i] # "envelope"
      BY <1>4
    <3> QED
      BY <2>1, <3>1, <3>2, <1>6 DEF Write, IInv, EffectsShow
  <2> QED
    BY <2>3, <2>4
<1>14. ReplaysAreSafe'
  BY <1>8 DEF Write, IInv, ReplaysAreSafe
<1>15. AnswersAreWhole' /\ NothingOutlives'
  BY <1>1, <1>5 DEF Write, IInv, AnswersAreWhole, NothingOutlives
<1> QED
  BY <1>9, <1>10, <1>11, <1>12, <1>13, <1>14, <1>15 DEF IInv

(* The process lives and dies without disturbing it. *)
LEMMA ProcessPreserves ==
    ASSUME IInv,
ReadPrompt \/ CloseOutput \/ DescendantExits \/ (\E code \in {"ok", "transient",
           "permanent"} : Exit(code))
    PROVE  IInv'
<1> USE DEF IInv, TurnInv, call, output, evidence, history, Running, Exited, Swept, Goto, Raise,
        Within, Unsafe
<1>1. CASE ReadPrompt
  <2>1. child' \in Processes
    BY <1>1 DEF ReadPrompt, TypeOK, Processes
  <2>2. TypeOK'
    BY <1>1, <2>1 DEF ReadPrompt, TypeOK
  <2>3. TurnInv'
    BY <1>1
    DEF ReadPrompt, TypeOK, Processes,
        ProcessLife, CallerPlaces, QueueOrder, NoneTwice, Accounted, EffectsShow,
        ReplaysAreSafe, AnswersAreWhole, NothingOutlives
  <2> QED
    BY <2>2, <2>3
<1>2. CASE CloseOutput
  <2>1. child' \in Processes
    BY <1>2 DEF CloseOutput, TypeOK, Processes
  <2>2. TypeOK'
    BY <1>2, <2>1 DEF CloseOutput, TypeOK
  <2>3. TurnInv'
    BY <1>2
    DEF CloseOutput, TypeOK, Processes,
        ProcessLife, CallerPlaces, QueueOrder, NoneTwice, Accounted, EffectsShow,
        ReplaysAreSafe, AnswersAreWhole, NothingOutlives
  <2> QED
    BY <2>2, <2>3
<1>3. CASE DescendantExits
  <2>1. child' \in Processes
    BY <1>3 DEF DescendantExits, TypeOK, Processes
  <2>2. TypeOK'
    BY <1>3, <2>1 DEF DescendantExits, TypeOK
  <2>3. TurnInv'
    BY <1>3
    DEF DescendantExits, TypeOK, Processes,
        ProcessLife, CallerPlaces, QueueOrder, NoneTwice, Accounted, EffectsShow,
        ReplaysAreSafe, AnswersAreWhole, NothingOutlives
  <2> QED
    BY <2>2, <2>3
<1>4. CASE \E code \in {"ok", "transient", "permanent"} : Exit(code)
  <2>1. child' \in Processes
    BY <1>4 DEF Exit, TypeOK, Processes
  <2>2. TypeOK'
    BY <1>4, <2>1 DEF Exit, TypeOK
  <2>3. TurnInv'
    BY <1>4
    DEF Exit, TypeOK, Processes,
        ProcessLife, CallerPlaces, QueueOrder, NoneTwice, Accounted, EffectsShow,
        ReplaysAreSafe, AnswersAreWhole, NothingOutlives
  <2> QED
    BY <2>2, <2>3
<1> QED
BY <1>1, <1>2, <1>3, <1>4

(* The reader takes lines in order, and says last why it stopped. *)
LEMMA ReaderPreserves ==
    ASSUME IInv, ReadLine \/ Overflow \/ CutOff \/ ReadEnd
    PROVE  IInv'
<1> USE DEF TurnInv, call, output, evidence, history, Running, Exited, Swept, Within, Unsafe
<1>1. /\ reader = "reading" /\ attempt \in 1 .. MaxAttempts
      /\ queue \in Seq(Lines \cup {"eof", "limit"}) /\ Len(queue) \in Nat
      /\ pipe \in Seq(Lines) /\ Len(pipe) \in Nat /\ child \in Processes
      /\ child.wrote \in Nat /\ taken \in Nat /\ Len(queue) <= MaxBuffered
  <2>1. reader = "reading"
    BY DEF ReadLine, Overflow, CutOff, ReadEnd
  <2>2. child.wrote \in Nat
    BY DEF IInv, TypeOK, Processes
  <2> QED
    BY <2>1, <2>2, ProviderTurnAssumption DEF IInv, TypeOK, ProcessLife, QueueOrder
<1>2. ASSUME ReadLine
      PROVE  IInv'
  <2>1. /\ pipe # <<>> /\ Head(pipe) \in Lines /\ Head(pipe) = pipe[1]
        /\ Tail(pipe) \in Seq(Lines) /\ Len(Tail(pipe)) = Len(pipe) - 1
        /\ \A i \in 1 .. Len(pipe) - 1 : Tail(pipe)[i] = pipe[i + 1]
    BY <1>1, <1>2 DEF ReadLine
  <2>2. queue' = Append(queue, Head(pipe)) /\ pipe' = Tail(pipe)
    BY <1>2 DEF ReadLine
  <2>3. /\ queue' \in Seq(Lines \cup {"eof", "limit"}) /\ queue' # <<>>
        /\ Len(queue') = Len(queue) + 1
        /\ LinesIn(queue) = Len(queue) /\ LinesIn(queue') = Len(queue) + 1
        /\ \A i \in 1 .. Len(queue) : queue'[i] = queue[i] /\ queue[i] \in Lines
        /\ queue'[Len(queue) + 1] = Head(pipe)
    BY <1>1, <2>1, <2>2, LinesAppended
  <2>4. Len(queue) < MaxBuffered
    BY <1>2 DEF ReadLine, HasRoom
  <2>5. Len(pipe') <= MaxLines
    BY <1>1, <2>1, <2>2, ProviderTurnAssumption DEF IInv, TypeOK
  <2>6. TypeOK'
    BY <1>1, <1>2, <2>1, <2>2, <2>3, <2>4, <2>5, ProviderTurnAssumption
    DEF ReadLine, IInv, TypeOK
  <2>7. ProcessLife' /\ CallerPlaces'
    BY <1>2 DEF ReadLine, IInv, ProcessLife, CallerPlaces
  <2>8. QueueOrder'
    <3>1. \A i \in 1 .. Len(queue') : queue'[i] \in Lines
      BY <1>1, <2>1, <2>3
    <3> QED
      BY <1>1, <1>2, <3>1, <2>3, <2>4, ProviderTurnAssumption DEF ReadLine, IInv, QueueOrder
  <2>9. NoneTwice' /\ Accounted'
    <3>1. LinesIn(queue') + Len(pipe') = LinesIn(queue) + Len(pipe)
            /\ LinesIn(queue') \in Nat /\ Len(pipe') \in Nat
      BY <1>1, <2>1, <2>2, <2>3
    <3>2. taken + LinesIn(queue') + Len(pipe') = taken + LinesIn(queue) + Len(pipe)
      BY <1>1, <2>3, <3>1
    <3>3. /\ mode' = mode /\ child' = child /\ taken' = taken /\ attempt' = attempt
          /\ lost' = lost /\ noted' = noted /\ pc' = pc
      BY <1>2 DEF ReadLine
    <3> QED
      BY <3>1, <3>2, <3>3 DEF IInv, NoneTwice, Accounted
  <2>10. EffectsShow'
    <3>1. ASSUME NEW i \in 1 .. Len(pipe), pipe[i] # "envelope"
          PROVE  \/ \E j \in 1 .. Len(pipe') : pipe'[j] # "envelope"
                 \/ \E j \in 1 .. LinesIn(queue') : queue'[j] # "envelope"
      <4>1. CASE i = 1
        <5>1. Len(queue) + 1 \in 1 .. LinesIn(queue')
          BY <1>1, <2>3
        <5> QED
          BY <3>1, <4>1, <5>1, <2>1, <2>3
      <4>2. CASE i > 1
        <5>1. i - 1 \in 1 .. Len(pipe') /\ pipe'[i - 1] = pipe[i]
          BY <1>1, <3>1, <4>2, <2>1, <2>2
        <5> QED
          BY <3>1, <5>1
      <4> QED
        BY <4>1, <4>2
    <3>2. ASSUME NEW i \in 1 .. LinesIn(queue), queue[i] # "envelope"
          PROVE  \E j \in 1 .. LinesIn(queue') : queue'[j] # "envelope"
      <4>1. i \in 1 .. LinesIn(queue') /\ queue'[i] = queue[i]
        BY <1>1, <2>3, <3>2
      <4> QED
        BY <3>2, <4>1
    <3> QED
      BY <1>2, <3>1, <3>2 DEF ReadLine, IInv, EffectsShow
  <2>11. ReplaysAreSafe' /\ AnswersAreWhole' /\ NothingOutlives'
    BY <1>2 DEF ReadLine, IInv, ReplaysAreSafe, AnswersAreWhole, NothingOutlives
  <2> QED
    BY <2>6, <2>7, <2>8, <2>9, <2>10, <2>11 DEF IInv
<1>3. ASSUME NEW last \in {"eof", "limit"}, StopReading(last),
             child' \in {child, Dead}, lost' \in {lost, lost \cup {attempt}},
             noted' \in {noted, noted \cup {"overflow"}},
             ~Running' \/ ~child'.open,
             told => ~Running',
             pipe # <<>> => attempt \in lost' \/ "overflow" \in noted'
      PROVE  IInv'
  <2>0. last \notin Lines
    BY DEF Lines
  <2>1. queue' = Append(queue, last) /\ pipe' = <<>> /\ reader' = "done"
    BY <1>3 DEF StopReading
  <2>2. /\ queue' \in Seq(Lines \cup {"eof", "limit"}) /\ queue' # <<>>
        /\ Len(queue') = Len(queue) + 1
        /\ LinesIn(queue) = Len(queue) /\ LinesIn(queue') = Len(queue)
        /\ \A i \in 1 .. Len(queue) : queue'[i] = queue[i] /\ queue[i] \in Lines
    BY <1>1, <2>0, <2>1, LinesAppended
  <2>3. /\ child' \in Processes /\ child'.wrote = child.wrote
        /\ (Swept => Swept') /\ (~Running => ~Running')
    BY <1>3, DeadProcess DEF IInv
  <2>4. pipe' \in Seq(Lines) /\ Len(pipe') = 0
    BY <2>1
  <2>5. TypeOK'
    BY <1>1, <1>3, <2>1, <2>2, <2>3, <2>4, ProviderTurnAssumption DEF StopReading, IInv, TypeOK
  <2>6. ProcessLife' /\ CallerPlaces'
    BY <1>1, <1>3, <2>1, <2>3, <2>5 DEF StopReading, IInv, ProcessLife, CallerPlaces, TypeOK,
       Processes
  <2>7. QueueOrder'
    <3>1. pc \in {"reaping", "judging"} => mode = "chat"
      BY <1>1 DEF IInv, QueueOrder
    <3> QED
      BY <1>1, <1>3, <3>1, <2>1, <2>2 DEF StopReading, IInv, QueueOrder
  <2>8. NoneTwice'
    BY <1>1, <1>3, <2>2, <2>3, <2>4 DEF StopReading, IInv, NoneTwice
  <2>9. Accounted'
    <3>1. pipe = <<>> => Len(pipe) = 0
      OBVIOUS
    <3> QED
      BY <1>1, <1>3, <2>2, <2>3, <2>4, <3>1 DEF StopReading, IInv, Accounted
  <2>10. EffectsShow'
    <3>1. ASSUME NEW i \in 1 .. LinesIn(queue), queue[i] # "envelope"
          PROVE  \E j \in 1 .. LinesIn(queue') : queue'[j] # "envelope"
      BY <2>2, <3>1
    <3>2. (\E i \in 1 .. Len(pipe) : pipe[i] # "envelope") => pipe # <<>>
      OBVIOUS
    <3> QED
      BY <1>3, <3>1, <3>2 DEF StopReading, IInv, EffectsShow
  <2>11. ReplaysAreSafe' /\ AnswersAreWhole' /\ NothingOutlives'
    BY <1>3, <2>3 DEF StopReading, IInv, ReplaysAreSafe, AnswersAreWhole, NothingOutlives
  <2> QED
    BY <2>5, <2>6, <2>7, <2>8, <2>9, <2>10, <2>11 DEF IInv
<1>4. Terminated \in {child, Dead} /\ Terminated.run # "running"
  BY DeadProcess DEF IInv, Terminated
<1>5. CASE Overflow
  BY <1>3, <1>4, <1>5 DEF Overflow
<1>6. CASE CutOff
  BY <1>3, <1>6 DEF CutOff, IInv, ProcessLife
<1>7. CASE ReadEnd
  BY <1>3, <1>7 DEF ReadEnd, IInv, ProcessLife
<1> QED
  BY <1>2, <1>5, <1>6, <1>7

(* The watchdog, the cancel event and the notice of an exit. *)
LEMMA WatchdogPreserves ==
    ASSUME IInv,
Cancel \/ Notice \/ WatchCancel \/ WatchExit \/ WatchDue \/ WatchFires
    PROVE  IInv'
<1> USE DEF IInv, TurnInv, call, output, evidence, history, Running, Exited, Swept, Goto, Raise,
        Within, Unsafe
<1>1. CASE Cancel
  <2>1. TypeOK'
BY <1>1 DEF Cancel, TypeOK, Places, Raised
  <2>2. TurnInv'
    BY <1>1
    DEF Cancel, TypeOK, Processes,
        ProcessLife, CallerPlaces, QueueOrder, NoneTwice, Accounted, EffectsShow,
        ReplaysAreSafe, AnswersAreWhole, NothingOutlives
  <2> QED
    BY <2>1, <2>2
<1>2. CASE Notice
  <2>1. TypeOK'
BY <1>2, DeadProcess DEF Notice, Terminated, SweptChild, TypeOK, Places, Raised
  <2>2. TurnInv'
    BY <1>2, DeadProcess
    DEF Notice, Terminated, SweptChild, TypeOK, Processes,
        ProcessLife, CallerPlaces, QueueOrder, NoneTwice, Accounted, EffectsShow,
        ReplaysAreSafe, AnswersAreWhole, NothingOutlives
  <2> QED
    BY <2>1, <2>2
<1>3. CASE WatchCancel
  <2>1. TypeOK'
BY <1>3, DeadProcess DEF WatchCancel, Unwatched, Terminated, SweptChild, TypeOK, Places,
      Raised
  <2>2. TurnInv'
    BY <1>3, DeadProcess
    DEF WatchCancel, Unwatched, Terminated, SweptChild, TypeOK, Processes,
        ProcessLife, CallerPlaces, QueueOrder, NoneTwice, Accounted, EffectsShow,
        ReplaysAreSafe, AnswersAreWhole, NothingOutlives
  <2> QED
    BY <2>1, <2>2
<1>4. CASE WatchExit
  <2>1. TypeOK'
BY <1>4 DEF WatchExit, Unwatched, TypeOK, Places, Raised
  <2>2. TurnInv'
    BY <1>4
    DEF WatchExit, Unwatched, TypeOK, Processes,
        ProcessLife, CallerPlaces, QueueOrder, NoneTwice, Accounted, EffectsShow,
        ReplaysAreSafe, AnswersAreWhole, NothingOutlives
  <2> QED
    BY <2>1, <2>2
<1>5. CASE WatchDue
  <2>1. TypeOK'
BY <1>5 DEF WatchDue, TypeOK, Places, Raised
  <2>2. TurnInv'
    BY <1>5
    DEF WatchDue, TypeOK, Processes,
        ProcessLife, CallerPlaces, QueueOrder, NoneTwice, Accounted, EffectsShow,
        ReplaysAreSafe, AnswersAreWhole, NothingOutlives
  <2> QED
    BY <2>1, <2>2
<1>6. CASE WatchFires
  <2>1. TypeOK'
BY <1>6, DeadProcess DEF WatchFires, Unwatched, Terminated, SweptChild, TypeOK, Places,
      Raised
  <2>2. TurnInv'
    BY <1>6, DeadProcess
    DEF WatchFires, Unwatched, Terminated, SweptChild, TypeOK, Processes,
        ProcessLife, CallerPlaces, QueueOrder, NoneTwice, Accounted, EffectsShow,
        ReplaysAreSafe, AnswersAreWhole, NothingOutlives
  <2> QED
    BY <2>1, <2>2
<1> QED
BY <1>1, <1>2, <1>3, <1>4, <1>5, <1>6

(* An attempt begins. *)
LEMMA SpawnPreserves ==
    ASSUME IInv, Spawn
    PROVE  IInv'
<1> USE DEF TurnInv, call, output, evidence, history, Running, Exited, Swept, Within, Unsafe, Goto
<1>1. /\ pc = "begin" /\ ~cancel /\ attempt' = attempt + 1
      /\ pc' \in {"feeding", "reading"} /\ (pc' = "feeding" => mode # "chat")
      /\ reader' \in {"off", "reading"} /\ watch' \in {"off", "on"}
      /\ told' = FALSE /\ queue' = <<>> /\ pipe' = <<>> /\ noted' = {}
      /\ safe' = TRUE /\ emitted' = FALSE /\ taken' = 0
      /\ UNCHANGED <<mode, piped, cancel, raising, worked, lost>>
  BY DEF Spawn
<1>2. PICK descends \in BOOLEAN : child' = Fresh(~piped, descends)
  BY DEF Spawn
<1>3. child' \in Processes /\ child'.wrote = 0
  BY <1>2, ProviderTurnAssumption DEF Fresh, Processes, IInv, TypeOK
<1>4. attempt' \in 1 .. MaxAttempts
  BY <1>1, ProviderTurnAssumption DEF IInv, TypeOK, CallerPlaces
<1>5. /\ queue' \in Seq(Lines \cup {"eof", "limit"}) /\ Len(queue') = 0
      /\ pipe' \in Seq(Lines) /\ Len(pipe') = 0 /\ LinesIn(queue') = 0
  BY <1>1 DEF LinesIn
<1>6. TypeOK'
  <2>1. told' \in BOOLEAN /\ safe' \in BOOLEAN /\ emitted' \in BOOLEAN
    BY <1>1
  <2>2. taken' \in 0 .. MaxLines /\ Len(pipe') <= MaxLines /\ Len(queue') <= MaxBuffered + 1
    BY <1>1, <1>5, ProviderTurnAssumption
  <2>3. attempt' \in 0 .. MaxAttempts
    BY <1>4, ProviderTurnAssumption
  <2> QED
    BY <1>1, <1>3, <1>5, <2>1, <2>2, <2>3 DEF IInv, TypeOK, Places
<1>7. worked \subseteq lost
  BY <1>1 DEF IInv, EffectsShow
<1>8. ProcessLife' /\ CallerPlaces'
  BY <1>1, <1>4, ProviderTurnAssumption DEF IInv, ProcessLife, CallerPlaces
<1>9. QueueOrder'
  BY <1>1, <1>5, ProviderTurnAssumption DEF QueueOrder
<1>10. NoneTwice' /\ Accounted'
  BY <1>1, <1>3, <1>5 DEF NoneTwice, Accounted
<1>11. EffectsShow' /\ ReplaysAreSafe'
  BY <1>1, <1>7 DEF EffectsShow, ReplaysAreSafe
<1>12. AnswersAreWhole' /\ NothingOutlives'
  BY <1>1 DEF AnswersAreWhole, NothingOutlives
<1> QED
  BY <1>6, <1>8, <1>9, <1>10, <1>11, <1>12 DEF IInv

(* The caller gets the first of the lines. *)
LEMMA TakePreserves ==
    ASSUME IInv, TakeLine
    PROVE  IInv'
<1> USE DEF TurnInv, call, output, evidence, history, Running, Exited, Swept, Within, Unsafe, Goto
<1>1. /\ pc = "reading" /\ mode # "chat" /\ ~cancel /\ queue # <<>> /\ Head(queue) \in Lines
      /\ taken' = taken + 1 /\ queue' = Tail(queue)
      /\ pc' \in {"yielded", "reading"} /\ (pc' = "yielded" => emitted')
      /\ UNCHANGED <<mode, piped, cancel, raising, attempt, child, pipe, reader, told, watch,
                     noted, worked, lost>>
  BY DEF TakeLine, Taking
<1>2. /\ Head(queue) = queue[1]
      /\ queue' \in Seq(Lines \cup {"eof", "limit"})
      /\ Len(queue') = Len(queue) - 1 /\ Len(queue) >= 1 /\ Len(queue) \in Nat
      /\ LinesIn(queue) >= 1 /\ LinesIn(queue) \in Nat
      /\ LinesIn(queue') = LinesIn(queue) - 1
      /\ \A i \in 1 .. Len(queue) - 1 : queue'[i] = queue[i + 1]
  BY <1>1, LinesTaken, LinesCounted
<1>3. /\ taken \in Nat /\ Len(pipe) \in Nat /\ child.wrote \in 0 .. MaxLines
      /\ safe \in BOOLEAN /\ emitted \in BOOLEAN
  <2>1. child \in Processes /\ pipe \in Seq(Lines)
    BY DEF IInv, TypeOK
  <2> QED
    BY <2>1, ProviderTurnAssumption DEF IInv, TypeOK, Processes
<1>4. taken' + LinesIn(queue') + Len(pipe') = taken + LinesIn(queue) + Len(pipe)
  BY <1>1, <1>2, <1>3
<1>5. NoneTwice' /\ taken' \in 0 .. MaxLines
  <2>1. taken + LinesIn(queue) + Len(pipe) <= child.wrote
    BY <1>1 DEF IInv, NoneTwice
  <2> HIDE DEF LinesIn
  <2> QED
    BY <1>1, <1>2, <1>3, <1>4, <2>1, ProviderTurnAssumption DEF NoneTwice
<1>6. TypeOK'
  <2>1. safe' \in BOOLEAN
    BY DEF TakeLine
  <2>2. emitted' \in BOOLEAN
    BY DEF TakeLine
  <2> QED
    BY <1>1, <1>2, <1>5, <2>1, <2>2, ProviderTurnAssumption DEF IInv, TypeOK, Places
<1>7. ProcessLife' /\ CallerPlaces'
  BY <1>1 DEF IInv, ProcessLife, CallerPlaces
<1>8. QueueOrder'
  <2>1. ASSUME NEW i \in 1 .. Len(queue'), queue'[i] \notin Lines
        PROVE  i = Len(queue') /\ reader = "done"
    <3>1. i + 1 \in 1 .. Len(queue) /\ queue[i + 1] \notin Lines
      BY <1>2, <2>1
    <3> QED
      BY <1>2, <3>1 DEF IInv, QueueOrder
  <2>2. reader # "off" /\ (reader = "done" => pipe = <<>>)
    BY <1>1 DEF IInv, QueueOrder
  <2>3. reader = "reading" => Len(queue') <= MaxBuffered
    BY <1>2, ProviderTurnAssumption DEF IInv, QueueOrder
  <2> QED
    BY <1>1, <2>1, <2>2, <2>3 DEF QueueOrder
<1>9. Accounted'
  BY <1>1, <1>4 DEF IInv, Accounted
<1>10. EffectsShow'
  <2>1. CASE queue[1] # "envelope"
    <3>1. ~safe'
      BY <1>2, <2>1 DEF TakeLine
    <3> QED
      BY <1>1, <3>1 DEF IInv, EffectsShow
  <2>2. CASE queue[1] = "envelope"
    <3>1. ~safe => ~safe'
      BY <1>3 DEF TakeLine
    <3>2. ASSUME NEW i \in 1 .. LinesIn(queue), queue[i] # "envelope"
          PROVE  \E j \in 1 .. LinesIn(queue') : queue'[j] # "envelope"
      <4>1. i > 1
        BY <2>2, <3>2
      <4>2. LinesIn(queue) <= Len(queue)
        BY LinesCounted
      <4> HIDE DEF LinesIn
      <4>3. i - 1 \in 1 .. LinesIn(queue') /\ i - 1 \in 1 .. Len(queue) - 1 /\ (i - 1) + 1 = i
        BY <1>2, <3>2, <4>1, <4>2
      <4>4. queue'[i - 1] = queue[i]
        BY <1>2, <4>3
      <4> QED
        BY <3>2, <4>3, <4>4
    <3> QED
      BY <1>1, <3>1, <3>2 DEF IInv, EffectsShow
  <2> QED
    BY <2>1, <2>2
<1>11. ReplaysAreSafe' /\ AnswersAreWhole' /\ NothingOutlives'
  BY <1>1 DEF IInv, ReplaysAreSafe, AnswersAreWhole, NothingOutlives
<1> QED
  BY <1>5, <1>6, <1>7, <1>8, <1>9, <1>10, <1>11 DEF IInv

(* chat counts what its reader has got, and knows when there was more. *)
LEMMA JoinPreserves ==
    ASSUME IInv, Join
    PROVE  IInv'
<1> USE DEF TurnInv, call, output, evidence, history, Running, Exited, Swept, Within, Unsafe, Goto
<1>1. /\ pc = "joining" /\ mode = "chat" /\ Swept /\ attempt \in 1 .. MaxAttempts
      /\ pc' = "judging" /\ reader' = "done" /\ pipe' = <<>>
      /\ taken' = LinesIn(queue)
      /\ safe' = (\A i \in 1 .. LinesIn(queue) : queue[i] = "envelope")
      /\ UNCHANGED <<mode, piped, cancel, raising, attempt, child, told, queue, watch, noted,
                     emitted, worked>>
      /\ lost' = IF pipe = <<>> THEN lost ELSE lost \cup {attempt}
  BY ProviderTurnAssumption DEF Join, IInv, TypeOK, CallerPlaces
<1>2. /\ LinesIn(queue) \in Nat /\ LinesIn(queue) + Len(pipe) <= child.wrote
      /\ Len(pipe) \in Nat /\ child.wrote \in 0 .. MaxLines
      /\ pipe' \in Seq(Lines) /\ Len(pipe') = 0
  <2>1. child \in Processes /\ pipe \in Seq(Lines)
    BY DEF IInv, TypeOK
  <2>2. LinesIn(queue) + Len(pipe) <= child.wrote
    BY <1>1 DEF IInv, NoneTwice
  <2>3. child.wrote \in 0 .. MaxLines
    BY <2>1 DEF Processes
  <2>4. pipe' \in Seq(Lines) /\ Len(pipe') = 0
    BY <1>1
  <2> QED
    BY <2>1, <2>2, <2>3, <2>4, LinesCounted
<1>3. taken' \in 0 .. MaxLines /\ taken' <= child.wrote /\ LinesIn(queue') = LinesIn(queue)
  <2> HIDE DEF LinesIn
  <2> QED
    BY <1>1, <1>2, ProviderTurnAssumption
<1>4. TypeOK'
  <2>1. safe' \in BOOLEAN
    BY <1>1
  <2> QED
    BY <1>1, <1>2, <1>3, <2>1, ProviderTurnAssumption DEF IInv, TypeOK, Places
<1>5. ProcessLife' /\ CallerPlaces'
  BY <1>1 DEF IInv, ProcessLife, CallerPlaces
<1>6. QueueOrder'
  BY <1>1 DEF IInv, QueueOrder
<1>7. NoneTwice' /\ Accounted'
  <2>1. pipe = <<>> => Len(pipe) = 0
    OBVIOUS
  <2>2. pipe = <<>> => LinesIn(queue) + Len(pipe) = LinesIn(queue)
    BY <2>1, <1>2
  <2>3. LinesIn(queue') + Len(pipe') <= child.wrote
    <3> HIDE DEF LinesIn
    <3> QED
      BY <1>2, <1>3
  <2> QED
    BY <1>1, <1>3, <2>2, <2>3 DEF IInv, NoneTwice, Accounted
<1>8. EffectsShow'
  <2>1. (\E i \in 1 .. Len(pipe) : pipe[i] # "envelope") => pipe # <<>>
    OBVIOUS
  <2>2. safe
    BY <1>1 DEF IInv, CallerPlaces
  <2> QED
    BY <1>1, <2>1, <2>2 DEF IInv, EffectsShow
<1>9. ReplaysAreSafe' /\ AnswersAreWhole' /\ NothingOutlives'
  BY <1>1 DEF IInv, ReplaysAreSafe, AnswersAreWhole, NothingOutlives
<1> QED
  BY <1>4, <1>5, <1>6, <1>7, <1>8, <1>9 DEF IInv

(* The caller waits for the process. *)
LEMMA WaitsPreserve ==
    ASSUME IInv,
CancelledBefore \/ Feed \/ FeedTimesOut \/ TakeCancelled \/ TakeLimit \/ TakeEnd \/
           PollCancelled \/ PollTimesOut \/ ChatEnds \/ Reap \/ ReapTimesOut
    PROVE  IInv'
<1> USE DEF IInv, TurnInv, call, output, evidence, history, Running, Exited, Swept, Goto, Raise,
        Within, Unsafe
<1>1. CASE CancelledBefore
  <2>1. TypeOK'
BY <1>1 DEF CancelledBefore, TypeOK, Places, Raised
  <2>2. TurnInv'
    BY <1>1
    DEF CancelledBefore, TypeOK, Processes,
        ProcessLife, CallerPlaces, QueueOrder, NoneTwice, Accounted, EffectsShow,
        ReplaysAreSafe, AnswersAreWhole, NothingOutlives
  <2> QED
    BY <2>1, <2>2
<1>2. CASE Feed
  <2>1. TypeOK'
BY <1>2 DEF Feed, TypeOK, Places, Raised
  <2>2. QueueOrder'
    BY <1>2, ProviderTurnAssumption DEF Feed, TypeOK, QueueOrder
  <2>3. TurnInv'
    BY <1>2, <2>2 DEF Feed, TypeOK, Processes, ProcessLife, CallerPlaces, NoneTwice, Accounted,
       EffectsShow, ReplaysAreSafe, AnswersAreWhole, NothingOutlives
  <2> QED
    BY <2>1, <2>3
<1>3. CASE FeedTimesOut
  <2>1. TypeOK'
BY <1>3 DEF FeedTimesOut, TypeOK, Places, Raised
  <2>2. TurnInv'
    BY <1>3
    DEF FeedTimesOut, TypeOK, Processes,
        ProcessLife, CallerPlaces, QueueOrder, NoneTwice, Accounted, EffectsShow,
        ReplaysAreSafe, AnswersAreWhole, NothingOutlives
  <2> QED
    BY <2>1, <2>2
<1>4. CASE TakeCancelled
  <2>1. TypeOK'
BY <1>4, DeadProcess DEF TakeCancelled, Taking, Terminated, SweptChild, TypeOK, Places,
      Raised
  <2>2. TurnInv'
    BY <1>4, DeadProcess
    DEF TakeCancelled, Taking, Terminated, SweptChild, TypeOK, Processes,
        ProcessLife, CallerPlaces, QueueOrder, NoneTwice, Accounted, EffectsShow,
        ReplaysAreSafe, AnswersAreWhole, NothingOutlives
  <2> QED
    BY <2>1, <2>2
<1>5. CASE TakeLimit
  <2>1. TypeOK'
BY <1>5 DEF TakeLimit, Taking, TypeOK, Places, Raised
  <2>2. TurnInv'
    BY <1>5
    DEF TakeLimit, Taking, TypeOK, Processes,
        ProcessLife, CallerPlaces, QueueOrder, NoneTwice, Accounted, EffectsShow,
        ReplaysAreSafe, AnswersAreWhole, NothingOutlives
  <2> QED
    BY <2>1, <2>2
<1>6. CASE TakeEnd
  <2>1. TypeOK'
BY <1>6 DEF TakeEnd, Taking, TypeOK, Places, Raised
  <2>2. mode # "chat" => queue # <<>> /\ queue[1] = "eof"
    BY <1>6 DEF TakeEnd, Taking, TypeOK, QueueOrder
  <2>3. mode # "chat" => LinesIn(queue) = 0 /\ reader = "done"
    BY <2>2, OnlyTheEnd DEF Lines
  <2>4. TurnInv'
    BY <1>6, <2>2, <2>3
    DEF TakeEnd, Taking, TypeOK, Processes,
        ProcessLife, CallerPlaces, QueueOrder, NoneTwice, Accounted, EffectsShow,
        ReplaysAreSafe, AnswersAreWhole, NothingOutlives
  <2> QED
    BY <2>1, <2>4
<1>7. CASE PollCancelled
  <2>1. TypeOK'
BY <1>7, DeadProcess DEF PollCancelled, Terminated, SweptChild, TypeOK, Places, Raised
  <2>2. TurnInv'
    BY <1>7, DeadProcess
    DEF PollCancelled, Terminated, SweptChild, TypeOK, Processes,
        ProcessLife, CallerPlaces, QueueOrder, NoneTwice, Accounted, EffectsShow,
        ReplaysAreSafe, AnswersAreWhole, NothingOutlives
  <2> QED
    BY <2>1, <2>2
<1>8. CASE PollTimesOut
  <2>1. TypeOK'
BY <1>8, DeadProcess DEF PollTimesOut, Terminated, SweptChild, TypeOK, Places, Raised
  <2>2. TurnInv'
    BY <1>8, DeadProcess
    DEF PollTimesOut, Terminated, SweptChild, TypeOK, Processes,
        ProcessLife, CallerPlaces, QueueOrder, NoneTwice, Accounted, EffectsShow,
        ReplaysAreSafe, AnswersAreWhole, NothingOutlives
  <2> QED
    BY <2>1, <2>2
<1>9. CASE ChatEnds
  <2>1. child' \in Processes
    BY <1>9, DeadProcess DEF ChatEnds, SweptChild
  <2>2. noted' \in SUBSET {"overflow", "cancelled", "fired"}
    BY <1>9 DEF ChatEnds, TypeOK
  <2>3. TypeOK'
    BY <1>9, <2>1, <2>2 DEF ChatEnds, TypeOK, Places
  <2>4. TurnInv'
    BY <1>9, DeadProcess
    DEF ChatEnds, Terminated, SweptChild, TypeOK, Processes,
        ProcessLife, CallerPlaces, QueueOrder, NoneTwice, Accounted, EffectsShow,
        ReplaysAreSafe, AnswersAreWhole, NothingOutlives
  <2> QED
    BY <2>3, <2>4
<1>10. CASE Reap
  <2>1. TypeOK'
BY <1>10, DeadProcess DEF Reap, Terminated, SweptChild, TypeOK, Places, Raised
  <2>2. mode # "chat" => queue # <<>> /\ queue[1] = "eof"
    BY <1>10 DEF Reap, TypeOK, QueueOrder
  <2>3. mode # "chat" => LinesIn(queue) = 0 /\ reader = "done"
    BY <2>2, OnlyTheEnd DEF Lines
  <2>4. TurnInv'
    BY <1>10, DeadProcess, <2>2, <2>3
    DEF Reap, Terminated, SweptChild, TypeOK, Processes,
        ProcessLife, CallerPlaces, QueueOrder, NoneTwice, Accounted, EffectsShow,
        ReplaysAreSafe, AnswersAreWhole, NothingOutlives
  <2> QED
    BY <2>1, <2>4
<1>11. CASE ReapTimesOut
  <2>1. TypeOK'
BY <1>11, DeadProcess DEF ReapTimesOut, Terminated, SweptChild, TypeOK, Places, Raised
  <2>2. TurnInv'
    BY <1>11, DeadProcess
    DEF ReapTimesOut, Terminated, SweptChild, TypeOK, Processes,
        ProcessLife, CallerPlaces, QueueOrder, NoneTwice, Accounted, EffectsShow,
        ReplaysAreSafe, AnswersAreWhole, NothingOutlives
  <2> QED
    BY <2>1, <2>2
<1> QED
BY <1>1, <1>2, <1>3, <1>4, <1>5, <1>6, <1>7, <1>8, <1>9, <1>10, <1>11

(* The caller comes back for more, or never. *)
LEMMA LeavesPreserve ==
    ASSUME IInv,
Resume \/ Leave \/ (\E exception \in {"cancelled", "permanent"} : Reject(exception)) \/
           Finalize \/ TaskCancelled \/ Clean
    PROVE  IInv'
<1> USE DEF IInv, TurnInv, call, output, evidence, history, Running, Exited, Swept, Goto, Raise,
        Within, Unsafe
<1>1. CASE Resume
  <2>1. TypeOK'
BY <1>1 DEF Resume, TypeOK, Places, Raised
  <2>2. TurnInv'
    BY <1>1
    DEF Resume, TypeOK, Processes,
        ProcessLife, CallerPlaces, QueueOrder, NoneTwice, Accounted, EffectsShow,
        ReplaysAreSafe, AnswersAreWhole, NothingOutlives
  <2> QED
    BY <2>1, <2>2
<1>2. CASE Leave
  <2>1. TypeOK'
BY <1>2 DEF Leave, TypeOK, Places, Raised
  <2>2. TurnInv'
    BY <1>2
    DEF Leave, TypeOK, Processes,
        ProcessLife, CallerPlaces, QueueOrder, NoneTwice, Accounted, EffectsShow,
        ReplaysAreSafe, AnswersAreWhole, NothingOutlives
  <2> QED
    BY <2>1, <2>2
<1>3. CASE \E exception \in {"cancelled", "permanent"} : Reject(exception)
  <2>1. TypeOK'
BY <1>3 DEF Reject, TypeOK, Places, Raised
  <2>2. TurnInv'
    BY <1>3
    DEF Reject, TypeOK, Processes,
        ProcessLife, CallerPlaces, QueueOrder, NoneTwice, Accounted, EffectsShow,
        ReplaysAreSafe, AnswersAreWhole, NothingOutlives
  <2> QED
    BY <2>1, <2>2
<1>4. CASE Finalize
  <2>1. TypeOK'
BY <1>4, DeadProcess DEF Finalize, Terminated, SweptChild, TypeOK, Places, Raised
  <2>2. TurnInv'
    BY <1>4, DeadProcess
    DEF Finalize, Terminated, SweptChild, TypeOK, Processes,
        ProcessLife, CallerPlaces, QueueOrder, NoneTwice, Accounted, EffectsShow,
        ReplaysAreSafe, AnswersAreWhole, NothingOutlives
  <2> QED
    BY <2>1, <2>2
<1>5. CASE TaskCancelled
  <2>1. TypeOK'
BY <1>5 DEF TaskCancelled, TypeOK, Places, Raised
  <2>2. TurnInv'
    BY <1>5
    DEF TaskCancelled, TypeOK, Processes,
        ProcessLife, CallerPlaces, QueueOrder, NoneTwice, Accounted, EffectsShow,
        ReplaysAreSafe, AnswersAreWhole, NothingOutlives
  <2> QED
    BY <2>1, <2>2
<1>6. CASE Clean
  <2>1. TypeOK'
BY <1>6, DeadProcess DEF Clean, Terminated, SweptChild, TypeOK, Places, Raised
  <2>2. TurnInv'
    BY <1>6, DeadProcess
    DEF Clean, Terminated, SweptChild, TypeOK, Processes,
        ProcessLife, CallerPlaces, QueueOrder, NoneTwice, Accounted, EffectsShow,
        ReplaysAreSafe, AnswersAreWhole, NothingOutlives
  <2> QED
    BY <2>1, <2>2
<1> QED
BY <1>1, <1>2, <1>3, <1>4, <1>5, <1>6

(* An attempt is judged, and maybe repeated. *)
LEMMA EndsPreserve ==
    ASSUME IInv,
Judge \/ Return \/ Fail \/ Retry \/ WaitEnds
    PROVE  IInv'
<1> USE DEF IInv, TurnInv, call, output, evidence, history, Running, Exited, Swept, Goto, Raise,
        Within, Unsafe
<1>1. CASE Judge
  <2>1. TypeOK'
BY <1>1 DEF Judge, Verdict, TypeOK, Places, Raised, Processes
  <2>2. TurnInv'
    BY <1>1
    DEF Judge, Verdict, TypeOK, Processes,
        ProcessLife, CallerPlaces, QueueOrder, NoneTwice, Accounted, EffectsShow,
        ReplaysAreSafe, AnswersAreWhole, NothingOutlives
  <2> QED
    BY <2>1, <2>2
<1>2. CASE Return
  <2>1. TypeOK'
BY <1>2 DEF Return, Verdict, TypeOK, Places, Raised
  <2>2. mode # "chat" => queue # <<>> /\ queue[1] = "eof"
    BY <1>2 DEF Return, TypeOK, QueueOrder
  <2>3. mode # "chat" => LinesIn(queue) = 0 /\ reader = "done"
    BY <2>2, OnlyTheEnd DEF Lines
  <2>4. TurnInv'
    BY <1>2, <2>2, <2>3
    DEF Return, Verdict, TypeOK, Processes,
        ProcessLife, CallerPlaces, QueueOrder, NoneTwice, Accounted, EffectsShow,
        ReplaysAreSafe, AnswersAreWhole, NothingOutlives
  <2> QED
    BY <2>1, <2>4
<1>3. CASE Fail
  <2>1. TypeOK'
BY <1>3 DEF Fail, Retryable, TypeOK, Places, Raised
  <2>2. TurnInv'
    BY <1>3
    DEF Fail, Retryable, TypeOK, Processes,
        ProcessLife, CallerPlaces, QueueOrder, NoneTwice, Accounted, EffectsShow,
        ReplaysAreSafe, AnswersAreWhole, NothingOutlives
  <2> QED
    BY <2>1, <2>2
<1>4. CASE Retry
  <2>1. TypeOK'
BY <1>4 DEF Retry, Retryable, TypeOK, Places, Raised
  <2>2. TurnInv'
    BY <1>4
    DEF Retry, Retryable, TypeOK, Processes,
        ProcessLife, CallerPlaces, QueueOrder, NoneTwice, Accounted, EffectsShow,
        ReplaysAreSafe, AnswersAreWhole, NothingOutlives
  <2> QED
    BY <2>1, <2>2
<1>5. CASE WaitEnds
  <2>1. TypeOK'
BY <1>5 DEF WaitEnds, TypeOK, Places, Raised
  <2>2. TurnInv'
    BY <1>5
    DEF WaitEnds, TypeOK, Processes,
        ProcessLife, CallerPlaces, QueueOrder, NoneTwice, Accounted, EffectsShow,
        ReplaysAreSafe, AnswersAreWhole, NothingOutlives
  <2> QED
    BY <2>1, <2>2
<1> QED
BY <1>1, <1>2, <1>3, <1>4, <1>5

(* A step that changes nothing. *)
LEMMA Stutter == IInv /\ UNCHANGED vars => IInv'
BY DEF vars, IInv, TurnInv, call, output, evidence, history, TypeOK, ProcessLife, CallerPlaces,
       QueueOrder, NoneTwice, Accounted, EffectsShow, ReplaysAreSafe, AnswersAreWhole,
       NothingOutlives, Running, Swept, Unsafe

-----------------------------------------------------------------------------
(* The theorems. *)

(* The inductive invariant: every line a process wrote is on its way, with *)
(* the caller or known to be lost, and every effect shows in one.          *)
THEOREM Invariance == Spec => []IInv
<1>1. IInv /\ [Next]_vars => IInv'
  <2> SUFFICES ASSUME IInv, [Next]_vars PROVE IInv'
    OBVIOUS
  <2>1. CASE Cancel \/ Watchdog
    BY <2>1, WatchdogPreserves DEF Watchdog
  <2>2. CASE Process
    BY <2>2, WritePreserves, ProcessPreserves DEF Process
  <2>3. CASE Reader
    BY <2>3, ReaderPreserves, WatchdogPreserves DEF Reader
  <2>4. CASE Caller \/ TaskCancelled
    BY <2>4, SpawnPreserves, TakePreserves, JoinPreserves, WaitsPreserve, LeavesPreserve,
       EndsPreserve DEF Caller
  <2>5. CASE Over \/ UNCHANGED vars
    BY <2>5, Stutter DEF Over
  <2> QED
    BY <2>1, <2>2, <2>3, <2>4, <2>5 DEF Next
<1> QED
  BY InitIInv, <1>1, PTL DEF Spec

(* Every reachable state is type-correct: the reader keeps no more than    *)
(* its limit, whatever the process writes.                                 *)
THEOREM TypeCorrect == Spec => []TypeOK
<1>1. IInv => TypeOK
  BY DEF IInv
<1> QED
  BY Invariance, <1>1, PTL

(* A turn is run again only while nothing that was read of it showed an    *)
(* effect, in chat, stream and astream alike.                              *)
THEOREM SafeReplay == Spec => []ReplaysAreSafe
<1>1. IInv => ReplaysAreSafe
  BY DEF IInv, TurnInv
<1> QED
  BY Invariance, <1>1, PTL

(* An answer that is not an error is all the process wrote, but for output *)
(* thrown away after its exit.                                             *)
THEOREM WholeAnswer == Spec => []AnswersAreWhole
<1>1. IInv => AnswersAreWhole
  BY DEF IInv, TurnInv
<1> QED
  BY Invariance, <1>1, PTL

(* No process outlives its turn or the wait before a retry, but for an     *)
(* astream whose inner generator is still to be finalized.                 *)
THEOREM NoOrphans == Spec => []NothingOutlives
<1>1. IInv => NothingOutlives
  BY DEF IInv, TurnInv
<1> QED
  BY Invariance, <1>1, PTL

-----------------------------------------------------------------------------
(* Refinement. *)

(* The reader has stopped wherever a turn may be answered or tried again,  *)
(* and chat's caller has nothing before its process is gone.               *)
Quiet ==
    /\ pc = "judging" => reader = "done"
    /\ pc \in {"begin", "waiting"} => reader # "reading"
    /\ pc = "failed" /\ ~emitted => reader # "reading"
    /\ pc = "ended" /\ raising = "none" => reader = "done"
    /\ mode = "chat" /\ pc \in {"reading", "joining"} => taken = 0

LEMMA InitQuiet == Init => Quiet
BY DEF Init, Quiet

(* Quiet is inductive relative to the invariant. *)
LEMMA NextQuiet == IInv /\ Quiet /\ [Next]_vars => Quiet'
<1> SUFFICES ASSUME IInv, Quiet, [Next]_vars PROVE Quiet'
  OBVIOUS
<1> USE DEF Quiet, call, output, evidence, history
<1>0. /\ pc \in {"feeding", "yielded", "reaping"} => mode # "chat"
      /\ pc = "yielded" => emitted
      /\ pc = "reaping" => reader = "done"
      /\ pc \in {"failed", "cleaning"} => raising # "none"
      /\ mode = "chat" \/ mode = "stream" \/ mode = "astream"
      /\ emitted \in BOOLEAN /\ cancel \in BOOLEAN
  BY DEF IInv, TypeOK, TurnInv, CallerPlaces, QueueOrder, Modes
<1>1. CASE Cancel \/ Process
  BY <1>1 DEF Cancel, Process, Write, ReadPrompt, CloseOutput, DescendantExits, Exit
<1>2. CASE Reader
  BY <1>2 DEF Reader, Notice, ReadLine, Overflow, CutOff, ReadEnd, StopReading
<1>3. CASE Watchdog
  BY <1>3 DEF Watchdog, WatchCancel, WatchExit, WatchDue, WatchFires, Unwatched
<1>4. CASE Spawn \/ CancelledBefore \/ Feed \/ FeedTimesOut
  BY <1>0, <1>4 DEF Spawn, CancelledBefore, Feed, FeedTimesOut, Goto, Raise
<1>5. CASE TakeCancelled \/ TakeLine \/ TakeLimit \/ TakeEnd \/ PollCancelled \/ PollTimesOut
  BY <1>0, <1>5 DEF TakeCancelled, TakeLine, TakeLimit, TakeEnd, PollCancelled, PollTimesOut,
     Taking, Goto, Raise
<1>6. CASE \/ Resume \/ Leave \/ Finalize \/ TaskCancelled
           \/ \E exception \in {"cancelled", "permanent"} : Reject(exception)
  BY <1>0, <1>6 DEF Resume, Leave, Finalize, TaskCancelled, Reject, Goto
<1>7. CASE ChatEnds \/ Join
  BY <1>0, <1>7 DEF ChatEnds, Join, Goto
<1>8. CASE Reap \/ ReapTimesOut \/ Clean
  BY <1>0, <1>8 DEF Reap, ReapTimesOut, Clean, Goto, Raise
<1>9. CASE Judge \/ Return \/ Fail \/ Retry \/ WaitEnds
  BY <1>0, <1>9 DEF Judge, Return, Fail, Retry, WaitEnds, Goto, Retryable
<1>10. CASE Over \/ UNCHANGED vars
  BY <1>10 DEF Over, vars
<1> QED
  BY <1>1, <1>2, <1>3, <1>4, <1>5, <1>6, <1>7, <1>8, <1>9, <1>10 DEF Next, Caller

(* What the caller decides by and where it stands give the phase. *)
LEMMA SamePhase == UNCHANGED <<pc, raising, safe, emitted, attempt>> => Phase' = Phase
BY DEF Phase, Retryable

(* A step of which nothing is seen but perhaps the death of the attempt. *)
LEMMA UnseenRefines ==
    ASSUME Phase' = Phase, child'.wrote = child.wrote, Swept => Swept',
           UNCHANGED <<attempt, taken, emitted, worked, lost>>
    PROVE  Abstract!Next \/ UNCHANGED Abstract!turn
<1>1. CASE Swept \/ ~Swept'
  <2>1. (~Swept)' = ~Swept
    BY <1>1
  <2> QED
    BY <2>1 DEF Abstract!turn
<1>2. CASE ~Swept /\ Swept'
  <2>1. ~Swept /\ (~Swept)' = FALSE
    BY <1>2
  <2>2. Abstract!Dies
    BY <2>1 DEF Abstract!Dies
  <2> QED
    BY <2>2 DEF Abstract!Next
<1> QED
  BY <1>1, <1>2

(* The turn's fate is settled, and an attempt that lives was shown. *)
LEMMA FailureRefines ==
    ASSUME Phase \in {"ready", "trying"}, Phase' = "failed", child'.wrote = child.wrote,
           Swept => Swept', Swept' \/ emitted,
           UNCHANGED <<attempt, taken, emitted, worked, lost>>
    PROVE  Abstract!Next
<1>1. (~Swept)' \in {~Swept, FALSE} /\ ((~Swept)' => emitted)
  OBVIOUS
<1>2. Abstract!Fail
  BY <1>1 DEF Abstract!Fail
<1> QED
  BY <1>2 DEF Abstract!Next

(* The process works, which changes what it wrote, or dies, or neither. *)
LEMMA ProcessRefines ==
    ASSUME IInv, Cancel \/ Process
    PROVE  Abstract!Next \/ UNCHANGED Abstract!turn
<1> USE DEF call, output, evidence, history
<1>1. child \in Processes
  BY DEF IInv, TypeOK
<1>2. ASSUME NEW line \in Lines, Write(line) PROVE Abstract!Next
  <2>1. /\ ~Swept /\ (~Swept)' = ~Swept
        /\ child'.wrote = child.wrote + 1
        /\ worked' \in {worked, worked \cup {attempt}}
    BY <1>1, <1>2 DEF Write, Swept, Running, Processes
  <2>2. Phase' = Phase
    BY <1>2, SamePhase DEF Write
  <2>3. UNCHANGED <<attempt, taken, emitted, lost>>
    BY <1>2 DEF Write
  <2>4. Abstract!Work
    BY <2>1, <2>2, <2>3 DEF Abstract!Work
  <2> QED
    BY <2>4 DEF Abstract!Next
<1>3. CASE Cancel
  <2>1. UNCHANGED <<pc, raising, safe, emitted, attempt, child, taken, worked, lost>>
    BY <1>3 DEF Cancel
  <2> QED
    BY <2>1, SamePhase, UnseenRefines DEF Swept
<1>4. ASSUME \/ ReadPrompt \/ CloseOutput \/ DescendantExits
             \/ \E code \in {"ok", "transient", "permanent"} : Exit(code)
      PROVE  Abstract!Next \/ UNCHANGED Abstract!turn
  <2>1. UNCHANGED <<pc, raising, safe, emitted, attempt, taken, worked, lost>>
    BY <1>4 DEF ReadPrompt, CloseOutput, DescendantExits, Exit
  <2>2. child'.wrote = child.wrote /\ (Swept => Swept')
    BY <1>1, <1>4 DEF ReadPrompt, CloseOutput, DescendantExits, Exit, Swept, Running, Processes
  <2> QED
    BY <2>1, <2>2, SamePhase, UnseenRefines
<1> QED
  BY <1>2, <1>3, <1>4 DEF Process

(* A kill is a death, or changes nothing that is seen. *)
LEMMA KillUnseen ==
    ASSUME IInv, child' \in {child, Dead}
    PROVE  child'.wrote = child.wrote /\ (Swept => Swept')
BY DeadProcess DEF IInv, Swept

(* The reader's work is unseen, but for the output it throws away. *)
LEMMA ReaderRefines ==
    ASSUME IInv, Quiet, Reader \/ Watchdog
    PROVE  Abstract!Next \/ UNCHANGED Abstract!turn
<1> USE DEF call, output, evidence, history
<1>1. CASE Notice \/ ReadLine \/ Overflow \/ ReadEnd \/ Watchdog
  <2>1. UNCHANGED <<pc, raising, safe, emitted, attempt, taken, worked, lost>>
    BY <1>1 DEF Notice, ReadLine, Overflow, ReadEnd, StopReading, Watchdog, WatchCancel,
       WatchExit, WatchDue, WatchFires, Unwatched
  <2>2. child' \in {child, Dead}
    BY <1>1 DEF Notice, ReadLine, Overflow, ReadEnd, Watchdog, WatchCancel,
       WatchExit, WatchDue, WatchFires, Terminated, SweptChild
  <2> QED
    BY <2>1, <2>2, KillUnseen, SamePhase, UnseenRefines
<1>2. CASE CutOff
  <2>1. /\ reader = "reading"
        /\ UNCHANGED <<pc, raising, safe, emitted, attempt, taken, worked, child>>
        /\ lost' = lost \cup {attempt}
    BY <1>2 DEF CutOff, StopReading
  <2>2. Phase \in {"trying", "failed"}
    BY <2>1 DEF Quiet, Phase
  <2>3. Phase' = Phase /\ (~Swept)' = ~Swept
    BY <2>1, SamePhase DEF Swept, Running
  <2>4. Abstract!Miss
    BY <2>1, <2>2, <2>3 DEF Abstract!Miss
  <2> QED
    BY <2>4 DEF Abstract!Next
<1> QED
  BY <1>1, <1>2 DEF Reader

(* An attempt begins. *)
LEMMA SpawnRefines ==
    ASSUME IInv, Spawn
    PROVE  Abstract!Next
<1>1. attempt < MaxAttempts /\ Swept /\ pc = "begin"
  BY DEF Spawn, IInv, TurnInv, CallerPlaces
<1>2. Phase = "ready" /\ Phase' = "trying"
  BY <1>1 DEF Phase, Spawn, Goto
<1>3. /\ ~Swept = FALSE /\ (~Swept)' = TRUE /\ child'.wrote = 0
      /\ attempt' = attempt + 1 /\ taken' = 0 /\ emitted' = FALSE
      /\ UNCHANGED <<worked, lost>>
  BY <1>1 DEF Spawn, Fresh, Swept, Running, history
<1>4. Abstract!Try
  BY <1>1, <1>2, <1>3 DEF Abstract!Try
<1> QED
  BY <1>4 DEF Abstract!Next

(* The caller takes a line, or chat's caller all that its reader got. *)
LEMMA TakingRefines ==
    ASSUME IInv, Quiet, TakeLine \/ Join
    PROVE  Abstract!Next
<1>1. /\ child.wrote \in Nat /\ taken \in Nat /\ emitted \in BOOLEAN
      /\ LinesIn(queue) \in Nat /\ Len(pipe) \in Nat
  BY LinesCounted DEF IInv, TypeOK, Processes
<1>2. /\ Phase = "trying" /\ Phase' = "trying"
      /\ UNCHANGED <<attempt, child, worked>>
  BY DEF Phase, TakeLine, Join, Taking, Goto, history
<1>3. (~Swept)' = ~Swept
  BY <1>2 DEF Swept, Running
<1>4. CASE TakeLine
  <2>0. taken' = taken + 1 /\ lost' = lost /\ emitted' = (emitted \/ Head(queue) = "message")
    BY <1>4 DEF TakeLine, history
  <2>1. taken + 1 <= child.wrote /\ emitted' \in {emitted, TRUE}
    <3>1. queue # <<>> /\ Head(queue) \in Lines /\ mode # "chat"
      BY <1>4 DEF TakeLine, Taking
    <3>2. LinesIn(queue) >= 1 /\ taken + LinesIn(queue) + Len(pipe) <= child.wrote
      BY <3>1, LinesTaken DEF IInv, TurnInv, NoneTwice
    <3>3. emitted' = emitted \/ emitted' = TRUE
      BY <1>1, <2>0, Zenon
    <3>4. emitted' \in {emitted, TRUE}
      BY <3>3, Zenon
    <3>5. taken + 1 <= child.wrote
      BY <1>1, <3>2
    <3> QED
      BY <3>4, <3>5
  <2>2. taken' \in taken .. child.wrote /\ taken' > taken
    BY <1>1, <2>0, <2>1
  <2>3. Abstract!Take
    BY <1>2, <1>3, <2>0, <2>1, <2>2 DEF Abstract!Take
  <2> QED
    BY <2>3 DEF Abstract!Next
<1>5. CASE Join
  <2>1. /\ taken' = LinesIn(queue) /\ taken = 0 /\ emitted' = emitted
        /\ lost' \in {lost, lost \cup {attempt}}
    BY <1>5 DEF Join, Quiet, IInv, TurnInv, CallerPlaces
  <2>2. LinesIn(queue) <= child.wrote
    BY <1>1, <1>5 DEF Join, IInv, TurnInv, NoneTwice, CallerPlaces
  <2>3. taken' \in taken .. child.wrote
    BY <1>1, <2>1, <2>2
  <2>4. Abstract!Take
    BY <1>1, <1>2, <1>3, <2>1, <2>3 DEF Abstract!Take
  <2> QED
    BY <2>4 DEF Abstract!Next
<1> QED
  BY <1>4, <1>5

(* Where the caller goes on with the same attempt, at most it kills it. *)
LEMMA CallerUnseen ==
    ASSUME IInv, \/ Feed \/ FeedTimesOut \/ TakeCancelled \/ TakeLimit \/ TakeEnd
                 \/ PollCancelled \/ PollTimesOut \/ Resume \/ ChatEnds \/ Reap
                 \/ ReapTimesOut \/ Finalize
    PROVE  Abstract!Next \/ UNCHANGED Abstract!turn
<1> USE DEF call, output, evidence, history
<1>1. Phase' = Phase
  BY DEF Phase, Retryable, Feed, FeedTimesOut, TakeCancelled, TakeLimit, TakeEnd, PollCancelled,
     PollTimesOut, Taking, Resume, ChatEnds, Reap, ReapTimesOut, Finalize, Goto, Raise
<1>2. child' \in {child, Dead} /\ UNCHANGED <<attempt, taken, emitted, worked, lost>>
  BY DEF Feed, FeedTimesOut, TakeCancelled, TakeLimit, TakeEnd, PollCancelled, PollTimesOut,
     Resume, ChatEnds, Reap, ReapTimesOut, Finalize, Terminated, SweptChild
<1> QED
  BY <1>1, <1>2, KillUnseen, UnseenRefines

(* The caller leaves, or is told to. *)
LEMMA LeavingRefines ==
    ASSUME IInv, \/ Leave \/ TaskCancelled \/ Clean \/ CancelledBefore
                 \/ \E exception \in {"cancelled", "permanent"} : Reject(exception)
    PROVE  Abstract!Next \/ UNCHANGED Abstract!turn
<1> USE DEF call, output, evidence, history
<1>1. /\ child' \in {child, Dead}
      /\ UNCHANGED <<attempt, taken, emitted, worked, lost, safe>>
  BY DEF Leave, TaskCancelled, Clean, CancelledBefore, Reject, SweptChild
<1>2. child'.wrote = child.wrote /\ (Swept => Swept')
  BY <1>1, KillUnseen
<1>3. /\ pc \in {"begin", "waiting"} => Swept
      /\ pc = "yielded" => emitted
      /\ raising = "transient" => pc \in {"failed", "waiting", "ended"}
      /\ pc \in {"cleaning"} => raising # "none"
  BY DEF IInv, TurnInv, CallerPlaces
<1>4. CASE \/ Leave \/ TaskCancelled
           \/ \E exception \in {"cancelled", "permanent"} : Reject(exception)
  <2>1. CASE pc' = "cleaning"
    <3>1. Phase = "trying" /\ Phase' = "trying"
      BY <1>4, <2>1 DEF Leave, TaskCancelled, Reject, Phase
    <3> QED
      BY <1>1, <1>2, <3>1, UnseenRefines
  <2>2. CASE pc' # "cleaning"
    <3>1. /\ pc \in {"yielded", "waiting"} /\ pc' \in {"ended", "failed"} /\ UNCHANGED child
          /\ raising' \in {"left", "cancelled", "permanent"}
      BY <1>4, <2>2 DEF Leave, TaskCancelled, Reject
    <3>2. Phase \in {"ready", "trying"} /\ Phase' = "failed"
      BY <3>1 DEF Phase, Retryable
    <3>3. Swept' \/ emitted
      BY <1>3, <3>1 DEF Swept, Running
    <3> QED
      BY <1>1, <1>2, <3>2, <3>3, FailureRefines
  <2> QED
    BY <2>1, <2>2
<1>5. CASE Clean \/ CancelledBefore
  <2>1. /\ pc \in {"cleaning", "begin"} /\ pc' = "failed"
        /\ raising' # "transient" /\ Swept'
    BY <1>3, <1>5, DeadProcess DEF Clean, CancelledBefore, Goto, SweptChild, Swept, Running, IInv
  <2>2. Phase \in {"ready", "trying"} /\ Phase' = "failed"
    BY <2>1 DEF Phase, Retryable
  <2> QED
    BY <1>1, <1>2, <2>1, <2>2, FailureRefines
<1> QED
  BY <1>4, <1>5

(* The attempt is over: its output is the answer, or it has failed, or     *)
(* there is another one.                                                   *)
LEMMA VerdictRefines ==
    ASSUME IInv, IInv', Judge \/ Return \/ Fail \/ Retry \/ WaitEnds
    PROVE  Abstract!Next \/ UNCHANGED Abstract!turn
<1> USE DEF call, output, evidence, history
<1>1. UNCHANGED <<attempt, taken, emitted, worked, lost, safe, child>>
  BY DEF Judge, Return, Fail, Retry, WaitEnds
<1>2. child'.wrote = child.wrote /\ (Swept => Swept') /\ (~Swept)' = ~Swept
  BY <1>1 DEF Swept, Running
<1>3. /\ pc \in {"waiting", "judging"} => Swept
      /\ pc = "failed" => Swept \/ emitted
  BY DEF IInv, TurnInv, CallerPlaces
<1>4. CASE Phase' = Phase
  BY <1>1, <1>2, <1>4, UnseenRefines
<1>5. CASE Phase' = "failed" /\ Phase' # Phase
  <2>1. pc \in {"waiting", "judging", "failed"}
    BY DEF Judge, Return, Fail, Retry, WaitEnds
  <2>2. Phase \in {"ready", "trying"}
    BY <1>5, <2>1 DEF Phase
  <2>3. Swept' \/ emitted
    BY <1>2, <1>3, <2>1
  <2> QED
    BY <1>1, <1>2, <1>5, <2>2, <2>3, FailureRefines
<1>6. CASE Return /\ raising' = "none"
  <2>1. Phase = "trying" /\ Phase' = "answered" /\ Swept
    BY <1>3, <1>6 DEF Return, Phase
  <2>2. taken = child.wrote \/ attempt \in lost
    BY <1>1, <1>6 DEF Return, IInv, TurnInv, AnswersAreWhole
  <2>3. Abstract!Answer
    BY <1>1, <1>2, <2>1, <2>2 DEF Abstract!Answer
  <2> QED
    BY <2>3 DEF Abstract!Next
<1>7. CASE Retry
  <2>1. Phase = "trying" /\ Phase' = "ready" /\ emitted = FALSE
    BY <1>7 DEF Retry, Phase, Retryable, Goto, IInv, TypeOK
  <2>2. Swept /\ worked \subseteq lost
    <3>1. pc' = "waiting"
      BY <1>7 DEF Retry, Goto
    <3> QED
      BY <1>1, <1>2, <3>1 DEF IInv, TurnInv, CallerPlaces, EffectsShow, Swept, Running
  <2>3. Abstract!GiveUpAttempt
    BY <1>1, <1>2, <2>1, <2>2 DEF Abstract!GiveUpAttempt
  <2> QED
    BY <2>3 DEF Abstract!Next
<1>8. CASE Judge
  <2>1. Phase = "trying" /\ Phase' \in {"trying", "failed"}
    BY <1>8 DEF Judge, Phase
  <2> QED
    BY <1>4, <1>5, <2>1
<1>9. CASE Return /\ raising' # "none"
  <2>1. Phase = "trying" /\ Phase' = "failed"
    BY <1>9 DEF Return, Phase
  <2> QED
    BY <1>5, <2>1
<1>10. CASE Fail
  <2>1. raising' # "none"
    BY <1>10 DEF Fail, IInv, TurnInv, CallerPlaces
  <2>2. Phase' = "failed"
    BY <1>10, <2>1 DEF Fail, Phase
  <2> QED
    BY <1>4, <1>5, <2>2
<1>11. CASE WaitEnds
  <2>1. Phase = "ready" /\ Phase' \in {"ready", "failed"}
    BY <1>11 DEF WaitEnds, Phase
  <2> QED
    BY <1>4, <1>5, <2>1
<1> QED
  BY <1>6, <1>7, <1>8, <1>9, <1>10, <1>11

(* Every step is one of the abstract turn's, or unseen. *)
LEMMA NextRefines ==
    IInv /\ IInv' /\ Quiet /\ [Next]_vars => [Abstract!Next]_(Abstract!turn)
<1> SUFFICES ASSUME IInv, IInv', Quiet, [Next]_vars
             PROVE  Abstract!Next \/ UNCHANGED Abstract!turn
  OBVIOUS
<1>1. CASE Cancel \/ Process
  BY <1>1, ProcessRefines
<1>2. CASE Reader \/ Watchdog
  BY <1>2, ReaderRefines
<1>3. CASE Caller \/ TaskCancelled
  BY <1>3, SpawnRefines, TakingRefines, CallerUnseen, LeavingRefines, VerdictRefines DEF Caller
<1>4. CASE Over \/ UNCHANGED vars
  <2>1. UNCHANGED <<pc, raising, safe, emitted, attempt, child, taken, worked, lost>>
    BY <1>4 DEF Over, vars, evidence, history
  <2> QED
    BY <2>1, SamePhase, UnseenRefines DEF Swept, Running
<1> QED
  BY <1>1, <1>2, <1>3, <1>4 DEF Next

LEMMA InitRefines == Init => Abstract!Init
BY DEF Init, Abstract!Init, Phase, NoProcess, Swept

(* Whatever process, reader, watchdog and caller do, and in whatever       *)
(* order, the caller sees one answer of one attempt.                       *)
THEOREM Refinement == Spec => ImplementsOneAnswer
<1>1. Spec => [](IInv /\ Quiet)
  BY Invariance, InitQuiet, NextQuiet, PTL DEF Spec
<1>2. IInv /\ Quiet /\ IInv' /\ [Next]_vars => [Abstract!Next]_(Abstract!turn)
  BY NextRefines
<1> QED
  BY <1>1, <1>2, InitRefines, PTL DEF Spec, ImplementsOneAnswer, Abstract!Spec
=============================================================================
