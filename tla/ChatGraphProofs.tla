-------------------------- MODULE ChatGraphProofs --------------------------
(***************************************************************************)
(* Proofs about the chat graph, for all timeouts and any number of calls   *)
(* and deltas.                                                             *)
(***************************************************************************)
EXTENDS ChatGraph, TLAPS, SequenceTheorems

\* The clocks are numbers.
ClockInv == wait \in Nat /\ since \in Nat /\ sinceDelta \in Nat /\ silence \in Nat

\* What has passed and what is left of the current wait fit into the timeout of
\* the phase and into a heartbeat.
PlanningInv ==
    pc = "planning" =>
        /\ since + wait <= PlannerTimeout
        /\ silence + wait <= PlannerHeartbeat

\* A tool is at one of its clients; it has used up at most the earlier waits, and one
\* timeout for each wait that was renewed.
UsedUp ==
    CASE stage = "oj" -> IF pc = "connecting" THEN OjConnect ELSE OjConnect + OjRead
      [] stage = "codegen" ->
            OjConnect + OjRead + LlmTimeout + IF pc = "connecting" THEN 0 ELSE LlmTimeout
      [] stage = "judge" ->
            OjConnect + OjRead + LlmTimeout + LlmTimeout + JudgeConnect
                + IF pc = "connecting" THEN 0 ELSE JudgeRead

Renewed == pieces * LongestWait

CallingInv ==
    Calling =>
        /\ silence = since
        /\ stage \in {"oj", "codegen", "judge"}
        /\ stage # "oj" => Current.name = "code"
        /\ since + wait <= UsedUp + Renewed

\* Since the last heartbeat, when the stream was not idle, only the silence was added.
AnsweringInv ==
    pc = "answering" =>
        /\ since + wait <= AnswerTotal
        /\ silence + wait <= AnswerHeartbeat
        /\ sinceDelta < AnswerIdle + silence

CompletingInv ==
    pc = "completing" => silence = since /\ since + wait <= FallbackTimeout

\* Between tools and at the end the graph does not wait.
WorkingInv == pc \in {"tools", "done", "failed"} => wait = 0 /\ silence = 0

PhaseInv ==
    pc \in {"planning", "tools", "connecting", "reading", "answering", "completing", "done",
            "failed"}

PiecesInv == pieces \in Nat

TimeInv ==
    /\ ClockInv /\ PhaseInv /\ PiecesInv
    /\ PlanningInv /\ CallingInv /\ AnsweringInv /\ CompletingInv /\ WorkingInv

-----------------------------------------------------------------------------
(* Time.                                                                   *)

LEMMA TimesAreNumbers ==
    /\ PlannerTimeout \in Nat \ {0} /\ PlannerHeartbeat \in Nat \ {0}
    /\ AnswerTotal \in Nat \ {0} /\ AnswerIdle \in Nat \ {0} /\ AnswerHeartbeat \in Nat \ {0}
    /\ FallbackTimeout \in Nat \ {0} /\ OjConnect \in Nat \ {0} /\ OjRead \in Nat \ {0}
    /\ LlmTimeout \in Nat \ {0} /\ JudgeConnect \in Nat \ {0} /\ JudgeRead \in Nat \ {0}
  BY ChatAssumption

\* No wait of a tool is longer than the longest.
LEMMA LongestIsLongest ==
    /\ LongestWait \in Nat
    /\ \A client \in {"oj", "codegen", "judge"} :
          /\ ConnectTimeout(client) \in Nat /\ ConnectTimeout(client) <= LongestWait
          /\ ReadTimeout(client) \in Nat /\ ReadTimeout(client) <= LongestWait
<1> DEFINE waits == {OjConnect, OjRead, LlmTimeout, JudgeConnect, JudgeRead}
<1>1. \E x \in waits : \A y \in waits : x >= y
  BY TimesAreNumbers
<1>2. LongestWait \in waits /\ \A y \in waits : LongestWait >= y
  BY <1>1 DEF LongestWait, Max
<1> QED
  BY <1>2, TimesAreNumbers DEF ConnectTimeout, ReadTimeout

LEMMA OnePieceMore ==
    ASSUME NEW n \in Nat, NEW k \in Nat
    PROVE  n * k \in Nat /\ (n + 1) * k = n * k + k
  OBVIOUS

LEMMA OneWaitMore ==
    ASSUME NEW s \in Nat, NEW w \in Nat, NEW v \in Nat, NEW used \in Nat, NEW n \in Nat,
           NEW k \in Nat, s + w <= used + n, v <= k
    PROVE  s + v <= used + (n + k)
  OBVIOUS

LEMMA TimeInitially == Init => TimeInv
  BY TimesAreNumbers
  DEF Init, TimeInv, ClockInv, PhaseInv, PiecesInv, PlanningInv, CallingInv, Calling,
      AnsweringInv, CompletingInv, WorkingInv, Earlier

LEMMA TimeStep == TimeInv /\ [Next]_vars => TimeInv'
<1> SUFFICES ASSUME TimeInv, [Next]_vars PROVE TimeInv'
  OBVIOUS
<1> USE TimesAreNumbers
    DEF TimeInv, ClockInv, PhaseInv, PiecesInv, PlanningInv, CallingInv, Calling, AnsweringInv,
        CompletingInv, WorkingInv, toolVars
<1>0. LongestWait \in Nat /\ Renewed \in Nat /\ (pieces' = pieces => Renewed' = Renewed)
  BY LongestIsLongest, OnePieceMore DEF Renewed
<1>1. CASE Tick
  BY <1>0, <1>1 DEF Tick, toolVars, answerVars, Current, UsedUp
<1>2. ASSUME NEW plan, Preview(plan) PROVE TimeInv'
  BY <1>2 DEF Preview
<1>3. CASE PlannerWaits
  BY <1>2, <1>3 DEF PlannerWaits, WaitOn, Earlier, toolVars
<1>4. ASSUME NEW call, NEW status, ToolEnds(call, status) PROVE TimeInv'
  BY <1>4 DEF ToolEnds
<1>5. CASE CallTool
  BY <1>0, <1>5 DEF CallTool, CallPending, Enter, ConnectTimeout, UsedUp
<1>6. CASE RequestSent
  BY <1>0, <1>6 DEF RequestSent, ReadTimeout, UsedUp, Current, toolVars
<1>14. CASE CodeGoesOn
  BY <1>0, <1>14 DEF CodeGoesOn, Enter, ConnectTimeout, UsedUp, Current
<1>15. CASE PeerGoesOn
  <2>1. Renewed' = Renewed + LongestWait
    BY <1>0, <1>15, OnePieceMore DEF PeerGoesOn, Renewed
  <2>2. wait' \in Nat /\ wait' <= LongestWait
    BY <1>15, LongestIsLongest DEF PeerGoesOn
  <2>3. UsedUp' = UsedUp /\ Current' = Current
    BY <1>15 DEF PeerGoesOn, UsedUp, Current
  <2>4. UsedUp \in Nat /\ since + wait <= UsedUp + Renewed /\ Calling
    BY <1>15 DEF PeerGoesOn, UsedUp
  <2>5. since + wait' <= UsedUp + Renewed'
    <3>1. since \in Nat /\ wait \in Nat
      OBVIOUS
    <3> QED
      BY <1>0, <2>1, <2>2, <2>4, <3>1, OneWaitMore, Zenon
  <2> QED
    <3>1. /\ pc' = pc /\ stage' = stage /\ since' = since /\ silence' = silence
          /\ sinceDelta' = sinceDelta /\ pieces' = pieces + 1 /\ pc \in {"connecting", "reading"}
      BY <1>15 DEF PeerGoesOn
    <3>2. CallingInv'
      BY <2>2, <2>3, <2>5, <3>1
    <3>3. ClockInv' /\ PhaseInv' /\ PiecesInv'
      BY <2>2, <3>1
    <3>4. PlanningInv' /\ AnsweringInv' /\ CompletingInv' /\ WorkingInv'
      BY <3>1
    <3> QED
      BY <3>2, <3>3, <3>4
<1>7. CASE StartAnswer
  BY <1>7 DEF StartAnswer, WaitOn, Earlier
<1>8. ASSUME NEW text, Finish(text) PROVE TimeInv'
  BY <1>8 DEF Finish
<1>9. CASE FallBack
  BY <1>9 DEF FallBack
<1>10. ASSUME NEW text, Delta(text) PROVE TimeInv'
  BY <1>9, <1>10 DEF Delta, WaitOn, Earlier
<1>11. CASE AnswerWaits
  BY <1>9, <1>11 DEF AnswerWaits, Idle, WaitOn, Earlier
<1>12. CASE CompleteFails
  BY <1>8, <1>12 DEF CompleteFails
<1>13. CASE UNCHANGED vars
  BY <1>0, <1>13 DEF vars, toolVars, answerVars, timeVars, Current, UsedUp
<1> QED
  BY <1>1, <1>2, <1>3, <1>4, <1>5, <1>6, <1>7, <1>8, <1>9, <1>10, <1>11, <1>12, <1>13, <1>14, <1>15
  DEF Next, PlannerAnswers, PlannerFails, CallLocal, ToolAnswers, ToolFails, StreamEnds,
      StreamBreaks, Complete, Ended

\* Every wait of the graph fits into what is left of its phase and of a heartbeat, and
\* a tool has waited for no more than one timeout per step of its peers.
THEOREM TimeInductive == Spec => []TimeInv
  BY TimeInitially, TimeStep, PTL DEF Spec

\* Whatever the timeouts are and however planner and model answer, planning, answering
\* and the fallback end in their time and a stalled stream is noticed; a reader is left
\* without an event longer than that only by a tool, for as long as its peers go on.
THEOREM AnswersComeInTime == Spec => []AnswersInTime
<1>1. TimeInv => AnswersInTime
  <2> SUFFICES ASSUME TimeInv PROVE AnswersInTime
    OBVIOUS
  <2> USE TimesAreNumbers
      DEF TimeInv, ClockInv, PhaseInv, PlanningInv, AnsweringInv, CompletingInv, WorkingInv
  <2>1. PhasesEndInTime /\ StallsAreNoticed
    BY DEF PhasesEndInTime, StallsAreNoticed
  <2>2. Calling => silence <= ToolTime(Current) + pieces * LongestWait
    <3>1. Renewed \in Nat
      BY LongestIsLongest, OnePieceMore DEF PiecesInv, Renewed
    <3>2. Calling => silence <= ToolTime(Current) + Renewed
      BY <3>1 DEF Calling, CallingInv, UsedUp, ToolTime
    <3> QED
      BY <3>2 DEF Renewed
  <2>3. SilenceIsBounded
    BY <2>2 DEF SilenceIsBounded, Calling
  <2> QED
    BY <2>1, <2>3 DEF AnswersInTime
<1> QED
  BY TimeInductive, <1>1, PTL

-----------------------------------------------------------------------------
(* The answer.                                                             *)

\* Until the end the reader has seen exactly the parts that are kept; what is
\* stored passed the safety check.
AnswerInv ==
    /\ parts \in Seq(Texts) /\ shown \in Seq(Texts) /\ answer \in Seq(Texts)
    /\ PhaseInv
    /\ pc \in {"planning", "tools"} \/ Calling => parts = <<>>
    /\ pc # "done" => shown = parts
    /\ pc = "failed" => parts = <<>>
    /\ pc = "completing" => fellBack
    /\ pc = "done" /\ request.low => "code" \notin ToSet(answer)
    /\ pc = "done" /\ ~fellBack => IsSuffix(answer, shown)

LEMMA SuffixOfItself == ASSUME NEW s \in Seq(Texts) PROVE IsSuffix(s, s)
  BY DEF IsSuffix, IsPrefix, Reverse

LEMMA LastIsSuffix ==
    ASSUME NEW s \in Seq(Texts), NEW x \in Texts
    PROVE  IsSuffix(<<x>>, Append(s, x))
<1>1. Reverse(<<x>>) = <<x>> /\ Reverse(Append(s, x)) \in Seq(Texts)
  BY DEF Reverse
<1>2. Len(Reverse(Append(s, x))) = Len(s) + 1 /\ Reverse(Append(s, x))[1] = x
  BY DEF Reverse
<1> QED
  BY <1>1, <1>2 DEF IsSuffix, IsPrefix

LEMMA AnswerInitially == Init => AnswerInv
  BY DEF Init, AnswerInv, PhaseInv, Calling

LEMMA AnswerStep == AnswerInv /\ [Next]_vars => AnswerInv'
<1> SUFFICES ASSUME AnswerInv, [Next]_vars PROVE AnswerInv'
  OBVIOUS
<1> USE DEF AnswerInv, PhaseInv, Calling, answerVars
<1>1. CASE Tick
  BY <1>1 DEF Tick
<1>2. ASSUME NEW plan, Preview(plan), pc = "planning" PROVE AnswerInv'
  BY <1>2 DEF Preview
<1>3. CASE PlannerWaits
  BY <1>2, <1>3 DEF PlannerWaits
<1>4. ASSUME NEW call, NEW status, ToolEnds(call, status), pc = "tools" \/ Calling
      PROVE  AnswerInv'
  BY <1>4 DEF ToolEnds
<1>5. CASE CallTool \/ RequestSent \/ PeerGoesOn \/ CodeGoesOn
  BY <1>5 DEF CallTool, CallPending, RequestSent, PeerGoesOn, CodeGoesOn, Enter
<1>6. CASE StartAnswer
  BY <1>6 DEF StartAnswer
<1>7. ASSUME NEW text \in Seq(Texts), Finish(text),
             text = shown \/ fellBack, shown = parts
      PROVE  AnswerInv'
  <2>1. <<"refusal">> \in Seq(Texts) /\ "refusal" \in Texts /\ ToSet(<<"refusal">>) = {"refusal"}
    BY DEF Texts, ToSet
  <2>2. parts' \in Seq(Texts) /\ shown' \in Seq(Texts) /\ answer' \in Seq(Texts)
    BY <1>7, <2>1, AppendProperties DEF Finish
  <2>3. request.low => "code" \notin ToSet(answer')
    BY <1>7, <2>1 DEF Finish, Unsafe
  <2>4. ~fellBack => IsSuffix(answer', shown')
    BY <1>7, <2>1, SuffixOfItself, LastIsSuffix DEF Finish
  <2> QED
    BY <1>7, <2>2, <2>3, <2>4 DEF Finish
<1>8. ASSUME FallBack, parts' \in Seq(Texts), shown' = parts' PROVE AnswerInv'
  BY <1>8 DEF FallBack
<1>9. ASSUME NEW text \in {"plain", "code"}, Delta(text) PROVE AnswerInv'
  <2>1. parts' \in Seq(Texts) /\ shown' = parts'
    BY <1>9, AppendProperties DEF Delta, Texts
  <2> QED
    BY <1>8, <1>9, <2>1 DEF Delta
<1>10. CASE StreamEnds
  BY <1>7, <1>10 DEF StreamEnds
<1>11. CASE StreamBreaks \/ AnswerWaits
  BY <1>8, <1>11 DEF StreamBreaks, AnswerWaits
<1>12. ASSUME NEW text \in {"plain", "code"}, Complete(text) PROVE AnswerInv'
  <2>1. <<text>> \in Seq(Texts)
    BY DEF Texts
  <2> QED
    BY <1>7, <1>12, <2>1 DEF Complete
<1>13. CASE CompleteFails
  <2>1. Append(parts, "note") \in Seq(Texts)
    BY AppendProperties DEF Texts
  <2> QED
    BY <1>7, <1>13, <2>1 DEF CompleteFails
<1>14. CASE UNCHANGED vars
  BY <1>14 DEF vars
<1> QED
  BY <1>1, <1>2, <1>3, <1>4, <1>5, <1>6, <1>9, <1>10, <1>11, <1>12, <1>13, <1>14
  DEF Next, PlannerAnswers, PlannerFails, CallLocal, CallPending, ToolAnswers, ToolFails, Ended

\* For every plan, stream and fallback the stored answer is one the reader may see,
\* has seen when nothing fell back, and a part that was shown is never followed by an error.
THEOREM StoredAnswerFaithful == Spec => []StoredAnswerIsFaithful
<1>1. AnswerInv => StoredAnswerIsFaithful
  BY DEF AnswerInv, StoredAnswerIsFaithful, PartialIsKept, StoredAnswerIsSafe, StoredAnswerWasShown
<1> QED
  BY AnswerInitially, AnswerStep, <1>1, PTL DEF Spec

-----------------------------------------------------------------------------
(* Types.                                                                  *)

\* Each call the loop has finished has its record.
ProgressInv ==
    /\ pc = "planning" => begun = 0
    /\ Calling => begun > 0
    /\ Len(results) = IF Calling THEN begun - 1 ELSE begun

TypeInv == TypeOK /\ ProgressInv

LEMMA BoundedSeqMembers ==
    ASSUME NEW S, NEW n \in Nat, NEW s
    PROVE  s \in BoundedSeq(S, n) <=> s \in Seq(S) /\ Len(s) <= n
<1>1. s \in BoundedSeq(S, n) => s \in Seq(S) /\ Len(s) <= n
  <2> SUFFICES ASSUME NEW m \in 0..n, s \in [1..m -> S] PROVE s \in Seq(S) /\ Len(s) <= n
    BY DEF BoundedSeq, SeqOf
  <2> QED
    OBVIOUS
<1>2. s \in Seq(S) /\ Len(s) <= n => s \in BoundedSeq(S, n)
  <2> SUFFICES ASSUME s \in Seq(S), Len(s) <= n PROVE \E m \in 0..n : s \in [1..m -> S]
    BY DEF BoundedSeq, SeqOf
  <2>1. Len(s) \in 0..n /\ s \in [1..Len(s) -> S]
    BY LenProperties
  <2> QED
    BY <2>1
<1> QED
  BY <1>1, <1>2

ToolRecords == [call : Calls, status : {"ok", "error", "skipped"}]

\* A normalised plan has the calls of the plan with their arguments filled in.
LEMMA NormalizedIsPlan ==
    ASSUME NEW plan \in Plans, request \in [problem : BOOLEAN, low : BOOLEAN]
    PROVE  NormalizePlan(plan) \in Plans
<1>1. plan \in Seq(Calls) /\ Len(plan) <= MaxCalls /\ MaxCalls \in Nat
  BY BoundedSeqMembers, ChatAssumption DEF Plans
<1>2. \A i \in DOMAIN plan :
        [plan[i] EXCEPT !.problem = @ \/ (request.problem /\ plan[i].name # "unknown")] \in Calls
  <2> SUFFICES ASSUME NEW i \in DOMAIN plan
               PROVE  [plan[i] EXCEPT !.problem = @ \/ (request.problem /\ plan[i].name # "unknown")] \in Calls
    OBVIOUS
  <2>1. plan[i] \in Calls
    BY <1>1
  <2> QED
    BY <2>1 DEF Calls
<1>3. NormalizePlan(plan) \in [1..Len(plan) -> Calls] /\ Len(plan) \in 0..MaxCalls
  BY <1>1, <1>2, LenProperties DEF NormalizePlan
<1> QED
  BY <1>3 DEF Plans, BoundedSeq, SeqOf

LEMMA FallbackIsPlan == FallbackPlan \in Plans
<1>1. MaxCalls \in Nat /\ 1 <= MaxCalls
  BY ChatAssumption
<1>2. [name |-> "oj", problem |-> TRUE] \in Calls
  BY DEF Calls, Names
<1>3. FallbackPlan \in Seq(Calls) /\ Len(FallbackPlan) <= MaxCalls
  BY <1>1, <1>2 DEF FallbackPlan
<1>4. FallbackPlan \in BoundedSeq(Calls, MaxCalls)
  BY <1>1, <1>3, BoundedSeqMembers, Zenon
<1> QED
  BY <1>4 DEF Plans

LEMMA TypeInitially == Init => TypeInv
<1> SUFFICES ASSUME Init PROVE TypeInv
  OBVIOUS
<1>1. \A S : <<>> \in BoundedSeq(S, MaxCalls)
  <2> SUFFICES ASSUME NEW S PROVE <<>> \in BoundedSeq(S, MaxCalls)
    OBVIOUS
  <2>1. MaxCalls \in Nat /\ Len(<<>>) <= MaxCalls /\ <<>> \in Seq(S)
    BY ChatAssumption
  <2> QED
    BY <2>1, BoundedSeqMembers, Zenon
<1>2. {wait, since, sinceDelta, silence} \subseteq Nat
  BY TimeInitially DEF TimeInv, ClockInv
<1>7. MaxPieces \in Nat
  BY ChatAssumption
<1>3. <<>> \in Seq(Texts) /\ Len(<<>>) = 0
  OBVIOUS
<1>4. calls \in Plans /\ results \in BoundedSeq(ToolRecords, MaxCalls)
  BY <1>1 DEF Init, Plans
<1>5. TypeOK
  <2>1. begun \in 0..Len(calls) /\ request \in [problem : BOOLEAN, low : BOOLEAN]
    BY DEF Init
  <2>2. {parts, shown, answer} \subseteq Seq(Texts)
    BY <1>3 DEF Init
  <2>3. /\ fellBack \in BOOLEAN /\ stage \in {"none", "oj", "codegen", "judge"}
        /\ pc \in {"planning", "tools", "connecting", "reading", "answering", "completing", "done",
                  "failed"}
        /\ pieces = 0
    BY DEF Init
  <2>4. pieces \in 0..MaxPieces
    BY <1>7, <2>3
  <2> QED
    BY <1>2, <1>4, <2>1, <2>2, <2>3, <2>4, Zenon DEF TypeOK, ToolRecords
<1>6. ProgressInv
  BY <1>3 DEF Init, ProgressInv, Calling
<1> QED
  BY <1>5, <1>6 DEF TypeInv

\* Within a tool each renewed wait is counted.
LEMMA WaitsAreCounted ==
    ASSUME RequestSent \/ PeerGoesOn \/ CodeGoesOn
    PROVE  pieces' = pieces \/ (pieces < MaxPieces /\ pieces' = pieces + 1)
  BY DEF RequestSent, PeerGoesOn, CodeGoesOn, toolVars

LEMMA TypeStep == TypeInv /\ TimeInv /\ TimeInv' /\ AnswerInv' /\ [Next]_vars => TypeInv'
<1> SUFFICES ASSUME TypeInv, TimeInv, TimeInv', AnswerInv', [Next]_vars PROVE TypeInv'
  OBVIOUS
<1>0. /\ {wait', since', sinceDelta', silence'} \subseteq Nat
      /\ {parts', shown', answer'} \subseteq Seq(Texts)
      /\ PhaseInv'
      /\ MaxPieces \in Nat
  BY ChatAssumption DEF TimeInv, ClockInv, AnswerInv
<1> USE DEF TypeInv, TypeOK, ProgressInv, PhaseInv, Calling, answerVars
<1>1. CASE Tick
  BY <1>0, <1>1 DEF Tick, toolVars
<1>2. ASSUME NEW plan \in Plans, Preview(plan), pc = "planning" PROVE TypeInv'
  <2>1. Len(plan) \in Nat
    BY BoundedSeqMembers, ChatAssumption DEF Plans
  <2> QED
    BY <1>0, <1>2, <2>1 DEF Preview
<1>3. CASE PlannerAnswers \/ PlannerFails
  BY <1>2, <1>3, NormalizedIsPlan, FallbackIsPlan DEF PlannerAnswers, PlannerFails
<1>4. CASE PlannerWaits
  BY <1>0, <1>2, <1>4, FallbackIsPlan DEF PlannerWaits, toolVars
<1>5. ASSUME NEW call \in Calls, NEW status \in {"ok", "error", "skipped"}, ToolEnds(call, status),
             begun' \in 1..Len(calls), Len(results) = begun' - 1
      PROVE  TypeInv'
  <2>1. results \in Seq(ToolRecords) /\ Len(calls) <= MaxCalls /\ Len(calls) \in Nat /\ MaxCalls \in Nat
    <3>1. MaxCalls \in Nat
      BY ChatAssumption
    <3>2. results \in BoundedSeq(ToolRecords, MaxCalls) /\ calls \in BoundedSeq(Calls, MaxCalls)
      BY Zenon DEF Plans, ToolRecords
    <3>3. results \in Seq(ToolRecords) /\ calls \in Seq(Calls) /\ Len(calls) <= MaxCalls
      BY <3>1, <3>2, BoundedSeqMembers, Zenon
    <3> QED
      BY <3>1, <3>3
  <2>2. /\ results' = Append(results, [call |-> call, status |-> status])
        /\ [call |-> call, status |-> status] \in ToolRecords
    BY <1>5 DEF ToolEnds, Record, ToolRecords
  <2>3. results' \in Seq(ToolRecords) /\ Len(results') = Len(results) + 1
    BY <2>1, <2>2, AppendProperties
  <2>4. results' \in BoundedSeq(ToolRecords, MaxCalls)
    BY <1>5, <2>1, <2>3, BoundedSeqMembers
  <2> QED
    BY <1>0, <1>5, <2>3, <2>4 DEF ToolEnds, ToolRecords
<1>6. \A i \in 1..Len(calls) : calls[i] \in Calls
  <2>1. calls \in Seq(Calls)
    BY BoundedSeqMembers, ChatAssumption DEF Plans
  <2> QED
    BY <2>1
<1>7. CASE CallLocal
  <2>1. /\ begun' = begun + 1 /\ begun' \in 1..Len(calls) /\ Len(results) = begun
        /\ Upcoming \in Calls
    BY <1>6, <1>7 DEF CallLocal, CallPending, Upcoming
  <2>2. PICK status \in {"ok", "error", "skipped"} : ToolEnds(Upcoming, status)
    BY <1>7 DEF CallLocal
  <2>3. Len(results) = begun' - 1
    BY <2>1
  <2> QED
    BY <1>5, <2>1, <2>2, <2>3
<1>8. CASE CallTool
  BY <1>0, <1>8 DEF CallTool, CallPending, Enter
<1>9. CASE RequestSent \/ PeerGoesOn \/ CodeGoesOn
  <2>1. pieces' = pieces \/ (pieces < MaxPieces /\ pieces' = pieces + 1)
    BY <1>9, WaitsAreCounted
  <2>3. pieces' \in 0..MaxPieces
    <3>1. pieces \in 0..MaxPieces
      OBVIOUS
    <3> HIDE DEF TypeInv, TypeOK, ProgressInv
    <3> QED
      BY <1>0, <2>1, <3>1
  <2>2. stage' \in {"none", "oj", "codegen", "judge"} /\ Calling /\ Calling'
    BY <1>9 DEF RequestSent, PeerGoesOn, CodeGoesOn, Enter, toolVars
  <2> QED
    BY <1>0, <1>9, <2>2, <2>3 DEF RequestSent, PeerGoesOn, CodeGoesOn, toolVars
<1>10. CASE ToolAnswers \/ ToolFails
  <2>1. begun' = begun /\ begun' \in 1..Len(calls) /\ Len(results) = begun' - 1 /\ Current \in Calls
    BY <1>6, <1>10 DEF ToolAnswers, ToolFails, Current
  <2> QED
    BY <1>5, <1>10, <2>1 DEF ToolAnswers, ToolFails
<1>11. CASE StartAnswer
  BY <1>0, <1>11 DEF StartAnswer, toolVars
<1>12. ASSUME NEW text, Finish(text), ~Calling PROVE TypeInv'
  BY <1>0, <1>12 DEF Finish, toolVars
<1>13. CASE FallBack /\ ~Calling
  BY <1>0, <1>13 DEF FallBack, toolVars
<1>14. ASSUME NEW text, Delta(text) PROVE TypeInv'
  BY <1>0, <1>13, <1>14 DEF Delta, toolVars
<1>15. CASE StreamEnds \/ StreamBreaks \/ CompleteFails
  BY <1>0, <1>12, <1>13, <1>15 DEF StreamEnds, StreamBreaks, CompleteFails, toolVars
<1>16. CASE AnswerWaits
  BY <1>0, <1>13, <1>16 DEF AnswerWaits, toolVars
<1>17. ASSUME NEW text, Complete(text) PROVE TypeInv'
  BY <1>12, <1>17 DEF Complete
<1>18. CASE UNCHANGED vars
  BY <1>0, <1>18 DEF vars, toolVars
<1> QED
  BY <1>1, <1>3, <1>4, <1>7, <1>8, <1>9, <1>10, <1>11, <1>14, <1>15, <1>16, <1>17, <1>18
  DEF Next, Ended

\* The state of the graph keeps its types.
THEOREM GraphTypeCorrect == Spec => []TypeOK
<1>1. TypeInv => TypeOK
  BY DEF TypeInv
<1> QED
  BY TimeInitially, TimeStep, AnswerInitially, AnswerStep, TypeInitially, TypeStep, <1>1, PTL
  DEF Spec
=============================================================================
