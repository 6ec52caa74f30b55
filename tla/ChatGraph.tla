----------------------------- MODULE ChatGraph -----------------------------
(***************************************************************************)
(* One request to the chat graph of agent-service: plan with a language    *)
(* model, call the planned tools, stream the model's answer, finish.  The  *)
(* model and the tools answer, fail or stay silent.  The graph bounds the  *)
(* time of the planner and of the answer, but not that of a tool: its      *)
(* clients bound each single wait for their peer.  Code between two awaits *)
(* is atomic and takes no time.                                            *)
(***************************************************************************)
EXTENDS Integers, Sequences, SequencesExt

CONSTANTS
    PlannerTimeout, PlannerHeartbeat,
    AnswerTotal, AnswerIdle, AnswerHeartbeat, FallbackTimeout,
    OjConnect, OjRead,          \* the timeouts of OjClient,
    LlmTimeout,                 \* of OpenRouterClient, the same for all its waits,
    JudgeConnect, JudgeRead,    \* and of JudgeClient
    MaxCalls,       \* tool calls of a plan
    MaxDeltas,      \* deltas of an answer
    MaxPieces       \* waits of a tool that its peers end by going on

ASSUME ChatAssumption ==
    /\ {PlannerTimeout, PlannerHeartbeat, AnswerTotal, AnswerIdle, AnswerHeartbeat,
        FallbackTimeout, OjConnect, OjRead, LlmTimeout, JudgeConnect, JudgeRead}
            \subseteq Nat \ {0}
    /\ MaxCalls \in Nat \ {0} /\ MaxDeltas \in Nat /\ MaxPieces \in Nat

VARIABLES
    request,    \* whether it names a problem, whether the hint level is low
    pc,
    calls,      \* plan.tool_calls
    begun,      \* how many of them the loop has reached
    results,    \* the record of each executed call: the call and its status
    stage,      \* the client a running tool waits for
    pieces,     \* how many of its waits were renewed
    parts,      \* answer_parts
    shown,      \* the deltas the reader has received
    answer,     \* the answer of the done event
    fellBack,   \* used_non_stream_fallback
    wait,       \* time left of the current wait
    since,      \* time since the phase began
    sinceDelta, \* now - last_delta_at
    silence     \* time since the last event

toolVars == <<calls, begun, results, stage, pieces>>
answerVars == <<parts, shown, answer, fellBack>>
timeVars == <<wait, since, sinceDelta, silence>>
vars == <<request, pc, toolVars, answerVars, timeVars>>

Names == {"oj", "code", "knowledge", "unknown"}
Calls == [name : Names, problem : BOOLEAN]
Plans == BoundedSeq(Calls, MaxCalls)
Texts == {"plain", "code", "note", "refusal"}

Earlier(x, y) == IF x < y THEN x ELSE y

Init ==
    /\ request \in [problem : BOOLEAN, low : BOOLEAN]
    /\ pc = "planning"
    /\ calls = <<>> /\ begun = 0 /\ results = <<>> /\ stage = "none" /\ pieces = 0
    /\ parts = <<>> /\ shown = <<>> /\ answer = <<>>
    /\ fellBack = FALSE
    /\ wait = Earlier(PlannerHeartbeat, PlannerTimeout)
    /\ since = 0 /\ sinceDelta = 0 /\ silence = 0

\* A client waits for its peer until its timeout, asyncio.wait until its own.
Tick ==
    /\ wait > 0
    /\ wait' = wait - 1
    /\ since' = since + 1
    /\ sinceDelta' = sinceDelta + 1
    /\ silence' = silence + 1
    /\ UNCHANGED <<request, pc, toolVars, answerVars>>

\* Mutant of WaitOn: a margin is taken off, below zero near the end.
WaitOneLess(heartbeat, total, elapsed) == wait' = Earlier(heartbeat, total - elapsed) - 2

\* Enter a wait at most as long as the heartbeat and what is left of the total.
WaitOn(heartbeat, total, elapsed) == wait' = Earlier(heartbeat, total - elapsed)

-----------------------------------------------------------------------------
(* prepare, plan and emit_plan_preview.                                    *)

\* Arguments the model left out are filled from the request.
NormalizePlan(plan) ==
    [i \in DOMAIN plan |->
        [plan[i] EXCEPT !.problem = @ \/ (request.problem /\ plan[i].name # "unknown")]]

\* The planner is given up or failed: look at the problem the request names.
FallbackPlan == IF request.problem THEN <<[name |-> "oj", problem |-> TRUE]>> ELSE <<>>

Preview(plan) ==
    /\ calls' = plan
    /\ pc' = "tools"
    /\ wait' = 0 /\ silence' = 0
    /\ UNCHANGED <<request, begun, results, stage, pieces, answerVars, since, sinceDelta>>

PlannerAnswers ==
    /\ pc = "planning"
    /\ \E plan \in Plans : Preview(NormalizePlan(plan))

PlannerFails == pc = "planning" /\ Preview(FallbackPlan)

\* No answer within a heartbeat; the planner is cancelled when its time is up.
PlannerWaits ==
    /\ pc = "planning" /\ wait = 0
    /\ IF since >= PlannerTimeout
       THEN Preview(FallbackPlan)
       ELSE /\ WaitOn(PlannerHeartbeat, PlannerTimeout, since)
            /\ silence' = 0
            /\ UNCHANGED <<request, pc, toolVars, answerVars, since, sinceDelta>>

-----------------------------------------------------------------------------
(* execute_tools: one call after the other.                                *)

Upcoming == calls[begun + 1]
Current == calls[begun]

Record(call, status) == results' = Append(results, [call |-> call, status |-> status])

CallPending == pc = "tools" /\ begun < Len(calls)

ToolEnds(call, status) ==
    /\ Record(call, status)
    /\ pc' = "tools" /\ stage' = "none" /\ pieces' = 0
    /\ wait' = 0 /\ silence' = 0
    /\ UNCHANGED <<request, calls, answerVars, since, sinceDelta>>

\* An unknown tool is skipped and a missing argument is an error, without a call;
\* the knowledge base is local.
CallLocal ==
    /\ CallPending
    /\ begun' = begun + 1
    /\ \/ Upcoming.name = "unknown" /\ ToolEnds(Upcoming, "skipped")
       \/ /\ Upcoming.name \in {"oj", "code"} /\ ~Upcoming.problem
          /\ ToolEnds(Upcoming, "error")
       \/ /\ Upcoming.name = "knowledge"
          /\ \E status \in {"ok", "error"} : ToolEnds(Upcoming, status)

\* Connecting and sending under the one timeout, reading under the other.
ConnectTimeout(client) ==
    CASE client = "oj" -> OjConnect
      [] client = "codegen" -> LlmTimeout
      [] client = "judge" -> JudgeConnect

ReadTimeout(client) ==
    CASE client = "oj" -> OjRead
      [] client = "codegen" -> LlmTimeout
      [] client = "judge" -> JudgeRead

Enter(client) ==
    /\ pc' = "connecting"
    /\ stage' = client
    /\ wait' = ConnectTimeout(client)

\* Both other tools begin with a request to oj_server.
CallTool ==
    /\ CallPending
    /\ Upcoming.name \in {"oj", "code"} /\ Upcoming.problem
    /\ begun' = begun + 1
    /\ Enter("oj")
    /\ since' = 0 /\ silence' = 0
    /\ UNCHANGED <<request, calls, results, pieces, answerVars, sinceDelta>>

\* The request is sent; its answer is awaited.
RequestSent ==
    /\ pc = "connecting"
    /\ pc' = "reading"
    /\ wait' = ReadTimeout(stage)
    /\ UNCHANGED <<request, toolVars, answerVars, since, sinceDelta, silence>>

\* A step of connecting and sending is done and the next has a timeout of its own,
\* or a part of the answer is read and so has the next part.
PeerGoesOn ==
    /\ pieces < MaxPieces
    /\ pieces' = pieces + 1
    /\ \/ pc = "connecting" /\ wait' = ConnectTimeout(stage)
       \/ pc = "reading" /\ wait' = ReadTimeout(stage)
    /\ UNCHANGED <<request, pc, calls, begun, results, stage, answerVars, since, sinceDelta,
                   silence>>

\* generate_and_run_code: with the problem a program is written, then judged.
CodeGoesOn ==
    /\ pc = "reading" /\ Current.name = "code"
    /\ \/ stage = "oj" /\ Enter("codegen")
       \/ stage = "codegen" /\ Enter("judge")
    /\ UNCHANGED <<request, calls, begun, results, pieces, answerVars, since, sinceDelta, silence>>

\* The last answer of the tool; the judged program may have failed.
ToolAnswers ==
    /\ pc = "reading"
    /\ \/ Current.name = "oj" /\ ToolEnds(Current, "ok")
       \/ stage = "judge" /\ \E status \in {"ok", "error"} : ToolEnds(Current, status)
    /\ UNCHANGED begun

\* A request fails or times out, or no test cases were generated.
ToolFails ==
    /\ pc \in {"connecting", "reading"}
    /\ ToolEnds(Current, "error")
    /\ UNCHANGED begun

-----------------------------------------------------------------------------
(* generate_answer and finalize.                                           *)

\* collect_sources and build_answer_messages make no calls.
StartAnswer ==
    /\ pc = "tools" /\ begun = Len(calls)
    /\ pc' = "answering"
    /\ WaitOn(AnswerHeartbeat, AnswerTotal, 0)
    /\ since' = 0 /\ sinceDelta' = 0 /\ silence' = 0
    /\ UNCHANGED <<request, toolVars, answerVars>>

\* SafetyService: a whole program is not for low hint levels.
Unsafe(text) == request.low /\ "code" \in ToSet(text)

Finish(text) ==
    /\ parts' = text
    /\ answer' = IF Unsafe(text) THEN <<"refusal">> ELSE text
    /\ shown' = IF Unsafe(text) THEN Append(shown, "refusal") ELSE shown
    /\ pc' = "done"
    /\ wait' = 0 /\ silence' = 0
    /\ UNCHANGED <<request, toolVars, fellBack, since, sinceDelta>>

\* The stream is given up, right after an event; a complete answer is asked for.
FallBack ==
    /\ pc' = "completing"
    /\ fellBack' = TRUE
    /\ wait' = FallbackTimeout
    /\ since' = 0 /\ silence' = 0
    /\ UNCHANGED <<request, toolVars, answer, sinceDelta>>

Delta(text) ==
    /\ pc = "answering" /\ Len(parts) < MaxDeltas
    /\ parts' = Append(parts, text)
    /\ shown' = Append(shown, text)
    /\ IF since >= AnswerTotal
       THEN FallBack
       ELSE /\ WaitOn(AnswerHeartbeat, AnswerTotal, since)
            /\ sinceDelta' = 0 /\ silence' = 0
            /\ UNCHANGED <<request, pc, toolVars, answer, fellBack, since>>

StreamEnds == pc = "answering" /\ Finish(parts)

StreamBreaks == pc = "answering" /\ FallBack /\ UNCHANGED <<parts, shown>>

\* Mutant of Idle: the heartbeats count as answers.
IdleSinceEvent == silence >= AnswerIdle

Idle == sinceDelta >= AnswerIdle

\* Nothing within a heartbeat.
AnswerWaits ==
    /\ pc = "answering" /\ wait = 0
    /\ IF Idle \/ since >= AnswerTotal
       THEN FallBack
       ELSE /\ WaitOn(AnswerHeartbeat, AnswerTotal, since)
            /\ silence' = 0
            /\ UNCHANGED <<request, pc, toolVars, answer, fellBack, since, sinceDelta>>
    /\ UNCHANGED <<parts, shown>>

Complete(text) == pc = "completing" /\ Finish(<<text>>)

\* Mutant of CompleteFails: what was streamed is not kept.
PartialDropped ==
    /\ pc = "completing"
    /\ pc' = "failed"
    /\ wait' = 0 /\ silence' = 0
    /\ UNCHANGED <<request, toolVars, answerVars, since, sinceDelta>>

\* What was streamed is kept, with a note; without any the graph fails and the
\* endpoint sends an error event.
CompleteFails ==
    /\ pc = "completing"
    /\ \/ parts # <<>> /\ Finish(Append(parts, "note"))
       \/ /\ parts = <<>>
          /\ pc' = "failed"
          /\ wait' = 0 /\ silence' = 0
          /\ UNCHANGED <<request, toolVars, answerVars, since, sinceDelta>>

Ended == pc \in {"done", "failed"} /\ UNCHANGED vars

Next ==
    \/ Tick
    \/ PlannerAnswers \/ PlannerFails \/ PlannerWaits
    \/ CallLocal \/ CallTool \/ RequestSent \/ PeerGoesOn \/ CodeGoesOn
    \/ ToolAnswers \/ ToolFails
    \/ StartAnswer \/ StreamEnds \/ StreamBreaks \/ AnswerWaits \/ CompleteFails
    \/ \E text \in {"plain", "code"} : Delta(text) \/ Complete(text)
    \/ Ended

Spec == Init /\ [][Next]_vars

-----------------------------------------------------------------------------

\* Types of the graph's state.
TypeOK ==
    /\ request \in [problem : BOOLEAN, low : BOOLEAN]
    /\ pc \in {"planning", "tools", "connecting", "reading", "answering", "completing", "done",
              "failed"}
    /\ calls \in Plans
    /\ begun \in 0..Len(calls)
    /\ results \in BoundedSeq([call : Calls, status : {"ok", "error", "skipped"}], MaxCalls)
    /\ stage \in {"none", "oj", "codegen", "judge"}
    /\ pieces \in 0..MaxPieces
    /\ {parts, shown, answer} \subseteq Seq(Texts)
    /\ fellBack \in BOOLEAN
    /\ {wait, since, sinceDelta, silence} \subseteq Nat

\* The time of a tool whose peers take one step to connect and one to answer.
ToolTime(call) ==
    OjConnect + OjRead
        + IF call.name = "code" THEN LlmTimeout + LlmTimeout + JudgeConnect + JudgeRead ELSE 0

LongestWait == Max({OjConnect, OjRead, LlmTimeout, JudgeConnect, JudgeRead})

Calling == pc \in {"connecting", "reading"}

\* Heartbeats and deltas interrupt the waits and still the phases the graph bounds
\* do not outlast their timeouts.
PhasesEndInTime ==
    /\ pc = "planning" => since <= PlannerTimeout
    /\ pc = "answering" => since <= AnswerTotal
    /\ pc = "completing" => since <= FallbackTimeout

\* A wait longer than a heartbeat is interrupted by events; only the fallback and a
\* tool are silent throughout, and a tool without a bound of its own: each further
\* step of a peer may take another timeout.
SilenceIsBounded ==
    silence <= CASE pc = "planning" -> PlannerHeartbeat
                 [] pc = "answering" -> AnswerHeartbeat
                 [] pc = "completing" -> FallbackTimeout
                 [] Calling -> ToolTime(Current) + pieces * LongestWait
                 [] OTHER -> 0

\* Idleness is looked at only when a heartbeat ends, and a stalled stream is still
\* given up within one heartbeat more than its limit.
StallsAreNoticed == pc = "answering" => sinceDelta < AnswerIdle + AnswerHeartbeat

\* nodes.py:68, 220, 252, 385: whatever the planner and the model do, and however
\* deltas and heartbeats interleave, planning, answering and the fallback end in
\* their time, a stall is noticed, and the reader waits for an event no longer than a
\* heartbeat, the fallback or a tool; the tool takes one timeout of its clients for
\* each step its peers take, so that it has no bound when they send piece by piece.
AnswersInTime == PhasesEndInTime /\ SilenceIsBounded /\ StallsAreNoticed

\* A reader who has seen part of an answer gets an answer.
PartialIsKept == pc = "failed" => shown = <<>>

\* No path to the stored answer gets around the hint level.
StoredAnswerIsSafe == pc = "done" /\ request.low => "code" \notin ToSet(answer)

\* When nothing fell back, the stored answer is what was streamed, or its
\* replacement was streamed after it.
StoredAnswerWasShown == pc = "done" /\ ~fellBack => IsSuffix(answer, shown)

\* nodes.py:332, 333, 396: streamed, completed, partial or replaced, the answer that
\* is stored is one the reader may see and, without a fallback, has seen; and a
\* reader who has seen a part is not left with an error.
StoredAnswerIsFaithful == PartialIsKept /\ StoredAnswerIsSafe /\ StoredAnswerWasShown
=============================================================================
