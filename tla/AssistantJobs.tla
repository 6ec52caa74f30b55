--------------------------- MODULE AssistantJobs ---------------------------
(***************************************************************************)
(* The assistant jobs of oj_server: a POST creates a job and starts a      *)
(* detached thread, which relays the events of agent-service into the      *)
(* job's log and stores the round it answered; the web page polls the log. *)
(*                                                                         *)
(* Progress of every kind (stages, plan, tools, answer text) is one event  *)
(* here; what matters is the order of the log and how it ends.             *)
(***************************************************************************)
EXTENDS Integers, Sequences, FiniteSets, SequencesExt

CONSTANTS
    Jobs, Conversations,
    ConvOf,         \* the conversation of each job
    Watched,        \* jobs whose page stays open and polls
    Earlier,        \* the round of a conversation that exists from the start
    HistoryRounds,  \* rounds of a conversation that a question takes along (8)
    MaxEvents,      \* progress events a log may hold
    MaxFaults       \* database and network failures and restarts in a behaviour

ASSUME JobsAssumption ==
    /\ ConvOf \in [Jobs -> Conversations]
    /\ Watched \subseteq Jobs
    /\ Earlier \notin Jobs
    /\ HistoryRounds \in Nat \ {0}
    /\ MaxEvents \in Nat /\ MaxFaults \in Nat

VARIABLES
    known,      \* g_assistant_diagnosis_jobs: the jobs a poll can find
    log,        \* the events of each job
    done,       \* the job's done flag
    age,        \* fresh, stale (over 240 s) or old (over 600 s)
    thread,     \* where the detached thread of a job is
    rounds,     \* ai_message: <<round_no, job>>
    count,      \* ai_conversation.round_count
    number,     \* the round_no a transaction has computed
    history,    \* the rounds each thread sent to agent-service
    client,     \* where the page that asked is
    last,       \* its lastEventId
    shown,      \* the events it has handled
    asked,      \* history: the rounds the user had seen when asking
    expired,    \* history: jobs a poll has given up on
    broken,     \* history: jobs something has failed for
    faults

jobVars == <<known, log, done, age>>
dbVars == <<rounds, count, number>>
clientVars == <<client, last, shown>>
histVars == <<asked, expired, broken>>
vars == <<jobVars, thread, dbVars, history, clientVars, histVars, faults>>

Terminal == {"done", "error"}
Events == {"progress"} \cup Terminal
Ends == {"ended", "dead"}

\* A conversation exists as soon as it has a round.
Stored(c) == {r[2] : r \in rounds[c]}
Siblings(j) == {i \in Jobs : ConvOf[i] = ConvOf[j]} \ {j}
Running(j) == thread[j] \notin {"none"} \cup Ends

Init ==
    /\ known = {}
    /\ log = [j \in Jobs |-> <<>>]
    /\ done = [j \in Jobs |-> FALSE]
    /\ age = [j \in Jobs |-> "fresh"]
    /\ thread = [j \in Jobs |-> "none"]
    /\ count \in [Conversations -> {0, 1}]
    /\ rounds = [c \in Conversations |-> IF count[c] = 0 THEN {} ELSE {<<1, Earlier>>}]
    /\ number = [j \in Jobs |-> 0]
    /\ history = [j \in Jobs |-> {}]
    /\ client = [j \in Jobs |-> "none"]
    /\ last = [j \in Jobs |-> 0]
    /\ shown = [j \in Jobs |-> <<>>]
    /\ asked = [j \in Jobs |-> {}]
    /\ expired = {}
    /\ broken = {}
    /\ faults = 0

Goto(j, where) == thread' = [thread EXCEPT ![j] = where]
Spend == faults < MaxFaults /\ faults' = faults + 1

\* append_assistant_diagnosis_event: the id of an event is its place.
Emit(j, event) == log' = [log EXCEPT ![j] = Append(@, event)]

Break(j) == broken' = broken \cup {j}

-----------------------------------------------------------------------------
(* POST .../chat/stream: old jobs are forgotten, the new one is known.  It  *)
(* continues its conversation or, when there is none yet, starts it.  The  *)
(* page has shown the round the conversation had and those it saw done.    *)

Removable(j) == done[j] /\ age[j] = "old"

Create(j) ==
    /\ thread[j] = "none"
    /\ count[ConvOf[j]] > 0 \/ \A i \in Siblings(j) : ~Running(i)
    /\ known' = {i \in known : ~Removable(i)} \cup {j}
    /\ Emit(j, "progress")
    /\ Goto(j, "validating")
    /\ client' = [client EXCEPT ![j] = IF j \in Watched THEN "waiting" ELSE "none"]
    /\ asked' = [asked EXCEPT ![j] =
           {i \in Siblings(j) : client[i] = "done"} \cup ({Earlier} \cap Stored(ConvOf[j]))]
    /\ UNCHANGED <<done, age, dbVars, history, last, shown, expired, broken, faults>>

-----------------------------------------------------------------------------
(* The detached thread.                                                    *)

\* make_history_json: fewer than the limit come after it.
Recent(c) ==
    {r \in rounds[c] : Cardinality({q \in rounds[c] : q[1] > r[1]}) < HistoryRounds}

\* Checks pass; a conversation that goes on is read with its rounds, the last ones
\* of which go to the agent.
Validate(j) ==
    /\ thread[j] = "validating"
    /\ Goto(j, "generating")
    /\ history' = [history EXCEPT ![j] = Recent(ConvOf[j])]
    /\ UNCHANGED <<jobVars, dbVars, clientVars, histVars, faults>>

\* A check fails: the user, problem, submission or conversation is not there.
Refuse(j) ==
    /\ thread[j] = "validating"
    /\ Goto(j, "failing")
    /\ Break(j)
    /\ UNCHANGED <<jobVars, dbVars, history, clientVars, asked, expired, faults>>

\* A stage is announced, or an event of the agent's stream relayed that is
\* neither done nor error.
Relay(j) ==
    /\ thread[j] \in {"validating", "generating", "saving"}
    /\ Len(log[j]) < MaxEvents
    /\ Emit(j, "progress")
    /\ UNCHANGED <<known, done, age, thread, dbVars, history, clientVars, histVars, faults>>

\* The agent's done event is kept and not relayed.
AgentDone(j) ==
    /\ thread[j] = "generating"
    /\ Goto(j, "saving")
    /\ UNCHANGED <<jobVars, dbVars, history, clientVars, histVars, faults>>

\* The agent's error event is relayed, and thrown.
AgentError(j) ==
    /\ thread[j] = "generating"
    /\ Goto(j, "failing")
    /\ Emit(j, "error")
    /\ Break(j)
    /\ UNCHANGED <<known, done, age, dbVars, history, clientVars, asked, expired, faults>>

\* No answer, an HTTP error, a read timeout, or a stream without a done event.
AgentCut(j) ==
    /\ thread[j] = "generating"
    /\ Goto(j, "failing")
    /\ Break(j)
    /\ UNCHANGED <<jobVars, dbVars, history, clientVars, asked, expired, faults>>

\* Mutant of RowFree: the conversation is read without FOR UPDATE.
RowNotLocked(j) == j \in Jobs

RowFree(j) == \A i \in Siblings(j) : thread[i] # "locked"

\* Mutant of NextRound: the count is taken for a zero-based index.
RoundBefore(j) == count[ConvOf[j]] - 1

NextRound(j) == count[ConvOf[j]] + 1

\* BEGIN; the round_count is read under a row lock, or the conversation inserted.
Lock(j) ==
    /\ thread[j] = "saving"
    /\ RowFree(j)
    /\ Goto(j, "locked")
    /\ number' = [number EXCEPT ![j] = NextRound(j)]
    /\ UNCHANGED <<jobVars, rounds, count, history, clientVars, histVars, faults>>

Store(j) ==
    /\ rounds' = [rounds EXCEPT ![ConvOf[j]] = @ \cup {<<number[j], j>>}]
    /\ count' = [count EXCEPT ![ConvOf[j]] = number[j]]

\* UNIQUE (conversation_db_id, round_no)
RoundTaken(j) == \E r \in rounds[ConvOf[j]] : r[1] = number[j]

\* When the number is taken after all, the transaction fails.
Commit(j) ==
    /\ thread[j] = "locked"
    /\ IF RoundTaken(j)
       THEN Goto(j, "failing") /\ UNCHANGED <<rounds, count>>
       ELSE Store(j) /\ Goto(j, "stored")
    /\ UNCHANGED <<jobVars, number, history, clientVars, histVars, faults>>

SaveFails(j) ==
    /\ thread[j] \in {"saving", "locked"}
    /\ Spend
    /\ Goto(j, "failing")
    /\ Break(j)
    /\ UNCHANGED <<jobVars, dbVars, history, clientVars, asked, expired>>

\* The commit has taken effect; its answer or setAutoCommit(true) fails.
CommitThenThrow(j) ==
    /\ thread[j] = "locked" /\ ~RoundTaken(j)
    /\ Spend
    /\ Store(j)
    /\ Goto(j, "failing")
    /\ Break(j)
    /\ UNCHANGED <<jobVars, number, history, clientVars, asked, expired>>

\* Mutant of AppendDone: done is said before the round is saved.
DoneTooEarly(j) ==
    \/ /\ thread[j] = "saving" /\ "done" \notin ToSet(log[j])
       /\ Emit(j, "done")
       /\ UNCHANGED <<known, done, age, thread, dbVars, history, clientVars, histVars, faults>>
    \/ /\ thread[j] = "stored"
       /\ Goto(j, "finishing")
       /\ UNCHANGED <<jobVars, dbVars, history, clientVars, histVars, faults>>

AppendDone(j) ==
    /\ thread[j] = "stored"
    /\ Goto(j, "finishing")
    /\ Emit(j, "done")
    /\ UNCHANGED <<known, done, age, dbVars, history, clientVars, histVars, faults>>

\* Mutant of AppendError: an exception ends the job without an event.
ErrorForgotten(j) ==
    /\ thread[j] = "failing"
    /\ Goto(j, "finishing")
    /\ UNCHANGED <<jobVars, dbVars, history, clientVars, histVars, faults>>

\* catch (const std::exception&)
AppendError(j) ==
    /\ thread[j] = "failing"
    /\ Goto(j, "finishing")
    /\ Emit(j, "error")
    /\ UNCHANGED <<known, done, age, dbVars, history, clientVars, histVars, faults>>

Finish(j) ==
    /\ thread[j] = "finishing"
    /\ Goto(j, "ended")
    /\ done' = [done EXCEPT ![j] = TRUE]
    /\ UNCHANGED <<known, log, age, dbVars, history, clientVars, histVars, faults>>

-----------------------------------------------------------------------------
(* GET .../jobs/<id>/events, and the page.                                 *)

\* Whether a job is over 600 s old matters only once it is done.
Tick(j) ==
    /\ j \in known
    /\ age[j] = "fresh" \/ (age[j] = "stale" /\ done[j])
    /\ age' = [age EXCEPT ![j] = IF @ = "fresh" THEN "stale" ELSE "old"]
    /\ UNCHANGED <<known, log, done, thread, dbVars, history, clientVars, histVars, faults>>

\* Mutant of TooOld: a job is never given up.
NeverTooOld(j) == age[j] = "never"

TooOld(j) == ~done[j] /\ age[j] # "fresh"

\* The job is found, and given up when it is stale.
Poll(j) ==
    /\ client[j] = "waiting"
    /\ j \in known
    /\ client' = [client EXCEPT ![j] = "polling"]
    /\ IF TooOld(j)
       THEN /\ Emit(j, "error")
            /\ done' = [done EXCEPT ![j] = TRUE]
            /\ expired' = expired \cup {j}
       ELSE UNCHANGED <<log, done, expired>>
    /\ UNCHANGED <<known, age, thread, dbVars, history, last, shown, asked, broken, faults>>

\* 404: the job is gone.
PollUnknown(j) ==
    /\ client[j] = "waiting"
    /\ j \notin known
    /\ client' = [client EXCEPT ![j] = "error"]
    /\ UNCHANGED <<jobVars, thread, dbVars, history, last, shown, histVars, faults>>

\* The request or its answer is lost.
PollLost(j) ==
    /\ client[j] = "polling"
    /\ Spend
    /\ client' = [client EXCEPT ![j] = "error"]
    /\ UNCHANGED <<jobVars, thread, dbVars, history, last, shown, histVars>>

\* Mutant of Fresh: the event the page has seen last is sent again.
FreshAgain(j) == IF last[j] = 0 THEN log[j] ELSE SubSeq(log[j], last[j], Len(log[j]))

\* The events with an id above ?after=.
Fresh(j) == SubSeq(log[j], last[j] + 1, Len(log[j]))

\* The page handles the events in order and stops at an error.
Handled(events) ==
    LET errors == {i \in DOMAIN events : events[i] = "error"}
    IN  IF errors = {} THEN events
        ELSE SubSeq(events, 1, CHOOSE i \in errors : \A k \in errors : i <= k)

\* Events and flag are copied under one lock.
Deliver(j) ==
    LET events == Fresh(j)
    IN  /\ client[j] = "polling"
        /\ shown' = [shown EXCEPT ![j] = @ \o Handled(events)]
        /\ last' = [last EXCEPT ![j] = @ + Len(Handled(events))]
        /\ client' = [client EXCEPT ![j] =
               CASE "error" \in ToSet(events) -> "error"
                 [] "error" \notin ToSet(events) /\ "done" \in ToSet(events) -> "done"
                 [] ToSet(events) \cap Terminal = {} /\ done[j] -> "silent"
                 [] OTHER -> "waiting"]
        /\ UNCHANGED <<jobVars, thread, dbVars, history, histVars, faults>>

\* oj_server restarts: jobs and threads are gone, open transactions rolled back.
Restart ==
    /\ Spend
    /\ known # {}
    /\ known' = {}
    /\ thread' = [j \in Jobs |-> IF Running(j) THEN "dead" ELSE thread[j]]
    /\ broken' = broken \cup {j \in Jobs : Running(j)}
    /\ client' = [j \in Jobs |-> IF client[j] = "polling" THEN "error" ELSE client[j]]
    /\ UNCHANGED <<log, done, age, dbVars, history, last, shown, asked, expired>>

Work(j) ==
    \/ Validate(j) \/ Refuse(j) \/ Relay(j) \/ AgentDone(j) \/ AgentError(j) \/ AgentCut(j)
    \/ Lock(j) \/ Commit(j) \/ SaveFails(j) \/ CommitThenThrow(j)
    \/ AppendDone(j) \/ AppendError(j) \/ Finish(j)

Next ==
    \/ \E j \in Jobs : Create(j) \/ Work(j) \/ Tick(j)
                       \/ Poll(j) \/ PollUnknown(j) \/ PollLost(j) \/ Deliver(j)
    \/ Restart

\* The page polls on and time passes.  Nothing is assumed of the threads: they
\* wait for agent-service, whose stream may go on for any time.
Fairness == \A j \in Jobs : WF_vars(Poll(j) \/ PollUnknown(j) \/ Deliver(j)) /\ WF_vars(Tick(j))

Spec == Init /\ [][Next]_vars /\ Fairness

-----------------------------------------------------------------------------

\* Types of the jobs, the tables and the pages.
TypeOK ==
    /\ known \subseteq Jobs
    /\ log \in [Jobs -> Seq(Events)]
    /\ done \in [Jobs -> BOOLEAN]
    /\ age \in [Jobs -> {"fresh", "stale", "old"}]
    /\ thread \in [Jobs -> {"none", "validating", "generating", "saving", "locked", "stored",
                            "failing", "finishing"} \cup Ends]
    /\ rounds \in [Conversations -> SUBSET (Nat \X (Jobs \cup {Earlier}))]
    /\ count \in [Conversations -> Nat]
    /\ number \in [Jobs -> Nat]
    /\ history \in [Jobs -> SUBSET (Nat \X (Jobs \cup {Earlier}))]
    /\ client \in [Jobs -> {"none", "waiting", "polling", "done", "error", "silent"}]
    /\ last \in [Jobs -> Nat]
    /\ shown \in [Jobs -> Seq(Events)]
    /\ asked \in [Jobs -> SUBSET (Jobs \cup {Earlier})]
    /\ expired \subseteq Jobs
    /\ broken \subseteq Jobs
    /\ faults \in 0..MaxFaults

OlderThan(r, h) == Cardinality(h) = HistoryRounds /\ \A q \in h : r[1] < q[1]

\* routes.cpp:1067: the done event is the promise that the round is stored, so a
\* question asked after it builds on that round: it is in the history that goes
\* to the agent, unless the history is full of later rounds
\* (ai_assistant_service.cpp:726).
SeenRoundsAreKnown ==
    \A j \in Jobs : thread[j] \in {"generating", "saving", "locked", "stored"} =>
        \A i \in asked[j] : \E r \in rounds[ConvOf[j]] :
            r[2] = i /\ (r \in history[j] \/ OlderThan(r, history[j]))

\* routes.cpp:1112: polls overlap with a thread that appends and with the
\* expiry, and still the page handles every event once and in order.
ReadsInOrder == \A j \in Jobs : IsPrefix(shown[j], log[j]) /\ last[j] = Len(shown[j])

\* agent.js:461: the page never stops on the done flag alone, without having
\* been told how the job ended, although flag and event are set separately.
NeverSilent == \A j \in Jobs : client[j] # "silent"

\* conversation_repository.cpp:287: two answers in one conversation at the same
\* time are both stored; an answer is lost only to a failure of its own.
NoAnswerLost ==
    \A j \in Jobs : thread[j] \in Ends /\ j \notin broken => j \in Stored(ConvOf[j])

\* The rounds of a conversation are numbered without gaps or repetition, and
\* round_count is the number of the last one.
RoundsAreNumbered ==
    \A c \in Conversations :
        /\ {r[1] : r \in rounds[c]} = 1..count[c]
        /\ \A q, r \in rounds[c] : q[1] = r[1] \/ q[2] = r[2] => q = r

\* routes.cpp:170: whatever becomes of the thread, a page that polls is told in
\* the end.
PageEnds == \A j \in Jobs : client[j] = "waiting" ~> client[j] \in {"done", "error"}
=============================================================================
