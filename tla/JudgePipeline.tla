--------------------------- MODULE JudgePipeline ---------------------------
(***************************************************************************)
(* The judge pipeline of oj_platform: JudgeService::submit (oj_server)     *)
(* writes a submission row and publishes a judge task; the RabbitMQ queues *)
(* hold it; the single-threaded main loop of judge_dispatcher consumes it, *)
(* marks the row RUNNING, judges it on a std::async thread and commits the *)
(* verdict, retries it or dead-letters it.                                 *)
(*                                                                         *)
(* One action is one call that another process can observe: a MySQL        *)
(* transaction, a publish, an ack.  A crash fits between any two of them.  *)
(* Queues are sets (requeueing breaks FIFO anyway); a message is named by  *)
(* an identifier that is free again once the broker has forgotten it.      *)
(***************************************************************************)
EXTENDS Naturals, FiniteSets

CONSTANTS
    Subs,          \* submissions users may send
    MsgIds,        \* bound on the messages the broker holds at one time
    Verdicts,      \* the judge statuses a worker may answer with
    MaxRetry,      \* RabbitMqConfig::max_retry_count
    MaxInflight,   \* max(1, number of workers)
    Budget,        \* how many faults of each kind may happen
    None           \* no message

JudgeStatuses ==
    {"OK", "COMPILE_ERROR", "RUNTIME_ERROR", "TIME_LIMIT_EXCEEDED",
     "MEMORY_LIMIT_EXCEEDED", "OUTPUT_LIMIT_EXCEEDED", "WRONG_ANSWER",
     "PRESENTATION_ERROR", "SYSTEM_ERROR"}

Terminal == JudgeStatuses \cup {"NOT_FOUND"}
Active   == {"QUEUED", "RUNNING"}
Absent   == "ABSENT"                       \* the row does not exist

FaultKinds == {"crash", "drop", "stop", "db", "publish", "lose", "delete"}

Task    == [sub : Subs, retry : 0..MaxRetry]
Places  == {"judge", "retry", "unacked"}
Message == [task : Task, at : Places]

ASSUME PipelineAssumption ==
    /\ IsFiniteSet(MsgIds)
    /\ Verdicts \subseteq JudgeStatuses
    /\ MaxRetry \in Nat
    /\ MaxInflight \in Nat \ {0}
    /\ Budget \in [FaultKinds -> Nat]
    /\ None \notin MsgIds
    /\ None \notin Message

VARIABLES
    status,     \* submissions.status in MySQL, or Absent
    submit,     \* where the request handler of each submission is
    msg,        \* the messages RabbitMQ holds
    dead,       \* tasks in the dead-letter queue (nobody consumes it)
    main,       \* where the dispatcher's main thread is
    cur,        \* the delivery the main thread is handling
    future,     \* state of the std::async judging of each pending delivery
    running,    \* g_running
    connected,  \* the dispatcher's AMQP connection is alive
    budget,     \* faults that may still happen
    settled,    \* history: a terminal status has been committed
    enqueued,   \* history: submit() believes the task is in the queue
    vanished    \* history: a publish returned OK but the broker has no message

dbVars     == <<status, settled>>
submitVars == <<submit, enqueued>>
queueVars  == <<msg, dead, vanished>>
loopVars   == <<main, cur, future>>
procVars   == <<running, connected>>
vars == <<dbVars, submitVars, queueVars, loopVars, procVars, budget>>

MainStates == {"down", "poll", "received", "checked", "starting", "rejecting",
               "deadLettering", "finishing", "rerouting", "acking"}
SubmitStates == {"idle", "created", "published", "failed", "done"}
Outcomes == Verdicts \cup {"SYSTEM_ERROR", "NOT_FOUND", "transient", "error"}

Init ==
    /\ status = [s \in Subs |-> Absent]
    /\ submit = [s \in Subs |-> "idle"]
    /\ msg = [m \in MsgIds |-> None]
    /\ dead = {}
    /\ main = "down"
    /\ cur = None
    /\ future = [m \in MsgIds |-> "none"]
    /\ running = TRUE
    /\ connected = FALSE
    /\ budget = Budget
    /\ settled = {}
    /\ enqueued = {}
    /\ vanished = {}

-----------------------------------------------------------------------------
(* Shared helpers: faults, rows, messages.                                 *)

Spend(kind) ==
    /\ budget[kind] > 0
    /\ budget' = [budget EXCEPT ![kind] = @ - 1]

Spent(kind) == Budget[kind] - budget[kind]

Live == {m \in MsgIds : msg[m] # None}
SubOf(m) == msg[m].task.sub
Pending == {m \in MsgIds : future[m] # "none"}

\* The UPDATE of update_submission: unconditional, whatever the row holds.
Commit(s, new) ==
    /\ status' = [status EXCEPT ![s] = new]
    /\ settled' = IF new \in Terminal THEN settled \cup {s} ELSE settled

Save(s, new) ==
    /\ status[s] # Absent
    /\ Commit(s, new)
    /\ UNCHANGED budget

\* update_submission throws: no row, a rolled back transaction, or a commit
\* whose answer is lost after MySQL has applied it.
SaveThrows(s, new) ==
    \/ status[s] = Absent /\ UNCHANGED <<dbVars, budget>>
    \/ Spend("db") /\ UNCHANGED dbVars
    \/ Spend("db") /\ status[s] # Absent /\ Commit(s, new)

LoadThrows(s) ==
    /\ UNCHANGED dbVars
    /\ IF status[s] = Absent THEN UNCHANGED budget ELSE Spend("db")

\* Mutant of Mark: the terminal check is dropped.
MarkUnconditional(s, new) == Save(s, new)

\* mark_submission_for_retry and mark_submission_dead load the row and save it
\* unless it is terminal.  The only other writer, submit(), writes QUEUED while
\* a task exists, and every interleaving of that write with the load and the
\* save ends as if it came before or after both.
Mark(s, new) ==
    IF status[s] \in Terminal THEN UNCHANGED <<dbVars, budget>> ELSE Save(s, new)

MarkThrows(s, new) ==
    IF status[s] \in Terminal THEN LoadThrows(s) ELSE SaveThrows(s, new)

Publish(task, place) ==
    \E m \in MsgIds \ Live :
        msg' = [msg EXCEPT ![m] = [task |-> task, at |-> place]]

\* What an acknowledgement and a nack(requeue) do to the delivery: nothing once
\* the connection it came from is gone, for the broker has requeued it.
Acked(m)  == IF connected THEN [msg EXCEPT ![m] = None] ELSE msg
Nacked(m) == IF connected THEN [msg EXCEPT ![m].at = "judge"] ELSE msg

\* The broker requeues what a closed connection leaves unacknowledged.
Requeued ==
    [m \in MsgIds |->
        IF m \in Live /\ msg[m].at = "unacked"
        THEN [task |-> msg[m].task, at |-> "judge"] ELSE msg[m]]

-----------------------------------------------------------------------------
(* JudgeService::submit, one request handler per submission.               *)

SubmitCreate(s) ==
    /\ submit[s] = "idle"
    /\ submit' = [submit EXCEPT ![s] = "created"]
    /\ Commit(s, "QUEUED")
    /\ UNCHANGED <<enqueued, queueVars, loopVars, procVars, budget>>

\* No row is written: the problem id does not parse, the INSERT fails, or the
\* problem does not exist (the NOT_FOUND row violates fk_submissions_problem).
SubmitRefused(s) ==
    /\ submit[s] = "idle"
    /\ submit' = [submit EXCEPT ![s] = "done"]
    /\ UNCHANGED <<dbVars, enqueued, queueVars, loopVars, procVars, budget>>

SubmitPublish(s) ==
    /\ submit[s] = "created"
    /\ submit' = [submit EXCEPT ![s] = "published"]
    /\ enqueued' = enqueued \cup {s}
    /\ \/ /\ Publish([sub |-> s, retry |-> 0], "judge")
          /\ UNCHANGED <<vanished, budget>>
       \/ /\ Spend("lose")
          /\ vanished' = vanished \cup {s}
          /\ UNCHANGED msg
    /\ UNCHANGED <<dbVars, dead, loopVars, procVars>>

\* RabbitMQ is unavailable or amqp_basic_publish fails.
SubmitPublishFails(s) ==
    /\ submit[s] = "created"
    /\ submit' = [submit EXCEPT ![s] = "failed"]
    /\ UNCHANGED <<dbVars, enqueued, queueVars, loopVars, procVars, budget>>

\* The closing update_submission: QUEUED after a publish, SYSTEM_ERROR after a
\* failure; an exception is swallowed.
SubmitFinish(s) ==
    /\ submit[s] \in {"published", "failed"}
    /\ submit' = [submit EXCEPT ![s] = "done"]
    /\ LET new == IF submit[s] = "published" THEN "QUEUED" ELSE "SYSTEM_ERROR"
       IN  Save(s, new) \/ SaveThrows(s, new)
    /\ UNCHANGED <<enqueued, queueVars, loopVars, procVars>>

\* oj_server dies inside the handler.
SubmitCrash(s) ==
    /\ submit[s] \in {"created", "published", "failed"}
    /\ submit' = [submit EXCEPT ![s] = "done"]
    /\ UNCHANGED <<dbVars, enqueued, queueVars, loopVars, procVars, budget>>

\* Deleting the problem removes its submissions (ON DELETE CASCADE).
DeleteProblem(s) ==
    /\ status[s] # Absent
    /\ Spend("delete")
    /\ status' = [status EXCEPT ![s] = Absent]
    /\ UNCHANGED <<settled, submitVars, queueVars, loopVars, procVars>>

-----------------------------------------------------------------------------
(* RabbitMQ.                                                               *)

\* x-message-ttl expires in the retry queue; the dead-letter exchange routes
\* the message back to the judge queue.
RetryExpires(m) ==
    /\ m \in Live
    /\ msg[m].at = "retry"
    /\ msg' = [msg EXCEPT ![m].at = "judge"]
    /\ UNCHANGED <<dbVars, submitVars, dead, vanished, loopVars, procVars, budget>>

\* The dispatcher's connection or channel closes; the client object never
\* reconnects and keeps answering available() = true.
Disconnect ==
    /\ main # "down"
    /\ connected
    /\ Spend("drop")
    /\ connected' = FALSE
    /\ msg' = Requeued
    /\ UNCHANGED <<dbVars, submitVars, dead, vanished, loopVars, running>>

-----------------------------------------------------------------------------
(* judge_dispatcher: taking a delivery.                                    *)

Consume(m) ==
    /\ main = "poll" /\ running /\ connected
    /\ Cardinality(Pending) < MaxInflight
    /\ m \in Live /\ msg[m].at = "judge"
    /\ msg' = [msg EXCEPT ![m].at = "unacked"]
    /\ main' = "received"
    /\ cur' = m
    /\ UNCHANGED <<dbVars, submitVars, dead, vanished, future, procVars, budget>>

\* Mutant of FirstLoad: a terminal record is passed on to dispatch_task.
FirstLoadBlind ==
    /\ main = "received"
    /\ \/ status[SubOf(cur)] # Absent /\ main' = "checked" /\ UNCHANGED <<dbVars, budget>>
       \/ LoadThrows(SubOf(cur)) /\ main' = "rejecting"
    /\ UNCHANGED <<submitVars, queueVars, cur, future, procVars>>

\* main(): load the record; a terminal one is acknowledged and dropped.
FirstLoad ==
    /\ main = "received"
    /\ \/ /\ status[SubOf(cur)] \in Terminal
          /\ main' = "poll" /\ cur' = None
          /\ msg' = Acked(cur)
          /\ UNCHANGED <<dbVars, budget>>
       \/ /\ status[SubOf(cur)] \in Active
          /\ main' = "checked"
          /\ UNCHANGED <<cur, msg, dbVars, budget>>
       \/ /\ LoadThrows(SubOf(cur))
          /\ main' = "rejecting"
          /\ UNCHANGED <<cur, msg>>
    /\ UNCHANGED <<submitVars, dead, vanished, future, procVars>>

\* dispatch_task(): load it again; if it is terminal now, return without an ack.
SecondLoad ==
    /\ main = "checked"
    /\ \/ /\ status[SubOf(cur)] \in Terminal
          /\ main' = "poll" /\ cur' = None
          /\ UNCHANGED <<dbVars, budget>>
       \/ /\ status[SubOf(cur)] \in Active
          /\ main' = "starting"
          /\ UNCHANGED <<cur, dbVars, budget>>
       \/ /\ LoadThrows(SubOf(cur))
          /\ main' = "rejecting"
          /\ UNCHANGED cur
    /\ UNCHANGED <<submitVars, queueVars, future, procVars>>

\* dispatch_task(): save RUNNING, then start the judging thread.
StartJudging ==
    /\ main = "starting"
    /\ \/ /\ Save(SubOf(cur), "RUNNING")
          /\ future' = [future EXCEPT ![cur] = "judging"]
          /\ main' = "poll" /\ cur' = None
       \/ /\ SaveThrows(SubOf(cur), "RUNNING")
          /\ main' = "rejecting"
          /\ UNCHANGED <<cur, future>>
    /\ UNCHANGED <<submitVars, queueVars, procVars>>

\* main()'s handler for any exception above: mark the submission dead,
\* swallowing a failure of that.
RejectMark ==
    /\ main = "rejecting"
    /\ Mark(SubOf(cur), "SYSTEM_ERROR") \/ MarkThrows(SubOf(cur), "SYSTEM_ERROR")
    /\ main' = "deadLettering"
    /\ UNCHANGED <<submitVars, queueVars, cur, future, procVars>>

-----------------------------------------------------------------------------
(* judge_dispatcher: the judging thread and the collection of its result.  *)

\* execute_judge_task: the first load is outside the try block, so its failure
\* reaches the future as an ordinary exception ("error"); a failure of the
\* worker pool is "transient", any other one a SYSTEM_ERROR record.
JudgeDone(m, outcome) ==
    /\ future[m] = "judging"
    /\ future' = [future EXCEPT ![m] = outcome]
    /\ IF outcome = "error" THEN LoadThrows(SubOf(m)) ELSE UNCHANGED <<dbVars, budget>>
    /\ UNCHANGED <<submitVars, queueVars, main, cur, procVars>>

\* Mutant of Collect: nothing is collected once g_running is cleared.
CollectWhileRunning(m) ==
    /\ main = "poll" /\ running
    /\ future[m] \in Outcomes \ {"error"}
    /\ main' = "finishing" /\ cur' = m
    /\ UNCHANGED <<dbVars, submitVars, queueVars, future, procVars, budget>>

\* collect_finished_tasks reaches a ready future.  One failed inside its first
\* load needs no database step and is requeued at once.
Collect(m) ==
    /\ main = "poll"
    /\ future[m] \in Outcomes
    /\ IF future[m] = "error"
       THEN /\ msg' = Nacked(m)
            /\ future' = [future EXCEPT ![m] = "none"]
            /\ UNCHANGED <<main, cur>>
       ELSE /\ main' = "finishing" /\ cur' = m
            /\ UNCHANGED <<msg, future>>
    /\ UNCHANGED <<dbVars, submitVars, dead, vanished, procVars, budget>>

\* Mutants of Exhausted: one retry too many, one too few.
ExhaustedLate(m) == msg[m].task.retry > MaxRetry
ExhaustedEarly(m) == msg[m].task.retry + 1 >= MaxRetry

Exhausted(m) == msg[m].task.retry + 1 > MaxRetry

\* The nested handlers: requeue the delivery and erase the pending task.
Requeue ==
    /\ msg' = Nacked(cur)
    /\ future' = [future EXCEPT ![cur] = "none"]
    /\ main' = "poll" /\ cur' = None

\* Mutant of SaveResult: the pending task is erased without a nack.
SaveResultForgets ==
    /\ main = "finishing" /\ future[cur] # "transient"
    /\ \/ /\ Save(SubOf(cur), future[cur])
          /\ main' = "acking" /\ UNCHANGED <<cur, future>>
       \/ /\ SaveThrows(SubOf(cur), future[cur])
          /\ future' = [future EXCEPT ![cur] = "none"]
          /\ main' = "poll" /\ cur' = None
    /\ UNCHANGED <<submitVars, queueVars, procVars>>

\* A result is saved as it is, with no look at the row.
SaveResult ==
    /\ main = "finishing"
    /\ future[cur] # "transient"
    /\ \/ /\ Save(SubOf(cur), future[cur])
          /\ main' = "acking"
          /\ UNCHANGED <<cur, msg, future>>
       \/ /\ SaveThrows(SubOf(cur), future[cur])
          /\ Requeue
    /\ UNCHANGED <<submitVars, dead, vanished, procVars>>

\* Mutants of MarkFailure: the delivery is acknowledged before the publish; an
\* exhausted task is marked like any other.
MarkFailureAcks ==
    /\ main = "finishing" /\ future[cur] = "transient"
    /\ Mark(SubOf(cur), "QUEUED")
    /\ msg' = Acked(cur)
    /\ main' = "rerouting"
    /\ UNCHANGED <<submitVars, dead, vanished, cur, future, procVars>>

MarkFailureForRetry ==
    /\ main = "finishing" /\ future[cur] = "transient"
    /\ Mark(SubOf(cur), "QUEUED")
    /\ main' = "rerouting"
    /\ UNCHANGED <<submitVars, queueVars, cur, future, procVars>>

\* A temporary failure: mark the row for a retry or, after the last, as dead.
MarkFailure ==
    /\ main = "finishing"
    /\ future[cur] = "transient"
    /\ LET new == IF Exhausted(cur) THEN "SYSTEM_ERROR" ELSE "QUEUED" IN
       \/ /\ Mark(SubOf(cur), new)
          /\ main' = "rerouting"
          /\ UNCHANGED <<cur, msg, future>>
       \/ /\ MarkThrows(SubOf(cur), new)
          /\ Requeue
    /\ UNCHANGED <<submitVars, dead, vanished, procVars>>

\* publish_retry_or_throw / publish_dead_letter_or_throw.  Publishes are not
\* confirmed: one that returned OK may still be lost.
Reroute ==
    /\ main = "rerouting"
    /\ main' = "acking"
    /\ LET task == msg[cur].task IN
       \/ /\ connected
          /\ IF Exhausted(cur)
             THEN /\ dead' = dead \cup {[sub |-> task.sub, retry |-> task.retry + 1]}
                  /\ UNCHANGED msg
             ELSE /\ Publish([sub |-> task.sub, retry |-> task.retry + 1], "retry")
                  /\ UNCHANGED dead
          /\ UNCHANGED <<vanished, budget>>
       \/ /\ Spend("lose")
          /\ vanished' = vanished \cup {task.sub}
          /\ UNCHANGED <<msg, dead>>
    /\ UNCHANGED <<dbVars, submitVars, cur, future, procVars>>

\* main(): publish the raw body to the dead-letter queue.
DeadLetterRaw ==
    /\ main = "deadLettering"
    /\ main' = "acking"
    /\ \/ /\ connected
          /\ dead' = dead \cup {msg[cur].task}
          /\ UNCHANGED <<vanished, budget>>
       \/ /\ Spend("lose")
          /\ vanished' = vanished \cup {SubOf(cur)}
          /\ UNCHANGED dead
    /\ UNCHANGED <<dbVars, submitVars, msg, cur, future, procVars>>

PublishThrows ==
    /\ main \in {"rerouting", "deadLettering"}
    /\ IF connected THEN Spend("publish") ELSE UNCHANGED budget
    /\ Requeue
    /\ UNCHANGED <<dbVars, submitVars, dead, vanished, procVars>>

\* Mutant of Ack: the delivery is requeued after its task was published again.
AckRequeues ==
    /\ main = "acking"
    /\ Requeue
    /\ UNCHANGED <<dbVars, submitVars, dead, vanished, procVars, budget>>

Ack ==
    /\ main = "acking"
    /\ msg' = Acked(cur)
    /\ future' = [future EXCEPT ![cur] = "none"]
    /\ main' = "poll" /\ cur' = None
    /\ UNCHANGED <<dbVars, submitVars, dead, vanished, procVars, budget>>

-----------------------------------------------------------------------------
(* judge_dispatcher: the life of the process.                              *)

Start ==
    /\ main = "down"
    /\ main' = "poll"
    /\ running' = TRUE
    /\ connected' = TRUE
    /\ UNCHANGED <<dbVars, submitVars, queueVars, cur, future, budget>>

\* SIGINT / SIGTERM.
Stop ==
    /\ main # "down" /\ running
    /\ Spend("stop")
    /\ running' = FALSE
    /\ UNCHANGED <<dbVars, submitVars, queueVars, loopVars, connected>>

GoDown ==
    /\ main' = "down"
    /\ cur' = None
    /\ future' = [m \in MsgIds |-> "none"]
    /\ msg' = Requeued
    /\ connected' = FALSE
    /\ UNCHANGED <<dbVars, submitVars, dead, vanished, running>>

\* After g_running is cleared, main() drains the pending tasks and returns.
Exit ==
    /\ main = "poll" /\ ~running
    /\ Pending = {}
    /\ GoDown
    /\ UNCHANGED budget

Crash ==
    /\ main # "down"
    /\ Spend("crash")
    /\ GoDown

-----------------------------------------------------------------------------
SubmitNext(s) ==
    \/ SubmitCreate(s) \/ SubmitRefused(s) \/ SubmitPublish(s)
    \/ SubmitPublishFails(s) \/ SubmitFinish(s) \/ SubmitCrash(s)
    \/ DeleteProblem(s)

\* Every step of the main thread that is not a choice at the top of the loop.
MainStep ==
    \/ FirstLoad \/ SecondLoad \/ StartJudging \/ RejectMark
    \/ SaveResult \/ MarkFailure \/ Reroute \/ DeadLetterRaw
    \/ PublishThrows \/ Ack

JudgeThread(m) == \E outcome \in Outcomes : JudgeDone(m, outcome)

Next ==
    \/ \E s \in Subs : SubmitNext(s)
    \/ \E m \in MsgIds : RetryExpires(m) \/ Consume(m) \/ Collect(m) \/ JudgeThread(m)
    \/ MainStep
    \/ Disconnect \/ Start \/ Stop \/ Exit \/ Crash

Spec == Init /\ [][Next]_vars

(***************************************************************************)
(* Fairness.  The main thread and the judging threads keep running, the    *)
(* broker expires TTLs and compose restarts a process that ended, so their *)
(* steps are weakly fair.  Consume and Collect are enabled only at the top *)
(* of the loop, yet each turn scans every pending future and the judge     *)
(* queue hands out its messages in order: strong fairness for each message.*)
(***************************************************************************)
Fairness ==
    /\ WF_vars(MainStep)
    /\ WF_vars(Start)
    /\ WF_vars(Exit)
    /\ \A m \in MsgIds :
        /\ WF_vars(JudgeThread(m))
        /\ WF_vars(RetryExpires(m))
        /\ SF_vars(Collect(m))
        /\ SF_vars(Consume(m))

FairSpec == Spec /\ Fairness

-----------------------------------------------------------------------------
(* Properties.                                                             *)

\* Every variable keeps its type; in particular a message in the judge or retry
\* queue never carries a retry_count above max_retry_count.
TypeOK ==
    /\ status \in [Subs -> Terminal \cup Active \cup {Absent}]
    /\ submit \in [Subs -> SubmitStates]
    /\ msg \in [MsgIds -> Message \cup {None}]
    /\ dead \subseteq [sub : Subs, retry : 0..(MaxRetry + 1)]
    /\ main \in MainStates
    /\ cur \in MsgIds \cup {None}
    /\ future \in [MsgIds -> {"none", "judging"} \cup Outcomes]
    /\ running \in BOOLEAN
    /\ connected \in BOOLEAN
    /\ budget \in [FaultKinds -> Nat]
    /\ settled \subseteq Subs
    /\ enqueued \subseteq Subs
    /\ vanished \subseteq Subs

HasMessage(s) == \E m \in Live : SubOf(m) = s
DeadLettered(s) == \E t \in dead : t.sub = s

\* An enqueued submission is never forgotten: until a terminal status has been
\* committed for it, RabbitMQ still holds its task (queued, waiting for a retry
\* or unacknowledged) or it is in the dead-letter queue.  The one exception is a
\* publish the broker lost, which the unconfirmed publisher cannot notice.
NoTaskLost ==
    \A s \in enqueued :
        s \in settled \/ HasMessage(s) \/ DeadLettered(s) \/ s \in vanished

\* Every unacknowledged delivery has an owner that will acknowledge or requeue
\* it: the main thread or a pending task.  In particular the early return of
\* dispatch_task that forgets the ack is never taken.
NoDeliveryLeaks ==
    \A m \in Live : msg[m].at = "unacked" => m = cur \/ m \in Pending

\* The dead-letter queue holds tasks that failed max_retry_count + 1 times; a
\* task that did not is there only because MySQL failed or its row was deleted.
DeadLettersAreEarned ==
    \A t \in dead : t.retry > MaxRetry \/ Spent("db") > 0 \/ Spent("delete") > 0

\* A dead-lettered submission shows a terminal status to its user, unless MySQL
\* failed, its row was deleted or submit() wrote QUEUED late: mark_submission_dead
\* comes before the publish.
DeadLetteredIsSettled ==
    \A s \in Subs : DeadLettered(s) =>
        s \in settled \/ Spent("db") > 0 \/ Spent("delete") > 0

\* The dispatcher never takes a terminal submission back to QUEUED or RUNNING,
\* whatever copies of its task are in flight; only the last write of submit() does.
OnlySubmitReopens ==
    [][\A s \in Subs :
         status[s] \in Terminal /\ status'[s] \in Active
            => submit[s] = "published" /\ submit'[s] = "done"]_vars

\* A terminal status is replaced by a different one only when a crash or a
\* connection loss has made a copy of the task.
VerdictChangeNeedsCopy ==
    [][\A s \in Subs :
         status[s] \in Terminal /\ status'[s] \in Terminal \ {status[s]}
            => Spent("crash") + Spent("drop") > 0]_vars

\* The pipeline implements JudgeContract: an accepted submission is eventually
\* settled or given up, its phases only move forward, and a settled one is never
\* given up or forgotten, whatever crashes, retries and copies do meanwhile.
PhaseOf(s) ==
    IF s \notin enqueued THEN "new"
    ELSE IF s \in settled THEN "settled"
    ELSE IF DeadLettered(s) \/ s \in vanished THEN "abandoned"
    ELSE "accepted"

Contract == INSTANCE JudgeContract
                WITH Jobs <- Subs, phase <- [s \in Subs |-> PhaseOf(s)]

ImplementsContract == Contract!Spec

\* README.md:329, "QUEUED -> RUNNING -> FINAL_STATUS": a final status is final.
FinalStatusIsFinal ==
    [][\A s \in Subs : status[s] \in Terminal => status'[s] \in {status[s], Absent}]_vars
=============================================================================
