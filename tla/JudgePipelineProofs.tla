------------------------ MODULE JudgePipelineProofs ------------------------
(***************************************************************************)
(* Proofs about JudgePipeline for every set of submissions and messages,   *)
(* every retry limit and every fault budget.  The invariants the runs      *)
(* check are not inductive; LoopInv, OwnerInv, OrderInv and CoverInv say   *)
(* what the dispatcher's main thread relies on between two of its steps,   *)
(* CalmInv and SoleInv what holds until certain faults have happened.      *)
(***************************************************************************)
EXTENDS JudgePipeline, TLAPS

\* The delivery in hand exists while the main thread works on it, and a pending
\* task's delivery exists until it is acknowledged.
LoopInv ==
    /\ main \in {"down", "poll"} => cur = None
    /\ main \notin {"down", "poll"} => cur \in Live
    /\ Pending \subseteq Live
    /\ main \in {"received", "checked", "starting", "rejecting", "deadLettering"}
           => future[cur] = "none"
    /\ main = "finishing" => future[cur] \in Outcomes \ {"error"}
    /\ main = "down" => Pending = {} /\ ~connected

\* On a live connection the deliveries of the main thread and of the pending
\* tasks are unacknowledged, and no other is; without one, none is.
OwnerInv ==
    /\ connected /\ main \notin {"down", "poll"} => msg[cur].at = "unacked"
    /\ connected => \A m \in Pending : msg[m].at = "unacked"
    /\ ~connected => \A m \in Live : msg[m].at # "unacked"
    /\ NoDeliveryLeaks

\* A message exists only for a submission whose publish succeeded, whose handler
\* can therefore no longer write SYSTEM_ERROR; so from the first load of a delivery
\* until RUNNING is saved nobody settles its submission.
OrderInv ==
    /\ \A m \in Live : SubOf(m) \in enqueued
    /\ \A s \in enqueued : submit[s] \in {"published", "done"}
    /\ \A s \in Subs : submit[s] = "idle" => status[s] = Absent
    /\ main \in {"checked", "starting"} => status[SubOf(cur)] \notin Terminal

Covered(s) == s \in settled \/ DeadLettered(s) \/ s \in vanished

\* Before the main thread acknowledges a delivery, the submission is settled,
\* given up, or carried on by another message.
CoverInv ==
    /\ \A s \in Subs : status[s] \in Terminal => s \in settled
    /\ main = "acking" =>
           \/ Covered(SubOf(cur))
           \/ \E m \in Live \ {cur} : SubOf(m) = SubOf(cur)
    /\ NoTaskLost

IInv == TypeOK /\ LoopInv /\ OwnerInv /\ OrderInv /\ CoverInv

\* A step that only moves messages: the same ones exist and carry the same tasks.
SameTasks(new) ==
    /\ new \in [MsgIds -> Message \cup {None}]
    /\ \A m \in MsgIds : new[m] # None <=> m \in Live
    /\ \A m \in Live : new[m].task = msg[m].task

\* Spending a fault keeps the budget a function into Nat.
LEMMA SpendType ==
    ASSUME budget \in [FaultKinds -> Nat], NEW kind \in FaultKinds, Spend(kind)
    PROVE  budget' \in [FaultKinds -> Nat]
  BY DEF Spend

\* Moving one message changes its place and nothing else.
LEMMA MovedTasks ==
    ASSUME TypeOK, NEW m \in Live, NEW place \in Places
    PROVE  /\ SameTasks([msg EXCEPT ![m].at = place])
           /\ [msg EXCEPT ![m].at = place][m].at = place
           /\ \A k \in MsgIds \ {m} : [msg EXCEPT ![m].at = place][k] = msg[k]
  BY PipelineAssumption DEF TypeOK, SameTasks, Live, Message

\* What a closed connection requeues keeps its task.
LEMMA RequeuedTasks ==
    ASSUME TypeOK
    PROVE  /\ SameTasks(Requeued)
           /\ \A m \in Live : Requeued[m].at # "unacked"
  BY PipelineAssumption DEF TypeOK, SameTasks, Live, Message, Places, Requeued

\* A nack moves the delivery back, or does nothing on a dead connection.
LEMMA NackedTasks ==
    ASSUME TypeOK, NEW m \in Live
    PROVE  /\ SameTasks(Nacked(m))
           /\ connected => Nacked(m)[m].at = "judge"
           /\ ~connected => Nacked(m) = msg
           /\ \A k \in MsgIds \ {m} : Nacked(m)[k] = msg[k]
<1>0. "judge" \in Places
  BY DEF Places
<1>1. CASE connected
  BY <1>0, <1>1, MovedTasks DEF Nacked
<1>2. CASE ~connected
  BY <1>2 DEF TypeOK, SameTasks, Live, Nacked
<1>. QED
  BY <1>1, <1>2

\* The actions that only move messages.
LEMMA MovingStep ==
    ASSUME TypeOK, LoopInv,
           \/ \E m \in MsgIds : RetryExpires(m) \/ Consume(m) \/ Collect(m)
           \/ PublishThrows \/ Disconnect \/ Exit \/ Crash
    PROVE  /\ SameTasks(msg')
           /\ Live' = Live
           /\ \A k \in Live : SubOf(k)' = SubOf(k) /\ SubOf(k) \in Subs
<1>0. SameTasks(msg)
  BY DEF TypeOK, SameTasks, Live
<1>1. SameTasks(msg')
  <2>1. ASSUME NEW m \in MsgIds, RetryExpires(m) PROVE SameTasks(msg')
    BY <2>1, MovedTasks DEF RetryExpires, Places
  <2>2. ASSUME NEW m \in MsgIds, Consume(m) PROVE SameTasks(msg')
    BY <2>2, MovedTasks DEF Consume, Places
  <2>3. ASSUME NEW m \in MsgIds, Collect(m) PROVE SameTasks(msg')
    <3>1. m \in Live
      BY <2>3, PipelineAssumption DEF Collect, LoopInv, Pending, Outcomes,
          JudgeStatuses
    <3>. QED
      BY <1>0, <2>3, <3>1, NackedTasks DEF Collect
  <2>4. CASE PublishThrows
    BY <2>4, NackedTasks DEF PublishThrows, Requeue, LoopInv
  <2>5. CASE Disconnect \/ Exit \/ Crash
    BY <2>5, RequeuedTasks DEF Disconnect, Exit, Crash, GoDown
  <2>. QED
    BY <2>1, <2>2, <2>3, <2>4, <2>5
<1>. QED
  BY <1>1 DEF SameTasks, Live, SubOf, TypeOK, Message, Task

\* The error handlers of the main loop only move a message.
LEMMA RequeueStep ==
    ASSUME TypeOK, LoopInv, cur \in Live, Requeue
    PROVE  /\ SameTasks(msg')
           /\ Live' = Live
           /\ \A k \in Live : SubOf(k)' = SubOf(k) /\ SubOf(k) \in Subs
  BY NackedTasks DEF Requeue, SameTasks, Live, SubOf, TypeOK, Message, Task

\* Judging ends for a pending delivery; nothing the main thread looks at moves.
LEMMA JudgeThreadStep ==
    ASSUME TypeOK, NEW m \in MsgIds, JudgeThread(m)
    PROVE  /\ future[m] = "judging" /\ future'[m] \in Outcomes
           /\ \A k \in MsgIds \ {m} : future'[k] = future[k]
           /\ Pending' = Pending
           /\ UNCHANGED <<submitVars, queueVars, main, cur, procVars>>
<1>1. PICK outcome \in Outcomes : JudgeDone(m, outcome)
  BY DEF JudgeThread
<1>2. "none" \notin Outcomes
  BY PipelineAssumption DEF Outcomes, JudgeStatuses
<1>. QED
  BY <1>1, <1>2 DEF JudgeDone, TypeOK, Pending

\* A step that only moves messages loses no task.
LEMMA SameTasksCover ==
    ASSUME TypeOK, CoverInv, Live' = Live,
           \A m \in Live : SubOf(m)' = SubOf(m),
           settled \subseteq settled', UNCHANGED <<dead, vanished, enqueued>>
    PROVE  NoTaskLost' /\ \A s \in Subs : Covered(s) => Covered(s)'
<1>1. \A s \in Subs : HasMessage(s) => HasMessage(s)'
  BY DEF HasMessage
<1>2. \A s \in Subs : DeadLettered(s) => DeadLettered(s)'
  BY DEF DeadLettered
<1>. QED
  BY <1>1, <1>2 DEF CoverInv, NoTaskLost, Covered, TypeOK

\* A publish adds one message and leaves the others alone.
LEMMA PublishStep ==
    ASSUME TypeOK, NEW task \in Task, NEW place \in Places, Publish(task, place)
    PROVE  /\ \A k \in Live : k \in Live' /\ SubOf(k)' = SubOf(k)
           /\ \E m \in Live' \ Live : SubOf(m)' = task.sub
  BY PipelineAssumption DEF TypeOK, Publish, Live, SubOf, Message

\* The task submit() publishes is well formed.
LEMMA FirstTask ==
    ASSUME NEW s \in Subs
    PROVE  [sub |-> s, retry |-> 0] \in Task /\ "judge" \in Places
<1>1. 0 \in 0..MaxRetry
  BY PipelineAssumption
<1>. QED
  BY <1>1 DEF Task, Places

\* The retry counter of a task that is published again stays within its bound.
LEMMA NextTask ==
    ASSUME TypeOK, NEW m \in Live,
           NEW next, next = [sub |-> msg[m].task.sub, retry |-> msg[m].task.retry + 1]
    PROVE  /\ next.sub = SubOf(m) /\ SubOf(m) \in Subs
           /\ ~Exhausted(m) => next \in Task
<1>1. msg[m].task \in Task
  BY DEF TypeOK, Live, Message
<1>. QED
  BY <1>1, PipelineAssumption DEF Task, SubOf, Exhausted

\* Before its delivery is acknowledged, a failed task is dead-lettered, published
\* again under a new message, or lost by the broker; nothing else is forgotten.
LEMMA RerouteStep ==
    ASSUME TypeOK, LoopInv, Reroute
    PROVE  /\ \A k \in Live : k \in Live' /\ SubOf(k)' = SubOf(k)
           /\ \A s \in Subs : DeadLettered(s) => DeadLettered(s)'
           /\ vanished \subseteq vanished'
           /\ SubOf(cur) \in Subs
           /\ \/ DeadLettered(SubOf(cur))'
              \/ SubOf(cur) \in vanished'
              \/ \E m \in Live' \ Live : SubOf(m)' = SubOf(cur)
<1> DEFINE next == [sub |-> msg[cur].task.sub, retry |-> msg[cur].task.retry + 1]
<1>1. cur \in Live
  BY DEF LoopInv, Reroute
<1>2. /\ next.sub = SubOf(cur) /\ SubOf(cur) \in Subs
      /\ ~Exhausted(cur) => next \in Task
  BY <1>1, NextTask
<1> HIDE DEF next
<1>3. CASE Exhausted(cur) /\ dead' = dead \cup {next} /\ UNCHANGED <<msg, vanished>>
  <2>1. next \in dead' /\ dead \subseteq dead' /\ next.sub = SubOf(cur)'
    BY <1>2, <1>3 DEF Reroute, SubOf
  <2>. QED
    BY <1>2, <1>3, <2>1 DEF DeadLettered, Live, SubOf
<1>4. CASE ~Exhausted(cur) /\ Publish(next, "retry") /\ UNCHANGED <<dead, vanished>>
  <2>1. "retry" \in Places
    BY DEF Places
  <2>2. /\ \A k \in Live : k \in Live' /\ SubOf(k)' = SubOf(k)
        /\ \E m \in Live' \ Live : SubOf(m)' = next.sub
    BY <1>2, <1>4, <2>1, PublishStep
  <2>. QED
    BY <1>2, <1>4, <2>2 DEF DeadLettered
<1>5. CASE vanished' = vanished \cup {SubOf(cur)} /\ UNCHANGED <<msg, dead>>
  BY <1>2, <1>5 DEF DeadLettered, Live, SubOf
<1>. QED
  BY <1>3, <1>4, <1>5 DEF Reroute, SubOf, next

\* So a failed task is covered before its delivery is acknowledged.
LEMMA RerouteCover ==
    ASSUME IInv, Reroute
    PROVE  CoverInv'
<1>1. /\ \A k \in Live : k \in Live' /\ SubOf(k)' = SubOf(k)
      /\ \A s \in Subs : DeadLettered(s) => DeadLettered(s)'
      /\ vanished \subseteq vanished'
      /\ SubOf(cur) \in Subs
  BY RerouteStep DEF IInv
<1>2. /\ UNCHANGED <<status, settled, enqueued, cur>>
      /\ cur \in Live
  BY DEF Reroute, dbVars, submitVars, IInv, LoopInv
<1>3. SubOf(cur)' = SubOf(cur)
  BY <1>1, <1>2
<1>4. \A s \in Subs : status'[s] \in Terminal => s \in settled'
  BY <1>2 DEF IInv, CoverInv
<1>5. NoTaskLost'
  <2>1. \A s \in Subs : HasMessage(s) => HasMessage(s)'
    BY <1>1 DEF HasMessage
  <2>. QED
    BY <1>1, <1>2, <2>1 DEF IInv, TypeOK, CoverInv, NoTaskLost
<1>6. Covered(SubOf(cur))' \/ \E m \in Live' \ {cur'} : SubOf(m)' = SubOf(cur)'
  <2>1. CASE DeadLettered(SubOf(cur))' \/ SubOf(cur) \in vanished'
    BY <1>3, <2>1 DEF Covered
  <2>2. CASE \E m \in Live' \ Live : SubOf(m)' = SubOf(cur)
    BY <1>2, <1>3, <2>2
  <2>. QED
    BY RerouteStep, <2>1, <2>2 DEF IInv
<1>. QED
  BY <1>4, <1>5, <1>6 DEF CoverInv

\* Every step keeps the types: an increment of retry_count stays in bounds and a
\* fault is spent only while the budget lasts.
LEMMA TypeStep ==
    ASSUME IInv, [Next]_vars
    PROVE  TypeOK'
<1> USE PipelineAssumption DEF IInv, TypeOK, LoopInv, Live, SubOf, Terminal,
    Active, Absent, JudgeStatuses, Task, Places, Message, MainStates,
    SubmitStates, Outcomes, FaultKinds
<1>1. ASSUME NEW s \in Subs, SubmitCreate(s) PROVE TypeOK'
  BY <1>1 DEF SubmitCreate, Commit, queueVars, loopVars, procVars
<1>2. ASSUME NEW s \in Subs, SubmitRefused(s) PROVE TypeOK'
  BY <1>2 DEF SubmitRefused, dbVars, queueVars, loopVars, procVars
<1>3. ASSUME NEW s \in Subs, SubmitPublish(s) PROVE TypeOK'
  BY <1>3 DEF SubmitPublish, Spend, Publish, dbVars, loopVars, procVars
<1>4. ASSUME NEW s \in Subs, SubmitPublishFails(s) PROVE TypeOK'
  BY <1>4 DEF SubmitPublishFails, dbVars, queueVars, loopVars, procVars
<1>5. ASSUME NEW s \in Subs, SubmitFinish(s) PROVE TypeOK'
  BY <1>5 DEF SubmitFinish, Spend, Commit, Save, SaveThrows, dbVars,
      queueVars, loopVars, procVars
<1>6. ASSUME NEW s \in Subs, SubmitCrash(s) PROVE TypeOK'
  BY <1>6 DEF SubmitCrash, dbVars, queueVars, loopVars, procVars
<1>7. ASSUME NEW s \in Subs, DeleteProblem(s) PROVE TypeOK'
  BY <1>7 DEF DeleteProblem, Spend, submitVars, queueVars, loopVars, procVars
<1>8. ASSUME NEW m \in MsgIds, RetryExpires(m) PROVE TypeOK'
  BY <1>8 DEF RetryExpires, dbVars, submitVars, loopVars, procVars
<1>9. ASSUME NEW m \in MsgIds, Consume(m) PROVE TypeOK'
  BY <1>9 DEF Consume, Pending, dbVars, submitVars, procVars
<1>10. ASSUME NEW m \in MsgIds, Collect(m) PROVE TypeOK'
  BY <1>10, MovingStep DEF Collect, dbVars, submitVars, procVars, SameTasks
<1>11. ASSUME NEW m \in MsgIds, JudgeThread(m) PROVE TypeOK'
  BY <1>11 DEF JudgeThread, Spend, LoadThrows, JudgeDone, dbVars, submitVars,
      queueVars, procVars
<1>12. CASE FirstLoad
  BY <1>12 DEF FirstLoad, Spend, LoadThrows, Acked, dbVars, submitVars,
      procVars
<1>13. CASE SecondLoad
  BY <1>13 DEF SecondLoad, Spend, LoadThrows, dbVars, submitVars, queueVars,
      procVars
<1>14. CASE StartJudging
  BY <1>14 DEF StartJudging, Spend, Commit, Save, SaveThrows, dbVars,
      submitVars, queueVars, procVars
<1>15. CASE RejectMark
  BY <1>15 DEF RejectMark, Spend, Commit, Save, SaveThrows, LoadThrows, Mark,
      MarkThrows, dbVars, submitVars, queueVars, procVars
<1>16. CASE SaveResult
  BY <1>16 DEF SaveResult, Spend, Commit, Save, SaveThrows, Nacked, Requeue,
      dbVars, submitVars, procVars
<1>17. CASE MarkFailure
  BY <1>17 DEF MarkFailure, Spend, Commit, Save, SaveThrows, LoadThrows, Mark,
      MarkThrows, Nacked, Requeue, Exhausted, dbVars, submitVars, procVars
<1>18. CASE Reroute
  BY <1>18 DEF Reroute, Spend, Publish, Exhausted, dbVars, submitVars,
      procVars
<1>19. CASE DeadLetterRaw
  BY <1>19 DEF DeadLetterRaw, Spend, dbVars, submitVars, procVars
<1>20. CASE PublishThrows
  BY <1>20 DEF PublishThrows, Spend, Nacked, Requeue, dbVars, submitVars,
      procVars
<1>21. CASE Ack
  BY <1>21 DEF Ack, Acked, dbVars, submitVars, procVars
<1>22. CASE Disconnect
  BY <1>22, SpendType, MovingStep DEF Disconnect, dbVars, submitVars,
      loopVars, SameTasks
<1>23. CASE Start
  BY <1>23 DEF Start, dbVars, submitVars, queueVars
<1>24. CASE Stop
  BY <1>24, SpendType DEF Stop, dbVars, submitVars, queueVars, loopVars
<1>25. CASE Exit
  BY <1>25 DEF Exit, Pending, Requeued, GoDown, dbVars, submitVars
<1>26. CASE Crash
  BY <1>26, SpendType, MovingStep DEF Crash, GoDown, dbVars, submitVars,
      SameTasks
<1>27. CASE UNCHANGED vars
  BY <1>27 DEF vars, dbVars, submitVars, queueVars, loopVars, procVars
<1>. QED
  BY <1>1, <1>2, <1>3, <1>4, <1>5, <1>6, <1>7, <1>8, <1>9, <1>10,
     <1>11, <1>12, <1>13, <1>14, <1>15, <1>16, <1>17, <1>18, <1>19, <1>20,
     <1>21, <1>22, <1>23, <1>24, <1>25, <1>26, <1>27
    DEF Next, SubmitNext, MainStep

\* Every step keeps the main thread and the futures in agreement.
LEMMA LoopStep ==
    ASSUME IInv, [Next]_vars
    PROVE  LoopInv'
<1> USE PipelineAssumption DEF IInv, TypeOK, LoopInv, OwnerInv, Live, Pending,
    Outcomes, Message
<1>1. ASSUME NEW s \in Subs, SubmitCreate(s) PROVE LoopInv'
  BY <1>1 DEF SubmitCreate, Commit, queueVars, loopVars, procVars
<1>2. ASSUME NEW s \in Subs, SubmitRefused(s) PROVE LoopInv'
  BY <1>2 DEF SubmitRefused, dbVars, queueVars, loopVars, procVars
<1>3. ASSUME NEW s \in Subs, SubmitPublish(s) PROVE LoopInv'
  BY <1>3 DEF SubmitPublish, Spend, Publish, dbVars, loopVars, procVars
<1>4. ASSUME NEW s \in Subs, SubmitPublishFails(s) PROVE LoopInv'
  BY <1>4 DEF SubmitPublishFails, dbVars, queueVars, loopVars, procVars
<1>5. ASSUME NEW s \in Subs, SubmitFinish(s) PROVE LoopInv'
  BY <1>5 DEF SubmitFinish, Spend, Commit, Save, SaveThrows, dbVars,
      queueVars, loopVars, procVars
<1>6. ASSUME NEW s \in Subs, SubmitCrash(s) PROVE LoopInv'
  BY <1>6 DEF SubmitCrash, dbVars, queueVars, loopVars, procVars
<1>7. ASSUME NEW s \in Subs, DeleteProblem(s) PROVE LoopInv'
  BY <1>7 DEF DeleteProblem, Spend, submitVars, queueVars, loopVars, procVars
<1>8. ASSUME NEW m \in MsgIds, RetryExpires(m) PROVE LoopInv'
  BY <1>8, MovingStep DEF RetryExpires, dbVars, submitVars, loopVars,
      procVars, SameTasks
<1>9. ASSUME NEW m \in MsgIds, Consume(m) PROVE LoopInv'
  BY <1>9, MovingStep DEF Consume, dbVars, submitVars, procVars, SameTasks
<1>10. ASSUME NEW m \in MsgIds, Collect(m) PROVE LoopInv'
  <2>1. Live' = Live /\ main = "poll" /\ cur = None
    BY <1>10, MovingStep DEF Collect
  <2>2. CASE future[m] = "error"
    BY <1>10, <2>1, <2>2 DEF Collect, procVars
  <2>3. CASE future[m] # "error"
    BY <1>10, <2>1, <2>3 DEF Collect, procVars, JudgeStatuses
  <2>. QED
    BY <2>2, <2>3
<1>11. ASSUME NEW m \in MsgIds, JudgeThread(m) PROVE LoopInv'
  BY <1>11, JudgeThreadStep DEF SubOf, dbVars, submitVars, queueVars,
      procVars, JudgeStatuses
<1>12. CASE FirstLoad
  BY <1>12 DEF FirstLoad, Spend, SubOf, LoadThrows, Acked, dbVars, submitVars,
      procVars
<1>13. CASE SecondLoad
  BY <1>13 DEF SecondLoad, Spend, SubOf, LoadThrows, dbVars, submitVars,
      queueVars, procVars
<1>14. CASE StartJudging
  BY <1>14 DEF StartJudging, Spend, SubOf, Commit, Save, SaveThrows, dbVars,
      submitVars, queueVars, procVars
<1>15. CASE RejectMark
  BY <1>15 DEF RejectMark, Spend, SubOf, Commit, Save, SaveThrows, LoadThrows,
      Mark, MarkThrows, dbVars, submitVars, queueVars, procVars
<1>16. CASE SaveResult
  BY <1>16 DEF SaveResult, Spend, SubOf, Commit, Save, SaveThrows, Nacked,
      Requeue, dbVars, submitVars, procVars
<1>17. CASE MarkFailure
  BY <1>17 DEF MarkFailure, Spend, SubOf, Commit, Save, SaveThrows,
      LoadThrows, Mark, MarkThrows, Nacked, Requeue, Exhausted, dbVars,
      submitVars, procVars
<1>18. CASE Reroute
  BY <1>18 DEF Reroute, Spend, Publish, Exhausted, dbVars, submitVars,
      procVars
<1>19. CASE DeadLetterRaw
  BY <1>19 DEF DeadLetterRaw, Spend, SubOf, dbVars, submitVars, procVars
<1>20. CASE PublishThrows
  BY <1>20 DEF PublishThrows, Spend, Nacked, Requeue, dbVars, submitVars,
      procVars
<1>21. CASE Ack
  BY <1>21 DEF Ack, Acked, dbVars, submitVars, procVars
<1>22. CASE Disconnect
  BY <1>22, MovingStep DEF Disconnect, dbVars, submitVars, loopVars, SameTasks
<1>23. CASE Start
  BY <1>23 DEF Start, dbVars, submitVars, queueVars
<1>24. CASE Stop
  BY <1>24 DEF Stop, Spend, dbVars, submitVars, queueVars, loopVars
<1>25. CASE Exit
  BY <1>25 DEF Exit, Requeued, GoDown, dbVars, submitVars
<1>26. CASE Crash
  BY <1>26 DEF Crash, Spend, Requeued, GoDown, dbVars, submitVars
<1>27. CASE UNCHANGED vars
  BY <1>27 DEF vars, dbVars, submitVars, queueVars, loopVars, procVars
<1>. QED
  BY <1>1, <1>2, <1>3, <1>4, <1>5, <1>6, <1>7, <1>8, <1>9, <1>10,
     <1>11, <1>12, <1>13, <1>14, <1>15, <1>16, <1>17, <1>18, <1>19, <1>20,
     <1>21, <1>22, <1>23, <1>24, <1>25, <1>26, <1>27
    DEF Next, SubmitNext, MainStep

\* Every step leaves each unacknowledged delivery with its owner.
LEMMA OwnerStep ==
    ASSUME IInv, [Next]_vars
    PROVE  OwnerInv'
<1> USE PipelineAssumption DEF IInv, TypeOK, LoopInv, OwnerInv, OrderInv,
    NoDeliveryLeaks, Live, Pending, SubOf, Message
<1>1. ASSUME NEW s \in Subs, SubmitCreate(s) PROVE OwnerInv'
  BY <1>1 DEF SubmitCreate, Commit, queueVars, loopVars, procVars
<1>2. ASSUME NEW s \in Subs, SubmitRefused(s) PROVE OwnerInv'
  BY <1>2 DEF SubmitRefused, dbVars, queueVars, loopVars, procVars
<1>3. ASSUME NEW s \in Subs, SubmitPublish(s) PROVE OwnerInv'
  BY <1>3 DEF SubmitPublish, Spend, Publish, dbVars, loopVars, procVars
<1>4. ASSUME NEW s \in Subs, SubmitPublishFails(s) PROVE OwnerInv'
  BY <1>4 DEF SubmitPublishFails, dbVars, queueVars, loopVars, procVars
<1>5. ASSUME NEW s \in Subs, SubmitFinish(s) PROVE OwnerInv'
  BY <1>5 DEF SubmitFinish, Spend, Commit, Save, SaveThrows, dbVars,
      queueVars, loopVars, procVars
<1>6. ASSUME NEW s \in Subs, SubmitCrash(s) PROVE OwnerInv'
  BY <1>6 DEF SubmitCrash, dbVars, queueVars, loopVars, procVars
<1>7. ASSUME NEW s \in Subs, DeleteProblem(s) PROVE OwnerInv'
  BY <1>7 DEF DeleteProblem, Spend, submitVars, queueVars, loopVars, procVars
<1>8. ASSUME NEW m \in MsgIds, RetryExpires(m) PROVE OwnerInv'
  BY <1>8 DEF RetryExpires, dbVars, submitVars, loopVars, procVars
<1>9. ASSUME NEW m \in MsgIds, Consume(m) PROVE OwnerInv'
  BY <1>9 DEF Consume, dbVars, submitVars, procVars
<1>10. ASSUME NEW m \in MsgIds, Collect(m) PROVE OwnerInv'
  <2>1. Live' = Live /\ main = "poll" /\ cur = None /\ connected' = connected
    BY <1>10, MovingStep DEF Collect, procVars
  <2>2. m \in Pending /\ m \in Live
    BY <1>10 DEF Collect, Outcomes, JudgeStatuses
  <2>3. CASE future[m] = "error"
    <3>1. Pending' = Pending \ {m} /\ main' = "poll" /\ cur' = None
      BY <1>10, <2>1, <2>3 DEF Collect
    <3>2. \A k \in MsgIds \ {m} : msg'[k] = msg[k]
      BY <1>10, <2>2, <2>3, NackedTasks DEF Collect
    <3>3. connected => msg'[m].at = "judge"
      BY <1>10, <2>2, <2>3, NackedTasks DEF Collect
    <3>4. ~connected => msg' = msg
      BY <1>10, <2>2, <2>3, NackedTasks DEF Collect
    <3>. QED
      BY <2>1, <2>2, <3>1, <3>2, <3>3, <3>4
  <2>4. CASE future[m] # "error"
    BY <1>10, <2>1, <2>2, <2>4 DEF Collect
  <2>. QED
    BY <2>3, <2>4
<1>11. ASSUME NEW m \in MsgIds, JudgeThread(m) PROVE OwnerInv'
  BY <1>11, JudgeThreadStep DEF dbVars, submitVars, queueVars, procVars,
      JudgeStatuses
<1>12. CASE FirstLoad
  BY <1>12 DEF FirstLoad, Spend, LoadThrows, Acked, dbVars, submitVars,
      procVars
<1>13. CASE SecondLoad
  BY <1>13 DEF SecondLoad, Spend, LoadThrows, dbVars, submitVars, queueVars,
      procVars
<1>14. CASE StartJudging
  BY <1>14 DEF StartJudging, Spend, Commit, Save, SaveThrows, dbVars,
      submitVars, queueVars, procVars
<1>15. CASE RejectMark
  BY <1>15 DEF RejectMark, Spend, Commit, Save, SaveThrows, LoadThrows, Mark,
      MarkThrows, dbVars, submitVars, queueVars, procVars
<1>16. CASE SaveResult
  BY <1>16 DEF SaveResult, Spend, Commit, Save, SaveThrows, Nacked, Requeue,
      dbVars, submitVars, procVars
<1>17. CASE MarkFailure
  BY <1>17 DEF MarkFailure, Spend, Commit, Save, SaveThrows, LoadThrows, Mark,
      MarkThrows, Nacked, Requeue, Exhausted, dbVars, submitVars, procVars
<1>18. CASE Reroute
  BY <1>18 DEF Reroute, Spend, Publish, Exhausted, dbVars, submitVars,
      procVars
<1>19. CASE DeadLetterRaw
  BY <1>19 DEF DeadLetterRaw, Spend, dbVars, submitVars, procVars
<1>20. CASE PublishThrows
  BY <1>20 DEF PublishThrows, Spend, Nacked, Requeue, dbVars, submitVars,
      procVars
<1>21. CASE Ack
  BY <1>21 DEF Ack, Acked, dbVars, submitVars, procVars
<1>22. CASE Disconnect
  BY <1>22 DEF Disconnect, Spend, Requeued, dbVars, submitVars, loopVars
<1>23. CASE Start
  BY <1>23 DEF Start, dbVars, submitVars, queueVars
<1>24. CASE Stop
  BY <1>24 DEF Stop, Spend, dbVars, submitVars, queueVars, loopVars
<1>25. CASE Exit
  BY <1>25 DEF Exit, Requeued, GoDown, dbVars, submitVars
<1>26. CASE Crash
  BY <1>26 DEF Crash, Spend, Requeued, GoDown, dbVars, submitVars
<1>27. CASE UNCHANGED vars
  BY <1>27 DEF vars, dbVars, submitVars, queueVars, loopVars, procVars
<1>. QED
  BY <1>1, <1>2, <1>3, <1>4, <1>5, <1>6, <1>7, <1>8, <1>9, <1>10,
     <1>11, <1>12, <1>13, <1>14, <1>15, <1>16, <1>17, <1>18, <1>19, <1>20,
     <1>21, <1>22, <1>23, <1>24, <1>25, <1>26, <1>27
    DEF Next, SubmitNext, MainStep

\* Every step keeps the order of publish, load and save.
LEMMA OrderStep ==
    ASSUME IInv, [Next]_vars
    PROVE  OrderInv'
<1> USE PipelineAssumption DEF IInv, TypeOK, LoopInv, OrderInv, Live, SubOf,
    Terminal, Active, Absent, JudgeStatuses, Message, Task, SubmitStates
<1>1. ASSUME NEW s \in Subs, SubmitCreate(s) PROVE OrderInv'
  BY <1>1 DEF SubmitCreate, Commit, queueVars, loopVars, procVars
<1>2. ASSUME NEW s \in Subs, SubmitRefused(s) PROVE OrderInv'
  BY <1>2 DEF SubmitRefused, dbVars, queueVars, loopVars, procVars
<1>3. ASSUME NEW s \in Subs, SubmitPublish(s) PROVE OrderInv'
  BY <1>3 DEF SubmitPublish, Spend, Publish, dbVars, loopVars, procVars
<1>4. ASSUME NEW s \in Subs, SubmitPublishFails(s) PROVE OrderInv'
  BY <1>4 DEF SubmitPublishFails, dbVars, queueVars, loopVars, procVars
<1>5. ASSUME NEW s \in Subs, SubmitFinish(s) PROVE OrderInv'
  BY <1>5 DEF SubmitFinish, Spend, Commit, Save, SaveThrows, dbVars,
      queueVars, loopVars, procVars
<1>6. ASSUME NEW s \in Subs, SubmitCrash(s) PROVE OrderInv'
  BY <1>6 DEF SubmitCrash, dbVars, queueVars, loopVars, procVars
<1>7. ASSUME NEW s \in Subs, DeleteProblem(s) PROVE OrderInv'
  BY <1>7 DEF DeleteProblem, Spend, submitVars, queueVars, loopVars, procVars
<1>8. ASSUME NEW m \in MsgIds, RetryExpires(m) PROVE OrderInv'
  BY <1>8, MovingStep DEF RetryExpires, dbVars, submitVars, loopVars,
      procVars, SameTasks
<1>9. ASSUME NEW m \in MsgIds, Consume(m) PROVE OrderInv'
  BY <1>9, MovingStep DEF Consume, Pending, dbVars, submitVars, procVars,
      SameTasks
<1>10. ASSUME NEW m \in MsgIds, Collect(m) PROVE OrderInv'
  BY <1>10, MovingStep DEF Collect, dbVars, submitVars, procVars, SameTasks
<1>11. ASSUME NEW m \in MsgIds, JudgeThread(m) PROVE OrderInv'
  BY <1>11 DEF JudgeThread, Spend, LoadThrows, JudgeDone, dbVars, submitVars,
      queueVars, procVars
<1>12. CASE FirstLoad
  BY <1>12 DEF FirstLoad, Spend, LoadThrows, Acked, dbVars, submitVars,
      procVars
<1>13. CASE SecondLoad
  BY <1>13 DEF SecondLoad, Spend, LoadThrows, dbVars, submitVars, queueVars,
      procVars
<1>14. CASE StartJudging
  BY <1>14 DEF StartJudging, Spend, Commit, Save, SaveThrows, dbVars,
      submitVars, queueVars, procVars
<1>15. CASE RejectMark
  BY <1>15 DEF RejectMark, Spend, Commit, Save, SaveThrows, LoadThrows, Mark,
      MarkThrows, dbVars, submitVars, queueVars, procVars
<1>16. CASE SaveResult
  BY <1>16, RequeueStep DEF SaveResult, Spend, Commit, Save, SaveThrows,
      Requeue, dbVars, submitVars, procVars, SameTasks
<1>17. CASE MarkFailure
  BY <1>17, RequeueStep DEF MarkFailure, Spend, Commit, Save, SaveThrows,
      LoadThrows, Mark, MarkThrows, Requeue, Exhausted, dbVars, submitVars,
      procVars, SameTasks
<1>18. CASE Reroute
  BY <1>18 DEF Reroute, Spend, Publish, Exhausted, dbVars, submitVars,
      procVars
<1>19. CASE DeadLetterRaw
  BY <1>19 DEF DeadLetterRaw, Spend, dbVars, submitVars, procVars
<1>20. CASE PublishThrows
  BY <1>20, MovingStep DEF PublishThrows, Spend, Requeue, dbVars, submitVars,
      procVars, SameTasks
<1>21. CASE Ack
  BY <1>21 DEF Ack, Acked, dbVars, submitVars, procVars
<1>22. CASE Disconnect
  BY <1>22, MovingStep DEF Disconnect, Spend, dbVars, submitVars, loopVars,
      SameTasks
<1>23. CASE Start
  BY <1>23 DEF Start, dbVars, submitVars, queueVars
<1>24. CASE Stop
  BY <1>24 DEF Stop, Spend, dbVars, submitVars, queueVars, loopVars
<1>25. CASE Exit
  BY <1>25, MovingStep DEF Exit, Pending, GoDown, dbVars, submitVars,
      SameTasks
<1>26. CASE Crash
  BY <1>26, MovingStep DEF Crash, Spend, GoDown, dbVars, submitVars, SameTasks
<1>27. CASE UNCHANGED vars
  BY <1>27 DEF vars, dbVars, submitVars, queueVars, loopVars, procVars
<1>. QED
  BY <1>1, <1>2, <1>3, <1>4, <1>5, <1>6, <1>7, <1>8, <1>9, <1>10,
     <1>11, <1>12, <1>13, <1>14, <1>15, <1>16, <1>17, <1>18, <1>19, <1>20,
     <1>21, <1>22, <1>23, <1>24, <1>25, <1>26, <1>27
    DEF Next, SubmitNext, MainStep

\* Every step keeps each enqueued submission settled, given up or carried on.
LEMMA CoverStep ==
    ASSUME IInv, [Next]_vars
    PROVE  CoverInv'
<1> USE PipelineAssumption DEF IInv, TypeOK, LoopInv, CoverInv, NoTaskLost,
    HasMessage, DeadLettered, Covered, Live, SubOf, Terminal, Active, Absent,
    JudgeStatuses, Message, Task
<1>1. ASSUME NEW s \in Subs, SubmitCreate(s) PROVE CoverInv'
  BY <1>1 DEF SubmitCreate, Commit, queueVars, loopVars, procVars
<1>2. ASSUME NEW s \in Subs, SubmitRefused(s) PROVE CoverInv'
  BY <1>2 DEF SubmitRefused, dbVars, queueVars, loopVars, procVars
<1>3. ASSUME NEW s \in Subs, SubmitPublish(s) PROVE CoverInv'
  <2>2. CASE Publish([sub |-> s, retry |-> 0], "judge") /\ UNCHANGED <<vanished, budget>>
    <3>1. /\ \A k \in Live : k \in Live' /\ SubOf(k)' = SubOf(k)
          /\ \E m \in Live' \ Live : SubOf(m)' = s
      BY <2>2, FirstTask, PublishStep
    <3>. QED
      BY <1>3, <2>2, <3>1 DEF SubmitPublish, dbVars, loopVars
  <2>3. CASE Spend("lose") /\ vanished' = vanished \cup {s} /\ UNCHANGED msg
    BY <1>3, <2>3 DEF SubmitPublish, dbVars, loopVars
  <2>. QED
    BY <1>3, <2>2, <2>3 DEF SubmitPublish
<1>4. ASSUME NEW s \in Subs, SubmitPublishFails(s) PROVE CoverInv'
  BY <1>4 DEF SubmitPublishFails, dbVars, queueVars, loopVars, procVars
<1>5. ASSUME NEW s \in Subs, SubmitFinish(s) PROVE CoverInv'
  BY <1>5 DEF SubmitFinish, Spend, Commit, Save, SaveThrows, dbVars,
      queueVars, loopVars, procVars
<1>6. ASSUME NEW s \in Subs, SubmitCrash(s) PROVE CoverInv'
  BY <1>6 DEF SubmitCrash, dbVars, queueVars, loopVars, procVars
<1>7. ASSUME NEW s \in Subs, DeleteProblem(s) PROVE CoverInv'
  BY <1>7 DEF DeleteProblem, Spend, submitVars, queueVars, loopVars, procVars
<1>8. ASSUME NEW m \in MsgIds, RetryExpires(m) PROVE CoverInv'
  BY <1>8, MovingStep, SameTasksCover DEF RetryExpires, dbVars, submitVars,
      loopVars, procVars
<1>9. ASSUME NEW m \in MsgIds, Consume(m) PROVE CoverInv'
  BY <1>9, MovingStep, SameTasksCover DEF Consume, Pending, dbVars,
      submitVars, procVars
<1>10. ASSUME NEW m \in MsgIds, Collect(m) PROVE CoverInv'
  BY <1>10, MovingStep, SameTasksCover DEF Collect, dbVars, submitVars,
      procVars
<1>11. ASSUME NEW m \in MsgIds, JudgeThread(m) PROVE CoverInv'
  BY <1>11 DEF JudgeThread, Spend, LoadThrows, JudgeDone, dbVars, submitVars,
      queueVars, procVars
<1>12. CASE FirstLoad
  BY <1>12 DEF FirstLoad, Spend, LoadThrows, Acked, dbVars, submitVars,
      procVars
<1>13. CASE SecondLoad
  BY <1>13 DEF SecondLoad, Spend, LoadThrows, dbVars, submitVars, queueVars,
      procVars
<1>14. CASE StartJudging
  BY <1>14 DEF StartJudging, Spend, Commit, Save, SaveThrows, dbVars,
      submitVars, queueVars, procVars
<1>15. CASE RejectMark
  BY <1>15 DEF RejectMark, Spend, Commit, Save, SaveThrows, LoadThrows, Mark,
      MarkThrows, dbVars, submitVars, queueVars, procVars
<1>16. CASE SaveResult
  <2>1. CASE Save(SubOf(cur), future[cur])
               /\ main' = "acking" /\ UNCHANGED <<cur, msg, future>>
    <3>1. SubOf(cur) \in Subs /\ future[cur] \in Terminal
      BY <1>16, <2>1 DEF SaveResult, Outcomes
    <3>2. SubOf(cur) \in settled' /\ settled \subseteq settled'
      BY <2>1, <3>1 DEF Save, Commit
    <3>3. \A s \in Subs : status'[s] \in Terminal => s \in settled'
      BY <2>1, <3>1, <3>2 DEF Save, Commit
    <3>4. NoTaskLost'
      BY <1>16, <2>1, <3>2, SameTasksCover DEF SaveResult, submitVars
    <3>. QED
      BY <2>1, <3>2, <3>3, <3>4
  <2>2. CASE SaveThrows(SubOf(cur), future[cur]) /\ Requeue
    BY <1>16, <2>2, RequeueStep, SameTasksCover
       DEF SaveResult, SaveThrows, Commit, Requeue, dbVars, submitVars
  <2>. QED
    BY <1>16, <2>1, <2>2 DEF SaveResult
<1>17. CASE MarkFailure
  BY <1>17, RequeueStep DEF MarkFailure, Spend, Commit, Save, SaveThrows,
      LoadThrows, Mark, MarkThrows, Requeue, Exhausted, dbVars, submitVars,
      procVars, SameTasks
<1>18. CASE Reroute
  BY <1>18, RerouteCover
<1>19. CASE DeadLetterRaw
  BY <1>19 DEF DeadLetterRaw, Spend, dbVars, submitVars, procVars
<1>20. CASE PublishThrows
  BY <1>20, MovingStep, SameTasksCover DEF PublishThrows, Requeue, dbVars,
      submitVars, procVars
<1>21. CASE Ack
  BY <1>21 DEF Ack, Acked, dbVars, submitVars, procVars
<1>22. CASE Disconnect
  BY <1>22, MovingStep, SameTasksCover DEF Disconnect, dbVars, submitVars,
      loopVars
<1>23. CASE Start
  BY <1>23 DEF Start, dbVars, submitVars, queueVars
<1>24. CASE Stop
  BY <1>24 DEF Stop, Spend, dbVars, submitVars, queueVars, loopVars
<1>25. CASE Exit
  BY <1>25, MovingStep, SameTasksCover DEF Exit, Pending, GoDown, dbVars,
      submitVars
<1>26. CASE Crash
  BY <1>26, MovingStep, SameTasksCover DEF Crash, GoDown, dbVars, submitVars
<1>27. CASE UNCHANGED vars
  BY <1>27 DEF vars, dbVars, submitVars, queueVars, loopVars, procVars
<1>. QED
  BY <1>1, <1>2, <1>3, <1>4, <1>5, <1>6, <1>7, <1>8, <1>9, <1>10,
     <1>11, <1>12, <1>13, <1>14, <1>15, <1>16, <1>17, <1>18, <1>19, <1>20,
     <1>21, <1>22, <1>23, <1>24, <1>25, <1>26, <1>27
    DEF Next, SubmitNext, MainStep

\* The initial states satisfy the inductive invariant.
LEMMA Initially == Init => IInv
<1> SUFFICES ASSUME Init PROVE IInv
  OBVIOUS
<1> USE PipelineAssumption DEF Init
<1>1. TypeOK
  BY DEF TypeOK, Absent, SubmitStates, MainStates
<1>2. Live = {} /\ Pending = {}
  BY DEF Live, Pending
<1>3. LoopInv /\ OwnerInv
  BY <1>2 DEF LoopInv, OwnerInv, NoDeliveryLeaks
<1>4. OrderInv /\ CoverInv
  BY <1>2 DEF OrderInv, CoverInv, NoTaskLost, Absent, Terminal, JudgeStatuses
<1>. QED
  BY <1>1, <1>3, <1>4 DEF IInv

\* The four facts the main thread relies on between its steps, and the types,
\* hold in every reachable state: in every step of any process they survive.
THEOREM Inductive == Spec => []IInv
<1>1. IInv /\ [Next]_vars => IInv'
  <2> SUFFICES ASSUME IInv, [Next]_vars PROVE IInv'
    OBVIOUS
  <2>. QED
    BY TypeStep, LoopStep, OwnerStep, OrderStep, CoverStep DEF IInv
<1>. QED
  BY Initially, <1>1, PTL DEF Spec

\* Type correctness; in particular a task published again by Reroute never
\* carries a retry_count above max_retry_count into the judge queue.
THEOREM TypeCorrect == Spec => []TypeOK
<1>1. IInv => TypeOK
  BY DEF IInv
<1>. QED
  BY Inductive, <1>1, PTL

\* No submission whose task was enqueued is forgotten, for any number of
\* submissions, messages, workers, retries and faults.
THEOREM TasksKept == Spec => []NoTaskLost
<1>1. IInv => NoTaskLost
  BY DEF IInv, CoverInv
<1>. QED
  BY Inductive, <1>1, PTL

\* No delivery is left without an owner: the early return of dispatch_task that
\* does not acknowledge is unreachable.
THEOREM DeliveriesOwned == Spec => []NoDeliveryLeaks
<1>1. IInv => NoDeliveryLeaks
  BY DEF IInv, OwnerInv
<1>. QED
  BY Inductive, <1>1, PTL

\* What OnlySubmitReopens says of one step and one submission.
Reopens(s) ==
    status[s] \in Terminal /\ status'[s] \in Active
        => submit[s] = "published" /\ submit'[s] = "done"

\* Every step that writes QUEUED or RUNNING over a terminal row is submit()'s last.
LEMMA ReopenStep ==
    ASSUME IInv, [Next]_vars
    PROVE  \A s \in Subs : Reopens(s)
<1> USE PipelineAssumption DEF IInv, TypeOK, OrderInv, SubOf, Live, Reopens,
    Terminal, Active, Absent, JudgeStatuses
<1>1. ASSUME NEW t \in Subs, SubmitCreate(t) PROVE \A s \in Subs : Reopens(s)
  BY <1>1 DEF SubmitCreate, Commit, queueVars, loopVars, procVars
<1>2. ASSUME NEW t \in Subs, SubmitFinish(t) PROVE \A s \in Subs : Reopens(s)
  BY <1>2 DEF SubmitFinish, Commit, Save, SaveThrows, dbVars, queueVars,
      loopVars, procVars
<1>3. ASSUME NEW t \in Subs, DeleteProblem(t) PROVE \A s \in Subs : Reopens(s)
  BY <1>3 DEF DeleteProblem, submitVars, queueVars, loopVars, procVars
<1>4. CASE StartJudging
  BY <1>4 DEF StartJudging, Commit, Save, SaveThrows, dbVars, submitVars,
      queueVars, procVars, LoopInv
<1>5. CASE RejectMark
  BY <1>5 DEF RejectMark, Commit, Save, SaveThrows, LoadThrows, Mark,
      MarkThrows, dbVars, submitVars, queueVars, procVars, LoopInv
<1>6. CASE SaveResult
  BY <1>6 DEF SaveResult, Commit, Save, SaveThrows, dbVars, submitVars,
      procVars, LoopInv, Outcomes
<1>7. CASE MarkFailure
  BY <1>7 DEF MarkFailure, Commit, Save, SaveThrows, LoadThrows, Mark,
      MarkThrows, Exhausted, dbVars, submitVars, procVars, LoopInv
<1>8. CASE UNCHANGED status
  BY <1>8
<1>. QED
  BY <1>1, <1>2, <1>3, <1>4, <1>5, <1>6, <1>7, <1>8
    DEF vars, dbVars, Next, SubmitNext, MainStep, LoadThrows, JudgeDone,
        GoDown, SubmitRefused, SubmitPublish, SubmitPublishFails, SubmitCrash,
        RetryExpires, Consume, Collect, JudgeThread, FirstLoad, SecondLoad,
        Reroute, DeadLetterRaw, PublishThrows, Ack, Disconnect, Start, Stop,
        Exit, Crash

\* Only the closing write of submit() takes a terminal row back to QUEUED: every
\* write of RUNNING or QUEUED by the dispatcher follows a look at the row that
\* nobody can have made stale.
THEOREM ReopensOnlyFromSubmit == Spec => OnlySubmitReopens
<1>1. IInv /\ [Next]_vars => [\A s \in Subs : Reopens(s)]_vars
  BY ReopenStep
<1>. QED
  BY Inductive, <1>1, PTL DEF Spec, OnlySubmitReopens, Reopens

-----------------------------------------------------------------------------
(* The dead-letter queue.                                                  *)

\* MySQL has not failed and no submission was deleted so far.
Calm == Spent("db") = 0 /\ Spent("delete") = 0

WithinBudget == \A kind \in FaultKinds : budget[kind] <= Budget[kind]

\* Until then a submission with a task keeps its row, so the main thread never
\* rejects a delivery, dead-letters only what is exhausted, and has marked that
\* as dead before it publishes it.
CalmParts ==
    /\ \A s \in Subs :
           s \in enqueued \/ submit[s] = "created" => status[s] # Absent
    /\ main \notin {"rejecting", "deadLettering"}
    /\ main = "rerouting" /\ Exhausted(cur) => SubOf(cur) \in settled
    /\ \A t \in dead : t.retry > MaxRetry /\ t.sub \in settled

CalmInv == Calm => CalmParts

\* A step spends one fault or none.
LEMMA BudgetStep ==
    ASSUME [Next]_vars
    PROVE  UNCHANGED budget \/ \E kind \in FaultKinds : Spend(kind)
<1> USE DEF FaultKinds, Save, SaveThrows, LoadThrows, Mark, MarkThrows
<1>1. ASSUME NEW s \in Subs, SubmitNext(s)
      PROVE  UNCHANGED budget \/ \E kind \in FaultKinds : Spend(kind)
  BY <1>1 DEF SubmitNext, SubmitCreate, SubmitRefused, SubmitPublish,
      SubmitPublishFails, SubmitFinish, SubmitCrash, DeleteProblem
<1>2. ASSUME NEW m \in MsgIds,
             RetryExpires(m) \/ Consume(m) \/ Collect(m) \/ JudgeThread(m)
      PROVE  UNCHANGED budget \/ \E kind \in FaultKinds : Spend(kind)
  BY <1>2 DEF RetryExpires, Consume, Collect, JudgeThread, JudgeDone
<1>3. ASSUME MainStep
      PROVE  UNCHANGED budget \/ \E kind \in FaultKinds : Spend(kind)
  BY <1>3 DEF MainStep, FirstLoad, SecondLoad, StartJudging, RejectMark,
      SaveResult, MarkFailure, Reroute, DeadLetterRaw, PublishThrows, Ack
<1>4. ASSUME Disconnect \/ Start \/ Stop \/ Exit \/ Crash
      PROVE  UNCHANGED budget \/ \E kind \in FaultKinds : Spend(kind)
  BY <1>4 DEF Disconnect, Start, Stop, Exit, Crash
<1>. QED
  BY <1>1, <1>2, <1>3, <1>4 DEF Next, vars

\* Faults only add up: a calm step starts from a calm state and spends neither
\* of the two kinds.
LEMMA CalmBefore ==
    ASSUME TypeOK, WithinBudget, [Next]_vars
    PROVE  /\ WithinBudget'
           /\ Calm' => /\ Calm
                       /\ ~Spend("db") /\ ~Spend("delete")
<1> USE PipelineAssumption DEF TypeOK, FaultKinds
<1>1. CASE UNCHANGED budget
  BY <1>1 DEF WithinBudget, Calm, Spent, Spend
<1>2. ASSUME NEW kind \in FaultKinds, Spend(kind)
      PROVE  /\ WithinBudget'
             /\ Calm' => Calm /\ ~Spend("db") /\ ~Spend("delete")
  BY <1>2 DEF WithinBudget, Calm, Spent, Spend
<1>. QED
  BY <1>1, <1>2, BudgetStep

\* Without such a fault a load or save throws only when the row is absent.
LEMMA CalmThrows ==
    ASSUME ~Spend("db"), NEW s, NEW new,
           LoadThrows(s) \/ SaveThrows(s, new) \/ MarkThrows(s, new)
    PROVE  status[s] = Absent /\ UNCHANGED <<status, settled>>
  BY DEF LoadThrows, SaveThrows, MarkThrows, dbVars, Terminal, Absent,
      JudgeStatuses

\* The row of the delivery in hand, or of any other message.
LEMMA CalmRow ==
    ASSUME IInv, CalmInv, Calm, NEW m \in Live
    PROVE  SubOf(m) \in Subs /\ status[SubOf(m)] # Absent
  BY DEF IInv, TypeOK, OrderInv, CalmInv, CalmParts, Live, SubOf,
      Message, Task

\* A commit of a status leaves no row absent and unsettles nobody.
LEMMA CommitKeeps ==
    ASSUME TypeOK, NEW s \in Subs, NEW new, new # Absent, Commit(s, new)
    PROVE  /\ \A t \in Subs : status[t] # Absent => status'[t] # Absent
           /\ status'[s] # Absent
           /\ settled \subseteq settled'
           /\ new \in Terminal => s \in settled'
  BY DEF TypeOK, Commit

\* Every step keeps the dead-letter queue earned and settled.
LEMMA CalmStep ==
    ASSUME IInv, WithinBudget, CalmInv, [Next]_vars
    PROVE  CalmInv'
<1> SUFFICES ASSUME Calm' PROVE CalmParts'
  BY DEF CalmInv
<1>0. /\ TypeOK /\ Calm /\ CalmParts
      /\ ~Spend("db") /\ ~Spend("delete")
  BY CalmBefore DEF IInv, CalmInv
<1> USE <1>0, PipelineAssumption DEF CalmParts
<1>1. ASSUME NEW s \in Subs, SubmitCreate(s) PROVE CalmParts'
  BY <1>1 DEF SubmitCreate, Commit, TypeOK, queueVars, loopVars, procVars,
      Exhausted, SubOf, Absent
<1>2. ASSUME NEW s \in Subs, SubmitRefused(s) PROVE CalmParts'
  BY <1>2 DEF SubmitRefused, TypeOK, dbVars, queueVars, loopVars, procVars,
      Exhausted, SubOf
<1>3. ASSUME NEW s \in Subs, SubmitPublish(s) PROVE CalmParts'
  <2>1. main = "rerouting" =>
            Exhausted(cur)' = Exhausted(cur) /\ SubOf(cur)' = SubOf(cur)
    BY <1>3 DEF SubmitPublish, Publish, IInv, LoopInv, TypeOK, Live, loopVars,
        Exhausted, SubOf
  <2>. QED
    BY <1>3, <2>1 DEF SubmitPublish, TypeOK, dbVars, loopVars, procVars
<1>4. ASSUME NEW s \in Subs, SubmitPublishFails(s) PROVE CalmParts'
  BY <1>4 DEF SubmitPublishFails, TypeOK, dbVars, queueVars, loopVars, procVars,
      Exhausted, SubOf
<1>5. ASSUME NEW s \in Subs, SubmitFinish(s) PROVE CalmParts'
  <2> DEFINE new == IF submit[s] = "published" THEN "QUEUED" ELSE "SYSTEM_ERROR"
  <2>1. /\ \A t \in Subs : status[t] # Absent => status'[t] # Absent
        /\ settled \subseteq settled'
    BY <1>5, CommitKeeps, CalmThrows DEF SubmitFinish, Save, Absent
  <2>. QED
    BY <1>5, <2>1 DEF SubmitFinish, TypeOK, queueVars, loopVars, Exhausted,
        SubOf
<1>6. ASSUME NEW s \in Subs, SubmitCrash(s) PROVE CalmParts'
  BY <1>6 DEF SubmitCrash, TypeOK, dbVars, queueVars, loopVars, procVars,
      Exhausted, SubOf
<1>7. ASSUME NEW s \in Subs, DeleteProblem(s) PROVE CalmParts'
  BY <1>7 DEF DeleteProblem
<1>8. ASSUME NEW m \in MsgIds, RetryExpires(m) PROVE CalmParts'
  BY <1>8, MovingStep DEF RetryExpires, IInv, LoopInv, SameTasks, dbVars,
      submitVars, loopVars, Exhausted, SubOf
<1>9. ASSUME NEW m \in MsgIds, Consume(m) \/ Collect(m) PROVE CalmParts'
  BY <1>9 DEF Consume, Collect, dbVars, submitVars
<1>10. ASSUME NEW m \in MsgIds, JudgeThread(m) PROVE CalmParts'
  <2>1. UNCHANGED <<status, settled>>
    BY <1>10 DEF JudgeThread, JudgeDone, LoadThrows, dbVars
  <2>. QED
    BY <1>10, <2>1 DEF JudgeThread, JudgeDone, submitVars, queueVars, Exhausted,
        SubOf
<1>11. CASE FirstLoad
  <2>1. cur \in Live /\ status[SubOf(cur)] # Absent
    BY <1>11, CalmRow DEF FirstLoad, IInv, LoopInv
  <2>. QED
    BY <1>11, <2>1, CalmThrows DEF FirstLoad, dbVars, submitVars
<1>12. CASE SecondLoad
  <2>1. cur \in Live /\ status[SubOf(cur)] # Absent
    BY <1>12, CalmRow DEF SecondLoad, IInv, LoopInv
  <2>. QED
    BY <1>12, <2>1, CalmThrows DEF SecondLoad, dbVars, submitVars, queueVars
<1>13. CASE StartJudging
  <2>1. cur \in Live /\ SubOf(cur) \in Subs /\ status[SubOf(cur)] # Absent
    BY <1>13, CalmRow DEF StartJudging, IInv, LoopInv
  <2>2. Commit(SubOf(cur), "RUNNING") /\ main' = "poll"
    BY <1>13, <2>1, CalmThrows DEF StartJudging, Save
  <2>3. /\ \A t \in Subs : status[t] # Absent => status'[t] # Absent
        /\ settled \subseteq settled'
    BY <2>1, <2>2, CommitKeeps DEF Absent
  <2>. QED
    BY <1>13, <2>2, <2>3 DEF StartJudging, submitVars, queueVars, TypeOK
<1>14. CASE RejectMark \/ DeadLetterRaw
  BY <1>14 DEF RejectMark, DeadLetterRaw
<1>15. CASE SaveResult
  <2>1. cur \in Live /\ SubOf(cur) \in Subs /\ status[SubOf(cur)] # Absent
    BY <1>15, CalmRow DEF SaveResult, IInv, LoopInv
  <2>2. future[cur] # Absent
    BY <1>15 DEF SaveResult, IInv, LoopInv, Outcomes, JudgeStatuses, Absent
  <2>3. Commit(SubOf(cur), future[cur]) /\ main' = "acking"
    BY <1>15, <2>1, CalmThrows DEF SaveResult, Save
  <2>4. /\ \A t \in Subs : status[t] # Absent => status'[t] # Absent
        /\ settled \subseteq settled'
    BY <2>1, <2>2, <2>3, CommitKeeps
  <2>. QED
    BY <1>15, <2>3, <2>4 DEF SaveResult, submitVars, TypeOK
<1>16. CASE MarkFailure
  <2> DEFINE new == IF Exhausted(cur) THEN "SYSTEM_ERROR" ELSE "QUEUED"
  <2>1. cur \in Live /\ SubOf(cur) \in Subs /\ status[SubOf(cur)] # Absent
    BY <1>16, CalmRow DEF MarkFailure, IInv, LoopInv
  <2>2. Mark(SubOf(cur), new) /\ UNCHANGED <<cur, msg>>
    <3> HIDE DEF new
    <3>1. \/ Mark(SubOf(cur), new) /\ UNCHANGED <<cur, msg>>
          \/ MarkThrows(SubOf(cur), new)
      BY <1>16 DEF MarkFailure, new
    <3>. QED
      BY <2>1, <3>1, CalmThrows
  <2>3. /\ \A t \in Subs : status[t] # Absent => status'[t] # Absent
        /\ settled \subseteq settled'
        /\ Exhausted(cur) => SubOf(cur) \in settled'
    <3>1. CASE status[SubOf(cur)] \in Terminal
      BY <2>1, <2>2, <3>1 DEF Mark, IInv, CoverInv, dbVars
    <3>2. CASE status[SubOf(cur)] \notin Terminal
      <4>1. Commit(SubOf(cur), new)
        BY <2>2, <3>2 DEF Mark, Save
      <4>2. new # Absent /\ (Exhausted(cur) => new \in Terminal)
        BY DEF Absent, Terminal, JudgeStatuses
      <4>. QED
        BY <2>1, <4>1, <4>2, CommitKeeps
    <3>. QED
      BY <3>1, <3>2
  <2>4. main' \in {"rerouting", "poll"} /\ UNCHANGED <<submit, enqueued, dead>>
    BY <1>16 DEF MarkFailure, Requeue, submitVars
  <2>5. Exhausted(cur)' = Exhausted(cur) /\ SubOf(cur)' = SubOf(cur)
    BY <2>2 DEF Exhausted, SubOf
  <2>. QED
    BY <2>3, <2>4, <2>5 DEF TypeOK
<1>17. CASE Reroute
  <2>1. msg[cur].task \in Task
    BY <1>17 DEF Reroute, IInv, LoopInv, TypeOK, Live, Message
  <2>2. \A t \in dead' \ dead : t.retry > MaxRetry /\ t.sub \in settled
    BY <1>17, <2>1 DEF Reroute, Exhausted, SubOf, Task
  <2>. QED
    BY <1>17, <2>2 DEF Reroute, dbVars, submitVars
<1>18. CASE PublishThrows \/ Ack
  BY <1>18 DEF PublishThrows, Ack, Requeue, dbVars, submitVars
<1>19. CASE Disconnect
  BY <1>19, MovingStep DEF Disconnect, IInv, LoopInv, SameTasks, dbVars,
      submitVars, loopVars, Exhausted, SubOf
<1>20. CASE Start \/ Exit \/ Crash
  BY <1>20 DEF Start, Exit, Crash, GoDown, dbVars, submitVars, queueVars
<1>21. CASE Stop \/ UNCHANGED vars
  BY <1>21 DEF Stop, vars, dbVars, submitVars, queueVars, loopVars, Exhausted,
      SubOf
<1>. QED
  BY <1>1, <1>2, <1>3, <1>4, <1>5, <1>6, <1>7, <1>8, <1>9, <1>10,
     <1>11, <1>12, <1>13, <1>14, <1>15, <1>16, <1>17, <1>18, <1>19, <1>20, <1>21
    DEF Next, SubmitNext, MainStep

\* In a calm run the dead-letter queue is fed only by exhausted tasks, each marked
\* as dead before; otherwise a fault of MySQL or a deletion is on record.
THEOREM CalmInductive == Spec => [](WithinBudget /\ CalmInv)
<1>1. Init => WithinBudget /\ CalmInv
  BY PipelineAssumption DEF Init, WithinBudget, CalmInv, CalmParts, Absent
<1>2. IInv /\ WithinBudget /\ CalmInv /\ [Next]_vars => (WithinBudget /\ CalmInv)'
  <2> SUFFICES ASSUME IInv, WithinBudget, CalmInv, [Next]_vars
               PROVE  (WithinBudget /\ CalmInv)'
    OBVIOUS
  <2>. QED
    BY CalmBefore, CalmStep DEF IInv
<1>. QED
  BY Inductive, <1>1, <1>2, PTL DEF Spec

\* A fault that was spent shows as a positive number.
LEMMA NotCalm ==
    ASSUME TypeOK, WithinBudget, ~Calm
    PROVE  Spent("db") > 0 \/ Spent("delete") > 0
<1>1. /\ Budget["db"] \in Nat /\ Budget["delete"] \in Nat
      /\ budget["db"] \in Nat /\ budget["delete"] \in Nat
      /\ budget["db"] <= Budget["db"] /\ budget["delete"] <= Budget["delete"]
  BY PipelineAssumption DEF TypeOK, WithinBudget, FaultKinds
<1>. QED
  BY <1>1 DEF Calm, Spent

\* Only a task that failed max_retry_count + 1 times reaches the dead-letter queue
\* while MySQL works and nothing is deleted, whatever crashes and drops happen.
THEOREM DeadLettersEarned == Spec => []DeadLettersAreEarned
<1>1. IInv /\ WithinBudget /\ CalmInv => DeadLettersAreEarned
  BY NotCalm DEF IInv, CalmInv, CalmParts, DeadLettersAreEarned
<1>. QED
  BY Inductive, CalmInductive, <1>1, PTL

\* A dead-lettered submission was settled before: its mark precedes the publish.
THEOREM DeadLetteredSettled == Spec => []DeadLetteredIsSettled
<1>1. IInv /\ WithinBudget /\ CalmInv => DeadLetteredIsSettled
  BY NotCalm DEF IInv, CalmInv, CalmParts, DeadLetteredIsSettled, DeadLettered
<1>. QED
  BY Inductive, CalmInductive, <1>1, PTL

-----------------------------------------------------------------------------
(* Verdicts and copies.                                                    *)

\* No delivery has been handed out twice so far.
Steady == Spent("crash") = 0 /\ Spent("drop") = 0

\* Until then the dispatcher stays connected; a submission has one message, or
\* two between the publish of a retry and the ack; and a task that is being
\* judged, whose result is at hand, or that is not published yet is not settled.
SoleParts ==
    /\ main # "down" => connected
    /\ \A m \in Live : \A k \in Live \ {m} :
           SubOf(m) = SubOf(k) => main = "acking" /\ cur \in {m, k}
    /\ \A m \in Pending : m = cur \/ status[SubOf(m)] \notin Terminal
    /\ main = "finishing" => status[SubOf(cur)] \notin Terminal
    /\ \A s \in Subs : submit[s] \in {"idle", "created", "failed"}
                          => status[s] \notin Terminal

SoleInv == Steady => SoleParts

\* A steady step starts from a steady state, without a crash or a lost connection.
LEMMA SteadyBefore ==
    ASSUME TypeOK, WithinBudget, [Next]_vars, Steady'
    PROVE  Steady /\ ~Spend("crash") /\ ~Spend("drop")
<1> USE PipelineAssumption DEF TypeOK, FaultKinds
<1>1. CASE UNCHANGED budget
  BY <1>1 DEF WithinBudget, Steady, Spent, Spend
<1>2. ASSUME NEW kind \in FaultKinds, Spend(kind)
      PROVE  Steady /\ ~Spend("crash") /\ ~Spend("drop")
  BY <1>2 DEF WithinBudget, Steady, Spent, Spend
<1>. QED
  BY <1>1, <1>2, BudgetStep

\* A step of the main thread writes the row of the delivery in hand only.
LEMMA OneRow ==
    ASSUME NEW s, NEW new, status \in [Subs -> Terminal \cup Active \cup {Absent}],
           \/ Save(s, new) \/ SaveThrows(s, new) \/ LoadThrows(s)
           \/ Mark(s, new) \/ MarkThrows(s, new)
    PROVE  \A t \in Subs \ {s} : status'[t] = status[t]
  BY DEF Save, SaveThrows, LoadThrows, Mark, MarkThrows, Commit, dbVars

\* Before the ack no other message carries the submission in hand.
LEMMA SoleInHand ==
    ASSUME IInv, SoleParts, main \notin {"down", "poll", "acking"}
    PROVE  /\ cur \in Live /\ SubOf(cur) \in Subs
           /\ \A m \in Live \ {cur} :
                  SubOf(m) \in Subs /\ SubOf(m) # SubOf(cur)
  BY DEF IInv, TypeOK, LoopInv, SoleParts, Live, SubOf, Message, Task

\* The main thread moves or judges its delivery and writes its row: the other
\* messages and tasks stay as they were.
LEMMA SoleAside ==
    ASSUME IInv, SoleParts, main \notin {"down", "poll", "acking"},
           main' \notin {"down", "finishing"}, connected' = connected,
           SameTasks(msg') \/ UNCHANGED msg, UNCHANGED submit,
           \A m \in MsgIds \ {cur} : future'[m] = future[m],
           \A t \in Subs \ {SubOf(cur)} : status'[t] = status[t],
           \/ cur' = cur
           \/ cur \notin Pending'
           \/ status'[SubOf(cur)] \notin Terminal
    PROVE  SoleParts'
<1>1. /\ cur \in Live /\ SubOf(cur) \in Subs
      /\ \A m \in Live \ {cur} : SubOf(m) \in Subs /\ SubOf(m) # SubOf(cur)
  BY SoleInHand
<1>2. Live' = Live /\ \A m \in Live : SubOf(m)' = SubOf(m)
  BY DEF SameTasks, Live, SubOf
<1>3. main' # "down" => connected'
  BY DEF SoleParts
<1>4. \A m \in Live' : \A k \in Live' \ {m} : SubOf(m)' # SubOf(k)'
  BY <1>1, <1>2 DEF SoleParts
<1>5. \A m \in Pending' : m = cur' \/ status'[SubOf(m)'] \notin Terminal
  <2> SUFFICES ASSUME NEW m \in Pending', m # cur'
               PROVE  status'[SubOf(m)'] \notin Terminal
    OBVIOUS
  <2>1. CASE m = cur
    BY <1>1, <1>2, <2>1
  <2>2. CASE m # cur
    <3>1. m \in Pending /\ m \in Live
      BY <2>2 DEF Pending, IInv, LoopInv
    <3>. QED
      BY <1>1, <1>2, <2>2, <3>1 DEF SoleParts
  <2>. QED
    BY <2>1, <2>2
<1>6. submit[SubOf(cur)] \in {"published", "done"}
  BY <1>1 DEF IInv, OrderInv
<1>. QED
  BY <1>1, <1>3, <1>4, <1>5, <1>6 DEF SoleParts

\* Every step keeps a submission's message alone and its judging unsettled.
LEMMA SoleStep ==
    ASSUME IInv, WithinBudget, SoleInv, [Next]_vars
    PROVE  SoleInv'
<1> SUFFICES ASSUME Steady' PROVE SoleParts'
  BY DEF SoleInv
<1>0. TypeOK /\ SoleParts /\ ~Spend("crash") /\ ~Spend("drop")
  BY SteadyBefore DEF IInv, SoleInv
<1> USE <1>0, PipelineAssumption
<1>1. ASSUME NEW s \in Subs,
             SubmitRefused(s) \/ SubmitPublishFails(s) \/ SubmitCrash(s)
      PROVE  SoleParts'
  BY <1>1 DEF SubmitRefused, SubmitPublishFails, SubmitCrash, TypeOK, dbVars,
      queueVars,
      loopVars, procVars, SoleParts, Live, Pending, SubOf
<1>2. ASSUME NEW s \in Subs, SubmitCreate(s) \/ SubmitFinish(s) \/ DeleteProblem(s)
      PROVE  SoleParts'
  <2>1. UNCHANGED <<queueVars, loopVars, procVars>>
    BY <1>2 DEF SubmitCreate, SubmitFinish, DeleteProblem
  <2>2. \A m \in Live :
            status[SubOf(m)] \notin Terminal => status'[SubOf(m)] \notin Terminal
    BY <1>2 DEF IInv, OrderInv, TypeOK, SubmitCreate, SubmitFinish,
        DeleteProblem,
        Commit, Save, SaveThrows, dbVars, Live, SubOf, Message, Task, Terminal,
        JudgeStatuses, Absent
  <2>3. main = "finishing" => cur \in Live
    BY DEF IInv, LoopInv
  <2>4. \A t \in Subs : submit'[t] \in {"idle", "created", "failed"}
                          => status'[t] \notin Terminal
    BY <1>2 DEF SoleParts, TypeOK, SubmitCreate, SubmitFinish, DeleteProblem,
        Commit, Save, SaveThrows, dbVars, submitVars, Terminal, JudgeStatuses, Absent
  <2>. QED
    BY <2>1, <2>2, <2>3, <2>4 DEF queueVars, loopVars, procVars, SoleParts,
        Live,
        Pending, SubOf, IInv, LoopInv
<1>3. ASSUME NEW s \in Subs, SubmitPublish(s) PROVE SoleParts'
  <2>1. \A m \in Live : SubOf(m) # s
    BY <1>3 DEF SubmitPublish, IInv, OrderInv
  <2>2. UNCHANGED <<dbVars, loopVars, procVars>>
        /\ submit' = [submit EXCEPT ![s] = "published"]
    BY <1>3 DEF SubmitPublish
  <2>3. CASE UNCHANGED msg
    BY <2>2, <2>3 DEF TypeOK, dbVars, loopVars, procVars, SoleParts, Live,
        Pending, SubOf
  <2>4. CASE Publish([sub |-> s, retry |-> 0], "judge")
    <3>1. PICK n \in MsgIds \ Live :
              msg' = [msg EXCEPT ![n] = [task |-> [sub |-> s, retry |-> 0],
                                         at |-> "judge"]]
      BY <2>4 DEF Publish
    <3>2. Live' \subseteq Live \cup {n} /\ SubOf(n)' = s
          /\ \A m \in Live : SubOf(m)' = SubOf(m)
      BY <3>1 DEF TypeOK, Live, SubOf
    <3>3. main = "finishing" => cur \in Live
      BY DEF IInv, LoopInv
    <3>. QED
      BY <2>1, <2>2, <3>2, <3>3 DEF TypeOK, dbVars, loopVars, procVars,
          SoleParts,
          Pending, IInv, LoopInv
  <2>. QED
    BY <1>3, <2>3, <2>4 DEF SubmitPublish
<1>4. ASSUME NEW m \in MsgIds, RetryExpires(m) PROVE SoleParts'
  BY <1>4, MovingStep DEF RetryExpires, IInv, LoopInv, dbVars, submitVars,
      loopVars,
      procVars, SoleParts, Pending
<1>5. ASSUME NEW m \in MsgIds, Consume(m) PROVE SoleParts'
  BY <1>5, MovingStep DEF Consume, IInv, LoopInv, dbVars, submitVars, procVars,
      SoleParts,
      Pending
<1>6. ASSUME NEW m \in MsgIds, Collect(m) PROVE SoleParts'
  <2>1. Live' = Live /\ \A k \in Live : SubOf(k)' = SubOf(k)
    BY <1>6, MovingStep DEF IInv
  <2>2. m \in Pending /\ m \in Live /\ cur = None
    BY <1>6 DEF Collect, Pending, Outcomes, JudgeStatuses, IInv, LoopInv
  <2>3. UNCHANGED <<status, submit, connected>>
    BY <1>6 DEF Collect, dbVars, submitVars, procVars
  <2>4. CASE UNCHANGED <<main, cur>> /\ future' = [future EXCEPT ![m] = "none"]
    <3>1. Pending' \subseteq Pending /\ main' = "poll"
      BY <1>6, <2>4 DEF Collect, TypeOK, Pending
    <3>. QED
      BY <2>1, <2>2, <2>3, <2>4, <3>1 DEF SoleParts, IInv, LoopInv
  <2>5. CASE main' = "finishing" /\ cur' = m /\ UNCHANGED <<msg, future>>
    <3>1. Pending' = Pending /\ SubOf(m)' = SubOf(m) /\ m # cur /\ None \notin Pending
      BY <2>2, <2>5 DEF Pending, SubOf
    <3>2. main # "acking" /\ main # "down"
      BY <1>6 DEF Collect
    <3>3. status[SubOf(m)] \notin Terminal
      BY <2>2, <3>1 DEF SoleParts
    <3>. QED
      BY <2>1, <2>2, <2>3, <2>5, <3>1, <3>2, <3>3 DEF SoleParts, IInv, LoopInv
  <2>. QED
    BY <1>6, <2>4, <2>5 DEF Collect
<1>7. ASSUME NEW m \in MsgIds, JudgeThread(m) PROVE SoleParts'
  <2>1. UNCHANGED status
    BY <1>7 DEF JudgeThread, JudgeDone, LoadThrows, dbVars
  <2>. QED
    BY <1>7, <2>1, JudgeThreadStep DEF submitVars, queueVars, procVars,
        SoleParts, Live, SubOf
<1>8. CASE FirstLoad /\ main' \in {"checked", "rejecting"} /\ UNCHANGED <<cur, msg>>
  <2>1. UNCHANGED <<status, submit, future, connected>> /\ main = "received"
    BY <1>8 DEF FirstLoad, LoadThrows, dbVars, submitVars, procVars
  <2>. QED
    BY <1>8, <2>1, SoleAside
<1>9. CASE FirstLoad /\ msg' = Acked(cur) /\ main' = "poll"
  <2>1. cur \in Live /\ connected
    BY <1>9 DEF FirstLoad, IInv, LoopInv, SoleParts
  <2>2. Live' = Live \ {cur} /\ \A m \in Live' : SubOf(m)' = SubOf(m)
    BY <1>9, <2>1 DEF Acked, TypeOK, Live, SubOf
  <2>3. UNCHANGED <<status, submit, future, procVars>> /\ cur \notin Pending
    BY <1>9 DEF FirstLoad, LoadThrows, dbVars, submitVars, IInv, LoopInv,
        Pending
  <2>. QED
    BY <1>9, <2>1, <2>2, <2>3 DEF SoleParts, procVars, Pending, FirstLoad, IInv,
        LoopInv
<1>10. CASE SecondLoad
  BY <1>10, SoleAside DEF SecondLoad, LoadThrows, dbVars, submitVars,
      queueVars, procVars,
      IInv, LoopInv, OrderInv, Pending
<1>11. CASE StartJudging
  <2>1. \A t \in Subs \ {SubOf(cur)} : status'[t] = status[t]
    BY <1>11, OneRow DEF StartJudging, TypeOK
  <2>2. cur' = cur \/ status'[SubOf(cur)] \notin Terminal
    BY <1>11, SoleInHand DEF StartJudging, Save, Commit, TypeOK, Terminal,
        JudgeStatuses
  <2>. QED
    BY <1>11, <2>1, <2>2, SoleAside DEF StartJudging, queueVars, submitVars,
        procVars, TypeOK
<1>12. CASE RejectMark
  BY <1>12, OneRow, SoleAside DEF RejectMark, TypeOK, submitVars, queueVars,
      procVars
<1>13. CASE SaveResult \/ MarkFailure
  <2>1. cur \in Live /\ SameTasks(msg)
    BY <1>13 DEF SaveResult, MarkFailure, IInv, LoopInv, SameTasks, TypeOK, Live
  <2>2. \A t \in Subs \ {SubOf(cur)} : status'[t] = status[t]
    BY <1>13, OneRow DEF SaveResult, MarkFailure, TypeOK
  <2>3. SameTasks(msg') \/ UNCHANGED msg
    BY <1>13, <2>1, NackedTasks DEF SaveResult, MarkFailure, Requeue
  <2>4. cur' = cur \/ cur \notin Pending'
    BY <1>13 DEF SaveResult, MarkFailure, Requeue, TypeOK, Pending
  <2>5. \A m \in MsgIds \ {cur} : future'[m] = future[m]
    BY <1>13 DEF SaveResult, MarkFailure, Requeue, TypeOK
  <2>6. main' \in {"acking", "rerouting", "poll"} /\ UNCHANGED <<submit, connected>>
    BY <1>13 DEF SaveResult, MarkFailure, Requeue, submitVars, procVars
  <2>7. main = "finishing"
    BY <1>13 DEF SaveResult, MarkFailure
  <2>. QED
    BY <2>2, <2>3, <2>4, <2>5, <2>6, <2>7, SoleAside
<1>14. CASE Reroute
  <2>1. /\ cur \in Live
        /\ \A m \in Live \ {cur} : SubOf(m) \in Subs /\ SubOf(m) # SubOf(cur)
    BY <1>14, SoleInHand DEF Reroute
  <2>2. main' = "acking" /\ UNCHANGED <<dbVars, submit, cur, future, procVars>>
    BY <1>14 DEF Reroute, submitVars
  <2>3. CASE UNCHANGED msg
    BY <1>14, <2>2, <2>3 DEF Reroute, dbVars, procVars, SoleParts, Live,
        Pending, SubOf
  <2>4. ASSUME NEW n \in MsgIds \ Live, NEW place,
               msg' = [msg EXCEPT ![n] = [task |-> [sub |-> msg[cur].task.sub,
                                                    retry |-> msg[cur].task.retry + 1],
                                          at |-> "retry"]]
        PROVE  SoleParts'
    <3>1. Live' \subseteq Live \cup {n} /\ SubOf(n)' = SubOf(cur)
          /\ \A m \in Live : SubOf(m)' = SubOf(m)
      BY <2>4 DEF TypeOK, Live, SubOf
    <3>. QED
      BY <1>14, <2>1, <2>2, <3>1 DEF Reroute, dbVars, procVars, SoleParts,
          Pending, IInv, LoopInv
  <2>. QED
    BY <1>14, <2>3, <2>4 DEF Reroute, Publish
<1>15. CASE DeadLetterRaw
  BY <1>15, SoleAside DEF DeadLetterRaw, dbVars, submitVars, procVars
<1>16. CASE PublishThrows
  <2>1. SameTasks(msg')
    BY <1>16, MovingStep DEF IInv
  <2>. QED
    BY <1>16, <2>1, SoleAside DEF PublishThrows, Requeue, dbVars, submitVars,
        procVars,
        TypeOK, Pending
<1>17. CASE Ack
  <2>1. cur \in Live /\ connected
    BY <1>17 DEF Ack, IInv, LoopInv, SoleParts
  <2>2. Live' = Live \ {cur} /\ \A m \in Live' : SubOf(m)' = SubOf(m)
    BY <1>17, <2>1 DEF Ack, Acked, TypeOK, Live, SubOf
  <2>3. Pending' = Pending \ {cur}
    BY <1>17 DEF Ack, TypeOK, Pending
  <2>. QED
    BY <1>17, <2>1, <2>2, <2>3 DEF Ack, dbVars, submitVars, procVars,
        SoleParts, IInv, LoopInv
<1>18. CASE Disconnect \/ Crash
  BY <1>18 DEF Disconnect, Crash
<1>19. CASE Start \/ Stop \/ UNCHANGED vars
  BY <1>19 DEF Start, Stop, vars, dbVars, submitVars, queueVars, loopVars,
      procVars,
      SoleParts, Live, Pending, SubOf
<1>20. CASE Exit
  <2>1. Live' = Live /\ (\A m \in Live : SubOf(m)' = SubOf(m)) /\ Pending' = {}
    BY <1>20, MovingStep DEF IInv, Exit, GoDown, Pending
  <2>. QED
    BY <1>20, <2>1 DEF Exit, GoDown, dbVars, submitVars, SoleParts
<1>. QED
  BY <1>1, <1>2, <1>3, <1>4, <1>5, <1>6, <1>7, <1>8, <1>9, <1>10,
     <1>11, <1>12, <1>13, <1>14, <1>15, <1>16, <1>17, <1>18, <1>19, <1>20
    DEF Next, SubmitNext, MainStep, FirstLoad

\* Without crashes and lost connections a task is judged alone.
THEOREM SoleInductive == Spec => []SoleInv
<1>1. Init => SoleInv
  BY DEF Init, SoleInv, SoleParts, Live, Pending, Absent, Terminal,
      JudgeStatuses
<1>2. IInv /\ WithinBudget /\ SoleInv /\ [Next]_vars => SoleInv'
  <2> SUFFICES ASSUME IInv, WithinBudget, SoleInv, [Next]_vars PROVE SoleInv'
    OBVIOUS
  <2>. QED
    BY SoleStep
<1>. QED
  BY Inductive, CalmInductive, <1>1, <1>2, PTL DEF Spec

\* What VerdictChangeNeedsCopy says of one step and one submission.
Changes(s) ==
    status[s] \in Terminal /\ status'[s] \in Terminal \ {status[s]}
        => Spent("crash") + Spent("drop") > 0

\* In a steady state no step writes a terminal status over another.
LEMMA ChangeStep ==
    ASSUME IInv, SoleInv, Steady, [Next]_vars, NEW s \in Subs,
           status[s] \in Terminal
    PROVE  status'[s] \notin Terminal \ {status[s]}
<1> USE PipelineAssumption DEF IInv, TypeOK, SoleInv, SoleParts, Terminal, Active,
    Absent, JudgeStatuses
<1>1. ASSUME NEW t \in Subs, SubmitCreate(t)
      PROVE  status'[s] \notin Terminal \ {status[s]}
  BY <1>1 DEF SubmitCreate, Commit
<1>2. ASSUME NEW t \in Subs, SubmitFinish(t)
      PROVE  status'[s] \notin Terminal \ {status[s]}
  BY <1>2 DEF SubmitFinish, Commit, Save, SaveThrows, dbVars
<1>3. ASSUME NEW t \in Subs, DeleteProblem(t)
      PROVE  status'[s] \notin Terminal \ {status[s]}
  BY <1>3 DEF DeleteProblem
<1>4. CASE StartJudging
  BY <1>4 DEF StartJudging, Commit, Save, SaveThrows, dbVars
<1>5. CASE RejectMark
  BY <1>5 DEF RejectMark, Commit, Save, SaveThrows, LoadThrows, Mark,
      MarkThrows,
      dbVars
<1>6. CASE SaveResult
  BY <1>6 DEF SaveResult, Commit, Save, SaveThrows, dbVars
<1>7. CASE MarkFailure
  BY <1>7 DEF MarkFailure, Commit, Save, SaveThrows, LoadThrows, Mark,
      MarkThrows,
      dbVars
<1>8. CASE UNCHANGED status
  BY <1>8
<1>. QED
  BY <1>1, <1>2, <1>3, <1>4, <1>5, <1>6, <1>7, <1>8
    DEF vars, dbVars, Next, SubmitNext, MainStep, LoadThrows, JudgeDone,
        GoDown, SubmitRefused, SubmitPublish, SubmitPublishFails, SubmitCrash,
        RetryExpires, Consume, Collect, JudgeThread, FirstLoad, SecondLoad,
        Reroute, DeadLetterRaw, PublishThrows, Ack, Disconnect, Start, Stop,
        Exit, Crash

\* A verdict is replaced by another only after a crash or a lost connection has
\* handed its task out twice.
THEOREM VerdictsChangeByCopies == Spec => VerdictChangeNeedsCopy
<1>1. IInv /\ WithinBudget /\ SoleInv /\ [Next]_vars
          => [\A s \in Subs : Changes(s)]_vars
  <2> SUFFICES ASSUME IInv, WithinBudget, SoleInv, [Next]_vars, NEW s \in Subs,
                      status[s] \in Terminal, status'[s] \in Terminal \ {status[s]}
               PROVE  Spent("crash") + Spent("drop") > 0
    BY DEF Changes
  <2>1. ~Steady
    BY ChangeStep
  <2>2. /\ Budget["crash"] \in Nat /\ Budget["drop"] \in Nat
        /\ budget["crash"] \in Nat /\ budget["drop"] \in Nat
        /\ budget["crash"] <= Budget["crash"] /\ budget["drop"] <= Budget["drop"]
    BY PipelineAssumption DEF IInv, TypeOK, WithinBudget, FaultKinds
  <2>. QED
    BY <2>1, <2>2 DEF Steady, Spent
<1>. QED
  BY Inductive, CalmInductive, SoleInductive, <1>1, PTL
    DEF Spec, VerdictChangeNeedsCopy, Changes

-----------------------------------------------------------------------------
(* The contract.                                                           *)

\* A submission that has no task yet has not been judged.
FreshInv == \A s \in Subs : submit[s] \in {"idle", "created"} => s \notin settled

\* A step changes what the phase of s depends on, and nobody else's: the sets
\* only grow, and s is not settled in the step that enqueues it.
Touches(s) ==
    /\ enqueued \subseteq enqueued' /\ enqueued' \subseteq enqueued \cup {s}
    /\ settled \subseteq settled' /\ settled' \subseteq settled \cup {s}
    /\ vanished \subseteq vanished' /\ vanished' \subseteq vanished \cup {s}
    /\ dead \subseteq dead' /\ \A t \in dead' \ dead : t.sub = s
    /\ s \in enqueued' \ enqueued => submit[s] = "created" /\ UNCHANGED settled
    /\ settled' # settled => submit[s] \notin {"idle", "created"}

\* The writes of a row: what a commit, a save, a mark or a failure may settle.
LEMMA WriteSettles ==
    ASSUME NEW s, NEW new,
           \/ Commit(s, new) \/ Save(s, new) \/ SaveThrows(s, new)
           \/ LoadThrows(s) \/ Mark(s, new) \/ MarkThrows(s, new)
    PROVE  settled \subseteq settled' /\ settled' \subseteq settled \cup {s}
  BY DEF Commit, Save, SaveThrows, LoadThrows, Mark, MarkThrows, dbVars

\* Until it answers, the main thread touches only the submission in hand, whose
\* task was published.
LEMMA MainTouches ==
    ASSUME IInv, MainStep
    PROVE  /\ \E s \in Subs : Touches(s)
           /\ UNCHANGED submit
<1>1. main \notin {"down", "poll"}
  BY DEF MainStep, FirstLoad, SecondLoad, StartJudging, RejectMark, SaveResult,
      MarkFailure, Reroute, DeadLetterRaw, PublishThrows, Ack
<1>2. SubOf(cur) \in Subs /\ submit[SubOf(cur)] \in {"published", "done"}
  <2>1. cur \in Live
    BY <1>1 DEF IInv, LoopInv
  <2>. QED
    BY <2>1 DEF IInv, TypeOK, OrderInv, Live, SubOf, Message, Task
<1>3. UNCHANGED submitVars
  BY DEF MainStep, FirstLoad, SecondLoad, StartJudging, RejectMark, SaveResult,
      MarkFailure, Reroute, DeadLetterRaw, PublishThrows, Ack
<1>4. settled \subseteq settled' /\ settled' \subseteq settled \cup {SubOf(cur)}
  <2>1. CASE FirstLoad \/ SecondLoad
    BY <2>1 DEF FirstLoad, SecondLoad, LoadThrows, dbVars
  <2>2. CASE StartJudging \/ SaveResult
    BY <2>2, WriteSettles DEF StartJudging, SaveResult
  <2>3. CASE RejectMark
    BY <2>3, WriteSettles DEF RejectMark
  <2>4. CASE MarkFailure
    BY <2>4, WriteSettles DEF MarkFailure
  <2>5. CASE Reroute \/ DeadLetterRaw \/ PublishThrows \/ Ack
    BY <2>5 DEF Reroute, DeadLetterRaw, PublishThrows, Ack, dbVars
  <2>. QED
    BY <2>1, <2>2, <2>3, <2>4, <2>5 DEF MainStep
<1>5. /\ vanished \subseteq vanished' /\ vanished' \subseteq vanished \cup {SubOf(cur)}
      /\ dead \subseteq dead' /\ \A t \in dead' \ dead : t.sub = SubOf(cur)
  BY DEF MainStep, FirstLoad, SecondLoad, StartJudging, RejectMark, SaveResult,
      MarkFailure, Reroute, DeadLetterRaw, PublishThrows, Ack, queueVars, SubOf
<1>. QED
  BY <1>2, <1>3, <1>4, <1>5 DEF Touches, submitVars

\* A handler touches its own submission; every other step leaves the phases alone.
LEMMA StepTouches ==
    ASSUME IInv, [Next]_vars
    PROVE  /\ \/ UNCHANGED <<enqueued, settled, vanished, dead>>
              \/ \E s \in Subs : Touches(s)
           /\ \A s \in Subs : submit'[s] \in {"idle", "created"}
                                  => submit[s] \in {"idle", "created"}
<1>1. ASSUME NEW s \in Subs, SubmitCreate(s) \/ SubmitRefused(s) \/ SubmitPublishFails(s)
                             \/ SubmitCrash(s) \/ DeleteProblem(s)
      PROVE  /\ UNCHANGED <<enqueued, settled, vanished, dead>>
             /\ \A t \in Subs : submit'[t] \in {"idle", "created"}
                                    => submit[t] \in {"idle", "created"}
  BY <1>1 DEF SubmitCreate, SubmitRefused, SubmitPublishFails, SubmitCrash,
      DeleteProblem, Commit, Terminal, JudgeStatuses, dbVars, queueVars,
      submitVars, IInv, TypeOK
<1>2. ASSUME NEW s \in Subs, SubmitPublish(s) \/ SubmitFinish(s)
      PROVE  /\ Touches(s)
             /\ \A t \in Subs : submit'[t] \in {"idle", "created"}
                                    => submit[t] \in {"idle", "created"}
  <2>1. CASE SubmitPublish(s)
    BY <2>1 DEF SubmitPublish, Touches, dbVars, IInv, TypeOK
  <2>2. CASE SubmitFinish(s)
    <3>1. settled \subseteq settled' /\ settled' \subseteq settled \cup {s}
      BY <2>2, WriteSettles DEF SubmitFinish
    <3>. QED
      BY <2>2, <3>1 DEF SubmitFinish, Touches, queueVars, IInv, TypeOK
  <2>. QED
    BY <1>2, <2>1, <2>2
<1>3. ASSUME NEW m \in MsgIds,
             RetryExpires(m) \/ Consume(m) \/ Collect(m) \/ JudgeThread(m)
      PROVE  UNCHANGED <<enqueued, settled, vanished, dead, submit>>
  BY <1>3 DEF RetryExpires, Consume, Collect, JudgeThread, JudgeDone, LoadThrows,
      dbVars, queueVars, submitVars
<1>4. ASSUME Disconnect \/ Start \/ Stop \/ Exit \/ Crash \/ UNCHANGED vars
      PROVE  UNCHANGED <<enqueued, settled, vanished, dead, submit>>
  BY <1>4 DEF Disconnect, Start, Stop, Exit, Crash, GoDown, vars, dbVars,
      queueVars, submitVars
<1>. QED
  BY <1>1, <1>2, <1>3, <1>4, MainTouches DEF Next, SubmitNext

\* The phases of the contract, as a function.
Phases == [s \in Subs |-> PhaseOf(s)]

\* A touched submission moves as the contract allows, or not at all.
LEMMA TouchMoves ==
    ASSUME FreshInv, NEW s \in Subs, Touches(s)
    PROVE  Contract!Next \/ UNCHANGED Phases
<1>1. \A t \in Subs \ {s} : PhaseOf(t)' = PhaseOf(t)
  BY DEF PhaseOf, Touches, DeadLettered
<1>2. DeadLettered(s) => DeadLettered(s)'
  BY DEF DeadLettered, Touches
<1>3. \/ PhaseOf(s)' = PhaseOf(s)
      \/ PhaseOf(s) = "new" /\ PhaseOf(s)' \in {"accepted", "abandoned"}
      \/ PhaseOf(s) \in {"accepted", "abandoned"} /\ PhaseOf(s)' = "settled"
      \/ PhaseOf(s) = "accepted" /\ PhaseOf(s)' = "abandoned"
  BY <1>2 DEF PhaseOf, Touches, FreshInv
<1>4. Phases' = [Phases EXCEPT ![s] = PhaseOf(s)']
  BY <1>1 DEF Phases
<1>5. Phases[s] = PhaseOf(s)
  BY DEF Phases
<1>6. CASE PhaseOf(s)' = PhaseOf(s)
  BY <1>1, <1>6 DEF Phases
<1>7. CASE PhaseOf(s)' # PhaseOf(s)
  <2>1. Contract!Accept(s) \/ Contract!Settle(s) \/ Contract!Abandon(s)
    BY <1>3, <1>4, <1>5, <1>7
       DEF Contract!Accept, Contract!Settle, Contract!Abandon, Contract!Move, Phases
  <2>. QED
    BY <2>1 DEF Contract!Next
<1>. QED
  BY <1>6, <1>7

\* The pipeline implements the safety half of JudgeContract: a submission is
\* accepted once, is then settled or given up, is never settled and then given
\* up, and no step moves two of them, whatever faults happen.
THEOREM PipelineKeepsContract == Spec => Contract!Moves
<1>1. Init => FreshInv /\ Contract!Init
  BY DEF Init, FreshInv, Contract!Init, PhaseOf
<1>2. IInv /\ FreshInv /\ [Next]_vars => FreshInv'
  <2> SUFFICES ASSUME IInv, FreshInv, [Next]_vars PROVE FreshInv'
    OBVIOUS
  <2>. QED
    BY StepTouches DEF FreshInv, Touches
<1>3. IInv /\ FreshInv /\ [Next]_vars => [Contract!Next]_Phases
  <2> SUFFICES ASSUME IInv, FreshInv, [Next]_vars
               PROVE  Contract!Next \/ UNCHANGED Phases
    OBVIOUS
  <2>1. CASE UNCHANGED <<enqueued, settled, vanished, dead>>
    BY <2>1 DEF Phases, PhaseOf, DeadLettered
  <2>. QED
    BY <2>1, StepTouches, TouchMoves
<1>4. Phases = [s \in Subs |-> PhaseOf(s)]
  BY DEF Phases
<1>. QED
  BY Inductive, <1>1, <1>2, <1>3, PTL DEF Spec, Contract!Moves, Phases
=============================================================================
