------------------------ MODULE AssistantJobsProofs ------------------------
(***************************************************************************)
(* Proofs about the assistant jobs, for any jobs and conversations, logs of *)
(* any length and any number of failures.                                  *)
(***************************************************************************)
EXTENDS AssistantJobs, TLAPS, SequenceTheorems, FunctionTheorems, FiniteSetTheorems,
        WellFoundedInduction

\* Before its transaction commits a job has no round.
Before == {"none", "validating", "generating", "saving", "locked"}

\* Transactions of one conversation exclude each other, so the number that was
\* computed under the row lock is still the next one.
NumberInv ==
    \A j \in Jobs : thread[j] = "locked" =>
        /\ number[j] = count[ConvOf[j]] + 1
        /\ \A i \in Siblings(j) : thread[i] # "locked"

StoredInv ==
    /\ \A j \in Jobs, c \in Conversations : j \in Stored(c) => c = ConvOf[j] /\ thread[j] \notin Before
    /\ \A j \in Jobs : thread[j] = "stored" => j \in Stored(ConvOf[j])
    /\ \A j \in Jobs \ broken :
           /\ thread[j] \notin {"failing", "dead"}
           /\ thread[j] \in {"finishing", "ended"} => j \in Stored(ConvOf[j])

\* A done event stands for a stored round, and every end of a thread for an event.
LogInv ==
    \A j \in Jobs :
        /\ "done" \in ToSet(log[j]) => j \in Stored(ConvOf[j])
        /\ thread[j] \in {"finishing", "ended"} => ToSet(log[j]) \cap Terminal # {}
        /\ done[j] => ToSet(log[j]) \cap Terminal # {}

\* The page has handled the log up to its last id; while it polls on, that was
\* progress only.
PageInv ==
    \A j \in Jobs :
        /\ last[j] = Len(shown[j]) /\ last[j] <= Len(log[j])
        /\ \A i \in 1..last[j] : shown[j][i] = log[j][i]
        /\ client[j] \in {"waiting", "polling"} => \A i \in 1..last[j] : log[j][i] = "progress"
        /\ client[j] = "done" => "done" \in ToSet(log[j])
        /\ thread[j] = "none" => client[j] = "none" /\ last[j] = 0
        /\ client[j] # "silent"

\* What the user had seen done when asking is stored before the history is read.
HistoryInv ==
    \A j \in Jobs : thread[j] = "validating" => asked[j] \subseteq Stored(ConvOf[j])

IInv ==
    /\ TypeOK /\ NumberInv /\ StoredInv /\ RoundsAreNumbered
    /\ LogInv /\ PageInv /\ HistoryInv /\ SeenRoundsAreKnown

-----------------------------------------------------------------------------
(* Sequences.                                                              *)

\* An event is added at the end, and nothing else changes.
LEMMA AppendedEvent ==
    ASSUME NEW s \in Seq(Events), NEW e \in Events
    PROVE  /\ Append(s, e) \in Seq(Events) /\ Len(Append(s, e)) = Len(s) + 1
           /\ \A i \in 1..Len(s) : Append(s, e)[i] = s[i]
           /\ ToSet(Append(s, e)) = ToSet(s) \cup {e}
<1>1. /\ Append(s, e) \in Seq(Events) /\ Len(Append(s, e)) = Len(s) + 1
      /\ \A i \in 1..Len(s) : Append(s, e)[i] = s[i]
      /\ Append(s, e)[Len(s) + 1] = e
  OBVIOUS
<1>2. DOMAIN s = 1..Len(s) /\ DOMAIN Append(s, e) = 1..(Len(s) + 1) /\ Len(s) \in Nat
  BY <1>1
<1>3. \A x : x \in ToSet(Append(s, e)) <=> x \in ToSet(s) \cup {e}
  BY <1>1, <1>2 DEF ToSet
<1> QED
  BY <1>1, <1>3

\* The page handles a first part of the events, all of them when none is an error.
LEMMA HandledIsPrefix ==
    ASSUME NEW events \in Seq(Events)
    PROVE  /\ Handled(events) \in Seq(Events)
           /\ Len(Handled(events)) <= Len(events)
           /\ \A i \in 1..Len(Handled(events)) : Handled(events)[i] = events[i]
           /\ "error" \notin ToSet(events) => Handled(events) = events
<1> DEFINE errors == {i \in DOMAIN events : events[i] = "error"}
<1>1. CASE errors = {}
  BY <1>1 DEF Handled
<1>2. CASE errors # {}
  <2>1. errors \in SUBSET Nat
    OBVIOUS
  <2>2. \E n \in errors : \A m \in errors : n <= m
    <3>1. PICK n \in errors : \A m \in errors : ~(<<m, n>> \in OpToRel(<, Nat))
      BY <1>2, <2>1, WFMin, NatLessThanWellFounded
    <3>2. OpToRel(<, Nat) = {pair \in Nat \X Nat : pair[1] < pair[2]}
      BY Zenon DEF OpToRel
    <3>3. \A m \in errors : ~(m < n)
      BY <2>1, <3>1, <3>2
    <3> QED
      BY <2>1, <3>3
  <2> DEFINE first == CHOOSE i \in errors : \A k \in errors : i <= k
  <2>3. first \in errors
    BY <2>2
  <2>4. first \in 1..Len(events) /\ events[first] = "error"
    BY <2>3
  <2>5. Handled(events) = SubSeq(events, 1, first)
    BY <1>2 DEF Handled
  <2> HIDE DEF first
  <2>6. /\ Handled(events) \in Seq(Events) /\ Len(Handled(events)) <= Len(events)
        /\ \A i \in 1..Len(Handled(events)) : Handled(events)[i] = events[i]
    BY <2>4, <2>5
  <2>7. "error" \in ToSet(events)
    BY <2>4 DEF ToSet
  <2> QED
    BY <2>6, <2>7
<1> QED
  BY <1>1, <1>2

LEMMA FreshEvents ==
    ASSUME NEW s \in Seq(Events), NEW n \in Nat, n <= Len(s)
    PROVE  /\ SubSeq(s, n + 1, Len(s)) \in Seq(Events)
           /\ Len(SubSeq(s, n + 1, Len(s))) = Len(s) - n
           /\ \A i \in 1..(Len(s) - n) : SubSeq(s, n + 1, Len(s))[i] = s[n + i]
  OBVIOUS

LEMMA JoinedEvents ==
    ASSUME NEW s \in Seq(Events), NEW t \in Seq(Events)
    PROVE  /\ s \o t \in Seq(Events) /\ Len(s \o t) = Len(s) + Len(t)
           /\ \A i \in 1..Len(s) : (s \o t)[i] = s[i]
           /\ \A i \in 1..Len(t) : (s \o t)[Len(s) + i] = t[i]
  OBVIOUS

\* What an event means for a log.
LEMMA Emitted ==
    ASSUME TypeOK, NEW j \in Jobs, NEW e \in Events, Emit(j, e)
    PROVE  /\ log' \in [Jobs -> Seq(Events)]
           /\ \A i \in Jobs \ {j} : log'[i] = log[i]
           /\ Len(log'[j]) = Len(log[j]) + 1
           /\ \A i \in 1..Len(log[j]) : log'[j][i] = log[j][i]
           /\ ToSet(log'[j]) = ToSet(log[j]) \cup {e}
<1>1. log[j] \in Seq(Events)
  BY DEF TypeOK
<1>2. log' = [log EXCEPT ![j] = Append(log[j], e)] /\ log \in [Jobs -> Seq(Events)]
  BY DEF Emit, TypeOK
<1>3. log'[j] = Append(log[j], e) /\ \A i \in Jobs \ {j} : log'[i] = log[i]
  BY <1>2
<1> QED
  BY <1>1, <1>2, <1>3, AppendedEvent

\* What an answer to a poll means for a page.
LEMMA Delivered ==
    ASSUME TypeOK, PageInv, NEW j \in Jobs, Deliver(j)
    PROVE  /\ last' \in [Jobs -> Nat] /\ shown' \in [Jobs -> Seq(Events)]
           /\ \A i \in Jobs \ {j} : last'[i] = last[i] /\ shown'[i] = shown[i]
           /\ last'[j] = Len(shown'[j]) /\ last'[j] <= Len(log[j])
           /\ \A i \in 1..last'[j] : shown'[j][i] = log[j][i]
           /\ ToSet(Fresh(j)) \subseteq ToSet(log[j])
           /\ \A i \in 1..Len(log[j]) : i <= last[j] \/ log[j][i] \in ToSet(Fresh(j))
           /\ "error" \notin ToSet(Fresh(j)) => last'[j] = Len(log[j])
<1> DEFINE s == log[j]
           n == last[j]
           h == Handled(Fresh(j))
<1>1. s \in Seq(Events) /\ n \in Nat /\ n <= Len(s) /\ shown[j] \in Seq(Events) /\ Len(shown[j]) = n
  BY DEF TypeOK, PageInv
<1>2. /\ Fresh(j) \in Seq(Events) /\ Len(Fresh(j)) = Len(s) - n
      /\ \A i \in 1..(Len(s) - n) : Fresh(j)[i] = s[n + i]
  BY <1>1, FreshEvents DEF Fresh
<1>3. /\ h \in Seq(Events) /\ Len(h) <= Len(Fresh(j))
      /\ \A i \in 1..Len(h) : h[i] = Fresh(j)[i]
      /\ "error" \notin ToSet(Fresh(j)) => h = Fresh(j)
  BY <1>2, HandledIsPrefix
<1>4. /\ shown' = [shown EXCEPT ![j] = shown[j] \o h]
      /\ last' = [last EXCEPT ![j] = n + Len(h)]
  BY DEF Deliver
<1>5. /\ shown'[j] = shown[j] \o h /\ last'[j] = n + Len(h)
      /\ \A i \in Jobs \ {j} : last'[i] = last[i] /\ shown'[i] = shown[i]
  BY <1>4 DEF TypeOK
<1> HIDE DEF h, s, n
<1>6. /\ shown[j] \o h \in Seq(Events) /\ Len(shown[j] \o h) = n + Len(h)
      /\ \A i \in 1..n : (shown[j] \o h)[i] = shown[j][i]
      /\ \A i \in 1..Len(h) : (shown[j] \o h)[n + i] = h[i]
  BY <1>1, <1>3, JoinedEvents
<1>7. last'[j] = Len(shown'[j]) /\ last'[j] <= Len(s) /\ last'[j] \in Nat
  BY <1>1, <1>2, <1>3, <1>5, <1>6
<1>8. \A i \in 1..last'[j] : shown'[j][i] = s[i]
  <2>1. \A i \in 1..n : shown'[j][i] = s[i]
    BY <1>5, <1>6 DEF PageInv, n, s
  <2>2. ASSUME NEW i \in (n + 1)..(n + Len(h)) PROVE shown'[j][i] = s[i]
    <3>1. i - n \in 1..Len(h) /\ n + (i - n) = i /\ i - n \in 1..(Len(s) - n)
      BY <1>1, <1>2, <1>3
    <3>2. shown'[j][i] = h[i - n] /\ h[i - n] = Fresh(j)[i - n] /\ Fresh(j)[i - n] = s[i]
      BY <1>2, <1>3, <1>5, <1>6, <3>1
    <3> QED
      BY <3>2
  <2>3. \A i \in 1..last'[j] : i \in 1..n \/ i \in (n + 1)..(n + Len(h))
    BY <1>1, <1>3, <1>5
  <2> QED
    BY <2>1, <2>2, <2>3
<1>9. ToSet(Fresh(j)) \subseteq ToSet(s)
  <2> SUFFICES ASSUME NEW i \in 1..(Len(s) - n) PROVE Fresh(j)[i] \in ToSet(s)
    BY <1>1, <1>2 DEF ToSet
  <2>1. n + i \in DOMAIN s
    BY <1>1
  <2> QED
    BY <1>2, <2>1 DEF ToSet
<1>10. \A i \in 1..Len(s) : i <= n \/ s[i] \in ToSet(Fresh(j))
  <2> SUFFICES ASSUME NEW i \in 1..Len(s), ~(i <= n) PROVE s[i] \in ToSet(Fresh(j))
    OBVIOUS
  <2>1. i - n \in 1..(Len(s) - n) /\ n + (i - n) = i /\ i - n \in DOMAIN Fresh(j)
    BY <1>1, <1>2
  <2> QED
    BY <1>2, <2>1 DEF ToSet
<1>11. "error" \notin ToSet(Fresh(j)) => last'[j] = Len(s)
  BY <1>1, <1>2, <1>3, <1>5
<1>12. last' \in [Jobs -> Nat] /\ shown' \in [Jobs -> Seq(Events)]
  BY <1>4, <1>5, <1>6, <1>7 DEF TypeOK
<1> QED
  BY <1>5, <1>7, <1>8, <1>9, <1>10, <1>11, <1>12 DEF s, n

-----------------------------------------------------------------------------
(* The invariant holds initially.                                          *)

LEMMA Initially == Init => IInv
<1> SUFFICES ASSUME Init PROVE IInv
  OBVIOUS
<1> USE JobsAssumption DEF Init
<1>1. TypeOK
  BY DEF TypeOK
<1>2. NumberInv /\ LogInv /\ HistoryInv /\ SeenRoundsAreKnown
  BY DEF NumberInv, LogInv, HistoryInv, SeenRoundsAreKnown, ToSet
<1>3. \A j \in Jobs, c \in Conversations : j \notin Stored(c)
  BY DEF Stored
<1>4. StoredInv
  BY <1>3 DEF StoredInv
<1>5. RoundsAreNumbered
  <2> SUFFICES ASSUME NEW c \in Conversations
               PROVE  /\ {r[1] : r \in rounds[c]} = 1..count[c]
                      /\ \A q, r \in rounds[c] : q[1] = r[1] \/ q[2] = r[2] => q = r
    BY DEF RoundsAreNumbered
  <2>1. CASE count[c] = 0
    BY <2>1
  <2>2. CASE count[c] = 1
    <3>1. rounds[c] = {<<1, Earlier>>} /\ 1..count[c] = {1}
      BY <2>2
    <3>2. {r[1] : r \in rounds[c]} = {1}
      BY <3>1
    <3> QED
      BY <3>1, <3>2
  <2> QED
    BY <2>1, <2>2
<1>6. PageInv
  BY DEF PageInv
<1> QED
  BY <1>1, <1>2, <1>4, <1>5, <1>6 DEF IInv

-----------------------------------------------------------------------------
(* Types.                                                                  *)

LEMMA TypeStep == IInv /\ [Next]_vars => TypeOK'
<1> SUFFICES ASSUME IInv, [Next]_vars PROVE TypeOK'
  OBVIOUS
<1>0. TypeOK /\ PageInv
  BY DEF IInv
<1> USE <1>0, JobsAssumption DEF jobVars, dbVars, clientVars, histVars, Goto, Break, Spend
<1>1. ASSUME NEW j \in Jobs, Create(j) PROVE TypeOK'
  <2>1. log' \in [Jobs -> Seq(Events)]
    BY <1>1, Emitted DEF Create, Events
  <2> QED
    BY <1>1, <2>1 DEF Create, TypeOK, Siblings
<1>2. ASSUME NEW j \in Jobs, Work(j) PROVE TypeOK'
  <2>1. ASSUME Validate(j) PROVE TypeOK'
    <3>1. Recent(ConvOf[j]) \subseteq Nat \X (Jobs \cup {Earlier})
      BY DEF Recent, TypeOK
    <3> QED
      BY <2>1, <3>1 DEF Validate, TypeOK
  <2>2. ASSUME Refuse(j) \/ AgentDone(j) \/ AgentCut(j) PROVE TypeOK'
    <3>1. thread' = [thread EXCEPT ![j] = "failing"] \/ thread' = [thread EXCEPT ![j] = "saving"]
      BY <2>2 DEF Refuse, AgentDone, AgentCut
    <3>2. broken' \subseteq Jobs
      BY <2>2 DEF Refuse, AgentDone, AgentCut, TypeOK
    <3> QED
      BY <2>2, <3>1, <3>2 DEF Refuse, AgentDone, AgentCut, TypeOK
  <2>7. ASSUME SaveFails(j) PROVE TypeOK'
    BY <2>7 DEF SaveFails, TypeOK
  <2>8. ASSUME Finish(j) PROVE TypeOK'
    BY <2>8 DEF Finish, TypeOK, Ends
  <2>3. ASSUME Relay(j) \/ AgentError(j) \/ AppendDone(j) \/ AppendError(j) PROVE TypeOK'
    <3>1. log' \in [Jobs -> Seq(Events)]
      BY <2>3, Emitted DEF Relay, AgentError, AppendDone, AppendError, Events, Terminal
    <3> QED
      BY <2>3, <3>1 DEF Relay, AgentError, AppendDone, AppendError, TypeOK, Ends
  <2>4. ASSUME Lock(j) PROVE TypeOK'
    BY <2>4 DEF Lock, NextRound, TypeOK
  <2>5. ASSUME Store(j) PROVE /\ rounds' \in [Conversations -> SUBSET (Nat \X (Jobs \cup {Earlier}))]
                              /\ count' \in [Conversations -> Nat]
    BY <2>5 DEF Store, TypeOK
  <2>6. ASSUME Commit(j) PROVE TypeOK'
    <3>1. CASE RoundTaken(j)
      BY <2>6, <3>1 DEF Commit, TypeOK
    <3>2. CASE ~RoundTaken(j)
      BY <2>5, <2>6, <3>2 DEF Commit, TypeOK
    <3> QED
      BY <3>1, <3>2
  <2>9. ASSUME CommitThenThrow(j) PROVE TypeOK'
    BY <2>5, <2>9 DEF CommitThenThrow, TypeOK
  <2> QED
    BY <1>2, <2>1, <2>2, <2>3, <2>4, <2>6, <2>7, <2>8, <2>9 DEF Work
<1>3. ASSUME NEW j \in Jobs, Tick(j) PROVE TypeOK'
  BY <1>3 DEF Tick, TypeOK
<1>4. ASSUME NEW j \in Jobs, Poll(j) PROVE TypeOK'
  <2>1. log' \in [Jobs -> Seq(Events)]
    BY <1>4, Emitted DEF Poll, Events, Terminal, TypeOK
  <2> QED
    BY <1>4, <2>1 DEF Poll, TypeOK
<1>5. ASSUME NEW j \in Jobs, PollUnknown(j) \/ PollLost(j) PROVE TypeOK'
  <2>1. CASE PollUnknown(j)
    BY <2>1 DEF PollUnknown, TypeOK
  <2>2. CASE PollLost(j)
    BY <2>2 DEF PollLost, TypeOK
  <2> QED
    BY <1>5, <2>1, <2>2
<1>6. ASSUME NEW j \in Jobs, Deliver(j) PROVE TypeOK'
  <2>1. client' \in [Jobs -> {"none", "waiting", "polling", "done", "error", "silent"}]
    BY <1>6 DEF Deliver, TypeOK
  <2> QED
    BY <1>6, <2>1, Delivered DEF Deliver, TypeOK
<1>7. CASE Restart
  BY <1>7 DEF Restart, TypeOK, Ends
<1>8. CASE UNCHANGED vars
  BY <1>8 DEF vars, TypeOK
<1> QED
  BY <1>1, <1>2, <1>3, <1>4, <1>5, <1>6, <1>7, <1>8 DEF Next

-----------------------------------------------------------------------------
(* Rounds.                                                                 *)

\* The steps of a thread that neither take the row nor store a round, and where
\* they lead.
Moves(j) ==
    \/ Validate(j) /\ thread' = [thread EXCEPT ![j] = "generating"] /\ UNCHANGED broken
    \/ (AgentDone(j) \/ Relay(j)) /\ UNCHANGED broken
       /\ (thread' = [thread EXCEPT ![j] = "saving"] \/ UNCHANGED thread)
    \/ (Refuse(j) \/ AgentError(j) \/ AgentCut(j) \/ SaveFails(j))
       /\ thread' = [thread EXCEPT ![j] = "failing"] /\ broken' = broken \cup {j}
    \/ (AppendDone(j) \/ AppendError(j))
       /\ thread' = [thread EXCEPT ![j] = "finishing"] /\ UNCHANGED broken
    \/ Finish(j) /\ thread' = [thread EXCEPT ![j] = "ended"] /\ UNCHANGED broken

LEMMA WorkMoves ==
    ASSUME NEW j \in Jobs, Work(j)
    PROVE  \/ Moves(j) /\ UNCHANGED dbVars
           \/ Lock(j) \/ Commit(j) \/ CommitThenThrow(j)
  BY DEF Work, Moves, Validate, AgentDone, Relay, Refuse, AgentError, AgentCut, SaveFails,
         AppendDone, AppendError, Finish, Goto, Break, histVars

\* The number computed under the row lock is not taken.
LEMMA NumberIsFree ==
    ASSUME TypeOK, NumberInv, RoundsAreNumbered, NEW j \in Jobs, thread[j] = "locked"
    PROVE  ~RoundTaken(j)
<1> SUFFICES ASSUME NEW r \in rounds[ConvOf[j]], r[1] = number[j] PROVE FALSE
  BY DEF RoundTaken
<1>1. ConvOf[j] \in Conversations /\ count[ConvOf[j]] \in Nat
  BY JobsAssumption DEF TypeOK
<1>2. r[1] \in 1..count[ConvOf[j]] /\ number[j] = count[ConvOf[j]] + 1
  BY <1>1 DEF RoundsAreNumbered, NumberInv
<1> QED
  BY <1>1, <1>2

LEMMA NumberStep == IInv /\ [Next]_vars => NumberInv'
<1> SUFFICES ASSUME IInv, [Next]_vars PROVE NumberInv'
  OBVIOUS
<1> USE JobsAssumption DEF IInv, TypeOK, NumberInv, Siblings, Goto, jobVars, dbVars, clientVars, histVars
<1>1. ASSUME NEW j \in Jobs, Create(j) PROVE NumberInv'
  BY <1>1 DEF Create
<1>2. ASSUME NEW j \in Jobs, Moves(j), UNCHANGED dbVars PROVE NumberInv'
  <2>1. \/ UNCHANGED thread
        \/ \E where \in {"generating", "saving", "failing", "finishing", "ended"} :
               thread' = [thread EXCEPT ![j] = where]
    BY <1>2 DEF Moves
  <2> QED
    BY <1>2, <2>1
<1>3. ASSUME NEW j \in Jobs, Lock(j) PROVE NumberInv'
  BY <1>3 DEF Lock, RowFree, NextRound
<1>4. ASSUME NEW j \in Jobs, thread[j] = "locked", Store(j) \/ UNCHANGED count, UNCHANGED number,
             \E where \in {"stored", "failing"} : thread' = [thread EXCEPT ![j] = where]
      PROVE  NumberInv'
  <2>1. \A i \in Jobs \ {j} : ConvOf[i] = ConvOf[j] => thread[i] # "locked"
    BY <1>4
  <2> QED
    BY <1>4, <2>1 DEF Store
<1>5. ASSUME NEW j \in Jobs, Commit(j) PROVE NumberInv'
  BY <1>4, <1>5 DEF Commit
<1>6. ASSUME NEW j \in Jobs, CommitThenThrow(j) PROVE NumberInv'
  BY <1>4, <1>6 DEF CommitThenThrow
<1>7. ASSUME UNCHANGED <<thread, dbVars>> PROVE NumberInv'
  BY <1>7
<1>8. CASE Restart
  BY <1>8 DEF Restart, Running, Ends
<1>9. ASSUME NEW j \in Jobs, Tick(j) \/ Poll(j) \/ PollUnknown(j) \/ PollLost(j) \/ Deliver(j)
      PROVE  UNCHANGED <<thread, dbVars>>
  BY <1>9 DEF Tick, Poll, PollUnknown, PollLost, Deliver
<1> QED
  BY <1>1, <1>2, <1>3, <1>5, <1>6, <1>7, <1>8, <1>9, WorkMoves DEF Next, vars

LEMMA RoundsStep == IInv /\ [Next]_vars => RoundsAreNumbered'
<1> SUFFICES ASSUME IInv, [Next]_vars PROVE RoundsAreNumbered'
  OBVIOUS
<1> USE DEF jobVars, dbVars, clientVars, histVars
<1>1. ASSUME NEW j \in Jobs, thread[j] = "locked", Store(j) PROVE RoundsAreNumbered'
  <2> DEFINE d == ConvOf[j]
             new == <<number[j], j>>
  <2>1. d \in Conversations /\ count[d] \in Nat /\ number[j] = count[d] + 1 /\ j \notin Stored(d)
    BY <1>1, JobsAssumption DEF IInv, TypeOK, NumberInv, StoredInv, Before
  <2>2. /\ rounds' = [rounds EXCEPT ![d] = rounds[d] \cup {new}]
        /\ count' = [count EXCEPT ![d] = number[j]]
        /\ rounds \in [Conversations -> SUBSET (Nat \X (Jobs \cup {Earlier}))]
        /\ count \in [Conversations -> Nat]
    BY <1>1 DEF Store, IInv, TypeOK
  <2>3. /\ rounds'[d] = rounds[d] \cup {new} /\ count'[d] = count[d] + 1
        /\ \A c \in Conversations \ {d} : rounds'[c] = rounds[c] /\ count'[c] = count[c]
    BY <2>1, <2>2
  <2>4. /\ {r[1] : r \in rounds[d]} = 1..count[d]
        /\ \A q, r \in rounds[d] : q[1] = r[1] \/ q[2] = r[2] => q = r
    BY <2>1 DEF IInv, RoundsAreNumbered
  <2>5. new[1] = count[d] + 1 /\ new[2] = j
    BY <2>1
  <2>6. \A r \in rounds[d] : r[1] # new[1] /\ r[2] # new[2]
    BY <2>1, <2>4, <2>5 DEF Stored
  <2>7. \A q, r \in rounds'[d] : q[1] = r[1] \/ q[2] = r[2] => q = r
    BY <2>3, <2>4, <2>6
  <2>8. {r[1] : r \in rounds'[d]} = 1..count'[d]
    <3>1. {r[1] : r \in rounds'[d]} = {r[1] : r \in rounds[d]} \cup {new[1]}
      BY <2>3
    <3>2. 1..(count[d] + 1) = (1..count[d]) \cup {count[d] + 1}
      BY <2>1
    <3> QED
      BY <2>3, <2>4, <2>5, <3>1, <3>2
  <2> QED
    BY <2>3, <2>7, <2>8 DEF IInv, RoundsAreNumbered
<1>2. ASSUME UNCHANGED <<rounds, count>> PROVE RoundsAreNumbered'
  BY <1>2 DEF IInv, RoundsAreNumbered
<1>3. ASSUME NEW j \in Jobs, Work(j) PROVE RoundsAreNumbered'
  <2>1. CASE Moves(j) /\ UNCHANGED dbVars
    BY <1>2, <2>1
  <2>2. CASE Lock(j)
    BY <1>2, <2>2 DEF Lock
  <2>3. CASE Commit(j)
    BY <1>1, <1>2, <2>3 DEF Commit
  <2>4. CASE CommitThenThrow(j)
    BY <1>1, <2>4 DEF CommitThenThrow
  <2> QED
    BY <1>3, <2>1, <2>2, <2>3, <2>4, WorkMoves
<1>4. ASSUME NEW j \in Jobs,
             Create(j) \/ Tick(j) \/ Poll(j) \/ PollUnknown(j) \/ PollLost(j) \/ Deliver(j)
      PROVE  UNCHANGED <<rounds, count>>
  BY <1>4 DEF Create, Tick, Poll, PollUnknown, PollLost, Deliver
<1>5. Restart \/ UNCHANGED vars => UNCHANGED <<rounds, count>>
  BY DEF Restart, vars
<1> QED
  BY <1>2, <1>3, <1>4, <1>5 DEF Next

\* A round that is stored stays stored, and only its own job stores it.
LEMMA StoredGrows ==
    ASSUME IInv, [Next]_vars, NEW i \in Jobs, NEW c \in Conversations
    PROVE  /\ i \in Stored(c) => i \in Stored(c)'
           /\ i \in Stored(c)' \ Stored(c) => c = ConvOf[i] /\ thread[i] = "locked" /\ Store(i)
<1> USE DEF jobVars, dbVars, clientVars, histVars
<1>1. ASSUME NEW j \in Jobs, thread[j] = "locked", Store(j)
      PROVE  /\ i \in Stored(c) => i \in Stored(c)'
             /\ i \in Stored(c)' \ Stored(c) => c = ConvOf[i] /\ thread[i] = "locked" /\ Store(i)
  <2>1. /\ rounds'[c] = IF c = ConvOf[j] THEN rounds[c] \cup {<<number[j], j>>} ELSE rounds[c]
    BY <1>1, JobsAssumption DEF Store, IInv, TypeOK
  <2>2. Stored(c)' = IF c = ConvOf[j] THEN Stored(c) \cup {j} ELSE Stored(c)
    <3>1. CASE c = ConvOf[j]
      <4>1. {r[2] : r \in rounds[c] \cup {<<number[j], j>>}} = {r[2] : r \in rounds[c]} \cup {<<number[j], j>>[2]}
        OBVIOUS
      <4> QED
        BY <2>1, <3>1, <4>1 DEF Stored
    <3>2. CASE c # ConvOf[j]
      BY <2>1, <3>2 DEF Stored
    <3> QED
      BY <3>1, <3>2
  <2> QED
    BY <1>1, <2>2
<1>2. ASSUME UNCHANGED rounds PROVE Stored(c)' = Stored(c)
  BY <1>2 DEF Stored
<1>3. ASSUME NEW j \in Jobs, Work(j) PROVE UNCHANGED rounds \/ (thread[j] = "locked" /\ Store(j))
  BY <1>3, WorkMoves DEF Lock, Commit, CommitThenThrow
<1>4. ASSUME NEW j \in Jobs,
             Create(j) \/ Tick(j) \/ Poll(j) \/ PollUnknown(j) \/ PollLost(j) \/ Deliver(j)
      PROVE  UNCHANGED rounds
  BY <1>4 DEF Create, Tick, Poll, PollUnknown, PollLost, Deliver
<1>5. Restart \/ UNCHANGED vars => UNCHANGED rounds
  BY DEF Restart, vars
<1> QED
  BY <1>1, <1>2, <1>3, <1>4, <1>5 DEF Next

LEMMA StoredStep == IInv /\ [Next]_vars => StoredInv'
<1> SUFFICES ASSUME IInv, [Next]_vars PROVE StoredInv'
  OBVIOUS
<1>0. /\ \A i \in Jobs, c \in Conversations :
             /\ i \in Stored(c) => i \in Stored(c)'
             /\ i \in Stored(c)' \ Stored(c) => c = ConvOf[i] /\ thread[i] = "locked"
      /\ \A j \in Jobs : ConvOf[j] \in Conversations
  BY StoredGrows, JobsAssumption
<1> USE DEF jobVars, dbVars, clientVars, histVars, Goto, Break
<1>1. ASSUME UNCHANGED <<thread, rounds, broken>> PROVE StoredInv'
  BY <1>1 DEF IInv, StoredInv, Stored
<1>2. ASSUME NEW j \in Jobs, thread[j] \in Before, UNCHANGED <<rounds, broken>>,
             \E where \in Before : thread' = [thread EXCEPT ![j] = where]
      PROVE  StoredInv'
  BY <1>2 DEF IInv, TypeOK, StoredInv, Stored, Before
<1>3. ASSUME NEW j \in Jobs, UNCHANGED rounds,
             thread' = [thread EXCEPT ![j] = "failing"], broken' = broken \cup {j}
      PROVE  StoredInv'
  BY <1>3 DEF IInv, TypeOK, StoredInv, Stored, Before
<1>4. ASSUME NEW j \in Jobs, UNCHANGED <<rounds, broken>>,
             \/ thread[j] \in {"stored", "failing"} /\ thread' = [thread EXCEPT ![j] = "finishing"]
             \/ thread[j] = "finishing" /\ thread' = [thread EXCEPT ![j] = "ended"]
      PROVE  StoredInv'
  <2>1. \A c \in Conversations : Stored(c)' = Stored(c)
    BY <1>4 DEF Stored
  <2>2. thread'[j] \in {"finishing", "ended"} /\ \A i \in Jobs \ {j} : thread'[i] = thread[i]
    BY <1>4 DEF IInv, TypeOK
  <2>3. thread[j] \notin Before /\ (j \notin broken => j \in Stored(ConvOf[j]))
    BY <1>4 DEF IInv, StoredInv, Before
  <2> QED
    BY <1>0, <1>4, <2>1, <2>2, <2>3 DEF IInv, StoredInv, Before
<1>5. ASSUME NEW j \in Jobs, thread[j] = "locked", Store(j),
             \/ thread' = [thread EXCEPT ![j] = "stored"] /\ UNCHANGED broken
             \/ thread' = [thread EXCEPT ![j] = "failing"] /\ broken' = broken \cup {j}
      PROVE  StoredInv'
  <2>1. j \in Stored(ConvOf[j])'
    <3>1. <<number[j], j>> \in rounds'[ConvOf[j]]
      BY <1>0, <1>5 DEF Store, IInv, TypeOK
    <3> QED
      BY <3>1 DEF Stored
  <2>2. \A i \in Jobs \ {j} : thread'[i] = thread[i] /\ (i \in broken <=> i \in broken')
    BY <1>5 DEF IInv, TypeOK
  <2>3. \A i \in Jobs \ {j}, c \in Conversations : i \in Stored(c)' => i \in Stored(c)
    <3> SUFFICES ASSUME NEW i \in Jobs \ {j}, NEW c \in Conversations, i \in Stored(c)'
                 PROVE  i \in Stored(c)
      OBVIOUS
    <3>1. rounds'[c] = rounds[c] \/ rounds'[c] = rounds[c] \cup {<<number[j], j>>}
      BY <1>5 DEF Store, IInv, TypeOK
    <3> QED
      BY <3>1 DEF Stored
  <2>4. \A i \in Jobs \ {j} :
          /\ \A c \in Conversations : i \in Stored(c)' => c = ConvOf[i] /\ thread'[i] \notin Before
          /\ thread'[i] = "stored" => i \in Stored(ConvOf[i])'
          /\ i \notin broken' =>
                 /\ thread'[i] \notin {"failing", "dead"}
                 /\ thread'[i] \in {"finishing", "ended"} => i \in Stored(ConvOf[i])'
    BY <1>0, <2>2, <2>3 DEF IInv, StoredInv
  <2>5. thread'[j] \in {"stored", "failing"} /\ (thread'[j] = "failing" => j \in broken')
    BY <1>5 DEF IInv, TypeOK
  <2>6. \A c \in Conversations : j \in Stored(c)' => c = ConvOf[j]
    BY <1>0 DEF IInv, StoredInv
  <2> QED
    BY <2>1, <2>4, <2>5, <2>6 DEF StoredInv, Before
<1>6. ASSUME NEW j \in Jobs, Moves(j), UNCHANGED dbVars PROVE StoredInv'
  <2>1. CASE Validate(j)
    BY <1>2, <2>1 DEF Validate, Before
  <2>2. CASE AgentDone(j)
    BY <1>2, <2>2 DEF AgentDone, Before
  <2>3. CASE Relay(j)
    BY <1>1, <2>3 DEF Relay
  <2>4. CASE Refuse(j) \/ AgentError(j) \/ AgentCut(j) \/ SaveFails(j)
    BY <1>3, <2>4 DEF Refuse, AgentError, AgentCut, SaveFails
  <2>5. CASE AppendDone(j) \/ AppendError(j) \/ Finish(j)
    BY <1>4, <2>5 DEF AppendDone, AppendError, Finish
  <2> QED
    BY <1>6, <2>1, <2>2, <2>3, <2>4, <2>5 DEF Moves
<1>7. ASSUME NEW j \in Jobs, Work(j) PROVE StoredInv'
  <2>1. CASE Lock(j)
    BY <1>2, <2>1 DEF Lock, Before
  <2>2. CASE Commit(j)
    BY <1>5, <2>2, NumberIsFree DEF Commit, IInv
  <2>3. CASE CommitThenThrow(j)
    BY <1>5, <2>3 DEF CommitThenThrow
  <2> QED
    BY <1>6, <1>7, <2>1, <2>2, <2>3, WorkMoves
<1>8. ASSUME NEW j \in Jobs, Create(j) PROVE StoredInv'
  BY <1>2, <1>8 DEF Create, Before
<1>9. ASSUME NEW j \in Jobs, Tick(j) \/ Poll(j) \/ PollUnknown(j) \/ PollLost(j) \/ Deliver(j)
      PROVE  UNCHANGED <<thread, rounds, broken>>
  BY <1>9 DEF Tick, Poll, PollUnknown, PollLost, Deliver
<1>10. CASE Restart
  <2>1. /\ thread' = [j \in Jobs |-> IF Running(j) THEN "dead" ELSE thread[j]]
        /\ broken' = broken \cup {j \in Jobs : Running(j)}
        /\ \A c \in Conversations : Stored(c)' = Stored(c)
    BY <1>10 DEF Restart, Stored
  <2>2. \A j \in Jobs : Running(j) \/ thread[j] \in {"none", "ended", "dead"}
    BY DEF Running, Ends
  <2> QED
    BY <1>0, <2>1, <2>2 DEF IInv, StoredInv, Before
<1>11. CASE UNCHANGED vars
  BY <1>1, <1>11 DEF vars
<1> QED
  BY <1>1, <1>7, <1>8, <1>9, <1>10, <1>11 DEF Next

-----------------------------------------------------------------------------
(* Logs, pages and histories.                                              *)

\* How a step changes a log: by at most one event at its end, a done event
\* only when the round is stored.
Extends(s, t) ==
    /\ Len(s) <= Len(t)
    /\ \A i \in 1..Len(s) : t[i] = s[i]
    /\ ToSet(s) \subseteq ToSet(t)

LEMMA LogGrows ==
    ASSUME IInv, [Next]_vars, NEW i \in Jobs
    PROVE  /\ Extends(log[i], log'[i])
           /\ "done" \in ToSet(log'[i]) \ ToSet(log[i]) => thread[i] = "stored"
<1>0. TypeOK /\ \A s \in Seq(Events) : Len(s) \in Nat
  BY DEF IInv
<1> USE DEF jobVars, dbVars, clientVars, histVars
<1>1. ASSUME UNCHANGED log PROVE Extends(log[i], log'[i]) /\ ToSet(log'[i]) = ToSet(log[i])
  BY <1>0, <1>1 DEF Extends, TypeOK
<1>2. ASSUME NEW j \in Jobs, NEW e \in Events, Emit(j, e)
      PROVE  /\ Extends(log[i], log'[i])
             /\ (e = "done" /\ j = i) \/ ("done" \in ToSet(log'[i]) => "done" \in ToSet(log[i]))
  <2>1. log[i] \in Seq(Events) /\ Len(log[i]) \in Nat
    BY <1>0 DEF TypeOK
  <2>2. CASE i = j
    <3>1. /\ Len(log'[j]) = Len(log[j]) + 1 /\ Len(log[j]) \in Nat
          /\ \A k \in 1..Len(log[j]) : log'[j][k] = log[j][k]
          /\ ToSet(log'[j]) = ToSet(log[j]) \cup {e}
      BY <1>0, <1>2, <2>1, <2>2, Emitted
    <3>2. Len(log[j]) <= Len(log'[j])
      BY <3>1
    <3>3. Extends(log[j], log'[j])
      BY <3>1, <3>2 DEF Extends
    <3> QED
      BY <2>2, <3>1, <3>3
  <2>3. CASE i # j
    <3>1. log'[i] = log[i]
      BY <1>0, <1>2, <2>3, Emitted
    <3> QED
      BY <2>1, <3>1 DEF Extends
  <2> QED
    BY <2>2, <2>3
<1>3. ASSUME NEW j \in Jobs, Next, ~ UNCHANGED log
      PROVE  \E d \in Jobs, e \in Events : Emit(d, e) /\ (e = "done" => thread[d] = "stored")
  <2>1. ASSUME NEW d \in Jobs, Work(d), ~ UNCHANGED log
        PROVE  \E e \in Events : Emit(d, e) /\ (e = "done" => thread[d] = "stored")
    BY <2>1 DEF Work, Validate, Refuse, Relay, AgentDone, AgentError, AgentCut, Lock, Commit,
                SaveFails, CommitThenThrow, AppendDone, AppendError, Finish, Events, Terminal
  <2>2. ASSUME NEW d \in Jobs, Create(d) \/ Poll(d), ~ UNCHANGED log
        PROVE  \E e \in Events : Emit(d, e) /\ (e = "done" => thread[d] = "stored")
    BY <2>2 DEF Create, Poll, Events, Terminal
  <2>3. ASSUME NEW d \in Jobs, Tick(d) \/ PollUnknown(d) \/ PollLost(d) \/ Deliver(d)
        PROVE  UNCHANGED log
    BY <2>3 DEF Tick, PollUnknown, PollLost, Deliver
  <2>4. Restart => UNCHANGED log
    BY DEF Restart
  <2> QED
    BY <1>3, <2>1, <2>2, <2>3, <2>4 DEF Next
<1>4. UNCHANGED vars => UNCHANGED log
  BY DEF vars
<1> QED
  BY <1>1, <1>2, <1>3, <1>4

LEMMA LogStep == IInv /\ [Next]_vars => LogInv'
<1> SUFFICES ASSUME IInv, [Next]_vars, NEW i \in Jobs
             PROVE  /\ "done" \in ToSet(log'[i]) => i \in Stored(ConvOf[i])'
                    /\ thread'[i] \in {"finishing", "ended"} => ToSet(log'[i]) \cap Terminal # {}
                    /\ done'[i] => ToSet(log'[i]) \cap Terminal # {}
  BY DEF LogInv
<1>0. ConvOf[i] \in Conversations /\ TypeOK
  BY JobsAssumption DEF IInv
<1>1. "done" \in ToSet(log'[i]) => i \in Stored(ConvOf[i])'
  BY <1>0, LogGrows, StoredGrows DEF IInv, LogInv, StoredInv
<1>2. ToSet(log[i]) \subseteq ToSet(log'[i])
  BY LogGrows DEF Extends
<1> USE DEF jobVars, dbVars, clientVars, histVars, Goto
<1>3. ASSUME NEW j \in Jobs, NEW e \in Terminal, Emit(j, e)
      PROVE  ToSet(log'[j]) \cap Terminal # {}
  <2>1. e \in Events
    BY <1>3 DEF Events
  <2>2. ToSet(log'[j]) = ToSet(log[j]) \cup {e}
    BY <1>0, <1>3, <2>1, Emitted
  <2> QED
    BY <1>3, <2>2
<1>4. ASSUME thread'[i] \in {"finishing", "ended"}, thread'[i] # thread[i]
      PROVE  ToSet(log'[i]) \cap Terminal # {}
  <2>1. ASSUME NEW j \in Jobs, Work(j)
        PROVE  i = j /\ (AppendDone(i) \/ AppendError(i) \/ Finish(i))
    BY <1>0, <1>4, <2>1 DEF Work, Validate, Refuse, Relay, AgentDone, AgentError, AgentCut, Lock,
       Commit, SaveFails, CommitThenThrow, AppendDone, AppendError, Finish, TypeOK
  <2>2. ASSUME NEW j \in Jobs,
               Create(j) \/ Tick(j) \/ Poll(j) \/ PollUnknown(j) \/ PollLost(j) \/ Deliver(j)
        PROVE  FALSE
    BY <1>0, <1>4, <2>2 DEF Create, Tick, Poll, PollUnknown, PollLost, Deliver, TypeOK
  <2>3. Restart \/ UNCHANGED vars => FALSE
    BY <1>4 DEF Restart, vars
  <2>4. AppendDone(i) \/ AppendError(i) \/ Finish(i)
    BY <2>1, <2>2, <2>3 DEF Next
  <2>5. CASE Finish(i)
    BY <1>2, <2>5 DEF Finish, IInv, LogInv
  <2> QED
    BY <1>3, <2>4, <2>5 DEF AppendDone, AppendError, Terminal
<1>5. ASSUME done'[i], ~done[i]
      PROVE  ToSet(log'[i]) \cap Terminal # {}
  <2>1. ASSUME NEW j \in Jobs, Work(j) PROVE Finish(i)
    BY <1>0, <1>5, <2>1 DEF Work, Validate, Refuse, Relay, AgentDone, AgentError, AgentCut, Lock,
       Commit, SaveFails, CommitThenThrow, AppendDone, AppendError, Finish, TypeOK
  <2>2. ASSUME NEW j \in Jobs, Poll(j) PROVE Emit(i, "error")
    BY <1>0, <1>5, <2>2 DEF Poll, TypeOK
  <2>3. ASSUME NEW j \in Jobs, Create(j) \/ Tick(j) \/ PollUnknown(j) \/ PollLost(j) \/ Deliver(j)
        PROVE  FALSE
    BY <1>0, <1>5, <2>3 DEF Create, Tick, PollUnknown, PollLost, Deliver, TypeOK
  <2>4. Restart \/ UNCHANGED vars => FALSE
    BY <1>5 DEF Restart, vars
  <2>5. Finish(i) \/ Emit(i, "error")
    BY <2>1, <2>2, <2>3, <2>4 DEF Next
  <2>6. CASE Finish(i)
    BY <1>2, <2>6 DEF Finish, IInv, LogInv
  <2> QED
    BY <1>3, <2>5, <2>6 DEF Terminal
<1>6. ToSet(log[i]) \cap Terminal # {} => ToSet(log'[i]) \cap Terminal # {}
  BY <1>2
<1> QED
  BY <1>1, <1>4, <1>5, <1>6 DEF IInv, LogInv

\* A page that goes on polling has handled progress only, so the end of the job is
\* still ahead of it and reaches it together with the done flag.
LEMMA PageStep == IInv /\ [Next]_vars => PageInv'
<1> SUFFICES ASSUME IInv, [Next]_vars, NEW i \in Jobs
             PROVE  /\ last'[i] = Len(shown'[i]) /\ last'[i] <= Len(log'[i])
                    /\ \A k \in 1..last'[i] : shown'[i][k] = log'[i][k]
                    /\ client'[i] \in {"waiting", "polling"} =>
                           \A k \in 1..last'[i] : log'[i][k] = "progress"
                    /\ client'[i] = "done" => "done" \in ToSet(log'[i])
                    /\ thread'[i] = "none" => client'[i] = "none" /\ last'[i] = 0
                    /\ client'[i] # "silent"
  BY DEF PageInv
<1>0. /\ TypeOK /\ last[i] \in Nat /\ Len(log[i]) \in Nat /\ Len(log'[i]) \in Nat
      /\ last[i] = Len(shown[i]) /\ last[i] <= Len(log[i])
      /\ \A k \in 1..last[i] : shown[i][k] = log[i][k]
      /\ client[i] \in {"waiting", "polling"} => \A k \in 1..last[i] : log[i][k] = "progress"
      /\ client[i] = "done" => "done" \in ToSet(log[i])
      /\ thread[i] = "none" => client[i] = "none" /\ last[i] = 0
      /\ client[i] # "silent"
  <2>1. TypeOK' /\ TypeOK /\ PageInv
    BY TypeStep DEF IInv
  <2>2. last[i] \in Nat /\ log[i] \in Seq(Events) /\ log'[i] \in Seq(Events)
    BY <2>1 DEF TypeOK
  <2> QED
    BY <2>1, <2>2 DEF PageInv
<1>1. /\ Len(log[i]) <= Len(log'[i])
      /\ \A k \in 1..Len(log[i]) : log'[i][k] = log[i][k]
      /\ ToSet(log[i]) \subseteq ToSet(log'[i])
  BY LogGrows DEF Extends
<1>2. ASSUME last'[i] = last[i], shown'[i] = shown[i],
             client'[i] \in {client[i], "error"} \/ (client[i] = "waiting" /\ client'[i] = "polling"),
             thread'[i] = "none" => thread[i] = "none" /\ client'[i] = client[i]
      PROVE  /\ last'[i] = Len(shown'[i]) /\ last'[i] <= Len(log'[i])
             /\ \A k \in 1..last'[i] : shown'[i][k] = log'[i][k]
             /\ client'[i] \in {"waiting", "polling"} =>
                    \A k \in 1..last'[i] : log'[i][k] = "progress"
             /\ client'[i] = "done" => "done" \in ToSet(log'[i])
             /\ thread'[i] = "none" => client'[i] = "none" /\ last'[i] = 0
             /\ client'[i] # "silent"
  BY <1>0, <1>1, <1>2
<1> USE DEF jobVars, dbVars, clientVars, histVars, Goto
<1>3. ASSUME NEW j \in Jobs, Work(j) \/ Tick(j)
      PROVE  UNCHANGED clientVars /\ (thread'[i] = "none" => thread[i] = "none")
  BY <1>0, <1>3 DEF Work, Validate, Refuse, Relay, AgentDone, AgentError, AgentCut, Lock,
     Commit, SaveFails, CommitThenThrow, AppendDone, AppendError, Finish, Tick, TypeOK
<1>4. ASSUME NEW j \in Jobs, Poll(j) \/ PollUnknown(j) \/ PollLost(j)
      PROVE  /\ UNCHANGED <<last, shown, thread>>
             /\ client'[i] \in {client[i], "error"} \/ (client[i] = "waiting" /\ client'[i] = "polling")
             /\ thread[i] = "none" => client'[i] = client[i]
  BY <1>0, <1>4 DEF Poll, PollUnknown, PollLost, TypeOK
<1>5. ASSUME Restart
      PROVE  /\ UNCHANGED <<last, shown>> /\ client'[i] \in {client[i], "error"}
             /\ thread'[i] = "none" => thread[i] = "none" /\ client'[i] = client[i]
  BY <1>0, <1>5 DEF Restart, TypeOK
<1>6. ASSUME NEW j \in Jobs, Create(j)
      PROVE  /\ last'[i] = Len(shown'[i]) /\ last'[i] <= Len(log'[i])
             /\ \A k \in 1..last'[i] : shown'[i][k] = log'[i][k]
             /\ client'[i] \in {"waiting", "polling"} =>
                    \A k \in 1..last'[i] : log'[i][k] = "progress"
             /\ client'[i] = "done" => "done" \in ToSet(log'[i])
             /\ thread'[i] = "none" => client'[i] = "none" /\ last'[i] = 0
             /\ client'[i] # "silent"
  <2>1. CASE i # j
    <3>1. UNCHANGED <<last, shown>> /\ client'[i] = client[i] /\ thread'[i] = thread[i]
      BY <1>0, <1>6, <2>1 DEF Create, TypeOK
    <3> QED
      BY <1>2, <3>1
  <2>2. CASE i = j
    <3>1. /\ UNCHANGED <<last, shown>> /\ client'[i] \in {"waiting", "none"}
          /\ thread[i] = "none" /\ thread'[i] = "validating"
      BY <1>0, <1>6, <2>2 DEF Create, TypeOK
    <3> QED
      BY <1>0, <1>1, <3>1
  <2> QED
    BY <2>1, <2>2
<1>7. ASSUME NEW j \in Jobs, Deliver(j)
      PROVE  /\ last'[i] = Len(shown'[i]) /\ last'[i] <= Len(log'[i])
             /\ \A k \in 1..last'[i] : shown'[i][k] = log'[i][k]
             /\ client'[i] \in {"waiting", "polling"} =>
                    \A k \in 1..last'[i] : log'[i][k] = "progress"
             /\ client'[i] = "done" => "done" \in ToSet(log'[i])
             /\ thread'[i] = "none" => client'[i] = "none" /\ last'[i] = 0
             /\ client'[i] # "silent"
  <2>1. CASE i # j
    <3>1. /\ last'[i] = last[i] /\ shown'[i] = shown[i] /\ client'[i] = client[i]
          /\ thread'[i] = thread[i]
      BY <1>0, <1>7, <2>1, Delivered DEF Deliver, TypeOK, IInv
    <3> QED
      BY <1>2, <3>1
  <2>2. CASE i = j
    <3> DEFINE events == Fresh(i)
    <3>1. /\ client[i] = "polling" /\ thread[i] # "none" /\ thread'[i] = thread[i]
          /\ log'[i] = log[i] /\ \A k \in 1..last[i] : log[i][k] = "progress"
      BY <1>0, <1>7, <2>2 DEF Deliver
    <3>2. client'[i] = CASE "error" \in ToSet(events) -> "error"
                         [] "error" \notin ToSet(events) /\ "done" \in ToSet(events) -> "done"
                         [] ToSet(events) \cap Terminal = {} /\ done[i] -> "silent"
                         [] OTHER -> "waiting"
      BY <1>0, <1>7, <2>2 DEF Deliver, TypeOK
    <3>3. /\ last'[i] = Len(shown'[i]) /\ last'[i] <= Len(log[i]) /\ last'[i] \in Nat
          /\ \A k \in 1..last'[i] : shown'[i][k] = log[i][k]
          /\ ToSet(events) \subseteq ToSet(log[i])
          /\ \A k \in 1..Len(log[i]) : k <= last[i] \/ log[i][k] \in ToSet(events)
          /\ "error" \notin ToSet(events) => last'[i] = Len(log[i])
      BY <1>7, <2>2, Delivered DEF IInv
    <3>4. log[i] \in Seq(Events)
      BY <1>0 DEF TypeOK
    <3>5. ToSet(events) \cap Terminal = {} => \A k \in 1..Len(log[i]) : log[i][k] = "progress"
      <4> SUFFICES ASSUME ToSet(events) \cap Terminal = {}, NEW k \in 1..Len(log[i])
                   PROVE  log[i][k] = "progress"
        OBVIOUS
      <4>1. log[i][k] \in Events /\ (k \in 1..last[i] \/ log[i][k] \in ToSet(events))
        BY <1>0, <3>3, <3>4
      <4> QED
        BY <3>1, <4>1 DEF Events
    <3>6. done[i] => ToSet(events) \cap Terminal # {}
      <4> SUFFICES ASSUME done[i], ToSet(events) \cap Terminal = {} PROVE FALSE
        OBVIOUS
      <4>1. PICK k \in DOMAIN log[i] : log[i][k] \in Terminal
        BY DEF IInv, LogInv, ToSet
      <4> QED
        BY <3>4, <3>5, <4>1 DEF Terminal
    <3> HIDE DEF events
    <3>7. client'[i] # "silent" /\ client'[i] # "polling"
      BY <3>2, <3>6
    <3>8. client'[i] = "waiting" => ToSet(events) \cap Terminal = {}
      BY <3>2 DEF Terminal
    <3>9. client'[i] = "done" => "done" \in ToSet(log[i])
      BY <3>2, <3>3
    <3>10. client'[i] \in {"waiting", "polling"} => \A k \in 1..last'[i] : log'[i][k] = "progress"
      BY <1>0, <3>1, <3>3, <3>5, <3>7, <3>8
    <3> QED
      BY <3>1, <3>3, <3>7, <3>9, <3>10
  <2> QED
    BY <2>1, <2>2
<1>8. CASE UNCHANGED vars
  BY <1>2, <1>8 DEF vars
<1>9. ASSUME NEW j \in Jobs, Work(j) \/ Tick(j) \/ Poll(j) \/ PollUnknown(j) \/ PollLost(j)
      PROVE  /\ last'[i] = Len(shown'[i]) /\ last'[i] <= Len(log'[i])
             /\ \A k \in 1..last'[i] : shown'[i][k] = log'[i][k]
             /\ client'[i] \in {"waiting", "polling"} =>
                    \A k \in 1..last'[i] : log'[i][k] = "progress"
             /\ client'[i] = "done" => "done" \in ToSet(log'[i])
             /\ thread'[i] = "none" => client'[i] = "none" /\ last'[i] = 0
             /\ client'[i] # "silent"
  BY <1>2, <1>3, <1>4, <1>9
<1>10. CASE Restart
  BY <1>2, <1>5, <1>10
<1> QED
  BY <1>6, <1>7, <1>8, <1>9, <1>10 DEF Next
-----------------------------------------------------------------------------

\* No round is ever removed.
LEMMA RoundsGrow ==
    ASSUME IInv, [Next]_vars, NEW c \in Conversations
    PROVE  rounds[c] \subseteq rounds'[c]
<1> USE DEF jobVars, dbVars, clientVars, histVars
<1>1. ASSUME NEW j \in Jobs, Store(j) PROVE rounds[c] \subseteq rounds'[c]
  BY <1>1 DEF Store, IInv, TypeOK
<1>2. ASSUME NEW j \in Jobs, Work(j) PROVE UNCHANGED rounds \/ Store(j)
  <2>1. CASE Moves(j) /\ UNCHANGED dbVars
    BY <2>1
  <2> QED
    BY <1>2, <2>1, WorkMoves DEF Lock, Commit, CommitThenThrow
<1>3. ASSUME NEW j \in Jobs,
             Create(j) \/ Tick(j) \/ Poll(j) \/ PollUnknown(j) \/ PollLost(j) \/ Deliver(j)
      PROVE  UNCHANGED rounds
  BY <1>3 DEF Create, Tick, Poll, PollUnknown, PollLost, Deliver
<1>4. Restart \/ UNCHANGED vars => UNCHANGED rounds
  BY DEF Restart, vars
<1> QED
  BY <1>1, <1>2, <1>3, <1>4 DEF Next

\* The rounds after the n-th are as many as there are numbers after n.
LEMMA LaterRounds ==
    ASSUME TypeOK, RoundsAreNumbered, NEW c \in Conversations, NEW n \in 0..count[c]
    PROVE  Cardinality({q \in rounds[c] : q[1] > n}) = count[c] - n
<1> DEFINE later == {q \in rounds[c] : q[1] > n}
           numbers == (n + 1)..count[c]
           f == [q \in later |-> q[1]]
<1>1. /\ count[c] \in Nat /\ rounds[c] \subseteq Nat \X (Jobs \cup {Earlier})
      /\ {r[1] : r \in rounds[c]} = 1..count[c]
      /\ \A q, r \in rounds[c] : q[1] = r[1] => q = r
  BY DEF TypeOK, RoundsAreNumbered
<1>2. \A q \in later : q[1] \in numbers
  BY <1>1
<1>3. \A m \in numbers : \E q \in later : q[1] = m
  <2> SUFFICES ASSUME NEW m \in numbers PROVE \E q \in later : q[1] = m
    OBVIOUS
  <2>1. m \in 1..count[c] /\ m > n
    BY <1>1
  <2>2. PICK q \in rounds[c] : q[1] = m
    BY <1>1, <2>1
  <2> QED
    BY <2>1, <2>2
<1>4. f \in Bijection(later, numbers)
  BY <1>1, <1>2, <1>3 DEF Bijection, Injection, Surjection, IsInjective
<1>5. ExistsBijection(numbers, later)
  BY <1>4, Fun_ExistsBijSymmetric DEF ExistsBijection
<1>6. IsFiniteSet(numbers) /\ Cardinality(numbers) = count[c] - n
  <2>1. count[c] \in Int /\ n + 1 \in Int /\ n <= count[c]
    BY <1>1
  <2>2. /\ IsFiniteSet((n + 1)..count[c])
        /\ Cardinality((n + 1)..count[c]) =
               IF n + 1 > count[c] THEN 0 ELSE count[c] - (n + 1) + 1
    BY <2>1, FS_Interval
  <2>3. (IF n + 1 > count[c] THEN 0 ELSE count[c] - (n + 1) + 1) = count[c] - n
    BY <1>1, <2>1
  <2> QED
    BY <2>2, <2>3
<1> HIDE DEF later, numbers
<1> QED
  BY <1>5, <1>6, FS_Bijection DEF later

\* A stored round is one of the last, or the last ones are full and all later.
LEMMA RecentOrOlder ==
    ASSUME TypeOK, RoundsAreNumbered, NEW c \in Conversations, NEW r \in rounds[c]
    PROVE  r \in Recent(c) \/ OlderThan(r, Recent(c))
<1> DEFINE n == count[c]
           k == HistoryRounds
<1>1. /\ n \in Nat /\ k \in Nat \ {0} /\ rounds[c] \subseteq Nat \X (Jobs \cup {Earlier})
      /\ \A q \in rounds[c] : q[1] \in 1..n
  BY JobsAssumption DEF TypeOK, RoundsAreNumbered
<1>2. \A q \in rounds[c] : Cardinality({p \in rounds[c] : p[1] > q[1]}) = n - q[1]
  BY <1>1, LaterRounds
<1>3. Recent(c) = {q \in rounds[c] : n - q[1] < k}
  BY <1>2 DEF Recent
<1>4. CASE n - r[1] < k
  BY <1>3, <1>4
<1>5. CASE ~(n - r[1] < k)
  <2>1. n - k \in 0..n /\ r[1] <= n - k
    BY <1>1, <1>5
  <2>2. Recent(c) = {q \in rounds[c] : q[1] > n - k}
    BY <1>1, <1>3
  <2>3. Cardinality(Recent(c)) = k
    <3>1. Cardinality({q \in rounds[c] : q[1] > n - k}) = n - (n - k)
      BY <2>1, LaterRounds
    <3> QED
      BY <1>1, <2>2, <3>1
  <2>4. \A q \in Recent(c) : r[1] < q[1]
    BY <1>1, <2>1, <2>2
  <2> QED
    BY <2>3, <2>4 DEF OlderThan
<1> QED
  BY <1>4, <1>5

\* What a page has seen done stays stored until the thread reads the history.
LEMMA HistoryStep == IInv /\ [Next]_vars => HistoryInv'
<1> SUFFICES ASSUME IInv, [Next]_vars, NEW i \in Jobs, thread'[i] = "validating"
             PROVE  asked'[i] \subseteq Stored(ConvOf[i])'
  BY DEF HistoryInv
<1>0. TypeOK /\ ConvOf[i] \in Conversations
  BY JobsAssumption DEF IInv
<1>1. Stored(ConvOf[i]) \subseteq Stored(ConvOf[i])'
  BY <1>0, RoundsGrow DEF Stored
<1>2. ASSUME thread[i] = "validating", asked'[i] = asked[i]
      PROVE  asked'[i] \subseteq Stored(ConvOf[i])'
  BY <1>0, <1>1, <1>2 DEF IInv, HistoryInv, TypeOK
<1> USE DEF jobVars, dbVars, clientVars, histVars, Goto
<1>3. ASSUME NEW j \in Jobs, Work(j)
      PROVE  thread[i] = "validating" /\ asked'[i] = asked[i]
  BY <1>0, <1>3 DEF Work, Validate, Refuse, Relay, AgentDone, AgentError, AgentCut, Lock,
     Commit, SaveFails, CommitThenThrow, AppendDone, AppendError, Finish, TypeOK
<1>4. ASSUME NEW j \in Jobs, Tick(j) \/ Poll(j) \/ PollUnknown(j) \/ PollLost(j) \/ Deliver(j)
      PROVE  UNCHANGED <<thread, asked>>
  BY <1>4 DEF Tick, Poll, PollUnknown, PollLost, Deliver
<1>5. Restart => thread[i] = "validating" /\ asked'[i] = asked[i]
  BY <1>0 DEF Restart, TypeOK
<1>6. ASSUME NEW j \in Jobs, Create(j) PROVE asked'[i] \subseteq Stored(ConvOf[i])'
  <2>1. CASE i # j
    BY <1>0, <1>2, <1>6, <2>1 DEF Create, TypeOK
  <2>2. CASE i = j
    <3>1. asked'[i] = {k \in Siblings(i) : client[k] = "done"} \cup ({Earlier} \cap Stored(ConvOf[i]))
      BY <1>0, <1>6, <2>2 DEF Create, TypeOK
    <3>2. \A k \in Siblings(i) : k \in Jobs /\ ConvOf[k] = ConvOf[i]
      BY DEF Siblings
    <3>3. \A k \in Jobs : client[k] = "done" => k \in Stored(ConvOf[k])
      BY DEF IInv, PageInv, LogInv
    <3> QED
      BY <1>1, <3>1, <3>2, <3>3
  <2> QED
    BY <2>1, <2>2
<1> QED
  BY <1>2, <1>3, <1>4, <1>5, <1>6 DEF Next, vars

\* What the question of a job builds on.
Built(j) ==
    \A i \in asked[j] : \E r \in rounds[ConvOf[j]] :
        r[2] = i /\ (r \in history[j] \/ OlderThan(r, history[j]))

LEMMA SeenRoundsStep == IInv /\ [Next]_vars => SeenRoundsAreKnown'
<1> DEFINE Asking == {"generating", "saving", "locked", "stored"}
<1> SUFFICES ASSUME IInv, [Next]_vars, NEW i \in Jobs, thread'[i] \in Asking
             PROVE  Built(i)'
  BY DEF SeenRoundsAreKnown, Built
<1>0. TypeOK /\ ConvOf[i] \in Conversations /\ rounds[ConvOf[i]] \subseteq rounds'[ConvOf[i]]
  BY JobsAssumption, RoundsGrow DEF IInv
<1>1. ASSUME thread[i] \in Asking, asked'[i] = asked[i], history'[i] = history[i]
      PROVE  Built(i)'
  <2>1. Built(i)
    BY <1>1 DEF IInv, SeenRoundsAreKnown, Built
  <2> QED
    BY <1>0, <1>1, <2>1 DEF Built, OlderThan
<1> USE DEF jobVars, dbVars, clientVars, histVars, Goto
<1>2. ASSUME NEW j \in Jobs, Validate(j) PROVE Built(i)'
  <2>1. CASE i # j
    BY <1>0, <1>1, <1>2, <2>1 DEF Validate, TypeOK
  <2>2. CASE i = j
    <3>1. /\ asked'[i] = asked[i] /\ history'[i] = Recent(ConvOf[i]) /\ thread[i] = "validating"
          /\ rounds' = rounds
      BY <1>0, <1>2, <2>2 DEF Validate, TypeOK
    <3>2. asked[i] \subseteq Stored(ConvOf[i])
      BY <3>1 DEF IInv, HistoryInv
    <3>3. \A r \in rounds[ConvOf[i]] : r \in history'[i] \/ OlderThan(r, history'[i])
      BY <1>0, <3>1, RecentOrOlder DEF IInv
    <3> QED
      BY <3>1, <3>2, <3>3 DEF Built, Stored, OlderThan
  <2> QED
    BY <2>1, <2>2
<1>3. ASSUME NEW j \in Jobs, Work(j), ~Validate(j)
      PROVE  thread[i] \in Asking /\ asked'[i] = asked[i] /\ history'[i] = history[i]
  BY <1>0, <1>3 DEF Work, Refuse, Relay, AgentDone, AgentError, AgentCut, Lock,
     Commit, SaveFails, CommitThenThrow, AppendDone, AppendError, Finish, TypeOK
<1>4. ASSUME NEW j \in Jobs, Tick(j) \/ Poll(j) \/ PollUnknown(j) \/ PollLost(j) \/ Deliver(j)
      PROVE  UNCHANGED <<thread, asked, history>>
  BY <1>4 DEF Tick, Poll, PollUnknown, PollLost, Deliver
<1>5. Restart => thread[i] \in Asking /\ asked'[i] = asked[i] /\ history'[i] = history[i]
  BY <1>0 DEF Restart, TypeOK
<1>6. ASSUME NEW j \in Jobs, Create(j)
      PROVE  thread[i] \in Asking /\ asked'[i] = asked[i] /\ history'[i] = history[i]
  BY <1>0, <1>6 DEF Create, TypeOK
<1> QED
  BY <1>1, <1>2, <1>3, <1>4, <1>5, <1>6 DEF Next, vars

-----------------------------------------------------------------------------

LEMMA Stepwise == IInv /\ [Next]_vars => IInv'
  BY TypeStep, NumberStep, RoundsStep, StoredStep, LogStep, PageStep, HistoryStep, SeenRoundsStep
     DEF IInv

\* The whole invariant of the jobs, the tables and the pages.
THEOREM JobsInductive == Spec => []IInv
<1>1. Init => IInv
  BY Initially
<1>2. IInv /\ [Next]_vars => IInv'
  BY Stepwise
<1> QED
  BY <1>1, <1>2, PTL DEF Spec

\* Types are right in every state.
THEOREM JobsTypeCorrect == Spec => []TypeOK
<1>1. IInv => TypeOK
  BY DEF IInv
<1> QED
  BY <1>1, JobsInductive, PTL

\* The UNIQUE key never fires: the row lock alone numbers the rounds of a
\* conversation 1, 2, 3, ..., whoever answers at the same time.
THEOREM RoundsNumbered == Spec => []RoundsAreNumbered
<1>1. IInv => RoundsAreNumbered
  BY DEF IInv
<1> QED
  BY <1>1, JobsInductive, PTL

\* An answer is lost only to a failure of its own job.
THEOREM AnswersAreKept == Spec => []NoAnswerLost
<1>1. IInv => NoAnswerLost
  BY DEF IInv, StoredInv, NoAnswerLost, Ends
<1> QED
  BY <1>1, JobsInductive, PTL

\* The page handles the events of a log once each and in order.
THEOREM PagesReadInOrder == Spec => []ReadsInOrder
<1>1. IInv => ReadsInOrder
  <2> SUFFICES ASSUME IInv, NEW j \in Jobs
               PROVE  IsPrefix(shown[j], log[j]) /\ last[j] = Len(shown[j])
    BY DEF ReadsInOrder
  <2>1. /\ shown[j] \in Seq(Events) /\ log[j] \in Seq(Events)
        /\ last[j] = Len(shown[j]) /\ Len(shown[j]) <= Len(log[j])
        /\ \A k \in 1..Len(shown[j]) : shown[j][k] = log[j][k]
    BY DEF IInv, TypeOK, PageInv
  <2>2. shown[j] = SubSeq(log[j], 1, Len(shown[j]))
    BY <2>1
  <2> QED
    BY <2>1, <2>2 DEF IsPrefix
<1> QED
  BY <1>1, JobsInductive, PTL

\* No page stops on the done flag without an event that says how the job ended.
THEOREM PagesAreTold == Spec => []NeverSilent
<1>1. IInv => NeverSilent
  BY DEF IInv, PageInv, NeverSilent
<1> QED
  BY <1>1, JobsInductive, PTL

\* A question builds on every round the user had seen when asking it, down to the
\* oldest that the history has room for.
THEOREM HistoriesAreComplete == Spec => []SeenRoundsAreKnown
<1>1. IInv => SeenRoundsAreKnown
  BY DEF IInv
<1> QED
  BY <1>1, JobsInductive, PTL
=============================================================================
