----------------------------- MODULE WorkerPool -----------------------------
(***************************************************************************)
(* WorkerPool::judge of judge_dispatcher: the std::async threads of the    *)
(* dispatcher share one rotation index and one cooldown deadline per       *)
(* judge worker.  A call tries at most as many times as there are workers; *)
(* each try takes the first worker from the index on that is not cooling   *)
(* down, and a failed try puts its worker into cooldown.                   *)
(*                                                                         *)
(* Time is counted in ticks.  A deadline is kept as the ticks left; zero   *)
(* is `unavailable_until <= now`.                                          *)
(***************************************************************************)
EXTENDS Naturals, FiniteSets

CONSTANTS
    N,             \* number of workers
    Calls,         \* calls of WorkerPool::judge, each made by one thread
    Cooldown,      \* ticks a worker is avoided after a failure
    ReadTimeout    \* ticks a thread waits for an answer

ASSUME WorkerPoolAssumption ==
    /\ N \in Nat \ {0}
    /\ Cooldown \in Nat
    /\ ReadTimeout \in Nat

Workers == 0..(N - 1)

VARIABLES
    next,       \* next_index_
    cooling,    \* ticks until workers_[w].unavailable_until
    at,         \* where each call is
    attempt,    \* the loop counter of each call
    worker,     \* selected_index of each call
    waited,     \* ticks the request of this try has been unanswered
    tried,      \* history: the workers this call has sent its request to
    elapsed,    \* history: ticks since the call began
    turns       \* history: how often each worker was selected

poolVars == <<next, cooling, turns>>
callVars == <<at, attempt, worker, waited, tried, elapsed>>
vars == <<poolVars, callVars>>

Returned == {"answered", "failed", "unavailable"}

Init ==
    /\ next = 0
    /\ cooling = [w \in Workers |-> 0]
    /\ at = [c \in Calls |-> "idle"]
    /\ attempt = [c \in Calls |-> 0]
    /\ worker = [c \in Calls |-> 0]
    /\ waited = [c \in Calls |-> 0]
    /\ tried = [c \in Calls |-> {}]
    /\ elapsed = [c \in Calls |-> 0]
    /\ turns = [w \in Workers |-> 0]

-----------------------------------------------------------------------------

Available == {w \in Workers : cooling[w] = 0}

\* Position of w in the scan that starts at next_index_.
Offset(w) == IF w >= next THEN w - next ELSE w + N - next

Selected(w) ==
    /\ w \in Available
    /\ \A v \in Available : Offset(w) <= Offset(v)

\* Mutants of Following: the index stays; the index does not wrap around.
Staying(w)  == w
Unwrapped(w) == w + 1

Following(w) == (w + 1) % N

TriesLeft(c) == attempt[c] < N

\* Mutant of CoolDown: the failed worker is used again at once.
CoolDownForgotten(w) == cooling

CoolDown(w) == [cooling EXCEPT ![w] = Cooldown]

CountTry(c) == [attempt EXCEPT ![c] = @ + 1]

Begin(c) ==
    /\ at[c] = "idle"
    /\ at' = [at EXCEPT ![c] = "choosing"]
    /\ UNCHANGED <<poolVars, attempt, worker, waited, tried, elapsed>>

\* The critical section that scans the workers and advances the index; the
\* request is sent right after it.
Select(c) ==
    /\ at[c] = "choosing"
    /\ TriesLeft(c)
    /\ \E w \in Workers :
        /\ Selected(w)
        /\ next' = Following(w)
        /\ worker' = [worker EXCEPT ![c] = w]
        /\ tried' = [tried EXCEPT ![c] = @ \cup {w}]
        /\ turns' = [turns EXCEPT ![w] = @ + 1]
    /\ at' = [at EXCEPT ![c] = "waiting"]
    /\ UNCHANGED <<cooling, attempt, waited, elapsed>>

\* Mutant of GiveUp: without a worker the scan is repeated, against the `now`
\* it took before the scan.
GiveUpRescans(c) ==
    /\ at[c] = "choosing"
    /\ \/ TriesLeft(c) /\ Available = {} /\ UNCHANGED at
       \/ ~TriesLeft(c) /\ at' = [at EXCEPT ![c] = "failed"]
    /\ UNCHANGED <<poolVars, attempt, worker, waited, tried, elapsed>>

\* The loop ends without an answer: its tries are used up, or every worker is
\* cooling down.
GiveUp(c) ==
    /\ at[c] = "choosing"
    /\ ~TriesLeft(c) \/ Available = {}
    /\ at' = [at EXCEPT ![c] = IF attempt[c] = 0 THEN "unavailable" ELSE "failed"]
    /\ UNCHANGED <<poolVars, attempt, worker, waited, tried, elapsed>>

Answer(c) ==
    /\ at[c] = "waiting"
    /\ at' = [at EXCEPT ![c] = "answered"]
    /\ waited' = [waited EXCEPT ![c] = 0]
    /\ UNCHANGED <<poolVars, attempt, worker, tried, elapsed>>

\* Connecting, sending, receiving or parsing throws; at the latest when the
\* receive timeout of the socket expires.
Fail(c) ==
    /\ at[c] = "waiting"
    /\ cooling' = CoolDown(worker[c])
    /\ attempt' = CountTry(c)
    /\ at' = [at EXCEPT ![c] = "choosing"]
    /\ waited' = [waited EXCEPT ![c] = 0]
    /\ UNCHANGED <<next, turns, worker, tried, elapsed>>

\* A thread between two tries does nothing but take the mutex, which is short
\* against a tick.
Tick ==
    /\ \A c \in Calls : at[c] # "choosing"
    /\ \A c \in Calls : at[c] = "waiting" => waited[c] < ReadTimeout
    /\ cooling' = [w \in Workers |-> IF cooling[w] > 0 THEN cooling[w] - 1 ELSE 0]
    /\ waited' = [c \in Calls |-> IF at[c] = "waiting" THEN waited[c] + 1 ELSE waited[c]]
    /\ elapsed' = [c \in Calls |-> IF at[c] = "waiting" THEN elapsed[c] + 1 ELSE elapsed[c]]
    /\ UNCHANGED <<next, turns, at, attempt, worker, tried>>

-----------------------------------------------------------------------------

Return(c) == Answer(c) \/ Fail(c)
Step(c) == Begin(c) \/ Select(c) \/ GiveUp(c) \/ Return(c)

Next == Tick \/ \E c \in Calls : Step(c)

\* Threads run, a blocking receive ends in an answer or in its timeout, and
\* time passes; nobody has to call judge().
Fairness ==
    /\ WF_vars(Tick)
    /\ \A c \in Calls : WF_vars(Select(c) \/ GiveUp(c) \/ Return(c))

Spec == Init /\ [][Next]_vars /\ Fairness

-----------------------------------------------------------------------------

\* Types of the pool and of every call.
TypeOK ==
    /\ next \in Workers
    /\ cooling \in [Workers -> 0..Cooldown]
    /\ at \in [Calls -> {"idle", "choosing", "waiting"} \cup Returned]
    /\ attempt \in [Calls -> 0..N]
    /\ worker \in [Calls -> Workers]
    /\ waited \in [Calls -> 0..ReadTimeout]
    /\ tried \in [Calls -> SUBSET Workers]
    /\ elapsed \in [Calls -> Nat]
    /\ turns \in [Workers -> Nat]

\* A call keeps its std::async thread, and with it the delivery it judges, no
\* longer than one read timeout for each worker, however many calls run beside it.
CallIsBounded == \A c \in Calls : elapsed[c] <= N * ReadTimeout

\* Concurrent calls share the rotation: as long as no try fails, no worker is
\* selected two times more often than another.
TurnsAreShared ==
    (\A c \in Calls : attempt[c] = 0) =>
        \A v, w \in Workers : turns[v] <= turns[w] + 1

\* A call that gives up leaves no worker unused that could be used.
GivesUp(c) == at[c] = "choosing" /\ at'[c] \in {"failed", "unavailable"}
NobodyLeft(c) == Available \subseteq tried[c]

\* "all judge workers failed" is true of a call that was quicker than the
\* cooldown: it has tried every worker that is not cooling down, so none of its
\* tries went to a worker it had already seen fail.  A slower call may meet a
\* failed worker twice and miss another, as its tries are counted and not its workers.
GivesUpHonestly ==
    [][\A c \in Calls : GivesUp(c) /\ elapsed[c] < Cooldown => NobodyLeft(c)]_vars

\* Every call of judge() returns: its future becomes ready and its slot free.
CallsReturn == \A c \in Calls : at[c] = "choosing" ~> at[c] \in Returned

=============================================================================
