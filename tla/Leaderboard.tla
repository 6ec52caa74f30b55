---------------------------- MODULE Leaderboard ----------------------------
(***************************************************************************)
(* The leaderboard of one assignment: the transaction of                   *)
(* SubmissionRepository::update_submission that recomputes the statistics  *)
(* of a user, the Redis sorted set written after the commit, and the page  *)
(* that reads the sorted set and rebuilds it.                              *)
(*                                                                         *)
(* The writers are the dispatcher's main thread, which saves verdicts, and *)
(* for each submission the handler that submitted it, whose closing write  *)
(* is QUEUED or, when the publish failed, SYSTEM_ERROR.                    *)
(***************************************************************************)
EXTENDS Integers, FiniteSets, Functions, FiniteSetsExt

CONSTANTS
    Users, Problems, Subs,
    Dispatcher,            \* the writer that is not a handler
    UserOf, ProblemOf,     \* who submitted, and what
    CreatedAt,             \* submissions.created_at
    StartAt, EndAt,        \* the assignment's window
    Weight,                \* kRankScoreSolvedWeight
    MaxFaults              \* failures of MySQL, Redis or a process in a behaviour

ASSUME LeaderboardAssumption ==
    /\ IsFiniteSet(Problems) /\ IsFiniteSet(Subs)
    /\ Dispatcher \notin Subs
    /\ UserOf \in [Subs -> Users]
    /\ ProblemOf \in [Subs -> Problems]
    /\ CreatedAt \in [Subs -> Nat]
    /\ StartAt \in Nat /\ EndAt \in Nat
    /\ Weight \in Nat
    /\ MaxFaults \in Nat

VARIABLES
    rows,       \* what the final_status of each submission says
    copies,     \* deliveries of each submission that will be judged
    stats,      \* assignment_user_problem_stats
    rank,       \* assignment_user_rank_stats
    at,         \* where each writer is in update_submission
    judged,     \* the submission the dispatcher saves, or Dispatcher
    to,         \* the status each writer saves
    found,      \* the problem statistics each transaction computed
    standing,   \* the rank statistics each transaction computed
    zset,       \* the Redis sorted set: user to score
    ttl,        \* whether the sorted set has an expiry
    reader,     \* where the leaderboard page is
    order,      \* the scores that order its entries
    shown,      \* the rank statistics it shows
    left,       \* users it has yet to write to the sorted set
    ranked,     \* history: the users ranked when the page was asked for
    disturbed,  \* history: statistics a reopened submission was taken from
    committed,  \* history: every score a user has had
    faults      \* failures so far

rowVars == <<rows, copies, stats, rank, disturbed, committed>>
txnVars == <<judged, to, found, standing>>
pageVars == <<reader, order, shown, left, ranked>>
redisVars == <<zset, ttl>>
vars == <<rowVars, at, txnVars, pageVars, redisVars, faults>>

Writers == Subs \cup {Dispatcher}
Statuses == {"pending", "rejected", "accepted"}
Empty == [u \in {} |-> 0]

-----------------------------------------------------------------------------
(* Statistics.                                                             *)

InWindow(s) == StartAt <= CreatedAt[s] /\ CreatedAt[s] <= EndAt

\* Mutant of SecondsFromStart: the operands are swapped.
SecondsSwapped(t) == IF t <= StartAt THEN 0 ELSE StartAt - t

SecondsFromStart(t) == IF t <= StartAt THEN 0 ELSE t - StartAt

\* The submissions of u for p that count.
Counted(r, u, p) ==
    {s \in Subs : UserOf[s] = u /\ ProblemOf[s] = p /\ r[s] # "pending" /\ InWindow(s)}

Solving(r, u, p) == {s \in Counted(r, u, p) : r[s] = "accepted"}

Recount(r, u, p) ==
    [count |-> Cardinality(Counted(r, u, p)),
     accepted |-> Solving(r, u, p) # {},
     penalty |-> IF Solving(r, u, p) = {} THEN 0
                 ELSE SecondsFromStart(Min({CreatedAt[s] : s \in Solving(r, u, p)}))]

\* Sums over the problem statistics of one user.
Sums(st) ==
    [solved |-> Cardinality({p \in Problems : st[p].accepted}),
     penalty |-> SumFunction([p \in Problems |-> st[p].penalty])]

Score(r) == r.solved * Weight - r.penalty

NoStanding == [solved |-> 0, penalty |-> 0]
NoStats == [count |-> 0, accepted |-> FALSE, penalty |-> 0]

SubOf(x) == IF x = Dispatcher THEN judged ELSE x
User(x) == UserOf[SubOf(x)]
Problem(x) == ProblemOf[SubOf(x)]

\* should_count_for_assignment_leaderboard
Counts(x) == to[x] # "pending" /\ InWindow(SubOf(x))

Init ==
    /\ rows = [s \in Subs |-> "pending"]
    /\ copies = [s \in Subs |-> 0]
    /\ stats = [u \in Users |-> [p \in Problems |-> NoStats]]
    /\ rank = Empty
    /\ at = [x \in Writers |-> IF x = Dispatcher THEN "idle" ELSE "publishing"]
    /\ judged = Dispatcher
    /\ to = [x \in Writers |-> "pending"]
    /\ found = [x \in Writers |-> NoStats]
    /\ standing = [x \in Writers |-> NoStanding]
    /\ zset = Empty
    /\ ttl = FALSE
    /\ reader = "idle"
    /\ order = Empty
    /\ shown = Empty
    /\ left = {}
    /\ ranked = {}
    /\ disturbed = {}
    /\ committed = {}
    /\ faults = 0

\* A failure happens, within the bound.
Spend == faults < MaxFaults /\ faults' = faults + 1

-----------------------------------------------------------------------------
(* update_submission: two row locks, a recomputation, a commit.            *)

InTransaction(x) == at[x] \in {"updated", "locked"}

\* Nobody else holds the row of s.
RowFree(s) == \A y \in Writers : InTransaction(y) => SubOf(y) # s

\* update_submission returns or throws; its locals are gone.
Return(x) ==
    /\ at' = [at EXCEPT ![x] = IF x = Dispatcher THEN "idle" ELSE "done"]
    /\ judged' = IF x = Dispatcher THEN Dispatcher ELSE judged
    /\ to' = [to EXCEPT ![x] = "pending"]
    /\ found' = [found EXCEPT ![x] = NoStats]
    /\ standing' = [standing EXCEPT ![x] = NoStanding]

Publish(s) ==
    /\ at[s] = "publishing"
    /\ at' = [at EXCEPT ![s] = "closing"]
    /\ copies' = [copies EXCEPT ![s] = 1]
    /\ UNCHANGED <<rows, stats, rank, disturbed, committed, txnVars, pageVars, redisVars, faults>>

PublishFails(s) ==
    /\ at[s] = "publishing"
    /\ at' = [at EXCEPT ![s] = "closing"]
    /\ to' = [to EXCEPT ![s] = "rejected"]
    /\ UNCHANGED <<rowVars, judged, found, standing, pageVars, redisVars, faults>>

\* UPDATE submissions, by the handler or with a verdict.
Close(s) ==
    /\ at[s] = "closing"
    /\ RowFree(s)
    /\ at' = [at EXCEPT ![s] = "updated"]
    /\ UNCHANGED <<rowVars, txnVars, pageVars, redisVars, faults>>

SaveVerdict(s, v) ==
    /\ at[Dispatcher] = "idle"
    /\ copies[s] > 0
    /\ RowFree(s)
    /\ judged' = s
    /\ to' = [to EXCEPT ![Dispatcher] = v]
    /\ at' = [at EXCEPT ![Dispatcher] = "updated"]
    /\ UNCHANGED <<rowVars, found, standing, pageVars, redisVars, faults>>

\* SELECT ... FOR UPDATE joins the assignment and so locks its row too; the
\* consistent read that follows sees what is committed by now.
Recomputed(x) ==
    LET after == [rows EXCEPT ![SubOf(x)] = to[x]]
        own == Recount(after, User(x), Problem(x))
    IN  /\ found' = [found EXCEPT ![x] = own]
        /\ standing' = [standing EXCEPT ![x] = Sums([stats[User(x)] EXCEPT ![Problem(x)] = own])]

\* Mutant of AssignmentFree: the join does not lock the assignment.
NoAssignmentLock(x) == x \in Writers

AssignmentFree(x) == \A y \in Writers : at[y] # "locked"

Lock(x) ==
    /\ at[x] = "updated"
    /\ AssignmentFree(x)
    /\ at' = [at EXCEPT ![x] = "locked"]
    /\ IF Counts(x) THEN Recomputed(x) ELSE UNCHANGED <<found, standing>>
    /\ UNCHANGED <<rowVars, judged, to, pageVars, redisVars, faults>>

\* What the commit makes visible.
Committed(x) ==
    LET u == User(x)
        p == Problem(x)
        reopened == to[x] = "pending" /\ rows[SubOf(x)] # "pending" /\ InWindow(SubOf(x))
    IN  /\ rows' = [rows EXCEPT ![SubOf(x)] = to[x]]
        /\ IF Counts(x)
           THEN /\ stats' = [stats EXCEPT ![u][p] = found[x]]
                /\ rank' = [v \in DOMAIN rank \cup {u} |-> IF v = u THEN standing[x] ELSE rank[v]]
                /\ committed' = committed \cup {<<u, Score(standing[x])>>}
           ELSE UNCHANGED <<stats, rank, committed>>
        /\ disturbed' = IF reopened THEN disturbed \cup {<<u, p>>}
                        ELSE IF Counts(x) THEN disturbed \ {<<u, p>>} ELSE disturbed

Commit(x) ==
    /\ at[x] = "locked"
    /\ Committed(x)
    /\ copies' = IF x = Dispatcher THEN [copies EXCEPT ![judged] = @ - 1] ELSE copies
    /\ IF Counts(x)
       THEN at' = [at EXCEPT ![x] = "zadd"] /\ UNCHANGED txnVars
       ELSE Return(x)
    /\ UNCHANGED <<pageVars, redisVars, faults>>

\* The commit takes effect and its answer is lost; the dispatcher requeues.
CommitUnknown(x) ==
    /\ at[x] = "locked"
    /\ Spend
    /\ Committed(x)
    /\ Return(x)
    /\ UNCHANGED <<copies, pageVars, redisVars>>

\* Mutant of Rollback: the exception is swallowed and Redis written anyway.
RollbackGoesOn(x) ==
    /\ at[x] = "locked" /\ Counts(x)
    /\ Spend
    /\ at' = [at EXCEPT ![x] = "zadd"]
    /\ UNCHANGED <<rowVars, txnVars, pageVars, redisVars>>

Rollback(x) ==
    /\ InTransaction(x)
    /\ Spend
    /\ Return(x)
    /\ UNCHANGED <<rowVars, pageVars, redisVars>>

-----------------------------------------------------------------------------
(* Redis.  A call that fails is ignored.                                   *)

ZAdd(u, score) ==
    \/ /\ zset' = [v \in DOMAIN zset \cup {u} |-> IF v = u THEN score ELSE zset[v]]
       /\ UNCHANGED faults
    \/ Spend /\ UNCHANGED zset

\* EXPIRE of a key that does not exist does nothing.
Expire ==
    \/ ttl' = (DOMAIN zset # {}) /\ UNCHANGED faults
    \/ Spend /\ UNCHANGED ttl

PublishScore(x) ==
    /\ at[x] = "zadd"
    /\ ZAdd(User(x), Score(standing[x]))
    /\ at' = [at EXCEPT ![x] = "expire"]
    /\ UNCHANGED <<rowVars, txnVars, pageVars, ttl>>

RenewExpiry(x) ==
    /\ at[x] = "expire"
    /\ Expire
    /\ Return(x)
    /\ UNCHANGED <<rowVars, pageVars, zset>>

TtlPasses ==
    /\ ttl
    /\ ttl' = FALSE
    /\ zset' = Empty
    /\ UNCHANGED <<rowVars, at, txnVars, pageVars, faults>>

-----------------------------------------------------------------------------
(* The leaderboard page.                                                   *)

Ask ==
    /\ reader = "idle"
    /\ ranked' = DOMAIN rank
    /\ \/ DOMAIN zset # {} /\ reader' = "fetching" /\ UNCHANGED faults
       \/ DOMAIN zset = {} /\ reader' = "loading" /\ UNCHANGED faults
       \/ Spend /\ reader' = "loading"
    /\ UNCHANGED <<rowVars, at, txnVars, order, shown, left, redisVars>>

Fetch ==
    /\ reader = "fetching"
    /\ \/ order' = zset /\ UNCHANGED faults
       \/ Spend /\ order' = Empty
    /\ reader' = IF DOMAIN order' = {} THEN "loading" ELSE "matching"
    /\ UNCHANGED <<rowVars, at, txnVars, shown, left, ranked, redisVars>>

\* Mutant of Complete: rows.size() is not compared with rank_map.size().
AlwaysComplete(users) == users \subseteq Users

Complete(users) == DOMAIN rank \subseteq users

\* The rank rows of the members of the sorted set, in its order.
Match ==
    /\ reader = "matching"
    /\ IF Complete(DOMAIN order)
       THEN /\ reader' = "serving"
            /\ shown' = Restrict(rank, DOMAIN rank \cap DOMAIN order)
       ELSE reader' = "loading" /\ UNCHANGED shown
    /\ UNCHANGED <<rowVars, at, txnVars, order, left, ranked, redisVars, faults>>

Load ==
    /\ reader = "loading"
    /\ shown' = rank
    /\ order' = [u \in DOMAIN rank |-> Score(rank[u])]
    /\ left' = DOMAIN rank
    /\ reader' = IF DOMAIN rank = {} THEN "serving" ELSE "filling"
    /\ UNCHANGED <<rowVars, at, txnVars, ranked, redisVars, faults>>

Fill(u) ==
    /\ reader = "filling"
    /\ u \in left
    /\ \A v \in left : order[v] <= order[u]
    /\ ZAdd(u, order[u])
    /\ left' = left \ {u}
    /\ UNCHANGED <<rowVars, at, txnVars, reader, order, shown, ranked, ttl>>

\* Mutant of SetExpiry: the rebuilt set is left without an expiry.
SetExpiryForgotten ==
    /\ reader = "filling"
    /\ left = {}
    /\ reader' = "serving"
    /\ UNCHANGED <<rowVars, at, txnVars, order, shown, left, ranked, redisVars, faults>>

SetExpiry ==
    /\ reader = "filling"
    /\ left = {}
    /\ Expire
    /\ reader' = "serving"
    /\ UNCHANGED <<rowVars, at, txnVars, order, shown, left, ranked, zset>>

NoPage ==
    /\ reader' = "idle"
    /\ order' = Empty
    /\ shown' = Empty
    /\ left' = {}
    /\ ranked' = {}

Serve ==
    /\ reader = "serving"
    /\ NoPage
    /\ UNCHANGED <<rowVars, at, txnVars, redisVars, faults>>

-----------------------------------------------------------------------------
(* Crashes, and the copies they make of a delivery (JudgePipeline).        *)

CrashDispatcher ==
    /\ Spend
    /\ at[Dispatcher] # "idle"
    /\ Return(Dispatcher)
    /\ UNCHANGED <<rowVars, pageVars, redisVars>>

CrashServer ==
    /\ Spend
    /\ at' = [x \in Writers |-> IF x = Dispatcher THEN at[x] ELSE "done"]
    /\ to' = [x \in Writers |-> IF x = Dispatcher THEN to[x] ELSE "pending"]
    /\ found' = [x \in Writers |-> IF x = Dispatcher THEN found[x] ELSE NoStats]
    /\ standing' = [x \in Writers |-> IF x = Dispatcher THEN standing[x] ELSE NoStanding]
    /\ NoPage
    /\ UNCHANGED <<rowVars, judged, redisVars>>

Duplicate(s) ==
    /\ copies[s] > 0
    /\ Spend
    /\ copies' = [copies EXCEPT ![s] = @ + 1]
    /\ UNCHANGED <<rows, stats, rank, disturbed, committed, at, txnVars, pageVars, redisVars>>

Submitting(s) == Publish(s) \/ PublishFails(s) \/ Close(s)
Saving(x) == Lock(x) \/ Commit(x) \/ PublishScore(x) \/ RenewExpiry(x)
Page == Fetch \/ Match \/ Load \/ (\E u \in Users : Fill(u)) \/ SetExpiry \/ Serve
Failing(x) == CommitUnknown(x) \/ Rollback(x)

Next ==
    \/ \E s \in Subs : Submitting(s) \/ Duplicate(s) \/ \E v \in {"rejected", "accepted"} : SaveVerdict(s, v)
    \/ \E x \in Writers : Saving(x) \/ Failing(x)
    \/ TtlPasses \/ Ask \/ Page
    \/ CrashDispatcher \/ CrashServer

\* A transaction and a page that have begun go on, and an expiry passes.
Fairness ==
    /\ \A x \in Writers : WF_vars(Saving(x))
    /\ WF_vars(Page)
    /\ WF_vars(TtlPasses)

Spec == Init /\ [][Next]_vars /\ Fairness

-----------------------------------------------------------------------------

ProblemStats == [count : Nat, accepted : BOOLEAN, penalty : Nat]
RankStats == [solved : Nat, penalty : Nat]
ByUser(f, S) == DOMAIN f \subseteq Users /\ f \in [DOMAIN f -> S]

\* Types of the tables, the transactions, Redis and the page.
TypeOK ==
    /\ rows \in [Subs -> Statuses]
    /\ copies \in [Subs -> Nat]
    /\ stats \in [Users -> [Problems -> ProblemStats]]
    /\ ByUser(rank, RankStats)
    /\ at \in [Writers -> {"idle", "publishing", "closing", "updated", "locked", "zadd", "expire", "done"}]
    /\ judged \in Writers
    /\ to \in [Writers -> Statuses]
    /\ found \in [Writers -> ProblemStats]
    /\ standing \in [Writers -> RankStats]
    /\ ByUser(zset, Int)
    /\ ttl \in BOOLEAN
    /\ reader \in {"idle", "fetching", "matching", "loading", "filling", "serving"}
    /\ ByUser(order, Int)
    /\ ByUser(shown, RankStats)
    /\ left \in SUBSET Users
    /\ ranked \in SUBSET Users
    /\ disturbed \in SUBSET (Users \X Problems)
    /\ committed \in SUBSET (Users \X Int)
    /\ faults \in 0..MaxFaults

\* submission_repository.cpp:590: after every commit the statistics of a user
\* and a problem are what a recomputation from the submissions gives, although
\* two processes write them; only a submission put back to QUEUED stays in.
StatsCurrent ==
    \A u \in Users, p \in Problems :
        <<u, p>> \notin disturbed => stats[u][p] = Recount(rows, u, p)

\* The rank row of a user is the sum of the user's problem rows, and exists as
\* soon as one of them does.
RankCurrent ==
    \A u \in Users :
        IF u \in DOMAIN rank THEN rank[u] = Sums(stats[u])
        ELSE \A p \in Problems : stats[u][p] = NoStats

\* A rolled back transaction leaves no trace in Redis: each score in the
\* sorted set is one its user has had.
NothingInvented == \A u \in DOMAIN zset : <<u, zset[u]>> \in committed

\* A page shows everybody who was ranked when it was asked for, however much of
\* the sorted set was there.
BoardIsWhole == reader = "serving" => ranked \subseteq DOMAIN shown

Ahead(r, q) ==
    \/ r.solved > q.solved
    \/ r.solved = q.solved /\ r.penalty < q.penalty

ZsetAgrees == \A u \in DOMAIN zset : u \in DOMAIN rank /\ zset[u] = Score(rank[u])

\* A stale sorted set does not outlive the verdicts for ever: it expires, and
\* what replaces it agrees with MySQL.  One failed EXPIRE or crash before it is
\* enough for a stale set without expiry, so failures are excluded.
StalenessEnds == [](faults = 0) => <>[]ZsetAgrees

=============================================================================
