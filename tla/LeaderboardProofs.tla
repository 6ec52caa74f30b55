------------------------- MODULE LeaderboardProofs -------------------------
(***************************************************************************)
(* Proofs about the leaderboard, for all users, problems and submissions   *)
(* and any number of failures.                                             *)
(***************************************************************************)
EXTENDS Leaderboard, FiniteSetTheorems, WellFoundedInduction, TLAPS

Phases == {"idle", "publishing", "closing", "updated", "locked", "zadd", "expire", "done"}

\* Domains of the variables, without the numbers in them.
Shape ==
    /\ rows \in [Subs -> Statuses]
    /\ stats = [u \in Users |-> [p \in Problems |-> stats[u][p]]]
    /\ at \in [Writers -> Phases]
    /\ judged \in Writers
    /\ to \in [Writers -> Statuses]
    /\ found = [x \in Writers |-> found[x]]
    /\ standing = [x \in Writers |-> standing[x]]

Saves(x) == at[x] \in {"updated", "locked", "zadd", "expire"}

\* The assignment's row has one holder.
LockInv ==
    /\ \A x \in Writers : Saves(x) => SubOf(x) \in Subs
    /\ \A x, y \in Writers : at[x] = "locked" /\ at[y] = "locked" => x = y

\* What the holder has computed is still what a recomputation would give.
View(x) ==
    at[x] = "locked" /\ Counts(x) =>
        /\ found[x] = Recount([rows EXCEPT ![SubOf(x)] = to[x]], User(x), Problem(x))
        /\ standing[x] = Sums([stats[User(x)] EXCEPT ![Problem(x)] = found[x]])

ViewInv == \A x \in Writers : View(x)

\* Scores on their way to Redis have been committed.
ScoreInv ==
    /\ \A u \in DOMAIN rank : <<u, Score(rank[u])>> \in committed
    /\ \A x \in Writers : at[x] = "zadd" => <<User(x), Score(standing[x])>> \in committed
    /\ \A u \in DOMAIN order : <<u, order[u]>> \in committed
    /\ left \subseteq DOMAIN order

\* What the page has loaded covers who was ranked when it was asked for.
PageInv ==
    /\ ranked \subseteq DOMAIN rank
    /\ reader \notin {"filling", "serving"} => left = {}
    /\ reader = "filling" => ranked \subseteq DOMAIN shown

IInv ==
    /\ Shape /\ LockInv /\ ViewInv /\ ScoreInv /\ PageInv
    /\ StatsCurrent /\ RankCurrent /\ NothingInvented /\ BoardIsWhole

-----------------------------------------------------------------------------
(* The score orders by solved problems first.                              *)

\* A user who has solved more, or as many with less penalty, has the greater
\* score, as long as penalties stay below the weight of a problem.
THEOREM ScoreOrders ==
    ASSUME NEW r \in RankStats, NEW q \in RankStats,
           r.penalty < Weight, q.penalty < Weight
    PROVE  Ahead(r, q) <=> Score(r) > Score(q)
<1> DEFINE a == r.solved
           b == q.solved
           m == r.penalty
           n == q.penalty
<1>1. a \in Nat /\ b \in Nat /\ m \in Nat /\ n \in Nat /\ m < Weight /\ n < Weight /\ Weight \in Nat
  BY LeaderboardAssumption DEF RankStats
<1>2. ASSUME NEW i \in Nat, NEW j \in Nat, i > j
      PROVE  i * Weight >= j * Weight + Weight
  <2>1. PICK d \in Nat : i = j + 1 + d
    <3>1. i - j - 1 \in Nat /\ i = j + 1 + (i - j - 1)
      BY <1>2
    <3> QED
      BY <3>1
  <2>2. i * Weight = j * Weight + Weight + d * Weight
    BY <2>1, <1>1
  <2>3. d * Weight \in Nat /\ j * Weight \in Nat
    BY <1>1
  <2> QED
    BY <2>2, <2>3, <1>1
<1>3. a * Weight \in Nat /\ b * Weight \in Nat
  BY <1>1
<1>4. CASE a > b
  BY <1>1, <1>2, <1>3, <1>4 DEF Ahead, Score
<1>5. CASE a = b
  BY <1>1, <1>3, <1>5 DEF Ahead, Score
<1>6. CASE b > a
  BY <1>1, <1>2, <1>3, <1>6 DEF Ahead, Score
<1> QED
  BY <1>1, <1>4, <1>5, <1>6

-----------------------------------------------------------------------------
(* Sums.                                                                   *)

\* Among sets of subsets of a finite set there is a least one.
LEMMA LeastSubset ==
    ASSUME NEW S, IsFiniteSet(S), NEW T, T \subseteq SUBSET S, T # {}
    PROVE  \E x \in T : \A y \in T : y \subseteq x => y = x
<1>1. IsWellFoundedOn(StrictSubsetOrdering(S), SUBSET S)
  BY FS_StrictSubsetOrderingWellFounded, FS_FiniteSubsetsOfFinite
<1>2. \E x \in T : \A y \in T : <<y, x>> \notin StrictSubsetOrdering(S)
  BY <1>1, WFMin
<1>. QED
  BY <1>2 DEF StrictSubsetOrdering

LEMMA LeastNumber ==
    ASSUME NEW T, T \subseteq Nat, T # {}
    PROVE  Min(T) \in T
<1>1. \E x \in T : \A y \in T : <<y, x>> \notin OpToRel(<, Nat)
  BY NatLessThanWellFounded, WFMin
<1>2. \A x, y \in T : y < x => <<y, x>> \in OpToRel(<, Nat)
  <2> SUFFICES ASSUME NEW x \in T, NEW y \in T, y < x
               PROVE  <<y, x>> \in {ss \in Nat \X Nat : ss[1] < ss[2]}
    BY DEF OpToRel
  <2>. QED
    OBVIOUS
<1>3. \E x \in T : \A y \in T : ~(y < x)
  BY <1>1, <1>2
<1>4. \E x \in T : \A y \in T : x <= y
  BY <1>3
<1>. QED
  BY <1>4 DEF Min

\* The functions from which SumFunction chooses one: the sums over the subsets
\* of S, one element after the other.
Pick(s) == CHOOSE x \in s : TRUE
Rest(s) == s \ {Pick(s)}
IsSum(g, f, S) == g = [s \in SUBSET S |-> IF s = {} THEN 0 ELSE f[Pick(s)] + g[Rest(s)]]

LEMMA SumUnfolds ==
    ASSUME NEW f, NEW S, S = DOMAIN f
    PROVE  SumFunction(f) = (CHOOSE g : IsSum(g, f, S))[S]
  BY DEF SumFunction, SumFunctionOnSet, FoldFunctionOnSet, MapThenFoldSet, IsSum, Pick, Rest

LEMMA RestIsLess ==
    ASSUME NEW s, s # {}
    PROVE  Pick(s) \in s /\ Rest(s) \subseteq s /\ Rest(s) # s
  BY DEF Pick, Rest

LEMMA SumAt ==
    ASSUME NEW g, NEW f, NEW S, IsSum(g, f, S), NEW s \in SUBSET S
    PROVE  g[s] = IF s = {} THEN 0 ELSE f[Pick(s)] + g[Rest(s)]
<1>1. g = [u \in SUBSET S |-> IF u = {} THEN 0 ELSE f[Pick(u)] + g[Rest(u)]]
  BY DEF IsSum
<1>. QED
  BY <1>1

\* The sum over a set does not depend on the set it is a subset of.
LEMMA SumIsUnique ==
    ASSUME NEW f, NEW A, NEW B, NEW g, NEW h, IsFiniteSet(A), IsSum(g, f, A), IsSum(h, f, B)
    PROVE  \A s \in SUBSET (A \cap B) : g[s] = h[s]
<1> DEFINE Wrong == {s \in SUBSET (A \cap B) : g[s] # h[s]}
<1> SUFFICES ASSUME Wrong # {} PROVE FALSE
  OBVIOUS
<1>1. PICK s \in Wrong : \A y \in Wrong : y \subseteq s => y = s
  <2>1. Wrong \subseteq SUBSET A
    OBVIOUS
  <2> HIDE DEF Wrong
  <2>. QED
    BY <2>1, LeastSubset
<1>2. s \in SUBSET A /\ s \in SUBSET B
  OBVIOUS
<1>3. /\ g[s] = IF s = {} THEN 0 ELSE f[Pick(s)] + g[Rest(s)]
      /\ h[s] = IF s = {} THEN 0 ELSE f[Pick(s)] + h[Rest(s)]
  BY <1>2, SumAt
<1>4. s # {} /\ g[Rest(s)] # h[Rest(s)]
  BY <1>3
<1>5. Rest(s) \in Wrong /\ Rest(s) \subseteq s /\ Rest(s) # s
  BY <1>2, <1>4, RestIsLess
<1>. QED
  BY <1>1, <1>5

\* On a finite set it exists.
LEMMA SumExists ==
    ASSUME NEW f, NEW S, IsFiniteSet(S)
    PROVE  \E g : IsSum(g, f, S)
<1> DEFINE Bad == {T \in SUBSET S : ~\E g : IsSum(g, f, T)}
           G(T) == CHOOSE g : IsSum(g, f, T)
<1> SUFFICES ASSUME Bad # {} PROVE FALSE
  OBVIOUS
<1>1. PICK T \in Bad : \A y \in Bad : y \subseteq T => y = T
  <2>1. Bad \subseteq SUBSET S
    OBVIOUS
  <2> HIDE DEF Bad
  <2>. QED
    BY <2>1, LeastSubset
<1>2. \A u \in SUBSET T : u # T => IsSum(G(u), f, u) /\ IsFiniteSet(u)
  <2> SUFFICES ASSUME NEW u \in SUBSET T, u # T PROVE IsSum(G(u), f, u) /\ IsFiniteSet(u)
    OBVIOUS
  <2>1. u \notin Bad /\ u \in SUBSET S
    BY <1>1
  <2>2. \E g : IsSum(g, f, u)
    BY <2>1
  <2>3. IsFiniteSet(u)
    BY <2>1, FS_Subset
  <2>. QED
    BY <2>2, <2>3
<1> DEFINE h == [s \in SUBSET T |-> IF s = {} THEN 0 ELSE f[Pick(s)] + G(Rest(s))[Rest(s)]]
<1> HIDE DEF G
<1>3. ASSUME NEW u \in SUBSET T, u # T PROVE h[u] = G(u)[u]
  <2>1. IsSum(G(u), f, u) /\ IsFiniteSet(u)
    BY <1>2, <1>3
  <2>2. G(u)[u] = IF u = {} THEN 0 ELSE f[Pick(u)] + G(u)[Rest(u)]
    BY <2>1, SumAt
  <2>3. CASE u = {}
    BY <2>2, <2>3
  <2>4. CASE u # {}
    <3>1. Rest(u) \subseteq u /\ Rest(u) # u
      BY <2>4, RestIsLess
    <3>2. IsSum(G(Rest(u)), f, Rest(u)) /\ Rest(u) \in SUBSET (u \cap Rest(u))
      BY <1>2, <3>1
    <3>3. G(u)[Rest(u)] = G(Rest(u))[Rest(u)]
      BY <2>1, <3>2, SumIsUnique
    <3>. QED
      BY <2>2, <2>4, <3>3
  <2>. QED
    BY <2>3, <2>4
<1>4. h = [s \in SUBSET T |-> IF s = {} THEN 0 ELSE f[Pick(s)] + h[Rest(s)]]
  <2>1. ASSUME NEW s \in SUBSET T, s # {} PROVE h[Rest(s)] = G(Rest(s))[Rest(s)]
    <3>1. Rest(s) \in SUBSET T /\ Rest(s) # T
      BY <2>1, RestIsLess
    <3> HIDE DEF h
    <3>. QED
      BY <1>3, <3>1
  <2>. QED
    BY <2>1
<1>5. IsSum(h, f, T)
  BY <1>4 DEF IsSum
<1>. QED
  BY <1>5

\* A sum of natural numbers is one.
LEMMA SumIsNatural ==
    ASSUME NEW S, IsFiniteSet(S), NEW f \in [S -> Nat]
    PROVE  SumFunction(f) \in Nat
<1> DEFINE g == CHOOSE h : IsSum(h, f, S)
           Wrong == {s \in SUBSET S : g[s] \notin Nat}
<1>1. IsSum(g, f, S)
  BY SumExists
<1>2. SumFunction(f) = g[S]
  BY SumUnfolds
<1> HIDE DEF g
<1>3. Wrong = {}
  <2> SUFFICES ASSUME Wrong # {} PROVE FALSE
    OBVIOUS
  <2>1. PICK s \in Wrong : \A y \in Wrong : y \subseteq s => y = s
    <3>1. Wrong \subseteq SUBSET S
      OBVIOUS
    <3> HIDE DEF Wrong
    <3>. QED
      BY <3>1, LeastSubset
  <2>2. g[s] = IF s = {} THEN 0 ELSE f[Pick(s)] + g[Rest(s)]
    BY <1>1, SumAt
  <2>3. s # {}
    BY <2>2
  <2>4. Pick(s) \in S /\ Rest(s) \in SUBSET S /\ Rest(s) \subseteq s /\ Rest(s) # s
    BY <2>3, RestIsLess
  <2>5. g[Rest(s)] \in Nat
    BY <2>1, <2>4
  <2>. QED
    BY <2>2, <2>3, <2>4, <2>5
<1>. QED
  BY <1>2, <1>3

\* Another number for one element moves the sum by the difference.
LEMMA SumUpdated ==
    ASSUME NEW S, IsFiniteSet(S), NEW f \in [S -> Nat], NEW p \in S, NEW n \in Nat
    PROVE  SumFunction([f EXCEPT ![p] = n]) = SumFunction(f) - f[p] + n
<1> DEFINE e == [f EXCEPT ![p] = n]
           g == CHOOSE k : IsSum(k, f, S)
           h == CHOOSE k : IsSum(k, e, S)
           Moved(s) == IF p \in s THEN g[s] - f[p] + n ELSE g[s]
           Wrong == {s \in SUBSET S : g[s] \notin Nat \/ h[s] # Moved(s)}
<1>0. e \in [S -> Nat] /\ e[p] = n /\ \A x \in S \ {p} : e[x] = f[x]
  OBVIOUS
<1>1. IsSum(g, f, S) /\ SumFunction(f) = g[S]
  BY SumExists, SumUnfolds
<1>2. IsSum(h, e, S) /\ SumFunction(e) = h[S]
  BY <1>0, SumExists, SumUnfolds
<1> HIDE DEF g, h, e
<1>3. Wrong = {}
  <2> SUFFICES ASSUME Wrong # {} PROVE FALSE
    OBVIOUS
  <2>1. PICK s \in Wrong : \A y \in Wrong : y \subseteq s => y = s
    <3>1. Wrong \subseteq SUBSET S
      OBVIOUS
    <3> HIDE DEF Wrong
    <3>. QED
      BY <3>1, LeastSubset
  <2>2. /\ g[s] = IF s = {} THEN 0 ELSE f[Pick(s)] + g[Rest(s)]
        /\ h[s] = IF s = {} THEN 0 ELSE e[Pick(s)] + h[Rest(s)]
    BY <1>1, <1>2, SumAt
  <2>3. s # {}
    BY <2>2
  <2>4. /\ Pick(s) \in s /\ Pick(s) \in S /\ Rest(s) \in SUBSET S /\ Rest(s) \subseteq s /\ Rest(s) # s
        /\ p \in Rest(s) <=> p \in s /\ p # Pick(s)
    BY <2>3, RestIsLess DEF Rest
  <2>5. g[Rest(s)] \in Nat /\ h[Rest(s)] = Moved(Rest(s))
    BY <2>1, <2>4
  <2>6. f[Pick(s)] \in Nat /\ f[p] \in Nat
    BY <2>4
  <2>7. CASE p = Pick(s)
    BY <1>0, <2>2, <2>3, <2>4, <2>5, <2>6, <2>7
  <2>8. CASE p # Pick(s)
    BY <1>0, <2>2, <2>3, <2>4, <2>5, <2>6, <2>8
  <2>. QED
    BY <2>7, <2>8
<1>. QED
  BY <1>1, <1>2, <1>3 DEF e

-----------------------------------------------------------------------------
(* What a recomputation gives, and what solving a problem is worth.        *)

\* What recomputing statistics gives has its types.
LEMMA RecountTyped ==
    ASSUME NEW r, NEW u, NEW p
    PROVE  Recount(r, u, p) \in ProblemStats
<1>1. IsFiniteSet(Subs) /\ Counted(r, u, p) \subseteq Subs
  BY LeaderboardAssumption DEF Counted
<1>2. Cardinality(Counted(r, u, p)) \in Nat
  BY <1>1, FS_Subset, FS_CardinalityType
<1> DEFINE penalty == IF Solving(r, u, p) = {} THEN 0
                      ELSE SecondsFromStart(Min({CreatedAt[s] : s \in Solving(r, u, p)}))
<1>3. penalty \in Nat
  <2>1. CASE Solving(r, u, p) = {}
    BY <2>1
  <2>2. CASE Solving(r, u, p) # {}
    <3> DEFINE times == {CreatedAt[s] : s \in Solving(r, u, p)}
    <3>1. Solving(r, u, p) \subseteq Subs
      BY <1>1 DEF Solving
    <3>2. times \subseteq Nat /\ times # {}
      BY <2>2, <3>1, LeaderboardAssumption
    <3> HIDE DEF times
    <3>3. Min(times) \in Nat /\ StartAt \in Nat
      BY <3>2, LeastNumber, LeaderboardAssumption
    <3>4. SecondsFromStart(Min(times)) \in Nat
      BY <3>3 DEF SecondsFromStart
    <3>. QED
      BY <2>2, <3>4 DEF times
  <2>. QED
    BY <2>1, <2>2
<1> HIDE DEF penalty
<1> DEFINE solved == Solving(r, u, p) # {}
           count == Cardinality(Counted(r, u, p))
<1>4. solved \in BOOLEAN /\ count \in Nat
  BY <1>2
<1>5. Recount(r, u, p) = [count |-> count, accepted |-> solved, penalty |-> penalty]
  BY DEF Recount, penalty
<1> HIDE DEF solved, count
<1>. QED
  BY <1>3, <1>4, <1>5 DEF ProblemStats

LEMMA SumsTyped ==
    ASSUME NEW st \in [Problems -> ProblemStats]
    PROVE  Sums(st) \in RankStats
<1>1. Cardinality({p \in Problems : st[p].accepted}) \in Nat
  BY FS_Subset, FS_CardinalityType, LeaderboardAssumption
<1>2. [p \in Problems |-> st[p].penalty] \in [Problems -> Nat]
  BY DEF ProblemStats
<1>3. SumFunction([p \in Problems |-> st[p].penalty]) \in Nat
  BY <1>2, SumIsNatural, LeaderboardAssumption
<1>. QED
  BY <1>1, <1>3, Zenon DEF Sums, RankStats

LEMMA ScoreTyped ==
    ASSUME NEW r \in RankStats
    PROVE  Score(r) \in Int
<1>1. r.solved \in Nat /\ r.penalty \in Nat /\ Weight \in Nat
  BY LeaderboardAssumption DEF RankStats
<1>2. r.solved * Weight \in Nat
  BY <1>1
<1>. QED
  BY <1>1, <1>2 DEF Score

\* A newly solved problem moves the user up: the score gains the weight of a
\* problem and loses the penalty, so it rises as long as the penalty is less.
THEOREM SolvingPays ==
    ASSUME NEW st \in [Problems -> ProblemStats], NEW p \in Problems, NEW new \in ProblemStats,
           ~st[p].accepted, st[p].penalty = 0, new.accepted
    PROVE  /\ Score(Sums([st EXCEPT ![p] = new])) = Score(Sums(st)) + Weight - new.penalty
           /\ new.penalty < Weight => Score(Sums([st EXCEPT ![p] = new])) > Score(Sums(st))
<1> DEFINE after == [st EXCEPT ![p] = new]
           f == [q \in Problems |-> st[q].penalty]
           Solved(t) == {q \in Problems : t[q].accepted}
<1>0. /\ Weight \in Nat /\ new.penalty \in Nat /\ IsFiniteSet(Problems)
      /\ after \in [Problems -> ProblemStats]
  BY LeaderboardAssumption DEF ProblemStats
<1>1. Cardinality(Solved(after)) = Cardinality(Solved(st)) + 1 /\ Cardinality(Solved(st)) \in Nat
  <2>1. Solved(after) = Solved(st) \cup {p} /\ p \notin Solved(st) /\ IsFiniteSet(Solved(st))
    <3>1. IsFiniteSet(Solved(st))
      BY <1>0, FS_Subset
    <3>. QED
      BY <3>1
  <2> HIDE DEF Solved
  <2>. QED
    BY <2>1, FS_AddElement, FS_CardinalityType
<1>2. /\ SumFunction([q \in Problems |-> after[q].penalty]) = SumFunction(f) + new.penalty
      /\ SumFunction(f) \in Nat
  <2>1. f \in [Problems -> Nat] /\ f[p] = 0
    BY DEF ProblemStats
  <2>2. [q \in Problems |-> after[q].penalty] = [f EXCEPT ![p] = new.penalty]
    OBVIOUS
  <2> HIDE DEF f, after
  <2>3. SumFunction(f) \in Nat
    BY <1>0, <2>1, SumIsNatural
  <2>4. SumFunction([f EXCEPT ![p] = new.penalty]) = SumFunction(f) - f[p] + new.penalty
    BY <1>0, <2>1, SumUpdated
  <2>. QED
    BY <1>0, <2>1, <2>2, <2>3, <2>4
<1> DEFINE a == Cardinality(Solved(st))
           m == SumFunction(f)
<1>3. /\ Score(Sums(st)) = a * Weight - m
      /\ Score(Sums(after)) = (a + 1) * Weight - (m + new.penalty)
  BY <1>1, <1>2, Zenon DEF Score, Sums
<1>4. (a + 1) * Weight = a * Weight + Weight /\ a * Weight \in Nat /\ a \in Nat /\ m \in Nat
  BY <1>0, <1>1, <1>2
<1> HIDE DEF a, m, after
<1>5. Score(Sums(after)) = Score(Sums(st)) + Weight - new.penalty /\ Score(Sums(st)) \in Int
  BY <1>0, <1>3, <1>4
<1>. QED
  BY <1>0, <1>5 DEF after

-----------------------------------------------------------------------------
(* The invariant holds initially.                                          *)

LEMMA Initially == Init => IInv
<1> SUFFICES ASSUME Init PROVE IInv
  OBVIOUS
<1> USE DEF Init
<1>1. Shape
  BY DEF Shape, Phases, Writers, Statuses
<1>2. LockInv /\ ViewInv
  BY DEF LockInv, ViewInv, View, Saves, Writers
<1>3. ScoreInv /\ PageInv /\ NothingInvented /\ BoardIsWhole
  BY DEF ScoreInv, PageInv, NothingInvented, BoardIsWhole, Empty, Writers
<1>4. StatsCurrent
  <2>1. ASSUME NEW u \in Users, NEW p \in Problems
        PROVE  NoStats = Recount(rows, u, p)
    <3>1. Counted(rows, u, p) = {}
      BY DEF Counted
    <3>2. Solving(rows, u, p) = {}
      BY <3>1, Zenon DEF Solving
    <3>3. Cardinality(Counted(rows, u, p)) = 0
      BY <3>1, FS_EmptySet, Zenon
    <3> QED
      BY <3>2, <3>3, Zenon DEF Recount, NoStats
  <2> QED
    BY <2>1 DEF StatsCurrent
<1>5. RankCurrent
  BY DEF RankCurrent, Empty
<1> QED
  BY <1>1, <1>2, <1>3, <1>4, <1>5 DEF IInv

-----------------------------------------------------------------------------
(* Which steps touch what.                                                 *)

\* The tables change only in the commit of the holder of the assignment's row.
LEMMA WhoWrites ==
    ASSUME [Next]_vars
    PROVE  \/ \E x \in Writers : /\ at[x] = "locked"
                                 /\ Committed(x)
                                 /\ Commit(x) \/ CommitUnknown(x)
           \/ UNCHANGED <<rows, stats, rank, disturbed, committed>>
<1> USE DEF rowVars
<1>1. ASSUME NEW s \in Subs, Submitting(s) PROVE UNCHANGED rowVars \/ UNCHANGED <<rows, stats, rank, disturbed, committed>>
  BY <1>1, Zenon DEF Submitting, Publish, PublishFails, Close
<1>2. ASSUME NEW s \in Subs, Duplicate(s) PROVE UNCHANGED <<rows, stats, rank, disturbed, committed>>
  BY <1>2, Zenon DEF Duplicate
<1>3. ASSUME NEW s \in Subs, NEW v, SaveVerdict(s, v) PROVE UNCHANGED rowVars
  BY <1>3, Zenon DEF SaveVerdict
<1>4. ASSUME NEW x \in Writers, Saving(x), ~Commit(x) PROVE UNCHANGED rowVars
  BY <1>4, Zenon DEF Saving, Lock, PublishScore, RenewExpiry
<1>5. ASSUME NEW x \in Writers, Commit(x) \/ CommitUnknown(x) PROVE at[x] = "locked" /\ Committed(x)
  BY <1>5, Zenon DEF Commit, CommitUnknown
<1>6. ASSUME NEW x \in Writers, Rollback(x) PROVE UNCHANGED rowVars
  BY <1>6, Zenon DEF Rollback
<1>7. ASSUME TtlPasses \/ Ask \/ Page PROVE UNCHANGED rowVars
  BY <1>7, Zenon DEF TtlPasses, Ask, Page, Fetch, Match, Load, Fill, SetExpiry, Serve
<1>8. ASSUME CrashDispatcher \/ CrashServer PROVE UNCHANGED rowVars
  BY <1>8, Zenon DEF CrashDispatcher, CrashServer
<1>9. ASSUME UNCHANGED vars PROVE UNCHANGED rowVars
  BY <1>9, Zenon DEF vars
<1> QED
  BY <1>1, <1>2, <1>3, <1>4, <1>5, <1>6, <1>7, <1>8, <1>9 DEF Next, Failing, Saving

\* The page and Redis do not touch the transactions.
LEMMA PageIsReader ==
    ASSUME TtlPasses \/ Ask \/ Page \/ UNCHANGED vars
    PROVE  UNCHANGED <<at, judged, to, found, standing>>
<1> USE DEF txnVars
<1>1. ASSUME UNCHANGED vars PROVE UNCHANGED <<at, judged, to, found, standing>>
  BY <1>1, Zenon DEF vars
<1>2. ASSUME TtlPasses \/ Ask \/ Page PROVE UNCHANGED <<at, judged, to, found, standing>>
  BY <1>2, Zenon DEF TtlPasses, Ask, Page, Fetch, Match, Load, Fill, SetExpiry, Serve
<1> QED
  BY <1>1, <1>2

\* The steps of the writers.
Writing ==
    \/ \E s \in Subs : Submitting(s) \/ Duplicate(s) \/ \E v \in {"rejected", "accepted"} : SaveVerdict(s, v)
    \/ \E x \in Writers : Saving(x) \/ Failing(x)
    \/ CrashDispatcher \/ CrashServer

LEMMA NextSplit ==
    ASSUME [Next]_vars
    PROVE  Writing \/ TtlPasses \/ Ask \/ Page \/ UNCHANGED vars
BY Zenon DEF Next, Writing

-----------------------------------------------------------------------------
(* Transactions.                                                           *)

LEMMA ShapeStep == IInv /\ [Next]_vars => Shape'
<1> SUFFICES ASSUME IInv, [Next]_vars PROVE Shape'
  OBVIOUS
<1>0. Shape /\ LockInv
  BY DEF IInv
<1> DEFINE TxnShape ==
             /\ at \in [Writers -> Phases]
             /\ judged \in Writers
             /\ to \in [Writers -> Statuses]
             /\ found = [x \in Writers |-> found[x]]
             /\ standing = [x \in Writers |-> standing[x]]
<1>1. rows' \in [Subs -> Statuses] /\ stats' = [u \in Users |-> [p \in Problems |-> stats'[u][p]]]
  <2>1. ASSUME NEW x \in Writers, at[x] = "locked", Committed(x)
        PROVE  rows' \in [Subs -> Statuses] /\ stats' = [u \in Users |-> [p \in Problems |-> stats'[u][p]]]
    <3>1. SubOf(x) \in Subs
      BY <1>0, <2>1 DEF LockInv, Saves
    <3>2. rows' \in [Subs -> Statuses]
      BY <1>0, <2>1, <3>1 DEF Committed, Shape
    <3>3. stats' = stats \/ stats' = [stats EXCEPT ![User(x)][Problem(x)] = found[x]]
      BY <2>1, Zenon DEF Committed
    <3>4. stats' = [u \in Users |-> [p \in Problems |-> stats'[u][p]]]
      BY <1>0, <3>3 DEF Shape
    <3> QED
      BY <3>2, <3>4
  <2> QED
    BY <1>0, <2>1, WhoWrites DEF Shape
<1> USE DEF txnVars, Phases, Statuses, Writers, Return
<1>2. ASSUME NEW s \in Subs, Submitting(s) PROVE TxnShape'
  BY <1>0, <1>2 DEF Shape, Submitting, Publish, PublishFails, Close
<1>3. ASSUME NEW s \in Subs, Duplicate(s) PROVE TxnShape'
  BY <1>0, <1>3 DEF Shape, Duplicate
<1>4. ASSUME NEW s \in Subs, NEW v \in {"rejected", "accepted"}, SaveVerdict(s, v) PROVE TxnShape'
  BY <1>0, <1>4 DEF Shape, SaveVerdict
<1>5. ASSUME NEW x \in Writers, Lock(x) PROVE TxnShape'
  <2>1. at' \in [Writers -> Phases] /\ judged' \in Writers /\ to' \in [Writers -> Statuses]
    BY <1>0, <1>5 DEF Shape, Lock
  <2>2. \/ UNCHANGED <<found, standing>>
        \/ \E f, g : found' = [found EXCEPT ![x] = f] /\ standing' = [standing EXCEPT ![x] = g]
    BY <1>5, Zenon DEF Lock, Recomputed
  <2>3. found' = [y \in Writers |-> found'[y]] /\ standing' = [y \in Writers |-> standing'[y]]
    BY <1>0, <2>2 DEF Shape
  <2> QED
    BY <2>1, <2>3
<1>6. ASSUME NEW x \in Writers, Return(x) PROVE TxnShape'
  BY <1>0, <1>6 DEF Shape
<1>7. ASSUME NEW x \in Writers, Commit(x) PROVE TxnShape'
  BY <1>0, <1>6, <1>7 DEF Shape, Commit
<1>8. ASSUME NEW x \in Writers, PublishScore(x) PROVE TxnShape'
  BY <1>0, <1>8 DEF Shape, PublishScore
<1>9. ASSUME NEW x \in Writers, RenewExpiry(x) \/ Failing(x) PROVE TxnShape'
  BY <1>6, <1>9, Zenon DEF RenewExpiry, Failing, CommitUnknown, Rollback
<1>10. ASSUME CrashDispatcher PROVE TxnShape'
  <2>1. Dispatcher \in Writers /\ Return(Dispatcher)
    BY <1>10, Zenon DEF CrashDispatcher
  <2> QED
    BY <1>6, <2>1
<1>11. ASSUME CrashServer PROVE TxnShape'
  BY <1>0, <1>11 DEF Shape, CrashServer
<1>12. ASSUME TtlPasses \/ Ask \/ Page \/ UNCHANGED vars PROVE TxnShape'
  BY <1>0, <1>12, PageIsReader DEF Shape
<1>13. TxnShape'
  <2> HIDE DEF TxnShape
  <2> QED
    BY NextSplit, <1>2, <1>3, <1>4, <1>5, <1>7, <1>8, <1>9, <1>10, <1>11, <1>12 DEF Writing, Saving
<1> QED
  BY <1>1, <1>13 DEF Shape

LEMMA LockStep == IInv /\ [Next]_vars => LockInv'
<1> SUFFICES ASSUME IInv, [Next]_vars PROVE LockInv'
  OBVIOUS
<1>0. Shape /\ LockInv
  BY DEF IInv
<1> USE LeaderboardAssumption DEF txnVars, Writers, Return, SubOf, Saves
<1>1. ASSUME NEW s \in Subs, Submitting(s) PROVE LockInv'
  BY <1>0, <1>1 DEF Shape, LockInv, Submitting, Publish, PublishFails, Close
<1>2. ASSUME NEW s \in Subs, Duplicate(s) PROVE LockInv'
  BY <1>0, <1>2 DEF LockInv, Duplicate
<1>3. ASSUME NEW s \in Subs, NEW v \in {"rejected", "accepted"}, SaveVerdict(s, v) PROVE LockInv'
  BY <1>0, <1>3 DEF Shape, LockInv, SaveVerdict
<1>4. ASSUME NEW x \in Writers, Lock(x) PROVE LockInv'
  BY <1>0, <1>4 DEF Shape, LockInv, Lock, AssignmentFree
<1>5. ASSUME NEW x \in Writers, Return(x) PROVE LockInv'
  BY <1>0, <1>5 DEF Shape, LockInv
<1>6. ASSUME NEW x \in Writers, Commit(x) PROVE LockInv'
  <2>1. CASE Counts(x)
    BY <1>0, <1>6, <2>1 DEF Shape, LockInv, Commit
  <2>2. CASE ~Counts(x)
    BY <1>5, <1>6, <2>2, Zenon DEF Commit
  <2> QED
    BY <2>1, <2>2
<1>7. ASSUME NEW x \in Writers, PublishScore(x) PROVE LockInv'
  BY <1>0, <1>7 DEF Shape, LockInv, PublishScore
<1>8. ASSUME NEW x \in Writers, RenewExpiry(x) \/ Failing(x) PROVE LockInv'
  BY <1>5, <1>8, Zenon DEF RenewExpiry, Failing, CommitUnknown, Rollback
<1>9. ASSUME CrashDispatcher PROVE LockInv'
  BY <1>5, <1>9, Zenon DEF CrashDispatcher
<1>10. ASSUME CrashServer PROVE LockInv'
  BY <1>0, <1>10 DEF Shape, LockInv, CrashServer
<1>11. ASSUME TtlPasses \/ Ask \/ Page \/ UNCHANGED vars PROVE LockInv'
  BY <1>0, <1>11, PageIsReader DEF LockInv
<1> QED
  BY NextSplit, <1>1, <1>2, <1>3, <1>4, <1>6, <1>7, <1>8, <1>9, <1>10, <1>11 DEF Writing, Saving

\* What the holder of the lock computed stays right while the tables and its own
\* locals stay.
LEMMA ViewKept ==
    ASSUME NEW y \in Writers, View(y),
           at'[y] = "locked" =>
               /\ at[y] = "locked"
               /\ UNCHANGED <<rows, stats>>
               /\ to'[y] = to[y] /\ found'[y] = found[y] /\ standing'[y] = standing[y]
               /\ y = Dispatcher => judged' = judged
    PROVE  View(y)'
<1> SUFFICES ASSUME at'[y] = "locked", Counts(y)' PROVE View(y)'
  BY DEF View
<1>1. /\ rows' = rows /\ stats' = stats /\ to'[y] = to[y]
      /\ found'[y] = found[y] /\ standing'[y] = standing[y] /\ SubOf(y)' = SubOf(y)
  BY Zenon DEF SubOf
<1>2. Counts(y)' <=> Counts(y)
  BY <1>1, Zenon DEF Counts, InWindow
<1> QED
  BY <1>1, <1>2, Zenon DEF View, User, Problem

LEMMA ViewStep == IInv /\ [Next]_vars => ViewInv'
<1> SUFFICES ASSUME IInv, [Next]_vars, NEW y \in Writers PROVE View(y)'
  BY DEF ViewInv
<1>0. Shape /\ LockInv /\ View(y)
  BY DEF IInv, ViewInv
<1> DEFINE Kept ==
             at'[y] = "locked" =>
               /\ at[y] = "locked"
               /\ UNCHANGED <<rows, stats>>
               /\ to'[y] = to[y] /\ found'[y] = found[y] /\ standing'[y] = standing[y]
               /\ y = Dispatcher => judged' = judged
<1>1. Kept => View(y)'
  BY <1>0, ViewKept
<1> USE LeaderboardAssumption DEF txnVars, rowVars, Writers
<1>2. ASSUME NEW s \in Subs, Submitting(s) PROVE Kept
  BY <1>0, <1>2 DEF Shape, Submitting, Publish, PublishFails, Close
<1>3. ASSUME NEW s \in Subs, Duplicate(s) PROVE Kept
  BY <1>3 DEF Duplicate
<1>4. ASSUME NEW s \in Subs, NEW v \in {"rejected", "accepted"}, SaveVerdict(s, v) PROVE Kept
  BY <1>0, <1>4 DEF Shape, SaveVerdict
<1>5. ASSUME NEW x \in Writers, Lock(x), x # y PROVE Kept
  BY <1>0, <1>5 DEF Shape, Lock, Recomputed
<1>6. ASSUME Lock(y) PROVE View(y)'
  <2> DEFINE own == Recount([rows EXCEPT ![SubOf(y)] = to[y]], User(y), Problem(y))
  <2>1. UNCHANGED <<rows, stats, to, judged>>
    BY <1>6, Zenon DEF Lock
  <2>2. /\ SubOf(y)' = SubOf(y) /\ User(y)' = User(y) /\ Problem(y)' = Problem(y)
        /\ Counts(y)' <=> Counts(y)
    BY <2>1, Zenon DEF SubOf, User, Problem, Counts, InWindow
  <2>3. CASE Counts(y)
    <3>1. /\ found' = [found EXCEPT ![y] = own]
          /\ standing' = [standing EXCEPT ![y] = Sums([stats[User(y)] EXCEPT ![Problem(y)] = own])]
      BY <1>6, <2>3, Zenon DEF Lock, Recomputed
    <3>2. found'[y] = own /\ standing'[y] = Sums([stats[User(y)] EXCEPT ![Problem(y)] = own])
      <4> HIDE DEF own
      <4> QED
        BY <1>0, <3>1, Zenon DEF Shape
    <3> QED
      BY <2>1, <2>2, <3>2, Zenon DEF View
  <2>4. CASE ~Counts(y)
    BY <2>2, <2>4, Zenon DEF View
  <2> QED
    BY <2>3, <2>4
<1>7. ASSUME NEW x \in Writers, Return(x), at[x] = "locked" \/ UNCHANGED rowVars PROVE Kept
  BY <1>0, <1>7 DEF Shape, LockInv, Return
<1>8. ASSUME NEW x \in Writers, Commit(x) PROVE Kept
  <2>1. CASE Counts(x)
    BY <1>0, <1>8, <2>1 DEF Shape, LockInv, Commit
  <2>2. CASE ~Counts(x)
    BY <1>7, <1>8, <2>2, Zenon DEF Commit
  <2> QED
    BY <2>1, <2>2
<1>9. ASSUME NEW x \in Writers, PublishScore(x) PROVE Kept
  BY <1>0, <1>9 DEF Shape, PublishScore
<1>10. ASSUME NEW x \in Writers, RenewExpiry(x) \/ Failing(x) PROVE Kept
  BY <1>7, <1>10, Zenon DEF RenewExpiry, Failing, CommitUnknown, Rollback
<1>11. ASSUME CrashDispatcher PROVE Kept
  BY <1>7, <1>11, Zenon DEF CrashDispatcher
<1>12. ASSUME CrashServer PROVE Kept
  BY <1>0, <1>12 DEF Shape, CrashServer
<1>13. ASSUME TtlPasses \/ Ask \/ Page \/ UNCHANGED vars PROVE Kept
  <2>1. UNCHANGED <<at, judged, to, found, standing>>
    BY <1>13, PageIsReader
  <2>2. UNCHANGED <<rows, stats>>
    BY <1>13, Zenon DEF TtlPasses, Ask, Page, Fetch, Match, Load, Fill, SetExpiry, Serve, vars
  <2> QED
    BY <2>1, <2>2
<1> QED
  <2> HIDE DEF Kept
  <2> QED
    BY NextSplit, <1>1, <1>2, <1>3, <1>4, <1>5, <1>6, <1>8, <1>9, <1>10, <1>11, <1>12, <1>13 DEF Writing, Saving

-----------------------------------------------------------------------------
(* The statistics.                                                         *)

LEMMA StatsStep == IInv /\ [Next]_vars => StatsCurrent' /\ RankCurrent'
<1> SUFFICES ASSUME IInv, [Next]_vars PROVE StatsCurrent' /\ RankCurrent'
  OBVIOUS
<1>0. Shape /\ LockInv /\ ViewInv /\ StatsCurrent /\ RankCurrent
  BY DEF IInv
<1>1. CASE UNCHANGED <<rows, stats, rank, disturbed, committed>>
  <2>1. \A u, p : Recount(rows', u, p) = Recount(rows, u, p)
    BY <1>1, Zenon
  <2> QED
    BY <1>0, <1>1, <2>1, Zenon DEF StatsCurrent, RankCurrent
<1>2. ASSUME NEW x \in Writers, at[x] = "locked", Committed(x)
      PROVE  StatsCurrent' /\ RankCurrent'
  <2> DEFINE s == SubOf(x)
             u == User(x)
             p == Problem(x)
  <2>1. s \in Subs /\ u = UserOf[s] /\ p = ProblemOf[s] /\ u \in Users /\ p \in Problems /\ to[x] \in Statuses
    BY <1>0, <1>2, LeaderboardAssumption DEF LockInv, Saves, User, Problem, Shape
  <2>2. rows' = [rows EXCEPT ![s] = to[x]] /\ rows \in [Subs -> Statuses]
    BY <1>0, <1>2, Zenon DEF Committed, Shape
  \* A recomputation looks only at the rows of its user and problem.
  <2>3. ASSUME NEW v, NEW q, UserOf[s] # v \/ ProblemOf[s] # q \/ ~InWindow(s) \/ rows[s] = to[x]
        PROVE  Recount(rows', v, q) = Recount(rows, v, q)
    <3> HIDE DEF s, u, p
    <3>1. \A t \in Subs : t # s => rows'[t] = rows[t]
      BY <2>2
    <3>2. rows'[s] = to[x]
      BY <2>1, <2>2
    <3>3. s \in Counted(rows', v, q) \/ s \in Counted(rows, v, q) => rows[s] = to[x]
      BY <2>3 DEF Counted
    <3>4. Counted(rows', v, q) = Counted(rows, v, q)
      BY <3>1, <3>2, <3>3 DEF Counted
    <3>5. \A t \in Counted(rows, v, q) : rows'[t] = rows[t]
      BY <3>1, <3>2, <3>3 DEF Counted
    <3>6. Solving(rows', v, q) = Solving(rows, v, q)
      BY <3>4, <3>5 DEF Solving
    <3> QED
      BY <3>4, <3>6, Zenon DEF Recount
  <2>4. CASE Counts(x)
    <3>1. /\ stats' = [stats EXCEPT ![u][p] = found[x]]
          /\ rank' = [v \in DOMAIN rank \cup {u} |-> IF v = u THEN standing[x] ELSE rank[v]]
          /\ disturbed' = disturbed \ {<<u, p>>}
      BY <1>2, <2>4, Zenon DEF Committed, Counts
    <3>2. found[x] = Recount(rows', u, p) /\ standing[x] = Sums([stats[u] EXCEPT ![p] = found[x]])
      BY <1>0, <1>2, <2>2, <2>4, Zenon DEF ViewInv, View
    <3> HIDE DEF s, u, p
    <3>3. /\ \A v \in Users, q \in Problems : stats'[v][q] = IF v = u /\ q = p THEN found[x] ELSE stats[v][q]
          /\ stats'[u] = [stats[u] EXCEPT ![p] = found[x]]
          /\ \A v \in Users : v # u => stats'[v] = stats[v]
      BY <1>0, <2>1, <3>1 DEF Shape
    <3>4. StatsCurrent'
      <4> SUFFICES ASSUME NEW v \in Users, NEW q \in Problems, <<v, q>> \notin disturbed'
                   PROVE  stats'[v][q] = Recount(rows', v, q)
        BY DEF StatsCurrent
      <4>1. CASE v = u /\ q = p
        BY <3>2, <3>3, <4>1, Zenon
      <4>2. CASE ~(v = u /\ q = p)
        <5>1. Recount(rows', v, q) = Recount(rows, v, q)
          BY <2>1, <2>3, <4>2, Zenon
        <5>2. <<v, q>> \notin disturbed
          BY <3>1, <4>2
        <5> QED
          BY <1>0, <3>3, <4>2, <5>1, <5>2, Zenon DEF StatsCurrent
      <4> QED
        BY <4>1, <4>2
    <3>5. RankCurrent'
      <4> SUFFICES ASSUME NEW v \in Users
                   PROVE  IF v \in DOMAIN rank' THEN rank'[v] = Sums(stats'[v])
                          ELSE \A q \in Problems : stats'[v][q] = NoStats
        BY DEF RankCurrent
      <4>1. CASE v = u
        BY <3>1, <3>2, <3>3, <4>1, Zenon
      <4>2. CASE v # u
        <5>1. v \in DOMAIN rank' <=> v \in DOMAIN rank
          BY <3>1, <4>2
        <5>2. v \in DOMAIN rank => rank'[v] = rank[v]
          BY <3>1, <4>2
        <5>3. stats'[v] = stats[v]
          BY <3>3, <4>2
        <5>4. v \in DOMAIN rank => rank[v] = Sums(stats[v])
          BY <1>0, Zenon DEF RankCurrent
        <5>5. v \notin DOMAIN rank => \A q \in Problems : stats[v][q] = NoStats
          BY <1>0, Zenon DEF RankCurrent
        <5> QED
          BY <5>1, <5>2, <5>3, <5>4, <5>5
      <4> QED
        BY <4>1, <4>2
    <3> QED
      BY <3>4, <3>5
  <2>5. CASE ~Counts(x)
    <3>1. UNCHANGED <<stats, rank>>
      BY <1>2, <2>5, Zenon DEF Committed
    <3>2. \/ disturbed' = disturbed \cup {<<u, p>>}
          \/ disturbed' = disturbed /\ (~InWindow(s) \/ rows[s] = to[x])
      BY <1>2, <2>5, Zenon DEF Committed, Counts
    <3> HIDE DEF s, u, p
    <3>3. StatsCurrent'
      <4> SUFFICES ASSUME NEW v \in Users, NEW q \in Problems, <<v, q>> \notin disturbed'
                   PROVE  stats'[v][q] = Recount(rows', v, q)
        BY DEF StatsCurrent
      <4>1. <<v, q>> \notin disturbed
        BY <3>2
      <4>2. UserOf[s] # v \/ ProblemOf[s] # q \/ ~InWindow(s) \/ rows[s] = to[x]
        BY <2>1, <3>2
      <4>3. Recount(rows', v, q) = Recount(rows, v, q)
        BY <2>3, <4>2, Zenon
      <4> QED
        BY <1>0, <3>1, <4>1, <4>3, Zenon DEF StatsCurrent
    <3>4. RankCurrent'
      BY <1>0, <3>1, Zenon DEF RankCurrent
    <3> QED
      BY <3>3, <3>4
  <2> QED
    BY <2>4, <2>5
<1> QED
  BY <1>1, <1>2, WhoWrites

-----------------------------------------------------------------------------
(* Scores in Redis.                                                        *)

\* Scores and ranks once committed stay known.
LEMMA HistoryGrows ==
    ASSUME [Next]_vars
    PROVE  committed \subseteq committed' /\ DOMAIN rank \subseteq DOMAIN rank'
<1>1. ASSUME NEW x \in Writers, Committed(x)
      PROVE  committed \subseteq committed' /\ DOMAIN rank \subseteq DOMAIN rank'
  <2>1. CASE Counts(x)
    <3>1. /\ rank' = [v \in DOMAIN rank \cup {User(x)} |-> IF v = User(x) THEN standing[x] ELSE rank[v]]
          /\ committed' = committed \cup {<<User(x), Score(standing[x])>>}
      BY <1>1, <2>1, Zenon DEF Committed
    <3> QED
      BY <3>1
  <2>2. CASE ~Counts(x)
    BY <1>1, <2>2 DEF Committed
  <2> QED
    BY <2>1, <2>2
<1> QED
  BY <1>1, WhoWrites

LEMMA RankScoreStep == IInv /\ [Next]_vars => \A u \in DOMAIN rank' : <<u, Score(rank'[u])>> \in committed'
<1> SUFFICES ASSUME IInv, [Next]_vars
             PROVE  \A u \in DOMAIN rank' : <<u, Score(rank'[u])>> \in committed'
  OBVIOUS
<1>0. \A u \in DOMAIN rank : <<u, Score(rank[u])>> \in committed
  BY DEF IInv, ScoreInv
<1>1. ASSUME NEW x \in Writers, Committed(x), Counts(x)
      PROVE  \A u \in DOMAIN rank' : <<u, Score(rank'[u])>> \in committed'
  <2>1. /\ rank' = [v \in DOMAIN rank \cup {User(x)} |-> IF v = User(x) THEN standing[x] ELSE rank[v]]
        /\ committed' = committed \cup {<<User(x), Score(standing[x])>>}
    BY <1>1, Zenon DEF Committed
  <2> SUFFICES ASSUME NEW u \in DOMAIN rank' PROVE <<u, Score(rank'[u])>> \in committed'
    OBVIOUS
  <2>2. CASE u = User(x)
    <3>1. rank'[u] = standing[x]
      BY <2>1, <2>2
    <3> QED
      BY <2>1, <2>2, <3>1
  <2>3. CASE u # User(x)
    <3>1. u \in DOMAIN rank /\ rank'[u] = rank[u]
      BY <2>1, <2>3
    <3> QED
      BY <1>0, <2>1, <3>1
  <2> QED
    BY <2>2, <2>3
<1>2. ASSUME NEW x \in Writers, Committed(x), ~Counts(x) PROVE UNCHANGED <<rank, committed>>
  BY <1>2, Zenon DEF Committed
<1> QED
  BY <1>0, <1>1, <1>2, WhoWrites

LEMMA ZaddStep == IInv /\ [Next]_vars =>
    \A x \in Writers : at'[x] = "zadd" => <<User(x)', Score(standing'[x])>> \in committed'
<1> SUFFICES ASSUME IInv, [Next]_vars, NEW y \in Writers, at'[y] = "zadd"
             PROVE  <<User(y)', Score(standing'[y])>> \in committed'
  OBVIOUS
<1>0. Shape /\ (at[y] = "zadd" => <<User(y), Score(standing[y])>> \in committed)
  BY DEF IInv, ScoreInv
<1> DEFINE Kept ==
             /\ at[y] = "zadd"
             /\ standing'[y] = standing[y]
             /\ y = Dispatcher => judged' = judged
<1>1. ASSUME Kept PROVE <<User(y)', Score(standing'[y])>> \in committed'
  <2>1. User(y)' = User(y)
    BY <1>1, Zenon DEF User, SubOf
  <2> QED
    BY <1>0, <1>1, <2>1, HistoryGrows
<1> USE LeaderboardAssumption DEF txnVars, Writers
<1>2. ASSUME NEW s \in Subs, Submitting(s) PROVE Kept
  BY <1>0, <1>2 DEF Shape, Submitting, Publish, PublishFails, Close
<1>3. ASSUME NEW s \in Subs, Duplicate(s) PROVE Kept
  BY <1>3 DEF Duplicate
<1>4. ASSUME NEW s \in Subs, NEW v \in {"rejected", "accepted"}, SaveVerdict(s, v) PROVE Kept
  BY <1>0, <1>4 DEF Shape, SaveVerdict
<1>5. ASSUME NEW x \in Writers, Lock(x) PROVE Kept
  <2>1. y # x /\ at[y] = "zadd" /\ judged' = judged
    BY <1>0, <1>5 DEF Shape, Lock
  <2>2. standing' = standing \/ \E g : standing' = [standing EXCEPT ![x] = g]
    BY <1>5, Zenon DEF Lock, Recomputed
  <2>3. standing'[y] = standing[y]
    BY <1>0, <2>1, <2>2 DEF Shape
  <2> QED
    BY <2>1, <2>3
<1>6. ASSUME NEW x \in Writers, Return(x) PROVE Kept
  BY <1>0, <1>6 DEF Shape, Return
<1>7. ASSUME NEW x \in Writers, x # y, Commit(x) PROVE Kept
  <2>1. CASE Counts(x)
    BY <1>0, <1>7, <2>1 DEF Shape, Commit
  <2>2. CASE ~Counts(x)
    BY <1>6, <1>7, <2>2, Zenon DEF Commit
  <2> QED
    BY <2>1, <2>2
<1>8. ASSUME Commit(y) PROVE <<User(y)', Score(standing'[y])>> \in committed'
  <2>1. CASE Counts(y)
    <3>1. UNCHANGED <<judged, standing>>
      BY <1>8, <2>1, Zenon DEF Commit
    <3>2. User(y)' = User(y)
      BY <3>1, Zenon DEF User, SubOf
    <3>3. committed' = committed \cup {<<User(y), Score(standing[y])>>}
      BY <1>8, <2>1, Zenon DEF Commit, Committed
    <3> QED
      BY <3>1, <3>2, <3>3
  <2>2. CASE ~Counts(y)
    BY <1>1, <1>6, <1>8, <2>2, Zenon DEF Commit
  <2> QED
    BY <2>1, <2>2
<1>9. ASSUME NEW x \in Writers, PublishScore(x) PROVE Kept
  BY <1>0, <1>9 DEF Shape, PublishScore
<1>10. ASSUME NEW x \in Writers, RenewExpiry(x) \/ Failing(x) PROVE Kept
  BY <1>6, <1>10, Zenon DEF RenewExpiry, Failing, CommitUnknown, Rollback
<1>11. ASSUME CrashDispatcher PROVE Kept
  BY <1>6, <1>11, Zenon DEF CrashDispatcher
<1>12. ASSUME CrashServer PROVE Kept
  BY <1>0, <1>12 DEF Shape, CrashServer
<1>13. ASSUME TtlPasses \/ Ask \/ Page \/ UNCHANGED vars PROVE Kept
  BY <1>13, PageIsReader
<1> QED
  <2> HIDE DEF Kept
  <2> QED
    BY NextSplit, <1>1, <1>2, <1>3, <1>4, <1>5, <1>7, <1>8, <1>9, <1>10, <1>11, <1>12, <1>13 DEF Writing, Saving

\* The writers leave the page alone, but for a crash of its process.
LEMMA WritersLeavePage ==
    ASSUME Writing
    PROVE  UNCHANGED pageVars \/ NoPage
BY Zenon DEF Writing, Submitting, Publish, PublishFails, Close, Duplicate, SaveVerdict, Saving, Lock, Commit,
    PublishScore, RenewExpiry, Failing, CommitUnknown, Rollback, CrashDispatcher, CrashServer

LEMMA OrderStep == IInv /\ [Next]_vars =>
    /\ \A u \in DOMAIN order' : <<u, order'[u]>> \in committed'
    /\ left' \subseteq DOMAIN order'
<1> DEFINE Goal ==
             /\ \A u \in DOMAIN order' : <<u, order'[u]>> \in committed'
             /\ left' \subseteq DOMAIN order'
<1> SUFFICES ASSUME IInv, [Next]_vars PROVE Goal
  OBVIOUS
<1>0. /\ \A u \in DOMAIN order : <<u, order[u]>> \in committed
      /\ \A u \in DOMAIN rank : <<u, Score(rank[u])>> \in committed
      /\ left \subseteq DOMAIN order
      /\ \A u \in DOMAIN zset : <<u, zset[u]>> \in committed
      /\ committed \subseteq committed'
  BY HistoryGrows DEF IInv, ScoreInv, NothingInvented
<1>1. ASSUME order' = order, left' \subseteq left PROVE Goal
  BY <1>0, <1>1
<1>2. ASSUME NoPage PROVE Goal
  BY <1>2 DEF NoPage, Empty
<1>3. ASSUME Writing PROVE Goal
  BY <1>1, <1>2, <1>3, WritersLeavePage DEF pageVars
<1>4. ASSUME TtlPasses \/ Ask \/ Match \/ SetExpiry \/ UNCHANGED vars PROVE Goal
  <2>1. order' = order /\ left' = left
    BY <1>4, Zenon DEF TtlPasses, Ask, Match, SetExpiry, pageVars, vars
  <2> QED
    BY <1>1, <2>1
<1>5. ASSUME Fetch PROVE Goal
  <2>1. /\ order' = zset \/ order' = Empty
        /\ left' = left /\ reader = "fetching" /\ UNCHANGED committed
    BY <1>5, Zenon DEF Fetch, rowVars
  <2>2. left = {}
    BY <2>1 DEF IInv, PageInv
  <2> QED
    BY <1>0, <2>1, <2>2 DEF Empty
<1>6. ASSUME Load PROVE Goal
  BY <1>0, <1>6 DEF Load, rowVars
<1>7. ASSUME NEW u \in Users, Fill(u) PROVE Goal
  BY <1>1, <1>7 DEF Fill
<1>8. ASSUME Serve PROVE Goal
  BY <1>2, <1>8 DEF Serve
<1> QED
  <2> HIDE DEF Goal
  <2> QED
    BY NextSplit, <1>3, <1>4, <1>5, <1>6, <1>7, <1>8 DEF Page

LEMMA NothingInventedStep == IInv /\ [Next]_vars => NothingInvented'
<1> SUFFICES ASSUME IInv, [Next]_vars PROVE NothingInvented'
  OBVIOUS
<1>0. /\ ScoreInv /\ NothingInvented
      /\ committed \subseteq committed'
  BY HistoryGrows DEF IInv
<1>1. ASSUME zset' = zset PROVE NothingInvented'
  BY <1>0, <1>1 DEF NothingInvented
<1>2. ASSUME NEW u, NEW score, <<u, score>> \in committed, ZAdd(u, score) PROVE NothingInvented'
  BY <1>0, <1>2 DEF NothingInvented, ZAdd
<1>3. ASSUME NEW x \in Writers, PublishScore(x) PROVE NothingInvented'
  <2>1. <<User(x), Score(standing[x])>> \in committed /\ ZAdd(User(x), Score(standing[x]))
    BY <1>0, <1>3, Zenon DEF ScoreInv, PublishScore
  <2> QED
    BY <1>2, <2>1, Zenon
<1>4. ASSUME NEW u \in Users, Fill(u) PROVE NothingInvented'
  <2>1. <<u, order[u]>> \in committed /\ ZAdd(u, order[u])
    BY <1>0, <1>4 DEF ScoreInv, Fill
  <2> QED
    BY <1>2, <2>1, Zenon
<1>5. ASSUME TtlPasses PROVE NothingInvented'
  BY <1>5 DEF TtlPasses, NothingInvented, Empty
<1>6. ASSUME Writing, ~\E x \in Writers : PublishScore(x) PROVE zset' = zset
  BY <1>6, Zenon DEF Writing, redisVars, Submitting, Publish, PublishFails, Close, Duplicate, SaveVerdict, Saving,
    Lock, Commit, RenewExpiry, Failing, CommitUnknown, Rollback, CrashDispatcher, CrashServer
<1>7. ASSUME Ask \/ Fetch \/ Match \/ Load \/ SetExpiry \/ Serve \/ UNCHANGED vars PROVE zset' = zset
  BY <1>7, Zenon DEF redisVars, Ask, Fetch, Match, Load, SetExpiry, Serve, vars
<1> QED
  BY NextSplit, <1>1, <1>3, <1>4, <1>5, <1>6, <1>7 DEF Page

-----------------------------------------------------------------------------
(* The page.                                                               *)

LEMMA PageStep == IInv /\ [Next]_vars => PageInv' /\ BoardIsWhole'
<1> DEFINE Goal == PageInv' /\ BoardIsWhole'
<1> SUFFICES ASSUME IInv, [Next]_vars PROVE Goal
  OBVIOUS
<1>0. PageInv /\ BoardIsWhole /\ DOMAIN rank \subseteq DOMAIN rank'
  BY HistoryGrows DEF IInv
<1> USE DEF PageInv, BoardIsWhole
<1>1. ASSUME UNCHANGED pageVars PROVE Goal
  BY <1>0, <1>1 DEF pageVars
<1>2. ASSUME NoPage PROVE Goal
  BY <1>2 DEF NoPage
<1>3. ASSUME Writing PROVE Goal
  BY <1>1, <1>2, <1>3, WritersLeavePage, Zenon
<1>4. ASSUME TtlPasses \/ UNCHANGED vars PROVE Goal
  BY <1>1, <1>4, Zenon DEF TtlPasses, vars
<1>5. ASSUME Ask PROVE Goal
  BY <1>0, <1>5 DEF Ask, rowVars
<1>6. ASSUME Fetch PROVE Goal
  BY <1>0, <1>6 DEF Fetch
<1>7. ASSUME Match PROVE Goal
  BY <1>0, <1>7 DEF Match, Complete, Restrict
<1>8. ASSUME Load PROVE Goal
  BY <1>0, <1>8 DEF Load
<1>9. ASSUME NEW u \in Users, Fill(u) PROVE Goal
  BY <1>0, <1>9 DEF Fill
<1>10. ASSUME SetExpiry PROVE Goal
  BY <1>0, <1>10 DEF SetExpiry
<1>11. ASSUME Serve PROVE Goal
  BY <1>2, <1>11, Zenon DEF Serve
<1> QED
  <2> HIDE DEF Goal
  <2> QED
    BY NextSplit, <1>3, <1>4, <1>5, <1>6, <1>7, <1>8, <1>9, <1>10, <1>11 DEF Page

-----------------------------------------------------------------------------
(* Types.                                                                  *)

\* A delivery is there until its verdict has been committed.
CopiesInv == InTransaction(Dispatcher) => copies[judged] > 0

TablesTyped ==
    /\ copies \in [Subs -> Nat]
    /\ stats \in [Users -> [Problems -> ProblemStats]]
    /\ ByUser(rank, RankStats)
    /\ disturbed \in SUBSET (Users \X Problems)
    /\ committed \in SUBSET (Users \X Int)

LocalsTyped ==
    /\ found \in [Writers -> ProblemStats]
    /\ standing \in [Writers -> RankStats]

BoardTyped ==
    /\ ByUser(zset, Int)
    /\ ttl \in BOOLEAN
    /\ reader \in {"idle", "fetching", "matching", "loading", "filling", "serving"}
    /\ ByUser(order, Int)
    /\ ByUser(shown, RankStats)
    /\ left \in SUBSET Users
    /\ ranked \in SUBSET Users
    /\ faults \in 0..MaxFaults

TypesInv == TablesTyped /\ LocalsTyped /\ BoardTyped /\ CopiesInv

LEMMA WhoseTyped ==
    ASSUME IInv, NEW x \in Writers, Saves(x)
    PROVE  SubOf(x) \in Subs /\ User(x) \in Users /\ Problem(x) \in Problems
<1>1. SubOf(x) \in Subs
  BY DEF IInv, LockInv
<1>. QED
  BY <1>1, LeaderboardAssumption DEF User, Problem

LEMMA EmptyTyped == \A S : ByUser(Empty, S)
  BY DEF ByUser, Empty

LEMMA LocalsStep ==
    ASSUME IInv, TypesInv, [Next]_vars
    PROVE  LocalsTyped'
<1>0. Shape /\ LocalsTyped
  BY DEF IInv, TypesInv
<1>1. NoStats \in ProblemStats /\ NoStanding \in RankStats
  BY DEF NoStats, NoStanding, ProblemStats, RankStats
<1> USE DEF txnVars
<1>2. ASSUME UNCHANGED <<found, standing>> PROVE LocalsTyped'
  BY <1>0, <1>2 DEF LocalsTyped
<1>3. ASSUME NEW x \in Writers, Return(x) PROVE LocalsTyped'
  BY <1>0, <1>1, <1>3 DEF LocalsTyped, Return
<1>4. ASSUME NEW x \in Writers, Lock(x) PROVE LocalsTyped'
  <2>1. CASE Counts(x)
    <3> DEFINE own == Recount([rows EXCEPT ![SubOf(x)] = to[x]], User(x), Problem(x))
               mine == Sums([stats[User(x)] EXCEPT ![Problem(x)] = own])
    <3>1. found' = [found EXCEPT ![x] = own] /\ standing' = [standing EXCEPT ![x] = mine]
      BY <1>4, <2>1, Zenon DEF Lock, Recomputed
    <3>2. User(x) \in Users
      BY <1>4, WhoseTyped DEF Lock, Saves
    <3>3. own \in ProblemStats
      BY RecountTyped
    <3> HIDE DEF own
    <3>4. [stats[User(x)] EXCEPT ![Problem(x)] = own] \in [Problems -> ProblemStats]
      BY <3>2, <3>3 DEF TypesInv, TablesTyped
    <3>5. mine \in RankStats
      BY <3>4, SumsTyped
    <3> HIDE DEF mine
    <3>. QED
      BY <1>0, <3>1, <3>3, <3>5 DEF LocalsTyped
  <2>2. CASE ~Counts(x)
    BY <1>2, <1>4, <2>2 DEF Lock
  <2>. QED
    BY <2>1, <2>2
<1>5. ASSUME NEW x \in Writers, Commit(x) PROVE LocalsTyped'
  BY <1>2, <1>3, <1>5, Zenon DEF Commit
<1>6. ASSUME NEW x \in Writers, RenewExpiry(x) \/ Failing(x) PROVE LocalsTyped'
  BY <1>3, <1>6, Zenon DEF RenewExpiry, Failing, CommitUnknown, Rollback
<1>7. ASSUME CrashDispatcher PROVE LocalsTyped'
  BY <1>3, <1>7, Zenon DEF CrashDispatcher, Writers
<1>8. ASSUME CrashServer PROVE LocalsTyped'
  BY <1>0, <1>1, <1>8 DEF LocalsTyped, CrashServer
<1>9. ASSUME NEW s \in Subs, Submitting(s) \/ Duplicate(s) \/ \E v \in {"rejected", "accepted"} : SaveVerdict(s, v)
      PROVE  LocalsTyped'
  BY <1>2, <1>9 DEF Submitting, Publish, PublishFails, Close, Duplicate, SaveVerdict
<1>10. ASSUME NEW x \in Writers, PublishScore(x) PROVE LocalsTyped'
  BY <1>2, <1>10 DEF PublishScore
<1>11. ASSUME TtlPasses \/ Ask \/ Page \/ UNCHANGED vars PROVE LocalsTyped'
  BY <1>2, <1>11, PageIsReader
<1>. QED
  BY NextSplit, <1>4, <1>5, <1>6, <1>7, <1>8, <1>9, <1>10, <1>11 DEF Writing, Saving

LEMMA CopiesStep ==
    ASSUME IInv, copies \in [Subs -> Nat], CopiesInv, [Next]_vars
    PROVE  copies' \in [Subs -> Nat] /\ CopiesInv'
<1>0. /\ Shape /\ copies \in [Subs -> Nat]
      /\ InTransaction(Dispatcher) => judged \in Subs /\ copies[judged] > 0
  BY DEF IInv, LockInv, Saves, InTransaction, SubOf, CopiesInv, Writers
<1> DEFINE Goal == copies' \in [Subs -> Nat] /\ CopiesInv'
<1> USE LeaderboardAssumption DEF CopiesInv, InTransaction, Writers, txnVars, rowVars
<1>1. ASSUME UNCHANGED <<copies, judged>>, InTransaction(Dispatcher)' => InTransaction(Dispatcher)
      PROVE  Goal
  BY <1>0, <1>1
<1>2. ASSUME UNCHANGED copies, at'[Dispatcher] = "idle" PROVE Goal
  BY <1>0, <1>2
<1>3. ASSUME NEW s \in Subs, Publish(s) PROVE Goal
  BY <1>0, <1>3 DEF Publish, Shape
<1>4. ASSUME NEW s \in Subs, PublishFails(s) \/ Close(s) PROVE Goal
  BY <1>0, <1>1, <1>4 DEF PublishFails, Close, Shape
<1>5. ASSUME NEW s \in Subs, Duplicate(s) PROVE Goal
  BY <1>0, <1>5 DEF Duplicate
<1>6. ASSUME NEW s \in Subs, NEW v \in {"rejected", "accepted"}, SaveVerdict(s, v) PROVE Goal
  BY <1>0, <1>6 DEF SaveVerdict
<1>7. ASSUME NEW x \in Writers, Lock(x) PROVE Goal
  BY <1>0, <1>1, <1>7 DEF Lock, Shape
<1>8. ASSUME NEW x \in Writers, Return(x), UNCHANGED copies PROVE Goal
  <2>1. CASE x = Dispatcher
    BY <1>0, <1>2, <1>8, <2>1 DEF Return, Shape
  <2>2. CASE x # Dispatcher
    BY <1>0, <1>1, <1>8, <2>2 DEF Return, Shape
  <2>. QED
    BY <2>1, <2>2
<1>9. ASSUME NEW x \in Subs, Commit(x) PROVE Goal
  <2>1. copies' = copies
    BY <1>9 DEF Commit
  <2>2. CASE Counts(x)
    BY <1>0, <1>1, <1>9, <2>1, <2>2 DEF Commit, Shape
  <2>3. CASE ~Counts(x)
    BY <1>8, <1>9, <2>1, <2>3 DEF Commit
  <2>. QED
    BY <2>2, <2>3
<1>10. ASSUME Commit(Dispatcher) PROVE Goal
  <2>1. copies' = [copies EXCEPT ![judged] = @ - 1] /\ at[Dispatcher] = "locked"
    BY <1>10 DEF Commit
  <2>2. copies' \in [Subs -> Nat]
    BY <1>0, <2>1
  <2>3. at'[Dispatcher] \in {"zadd", "idle"}
    BY <1>0, <1>10 DEF Commit, Return, Shape
  <2>. QED
    BY <2>2, <2>3
<1>11. ASSUME NEW x \in Writers, PublishScore(x) PROVE Goal
  BY <1>0, <1>1, <1>11 DEF PublishScore, Shape
<1>12. ASSUME NEW x \in Writers, RenewExpiry(x) \/ Failing(x) PROVE Goal
  BY <1>8, <1>12, Zenon DEF RenewExpiry, Failing, CommitUnknown, Rollback
<1>13. ASSUME CrashDispatcher PROVE Goal
  BY <1>8, <1>13 DEF CrashDispatcher
<1>14. ASSUME CrashServer PROVE Goal
  BY <1>0, <1>1, <1>14 DEF CrashServer
<1>15. ASSUME TtlPasses \/ Ask \/ Page \/ UNCHANGED vars PROVE Goal
  <2>1. UNCHANGED copies
    BY <1>15, Zenon DEF TtlPasses, Ask, Page, Fetch, Match, Load, Fill, SetExpiry, Serve, vars
  <2>. QED
    BY <1>1, <1>15, <2>1, PageIsReader
<1>. QED
  <2> HIDE DEF Goal
  <2>1. ASSUME NEW x \in Writers, Commit(x) PROVE Goal
    BY <2>1, <1>9, <1>10
  <2>2. Goal
    BY NextSplit, <2>1, <1>3, <1>4, <1>5, <1>6, <1>7, <1>11, <1>12, <1>13, <1>14, <1>15
       DEF Writing, Submitting, Saving
  <2>. QED
    BY <2>2 DEF Goal

LEMMA TablesStep ==
    ASSUME IInv, TypesInv, [Next]_vars
    PROVE  TablesTyped'
<1>0. Shape /\ TablesTyped /\ LocalsTyped /\ CopiesInv
  BY DEF IInv, TypesInv
<1> DEFINE RowsTyped ==
             /\ stats \in [Users -> [Problems -> ProblemStats]]
             /\ ByUser(rank, RankStats)
             /\ disturbed \in SUBSET (Users \X Problems)
             /\ committed \in SUBSET (Users \X Int)
<1>1. RowsTyped'
  <2>1. ASSUME NEW x \in Writers, at[x] = "locked", Committed(x) PROVE RowsTyped'
    <3>1. SubOf(x) \in Subs /\ User(x) \in Users /\ Problem(x) \in Problems
      BY <2>1, WhoseTyped DEF Saves
    <3> DEFINE u == User(x)
               p == Problem(x)
    <3>2. found[x] \in ProblemStats /\ standing[x] \in RankStats
      BY <1>0 DEF LocalsTyped
    <3>3. disturbed' \in SUBSET (Users \X Problems)
      <4>1. \/ disturbed' = disturbed
            \/ disturbed' = disturbed \cup {<<u, p>>}
            \/ disturbed' = disturbed \ {<<u, p>>}
        BY <2>1, Zenon DEF Committed
      <4>. QED
        BY <1>0, <3>1, <4>1 DEF TablesTyped
    <3>4. CASE Counts(x)
      <4>1. /\ stats' = [stats EXCEPT ![u][p] = found[x]]
            /\ rank' = [v \in DOMAIN rank \cup {u} |-> IF v = u THEN standing[x] ELSE rank[v]]
            /\ committed' = committed \cup {<<u, Score(standing[x])>>}
        BY <2>1, <3>4, Zenon DEF Committed
      <4>2. Score(standing[x]) \in Int
        BY <3>2, ScoreTyped
      <4> HIDE DEF u, p
      <4>3. u \in Users /\ p \in Problems
        BY <3>1 DEF u, p
      <4>4. stats' \in [Users -> [Problems -> ProblemStats]]
        BY <1>0, <3>2, <4>1, <4>3 DEF TablesTyped
      <4>5. ByUser(rank', RankStats)
        BY <1>0, <3>2, <4>1, <4>3 DEF TablesTyped, ByUser
      <4>6. committed' \in SUBSET (Users \X Int)
        BY <1>0, <4>1, <4>2, <4>3 DEF TablesTyped
      <4>. QED
        BY <3>3, <4>4, <4>5, <4>6 DEF ByUser
    <3>5. CASE ~Counts(x)
      <4>1. UNCHANGED <<stats, rank, committed>>
        BY <2>1, <3>5 DEF Committed
      <4>. QED
        BY <1>0, <3>3, <4>1 DEF TablesTyped, ByUser
    <3>. QED
      BY <3>4, <3>5
  <2>2. ASSUME UNCHANGED <<rows, stats, rank, disturbed, committed>> PROVE RowsTyped'
    BY <1>0, <2>2 DEF TablesTyped, ByUser
  <2>. QED
    BY <2>1, <2>2, WhoWrites
<1>2. copies' \in [Subs -> Nat]
  BY <1>0, CopiesStep DEF TablesTyped
<1>. QED
  BY <1>1, <1>2 DEF TablesTyped

LEMMA BoardStep ==
    ASSUME IInv, TypesInv, [Next]_vars
    PROVE  BoardTyped'
<1>0. /\ Shape /\ TablesTyped /\ LocalsTyped /\ BoardTyped
      /\ left \subseteq DOMAIN order
      /\ MaxFaults \in Nat
  BY LeaderboardAssumption DEF IInv, TypesInv, ScoreInv
<1> DEFINE RedisTyped == ByUser(zset, Int) /\ ttl \in BOOLEAN
           PageTyped ==
             /\ reader \in {"idle", "fetching", "matching", "loading", "filling", "serving"}
             /\ ByUser(order, Int)
             /\ ByUser(shown, RankStats)
             /\ left \in SUBSET Users
             /\ ranked \in SUBSET Users
           FaultsTyped == faults \in 0..MaxFaults
<1> USE DEF redisVars, pageVars
<1>1. RedisTyped'
  <2>1. ASSUME UNCHANGED redisVars PROVE RedisTyped'
    BY <1>0, <2>1 DEF BoardTyped, ByUser
  <2>2. ASSUME NEW u \in Users, NEW score \in Int, ZAdd(u, score), ttl' = ttl PROVE RedisTyped'
    BY <1>0, <2>2 DEF ZAdd, BoardTyped, ByUser
  <2>3. ASSUME Expire, zset' = zset PROVE RedisTyped'
    BY <1>0, <2>3 DEF Expire, BoardTyped, ByUser
  <2>4. ASSUME NEW x \in Writers, PublishScore(x) PROVE RedisTyped'
    <3>1. User(x) \in Users
      BY <2>4, WhoseTyped DEF PublishScore, Saves
    <3>2. Score(standing[x]) \in Int
      BY <1>0, ScoreTyped DEF LocalsTyped
    <3>. QED
      BY <2>2, <2>4, <3>1, <3>2 DEF PublishScore
  <2>5. ASSUME NEW x \in Writers, RenewExpiry(x) PROVE RedisTyped'
    BY <2>3, <2>5 DEF RenewExpiry
  <2>6. ASSUME TtlPasses PROVE RedisTyped'
    BY <2>6, EmptyTyped DEF TtlPasses
  <2>7. ASSUME NEW u \in Users, Fill(u) PROVE RedisTyped'
    <3>1. order[u] \in Int
      BY <1>0, <2>7 DEF Fill, BoardTyped, ByUser
    <3>. QED
      BY <2>2, <2>7, <3>1 DEF Fill
  <2>8. ASSUME SetExpiry PROVE RedisTyped'
    BY <2>3, <2>8 DEF SetExpiry
  <2>9. ASSUME Writing, ~\E x \in Writers : PublishScore(x) \/ RenewExpiry(x) PROVE UNCHANGED redisVars
    BY <2>9, Zenon DEF Writing, Submitting, Publish, PublishFails, Close, Duplicate, SaveVerdict, Saving, Lock,
       Commit, Failing, CommitUnknown, Rollback, CrashDispatcher, CrashServer
  <2>10. ASSUME Ask \/ Fetch \/ Match \/ Load \/ Serve \/ UNCHANGED vars PROVE UNCHANGED redisVars
    BY <2>10, Zenon DEF Ask, Fetch, Match, Load, Serve, vars
  <2>. QED
    <3> HIDE DEF RedisTyped
    <3>. QED
      BY <2>1, <2>4, <2>5, <2>6, <2>7, <2>8, <2>9, <2>10, NextSplit DEF Page
<1>2. PageTyped'
  <2>1. ASSUME UNCHANGED pageVars PROVE PageTyped'
    BY <1>0, <2>1 DEF BoardTyped, ByUser
  <2>2. ASSUME NoPage PROVE PageTyped'
    BY <2>2, EmptyTyped DEF NoPage
  <2>3. ASSUME Writing PROVE PageTyped'
    BY <2>1, <2>2, <2>3, WritersLeavePage
  <2>4. ASSUME TtlPasses \/ UNCHANGED vars PROVE PageTyped'
    BY <2>1, <2>4, Zenon DEF TtlPasses, vars
  <2>5. ASSUME Ask PROVE PageTyped'
    BY <1>0, <2>5 DEF Ask, BoardTyped, TablesTyped, ByUser
  <2>6. ASSUME Fetch PROVE PageTyped'
    BY <1>0, <2>6, EmptyTyped DEF Fetch, BoardTyped, ByUser
  <2>7. ASSUME Match PROVE PageTyped'
    BY <1>0, <2>7 DEF Match, Restrict, BoardTyped, TablesTyped, ByUser
  <2>8. ASSUME Load PROVE PageTyped'
    <3>1. \A u \in DOMAIN rank : u \in Users /\ Score(rank[u]) \in Int
      BY <1>0, ScoreTyped DEF TablesTyped, ByUser
    <3>2. ByUser(order', Int) /\ left' \in SUBSET Users
      BY <2>8, <3>1 DEF Load, ByUser
    <3>. QED
      BY <1>0, <2>8, <3>2 DEF Load, BoardTyped, TablesTyped, ByUser
  <2>9. ASSUME NEW u \in Users, Fill(u) PROVE PageTyped'
    BY <1>0, <2>9 DEF Fill, BoardTyped, ByUser
  <2>10. ASSUME SetExpiry PROVE PageTyped'
    BY <1>0, <2>10 DEF SetExpiry, BoardTyped, ByUser
  <2>11. ASSUME Serve PROVE PageTyped'
    BY <2>2, <2>11 DEF Serve
  <2>. QED
    <3> HIDE DEF PageTyped
    <3>. QED
      BY <2>3, <2>4, <2>5, <2>6, <2>7, <2>8, <2>9, <2>10, <2>11, NextSplit DEF Page
<1>3. FaultsTyped'
  <2>1. faults' = faults \/ Spend
    BY Zenon DEF Next, Submitting, Publish, PublishFails, Close, Duplicate, SaveVerdict, Saving, Lock,
       Commit, PublishScore, ZAdd, RenewExpiry, Expire, Failing, CommitUnknown, Rollback, CrashDispatcher,
       CrashServer, TtlPasses, Ask, Page, Fetch, Match, Load, Fill, SetExpiry, Serve, vars
  <2>. QED
    BY <1>0, <2>1 DEF Spend, BoardTyped
<1>. QED
  <2>1. RedisTyped' /\ PageTyped' /\ FaultsTyped'
    BY <1>1, <1>2, <1>3
  <2>. QED
    BY <2>1 DEF BoardTyped

LEMMA TypesInitially == Init => TypesInv
<1> SUFFICES ASSUME Init PROVE TypesInv
  OBVIOUS
<1> USE DEF Init
<1>1. NoStats \in ProblemStats /\ NoStanding \in RankStats
  BY DEF NoStats, NoStanding, ProblemStats, RankStats
<1>2. TablesTyped
  BY <1>1, EmptyTyped DEF TablesTyped
<1>3. LocalsTyped
  BY <1>1 DEF LocalsTyped
<1>4. BoardTyped
  <2>1. ByUser(Empty, Int) /\ ByUser(Empty, RankStats)
    BY EmptyTyped
  <2>2. ByUser(zset, Int) /\ ByUser(order, Int) /\ ByUser(shown, RankStats)
    BY <2>1, Zenon
  <2>3. 0 \in 0..MaxFaults
    BY LeaderboardAssumption
  <2>. QED
    BY <2>2, <2>3 DEF BoardTyped
<1>5. CopiesInv
  BY DEF CopiesInv, InTransaction, Writers
<1>. QED
  BY <1>2, <1>3, <1>4, <1>5 DEF TypesInv

-----------------------------------------------------------------------------
(* Theorems.                                                               *)

LEMMA Stepwise == IInv /\ [Next]_vars => IInv'
  BY ShapeStep, LockStep, ViewStep, StatsStep, RankScoreStep, ZaddStep, OrderStep, NothingInventedStep, PageStep
     DEF IInv, ScoreInv

\* The invariant holds in every reachable state.
THEOREM BoardInductive == Spec => []IInv
  BY Initially, Stepwise, PTL DEF Spec

\* update_submission recomputes the statistics under the lock of the assignment,
\* so they are never based on rows another transaction is about to change.
THEOREM StatsAreCurrent == Spec => []StatsCurrent
<1>1. IInv => StatsCurrent
  BY DEF IInv
<1> QED
  BY BoardInductive, <1>1, PTL

\* The rank row of a user is the sum of the user's problem rows.
THEOREM RanksAreCurrent == Spec => []RankCurrent
<1>1. IInv => RankCurrent
  BY DEF IInv
<1> QED
  BY BoardInductive, <1>1, PTL

\* Redis never holds a score that was not committed to MySQL.
THEOREM ScoresAreCommitted == Spec => []NothingInvented
<1>1. IInv => NothingInvented
  BY DEF IInv
<1> QED
  BY BoardInductive, <1>1, PTL

\* A page misses nobody who was ranked when it was asked for.
THEOREM BoardsAreWhole == Spec => []BoardIsWhole
<1>1. IInv => BoardIsWhole
  BY DEF IInv
<1> QED
  BY BoardInductive, <1>1, PTL

\* The tables, the transactions, Redis and the page keep their types: counts and
\* sums are numbers, and a delivery is committed no more often than it was made.
THEOREM BoardTypes == Spec => []TypeOK
<1>1. IInv /\ TypesInv /\ [Next]_vars => IInv' /\ TypesInv'
  BY Stepwise, LocalsStep, TablesStep, BoardStep, CopiesStep DEF TypesInv, TablesTyped
<1>2. IInv /\ TypesInv => TypeOK
  BY DEF IInv, Shape, Phases, TypesInv, TablesTyped, LocalsTyped, BoardTyped, TypeOK
<1>. QED
  BY Initially, TypesInitially, <1>1, <1>2, PTL DEF Spec

=============================================================================
