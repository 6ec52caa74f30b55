-------------------------- MODULE WorkerPoolProofs --------------------------
(***************************************************************************)
(* Proofs about the worker pool, for every number of workers, every set of *)
(* concurrent calls, every cooldown and every read timeout.                *)
(***************************************************************************)
EXTENDS WorkerPool, TLAPS, FiniteSetTheorems, Integers

Open == {"idle", "choosing", "waiting"}

\* The workers a call has seen fail.
Failed(c) == IF at[c] = "waiting" THEN tried[c] \ {worker[c]} ELSE tried[c]

NoFailure == \A c \in Calls : attempt[c] = 0

\* What the phase of a call says of its other variables.
PhaseInv ==
    \A c \in Calls :
        /\ at[c] = "idle" => attempt[c] = 0 /\ tried[c] = {}
        /\ at[c] = "waiting" => attempt[c] < N /\ worker[c] \in tried[c]
        /\ at[c] # "waiting" => waited[c] = 0

\* Every failed try took at most one read timeout.
BoundInv ==
    \A c \in Calls :
        IF at[c] = "answered" THEN elapsed[c] <= N * ReadTimeout
        ELSE elapsed[c] <= attempt[c] * ReadTimeout + waited[c]

\* Before a cooldown has passed every worker that failed a call is still
\* cooling down, so no try of the call went to one of them again.
HonestInv ==
    \A c \in Calls :
        at[c] \in Open /\ elapsed[c] < Cooldown =>
            /\ Cardinality(Failed(c)) = attempt[c]
            /\ \A w \in Failed(c) : cooling[w] + elapsed[c] >= Cooldown

\* Without failures the workers before the index are one turn ahead.
RotationInv ==
    NoFailure => \E q \in Nat : \A w \in Workers :
        cooling[w] = 0 /\ turns[w] = IF w < next THEN q + 1 ELSE q

IInv == TypeOK /\ PhaseInv /\ BoundInv /\ HonestInv /\ RotationInv

-----------------------------------------------------------------------------
(* Arithmetic and finite sets.                                             *)

\* The index wraps around after the last worker.
LEMMA FollowingWraps ==
    ASSUME NEW w \in Workers
    PROVE  Following(w) = IF w = N - 1 THEN 0 ELSE w + 1
  BY WorkerPoolAssumption, SMT DEF Following, Workers

\* Products with the number of tries, for a prover that does linear arithmetic.
LEMMA OneMoreTry ==
    ASSUME NEW a \in Nat, a < N
    PROVE  /\ (a + 1) * ReadTimeout <= N * ReadTimeout
           /\ (a + 1) * ReadTimeout = a * ReadTimeout + ReadTimeout
           /\ a * ReadTimeout \in Nat
           /\ N * ReadTimeout \in Nat
  BY WorkerPoolAssumption, SMT

\* A set of workers is finite, and as large as the pool only if it is the pool.
LEMMA WorkersCounted ==
    ASSUME NEW S \in SUBSET Workers
    PROVE  IsFiniteSet(S) /\ (Cardinality(S) >= N => S = Workers)
<1>1. IsFiniteSet(Workers) /\ Cardinality(Workers) = N
  <2>1. 0 \in Int /\ N - 1 \in Int /\ ~(0 > N - 1) /\ (N - 1) - 0 + 1 = N
    BY WorkerPoolAssumption, SMT
  <2> QED
    BY <2>1, FS_Interval, Zenon DEF Workers
<1>2. /\ IsFiniteSet(S)
      /\ Cardinality(S) <= Cardinality(Workers)
      /\ Cardinality(Workers) = Cardinality(S) => Workers = S
  BY <1>1, FS_Subset, Zenon
<1>3. Cardinality(S) \in Nat
  BY <1>2, FS_CardinalityType, Zenon
<1>4. Cardinality(S) >= N => Cardinality(Workers) = Cardinality(S)
  BY <1>1, <1>2, <1>3, WorkerPoolAssumption, SMT
<1> QED
  BY <1>2, <1>4, Zenon

-----------------------------------------------------------------------------
(* The invariant holds initially.                                          *)

LEMMA Initially == Init => IInv
<1> SUFFICES ASSUME Init PROVE IInv
  OBVIOUS
<1> USE DEF Init
<1>1. TypeOK
  BY WorkerPoolAssumption DEF TypeOK, Workers
<1>2. PhaseInv
  BY DEF PhaseInv
<1>3. BoundInv
  BY WorkerPoolAssumption, SMT DEF BoundInv
<1>4. HonestInv
  BY FS_EmptySet DEF HonestInv, Failed
<1>5. RotationInv
  BY DEF RotationInv, Workers
<1> QED
  BY <1>1, <1>2, <1>3, <1>4, <1>5 DEF IInv

-----------------------------------------------------------------------------
(* Every step preserves each conjunct.                                     *)

LEMMA TypeStep == IInv /\ [Next]_vars => TypeOK'
<1> SUFFICES ASSUME IInv, [Next]_vars PROVE TypeOK'
  OBVIOUS
<1> USE WorkerPoolAssumption DEF IInv, TypeOK, PhaseInv, poolVars, callVars
<1>1. ASSUME NEW c \in Calls, Begin(c) PROVE TypeOK'
  BY <1>1 DEF Begin, Returned
<1>2. ASSUME NEW c \in Calls, Select(c) PROVE TypeOK'
  <2>1. PICK w \in Workers :
          /\ next' = Following(w)
          /\ worker' = [worker EXCEPT ![c] = w]
          /\ tried' = [tried EXCEPT ![c] = @ \cup {w}]
          /\ turns' = [turns EXCEPT ![w] = @ + 1]
    BY <1>2 DEF Select
  <2>2. next' \in Workers
    <3> HIDE DEF IInv, TypeOK, PhaseInv
    <3>1. next' = IF w = N - 1 THEN 0 ELSE w + 1
      BY <2>1, FollowingWraps, Zenon
    <3> QED
      BY <3>1, SMT DEF Workers
  <2>3. worker' \in [Calls -> Workers] /\ tried' \in [Calls -> SUBSET Workers]
    BY <2>1
  <2>4. turns' \in [Workers -> Nat]
    BY <2>1
  <2>5. UNCHANGED <<cooling, attempt, waited, elapsed>> /\ at' = [at EXCEPT ![c] = "waiting"]
    BY <1>2 DEF Select
  <2> QED
    BY <2>2, <2>3, <2>4, <2>5
<1>3. ASSUME NEW c \in Calls, GiveUp(c) PROVE TypeOK'
  BY <1>3 DEF GiveUp, Returned
<1>4. ASSUME NEW c \in Calls, Answer(c) PROVE TypeOK'
  BY <1>4 DEF Answer, Returned
<1>5. ASSUME NEW c \in Calls, Fail(c) PROVE TypeOK'
  BY <1>5 DEF Fail, CoolDown, CountTry
<1>6. ASSUME Tick PROVE TypeOK'
  BY <1>6 DEF Tick
<1>7. CASE UNCHANGED vars
  BY <1>7 DEF vars
<1> QED
  BY <1>1, <1>2, <1>3, <1>4, <1>5, <1>6, <1>7 DEF Next, Step, Return

LEMMA PhaseStep == IInv /\ [Next]_vars => PhaseInv'
<1> SUFFICES ASSUME IInv, [Next]_vars PROVE PhaseInv'
  OBVIOUS
<1> USE WorkerPoolAssumption DEF IInv, TypeOK, PhaseInv, poolVars, callVars
<1>1. ASSUME NEW c \in Calls, Begin(c) PROVE PhaseInv'
  BY <1>1 DEF Begin
<1>2. ASSUME NEW c \in Calls, Select(c) PROVE PhaseInv'
  BY <1>2 DEF Select, TriesLeft
<1>3. ASSUME NEW c \in Calls, GiveUp(c) PROVE PhaseInv'
  BY <1>3 DEF GiveUp
<1>4. ASSUME NEW c \in Calls, Answer(c) PROVE PhaseInv'
  BY <1>4 DEF Answer
<1>5. ASSUME NEW c \in Calls, Fail(c) PROVE PhaseInv'
  BY <1>5 DEF Fail, CountTry
<1>6. ASSUME Tick PROVE PhaseInv'
  BY <1>6 DEF Tick
<1>7. CASE UNCHANGED vars
  BY <1>7 DEF vars
<1> QED
  BY <1>1, <1>2, <1>3, <1>4, <1>5, <1>6, <1>7 DEF Next, Step, Return

LEMMA BoundStep == IInv /\ [Next]_vars => BoundInv'
<1> SUFFICES ASSUME IInv, [Next]_vars PROVE BoundInv'
  OBVIOUS
<1> USE DEF IInv, TypeOK, PhaseInv, BoundInv, poolVars, callVars
<1>1. ASSUME NEW c \in Calls, Begin(c) PROVE BoundInv'
  BY <1>1 DEF Begin
<1>2. ASSUME NEW c \in Calls, Select(c) PROVE BoundInv'
  BY <1>2 DEF Select
<1>3. ASSUME NEW c \in Calls, GiveUp(c) PROVE BoundInv'
  BY <1>3 DEF GiveUp
<1>4. ASSUME NEW c \in Calls, Answer(c) PROVE BoundInv'
  <2>1. elapsed[c] <= attempt[c] * ReadTimeout + waited[c] /\ attempt[c] < N
    BY <1>4 DEF Answer
  <2>2. elapsed[c] <= N * ReadTimeout
    <3>1. /\ attempt[c] \in Nat /\ elapsed[c] \in Nat
          /\ waited[c] \in Nat /\ waited[c] <= ReadTimeout
      BY WorkerPoolAssumption
    <3>2. /\ attempt[c] * ReadTimeout + ReadTimeout <= N * ReadTimeout
          /\ attempt[c] * ReadTimeout \in Nat /\ N * ReadTimeout \in Nat
      BY <2>1, <3>1, OneMoreTry, Zenon
    <3> HIDE DEF IInv, TypeOK, PhaseInv, BoundInv
    <3> QED
      BY <2>1, <3>1, <3>2, WorkerPoolAssumption, SMT
  <2> QED
    BY <1>4, <2>2 DEF Answer
<1>5. ASSUME NEW c \in Calls, Fail(c) PROVE BoundInv'
  <2>1. elapsed[c] <= attempt[c] * ReadTimeout + waited[c] /\ attempt[c] < N
    BY <1>5 DEF Fail
  <2>2. elapsed[c] <= (attempt[c] + 1) * ReadTimeout + 0
    <3>1. /\ attempt[c] \in Nat /\ elapsed[c] \in Nat
          /\ waited[c] \in Nat /\ waited[c] <= ReadTimeout
      BY WorkerPoolAssumption
    <3>2. /\ (attempt[c] + 1) * ReadTimeout = attempt[c] * ReadTimeout + ReadTimeout
          /\ attempt[c] * ReadTimeout \in Nat
      BY <2>1, <3>1, OneMoreTry, Zenon
    <3> HIDE DEF IInv, TypeOK, PhaseInv, BoundInv
    <3> QED
      BY <2>1, <3>1, <3>2, WorkerPoolAssumption, SMT
  <2> QED
    BY <1>5, <2>2 DEF Fail, CountTry
<1>6. ASSUME Tick PROVE BoundInv'
  BY <1>6, OneMoreTry, WorkerPoolAssumption DEF Tick
<1>7. CASE UNCHANGED vars
  BY <1>7 DEF vars
<1> QED
  BY <1>1, <1>2, <1>3, <1>4, <1>5, <1>6, <1>7 DEF Next, Step, Return

\* Only the failing call gains a failed worker, and no cooldown gets shorter
\* than the time that has passed since the failure.
LEMMA HonestStep == IInv /\ [Next]_vars => HonestInv'
<1> SUFFICES ASSUME IInv, [Next]_vars PROVE HonestInv'
  OBVIOUS
<1> USE DEF IInv, TypeOK, PhaseInv, HonestInv, Failed, Open, poolVars, callVars
<1>1. ASSUME NEW c \in Calls, Begin(c) PROVE HonestInv'
  BY <1>1 DEF Begin
<1>2. ASSUME NEW c \in Calls, Select(c) PROVE HonestInv'
  <2>1. PICK w \in Workers :
          /\ Selected(w)
          /\ worker' = [worker EXCEPT ![c] = w]
          /\ tried' = [tried EXCEPT ![c] = @ \cup {w}]
    BY <1>2 DEF Select
  <2>2. at[c] = "choosing" /\ UNCHANGED <<cooling, attempt, elapsed>>
        /\ at' = [at EXCEPT ![c] = "waiting"]
    BY <1>2 DEF Select
  <2>3. elapsed[c] < Cooldown => w \notin tried[c]
    <3>1. cooling[w] = 0 /\ elapsed[c] \in Nat
      BY <2>1 DEF Selected, Available
    <3>2. elapsed[c] < Cooldown => \A v \in tried[c] : cooling[v] + elapsed[c] >= Cooldown
      BY <2>2
    <3> QED
      BY <3>1, <3>2, WorkerPoolAssumption
  <2>4. elapsed[c] < Cooldown => Failed(c)' = Failed(c)
    BY <2>1, <2>2, <2>3
  <2>5. \A d \in Calls \ {c} : Failed(d)' = Failed(d)
    BY <2>1, <2>2
  <2>6. ASSUME NEW d \in Calls, at'[d] \in Open, elapsed'[d] < Cooldown
        PROVE  /\ Cardinality(Failed(d)') = attempt'[d]
               /\ \A v \in Failed(d)' : cooling'[v] + elapsed'[d] >= Cooldown
    <3>1. at[d] \in Open /\ elapsed[d] < Cooldown
      BY <2>2, <2>6
    <3>2. Failed(d)' = Failed(d)
      BY <2>2, <2>4, <2>5, <3>1
    <3>3. /\ Cardinality(Failed(d)) = attempt[d]
          /\ \A v \in Failed(d) : cooling[v] + elapsed[d] >= Cooldown
      BY <3>1
    <3> HIDE DEF Failed
    <3> QED
      BY <2>2, <3>2, <3>3
  <2> QED
    BY <2>6
<1>3. ASSUME NEW c \in Calls, GiveUp(c) PROVE HonestInv'
  BY <1>3 DEF GiveUp
<1>4. ASSUME NEW c \in Calls, Answer(c) PROVE HonestInv'
  BY <1>4 DEF Answer
<1>5. ASSUME NEW c \in Calls, Fail(c) PROVE HonestInv'
  <2>1. /\ at[c] = "waiting" /\ at' = [at EXCEPT ![c] = "choosing"]
        /\ cooling' = [cooling EXCEPT ![worker[c]] = Cooldown]
        /\ attempt' = [attempt EXCEPT ![c] = @ + 1]
        /\ UNCHANGED <<worker, tried, elapsed>>
    BY <1>5 DEF Fail, CoolDown, CountTry
  <2>2. \A w \in Workers : cooling'[w] >= cooling[w]
    BY <2>1, WorkerPoolAssumption
  <2>3. \A d \in Calls \ {c} : Failed(d)' = Failed(d)
    BY <2>1
  <2>4. Failed(c)' = tried[c] /\ worker[c] \in tried[c] /\ Failed(c) = tried[c] \ {worker[c]}
    BY <2>1
  <2>5. Cardinality(tried[c]) = Cardinality(tried[c] \ {worker[c]}) + 1
    <3>1. IsFiniteSet(tried[c]) /\ Cardinality(tried[c]) \in Nat
      BY WorkersCounted, FS_CardinalityType
    <3> HIDE DEF IInv, TypeOK, PhaseInv, HonestInv, Failed
    <3>2. Cardinality(tried[c] \ {worker[c]}) = Cardinality(tried[c]) - 1
      <4>1. Cardinality(tried[c] \ {worker[c]}) =
              IF worker[c] \in tried[c] THEN Cardinality(tried[c]) - 1
              ELSE Cardinality(tried[c])
        BY <3>1, FS_RemoveElement, Zenon
      <4> QED
        BY <2>4, <4>1, Zenon
    <3> QED
      BY <3>1, <3>2
  <2>6. \A w \in tried[c] : w = worker[c] \/ w \in Failed(c)
    BY <2>4
  <2>7. cooling'[worker[c]] = Cooldown
    BY <2>1
  <2>8. elapsed'[c] < Cooldown =>
          /\ Cardinality(Failed(c)') = attempt'[c]
          /\ \A w \in Failed(c)' : cooling'[w] + elapsed'[c] >= Cooldown
    <3> SUFFICES ASSUME elapsed'[c] < Cooldown
                 PROVE  /\ Cardinality(Failed(c)') = attempt'[c]
                        /\ \A w \in Failed(c)' : cooling'[w] + elapsed'[c] >= Cooldown
      OBVIOUS
    <3>1. /\ Cardinality(Failed(c)) = attempt[c]
          /\ \A w \in Failed(c) : cooling[w] + elapsed[c] >= Cooldown
      BY <2>1
    <3>2. Cardinality(Failed(c)') = attempt'[c]
      <4>1. attempt'[c] = attempt[c] + 1
        BY <2>1
      <4> HIDE DEF IInv, TypeOK, PhaseInv, HonestInv, Failed
      <4> QED
        BY <2>4, <2>5, <3>1, <4>1
    <3>3. ASSUME NEW w \in tried[c] PROVE cooling'[w] + elapsed'[c] >= Cooldown
      <4>1. /\ w \in Workers /\ cooling[w] \in Nat /\ cooling'[w] \in Nat
            /\ elapsed'[c] = elapsed[c] /\ elapsed[c] \in Nat
        BY <2>1, WorkerPoolAssumption
      <4> HIDE DEF IInv, TypeOK, PhaseInv, HonestInv, Failed
      <4> QED
        BY <2>2, <2>6, <2>7, <3>1, <4>1, WorkerPoolAssumption
    <3> QED
      BY <2>4, <3>2, <3>3
  <2>9. \A d \in Calls \ {c} : at[d] \in Open /\ elapsed[d] < Cooldown =>
          \A w \in Failed(d)' : cooling'[w] + elapsed'[d] >= Cooldown
    <3> SUFFICES ASSUME NEW d \in Calls \ {c}, at[d] \in Open, elapsed[d] < Cooldown,
                        NEW w \in Failed(d)
                 PROVE  cooling'[w] + elapsed'[d] >= Cooldown
      BY <2>3
    <3>1. /\ w \in Workers /\ cooling[w] \in Nat /\ cooling'[w] \in Nat
          /\ elapsed'[d] = elapsed[d] /\ elapsed[d] \in Nat
      BY <2>1, WorkerPoolAssumption
    <3>2. cooling[w] + elapsed[d] >= Cooldown
      OBVIOUS
    <3> HIDE DEF IInv, TypeOK, PhaseInv, HonestInv, Failed
    <3> QED
      BY <2>2, <3>1, <3>2, WorkerPoolAssumption
  <2> QED
    BY <2>1, <2>3, <2>8, <2>9
<1>6. ASSUME Tick PROVE HonestInv'
  <2>1. \A d \in Calls : Failed(d)' = Failed(d) /\ at'[d] = at[d] /\ attempt'[d] = attempt[d]
    BY <1>6 DEF Tick
  <2>2. \A d \in Calls : at[d] # "waiting" => elapsed'[d] = elapsed[d]
    BY <1>6 DEF Tick
  <2>3. \A d \in Calls : at[d] = "waiting" => elapsed'[d] = elapsed[d] + 1
    BY <1>6 DEF Tick
  <2>4. \A d \in Calls : at[d] \in Open => at[d] = "waiting" \/ Failed(d) = {}
    BY <1>6 DEF Tick
  <2>5. \A w \in Workers : cooling'[w] + 1 >= cooling[w] /\ cooling'[w] \in Nat
    BY <1>6, WorkerPoolAssumption DEF Tick
  <2>6. ASSUME NEW d \in Calls, at[d] = "waiting", elapsed'[d] < Cooldown,
               NEW w \in Failed(d)
        PROVE  cooling'[w] + elapsed'[d] >= Cooldown
    <3>1. /\ w \in Workers /\ cooling[w] \in Nat /\ elapsed[d] \in Nat
          /\ elapsed'[d] = elapsed[d] + 1
      BY <2>3, <2>6
    <3>2. elapsed[d] < Cooldown
      <4> HIDE DEF IInv, TypeOK, PhaseInv, HonestInv, Failed
      <4> QED
        BY <2>6, <3>1, WorkerPoolAssumption
    <3>3. cooling[w] + elapsed[d] >= Cooldown
      BY <2>6, <3>2
    <3> HIDE DEF IInv, TypeOK, PhaseInv, HonestInv, Failed
    <3> QED
      BY <2>5, <3>1, <3>3, WorkerPoolAssumption
  <2>7. ASSUME NEW d \in Calls, at'[d] \in Open, elapsed'[d] < Cooldown
        PROVE  /\ Cardinality(Failed(d)') = attempt'[d]
               /\ \A w \in Failed(d)' : cooling'[w] + elapsed'[d] >= Cooldown
    <3>1. elapsed[d] < Cooldown
      BY <2>2, <2>3, <2>7, WorkerPoolAssumption
    <3> QED
      BY <2>1, <2>4, <2>6, <2>7, <3>1
  <2> QED
    BY <2>7
<1>7. CASE UNCHANGED vars
  BY <1>7 DEF vars
<1> QED
  BY <1>1, <1>2, <1>3, <1>4, <1>5, <1>6, <1>7 DEF Next, Step, Return

\* A selection moves the index to the next worker and, after the last one,
\* starts a new round.
LEMMA RotationStep == IInv /\ [Next]_vars => RotationInv'
<1> SUFFICES ASSUME IInv, [Next]_vars PROVE RotationInv'
  OBVIOUS
<1> USE DEF IInv, TypeOK, RotationInv, NoFailure, poolVars, callVars
<1>1. ASSUME NEW c \in Calls, Begin(c) PROVE RotationInv'
  BY <1>1 DEF Begin
<1>2. ASSUME NEW c \in Calls, Select(c) PROVE RotationInv'
  <2> SUFFICES ASSUME NoFailure
               PROVE  \E q \in Nat : \A v \in Workers :
                        cooling'[v] = 0 /\ turns'[v] = IF v < next' THEN q + 1 ELSE q
    BY <1>2 DEF Select
  <2>1. PICK q \in Nat : \A v \in Workers :
          cooling[v] = 0 /\ turns[v] = IF v < next THEN q + 1 ELSE q
    OBVIOUS
  <2>2. PICK w \in Workers :
          /\ Selected(w)
          /\ next' = Following(w)
          /\ turns' = [turns EXCEPT ![w] = @ + 1]
    BY <1>2 DEF Select
  <2>3. cooling' = cooling
    BY <1>2 DEF Select
  <2>4. w = next
    <3>1. next \in Available /\ Offset(w) <= Offset(next)
      BY <2>1, <2>2 DEF Selected, Available
    <3>2. w \in 0..(N - 1) /\ next \in 0..(N - 1)
      BY DEF Workers
    <3> HIDE DEF IInv, TypeOK, RotationInv
    <3> QED
      BY <3>1, <3>2, WorkerPoolAssumption, SMT DEF Offset
  <2>5. next' = IF w = N - 1 THEN 0 ELSE w + 1
    <3> HIDE DEF IInv, TypeOK, RotationInv
    <3> QED
      BY <2>2, FollowingWraps, Zenon
  <2>6. /\ w \in 0..(N - 1)
        /\ \A v \in Workers : v \in 0..(N - 1)
        /\ \A v \in Workers : turns'[v] = IF v = w THEN turns[v] + 1 ELSE turns[v]
    BY <2>2 DEF Workers
  <2> HIDE DEF IInv, TypeOK, RotationInv
  <2>7. CASE w = N - 1
    <3>1. \A v \in Workers :
            cooling'[v] = 0 /\ turns'[v] = IF v < next' THEN (q + 1) + 1 ELSE q + 1
      BY <2>1, <2>3, <2>4, <2>5, <2>6, <2>7, WorkerPoolAssumption, SMT
    <3>2. q + 1 \in Nat
      OBVIOUS
    <3> QED
      BY <3>1, <3>2, Zenon
  <2>8. CASE w # N - 1
    <3>1. \A v \in Workers :
            cooling'[v] = 0 /\ turns'[v] = IF v < next' THEN q + 1 ELSE q
      BY <2>1, <2>3, <2>4, <2>5, <2>6, <2>8, WorkerPoolAssumption, SMT
    <3> QED
      BY <3>1, Zenon
  <2> QED
    BY <2>7, <2>8
<1>3. ASSUME NEW c \in Calls, GiveUp(c) PROVE RotationInv'
  BY <1>3 DEF GiveUp
<1>4. ASSUME NEW c \in Calls, Answer(c) PROVE RotationInv'
  BY <1>4 DEF Answer
<1>5. ASSUME NEW c \in Calls, Fail(c) PROVE RotationInv'
  <2>1. attempt'[c] # 0
    BY <1>5, WorkerPoolAssumption DEF Fail, CountTry
  <2> QED
    BY <2>1
<1>6. ASSUME Tick PROVE RotationInv'
  BY <1>6 DEF Tick
<1>7. CASE UNCHANGED vars
  BY <1>7 DEF vars
<1> QED
  BY <1>1, <1>2, <1>3, <1>4, <1>5, <1>6, <1>7 DEF Next, Step, Return

-----------------------------------------------------------------------------
(* The theorems.                                                           *)

\* The strengthening holds in every reachable state.
THEOREM PoolInductive == Spec => []IInv
<1>1. IInv /\ [Next]_vars => IInv'
  BY TypeStep, PhaseStep, BoundStep, HonestStep, RotationStep DEF IInv
<1> QED
  BY Initially, <1>1, PTL DEF Spec

\* The pool and its calls keep their types.
THEOREM PoolTypeCorrect == Spec => []TypeOK
<1>1. IInv => TypeOK
  BY DEF IInv
<1> QED
  BY PoolInductive, <1>1, PTL

\* No call of judge() lasts longer than one read timeout per worker, whatever
\* the other threads do to the shared pool.
THEOREM CallsAreBounded == Spec => []CallIsBounded
<1>1. IInv => CallIsBounded
  <2> SUFFICES ASSUME IInv, NEW c \in Calls PROVE elapsed[c] <= N * ReadTimeout
    BY DEF CallIsBounded
  <2>1. /\ attempt[c] \in Nat /\ attempt[c] <= N /\ elapsed[c] \in Nat
        /\ waited[c] \in Nat /\ waited[c] <= ReadTimeout
    BY WorkerPoolAssumption DEF IInv, TypeOK
  <2>2. CASE at[c] = "answered"
    BY <2>2 DEF IInv, BoundInv
  <2>3. CASE at[c] = "waiting"
    <3>1. attempt[c] < N /\ elapsed[c] <= attempt[c] * ReadTimeout + waited[c]
      BY <2>3 DEF IInv, PhaseInv, BoundInv
    <3>2. /\ attempt[c] * ReadTimeout + ReadTimeout <= N * ReadTimeout
          /\ attempt[c] * ReadTimeout \in Nat /\ N * ReadTimeout \in Nat
      BY <2>1, <3>1, OneMoreTry, Zenon
    <3> QED
      BY <2>1, <3>1, <3>2, WorkerPoolAssumption, SMT
  <2>4. CASE at[c] \notin {"answered", "waiting"}
    <3>1. waited[c] = 0 /\ elapsed[c] <= attempt[c] * ReadTimeout + waited[c]
      BY <2>4 DEF IInv, PhaseInv, BoundInv
    <3>2. attempt[c] * ReadTimeout <= N * ReadTimeout
      <4>1. CASE attempt[c] = N
        BY <4>1, WorkerPoolAssumption, SMT
      <4>2. CASE attempt[c] < N
        <5>1. /\ attempt[c] * ReadTimeout + ReadTimeout <= N * ReadTimeout
              /\ attempt[c] * ReadTimeout \in Nat /\ N * ReadTimeout \in Nat
          BY <2>1, <4>2, OneMoreTry, Zenon
        <5> QED
          BY <5>1, WorkerPoolAssumption, SMT
      <4> QED
        BY <2>1, <4>1, <4>2, WorkerPoolAssumption
    <3>3. attempt[c] * ReadTimeout \in Nat /\ N * ReadTimeout \in Nat
      BY <2>1, WorkerPoolAssumption, SMT
    <3> QED
      BY <2>1, <3>1, <3>2, <3>3, SMT
  <2> QED
    BY <2>2, <2>3, <2>4
<1> QED
  BY PoolInductive, <1>1, PTL

\* Without failures the workers are used in turn.
THEOREM TurnsShared == Spec => []TurnsAreShared
<1>1. IInv => TurnsAreShared
  BY DEF IInv, RotationInv, NoFailure, TurnsAreShared
<1> QED
  BY PoolInductive, <1>1, PTL

\* A call that gives up before a cooldown has passed has tried every worker that
\* is not cooling down, for every number of workers and of concurrent calls.
THEOREM HonestGivingUp == Spec => GivesUpHonestly
<1>1. IInv /\ [Next]_vars =>
        [\A c \in Calls : GivesUp(c) /\ elapsed[c] < Cooldown => NobodyLeft(c)]_vars
  <2> SUFFICES ASSUME IInv, Next, NEW c \in Calls, GivesUp(c), elapsed[c] < Cooldown
               PROVE  NobodyLeft(c)
    OBVIOUS
  <2>1. at[c] = "choosing" /\ at'[c] \in {"failed", "unavailable"} /\ at \in [Calls -> {"idle", "choosing", "waiting"} \cup Returned]
    BY DEF GivesUp, IInv, TypeOK
  <2>2. GiveUp(c)
    <3>1. ASSUME NEW d \in Calls, Step(d) PROVE GiveUp(c)
      BY <2>1, <3>1 DEF Step, Return, Begin, Select, GiveUp, Answer, Fail
    <3>2. ASSUME Tick PROVE GiveUp(c)
      BY <2>1, <3>2 DEF Tick
    <3> QED
      BY <3>1, <3>2 DEF Next
  <2>3. CASE Available = {}
    BY <2>3 DEF NobodyLeft
  <2>4. CASE ~TriesLeft(c)
    <3>1. Cardinality(tried[c]) = attempt[c] /\ attempt[c] \in 0..N
      BY <2>1 DEF IInv, HonestInv, Failed, Open, TypeOK
    <3>2. Cardinality(tried[c]) >= N
      BY <2>4, <3>1, WorkerPoolAssumption DEF TriesLeft
    <3>3. tried[c] \in SUBSET Workers
      BY DEF IInv, TypeOK
    <3> QED
      BY <3>2, <3>3, WorkersCounted, Zenon DEF NobodyLeft, Available
  <2> QED
    BY <2>2, <2>3, <2>4 DEF GiveUp
<1> QED
  BY PoolInductive, <1>1, PTL DEF Spec, GivesUpHonestly

=============================================================================
