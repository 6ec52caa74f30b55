------------------------- MODULE JudgeWorkerProofs -------------------------
(***************************************************************************)
(* Proofs about judge_worker, for any number of requests, submissions,     *)
(* test cases and faults: the test data programs run on, the fold that     *)
(* summarizes the cases, the work directories, and the verdicts.           *)
(***************************************************************************)
EXTENDS JudgeWorker, FiniteSetTheorems, WellFoundedInduction, TLAPS

\* The part of the types that the data go through.
DataTypes ==
    /\ pc = [r \in Requests |-> pc[r]]
    /\ objects \in [Data -> Content]
    /\ cache \in [Data -> Content]
    /\ got \in [Requests -> [in : Content, out : Content]]
    /\ side \in [Requests -> {"in", "out"}]
    /\ results \in [Requests -> Seq(Verdicts)]

Preparing == {"new", "removed", "writing", "compiling", "linking", "compiled"}
Fetching == {"downloading", "verifying", "reading"}
Running == {"staging", "filling", "starting", "running", "collecting"}
Judging == {"cases"} \cup Fetching \cup Running

\* While a request reads a file it is in the cache and has its hash: whoever
\* removes it has found it damaged, and whoever replaces it with other data
\* is the other request that OnlyVerifiedData excepts.
DataInv ==
    \A r \in Requests :
        /\ pc[r] \in Preparing \cup Running => side[r] = "in"
        /\ pc[r] \in Fetching \cup Running => Case(r) <= Len(Tests[SubOf[r]])
        /\ r \notin replaced =>
               /\ pc[r] = "reading" => Verified(File(r))
               /\ pc[r] \in Fetching \cup {"cases"} /\ side[r] = "out" => got[r].in = Test(r).in
               /\ pc[r] \in Running => got[r] = Test(r)

IInv == DataTypes /\ DataInv

-----------------------------------------------------------------------------
\* A request reads the files of a test case of its problem.
LEMMA FileIsData ==
    ASSUME DataTypes, NEW r \in Requests, Case(r) <= Len(Tests[SubOf[r]])
    PROVE  /\ Test(r) \in [in : Data, out : Data] /\ File(r) \in Data
           /\ Test(r) = [in |-> Test(r).in, out |-> Test(r).out]
<1>1. Tests[SubOf[r]] \in Seq([in : Data, out : Data]) /\ Case(r) \in Nat \ {0}
  <2>1. results[r] \in Seq(Verdicts) /\ SubOf[r] \in Subs
    BY JudgeWorkerAssumption DEF DataTypes
  <2>2. Tests[SubOf[r]] \in Seq([in : Data, out : Data])
    BY <2>1, JudgeWorkerAssumption
  <2>3. Len(results[r]) \in Nat
    BY <2>1
  <2> QED
    BY <2>2, <2>3 DEF Case
<1>2. Test(r) \in [in : Data, out : Data]
  <2>1. Case(r) \in 1..Len(Tests[SubOf[r]])
    BY <1>1
  <2> QED
    <3>1. ASSUME NEW S, NEW t \in Seq(S), NEW i \in 1..Len(t) PROVE t[i] \in S
      OBVIOUS
    <3> QED
      BY <1>1, <2>1, <3>1 DEF Test
<1> QED
  BY <1>2 DEF File

LEMMA StatusIsVerdict == \A r, text : CaseStatus(r, text) \in Verdicts
<1>1. \A ends, over : RunStatus(ends, over) \in Verdicts
  <2> SUFFICES ASSUME NEW ends, NEW over PROVE RunStatus(ends, over) \in Verdicts
    OBVIOUS
  <2>1. CASE ends \in {"timeout", "cpu"}
    BY <2>1 DEF RunStatus, Verdicts
  <2>2. CASE ends = "filesize"
    BY <2>2 DEF RunStatus, Verdicts
  <2>3. CASE ends \notin {"timeout", "cpu", "filesize"} /\ over
    BY <2>3 DEF RunStatus, Verdicts
  <2>4. CASE ends \notin {"timeout", "cpu", "filesize"} /\ ~over
    BY <2>4 DEF RunStatus, Verdicts
  <2> QED
    BY <2>1, <2>2, <2>3, <2>4
<1> QED
  BY <1>1 DEF CaseStatus, Verdicts

\* What reading a file leaves the request with.
LEMMA ReadIn ==
    ASSUME IInv, NEW r \in Requests, ReadFile(r), cache[File(r)] # Nothing
    PROVE  /\ side[r] = "in" => got' = [got EXCEPT ![r] = [in |-> cache[File(r)], out |-> got[r].out]]
           /\ side[r] = "out" => got' = [got EXCEPT ![r] = [in |-> got[r].in, out |-> cache[File(r)]]]
           /\ cache[File(r)] \in Content
<1>1. got \in [Requests -> [in : Content, out : Content]] /\ side[r] \in {"in", "out"}
  BY DEF IInv, DataTypes
<1>2. got' = [got EXCEPT ![r][side[r]] = cache[File(r)]]
  BY DEF ReadFile
<1>4. ASSUME NEW g \in [in : Content, out : Content], NEW c
      PROVE  /\ [g EXCEPT !["in"] = c] = [in |-> c, out |-> g.out]
             /\ [g EXCEPT !["out"] = c] = [in |-> g.in, out |-> c]
  <2>1. DOMAIN g = {"in", "out"} /\ g = [x \in {"in", "out"} |-> g[x]]
    OBVIOUS
  <2>2. [g EXCEPT !["in"] = c] = [x \in {"in", "out"} |-> IF x = "in" THEN c ELSE g[x]]
    BY <2>1
  <2>3. [in |-> c, out |-> g.out] = [x \in {"in", "out"} |-> IF x = "in" THEN c ELSE g[x]]
    OBVIOUS
  <2>4. [g EXCEPT !["out"] = c] = [x \in {"in", "out"} |-> IF x = "out" THEN c ELSE g[x]]
    BY <2>1
  <2>5. [in |-> g.in, out |-> c] = [x \in {"in", "out"} |-> IF x = "out" THEN c ELSE g[x]]
    OBVIOUS
  <2> QED
    BY <2>2, <2>3, <2>4, <2>5
<1>7. got' = [got EXCEPT ![r] = [got[r] EXCEPT ![side[r]] = cache[File(r)]]]
  BY <1>2
<1> DEFINE IfIn == [in |-> cache[File(r)], out |-> got[r].out]
           IfOut == [in |-> got[r].in, out |-> cache[File(r)]]
<1>8. /\ side[r] = "in" => [got[r] EXCEPT ![side[r]] = cache[File(r)]] = IfIn
      /\ side[r] = "out" => [got[r] EXCEPT ![side[r]] = cache[File(r)]] = IfOut
  <2>1. got[r] \in [in : Content, out : Content]
    BY <1>1
  <2>2. /\ [got[r] EXCEPT !["in"] = cache[File(r)]] = IfIn
        /\ [got[r] EXCEPT !["out"] = cache[File(r)]] = IfOut
    BY <1>4, <2>1, Zenon
  <2> QED
    BY <2>2
<1>9. /\ side[r] = "in" => got' = [got EXCEPT ![r] = IfIn]
      /\ side[r] = "out" => got' = [got EXCEPT ![r] = IfOut]
  <2> HIDE DEF IfIn, IfOut
  <2> QED
    BY <1>7, <1>8
<1>5. File(r) \in Data
  BY FileIsData DEF ReadFile, IInv, DataInv, Fetching
<1>6. cache[File(r)] \in Content
  BY <1>5 DEF IInv, DataTypes
<1> QED
  BY <1>6, <1>9

LEMMA Initially == Init => IInv
<1> SUFFICES ASSUME Init PROVE IInv
  OBVIOUS
<1>1. DataTypes
  BY DEF Init, DataTypes, NoData, Content
<1>2. DataInv
  BY DEF Init, DataInv, Preparing, Fetching, Running
<1> QED
  BY <1>1, <1>2 DEF IInv

LEMMA TypesStep == IInv /\ [Next]_vars => DataTypes'
<1> SUFFICES ASSUME IInv, [Next]_vars PROVE DataTypes'
  OBVIOUS
<1>0. DataTypes
  BY DEF IInv
<1> USE DEF DataTypes, requestVars, histVars, Goto, Answer, Throw, Spend
<1>1. ASSUME NEW r \in Requests, RemoveDirectory(r) \/ DownloadFails(r) PROVE DataTypes'
  BY <1>0, <1>1 DEF RemoveDirectory, DownloadFails
<1>2. ASSUME NEW r \in Requests, Work(r) PROVE DataTypes'
  <2>1. CASE CreateDirectory(r) \/ WriteSource(r) \/ Compile(r) \/ Link(r) \/ AcceptBinary(r)
    BY <1>0, <2>1 DEF CreateDirectory, WriteSource, Compile, Link, AcceptBinary
  <2>2. CASE CheckCache(r)
    BY <1>0, <2>2 DEF CheckCache, Content
  <2>3. CASE Download(r)
    <3>1. File(r) \in Data
      BY <1>0, <2>3, FileIsData DEF Download, IInv, DataInv, Fetching
    <3>2. objects[File(r)] \in Content
      BY <1>0, <3>1
    <3> QED
      BY <1>0, <2>3, <3>2 DEF Download
  <2>4. CASE ReadFile(r)
    <3>1. CASE cache[File(r)] = Nothing
      BY <1>0, <2>4, <3>1 DEF ReadFile
    <3>2. CASE cache[File(r)] # Nothing
      <4>1. got' \in [Requests -> [in : Content, out : Content]]
        <5>1. PICK c \in Content, d \in Content : got' = [got EXCEPT ![r] = [in |-> c, out |-> d]]
          <6>1. got[r].in \in Content /\ got[r].out \in Content /\ side[r] \in {"in", "out"}
            BY <1>0
          <6> QED
            BY <2>4, <3>2, <6>1, ReadIn
        <5>2. [in |-> c, out |-> d] \in [in : Content, out : Content]
          BY <5>1
        <5> QED
          BY <1>0, <5>1, <5>2
      <4>2. side' \in [Requests -> {"in", "out"}]
        BY <1>0, <2>4, <3>2 DEF ReadFile
      <4> QED
        BY <1>0, <2>4, <3>2, <4>1, <4>2 DEF ReadFile
    <3> QED
      BY <3>1, <3>2
  <2>5. CASE \/ Verify(r) \/ OpenInput(r) \/ WriteInput(r) \/ StartChild(r) \/ FinishChild(r)
             \/ KillChild(r) \/ Summarize(r)
    BY <1>0, <2>5 DEF Verify, OpenInput, WriteInput, StartChild, FinishChild, KillChild, Ended, Summarize
  <2>6. CASE Collect(r)
    <3>1. \A text : CaseStatus(r, text) \in Verdicts
      BY StatusIsVerdict
    <3>2. results' \in [Requests -> Seq(Verdicts)]
      BY <1>0, <2>6, <3>1 DEF Collect
    <3> QED
      BY <1>0, <2>6, <3>2 DEF Collect, NoData, Content
  <2> QED
    BY <1>2, <2>1, <2>2, <2>3, <2>4, <2>5, <2>6 DEF Work
<1>3. ASSUME NEW d \in Data, Overwrite(d) PROVE DataTypes'
  BY <1>0, <1>3 DEF Overwrite, Content
<1>4. CASE Crash
  BY <1>0, <1>4 DEF Crash, NoData, Content
<1>5. CASE UNCHANGED vars
  BY <1>0, <1>5 DEF vars
<1> QED
  BY <1>1, <1>2, <1>3, <1>4, <1>5 DEF Next

-----------------------------------------------------------------------------
\* The cases of DataInv for one request.
Good(r) ==
    /\ pc[r] \in Preparing \cup Running => side[r] = "in"
    /\ pc[r] \in Fetching \cup Running => Case(r) <= Len(Tests[SubOf[r]])
    /\ r \notin replaced =>
           /\ pc[r] = "reading" => Verified(File(r))
           /\ pc[r] \in Fetching \cup {"cases"} /\ side[r] = "out" => got[r].in = Test(r).in
           /\ pc[r] \in Running => got[r] = Test(r)

\* A step of another request: what this one is reading stays verified.
LEMMA OthersStep ==
    ASSUME IInv, NEW r \in Requests, NEW q \in Requests \ {r},
           RemoveDirectory(q) \/ DownloadFails(q) \/ Work(q)
    PROVE  Good(r)'
<1>0. DataTypes /\ Good(r)
  BY DEF IInv, DataInv, Good
<1> USE DEF requestVars, histVars, Goto, Answer, Throw, Spend
<1>1. /\ pc'[r] = pc[r] /\ side'[r] = side[r] /\ got'[r] = got[r] /\ results'[r] = results[r]
      /\ replaced \subseteq replaced'
  <2>1. CASE RemoveDirectory(q) \/ DownloadFails(q)
    BY <1>0, <2>1 DEF RemoveDirectory, DownloadFails, DataTypes
  <2>2. CASE Work(q)
    BY <1>0, <2>2 DEF Work, CreateDirectory, WriteSource, Compile, Link, AcceptBinary, CheckCache,
       Download, Verify, ReadFile, OpenInput, WriteInput, StartChild, FinishChild, KillChild, Ended,
       Collect, Summarize,
       DataTypes
  <2> QED
    BY <2>1, <2>2
<1>2. Case(r)' = Case(r) /\ Test(r)' = Test(r) /\ File(r)' = File(r)
  BY <1>1 DEF Case, Test, File
<1>3. ASSUME pc[r] = "reading", r \notin replaced' PROVE Verified(File(r))'
  <2>1. cache[File(r)] = File(r) /\ File(r) \in Data
    BY <1>0, <1>1, <1>3, FileIsData DEF Good, Verified, Fetching
  <2>2. UNCHANGED cache \/ CheckCache(q) \/ Download(q)
    BY DEF RemoveDirectory, DownloadFails, Work, CreateDirectory, WriteSource, Compile, Link,
       AcceptBinary, Verify, ReadFile, OpenInput, WriteInput, StartChild, FinishChild, KillChild, Ended,
       Collect, Summarize
  <2>3. CASE CheckCache(q)
    <3>1. cache' = cache \/ (~Verified(File(q)) /\ cache' = [cache EXCEPT ![File(q)] = Nothing])
      BY <2>3 DEF CheckCache
    <3>2. cache'[File(r)] = cache[File(r)]
      BY <1>0, <2>1, <3>1 DEF Verified, DataTypes
    <3> QED
      BY <1>2, <2>1, <3>2 DEF Verified
  <2>4. CASE Download(q)
    <3>1. /\ cache' = [cache EXCEPT ![File(q)] = objects[File(q)]]
          /\ objects[File(q)] = File(q) \/ File(q) # File(r)
      BY <1>3, <2>4 DEF Download
    <3>2. cache'[File(r)] = File(r)
      BY <1>0, <2>1, <3>1 DEF DataTypes
    <3> QED
      BY <1>2, <3>2 DEF Verified
  <2> QED
    BY <1>2, <2>1, <2>2, <2>3, <2>4 DEF Verified
<1> QED
  BY <1>0, <1>1, <1>2, <1>3 DEF Good

\* A step of its own.
LEMMA OwnStep ==
    ASSUME IInv, NEW r \in Requests, RemoveDirectory(r) \/ DownloadFails(r) \/ Work(r)
    PROVE  Good(r)'
<1>0. DataTypes /\ Good(r)
  BY DEF IInv, DataInv, Good
<1> USE DEF requestVars, histVars, Goto, Answer, Throw, Spend
<1>1. ASSUME pc'[r] \in {"answered", "lost"} PROVE Good(r)'
  BY <1>1 DEF Good, Preparing, Fetching, Running
<1>2. ASSUME UNCHANGED <<got, side, results, replaced>>
      PROVE  /\ UNCHANGED <<Case(r), Test(r), File(r), side[r], got[r]>>
             /\ r \notin replaced' => r \notin replaced
  BY <1>2 DEF Case, Test, File
<1>3. CASE RemoveDirectory(r) \/ CreateDirectory(r) \/ WriteSource(r) \/ Compile(r) \/ Link(r)
           \/ AcceptBinary(r)
  <2>1. /\ pc[r] \in Preparing /\ pc'[r] \in Preparing \cup {"cases", "answered"}
        /\ UNCHANGED <<got, side, results, replaced>>
    BY <1>0, <1>3 DEF RemoveDirectory, CreateDirectory, WriteSource, Compile, Link, AcceptBinary,
       Preparing, DataTypes
  <2> QED
    BY <1>0, <1>2, <2>1 DEF Good, Preparing, Fetching, Running
<1>4. CASE CheckCache(r)
  <2>1. /\ pc[r] = "cases" /\ Case(r) <= Len(Tests[SubOf[r]])
        /\ UNCHANGED <<got, side, results, replaced>>
        /\ \/ pc'[r] = "reading" /\ UNCHANGED cache /\ Verified(File(r))
           \/ pc'[r] = "downloading"
    BY <1>0, <1>4 DEF CheckCache, DataTypes
  <2> QED
    BY <1>0, <1>2, <2>1 DEF Good, Preparing, Fetching, Running, Verified
<1>5. CASE Download(r)
  <2>1. /\ pc[r] = "downloading" /\ pc'[r] = "verifying" /\ UNCHANGED <<got, side, results>>
        /\ replaced \subseteq replaced'
    BY <1>0, <1>5 DEF Download, DataTypes
  <2>2. UNCHANGED <<Case(r), Test(r), side[r], got[r]>>
    BY <2>1 DEF Case, Test
  <2> QED
    BY <1>0, <2>1, <2>2 DEF Good, Preparing, Fetching, Running
<1>6. CASE Verify(r)
  <2>1. /\ pc[r] = "verifying" /\ UNCHANGED <<got, side, results, replaced, cache>>
        /\ (pc'[r] = "reading" /\ Verified(File(r))) \/ pc'[r] = "answered"
    BY <1>0, <1>6 DEF Verify, DataTypes
  <2> QED
    BY <1>0, <1>2, <2>1 DEF Good, Preparing, Fetching, Running, Verified
<1>7. CASE ReadFile(r)
  <2>1. CASE cache[File(r)] = Nothing
    BY <1>0, <1>1, <1>7, <2>1 DEF ReadFile, DataTypes
  <2>2. CASE cache[File(r)] # Nothing
    <3>1. /\ pc[r] = "reading" /\ side[r] \in {"in", "out"} /\ Case(r) <= Len(Tests[SubOf[r]])
          /\ UNCHANGED <<results, replaced>>
          /\ r \notin replaced => cache[File(r)] = File(r)
      BY <1>0, <1>7 DEF ReadFile, Good, Verified, Fetching, DataTypes
    <3>2. UNCHANGED <<Case(r), Test(r)>>
      BY <3>1 DEF Case, Test
    <3>3. CASE side[r] = "in"
      <4>1. pc'[r] = "cases"
        BY <1>0, <1>7, <2>2, <3>3 DEF ReadFile, DataTypes
      <4>2. got'[r].in = cache[File(r)]
        BY <1>0, <1>7, <2>2, <3>3, ReadIn DEF DataTypes
      <4>3. File(r) = Test(r).in
        BY <3>3 DEF File
      <4> QED
        BY <3>1, <3>2, <4>1, <4>2, <4>3 DEF Good, Preparing, Fetching, Running
    <3>4. CASE side[r] = "out"
      <4>1. pc'[r] = "staging" /\ side'[r] = "in"
        BY <1>0, <1>7, <2>2, <3>4 DEF ReadFile, DataTypes
      <4>2. got'[r] = [in |-> got[r].in, out |-> cache[File(r)]]
        BY <1>0, <1>7, <2>2, <3>4, ReadIn DEF DataTypes
      <4>3. File(r) = Test(r).out /\ Test(r) = [in |-> Test(r).in, out |-> Test(r).out]
        BY <1>0, <3>1, <3>4, FileIsData DEF File
      <4>4. r \notin replaced => got[r].in = Test(r).in
        BY <1>0, <3>1, <3>4 DEF Good, Fetching
      <4>5. r \notin replaced => got'[r] = Test(r)
        BY <3>1, <4>2, <4>3, <4>4
      <4> QED
        BY <3>1, <3>2, <4>1, <4>5 DEF Good, Preparing, Fetching, Running
    <3> QED
      BY <3>1, <3>3, <3>4
  <2> QED
    BY <2>1, <2>2
<1>8. CASE OpenInput(r) \/ WriteInput(r) \/ StartChild(r) \/ FinishChild(r) \/ KillChild(r)
  <2>1. /\ pc[r] \in Running /\ pc'[r] \in Running
        /\ UNCHANGED <<got, side, results, replaced>>
    BY <1>0, <1>8 DEF OpenInput, WriteInput, StartChild, FinishChild, KillChild, Ended, Running, DataTypes
  <2> QED
    BY <1>0, <1>2, <2>1 DEF Good, Preparing, Fetching, Running
<1>9. CASE Collect(r)
  <2>1. pc[r] = "collecting" /\ pc'[r] = "cases" /\ side'[r] = side[r]
    BY <1>0, <1>9 DEF Collect, DataTypes
  <2> QED
    BY <1>0, <2>1 DEF Good, Preparing, Fetching, Running
<1>10. CASE DownloadFails(r) \/ Summarize(r)
  BY <1>0, <1>1, <1>10 DEF DownloadFails, Summarize, DataTypes
<1> QED
  BY <1>3, <1>4, <1>5, <1>6, <1>7, <1>8, <1>9, <1>10 DEF Work

LEMMA DataStep == IInv /\ [Next]_vars => DataInv'
<1> SUFFICES ASSUME IInv, [Next]_vars, NEW r \in Requests PROVE Good(r)'
  BY DEF DataInv, Good
<1>0. DataTypes /\ Good(r)
  BY DEF IInv, DataInv, Good
<1>1. ASSUME NEW q \in Requests, RemoveDirectory(q) \/ DownloadFails(q) \/ Work(q)
      PROVE  Good(r)'
  BY <1>1, OthersStep, OwnStep
<1>2. ASSUME UNCHANGED <<pc, cache, requestVars, histVars>> PROVE Good(r)'
  <2>1. UNCHANGED <<Case(r), Test(r), File(r), pc, side, got, replaced, cache>>
    BY <1>2 DEF Case, Test, File, requestVars, histVars
  <2> QED
    BY <1>0, <2>1 DEF Good, Verified
<1>3. ASSUME NEW d \in Data, Overwrite(d) PROVE UNCHANGED <<pc, cache, requestVars, histVars>>
  BY <1>3 DEF Overwrite
<1>4. ASSUME Crash PROVE Good(r)'
  <2>1. pc'[r] \in {"new", "answered", "lost"} /\ (pc'[r] = "new" => pc[r] = "new") /\ side' = side
    BY <1>4 DEF Crash, InFlight
  <2> QED
    BY <1>0, <2>1 DEF Good, Preparing, Fetching, Running
<1> QED
  BY <1>1, <1>2, <1>3, <1>4 DEF Next, vars

LEMMA Stepwise == IInv /\ [Next]_vars => IInv'
  BY TypesStep, DataStep DEF IInv

-----------------------------------------------------------------------------
(* The fold of summarize_judge_response.                                   *)

\* Among sets of subsets of a finite set there is a least one.
LEMMA LeastSubset ==
    ASSUME NEW S, IsFiniteSet(S), NEW T, T \subseteq SUBSET S, T # {}
    PROVE  \E x \in T : \A y \in T : y \subseteq x => y = x
<1>1. IsWellFoundedOn(StrictSubsetOrdering(S), SUBSET S)
  BY FS_StrictSubsetOrderingWellFounded, FS_FiniteSubsetsOfFinite
<1>2. \E x \in T : \A y \in T : <<y, x>> \notin StrictSubsetOrdering(S)
  BY <1>1, WFMin
<1>. QED
  BY <1>2 DEF StrictSubsetOrdering

\* A set of numbers has a least one.
LEMMA LeastNumber ==
    ASSUME NEW T, T \subseteq Nat, T # {}
    PROVE  \E x \in T : \A y \in T : x <= y
<1>1. \E x \in T : \A y \in T : <<y, x>> \notin OpToRel(<, Nat)
  BY NatLessThanWellFounded, WFMin
<1>2. \A x, y \in T : y < x => <<y, x>> \in OpToRel(<, Nat)
  <2> SUFFICES ASSUME NEW x \in T, NEW y \in T, y < x
               PROVE  <<y, x>> \in {ss \in Nat \X Nat : ss[1] < ss[2]}
    BY DEF OpToRel
  <2>. QED
    OBVIOUS
<1>3. \E x \in T : \A y \in T : ~(y < x)
  BY <1>1, <1>2
<1>. QED
  BY <1>3

LEMMA GreatestNumber ==
    ASSUME NEW n \in Nat, NEW s, s \subseteq 1..n, s # {}
    PROVE  Max(s) \in s /\ \A y \in s : y <= Max(s)
<1> DEFINE Bounds == {k \in Nat : \A y \in s : y <= k}
<1>1. n \in Bounds /\ Bounds \subseteq Nat
  OBVIOUS
<1>2. PICK b \in Bounds : \A k \in Bounds : b <= k
  BY <1>1, LeastNumber
<1>3. b \in s
  <2> SUFFICES ASSUME b \notin s PROVE FALSE
    OBVIOUS
  <2>1. \A y \in s : y \in Nat /\ 1 <= y /\ y < b
    BY <1>2
  <2>2. b \in Nat /\ b - 1 \in Nat
    <3>1. PICK y \in s : y \in Nat /\ 1 <= y /\ y < b
      BY <2>1
    <3>. QED
      BY <1>2, <3>1
  <2>3. b - 1 \in Bounds
    BY <2>1, <2>2
  <2>. QED
    BY <1>2, <2>2, <2>3
<1>. QED
  BY <1>2, <1>3 DEF Max

\* The places that are not OK, and what the first of them says.
Failed(t) == {i \in DOMAIN t : t[i] # "OK"}
First(s) == CHOOSE i \in s : \A j \in s : i <= j
FirstFailure(t, s) ==
    IF s \cap Failed(t) = {} THEN "OK" ELSE t[First(s \cap Failed(t))]

\* The function FoldLeft chooses.
IsFold(g, t) ==
    g = [s \in SUBSET DOMAIN t |->
            IF s = {} THEN "OK"
            ELSE IF g[s \ {Max(s)}] = "OK" THEN t[Max(s)] ELSE g[s \ {Max(s)}]]

LEMMA FirstIsLeast ==
    ASSUME NEW s, s \subseteq Nat, s # {}
    PROVE  First(s) \in s /\ \A j \in s : First(s) <= j
  BY LeastNumber DEF First

\* One more status, at the end: it counts if none before it has failed.
LEMMA FirstFailureStep ==
    ASSUME NEW S, NEW t \in Seq(S), NEW s \in SUBSET DOMAIN t, s # {}
    PROVE  /\ Max(s) \in s
           /\ FirstFailure(t, s) =
                  IF FirstFailure(t, s \ {Max(s)}) = "OK" THEN t[Max(s)]
                  ELSE FirstFailure(t, s \ {Max(s)})
<1> DEFINE m == Max(s)
           before == (s \ {m}) \cap Failed(t)
           all == s \cap Failed(t)
<1>1. DOMAIN t = 1..Len(t) /\ Len(t) \in Nat
  OBVIOUS
<1>2. m \in s /\ \A y \in s : y <= m
  BY <1>1, GreatestNumber
<1>3. before \subseteq Nat /\ all \subseteq Nat /\ s \subseteq Nat
  BY <1>1
<1> HIDE DEF m
<1>4. CASE before = {}
  <2>1. CASE t[m] = "OK"
    <3>1. all = {}
      BY <1>2, <1>4, <2>1 DEF Failed
    <3>. QED
      BY <1>2, <1>4, <2>1, <3>1 DEF FirstFailure, m
  <2>2. CASE t[m] # "OK"
    <3>1. all = {m}
      BY <1>2, <1>4, <2>2 DEF Failed
    <3>2. First(all) = m
      BY <1>3, <3>1, FirstIsLeast
    <3>. QED
      BY <1>2, <1>4, <3>1, <3>2 DEF FirstFailure, m
  <2>. QED
    BY <2>1, <2>2
<1>5. CASE before # {}
  <2>1. First(before) \in before /\ \A j \in before : First(before) <= j
    BY <1>3, <1>5, FirstIsLeast
  <2>2. all # {} /\ First(all) \in all /\ \A j \in all : First(all) <= j
    BY <1>3, <1>5, FirstIsLeast
  <2>3. First(all) = First(before)
    <3>1. First(before) # m /\ First(before) \in all /\ First(before) <= m
      BY <1>2, <2>1
    <3>2. First(all) <= First(before)
      BY <2>2, <3>1
    <3>3. First(all) \in before
      BY <1>2, <1>3, <2>2, <3>1, <3>2
    <3>4. First(before) <= First(all)
      BY <2>1, <3>3
    <3>5. First(all) \in Nat /\ First(before) \in Nat
      BY <1>3, <2>1, <2>2
    <3> HIDE DEF all, before
    <3>. QED
      BY <3>2, <3>4, <3>5
  <2>4. t[First(before)] # "OK"
    BY <2>1 DEF Failed
  <2>. QED
    BY <1>2, <1>5, <2>2, <2>3, <2>4 DEF FirstFailure, m
<1>. QED
  BY <1>4, <1>5

\* FoldLeft is a function of the sets of places that have been seen.
LEMMA FoldUnfolds ==
    ASSUME NEW t
    PROVE  FoldLeft(LAMBDA acc, status : IF acc = "OK" THEN status ELSE acc, "OK", t)
               = (CHOOSE g : IsFold(g, t))[DOMAIN t]
  BY DEF FoldLeft, MapThenFoldSet, IsFold

\* summarize_judge_response (judge_core.cpp): however many cases there are, the
\* answer is the first status that is not OK, and OK if there is none.
THEOREM SummaryIsFirstFailure ==
    ASSUME NEW S, NEW t \in Seq(S), t # <<>>
    PROVE  Summary(t) = FirstFailure(t, DOMAIN t)
<1> DEFINE h == [s \in SUBSET DOMAIN t |-> FirstFailure(t, s)]
           g == CHOOSE f : IsFold(f, t)
<1>1. h[{}] = "OK"
  BY DEF FirstFailure
<1>2. ASSUME NEW s \in SUBSET DOMAIN t, s # {}
      PROVE  Max(s) \in s /\ h[s] = IF h[s \ {Max(s)}] = "OK" THEN t[Max(s)] ELSE h[s \ {Max(s)}]
  <2>1. s \ {Max(s)} \in SUBSET DOMAIN t
    OBVIOUS
  <2>. QED
    BY <1>2, <2>1, FirstFailureStep
<1>3. IsFold(h, t)
  <2> HIDE DEF h
  <2>1. h = [s \in SUBSET DOMAIN t |-> h[s]]
    BY DEF h
  <2>. QED
    BY <1>1, <1>2, <2>1 DEF IsFold
<1> HIDE DEF h
<1>4. IsFold(g, t)
  BY <1>3
<1> HIDE DEF g
<1>5. ASSUME NEW s \in SUBSET DOMAIN t
      PROVE  g[s] = IF s = {} THEN "OK"
                    ELSE IF g[s \ {Max(s)}] = "OK" THEN t[Max(s)] ELSE g[s \ {Max(s)}]
  BY <1>4 DEF IsFold
<1> DEFINE Wrong == {s \in SUBSET DOMAIN t : g[s] # h[s]}
<1>6. Wrong = {}
  <2> SUFFICES ASSUME Wrong # {} PROVE FALSE
    OBVIOUS
  <2>1. IsFiniteSet(DOMAIN t)
    BY FS_Interval
  <2>2. PICK s \in Wrong : \A y \in Wrong : y \subseteq s => y = s
    <3>1. Wrong \subseteq SUBSET DOMAIN t
      OBVIOUS
    <3> HIDE DEF Wrong
    <3>. QED
      BY <2>1, <3>1, LeastSubset
  <2>3. s # {}
    BY <1>1, <1>5
  <2>4. s \ {Max(s)} \notin Wrong /\ s \ {Max(s)} \in SUBSET DOMAIN t
    BY <1>2, <2>2, <2>3
  <2>5. g[s \ {Max(s)}] = h[s \ {Max(s)}]
    BY <2>4
  <2>. QED
    BY <1>2, <1>5, <2>3, <2>5
<1>7. g[DOMAIN t] = h[DOMAIN t]
  BY <1>6
<1>8. h[DOMAIN t] = FirstFailure(t, DOMAIN t)
  BY DEF h
<1>. QED
  BY <1>7, <1>8, FoldUnfolds DEF Summary, g

-----------------------------------------------------------------------------
(* Types.                                                                  *)

\* The files of a work directory, by test case.
Files(C) == UNION {[D -> C] : D \in SUBSET Nat}
Directory ==
    [there : BOOLEAN, source : BOOLEAN, binary : BOOLEAN,
     stdin : Files(Content), stdout : Files(Content)]

\* The types, with the shape of the directories.
TypesInv == TypeOK /\ dirs \in [Subs -> Directory]

LEMMA CaseIsNumber ==
    ASSUME DataTypes, NEW r \in Requests
    PROVE  Case(r) \in Nat \ {0}
  BY DEF DataTypes, Case

\* One file more.
LEMMA WithFile ==
    ASSUME NEW C, NEW f \in Files(C), NEW i \in Nat, NEW c \in C
    PROVE  /\ With(f, i, c) \in Files(C)
           /\ \A j : j \in DOMAIN With(f, i, c) <=> j \in DOMAIN f \/ j = i
           /\ With(f, i, c)[i] = c
           /\ \A j \in DOMAIN f : j # i => With(f, i, c)[j] = f[j]
<1>1. PICK D \in SUBSET Nat : f \in [D -> C]
  BY DEF Files
<1>2. DOMAIN f = D
  BY <1>1
<1>3. With(f, i, c) \in [D \cup {i} -> C]
  BY <1>1, <1>2 DEF With
<1>4. D \cup {i} \in SUBSET Nat
  BY <1>1
<1>. QED
  BY <1>2, <1>3, <1>4 DEF Files, With

LEMMA FilesTyped ==
    ASSUME NEW C, NEW f \in Files(C)
    PROVE  {f[i] : i \in DOMAIN f} \subseteq C /\ \A i \in DOMAIN f : f[i] \in C
<1>1. PICK D \in SUBSET Nat : f \in [D -> C]
  BY DEF Files
<1>. QED
  BY <1>1

LEMMA NoFiles == \A C : <<>> \in Files(C)
<1> SUFFICES ASSUME NEW C PROVE <<>> \in Files(C)
  OBVIOUS
<1>1. <<>> \in [{} -> C]
  OBVIOUS
<1>. QED
  BY <1>1 DEF Files

LEMMA NoDirectoryTyped == NoDirectory \in Directory
  BY NoFiles DEF NoDirectory, Directory

\* The steps of one request.
Own(r) == RemoveDirectory(r) \/ DownloadFails(r) \/ Work(r)

LEMMA StepSplit ==
    ASSUME [Next]_vars
    PROVE  \/ \E r \in Requests : Own(r)
           \/ \E d \in Data : Overwrite(d)
           \/ Crash
           \/ UNCHANGED vars
  BY DEF Next, Own

\* The case that a request judges is one of its program's.
LEMMA RunTyped ==
    ASSUME DataTypes, NEW r \in Requests, Case(r) <= Len(Tests[SubOf[r]])
    PROVE  /\ Case(r) \in DOMAIN Program[SubOf[r]].runs
           /\ Run(r) \in [ends : Endings, over : BOOLEAN, right : BOOLEAN]
<1>1. SubOf[r] \in Subs
  BY JudgeWorkerAssumption
<1>2. /\ Program[SubOf[r]].runs \in Seq([ends : Endings, over : BOOLEAN, right : BOOLEAN])
      /\ Len(Program[SubOf[r]].runs) = Len(Tests[SubOf[r]])
  BY <1>1, JudgeWorkerAssumption
<1>3. Case(r) \in 1..Len(Program[SubOf[r]].runs)
  BY <1>2, CaseIsNumber
<1>4. ASSUME NEW S, NEW t \in Seq(S), NEW i \in 1..Len(t) PROVE i \in DOMAIN t /\ t[i] \in S
  OBVIOUS
<1>. QED
  BY <1>2, <1>3, <1>4 DEF Run

\* What the steps do to the directory of their submission: the directory they
\* leave, and the file of the case that they write.
Put(r, e) == dirs' = [dirs EXCEPT ![SubOf[r]] = e]
Fed(r, c) ==
    Put(r, [dirs[SubOf[r]] EXCEPT !.stdin = With(dirs[SubOf[r]].stdin, Case(r), c)])
Printed(r, c) ==
    Put(r, [dirs[SubOf[r]] EXCEPT !.stdout = With(dirs[SubOf[r]].stdout, Case(r), c)])

LEMMA DirectoryWritten ==
    ASSUME DataTypes, TypesInv, NEW r \in Requests
    PROVE  LET d == dirs[SubOf[r]]
           IN  /\ d \in Directory
               /\ RemoveDirectory(r) => Put(r, NoDirectory)
               /\ CreateDirectory(r) => Put(r, [d EXCEPT !.there = TRUE])
               /\ WriteSource(r) /\ d.there => Put(r, [d EXCEPT !.source = TRUE])
               /\ Link(r) => Put(r, [d EXCEPT !.binary = d.there])
               /\ OpenInput(r) => Put(r, [d EXCEPT !.there = TRUE, !.stdin = With(d.stdin, Case(r), Nothing)])
               /\ WriteInput(r) => UNCHANGED dirs \/ (child[r].linked /\ Fed(r, got[r].in))
               /\ StartChild(r) /\ Case(r) \in DOMAIN d.stdin => Printed(r, Nothing)
               /\ \A ends, over, out : Ended(r, ends, over, out) /\ child[r].linked => Printed(r, out)
<1>0. SubOf[r] \in Subs
  BY JudgeWorkerAssumption
<1>1. dirs[SubOf[r]] \in Directory
  BY <1>0 DEF TypesInv
<1> DEFINE d == dirs[SubOf[r]]
<1> USE DEF Put, Fed, Printed, CaseDir, DirOf
<1>2. OpenInput(r) => Put(r, [d EXCEPT !.there = TRUE, !.stdin = With(d.stdin, Case(r), Nothing)])
  BY <1>0, <1>1 DEF OpenInput, TypesInv, Directory
<1>3. WriteInput(r) => UNCHANGED dirs \/ (child[r].linked /\ Fed(r, got[r].in))
  BY <1>0, <1>1 DEF WriteInput, TypesInv, Directory
<1>4. StartChild(r) /\ Case(r) \in DOMAIN d.stdin => Printed(r, Nothing)
  BY <1>0, <1>1 DEF StartChild, TypesInv, Directory
<1>5. \A ends, over, out : Ended(r, ends, over, out) /\ child[r].linked => Printed(r, out)
  BY <1>0, <1>1 DEF Ended, TypesInv, Directory
<1>. QED
  BY <1>0, <1>1, <1>2, <1>3, <1>4, <1>5 DEF TypesInv, RemoveDirectory, CreateDirectory, WriteSource, Link

\* What a program writes, and what it may leave.
LEMMA OutputTyped ==
    ASSUME DataTypes, NEW r \in Requests, Case(r) <= Len(Tests[SubOf[r]])
    PROVE  OutputOf(r) \in Content /\ Outputs(r) \subseteq Content
  BY FileIsData DEF OutputOf, Outputs, Content

\* The end of a program: it has ended or is killed.
LEMMA EndSplit ==
    ASSUME DataInv, DataTypes, NEW r \in Requests, FinishChild(r) \/ KillChild(r)
    PROVE  /\ pc[r] = "running" /\ Case(r) <= Len(Tests[SubOf[r]])
           /\ \E ends \in Endings \cup {"timeout"}, over \in BOOLEAN, out \in Content :
                  /\ Ended(r, ends, over, out)
                  /\ child[r].alone =>
                         \/ /\ ends = Run(r).ends /\ over = Run(r).over /\ out = OutputOf(r)
                            /\ Run(r).ends # "hangs"
                         \/ ends = "timeout" /\ Run(r).ends = "hangs"
<1>1. pc[r] = "running" /\ Case(r) <= Len(Tests[SubOf[r]]) /\ SubOf[r] \in Subs
  BY JudgeWorkerAssumption DEF FinishChild, KillChild, DataInv, Running
<1>2. OutputOf(r) \in Content /\ Outputs(r) \subseteq Content
  BY <1>1, OutputTyped
<1>3. Run(r) \in [ends : Endings, over : BOOLEAN, right : BOOLEAN]
  BY <1>1, RunTyped
<1>4. Program[SubOf[r]].astray \subseteq [ends : Endings, over : BOOLEAN]
  BY <1>1, JudgeWorkerAssumption
<1>5. CASE FinishChild(r) /\ child[r].alone
  <2>1. Ended(r, Run(r).ends, Run(r).over, OutputOf(r)) /\ Run(r).ends # "hangs"
    BY <1>5 DEF FinishChild
  <2>. QED
    BY <1>1, <1>2, <1>3, <2>1
<1>6. CASE FinishChild(r) /\ ~child[r].alone
  <2>1. PICK how \in Program[SubOf[r]].astray, out \in Outputs(r) : Ended(r, how.ends, how.over, out)
    BY <1>6 DEF FinishChild
  <2>2. how.ends \in Endings /\ how.over \in BOOLEAN
    BY <1>4
  <2>. QED
    BY <1>1, <1>2, <1>6, <2>1, <2>2
<1>7. CASE KillChild(r)
  <2>1. PICK out \in Outputs(r) : Ended(r, "timeout", FALSE, out)
    BY <1>7 DEF KillChild
  <2>. QED
    BY <1>1, <1>2, <1>7, <2>1 DEF KillChild
<1>. QED
  BY <1>5, <1>6, <1>7

\* The effect of a step on the directory of its submission, in three forms.
LEMMA DirectoryStep ==
    ASSUME DataInv, DataTypes, TypesInv, NEW r \in Requests, Own(r)
    PROVE  LET d == dirs[SubOf[r]]
           IN  \/ UNCHANGED dirs
               \/ RemoveDirectory(r) /\ Put(r, NoDirectory)
               \/ \E there, source, binary \in BOOLEAN :
                      Put(r, [d EXCEPT !.there = there, !.source = source, !.binary = binary])
               \/ OpenInput(r) /\ Put(r, [d EXCEPT !.there = TRUE, !.stdin = With(d.stdin, Case(r), Nothing)])
               \/ WriteInput(r) /\ \E c \in Content : Fed(r, c)
               \/ StartChild(r) /\ Printed(r, Nothing)
               \/ (FinishChild(r) \/ KillChild(r)) /\ \E c \in Content : Printed(r, c)
<1> DEFINE d == dirs[SubOf[r]]
           Plain == \E there, source, binary \in BOOLEAN :
                        Put(r, [d EXCEPT !.there = there, !.source = source, !.binary = binary])
<1>0. d \in Directory
  BY DirectoryWritten
<1>1. ASSUME NEW there \in BOOLEAN, NEW source \in BOOLEAN, NEW binary \in BOOLEAN,
             Put(r, [d EXCEPT !.there = there, !.source = source, !.binary = binary])
      PROVE  Plain
  BY <1>1
<1>2. CASE CreateDirectory(r) \/ (WriteSource(r) /\ d.there) \/ Link(r)
  <2>1. /\ [d EXCEPT !.there = TRUE] = [d EXCEPT !.there = TRUE, !.source = d.source, !.binary = d.binary]
        /\ [d EXCEPT !.source = TRUE] = [d EXCEPT !.there = d.there, !.source = TRUE, !.binary = d.binary]
        /\ [d EXCEPT !.binary = d.there] = [d EXCEPT !.there = d.there, !.source = d.source, !.binary = d.there]
    BY <1>0 DEF Directory
  <2>2. d.there \in BOOLEAN /\ d.source \in BOOLEAN /\ d.binary \in BOOLEAN
    BY <1>0 DEF Directory
  <2>. QED
    BY <1>1, <1>2, <2>1, <2>2, DirectoryWritten
<1>3. CASE WriteSource(r) /\ ~d.there
  BY <1>3 DEF WriteSource, DirOf
<1>4. CASE RemoveDirectory(r) \/ OpenInput(r)
  BY <1>4, DirectoryWritten
<1>5. CASE WriteInput(r)
  <2>1. got[r].in \in Content
    BY DEF DataTypes
  <2>. QED
    BY <1>5, <2>1, DirectoryWritten
<1>6. CASE StartChild(r)
  <2>1. CASE Case(r) \in DOMAIN d.stdin
    BY <1>6, <2>1, DirectoryWritten
  <2>2. CASE Case(r) \notin DOMAIN d.stdin
    BY <1>6, <2>2 DEF StartChild, DirOf, CaseDir
  <2>. QED
    BY <2>1, <2>2
<1>7. CASE FinishChild(r) \/ KillChild(r)
  <2>1. PICK ends \in Endings \cup {"timeout"}, over \in BOOLEAN, out \in Content :
            Ended(r, ends, over, out)
    BY <1>7, EndSplit
  <2>2. CASE child[r].linked
    BY <1>7, <2>1, <2>2, DirectoryWritten
  <2>3. CASE ~child[r].linked
    BY <2>1, <2>3 DEF Ended
  <2>. QED
    BY <2>2, <2>3
<1>8. ASSUME \/ Compile(r) \/ AcceptBinary(r) \/ CheckCache(r) \/ Download(r) \/ Verify(r) \/ ReadFile(r)
             \/ Collect(r) \/ Summarize(r) \/ DownloadFails(r)
      PROVE  UNCHANGED dirs
  BY <1>8 DEF Compile, AcceptBinary, CheckCache, Download, Verify, ReadFile, Collect, Summarize,
     DownloadFails
<1>. QED
  <2> HIDE DEF Plain
  <2>. QED
    BY <1>2, <1>3, <1>4, <1>5, <1>6, <1>7, <1>8 DEF Own, Work, Plain

LEMMA DirectoriesTyped ==
    ASSUME DataInv, DataTypes, TypesInv, [Next]_vars
    PROVE  dirs' \in [Subs -> Directory]
<1> DEFINE Goal == dirs' \in [Subs -> Directory]
<1>1. ASSUME NEW r \in Requests, NEW e \in Directory, Put(r, e) PROVE Goal
  BY <1>1 DEF TypesInv, Put
<1>2. ASSUME UNCHANGED dirs PROVE Goal
  BY <1>2 DEF TypesInv
<1>3. ASSUME NEW r \in Requests, Own(r) PROVE Goal
  <2> DEFINE d == dirs[SubOf[r]]
  <2>1. d \in Directory /\ Case(r) \in Nat
    BY DirectoryWritten, CaseIsNumber
  <2>2. d.stdin \in Files(Content) /\ d.stdout \in Files(Content)
    BY <2>1 DEF Directory
  <2>3. ASSUME NEW c \in Content, NEW b \in BOOLEAN
        PROVE  /\ [d EXCEPT !.there = b, !.stdin = With(d.stdin, Case(r), c)] \in Directory
               /\ [d EXCEPT !.stdin = With(d.stdin, Case(r), c)] \in Directory
               /\ [d EXCEPT !.stdout = With(d.stdout, Case(r), c)] \in Directory
    <3>1. With(d.stdin, Case(r), c) \in Files(Content) /\ With(d.stdout, Case(r), c) \in Files(Content)
      BY <2>1, <2>2, WithFile
    <3>2. ASSUME NEW files \in Files(Content)
          PROVE  /\ [d EXCEPT !.there = b, !.stdin = files] \in Directory
                 /\ [d EXCEPT !.stdin = files] \in Directory
                 /\ [d EXCEPT !.stdout = files] \in Directory
      BY <2>1 DEF Directory
    <3>. QED
      BY <3>1, <3>2
  <2>4. \A there, source, binary \in BOOLEAN :
            [d EXCEPT !.there = there, !.source = source, !.binary = binary] \in Directory
    BY <2>1 DEF Directory
  <2>5. Nothing \in Content
    BY DEF Content
  <2> HIDE DEF Goal
  <2>. QED
    BY <1>1, <1>2, <1>3, <2>3, <2>4, <2>5, DirectoryStep, NoDirectoryTyped DEF Fed, Printed
<1>4. ASSUME (\E d \in Data : Overwrite(d)) \/ Crash \/ UNCHANGED vars PROVE Goal
  BY <1>2, <1>4 DEF Overwrite, Crash, vars
<1>. QED
  <2> HIDE DEF Goal
  <2>. QED
    BY <1>3, <1>4, StepSplit DEF Goal

\* A request disturbs others only through files.
LEMMA OthersKept ==
    ASSUME DataTypes, NEW r \in Requests, NEW q \in Requests \ {r}, Own(r)
    PROVE  pc'[q] = pc[q] /\ side'[q] = side[q] /\ got'[q] = got[q] /\ results'[q] = results[q]
<1> USE DEF requestVars, histVars, Goto, Answer, Throw, DataTypes
<1>1. CASE RemoveDirectory(r) \/ DownloadFails(r)
  BY <1>1 DEF RemoveDirectory, DownloadFails
<1>2. CASE Work(r)
  BY <1>2 DEF Work, CreateDirectory, WriteSource, Compile, Link, AcceptBinary, CheckCache, Download,
     Verify, ReadFile, OpenInput, WriteInput, StartChild, FinishChild, KillChild, Ended, Collect,
     Summarize
<1>. QED
  BY <1>1, <1>2 DEF Own

\* The types of the requests and of what else they share.
Pcs == {"new", "removed", "writing", "compiling", "linking", "compiled", "cases", "downloading",
        "verifying", "reading", "staging", "filling", "starting", "running", "collecting", "answered", "lost"}
Child ==
    [ends : Endings \cup {"none", "running", "noexec", "timeout"},
     over : BOOLEAN, linked : BOOLEAN, alone : BOOLEAN]

OtherTypes ==
    /\ pc \in [Requests -> Pcs]
    /\ objects \in [Data -> Content \ {Nothing}]
    /\ child \in [Requests -> Child]
    /\ verdict \in [Requests -> Verdicts \cup {"none"}]
    /\ \A r \in Requests : pc[r] = "answered" => verdict[r] # "none"
    /\ met \subseteq Requests
    /\ shared \subseteq Requests
    /\ replaced \subseteq Requests
    /\ faults \in 0..MaxFaults

LEMMA TypesSplit == TypesInv <=> DataTypes /\ OtherTypes /\ dirs \in [Subs -> Directory]
<1>1. TypesInv => DataTypes /\ OtherTypes /\ dirs \in [Subs -> Directory]
  BY DEF TypesInv, TypeOK, DataTypes, OtherTypes, Pcs, Child
<1>2. ASSUME DataTypes, OtherTypes, dirs \in [Subs -> Directory] PROVE TypesInv
  <2>1. ASSUME NEW s \in Subs
        PROVE  /\ {dirs[s].there, dirs[s].source, dirs[s].binary} \subseteq BOOLEAN
               /\ {dirs[s].stdin[i] : i \in DOMAIN dirs[s].stdin} \subseteq Content
               /\ {dirs[s].stdout[i] : i \in DOMAIN dirs[s].stdout} \subseteq Content
    <3>1. dirs[s] \in Directory
      BY <1>2
    <3>2. /\ dirs[s].there \in BOOLEAN /\ dirs[s].source \in BOOLEAN /\ dirs[s].binary \in BOOLEAN
          /\ dirs[s].stdin \in Files(Content) /\ dirs[s].stdout \in Files(Content)
      BY <3>1 DEF Directory
    <3>. QED
      BY <3>2, FilesTyped
  <2>. QED
    BY <1>2, <2>1 DEF TypesInv, TypeOK, DataTypes, OtherTypes, Pcs, Child
<1>. QED
  BY <1>1, <1>2

\* The fold over no statuses, and over some.
LEMMA SummaryIsVerdict ==
    ASSUME NEW t \in Seq(Verdicts)
    PROVE  Summary(t) \in Verdicts
<1>1. CASE t = <<>>
  BY <1>1 DEF Summary, Verdicts
<1>2. CASE t # <<>>
  <2>1. Summary(t) = FirstFailure(t, DOMAIN t)
    BY <1>2, SummaryIsFirstFailure
  <2>2. DOMAIN t \cap Failed(t) \subseteq Nat /\ \A i \in DOMAIN t : t[i] \in Verdicts
    OBVIOUS
  <2>3. DOMAIN t \cap Failed(t) # {} => First(DOMAIN t \cap Failed(t)) \in DOMAIN t
    BY <2>2, FirstIsLeast
  <2>. QED
    BY <2>1, <2>2, <2>3 DEF FirstFailure, Verdicts
<1>. QED
  BY <1>1, <1>2

\* A truncation changes one field of the runs of others.
LEMMA DisturbedTyped ==
    ASSUME OtherTypes, NEW r \in Requests
    PROVE  /\ Disturbed(r) \in [Requests -> Child]
           /\ \A q \in Requests :
                  /\ Disturbed(r)[q].ends = child[q].ends /\ Disturbed(r)[q].over = child[q].over
                  /\ Disturbed(r)[q].linked = child[q].linked
                  /\ ~SameFiles(q, r) => Disturbed(r)[q] = child[q]
<1> SUFFICES ASSUME NEW q \in Requests
             PROVE  /\ Disturbed(r)[q] \in Child
                    /\ Disturbed(r)[q].ends = child[q].ends /\ Disturbed(r)[q].over = child[q].over
                    /\ Disturbed(r)[q].linked = child[q].linked
                    /\ ~SameFiles(q, r) => Disturbed(r)[q] = child[q]
  BY DEF Disturbed
<1>1. child[q] \in Child
  BY DEF OtherTypes
<1> DEFINE b == child[q].alone /\ ~(SameFiles(q, r) /\ child[q].linked)
<1>2. b \in BOOLEAN /\ (~SameFiles(q, r) => b = child[q].alone)
  BY <1>1 DEF Child
<1>3. Disturbed(r)[q] = [child[q] EXCEPT !.alone = b]
  BY DEF Disturbed
<1> HIDE DEF b
<1>. QED
  BY <1>1, <1>2, <1>3 DEF Child

\* What the steps of a request do to the runs: one of its own begins, ends or
\* is forgotten, and the others keep what their programs did.
LEMMA ChildStep ==
    ASSUME DataTypes, DataInv, OtherTypes, NEW r \in Requests, Own(r)
    PROVE  /\ child' \in [Requests -> Child]
           /\ \A q \in Requests \ {r} :
                  /\ child'[q].ends = child[q].ends /\ child'[q].over = child[q].over
                  /\ SubOf[q] # SubOf[r] => child'[q] = child[q]
<1> DEFINE Goal == /\ child' \in [Requests -> Child]
                   /\ \A q \in Requests \ {r} :
                          /\ child'[q].ends = child[q].ends /\ child'[q].over = child[q].over
                          /\ SubOf[q] # SubOf[r] => child'[q] = child[q]
<1>0. child \in [Requests -> Child]
  BY DEF OtherTypes
<1>1. ASSUME NEW c \in Child, child' = [child EXCEPT ![r] = c] PROVE Goal
  BY <1>0, <1>1
<1>2. ASSUME NEW c \in Child, child' = [Disturbed(r) EXCEPT ![r] = c] PROVE Goal
  BY <1>2, DisturbedTyped DEF SameFiles, DirOf
<1>3. CASE RemoveDirectory(r)
  BY <1>0, <1>3 DEF RemoveDirectory, Child, DirOf
<1>4. NewChild \in Child /\ NoChild \in Child
  BY DEF NewChild, NoChild, Child
<1>5. CASE OpenInput(r)
  BY <1>2, <1>4, <1>5 DEF OpenInput
<1>6. CASE StartChild(r)
  <2> DEFINE d == dirs[DirOf(r)]
             opened == CaseDir(r) \in DOMAIN d.stdin
             whole == opened /\ d.stdin[CaseDir(r)] = Test(r).in /\ ~Written(r)
  <2>1. opened \in BOOLEAN /\ whole \in BOOLEAN
    OBVIOUS
  <2>2. \/ child' = [Disturbed(r) EXCEPT ![r] = [NewChild EXCEPT !.ends = "running", !.alone = whole]]
        \/ child' = [Disturbed(r) EXCEPT ![r] = [NewChild EXCEPT !.ends = "noexec", !.linked = opened]]
        \/ child' = [child EXCEPT ![r] = [NewChild EXCEPT !.ends = "noexec", !.linked = opened]]
    BY <1>6 DEF StartChild
  <2> HIDE DEF opened, whole
  <2>3. /\ [NewChild EXCEPT !.ends = "running", !.alone = whole] \in Child
        /\ [NewChild EXCEPT !.ends = "noexec", !.linked = opened] \in Child
    BY <2>1 DEF NewChild, NoChild, Child
  <2> DEFINE ran == [NewChild EXCEPT !.ends = "running", !.alone = whole]
             failed == [NewChild EXCEPT !.ends = "noexec", !.linked = opened]
  <2>4. /\ ran \in Child /\ failed \in Child
        /\ \/ child' = [Disturbed(r) EXCEPT ![r] = ran]
           \/ child' = [Disturbed(r) EXCEPT ![r] = failed]
           \/ child' = [child EXCEPT ![r] = failed]
    BY <2>2, <2>3
  <2> HIDE DEF ran, failed
  <2>. QED
    BY <1>1, <1>2, <2>4
<1>7. CASE FinishChild(r) \/ KillChild(r)
  <2>1. PICK ends \in Endings \cup {"timeout"}, over \in BOOLEAN, out \in Content : Ended(r, ends, over, out)
    BY <1>7, EndSplit
  <2>2. [child[r] EXCEPT !.ends = ends, !.over = over] \in Child
    BY <1>0 DEF Child
  <2>3. child' = [child EXCEPT ![r] = [child[r] EXCEPT !.ends = ends, !.over = over]]
    BY <2>1 DEF Ended
  <2>. QED
    BY <1>1, <2>2, <2>3
<1>8. CASE Collect(r)
  BY <1>1, <1>4, <1>8 DEF Collect
<1>9. CASE \/ DownloadFails(r) \/ CreateDirectory(r) \/ WriteSource(r) \/ Compile(r) \/ Link(r)
           \/ AcceptBinary(r) \/ CheckCache(r) \/ Download(r) \/ Verify(r) \/ ReadFile(r)
           \/ WriteInput(r) \/ Summarize(r)
  <2>1. child' = child
    BY <1>9 DEF DownloadFails, CreateDirectory, WriteSource, Compile, Link, AcceptBinary, CheckCache,
       Download, Verify, ReadFile, WriteInput, Summarize, requestVars
  <2>. QED
    BY <1>0, <2>1
<1>. QED
  BY <1>3, <1>5, <1>6, <1>7, <1>8, <1>9 DEF Own, Work

LEMMA OtherTypesStep ==
    ASSUME DataTypes, DataInv, OtherTypes, [Next]_vars
    PROVE  OtherTypes'
<1> USE JudgeWorkerAssumption DEF OtherTypes, Pcs, requestVars, histVars, Goto, Answer, Throw, Spend
<1>0. ASSUME NEW r \in Requests, Own(r) PROVE child' \in [Requests -> Child]
  BY <1>0, ChildStep
<1>1. ASSUME NEW r \in Requests, RemoveDirectory(r) PROVE OtherTypes'
  BY <1>0, <1>1 DEF RemoveDirectory, InFlight, Own
<1>2. ASSUME NEW r \in Requests,
             DownloadFails(r) \/ WriteSource(r) \/ Compile(r) \/ AcceptBinary(r) \/ Verify(r)
      PROVE  OtherTypes'
  <2>1. CASE DownloadFails(r)
    BY <2>1 DEF DownloadFails, Verdicts
  <2>2. CASE WriteSource(r) \/ Compile(r)
    BY <2>2 DEF WriteSource, Compile, Verdicts
  <2>3. CASE AcceptBinary(r) \/ Verify(r)
    BY <2>3 DEF AcceptBinary, Verify, Verdicts
  <2>. QED
    BY <1>2, <2>1, <2>2, <2>3
<1>3. ASSUME NEW r \in Requests,
             CreateDirectory(r) \/ Link(r) \/ CheckCache(r) \/ Download(r) \/ WriteInput(r)
      PROVE  OtherTypes'
  BY <1>3 DEF CreateDirectory, Link, CheckCache, Download, WriteInput
<1>4. ASSUME NEW r \in Requests, ReadFile(r) PROVE OtherTypes'
  BY <1>4 DEF ReadFile, Verdicts
<1>5. ASSUME NEW r \in Requests, OpenInput(r) PROVE OtherTypes'
  <2>1. child' \in [Requests -> Child]
    BY <1>0, <1>5 DEF Own, Work
  <2>. QED
    BY <1>5, <2>1 DEF OpenInput, Rivals
<1>6. ASSUME NEW r \in Requests, StartChild(r) \/ FinishChild(r) \/ KillChild(r) PROVE OtherTypes'
  <2>1. child' \in [Requests -> Child]
    BY <1>0, <1>6 DEF Own, Work
  <2>2. /\ pc' \in [Requests -> Pcs] /\ UNCHANGED <<objects, verdict, met, shared, replaced, faults>>
        /\ \A q \in Requests : pc'[q] = "answered" => pc[q] = "answered"
    BY <1>6 DEF StartChild, FinishChild, KillChild, Ended
  <2>. QED
    BY <2>1, <2>2
<1>7. ASSUME NEW r \in Requests, Collect(r) PROVE OtherTypes'
  BY <1>7 DEF Collect, Child, NoChild
<1>8. ASSUME NEW r \in Requests, Summarize(r) PROVE OtherTypes'
  <2>1. Summary(results[r]) \in Verdicts
    BY SummaryIsVerdict DEF DataTypes
  <2>. QED
    BY <1>8, <2>1 DEF Summarize, Verdicts
<1>9. ASSUME NEW d \in Data, Overwrite(d) PROVE OtherTypes'
  BY <1>9 DEF Overwrite, Content
<1>10. CASE Crash
  BY <1>10 DEF Crash, NoChild, Child
<1>11. CASE UNCHANGED vars
  BY <1>11 DEF vars
<1>. QED
  <2> HIDE DEF OtherTypes
  <2>. QED
    BY <1>1, <1>2, <1>3, <1>4, <1>5, <1>6, <1>7, <1>8, <1>9, <1>10, <1>11, StepSplit DEF Own, Work

-----------------------------------------------------------------------------
(* Acceptance is earned.                                                   *)

\* How a program ends, seen by the one who waits for it.
EndOf(run) == IF run.ends = "hangs" THEN "timeout" ELSE run.ends

\* A binary comes from a compiler.
CompiledInv ==
    \A r \in Requests :
        pc[r] \in {"linking", "compiled"} \cup Judging => Program[SubOf[r]].compiles

\* Two requests in flight for one submission have met.
AloneInv ==
    \A r, q \in Requests :
        r # q /\ SubOf[r] = SubOf[q] /\ InFlight(r) /\ InFlight(q) => r \in met

\* Requests that run the same case at the same time share it.
SharingInv ==
    /\ shared \subseteq met
    /\ \A r, q \in Requests :
           r # q /\ SubOf[r] = SubOf[q] /\ Case(r) = Case(q) /\ pc[r] \in OnCase /\ pc[q] \in OnCase
               => r \in shared

\* The files of a case that is not shared have the input of the case and the
\* output of the program on it, if they are there: a directory may have been
\* removed and made anew.
Private(r) ==
    LET d == dirs[SubOf[r]]
    IN  /\ pc[r] = "filling" =>
               child[r].alone /\ (~child[r].linked => Case(r) \notin DOMAIN d.stdin)
        /\ pc[r] = "starting" /\ Case(r) \in DOMAIN d.stdin => d.stdin[Case(r)] = Test(r).in
        /\ pc[r] = "running" =>
               child[r].alone /\ (~child[r].linked => Case(r) \notin DOMAIN d.stdout)
        /\ pc[r] = "collecting" =>
               /\ child[r].ends \in {"noexec", EndOf(Run(r))}
               /\ child[r].ends \notin {"noexec", "timeout"} => child[r].over = Run(r).over
               /\ child[r].ends = "zero" /\ Case(r) \in DOMAIN d.stdout => d.stdout[Case(r)] = OutputOf(r)

PrivateInv == \A r \in Requests \ (shared \cup replaced) : Private(r)

Earned(r) ==
    /\ Len(results[r]) <= Len(Tests[SubOf[r]])
    /\ \A i \in DOMAIN results[r] :
           results[r][i] = "OK" => DeservedCase(Program[SubOf[r]].runs[i]) = "OK"
    /\ verdict[r] = "OK" => Deserved(SubOf[r]) = "OK"

EarnedInv == \A r \in Requests \ (shared \cup replaced) : Earned(r)

LEMMA CompiledStep ==
    ASSUME DataTypes, CompiledInv, [Next]_vars
    PROVE  CompiledInv'
<1> SUFFICES ASSUME NEW q \in Requests
             PROVE  pc'[q] \in {"linking", "compiled"} \cup Judging => Program[SubOf[q]].compiles
  BY DEF CompiledInv
<1> DEFINE Past == {"linking", "compiled"} \cup Judging
<1> USE DEF requestVars, histVars, Goto, Answer, Throw, Spend, Fetching, Running, Judging
<1>0. pc[q] \in Past => Program[SubOf[q]].compiles
  BY DEF CompiledInv
<1>1. ASSUME NEW r \in Requests, r # q, Own(r) PROVE pc'[q] = pc[q]
  BY <1>1, OthersKept
<1>2. CASE RemoveDirectory(q) \/ DownloadFails(q) \/ CreateDirectory(q) \/ WriteSource(q)
  BY <1>2 DEF DataTypes, RemoveDirectory, DownloadFails, CreateDirectory, WriteSource
<1>3. CASE Compile(q)
  BY <1>3 DEF DataTypes, Compile
<1>4. CASE Link(q) \/ AcceptBinary(q) \/ CheckCache(q) \/ Download(q) \/ Verify(q) \/ ReadFile(q)
  <2>1. pc[q] \in Past
    BY <1>4 DEF Link, AcceptBinary, CheckCache, Download, Verify, ReadFile
  <2>. QED
    BY <1>0, <2>1
<1>5. CASE \/ OpenInput(q) \/ WriteInput(q) \/ StartChild(q) \/ FinishChild(q) \/ KillChild(q)
           \/ Collect(q) \/ Summarize(q)
  <2>1. pc[q] \in Past
    BY <1>5 DEF OpenInput, WriteInput, StartChild, FinishChild, KillChild, Ended, Collect, Summarize
  <2>. QED
    BY <1>0, <2>1
<1>6. ASSUME NEW d \in Data, Overwrite(d) PROVE pc' = pc
  BY <1>6 DEF Overwrite
<1>7. CASE Crash
  BY <1>7 DEF DataTypes, Crash, InFlight
<1>8. CASE UNCHANGED vars
  BY <1>0, <1>8 DEF vars
<1>9. ASSUME Own(q) PROVE pc'[q] \in Past => Program[SubOf[q]].compiles
  BY <1>9, <1>2, <1>3, <1>4, <1>5 DEF Own, Work
<1>. QED
  BY <1>0, <1>1, <1>6, <1>7, <1>8, <1>9, StepSplit

\* A step of a request leaves the directories of other submissions alone.
LEMMA OtherDirectories ==
    ASSUME DataInv, DataTypes, TypesInv, NEW r \in Requests, Own(r)
    PROVE  \A s \in Subs : s # SubOf[r] => dirs'[s] = dirs[s]
<1> DEFINE Goal == \A s \in Subs : s # SubOf[r] => dirs'[s] = dirs[s]
<1>1. ASSUME NEW e, Put(r, e) PROVE Goal
  BY <1>1 DEF TypesInv, Put
<1>. QED
  <2> HIDE DEF Goal
  <2>1. UNCHANGED dirs => Goal
    BY DEF Goal
  <2>2. Goal
    BY <1>1, <2>1, DirectoryStep DEF Fed, Printed
  <2>. QED
    BY <2>2 DEF Goal

\* Nor does a request decide for another, or end its program.
LEMMA OthersWait ==
    ASSUME DataTypes, DataInv, OtherTypes, NEW r \in Requests, NEW q \in Requests \ {r}, Own(r)
    PROVE  /\ verdict'[q] = verdict[q]
           /\ child'[q].ends = child[q].ends
           /\ SubOf[q] # SubOf[r] => child'[q] = child[q]
<1> USE DEF requestVars, histVars, Goto, Answer, Throw, OtherTypes
<1>1. CASE RemoveDirectory(r) \/ DownloadFails(r)
  BY <1>1, ChildStep DEF RemoveDirectory, DownloadFails
<1>2. CASE Work(r)
  <2>1. verdict'[q] = verdict[q]
    BY <1>2 DEF Work, CreateDirectory, WriteSource, Compile, Link, AcceptBinary, CheckCache, Download,
       Verify, ReadFile, OpenInput, WriteInput, StartChild, FinishChild, KillChild, Ended, Collect,
       Summarize
  <2>. QED
    BY <2>1, ChildStep
<1>. QED
  BY <1>1, <1>2 DEF Own

LEMMA HistoryGrows ==
    ASSUME OtherTypes, [Next]_vars
    PROVE  /\ met \subseteq met' /\ shared \subseteq shared' /\ replaced \subseteq replaced'
           /\ faults > 0 => faults' > 0
<1> DEFINE Goal == /\ met \subseteq met' /\ shared \subseteq shared' /\ replaced \subseteq replaced'
                   /\ faults > 0 => faults' > 0
<1>0. faults \in Nat
  BY JudgeWorkerAssumption DEF OtherTypes
<1> USE DEF requestVars, histVars, Spend, OtherTypes
<1>1. ASSUME NEW r \in Requests, RemoveDirectory(r) PROVE Goal
  BY <1>0, <1>1 DEF RemoveDirectory
<1>2. ASSUME NEW r \in Requests, DownloadFails(r) PROVE Goal
  BY <1>0, <1>2 DEF DownloadFails
<1>3. ASSUME NEW r \in Requests, Work(r) PROVE Goal
  BY <1>0, <1>3 DEF Work, CreateDirectory, WriteSource, Compile, Link, AcceptBinary, CheckCache, Download,
     Verify, ReadFile, OpenInput, WriteInput, StartChild, FinishChild, KillChild, Ended, Collect,
     Summarize
<1>4. ASSUME (\E d \in Data : Overwrite(d)) \/ Crash \/ UNCHANGED vars PROVE Goal
  BY <1>0, <1>4 DEF Overwrite, Crash, vars
<1>. QED
  BY <1>1, <1>2, <1>3, <1>4, StepSplit DEF Own

\* A request takes off when it removes the directory, and only then.
LEMMA TakingOff ==
    ASSUME DataTypes, [Next]_vars, NEW q \in Requests, InFlight(q)'
    PROVE  InFlight(q) \/ RemoveDirectory(q)
<1> USE DEF requestVars, histVars, Goto, Answer, Throw, Spend, InFlight
<1>1. ASSUME NEW r \in Requests, r # q, Own(r) PROVE InFlight(q)
  BY <1>1, OthersKept
<1>2. ASSUME Own(q) PROVE InFlight(q) \/ RemoveDirectory(q)
  BY <1>2 DEF Own, DownloadFails, Work, CreateDirectory, WriteSource, Compile, Link, AcceptBinary,
     CheckCache,
     Download, Verify, ReadFile, OpenInput, WriteInput, StartChild, FinishChild, KillChild, Ended,
     Collect, Summarize
<1>3. ASSUME (\E d \in Data : Overwrite(d)) \/ Crash \/ UNCHANGED vars PROVE InFlight(q)
  BY <1>3 DEF Overwrite, Crash, vars, DataTypes
<1>. QED
  BY <1>1, <1>2, <1>3, StepSplit

LEMMA AloneStep ==
    ASSUME DataTypes, OtherTypes, AloneInv, [Next]_vars
    PROVE  AloneInv'
<1> SUFFICES ASSUME NEW r \in Requests, NEW q \in Requests, r # q, SubOf[r] = SubOf[q],
                    InFlight(r)', InFlight(q)'
             PROVE  r \in met'
  BY DEF AloneInv
<1>1. /\ InFlight(r) \/ RemoveDirectory(r)
      /\ InFlight(q) \/ RemoveDirectory(q)
  BY TakingOff
<1>2. CASE InFlight(r) /\ InFlight(q)
  BY <1>2, HistoryGrows DEF AloneInv
<1>3. CASE RemoveDirectory(r)
  <2>1. InFlight(q)
    BY <1>3, OthersKept DEF Own, InFlight
  <2>. QED
    BY <1>3, <2>1 DEF RemoveDirectory
<1>4. CASE RemoveDirectory(q)
  <2>1. InFlight(r)
    BY <1>4, OthersKept DEF Own, InFlight
  <2>. QED
    BY <1>4, <2>1 DEF RemoveDirectory
<1>. QED
  BY <1>1, <1>2, <1>3, <1>4

\* A request begins with a case when it opens the file for its input.
LEMMA CaseBegun ==
    ASSUME DataTypes, [Next]_vars, NEW q \in Requests, pc'[q] \in OnCase
    PROVE  OpenInput(q) \/ (pc[q] \in OnCase /\ results'[q] = results[q])
<1> USE DEF requestVars, histVars, Goto, Answer, Throw, Spend, OnCase
<1>1. ASSUME NEW r \in Requests, r # q, Own(r) PROVE pc[q] \in OnCase /\ results'[q] = results[q]
  BY <1>1, OthersKept
<1>2. ASSUME Own(q) PROVE OpenInput(q) \/ (pc[q] \in OnCase /\ results'[q] = results[q])
  <2>1. CASE RemoveDirectory(q) \/ DownloadFails(q)
    BY <2>1 DEF DataTypes, RemoveDirectory, DownloadFails
  <2>2. CASE Work(q)
    BY <2>2 DEF DataTypes, Work, CreateDirectory, WriteSource, Compile, Link, AcceptBinary, CheckCache,
       Download, Verify, ReadFile, WriteInput, StartChild, FinishChild, KillChild, Ended, Collect,
       Summarize
  <2>. QED
    BY <1>2, <2>1, <2>2 DEF Own
<1>3. ASSUME (\E d \in Data : Overwrite(d)) \/ UNCHANGED vars PROVE pc' = pc /\ results' = results
  BY <1>3 DEF Overwrite, vars
<1>4. CASE Crash
  BY <1>4 DEF Crash, InFlight, DataTypes
<1>. QED
  BY <1>1, <1>2, <1>3, <1>4, StepSplit

LEMMA SharingStep ==
    ASSUME DataTypes, OtherTypes, AloneInv, SharingInv, [Next]_vars
    PROVE  SharingInv'
<1>0. met \subseteq met' /\ shared \subseteq shared' /\ shared \subseteq met
  BY HistoryGrows DEF SharingInv
<1>1. shared' \subseteq met'
  <2>1. ASSUME NEW r \in Requests, OpenInput(r) PROVE shared' \subseteq met'
    <3>1. \A q \in Rivals(r) : q \in met /\ r \in met
      BY <2>1 DEF AloneInv, Rivals, OpenInput, InFlight, OnCase
    <3>. QED
      BY <1>0, <2>1, <3>1 DEF OpenInput
  <2>2. ASSUME NEW r \in Requests, Own(r), ~OpenInput(r) PROVE shared' = shared
    BY <2>2 DEF Own, RemoveDirectory, DownloadFails, Work, CreateDirectory, WriteSource, Compile, Link,
       AcceptBinary, CheckCache, Download, Verify, ReadFile, WriteInput, StartChild, FinishChild,
       KillChild,
       Ended, Collect, Summarize, histVars
  <2>3. ASSUME (\E d \in Data : Overwrite(d)) \/ Crash \/ UNCHANGED vars PROVE shared' = shared
    BY <2>3 DEF Overwrite, Crash, vars, histVars
  <2>. QED
    BY <1>0, <2>1, <2>2, <2>3, StepSplit
<1>2. ASSUME NEW r \in Requests, NEW q \in Requests, r # q, SubOf[r] = SubOf[q], Case(r)' = Case(q)',
             pc'[r] \in OnCase, pc'[q] \in OnCase
      PROVE  r \in shared'
  <2>1. CASE OpenInput(r)
    <3>1. pc'[q] = pc[q] /\ results'[q] = results[q] /\ results' = results
      BY <1>2, <2>1, OthersKept DEF Own, Work, OpenInput
    <3>2. q \in Rivals(r)
      BY <1>2, <3>1 DEF Rivals, Case
    <3>. QED
      BY <2>1, <3>2 DEF OpenInput
  <2>2. CASE OpenInput(q)
    <3>1. pc'[r] = pc[r] /\ results'[r] = results[r] /\ results' = results
      BY <1>2, <2>2, OthersKept DEF Own, Work, OpenInput
    <3>2. r \in Rivals(q)
      BY <1>2, <3>1 DEF Rivals, Case
    <3>. QED
      BY <2>2, <3>2 DEF OpenInput
  <2>3. CASE pc[r] \in OnCase /\ results'[r] = results[r] /\ pc[q] \in OnCase /\ results'[q] = results[q]
    BY <1>0, <1>2, <2>3 DEF SharingInv, Case
  <2>. QED
    BY <1>2, <2>1, <2>2, <2>3, CaseBegun
<1>. QED
  BY <1>1, <1>2 DEF SharingInv

\* A step of another request and the files of a case that is not shared: the
\* directory is removed with them, or they and the run are left alone.
Removed(q) ==
    /\ ~child'[q].linked /\ child'[q].alone = child[q].alone
    /\ Case(q) \notin DOMAIN dirs'[SubOf[q]].stdin
    /\ Case(q) \notin DOMAIN dirs'[SubOf[q]].stdout

SameAt(new, old, i) ==
    /\ i \in DOMAIN new <=> i \in DOMAIN old
    /\ i \in DOMAIN old => new[i] = old[i]

LeftAlone(q) ==
    /\ child'[q] = child[q]
    /\ SameAt(dirs'[SubOf[q]].stdin, dirs[SubOf[q]].stdin, Case(q))
    /\ SameAt(dirs'[SubOf[q]].stdout, dirs[SubOf[q]].stdout, Case(q))

LEMMA OthersFiles ==
    ASSUME DataTypes, DataInv, TypesInv, OtherTypes, SharingInv, NEW r \in Requests, NEW q \in Requests,
           r # q, Own(r), pc[q] \in OnCase, q \notin shared'
    PROVE  Removed(q) \/ LeftAlone(q)
<1> DEFINE d == dirs[SubOf[r]]
           e == dirs'[SubOf[q]]
           i == Case(q)
<1>0. /\ d \in Directory /\ Case(r) \in Nat /\ SubOf[r] \in Subs /\ q \notin shared
      /\ d.stdin \in Files(Content) /\ d.stdout \in Files(Content)
  <2>1. d \in Directory /\ Case(r) \in Nat /\ SubOf[r] \in Subs
    BY DirectoryWritten, CaseIsNumber, JudgeWorkerAssumption
  <2>2. [Next]_vars
    BY DEF Next, Own
  <2>. QED
    BY <2>1, <2>2, HistoryGrows DEF Directory
<1>1. CASE SubOf[r] # SubOf[q]
  <2>1. dirs'[SubOf[q]] = dirs[SubOf[q]] /\ child'[q] = child[q]
    BY <1>1, OtherDirectories, ChildStep, JudgeWorkerAssumption
  <2>. QED
    BY <2>1 DEF LeftAlone, SameAt
<1>2. CASE SubOf[r] = SubOf[q] /\ RemoveDirectory(r)
  <2>1. e = NoDirectory
    BY <1>0, <1>2, DirectoryWritten DEF Put, TypesInv
  <2>2. child'[q] = [child[q] EXCEPT !.linked = FALSE]
    BY <1>2 DEF RemoveDirectory, DirOf
  <2>3. child[q] \in Child
    BY DEF OtherTypes
  <2>. QED
    BY <2>1, <2>2, <2>3 DEF NoDirectory, Removed, Child
<1>3. CASE SubOf[r] = SubOf[q] /\ ~RemoveDirectory(r)
  <2>1. pc[r] \in OnCase \/ OpenInput(r) => Case(r) # Case(q)
    <3>1. pc[r] \in OnCase => Case(r) # Case(q)
      BY <1>0, <1>3 DEF SharingInv
    <3>2. OpenInput(r) => Case(r) # Case(q)
      <4> SUFFICES ASSUME OpenInput(r), Case(r) = Case(q) PROVE FALSE
        OBVIOUS
      <4>1. q \in Rivals(r)
        BY <1>3 DEF Rivals
      <4>. QED
        BY <4>1 DEF OpenInput
    <3>. QED
      BY <3>1, <3>2
  <2>2. OpenInput(r) \/ WriteInput(r) \/ StartChild(r) \/ FinishChild(r) \/ KillChild(r) => Case(r) # Case(q)
    BY <2>1 DEF WriteInput, StartChild, FinishChild, KillChild, OnCase
  <2>3. child'[q] = child[q]
    <3>1. CASE OpenInput(r) \/ StartChild(r)
      <4>1. Disturbed(r)[q] = child[q]
        BY <2>2, <3>1, DisturbedTyped DEF SameFiles, CaseDir
      <4>2. child'[q] = Disturbed(r)[q] \/ child'[q] = child[q]
        <5>1. child = [p \in Requests |-> child[p]] /\ Disturbed(r) = [p \in Requests |-> Disturbed(r)[p]]
          BY DisturbedTyped DEF OtherTypes
        <5>2. CASE OpenInput(r)
          BY <5>1, <5>2 DEF OpenInput
        <5>3. CASE StartChild(r)
          BY <5>1, <5>3 DEF StartChild
        <5>. QED
          BY <3>1, <5>2, <5>3
      <4>. QED
        BY <4>1, <4>2
    <3>2. CASE FinishChild(r) \/ KillChild(r) \/ Collect(r)
      <4>1. \E c : child' = [child EXCEPT ![r] = c]
        BY <3>2 DEF FinishChild, KillChild, Collect, Ended
      <4>. QED
        BY <4>1 DEF OtherTypes
    <3>3. CASE \/ DownloadFails(r) \/ CreateDirectory(r) \/ WriteSource(r) \/ Compile(r) \/ Link(r)
               \/ AcceptBinary(r) \/ CheckCache(r) \/ Download(r) \/ Verify(r) \/ ReadFile(r)
               \/ WriteInput(r) \/ Summarize(r)
      BY <3>3 DEF DownloadFails, CreateDirectory, WriteSource, Compile, Link, AcceptBinary, CheckCache,
         Download, Verify, ReadFile, WriteInput, Summarize, requestVars
    <3>. QED
      BY <1>3, <3>1, <3>2, <3>3 DEF Own, Work
  <2>4. ASSUME NEW files \in Files(Content), NEW c \in Content, Case(r) # i
        PROVE  SameAt(With(files, Case(r), c), files, i)
    BY <1>0, <2>4, WithFile DEF SameAt
  <2>5. ASSUME NEW f, Put(r, f) PROVE e = f
    BY <1>0, <1>3, <2>5 DEF Put, TypesInv
  <2>6. /\ SameAt(e.stdin, d.stdin, i)
        /\ SameAt(e.stdout, d.stdout, i)
    <3>1. CASE UNCHANGED dirs
      BY <1>3, <3>1 DEF SameAt
    <3>2. ASSUME NEW there \in BOOLEAN, NEW source \in BOOLEAN, NEW binary \in BOOLEAN,
                 Put(r, [d EXCEPT !.there = there, !.source = source, !.binary = binary])
          PROVE  SameAt(e.stdin, d.stdin, i) /\ SameAt(e.stdout, d.stdout, i)
      <4>1. e = [d EXCEPT !.there = there, !.source = source, !.binary = binary]
        BY <2>5, <3>2
      <4>2. e.stdin = d.stdin /\ e.stdout = d.stdout
        BY <1>0, <4>1 DEF Directory
      <4>. QED
        BY <4>2 DEF SameAt
    <3>3. ASSUME NEW c \in Content, Case(r) # i, NEW b \in BOOLEAN,
                 \/ Put(r, [d EXCEPT !.there = b, !.stdin = With(d.stdin, Case(r), c)])
                 \/ Fed(r, c) \/ Printed(r, c)
          PROVE  SameAt(e.stdin, d.stdin, i) /\ SameAt(e.stdout, d.stdout, i)
      <4>1. \/ e = [d EXCEPT !.there = b, !.stdin = With(d.stdin, Case(r), c)]
            \/ e = [d EXCEPT !.stdin = With(d.stdin, Case(r), c)]
            \/ e = [d EXCEPT !.stdout = With(d.stdout, Case(r), c)]
        BY <2>5, <3>3 DEF Fed, Printed
      <4>2. \/ e.stdin = With(d.stdin, Case(r), c) /\ e.stdout = d.stdout
            \/ e.stdin = d.stdin /\ e.stdout = With(d.stdout, Case(r), c)
        <5> DEFINE fed == With(d.stdin, Case(r), c)
                   printed == With(d.stdout, Case(r), c)
        <5>2. \/ e = [d EXCEPT !.there = b, !.stdin = fed]
              \/ e = [d EXCEPT !.stdin = fed]
              \/ e = [d EXCEPT !.stdout = printed]
          BY <4>1
        <5> HIDE DEF fed, printed
        <5>3. \/ e.stdin = fed /\ e.stdout = d.stdout
              \/ e.stdin = d.stdin /\ e.stdout = printed
          BY <1>0, <5>2 DEF Directory
        <5>. QED
          BY <5>3 DEF fed, printed
      <4>. QED
        BY <1>0, <2>4, <3>3, <4>2 DEF SameAt
    <3>4. Nothing \in Content
      BY DEF Content
    <3>. QED
      BY <1>3, <2>2, <3>1, <3>2, <3>3, <3>4, DirectoryStep
  <2>. QED
    BY <1>3, <2>3, <2>6 DEF LeftAlone
<1>. QED
  BY <1>1, <1>2, <1>3

\* A step of the request itself.
LEMMA PrivateOwn ==
    ASSUME IInv, TypesInv, OtherTypes, SharingInv, NEW q \in Requests, Own(q),
           q \notin shared, q \notin replaced, Private(q)
    PROVE  Private(q)'
<1> DEFINE d == dirs[SubOf[q]]
           e == dirs'[SubOf[q]]
           i == Case(q)
<1>0. /\ DataTypes /\ DataInv /\ d \in Directory /\ i \in Nat /\ SubOf[q] \in Subs
      /\ d.stdin \in Files(Content) /\ d.stdout \in Files(Content)
      /\ pc = [r \in Requests |-> pc[r]] /\ child = [r \in Requests |-> child[r]]
  <2>1. DataTypes /\ DataInv /\ d \in Directory /\ i \in Nat /\ SubOf[q] \in Subs
    BY DirectoryWritten, CaseIsNumber, JudgeWorkerAssumption DEF IInv
  <2>. QED
    BY <2>1 DEF Directory, DataTypes, OtherTypes
<1> USE DEF requestVars, histVars, Goto, Answer, Throw, Spend
<1>1. ASSUME pc'[q] \notin OnCase PROVE Private(q)'
  BY <1>1 DEF Private, OnCase
<1>2. ASSUME results' = results
      PROVE  /\ Case(q)' = i /\ Test(q)' = Test(q) /\ Run(q)' = Run(q)
             /\ OutputOf(q)' = OutputOf(q)
  BY <1>2 DEF Case, Test, Run, OutputOf
<1>3. ASSUME NEW f, Put(q, f) PROVE e = f
  BY <1>0, <1>3 DEF Put, TypesInv
<1>4. \A files : i \in DOMAIN With(files, i, Nothing)
  BY DEF With
<1>5. CASE OpenInput(q)
  <2>1. /\ pc'[q] = "filling" /\ results' = results /\ child'[q] = NewChild
        /\ e = [d EXCEPT !.there = TRUE, !.stdin = With(d.stdin, i, Nothing)]
    <3>1. pc'[q] = "filling" /\ results' = results
      BY <1>0, <1>5 DEF OpenInput
    <3>2. child'[q] = NewChild
      BY <1>5, DisturbedTyped DEF OpenInput
    <3>. QED
      BY <1>0, <1>3, <1>5, <3>1, <3>2, DirectoryWritten
  <2>2. child'[q].alone /\ child'[q].linked
    BY <2>1 DEF NewChild, NoChild
  <2>. QED
    BY <1>2, <2>1, <2>2 DEF Private
<1>6. CASE WriteInput(q)
  <2>1. pc[q] = "filling" /\ pc'[q] = "starting" /\ results' = results /\ got[q] = Test(q)
    BY <1>0, <1>6 DEF WriteInput, DataInv, Running
  <2>2. child[q].alone /\ (~child[q].linked => i \notin DOMAIN d.stdin)
    BY <2>1 DEF Private
  <2>3. CASE child[q].linked
    <3>1. dirs' = [dirs EXCEPT ![DirOf(q)].stdin = With(@, CaseDir(q), got[q].in)]
      BY <1>6, <2>2, <2>3 DEF WriteInput
    <3>2. e.stdin = With(d.stdin, i, got[q].in)
      BY <1>0, <3>1 DEF TypesInv, Directory, DirOf, CaseDir
    <3>3. e.stdin[i] = Test(q).in
      BY <2>1, <3>2 DEF With
    <3>. QED
      BY <1>2, <2>1, <3>3 DEF Private
  <2>4. CASE ~child[q].linked
    <3>1. i \notin DOMAIN e.stdin
      BY <1>6, <2>2, <2>4 DEF WriteInput
    <3>. QED
      BY <1>2, <2>1, <3>1 DEF Private
  <2>. QED
    BY <2>3, <2>4
<1>7. CASE StartChild(q)
  <2>1. pc[q] = "starting" /\ results' = results
    BY <1>7 DEF StartChild
  <2>2. i \in DOMAIN d.stdin => d.stdin[i] = Test(q).in
    BY <2>1 DEF Private
  <2>3. ~Written(q)
    <3> SUFFICES ASSUME NEW r \in Requests, SameFiles(r, q), pc[r] = "running" PROVE FALSE
      BY DEF Written
    <3>1. SubOf[r] = SubOf[q] /\ Case(r) = Case(q) /\ r # q
      BY DEF SameFiles, DirOf, CaseDir
    <3>. QED
      BY <2>1, <3>1 DEF SharingInv, OnCase
  <2>4. \/ /\ pc'[q] = "running" /\ i \in DOMAIN d.stdin
           /\ child'[q] = [NewChild EXCEPT !.ends = "running", !.alone = TRUE]
        \/ /\ pc'[q] = "collecting"
           /\ child'[q].ends = "noexec"
    <3>1. \A c : /\ [Disturbed(q) EXCEPT ![q] = c][q] = c
                 /\ [child EXCEPT ![q] = c][q] = c
      BY <1>0, DisturbedTyped
    <3>2. \A b : [NewChild EXCEPT !.ends = "noexec", !.linked = b].ends = "noexec"
      BY DEF NewChild, NoChild
    <3> DEFINE opened == i \in DOMAIN d.stdin
               whole == opened /\ d.stdin[i] = Test(q).in /\ ~Written(q)
    <3>3. \/ /\ opened /\ pc' = [pc EXCEPT ![q] = "running"]
             /\ child' = [Disturbed(q) EXCEPT ![q] = [NewChild EXCEPT !.ends = "running", !.alone = whole]]
          \/ /\ pc' = [pc EXCEPT ![q] = "collecting"]
             /\ \/ child' = [Disturbed(q) EXCEPT ![q] = [NewChild EXCEPT !.ends = "noexec", !.linked = opened]]
                \/ child' = [child EXCEPT ![q] = [NewChild EXCEPT !.ends = "noexec", !.linked = opened]]
      BY <1>7 DEF StartChild, DirOf, CaseDir
    <3>4. opened => whole = TRUE
      BY <2>2, <2>3
    <3> HIDE DEF opened, whole
    <3>6. CASE pc' = [pc EXCEPT ![q] = "running"]
      <4>1. opened /\ pc'[q] = "running"
        BY <1>0, <3>3, <3>6
      <4>2. pc' # [pc EXCEPT ![q] = "collecting"]
        BY <1>0, <4>1
      <4>3. child' = [Disturbed(q) EXCEPT ![q] = [NewChild EXCEPT !.ends = "running", !.alone = whole]]
        BY <3>3, <4>2
      <4>4. child'[q] = [NewChild EXCEPT !.ends = "running", !.alone = whole]
        BY <3>1, <4>3
      <4>. QED
        BY <3>4, <4>1, <4>4 DEF opened
    <3>7. CASE pc' = [pc EXCEPT ![q] = "collecting"]
      <4>1. pc'[q] = "collecting"
        BY <1>0, <3>7
      <4>2. pc' # [pc EXCEPT ![q] = "running"]
        BY <1>0, <4>1
      <4>3. child'[q] = [NewChild EXCEPT !.ends = "noexec", !.linked = opened]
        BY <3>1, <3>3, <4>2
      <4>. QED
        BY <3>2, <4>1, <4>3
    <3>. QED
      BY <3>3, <3>6, <3>7
  <2>5. CASE pc'[q] = "running"
    <3>1. child'[q].alone /\ child'[q].linked
      BY <2>4, <2>5 DEF NewChild, NoChild
    <3>. QED
      BY <2>5, <3>1 DEF Private
  <2>6. CASE pc'[q] = "collecting" /\ child'[q].ends = "noexec"
    BY <2>6 DEF Private
  <2>. QED
    BY <2>4, <2>5, <2>6
<1>8. CASE FinishChild(q) \/ KillChild(q)
  <2>1. PICK ends \in Endings \cup {"timeout"}, over \in BOOLEAN, out \in Content :
            /\ Ended(q, ends, over, out)
            /\ child[q].alone =>
                   \/ /\ ends = Run(q).ends /\ over = Run(q).over /\ out = OutputOf(q)
                      /\ Run(q).ends # "hangs"
                   \/ ends = "timeout" /\ Run(q).ends = "hangs"
    BY <1>0, <1>8, EndSplit
  <2>2. /\ pc[q] = "running" /\ pc'[q] = "collecting" /\ results' = results
        /\ child'[q] = [child[q] EXCEPT !.ends = ends, !.over = over]
    BY <1>0, <1>8, <2>1, EndSplit DEF Ended
  <2>3. child'[q].ends = ends /\ child'[q].over = over
    BY <2>2 DEF OtherTypes, Child
  <2>4. child[q].alone /\ (~child[q].linked => i \notin DOMAIN d.stdout)
    BY <2>2 DEF Private
  <2>5. i \in DOMAIN e.stdout => e.stdout[i] = out
    <3>1. CASE child[q].linked
      <4>1. dirs' = [dirs EXCEPT ![DirOf(q)].stdout = With(@, CaseDir(q), out)]
        BY <2>1, <3>1 DEF Ended
      <4>2. e.stdout = With(d.stdout, i, out)
        BY <1>0, <4>1 DEF TypesInv, Directory, DirOf, CaseDir
      <4>. QED
        BY <4>2 DEF With
    <3>2. CASE ~child[q].linked
      BY <2>1, <2>4, <3>2 DEF Ended
    <3>. QED
      BY <3>1, <3>2
  <2>. QED
    BY <1>2, <2>1, <2>2, <2>3, <2>4, <2>5 DEF Private, EndOf
<1>9. CASE \/ RemoveDirectory(q) \/ DownloadFails(q) \/ CreateDirectory(q) \/ WriteSource(q) \/ Compile(q)
           \/ Link(q) \/ AcceptBinary(q) \/ CheckCache(q) \/ Download(q) \/ Verify(q) \/ ReadFile(q)
           \/ Collect(q) \/ Summarize(q)
  <2>1. pc'[q] \notin OnCase
    BY <1>0, <1>9 DEF RemoveDirectory, DownloadFails, CreateDirectory, WriteSource, Compile, Link,
       AcceptBinary, CheckCache, Download, Verify, ReadFile, Collect, Summarize, OnCase
  <2>. QED
    BY <1>1, <2>1
<1>. QED
  BY <1>5, <1>6, <1>7, <1>8, <1>9 DEF Own, Work

LEMMA PrivateStep ==
    ASSUME IInv, TypesInv, OtherTypes, SharingInv, PrivateInv, [Next]_vars
    PROVE  PrivateInv'
<1> SUFFICES ASSUME NEW q \in Requests, q \notin shared', q \notin replaced' PROVE Private(q)'
  BY DEF PrivateInv
<1>0. q \notin shared /\ q \notin replaced /\ Private(q) /\ DataTypes /\ DataInv
  BY HistoryGrows DEF PrivateInv, IInv
<1>1. ASSUME pc'[q] \notin OnCase PROVE Private(q)'
  BY <1>1 DEF Private, OnCase
<1>2. ASSUME NEW r \in Requests, r # q, Own(r) PROVE Private(q)'
  <2>1. /\ pc'[q] = pc[q] /\ results'[q] = results[q]
        /\ child'[q].ends = child[q].ends /\ child'[q].over = child[q].over
    BY <1>0, <1>2, OthersKept, ChildStep
  <2>2. /\ Case(q)' = Case(q) /\ Test(q)' = Test(q) /\ Run(q)' = Run(q) /\ OutputOf(q)' = OutputOf(q)
    BY <2>1 DEF Case, Test, Run, OutputOf
  <2>3. CASE pc[q] \in OnCase
    <3>1. Removed(q) \/ LeftAlone(q)
      BY <1>0, <1>2, <2>3, OthersFiles
    <3>. QED
      BY <1>0, <2>1, <2>2, <3>1 DEF Private, Removed, LeftAlone, SameAt
  <2>. QED
    BY <1>1, <2>1, <2>3
<1>3. ASSUME UNCHANGED <<pc, dirs, child, results>> PROVE Private(q)'
  <2>1. Case(q)' = Case(q) /\ Test(q)' = Test(q) /\ Run(q)' = Run(q) /\ OutputOf(q)' = OutputOf(q)
    BY <1>3 DEF Case, Test, Run, OutputOf
  <2>. QED
    BY <1>0, <1>3, <2>1 DEF Private
<1>4. ASSUME (\E d \in Data : Overwrite(d)) \/ UNCHANGED vars PROVE UNCHANGED <<pc, dirs, child, results>>
  BY <1>4 DEF Overwrite, vars, requestVars
<1>5. ASSUME Crash PROVE pc'[q] \notin OnCase
  BY <1>0, <1>5 DEF Crash, InFlight, DataTypes, OnCase
<1>6. ASSUME Own(q) PROVE Private(q)'
  BY <1>0, <1>6, PrivateOwn
<1>. QED
  BY <1>1, <1>2, <1>3, <1>4, <1>5, <1>6, StepSplit

Runs == [ends : Endings, over : BOOLEAN, right : BOOLEAN]

\* What the status of a case says of the program.
LEMMA StatusOfRun ==
    ASSUME NEW r \in Requests, NEW text, Run(r) \in Runs, child[r].ends = EndOf(Run(r)),
           child[r].ends # "timeout" => child[r].over = Run(r).over,
           child[r].ends = "zero" => (text = got[r].out <=> Run(r).right)
    PROVE  CaseStatus(r, text) = DeservedCase(Run(r))
<1> DEFINE run == Run(r)
           ran == RunStatus(child[r].ends, child[r].over)
<1>0. run.ends \in Endings /\ run.over \in BOOLEAN /\ run.right \in BOOLEAN
  BY DEF Runs
<1>1. CASE run.ends \in {"hangs", "cpu"}
  <2>1. ran = "TIME_LIMIT_EXCEEDED"
    BY <1>1 DEF RunStatus, EndOf
  <2>. QED
    BY <1>1, <2>1 DEF CaseStatus, DeservedCase
<1>2. CASE run.ends = "filesize"
  <2>1. ran = "OUTPUT_LIMIT_EXCEEDED"
    BY <1>2 DEF RunStatus, EndOf
  <2>. QED
    BY <1>2, <2>1 DEF CaseStatus, DeservedCase
<1>3. CASE run.ends \in {"zero", "nonzero", "signal"} /\ run.over
  <2>1. ran = "MEMORY_LIMIT_EXCEEDED"
    BY <1>3 DEF RunStatus, EndOf
  <2>. QED
    BY <1>3, <2>1 DEF CaseStatus, DeservedCase
<1>4. CASE run.ends \in {"nonzero", "signal"} /\ ~run.over
  <2>1. ran = "RUNTIME_ERROR"
    BY <1>4 DEF RunStatus, EndOf
  <2>. QED
    BY <1>4, <2>1 DEF CaseStatus, DeservedCase
<1>5. CASE run.ends = "zero" /\ ~run.over
  <2>1. ran = "OK" /\ child[r].ends = "zero"
    BY <1>5 DEF RunStatus, EndOf
  <2>2. CASE run.right
    BY <1>5, <2>1, <2>2 DEF CaseStatus, DeservedCase
  <2>3. CASE ~run.right
    BY <1>5, <2>1, <2>3 DEF CaseStatus, DeservedCase
  <2>. QED
    BY <2>2, <2>3
<1>. QED
  BY <1>0, <1>1, <1>2, <1>3, <1>4, <1>5 DEF Endings

\* An accepted case ended well and printed what was expected.
LEMMA AcceptedCase ==
    ASSUME NEW r \in Requests, NEW text, Run(r) \in Runs, child[r].ends \in {"noexec", EndOf(Run(r))},
           child[r].over \in BOOLEAN,
           child[r].ends \notin {"noexec", "timeout"} => child[r].over = Run(r).over,
           CaseStatus(r, text) = "OK",
           child[r].ends = "zero" /\ text = got[r].out => Run(r).right
    PROVE  DeservedCase(Run(r)) = "OK"
<1> DEFINE run == Run(r)
           ran == RunStatus(child[r].ends, child[r].over)
<1>0. run.ends \in Endings /\ run.over \in BOOLEAN /\ run.right \in BOOLEAN
  BY DEF Runs
<1>1. ran = "OK" /\ text = got[r].out
  BY DEF CaseStatus
<1>2. child[r].ends # "noexec"
  <2> SUFFICES ASSUME child[r].ends = "noexec" PROVE FALSE
    OBVIOUS
  <2>1. ran \in {"RUNTIME_ERROR", "MEMORY_LIMIT_EXCEEDED"}
    BY DEF RunStatus
  <2>. QED
    BY <1>1, <2>1
<1>3. child[r].ends = EndOf(run) /\ (child[r].ends # "timeout" => child[r].over = run.over)
  BY <1>2
<1>4. CaseStatus(r, text) = DeservedCase(run)
  <2>1. CASE child[r].ends = "zero"
    BY <1>1, <1>3, <2>1, StatusOfRun
  <2>2. CASE child[r].ends # "zero"
    BY <1>3, <2>2, StatusOfRun
  <2>. QED
    BY <2>1, <2>2
<1>. QED
  BY <1>4

\* The status that the next case adds.
LEMMA OneMore ==
    ASSUME DataTypes, NEW q \in Requests, NEW text,
           results' = [results EXCEPT ![q] = Append(@, CaseStatus(q, text))]
    PROVE  /\ Len(results'[q]) = Case(q)
           /\ DOMAIN results'[q] = DOMAIN results[q] \cup {Case(q)}
           /\ results'[q][Case(q)] = CaseStatus(q, text)
           /\ \A i \in DOMAIN results[q] : results'[q][i] = results[q][i]
<1>1. results[q] \in Seq(Verdicts) /\ results'[q] = Append(results[q], CaseStatus(q, text))
  BY DEF DataTypes
<1> DEFINE t == results[q]
           c == CaseStatus(q, text)
<1>2. ASSUME NEW S, NEW u \in Seq(S), NEW x
      PROVE  /\ Len(Append(u, x)) = Len(u) + 1
             /\ DOMAIN Append(u, x) = DOMAIN u \cup {Len(u) + 1}
             /\ Append(u, x)[Len(u) + 1] = x
             /\ \A i \in DOMAIN u : Append(u, x)[i] = u[i]
  OBVIOUS
<1>. QED
  BY <1>1, <1>2 DEF Case

\* What a request reads of a case that is not shared.
LEMMA ReadsItsOutput ==
    ASSUME SharingInv, NEW q \in Requests, q \notin shared, pc[q] = "collecting"
    PROVE  Readable(q) = {Output(q)}
<1> SUFFICES ASSUME NEW r \in Requests, SameFiles(r, q), pc[r] = "running" PROVE FALSE
  BY DEF Readable, Written
<1>1. SubOf[r] = SubOf[q] /\ Case(r) = Case(q) /\ r # q
  BY DEF SameFiles, DirOf, CaseDir
<1>. QED
  BY <1>1 DEF SharingInv, OnCase

\* When all cases have been judged there is a status for each.
LEMMA AllJudged ==
    ASSUME DataTypes, NEW q \in Requests, Len(results[q]) <= Len(Tests[SubOf[q]]),
           Case(q) > Len(Tests[SubOf[q]])
    PROVE  /\ DOMAIN results[q] = DOMAIN Program[SubOf[q]].runs
           /\ results[q] = <<>> <=> Program[SubOf[q]].runs = <<>>
           /\ DOMAIN results[q] \subseteq Nat
<1>1. SubOf[q] \in Subs /\ results[q] \in Seq(Verdicts)
  BY JudgeWorkerAssumption DEF DataTypes
<1>2. /\ Tests[SubOf[q]] \in Seq([in : Data, out : Data])
      /\ Program[SubOf[q]].runs \in Seq(Runs)
      /\ Len(Program[SubOf[q]].runs) = Len(Tests[SubOf[q]])
  BY <1>1, JudgeWorkerAssumption DEF Runs
<1>3. Len(results[q]) = Len(Program[SubOf[q]].runs)
  BY <1>1, <1>2 DEF Case
<1>4. ASSUME NEW S, NEW T, NEW t \in Seq(S), NEW u \in Seq(T), Len(t) = Len(u)
      PROVE  DOMAIN t = DOMAIN u /\ (t = <<>> <=> u = <<>>) /\ DOMAIN t \subseteq Nat
  BY <1>4
<1>. QED
  BY <1>1, <1>2, <1>3, <1>4

LEMMA EarnedStep ==
    ASSUME IInv, TypesInv, OtherTypes, CompiledInv, SharingInv, PrivateInv, EarnedInv, [Next]_vars
    PROVE  EarnedInv'
<1> SUFFICES ASSUME NEW q \in Requests, q \notin shared', q \notin replaced' PROVE Earned(q)'
  BY DEF EarnedInv
<1>0. /\ q \notin shared /\ q \notin replaced /\ Earned(q) /\ Private(q)
      /\ DataTypes /\ DataInv
  BY HistoryGrows DEF EarnedInv, PrivateInv, IInv
<1>1. ASSUME results'[q] = results[q], verdict'[q] # "OK" \/ verdict'[q] = verdict[q] PROVE Earned(q)'
  BY <1>0, <1>1 DEF Earned
<1> USE DEF requestVars, histVars, Goto, Answer, Throw, Spend
<1>2. ASSUME NEW r \in Requests, r # q, Own(r) PROVE Earned(q)'
  BY <1>0, <1>1, <1>2, OthersKept, OthersWait
<1>3. CASE \/ RemoveDirectory(q) \/ CreateDirectory(q) \/ Link(q) \/ CheckCache(q) \/ Download(q)
           \/ OpenInput(q) \/ WriteInput(q) \/ StartChild(q) \/ FinishChild(q) \/ KillChild(q)
  <2>1. UNCHANGED <<results, verdict>>
    BY <1>3 DEF RemoveDirectory, CreateDirectory, Link, CheckCache, Download, OpenInput, WriteInput,
       StartChild,
       FinishChild, KillChild, Ended
  <2>. QED
    BY <1>1, <2>1
<1>4. CASE WriteSource(q) \/ Compile(q) \/ AcceptBinary(q) \/ Verify(q) \/ ReadFile(q) \/ DownloadFails(q)
  <2>1. /\ results' = results
        /\ \/ verdict' = verdict
           \/ verdict' = [verdict EXCEPT ![q] = "SYSTEM_ERROR"]
           \/ verdict' = [verdict EXCEPT ![q] = "COMPILE_ERROR"]
    BY <1>4 DEF WriteSource, Compile, AcceptBinary, Verify, ReadFile, DownloadFails
  <2>. QED
    BY <1>1, <2>1 DEF OtherTypes
<1>5. CASE Collect(q)
  <2>1. /\ pc[q] = "collecting" /\ verdict' = verdict
        /\ Case(q) <= Len(Tests[SubOf[q]]) /\ got[q] = Test(q)
    BY <1>0, <1>5 DEF Collect, DataInv, Running
  <2>2. Run(q) \in Runs /\ Test(q).out \in Data /\ SubOf[q] \in Subs
    BY <1>0, <2>1, RunTyped, FileIsData, JudgeWorkerAssumption DEF Runs
  <2>3. child[q].ends = "zero" /\ Output(q) = got[q].out => Run(q).right
    <3> SUFFICES ASSUME child[q].ends = "zero", Output(q) = got[q].out PROVE Run(q).right
      OBVIOUS
    <3>1. Output(q) \in Data /\ Nothing \notin Data /\ Garbage \notin Data
      BY <2>1, <2>2, JudgeWorkerAssumption
    <3>2. Case(q) \in DOMAIN dirs[SubOf[q]].stdout /\ dirs[SubOf[q]].stdout[Case(q)] = Output(q)
      BY <3>1 DEF Output, DirOf, CaseDir
    <3>3. Output(q) = OutputOf(q)
      BY <1>0, <2>1, <3>2 DEF Private
    <3>. QED
      BY <3>1, <3>3 DEF OutputOf
  <2>4. CaseStatus(q, Output(q)) = "OK" => DeservedCase(Run(q)) = "OK"
    <3>1. /\ child[q].ends \in {"noexec", EndOf(Run(q))} /\ child[q].over \in BOOLEAN
          /\ child[q].ends \notin {"noexec", "timeout"} => child[q].over = Run(q).over
      BY <1>0, <2>1 DEF Private, OtherTypes, Child
    <3>. QED
      BY <2>2, <2>3, <3>1, AcceptedCase
  <2>5. results' = [results EXCEPT ![q] = Append(@, CaseStatus(q, Output(q)))]
    BY <1>0, <1>5, <2>1, ReadsItsOutput DEF Collect
  <2>. QED
    BY <1>0, <2>1, <2>4, <2>5, OneMore DEF Earned, Run
<1>6. CASE Summarize(q)
  <2>1. /\ pc[q] = "cases" /\ Case(q) > Len(Tests[SubOf[q]]) /\ results' = results
        /\ verdict'[q] = Summary(results[q])
    BY <1>6 DEF Summarize, OtherTypes
  <2> SUFFICES ASSUME Summary(results[q]) = "OK" PROVE Deserved(SubOf[q]) = "OK"
    BY <1>0, <2>1 DEF Earned
  <2> DEFINE t == results[q]
             runs == Program[SubOf[q]].runs
  <2>2. t \in Seq(Verdicts) /\ Len(t) <= Len(Tests[SubOf[q]])
    BY <1>0 DEF DataTypes, Earned
  <2>3. t # <<>>
    BY DEF Summary
  <2>4. DOMAIN t = DOMAIN runs /\ runs # <<>> /\ DOMAIN t \subseteq Nat
    BY <1>0, <2>1, <2>2, <2>3, AllJudged
  <2>5. FirstFailure(t, DOMAIN t) = "OK"
    BY <2>2, <2>3, SummaryIsFirstFailure
  <2>6. DOMAIN t \cap Failed(t) = {}
    <3> SUFFICES ASSUME DOMAIN t \cap Failed(t) # {} PROVE FALSE
      OBVIOUS
    <3>1. First(DOMAIN t \cap Failed(t)) \in Failed(t)
      BY <2>4, FirstIsLeast
    <3>2. t[First(DOMAIN t \cap Failed(t))] = "OK"
      BY <2>5 DEF FirstFailure
    <3>. QED
      BY <3>1, <3>2 DEF Failed
  <2>7. \A i \in DOMAIN runs : DeservedCase(runs[i]) = "OK"
    BY <1>0, <2>4, <2>6 DEF Failed, Earned
  <2>8. Program[SubOf[q]].compiles
    BY <2>1 DEF CompiledInv, Judging
  <2>. QED
    BY <2>4, <2>7, <2>8 DEF Deserved
<1>7. ASSUME (\E d \in Data : Overwrite(d)) \/ Crash \/ UNCHANGED vars PROVE Earned(q)'
  <2>1. UNCHANGED <<results, verdict>>
    BY <1>7 DEF Overwrite, Crash, vars
  <2>. QED
    BY <1>1, <2>1
<1>8. ASSUME Own(q) PROVE Earned(q)'
  BY <1>8, <1>3, <1>4, <1>5, <1>6 DEF Own, Work
<1>. QED
  BY <1>2, <1>7, <1>8, StepSplit

-----------------------------------------------------------------------------
(* Verdicts are deserved.                                                  *)

\* Until something goes wrong MinIO has what the tasks name, and the cache has
\* it or nothing.
FaultlessInv ==
    faults = 0 =>
        /\ \A d \in Data : objects[d] = d /\ cache[d] \in {d, Nothing}
        /\ \A r \in Requests : pc[r] = "verifying" => Verified(File(r))

\* A request that is alone finds its directory as it left it.
WholeDirectory(r) ==
    LET d == dirs[SubOf[r]]
    IN  /\ pc[r] \in {"writing", "compiling", "linking", "compiled"} \cup Judging => d.there
        /\ pc[r] \in {"compiling", "linking", "compiled"} \cup Judging => d.source
        /\ pc[r] \in {"compiled"} \cup Judging => d.binary
        /\ pc[r] = "filling" => child[r].linked
        /\ pc[r] \in {"filling", "starting"} => Case(r) \in DOMAIN d.stdin
        /\ pc[r] = "running" => child[r].linked /\ Case(r) \in DOMAIN d.stdout
        /\ pc[r] = "collecting" => child[r].ends # "noexec" /\ Case(r) \in DOMAIN d.stdout

RightSoFar(r) ==
    /\ \A i \in DOMAIN results[r] :
           results[r][i] = DeservedCase(Program[SubOf[r]].runs[i])
    /\ pc[r] = "answered" =>
           \/ verdict[r] = Deserved(SubOf[r])
           \/ faults > 0 /\ verdict[r] = "SYSTEM_ERROR"

WholeInv == \A r \in Requests \ (met \cup replaced) : WholeDirectory(r) /\ RightSoFar(r)

LEMMA FaultlessStep ==
    ASSUME IInv, OtherTypes, FaultlessInv, [Next]_vars
    PROVE  FaultlessInv'
<1> SUFFICES ASSUME faults' = 0
             PROVE  /\ \A d \in Data : objects'[d] = d /\ cache'[d] \in {d, Nothing}
                    /\ \A q \in Requests : pc'[q] = "verifying" => Verified(File(q))'
  BY DEF FaultlessInv
<1> DEFINE Goal == /\ \A d \in Data : objects'[d] = d /\ cache'[d] \in {d, Nothing}
                   /\ \A q \in Requests : pc'[q] = "verifying" => Verified(File(q))'
<1> SUFFICES Goal
  OBVIOUS
<1>0. /\ DataTypes /\ DataInv /\ faults = 0 /\ faults \in Nat
      /\ \A d \in Data : objects[d] = d /\ cache[d] \in {d, Nothing}
      /\ \A q \in Requests : pc[q] = "verifying" => Verified(File(q))
  BY JudgeWorkerAssumption, HistoryGrows DEF FaultlessInv, IInv, OtherTypes
<1> USE DEF requestVars, histVars, Goto, Answer, Throw, Spend, Verified
<1>1. ASSUME NEW q \in Requests, results'[q] = results[q], side'[q] = side[q] PROVE File(q)' = File(q)
  BY <1>1 DEF File, Test, Case
<1>2. ASSUME UNCHANGED <<objects, cache>>,
             \A q \in Requests : pc'[q] = "verifying" => pc[q] = "verifying" /\ File(q)' = File(q)
      PROVE  Goal
  BY <1>0, <1>2
<1>3. ASSUME NEW r \in Requests, CheckCache(r) PROVE Goal
  <2>1. File(r) \in Data /\ UNCHANGED <<results, side, objects>>
    BY <1>0, <1>3, FileIsData DEF CheckCache
  <2>2. \A q \in Requests : File(q)' = File(q)
    BY <1>1, <2>1
  <2>3. /\ cache' = cache \/ (cache[File(r)] # File(r) /\ cache' = [cache EXCEPT ![File(r)] = Nothing])
        /\ \A q \in Requests : pc'[q] = "verifying" => pc[q] = "verifying"
    BY <1>0, <1>3 DEF CheckCache, DataTypes
  <2>. QED
    BY <1>0, <2>1, <2>2, <2>3 DEF DataTypes
<1>4. ASSUME NEW r \in Requests, Download(r) PROVE Goal
  <2>1. File(r) \in Data /\ UNCHANGED <<results, side, objects>>
    BY <1>0, <1>4, FileIsData DEF Download, DataInv, Fetching
  <2>2. \A q \in Requests : File(q)' = File(q)
    BY <1>1, <2>1
  <2>3. /\ cache' = [cache EXCEPT ![File(r)] = File(r)]
        /\ \A q \in Requests : pc'[q] = "verifying" => pc[q] = "verifying" \/ q = r
    BY <1>0, <1>4, <2>1 DEF Download, DataTypes
  <2>. QED
    BY <1>0, <2>1, <2>2, <2>3 DEF DataTypes
<1>5. ASSUME NEW r \in Requests, Own(r), ~CheckCache(r), ~Download(r) PROVE Goal
  <2>1. UNCHANGED <<objects, cache>> /\ pc'[r] # "verifying"
    BY <1>0, <1>5 DEF Own, RemoveDirectory, DownloadFails, Work, CreateDirectory, WriteSource, Compile,
       Link, AcceptBinary, Verify, ReadFile, OpenInput, WriteInput, StartChild, FinishChild, KillChild,
       Ended, Collect,
       Summarize, DataTypes
  <2>2. \A q \in Requests : q # r => pc'[q] = pc[q] /\ File(q)' = File(q)
    BY <1>0, <1>1, <1>5, OthersKept
  <2>. QED
    BY <1>2, <2>1, <2>2
<1>6. ASSUME NEW d \in Data, Overwrite(d) PROVE Goal
  BY <1>0, <1>6 DEF Overwrite
<1>7. CASE Crash
  BY <1>0, <1>7 DEF Crash
<1>8. CASE UNCHANGED vars
  BY <1>1, <1>2, <1>8 DEF vars
<1>. QED
  <2> HIDE DEF Goal
  <2>. QED
    BY <1>3, <1>4, <1>5, <1>6, <1>7, <1>8, StepSplit

\* The steps before the test cases leave a whole directory.
LEMMA PreparingWhole ==
    ASSUME IInv, TypesInv, NEW r \in Requests, WholeDirectory(r),
           \/ RemoveDirectory(r) \/ CreateDirectory(r) \/ WriteSource(r) \/ Compile(r) \/ Link(r)
           \/ AcceptBinary(r) \/ DownloadFails(r)
    PROVE  WholeDirectory(r)'
<1> DEFINE d == dirs[SubOf[r]]
<1>0. DataTypes /\ SubOf[r] \in Subs /\ d \in Directory
  BY DirectoryWritten, JudgeWorkerAssumption DEF IInv
<1> USE DEF Judging, Fetching, Running, Goto, Answer, Throw, requestVars, histVars
<1>1. ASSUME NEW e, Put(r, e) PROVE dirs'[SubOf[r]] = e
  BY <1>0, <1>1 DEF TypesInv, Put
<1>2. CASE RemoveDirectory(r) \/ DownloadFails(r)
  <2>1. pc'[r] \in {"removed", "answered"}
    BY <1>0, <1>2 DEF RemoveDirectory, DownloadFails, DataTypes
  <2>. QED
    BY <2>1 DEF WholeDirectory
<1>3. CASE CreateDirectory(r)
  <2>1. pc'[r] = "writing" /\ dirs'[SubOf[r]] = [d EXCEPT !.there = TRUE]
    BY <1>0, <1>1, <1>3, DirectoryWritten DEF CreateDirectory, DataTypes
  <2>. QED
    BY <1>0, <2>1 DEF WholeDirectory, Directory
<1>4. CASE WriteSource(r)
  <2>1. d.there
    BY <1>4 DEF WriteSource, WholeDirectory
  <2>2. pc'[r] = "compiling" /\ dirs'[SubOf[r]] = [d EXCEPT !.source = TRUE]
    BY <1>0, <1>1, <1>4, <2>1, DirectoryWritten DEF WriteSource, DataTypes, DirOf
  <2>. QED
    BY <1>0, <2>1, <2>2 DEF WholeDirectory, Directory
<1>5. CASE Compile(r)
  <2>1. pc[r] = "compiling" /\ pc'[r] \in {"linking", "answered"} /\ dirs' = dirs
    BY <1>0, <1>5 DEF Compile, DataTypes
  <2>. QED
    BY <2>1 DEF WholeDirectory
<1>6. CASE Link(r)
  <2>1. /\ pc[r] = "linking" /\ pc'[r] = "compiled"
        /\ dirs'[SubOf[r]] = [d EXCEPT !.binary = d.there]
    <3>1. Put(r, [d EXCEPT !.binary = d.there])
      BY <1>0, <1>6, DirectoryWritten
    <3>. QED
      BY <1>0, <1>1, <1>6, <3>1 DEF Link, DataTypes
  <2>2. d.there /\ d.source
    BY <2>1 DEF WholeDirectory
  <2>. QED
    BY <1>0, <2>1, <2>2 DEF WholeDirectory, Directory
<1>7. CASE AcceptBinary(r)
  <2>1. pc[r] = "compiled" /\ pc'[r] \in {"cases", "answered"} /\ dirs' = dirs
    BY <1>0, <1>7 DEF AcceptBinary, DataTypes
  <2>. QED
    BY <2>1 DEF WholeDirectory
<1>. QED
  BY <1>2, <1>3, <1>4, <1>5, <1>6, <1>7

\* So do the steps of a test case.
LEMMA JudgingWhole ==
    ASSUME IInv, TypesInv, OtherTypes, NEW r \in Requests, WholeDirectory(r),
           \/ CheckCache(r) \/ Download(r) \/ Verify(r) \/ ReadFile(r) \/ OpenInput(r) \/ WriteInput(r)
           \/ StartChild(r) \/ FinishChild(r) \/ KillChild(r) \/ Collect(r) \/ Summarize(r)
    PROVE  WholeDirectory(r)'
<1> DEFINE d == dirs[SubOf[r]]
           e == dirs'[SubOf[r]]
<1>0. /\ DataTypes /\ DataInv /\ SubOf[r] \in Subs /\ d \in Directory /\ Case(r) \in Nat
      /\ pc = [q \in Requests |-> pc[q]]
  BY DirectoryWritten, CaseIsNumber, JudgeWorkerAssumption DEF IInv, DataTypes
<1>1. pc[r] \in Judging /\ d.there /\ d.source /\ d.binary
  BY DEF CheckCache, Download, Verify, ReadFile, OpenInput, WriteInput, StartChild, FinishChild,
     KillChild,
     Collect, Summarize, WholeDirectory, Judging, Fetching, Running
<1> USE DEF Judging, Fetching, Running, Goto, Answer, Throw, requestVars, histVars
<1>2. ASSUME NEW f, Put(r, f) PROVE e = f
  BY <1>0, <1>2 DEF TypesInv, Put
<1>3. CASE CheckCache(r) \/ Download(r) \/ Verify(r) \/ ReadFile(r) \/ Collect(r) \/ Summarize(r)
  <2>1. dirs' = dirs /\ pc'[r] \in {"cases", "staging", "answered"} \cup Fetching
    BY <1>0, <1>3 DEF CheckCache, Download, Verify, ReadFile, Collect, Summarize
  <2>. QED
    BY <1>1, <2>1 DEF WholeDirectory
<1>4. ASSUME results' = results PROVE Case(r)' = Case(r)
  BY <1>4 DEF Case
<1>5. ASSUME NEW files, Case(r) \in DOMAIN files, NEW b \in {TRUE, d.there}
      PROVE  /\ LET f == [d EXCEPT !.there = b, !.stdin = files]
                IN  f.there /\ f.source /\ f.binary /\ Case(r) \in DOMAIN f.stdin
             /\ LET f == [d EXCEPT !.stdin = files]
                IN  f.there /\ f.source /\ f.binary /\ Case(r) \in DOMAIN f.stdin
             /\ LET f == [d EXCEPT !.stdout = files]
                IN  f.there /\ f.source /\ f.binary /\ Case(r) \in DOMAIN f.stdout
  BY <1>0, <1>1, <1>5 DEF Directory
<1>6. \A files, c : Case(r) \in DOMAIN With(files, Case(r), c)
  BY DEF With
<1>7. CASE OpenInput(r)
  <2>1. pc'[r] = "filling" /\ results' = results
    BY <1>0, <1>7 DEF OpenInput
  <2>2. child'[r].linked
    BY <1>7, DisturbedTyped DEF OpenInput, NewChild, NoChild
  <2>3. e = [d EXCEPT !.there = TRUE, !.stdin = With(d.stdin, Case(r), Nothing)]
    BY <1>0, <1>2, <1>7, DirectoryWritten
  <2>4. e.there /\ e.source /\ e.binary /\ Case(r) \in DOMAIN e.stdin
    BY <1>5, <1>6, <2>3
  <2>. QED
    BY <1>4, <2>1, <2>2, <2>4 DEF WholeDirectory
<1>8. CASE WriteInput(r)
  <2>1. pc[r] = "filling" /\ pc'[r] = "starting" /\ results' = results
    BY <1>0, <1>8 DEF WriteInput
  <2>2. UNCHANGED dirs \/ e = [d EXCEPT !.stdin = With(d.stdin, Case(r), got[r].in)]
    BY <1>0, <1>2, <1>8, DirectoryWritten DEF Fed
  <2>3. e.there /\ e.source /\ e.binary /\ Case(r) \in DOMAIN e.stdin
    BY <1>1, <1>5, <1>6, <2>1, <2>2 DEF WholeDirectory
  <2>. QED
    BY <1>4, <2>1, <2>3 DEF WholeDirectory
<1>9. CASE StartChild(r)
  <2>1. Case(r) \in DOMAIN d.stdin /\ results' = results
    BY <1>9 DEF StartChild, WholeDirectory
  <2>2. pc'[r] = "running" /\ child'[r].linked
    <3> DEFINE whole == Case(r) \in DOMAIN d.stdin /\ d.stdin[Case(r)] = Test(r).in /\ ~Written(r)
    <3>1. /\ pc' = [pc EXCEPT ![r] = "running"]
          /\ child' = [Disturbed(r) EXCEPT ![r] = [NewChild EXCEPT !.ends = "running", !.alone = whole]]
      BY <1>1, <1>9, <2>1 DEF StartChild, DirOf, CaseDir
    <3> HIDE DEF whole
    <3>2. [NewChild EXCEPT !.ends = "running", !.alone = whole].linked
      BY DEF NewChild, NoChild
    <3>. QED
      BY <1>0, <3>1, <3>2, DisturbedTyped
  <2>3. e = [d EXCEPT !.stdout = With(d.stdout, Case(r), Nothing)]
    BY <1>0, <1>2, <1>9, <2>1, DirectoryWritten DEF Printed
  <2>4. e.there /\ e.source /\ e.binary /\ Case(r) \in DOMAIN e.stdout
    BY <1>5, <1>6, <2>3
  <2>. QED
    BY <1>4, <2>1, <2>2, <2>4 DEF WholeDirectory
<1>10. CASE FinishChild(r) \/ KillChild(r)
  <2>1. PICK ends \in Endings \cup {"timeout"}, over \in BOOLEAN, out \in Content :
            Ended(r, ends, over, out)
    BY <1>0, <1>10, EndSplit
  <2>2. /\ pc[r] = "running" /\ pc'[r] = "collecting" /\ results' = results
        /\ child'[r].ends = ends
    <3>1. child' = [child EXCEPT ![r] = [child[r] EXCEPT !.ends = ends, !.over = over]]
      BY <2>1 DEF Ended
    <3>2. child'[r] = [child[r] EXCEPT !.ends = ends, !.over = over] /\ child[r] \in Child
      BY <3>1 DEF OtherTypes
    <3>3. child'[r].ends = ends
      BY <3>2 DEF Child
    <3>. QED
      BY <1>0, <1>10, <2>1, <3>3, EndSplit DEF Ended
  <2>3. e = [d EXCEPT !.stdout = With(d.stdout, Case(r), out)]
    BY <1>0, <1>2, <2>1, <2>2, DirectoryWritten DEF Printed, WholeDirectory
  <2>4. e.there /\ e.source /\ e.binary /\ Case(r) \in DOMAIN e.stdout
    BY <1>5, <1>6, <2>3
  <2>5. ends # "noexec"
    BY <2>1 DEF Endings
  <2>. QED
    BY <1>4, <2>2, <2>4, <2>5 DEF WholeDirectory
<1>. QED
  BY <1>3, <1>7, <1>8, <1>9, <1>10

\* What a request has found out so far stays right.
LEMMA RightStep ==
    ASSUME IInv, TypesInv, OtherTypes, CompiledInv, SharingInv, PrivateInv, EarnedInv, FaultlessInv,
           NEW q \in Requests, q \notin shared, q \notin replaced, WholeDirectory(q), RightSoFar(q), Own(q)
    PROVE  RightSoFar(q)'
<1>0. DataTypes /\ DataInv /\ faults \in Nat /\ (faults > 0 => faults' > 0) /\ SubOf[q] \in Subs
  <2>1. [Next]_vars
    BY DEF Next, Own
  <2>. QED
    BY <2>1, HistoryGrows, JudgeWorkerAssumption DEF IInv, OtherTypes
<1> USE DEF requestVars, histVars, Goto, Answer, Throw, Spend
<1>1. ASSUME results' = results, pc'[q] # "answered" PROVE RightSoFar(q)'
  BY <1>1 DEF RightSoFar
<1>2. ASSUME results' = results, verdict'[q] = Deserved(SubOf[q]) PROVE RightSoFar(q)'
  BY <1>2 DEF RightSoFar
<1>3. ASSUME results' = results, verdict'[q] = "SYSTEM_ERROR", faults' > 0 PROVE RightSoFar(q)'
  BY <1>3 DEF RightSoFar
<1>4. CASE \/ RemoveDirectory(q) \/ CreateDirectory(q) \/ Link(q) \/ CheckCache(q) \/ Download(q)
           \/ OpenInput(q) \/ WriteInput(q) \/ StartChild(q) \/ FinishChild(q) \/ KillChild(q)
  <2>1. results' = results /\ pc'[q] # "answered"
    BY <1>0, <1>4 DEF RemoveDirectory, CreateDirectory, Link, CheckCache, Download, OpenInput,
       WriteInput, StartChild,
       FinishChild, KillChild, Ended, DataTypes
  <2>. QED
    BY <1>1, <2>1
<1>5. CASE WriteSource(q)
  <2>1. dirs[SubOf[q]].there
    BY <1>5 DEF WriteSource, WholeDirectory
  <2>. QED
    BY <1>0, <1>1, <1>5, <2>1 DEF WriteSource, DirOf, DataTypes
<1>6. CASE Compile(q)
  <2>1. dirs[SubOf[q]].there /\ dirs[SubOf[q]].source
    BY <1>6 DEF Compile, WholeDirectory
  <2>2. CASE Program[SubOf[q]].compiles
    BY <1>0, <1>1, <1>6, <2>1, <2>2 DEF Compile, DirOf, DataTypes
  <2>3. CASE ~Program[SubOf[q]].compiles
    <3>1. Deserved(SubOf[q]) = "COMPILE_ERROR"
      BY <2>3 DEF Deserved
    <3>. QED
      BY <1>2, <1>6, <2>3, <3>1 DEF Compile, OtherTypes
  <2>. QED
    BY <2>2, <2>3
<1>7. CASE AcceptBinary(q)
  <2>1. dirs[SubOf[q]].binary
    BY <1>7 DEF AcceptBinary, WholeDirectory
  <2>. QED
    BY <1>0, <1>1, <1>7, <2>1 DEF AcceptBinary, DirOf, DataTypes
<1>8. CASE DownloadFails(q)
  <2>1. results' = results /\ verdict'[q] = "SYSTEM_ERROR" /\ faults' > 0
    BY <1>0, <1>8 DEF DownloadFails, OtherTypes
  <2>. QED
    BY <1>3, <2>1
<1>9. CASE Verify(q)
  <2>1. CASE Verified(File(q))
    BY <1>0, <1>1, <1>9, <2>1 DEF Verify, DataTypes
  <2>2. CASE ~Verified(File(q))
    <3>1. faults # 0
      BY <1>9, <2>2 DEF Verify, FaultlessInv
    <3>2. results' = results /\ verdict'[q] = "SYSTEM_ERROR" /\ faults' = faults
      BY <1>9, <2>2 DEF Verify, OtherTypes
    <3>. QED
      BY <1>0, <1>3, <3>1, <3>2
  <2>. QED
    BY <2>1, <2>2
<1>10. CASE ReadFile(q)
  <2>1. cache[File(q)] # Nothing
    <3>1. cache[File(q)] = File(q) /\ File(q) \in Data
      BY <1>0, <1>10, FileIsData DEF ReadFile, DataInv, Verified, Fetching
    <3>. QED
      BY <3>1, JudgeWorkerAssumption
  <2>. QED
    BY <1>0, <1>1, <1>10, <2>1 DEF ReadFile, DataTypes
<1>11. CASE Collect(q)
  <2>1. /\ pc[q] = "collecting" /\ pc'[q] = "cases"
        /\ Case(q) <= Len(Tests[SubOf[q]]) /\ got[q] = Test(q)
    BY <1>0, <1>11 DEF Collect, DataInv, Running, DataTypes
  <2>2. Run(q) \in Runs /\ Test(q).out \in Data
    BY <1>0, <2>1, RunTyped, FileIsData DEF Runs
  <2>3. /\ child[q].ends = EndOf(Run(q))
        /\ child[q].ends # "timeout" => child[q].over = Run(q).over
        /\ child[q].ends = "zero" => Output(q) = OutputOf(q)
    <3>1. Private(q) /\ child[q].ends # "noexec" /\ Case(q) \in DOMAIN dirs[SubOf[q]].stdout
      BY <2>1 DEF PrivateInv, WholeDirectory
    <3>. QED
      BY <2>1, <3>1 DEF Private, Output, DirOf, CaseDir
  <2>4. child[q].ends = "zero" => (Output(q) = got[q].out <=> Run(q).right)
    <3>1. Run(q).right \in BOOLEAN /\ Garbage # Test(q).out
      BY <2>2, JudgeWorkerAssumption DEF Runs
    <3>. QED
      BY <2>1, <2>3, <3>1 DEF OutputOf
  <2>5. CaseStatus(q, Output(q)) = DeservedCase(Run(q))
    BY <2>2, <2>3, <2>4, StatusOfRun
  <2>6. results' = [results EXCEPT ![q] = Append(@, CaseStatus(q, Output(q)))]
    BY <1>11, <2>1, ReadsItsOutput DEF Collect
  <2>. QED
    BY <1>0, <1>11, <2>1, <2>5, <2>6, OneMore DEF RightSoFar, Run
<1>12. CASE Summarize(q)
  <2>1. /\ pc[q] = "cases" /\ Case(q) > Len(Tests[SubOf[q]]) /\ results' = results
        /\ verdict'[q] = Summary(results[q])
    BY <1>12 DEF Summarize, OtherTypes
  <2> DEFINE t == results[q]
             runs == Program[SubOf[q]].runs
             failed == {i \in DOMAIN runs : DeservedCase(runs[i]) # "OK"}
  <2>2. t \in Seq(Verdicts) /\ Len(t) <= Len(Tests[SubOf[q]])
    BY <1>0 DEF DataTypes, EarnedInv, Earned
  <2>3. DOMAIN t = DOMAIN runs /\ (t = <<>> <=> runs = <<>>) /\ DOMAIN t \subseteq Nat
    BY <1>0, <2>1, <2>2, AllJudged
  <2>4. Program[SubOf[q]].compiles
    BY <2>1 DEF CompiledInv, Judging
  <2>5. Summary(t) = Deserved(SubOf[q])
    <3>1. CASE t = <<>>
      BY <2>3, <2>4, <3>1 DEF Summary, Deserved
    <3>2. CASE t # <<>>
      <4>1. Summary(t) = FirstFailure(t, DOMAIN t)
        BY <2>2, <3>2, SummaryIsFirstFailure
      <4>2. \A i \in DOMAIN runs : t[i] = DeservedCase(runs[i])
        BY <2>3 DEF RightSoFar
      <4>3. DOMAIN t \cap Failed(t) = failed
        BY <2>3, <4>2 DEF Failed
      <4>4. CASE failed = {}
        BY <2>3, <2>4, <3>2, <4>1, <4>3, <4>4 DEF FirstFailure, Deserved
      <4>5. CASE failed # {}
        <5>1. Summary(t) = t[First(failed)] /\ First(failed) \in failed
          BY <2>3, <4>1, <4>3, <4>5, FirstIsLeast DEF FirstFailure
        <5>2. Deserved(SubOf[q]) = DeservedCase(runs[First(failed)])
          BY <2>3, <2>4, <3>2, <4>5 DEF Deserved, First
        <5>. QED
          BY <4>2, <5>1, <5>2
      <4>. QED
        BY <4>4, <4>5
    <3>. QED
      BY <3>1, <3>2
  <2>. QED
    BY <1>2, <2>1, <2>5
<1>. QED
  BY <1>4, <1>5, <1>6, <1>7, <1>8, <1>9, <1>10, <1>11, <1>12 DEF Own, Work

\* Requests of other submissions change nothing for a request.
LEMMA Undisturbed ==
    ASSUME IInv, TypesInv, OtherTypes, AloneInv, NEW r \in Requests, NEW q \in Requests, r # q, Own(r),
           q \notin met', WholeDirectory(q), RightSoFar(q)
    PROVE  WholeDirectory(q)' /\ RightSoFar(q)'
<1>0. /\ DataTypes /\ DataInv /\ SubOf[q] \in Subs /\ [Next]_vars
      /\ q \notin met /\ faults \in Nat /\ (faults > 0 => faults' > 0)
  <2>1. [Next]_vars
    BY DEF Next, Own
  <2>. QED
    BY <2>1, HistoryGrows, JudgeWorkerAssumption DEF IInv, OtherTypes
<1>1. /\ pc'[q] = pc[q] /\ got'[q] = got[q] /\ results'[q] = results[q]
      /\ verdict'[q] = verdict[q]
  BY <1>0, OthersKept, OthersWait
<1>2. RightSoFar(q)'
  BY <1>0, <1>1 DEF RightSoFar
<1>3. CASE ~InFlight(q)
  <2>1. pc'[q] \in {"new", "answered", "lost"}
    BY <1>1, <1>3 DEF InFlight
  <2>2. WholeDirectory(q)'
    BY <2>1 DEF WholeDirectory, Judging, Fetching, Running
  <2>. QED
    BY <1>2, <2>2
<1>4. CASE InFlight(q)
  <2>1. SubOf[r] # SubOf[q]
    <3> SUFFICES ASSUME SubOf[r] = SubOf[q] PROVE FALSE
      OBVIOUS
    <3>1. CASE RemoveDirectory(r)
      BY <1>4, <3>1 DEF RemoveDirectory
    <3>2. CASE DownloadFails(r) \/ Work(r)
      <4>1. InFlight(r)
        BY <3>2 DEF InFlight, DownloadFails, Work, CreateDirectory, WriteSource, Compile, Link,
           AcceptBinary,
           CheckCache, Download, Verify, ReadFile, OpenInput, WriteInput, StartChild, FinishChild,
           KillChild, Ended, Collect,
           Summarize
      <4>. QED
        BY <1>0, <1>4, <4>1 DEF AloneInv
    <3>. QED
      BY <3>1, <3>2 DEF Own
  <2>2. dirs'[SubOf[q]] = dirs[SubOf[q]] /\ child'[q] = child[q]
    BY <1>0, <2>1, OtherDirectories, OthersWait
  <2>3. Case(q)' = Case(q)
    BY <1>1 DEF Case
  <2>4. WholeDirectory(q)'
    BY <1>1, <2>2, <2>3 DEF WholeDirectory
  <2>. QED
    BY <1>2, <2>4
<1>. QED
  BY <1>3, <1>4

LEMMA WholeStep ==
    ASSUME IInv, TypesInv, OtherTypes, CompiledInv, AloneInv, SharingInv, PrivateInv, EarnedInv,
           FaultlessInv, WholeInv, [Next]_vars
    PROVE  WholeInv'
<1> SUFFICES ASSUME NEW q \in Requests, q \notin met', q \notin replaced'
             PROVE  WholeDirectory(q)' /\ RightSoFar(q)'
  BY DEF WholeInv
<1>0. /\ q \notin shared /\ q \notin replaced /\ WholeDirectory(q) /\ RightSoFar(q)
      /\ faults \in Nat /\ (faults > 0 => faults' > 0) /\ DataTypes
  BY HistoryGrows, JudgeWorkerAssumption DEF WholeInv, SharingInv, OtherTypes, IInv
<1>1. ASSUME NEW r \in Requests, r # q, Own(r) PROVE WholeDirectory(q)' /\ RightSoFar(q)'
  BY <1>0, <1>1, Undisturbed
<1>2. ASSUME Own(q) PROVE WholeDirectory(q)' /\ RightSoFar(q)'
  <2>1. RightSoFar(q)'
    BY <1>0, <1>2, RightStep
  <2>2. WholeDirectory(q)'
    BY <1>0, <1>2, PreparingWhole, JudgingWhole DEF Own, Work
  <2>. QED
    BY <2>1, <2>2
<1>3. ASSUME UNCHANGED <<pc, dirs, got, child, results, verdict>>
      PROVE  WholeDirectory(q)' /\ RightSoFar(q)'
  <2>1. Case(q)' = Case(q)
    BY <1>3 DEF Case
  <2>2. WholeDirectory(q)'
    BY <1>0, <1>3, <2>1 DEF WholeDirectory
  <2>3. RightSoFar(q)'
    BY <1>0, <1>3 DEF RightSoFar
  <2>. QED
    BY <2>2, <2>3
<1>4. ASSUME NEW d \in Data, Overwrite(d) PROVE UNCHANGED <<pc, dirs, got, child, results, verdict>>
  BY <1>4 DEF Overwrite, requestVars
<1>5. ASSUME UNCHANGED vars PROVE UNCHANGED <<pc, dirs, got, child, results, verdict>>
  BY <1>5 DEF vars, requestVars
<1>6. ASSUME Crash PROVE WholeDirectory(q)' /\ RightSoFar(q)'
  <2>1. pc'[q] \in {"new", "answered", "lost"} /\ (pc'[q] = "answered" => pc[q] = "answered")
    BY <1>0, <1>6 DEF Crash, InFlight, DataTypes
  <2>2. WholeDirectory(q)'
    BY <2>1 DEF WholeDirectory, Judging, Fetching, Running
  <2>3. UNCHANGED <<results, verdict>>
    BY <1>6 DEF Crash
  <2>4. RightSoFar(q)'
    BY <1>0, <2>1, <2>3 DEF RightSoFar
  <2>. QED
    BY <2>2, <2>4
<1>. QED
  BY <1>1, <1>2, <1>3, <1>4, <1>5, <1>6, StepSplit

-----------------------------------------------------------------------------
(* Theorems.                                                               *)

\* The inductive invariant.
WorkerInv ==
    /\ IInv /\ TypesInv /\ CompiledInv
    /\ AloneInv /\ SharingInv /\ PrivateInv /\ EarnedInv
    /\ FaultlessInv /\ WholeInv

LEMMA WorkerInitially == Init => WorkerInv
<1> SUFFICES ASSUME Init PROVE WorkerInv
  OBVIOUS
<1>0. IInv /\ DataTypes
  BY Initially DEF IInv
<1> USE DEF Init
<1>1. OtherTypes
  BY JudgeWorkerAssumption DEF OtherTypes, Pcs, Child, NoChild, Content
<1>2. dirs \in [Subs -> Directory]
  BY NoDirectoryTyped
<1>3. TypesInv
  BY <1>0, <1>1, <1>2, TypesSplit
<1>4. CompiledInv /\ AloneInv
  BY DEF CompiledInv, AloneInv, Judging, Fetching, Running, InFlight
<1>5. SharingInv /\ PrivateInv
  <2>1. \A r \in Requests : pc[r] = "new"
    OBVIOUS
  <2>. QED
    <3>1. SharingInv
      <4>1. shared \subseteq met /\ \A r \in Requests : pc[r] \notin OnCase
        BY <2>1 DEF OnCase
      <4> HIDE DEF Init
      <4>. QED
        BY <4>1 DEF SharingInv
    <3>2. PrivateInv
      BY <2>1, Zenon DEF PrivateInv, Private
    <3>. QED
      BY <3>1, <3>2
<1>6. EarnedInv
  <2> SUFFICES ASSUME NEW r \in Requests PROVE Earned(r)
    BY DEF EarnedInv
  <2>1. SubOf[r] \in Subs /\ results[r] = <<>> /\ verdict[r] = "none"
    BY JudgeWorkerAssumption
  <2>2. Tests[SubOf[r]] \in Seq([in : Data, out : Data])
    BY <2>1, JudgeWorkerAssumption
  <2>3. Len(results[r]) <= Len(Tests[SubOf[r]])
    BY <2>1, <2>2
  <2>. QED
    BY <2>1, <2>3 DEF Earned
<1>7. FaultlessInv
  BY DEF FaultlessInv
<1>8. WholeInv
  BY DEF WholeInv, WholeDirectory, RightSoFar, Judging, Fetching, Running
<1>. QED
  BY <1>0, <1>3, <1>4, <1>5, <1>6, <1>7, <1>8 DEF WorkerInv

LEMMA WorkerStep == WorkerInv /\ [Next]_vars => WorkerInv'
<1> SUFFICES ASSUME WorkerInv, [Next]_vars PROVE WorkerInv'
  OBVIOUS
<1> USE DEF WorkerInv
<1>1. IInv' /\ DataTypes' /\ DataTypes /\ DataInv /\ OtherTypes
  BY Stepwise, TypesSplit DEF IInv
<1>2. TypesInv'
  <2>1. dirs' \in [Subs -> Directory] /\ OtherTypes'
    BY <1>1, DirectoriesTyped, OtherTypesStep
  <2>2. (DataTypes /\ OtherTypes /\ dirs \in [Subs -> Directory] => TypesInv)'
    BY TypesSplit, PTL
  <2>. QED
    BY <1>1, <2>1, <2>2
<1>3. CompiledInv' /\ AloneInv' /\ SharingInv'
  BY <1>1, CompiledStep, AloneStep, SharingStep
<1>4. PrivateInv' /\ EarnedInv' /\ FaultlessInv' /\ WholeInv'
  BY <1>1, PrivateStep, EarnedStep, FaultlessStep, WholeStep
<1>. QED
  BY <1>1, <1>2, <1>3, <1>4

\* The invariant of the data that a request goes through.
THEOREM DataInductive == Spec => []IInv
<1>1. Init => IInv
  BY Initially
<1>2. IInv /\ [Next]_vars => IInv'
  BY Stepwise
<1> QED
  BY <1>1, <1>2, PTL DEF Spec

\* judge_core.cpp:108: a program runs on the data its task names, whatever faults
\* happen and whoever shares the cache, unless its file was downloaded anew
\* with other content between the check and the reading.
THEOREM ProgramsRunOnVerifiedData == Spec => []OnlyVerifiedData
<1>1. IInv => OnlyVerifiedData
  BY DEF IInv, DataInv, OnlyVerifiedData, Running
<1> QED
  BY <1>1, DataInductive, PTL

\* The invariant holds in every reachable state.
THEOREM WorkerInductive == Spec => []WorkerInv
<1>. QED
  BY WorkerInitially, WorkerStep, PTL DEF Spec

\* The types of the requests, the directories, the cache and MinIO.
THEOREM WorkerTypes == Spec => []TypeOK
<1>1. WorkerInv => TypeOK
  BY DEF WorkerInv, TypesInv
<1>. QED
  BY <1>1, WorkerInductive, PTL

\* run_service.cpp and judge_core.cpp: requests of one submission that remove
\* each other's directory and leave files in it, damaged objects, failed downloads
\* and crashes never make an accepted program of one that is not; only a case
\* that another request runs at the same time, whose input it truncates and whose
\* output it writes, and a file that was replaced as it was read may.
THEOREM AcceptancesAreEarned == Spec => []AcceptanceIsEarned
<1>1. WorkerInv => AcceptanceIsEarned
  BY DEF WorkerInv, EarnedInv, Earned, AcceptanceIsEarned
<1>. QED
  BY <1>1, WorkerInductive, PTL

\* judge_core.cpp:217: a request that meets no other of its submission answers
\* what its program deserves by itself, case by case, however many requests of
\* other submissions share the cache; a fault costs it the verdict at most.
THEOREM VerdictsAreDeserved == Spec => []VerdictIsDeserved
<1>1. WorkerInv => VerdictIsDeserved
  BY DEF WorkerInv, WholeInv, RightSoFar, VerdictIsDeserved
<1>. QED
  BY <1>1, WorkerInductive, PTL

=============================================================================
