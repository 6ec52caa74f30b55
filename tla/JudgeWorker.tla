---------------------------- MODULE JudgeWorker ----------------------------
(***************************************************************************)
(* One judge_worker process: concurrent POST /api/judge requests, each in  *)
(* a thread of its own, the work directory they make for a submission, and *)
(* the cache of test data that all of them share.                          *)
(*                                                                         *)
(* Two requests of one submission may be in flight at the same time: the   *)
(* dispatcher stops waiting after its read timeout and tries again, and    *)
(* after a dispatcher crash the task is delivered once more.               *)
(***************************************************************************)
EXTENDS Naturals, Sequences, SequencesExt

CONSTANTS
    Requests, Subs,
    SubOf,       \* the submission_id of each request
    Program,     \* what the program of a submission does, case by case, and how it may
                 \* end when it does not get the input of the case
    Tests,       \* the test case references of a submission's problem
    Data,        \* contents of test files; each names the sha256 of itself
    Nothing,     \* no file, or an empty one
    Garbage,     \* output that is not the expected one, or a damaged file
    MaxRequests, \* how many of the requests come
    MaxFaults    \* objects overwritten, downloads failed, worker crashes

Endings == {"zero", "nonzero", "signal", "cpu", "filesize", "hangs"}

ASSUME JudgeWorkerAssumption ==
    /\ SubOf \in [Requests -> Subs]
    /\ Tests \in [Subs -> Seq([in : Data, out : Data])]
    /\ \A s \in Subs :
           /\ Program[s].compiles \in BOOLEAN
           /\ Program[s].runs \in Seq([ends : Endings, over : BOOLEAN, right : BOOLEAN])
           /\ Len(Program[s].runs) = Len(Tests[s])
           /\ Program[s].astray \subseteq [ends : Endings, over : BOOLEAN]
    /\ Nothing \notin Data /\ Garbage \notin Data /\ Nothing # Garbage
    /\ MaxRequests \in Nat /\ MaxFaults \in Nat

VARIABLES
    pc,         \* where each request is
    dirs,       \* runtime/judge_worker/submission_<id>
    cache,      \* runtime/judge_worker/object_cache, by sha256
    objects,    \* the objects in MinIO
    got,        \* the test data each request has read
    side,       \* which half of a test case it reads
    child,      \* the run of a case: how it ended, whether its files still have their
                \* names, and whether nobody else has touched them
    results,    \* the statuses of its test cases so far
    verdict,    \* final_status
    met,        \* history: requests in flight together with another of their submission
    shared,     \* history: requests that ran a case at the same time as another
    replaced,   \* history: requests whose file another request downloaded anew
    faults

requestVars == <<got, side, child, results, verdict>>
histVars == <<met, shared, replaced>>
vars == <<pc, dirs, cache, objects, requestVars, histVars, faults>>

Content == Data \cup {Nothing, Garbage}
NoDirectory == [there |-> FALSE, source |-> FALSE, binary |-> FALSE, stdin |-> <<>>, stdout |-> <<>>]
NoData == [in |-> Nothing, out |-> Nothing]
NoChild == [ends |-> "none", over |-> FALSE, linked |-> FALSE, alone |-> FALSE]
NewChild == [NoChild EXCEPT !.linked = TRUE, !.alone = TRUE]

Case(r) == Len(results[r]) + 1

\* Mutant of DirOf: one work directory for all submissions.
OneDirectory(r) == CHOOSE s \in Subs : SubOf[r] \in Subs

DirOf(r) == SubOf[r]

\* Mutant of CaseDir: one directory for all cases of a submission.
OneCaseDir(r) == IF Case(r) > 0 THEN 1 ELSE 0

\* testcase_<n> in the work directory.
CaseDir(r) == Case(r)

InFlight(r) == pc[r] \notin {"new", "answered", "lost"}
Test(r) == Tests[SubOf[r]][Case(r)]
File(r) == IF side[r] = "in" THEN Test(r).in ELSE Test(r).out
Run(r) == Program[SubOf[r]].runs[Case(r)]

Init ==
    /\ pc = [r \in Requests |-> "new"]
    /\ dirs = [s \in Subs |-> NoDirectory]
    /\ cache = [d \in Data |-> Nothing]
    /\ objects = [d \in Data |-> d]
    /\ got = [r \in Requests |-> NoData]
    /\ side = [r \in Requests |-> "in"]
    /\ child = [r \in Requests |-> NoChild]
    /\ results = [r \in Requests |-> <<>>]
    /\ verdict = [r \in Requests |-> "none"]
    /\ met = {}
    /\ shared = {}
    /\ replaced = {}
    /\ faults = 0

Goto(r, where) == pc' = [pc EXCEPT ![r] = where]
Spend == faults < MaxFaults /\ faults' = faults + 1

Answer(r, status) ==
    /\ Goto(r, "answered")
    /\ verdict' = [verdict EXCEPT ![r] = status]

\* An exception inside JudgeCore::judge.
Throw(r) == Answer(r, "SYSTEM_ERROR")

-----------------------------------------------------------------------------
(* The work directory.                                                     *)

\* remove_all; the files a running child has open lose their names.
RemoveDirectory(r) ==
    LET others == {q \in Requests : SubOf[q] = SubOf[r] /\ InFlight(q)}
    IN  /\ pc[r] = "new"
        /\ Cardinality({q \in Requests : pc[q] # "new"}) < MaxRequests
        /\ Goto(r, "removed")
        /\ dirs' = [dirs EXCEPT ![DirOf(r)] = NoDirectory]
        /\ child' = [q \in Requests |->
               IF DirOf(q) = DirOf(r) THEN [child[q] EXCEPT !.linked = FALSE] ELSE child[q]]
        /\ met' = IF others = {} THEN met ELSE met \cup others \cup {r}
        /\ UNCHANGED <<cache, objects, got, side, results, verdict, shared, replaced, faults>>

CreateDirectory(r) ==
    /\ pc[r] = "removed"
    /\ Goto(r, "writing")
    /\ dirs' = [dirs EXCEPT ![DirOf(r)].there = TRUE]
    /\ UNCHANGED <<cache, objects, requestVars, histVars, faults>>

WriteSource(r) ==
    /\ pc[r] = "writing"
    /\ IF dirs[DirOf(r)].there
       THEN /\ dirs' = [dirs EXCEPT ![DirOf(r)].source = TRUE]
            /\ Goto(r, "compiling")
            /\ UNCHANGED verdict
       ELSE Throw(r) /\ UNCHANGED dirs
    /\ UNCHANGED <<cache, objects, got, side, child, results, histVars, faults>>

\* g++ opens its logs and reads main.cpp.
Compile(r) ==
    /\ pc[r] = "compiling"
    /\ IF dirs[DirOf(r)].there /\ dirs[DirOf(r)].source /\ Program[SubOf[r]].compiles
       THEN Goto(r, "linking") /\ UNCHANGED verdict
       ELSE Answer(r, "COMPILE_ERROR")
    /\ UNCHANGED <<dirs, cache, objects, got, side, child, results, histVars, faults>>

\* The linker writes main.bin, if the directory is still there.
Link(r) ==
    /\ pc[r] = "linking"
    /\ Goto(r, "compiled")
    /\ dirs' = [dirs EXCEPT ![DirOf(r)].binary = dirs[DirOf(r)].there]
    /\ UNCHANGED <<cache, objects, requestVars, histVars, faults>>

AcceptBinary(r) ==
    /\ pc[r] = "compiled"
    /\ IF dirs[DirOf(r)].binary
       THEN Goto(r, "cases") /\ UNCHANGED verdict
       ELSE Answer(r, "COMPILE_ERROR")
    /\ UNCHANGED <<dirs, cache, objects, got, side, child, results, histVars, faults>>

-----------------------------------------------------------------------------
(* The cache of test data.                                                 *)

Verified(d) == cache[d] = d

\* A case is left: look for its input in the cache, then for its output.  A
\* file that fails its check is removed.
CheckCache(r) ==
    /\ pc[r] = "cases"
    /\ Case(r) <= Len(Tests[SubOf[r]])
    /\ IF Verified(File(r))
       THEN Goto(r, "reading") /\ UNCHANGED cache
       ELSE Goto(r, "downloading") /\ cache' = [cache EXCEPT ![File(r)] = Nothing]
    /\ UNCHANGED <<dirs, objects, requestVars, histVars, faults>>

\* mc cp replaces the file.
Download(r) ==
    /\ pc[r] = "downloading"
    /\ Goto(r, "verifying")
    /\ cache' = [cache EXCEPT ![File(r)] = objects[File(r)]]
    /\ replaced' = IF objects[File(r)] = File(r) THEN replaced
                   ELSE replaced \cup {q \in Requests : pc[q] = "reading" /\ File(q) = File(r)}
    /\ UNCHANGED <<dirs, objects, requestVars, met, shared, faults>>

DownloadFails(r) ==
    /\ pc[r] = "downloading"
    /\ Spend
    /\ Throw(r)
    /\ UNCHANGED <<dirs, cache, objects, got, side, child, results, histVars>>

\* Mutant of Verify: what was just downloaded is trusted.
VerifySkipped(r) ==
    /\ pc[r] = "verifying"
    /\ Goto(r, "reading")
    /\ UNCHANGED <<dirs, cache, objects, requestVars, histVars, faults>>

Verify(r) ==
    /\ pc[r] = "verifying"
    /\ IF Verified(File(r)) THEN Goto(r, "reading") /\ UNCHANGED verdict ELSE Throw(r)
    /\ UNCHANGED <<dirs, cache, objects, got, side, child, results, histVars, faults>>

\* The file is opened once more to be read; another request may have removed it.
ReadFile(r) ==
    /\ pc[r] = "reading"
    /\ IF cache[File(r)] = Nothing
       THEN Throw(r) /\ UNCHANGED <<got, side>>
       ELSE /\ got' = [got EXCEPT ![r][side[r]] = cache[File(r)]]
            /\ side' = [side EXCEPT ![r] = IF @ = "in" THEN "out" ELSE "in"]
            /\ Goto(r, IF side[r] = "in" THEN "cases" ELSE "staging")
            /\ UNCHANGED verdict
    /\ UNCHANGED <<dirs, cache, objects, child, results, histVars, faults>>

-----------------------------------------------------------------------------
(* RunService::run.                                                        *)

With(files, i, content) == [j \in DOMAIN files \cup {i} |-> IF j = i THEN content ELSE files[j]]

\* The files of the case that r runs are those of q's case too.
SameFiles(q, r) == q # r /\ DirOf(q) = DirOf(r) /\ CaseDir(q) = CaseDir(r)

OnCase == {"filling", "starting", "running", "collecting"}
Rivals(r) ==
    {q \in Requests \ {r} : SubOf[q] = SubOf[r] /\ Case(q) = Case(r) /\ pc[q] \in OnCase}

\* A file is truncated by r under whoever has it open.
Disturbed(r) ==
    [q \in Requests |->
        [child[q] EXCEPT !.alone = @ /\ ~(SameFiles(q, r) /\ child[q].linked)]]

\* Another program has the output file of r's case open.
Written(r) == \E q \in Requests : SameFiles(q, r) /\ pc[q] = "running" /\ child[q].linked

\* The directory of the case is made, and its run.stdin.txt opened with O_TRUNC.
OpenInput(r) ==
    /\ pc[r] = "staging"
    /\ Goto(r, "filling")
    /\ dirs' = [dirs EXCEPT ![DirOf(r)].there = TRUE,
                            ![DirOf(r)].stdin = With(@, CaseDir(r), Nothing)]
    /\ child' = [Disturbed(r) EXCEPT ![r] = NewChild]
    /\ shared' = IF Rivals(r) = {} THEN shared ELSE shared \cup Rivals(r) \cup {r}
    /\ UNCHANGED <<cache, objects, got, side, results, verdict, met, replaced, faults>>

\* The input is written: to a file without a name after a removal, and only in
\* part when another request has truncated the file since it was opened.
WriteInput(r) ==
    /\ pc[r] = "filling"
    /\ Goto(r, "starting")
    /\ \/ /\ child[r].linked
          /\ dirs' = [dirs EXCEPT ![DirOf(r)].stdin = With(@, CaseDir(r), got[r].in)]
       \/ /\ ~(child[r].linked /\ child[r].alone)
          /\ UNCHANGED dirs
    /\ UNCHANGED <<cache, objects, requestVars, histVars, faults>>

\* fork; the child opens its files by name, truncates its output and executes
\* main.bin.  It has them to itself when the input is whole by now and no other
\* program writes the output.
StartChild(r) ==
    LET d == dirs[DirOf(r)]
        opened == CaseDir(r) \in DOMAIN d.stdin
        whole == opened /\ d.stdin[CaseDir(r)] = Test(r).in /\ ~Written(r)
    IN  /\ pc[r] = "starting"
        /\ dirs' = IF opened THEN [dirs EXCEPT ![DirOf(r)].stdout = With(@, CaseDir(r), Nothing)] ELSE dirs
        /\ IF opened /\ d.binary
           THEN /\ child' = [Disturbed(r) EXCEPT ![r] =
                                [NewChild EXCEPT !.ends = "running", !.alone = whole]]
                /\ Goto(r, "running")
           ELSE /\ child' = [(IF opened THEN Disturbed(r) ELSE child) EXCEPT ![r] =
                                [NewChild EXCEPT !.ends = "noexec", !.linked = opened]]
                /\ Goto(r, "collecting")
        /\ UNCHANGED <<cache, objects, got, side, results, verdict, histVars, faults>>

\* What the program writes for the input of the case, and what it may leave when
\* it is killed or reads another input: nothing, too little or something wrong.
OutputOf(r) == IF Run(r).right THEN Test(r).out ELSE Garbage
Outputs(r) == {Nothing, Garbage, Test(r).out}

\* The child has ended and left an output.
Ended(r, ends, over, out) ==
    /\ Goto(r, "collecting")
    /\ child' = [child EXCEPT ![r] = [@ EXCEPT !.ends = ends, !.over = over]]
    /\ dirs' = IF child[r].linked
               THEN [dirs EXCEPT ![DirOf(r)].stdout = With(@, CaseDir(r), out)]
               ELSE dirs
    /\ UNCHANGED <<cache, objects, got, side, results, verdict, histVars, faults>>

\* A program whose files another request has touched may have read any part of
\* its input, may end otherwise and leave any output.
FinishChild(r) ==
    /\ pc[r] = "running"
    /\ \/ child[r].alone /\ Run(r).ends # "hangs" /\ Ended(r, Run(r).ends, Run(r).over, OutputOf(r))
       \/ /\ ~child[r].alone
          /\ \E how \in Program[SubOf[r]].astray, out \in Outputs(r) :
                 how.ends # "hangs" /\ Ended(r, how.ends, how.over, out)

\* Mutant of KillChild: the deadline is looked at once the child has ended.
KillForgotten(r) ==
    /\ pc[r] = "running" /\ Run(r).ends # "hangs" /\ ~child[r].alone
    /\ \E out \in Outputs(r) : Ended(r, "timeout", FALSE, out)

\* The time limit: SIGKILL, whatever has been written by then.
KillChild(r) ==
    /\ pc[r] = "running" /\ (child[r].alone => Run(r).ends = "hangs")
    /\ \E out \in Outputs(r) : Ended(r, "timeout", FALSE, out)

\* map_signal_to_status, and the exit codes.
RunStatus(ends, over) ==
    CASE ends \in {"timeout", "cpu"} -> "TIME_LIMIT_EXCEEDED"
      [] ends = "filesize" -> "OUTPUT_LIMIT_EXCEEDED"
      [] ends \notin {"timeout", "cpu", "filesize"} /\ over -> "MEMORY_LIMIT_EXCEEDED"
      [] ends \in {"signal", "nonzero", "noexec"} /\ ~over -> "RUNTIME_ERROR"
      [] OTHER -> "OK"

\* What run.stdout.txt holds.
Output(r) ==
    LET files == dirs[DirOf(r)].stdout
    IN  IF CaseDir(r) \in DOMAIN files THEN files[CaseDir(r)] ELSE Nothing

\* What the request may read there: anything while another program writes it.
Readable(r) == IF Written(r) THEN Content ELSE {Output(r)}

CaseStatus(r, text) ==
    LET ran == RunStatus(child[r].ends, child[r].over)
    IN  IF ran = "OK" /\ text # got[r].out THEN "WRONG_ANSWER" ELSE ran

Collect(r) ==
    /\ pc[r] = "collecting"
    /\ Goto(r, "cases")
    /\ \E text \in Readable(r) :
           results' = [results EXCEPT ![r] = Append(@, CaseStatus(r, text))]
    /\ child' = [child EXCEPT ![r] = NoChild]
    /\ got' = [got EXCEPT ![r] = NoData]
    /\ UNCHANGED <<dirs, cache, objects, side, verdict, histVars, faults>>

\* Mutant of Summary: it starts without a status instead of OK.
SummaryUnset(statuses) ==
    FoldLeft(LAMBDA acc, status : IF acc = "OK" THEN status ELSE acc, "none", statuses)

\* summarize_judge_response
Summary(statuses) ==
    IF statuses = <<>> THEN "SYSTEM_ERROR"
    ELSE FoldLeft(LAMBDA acc, status : IF acc = "OK" THEN status ELSE acc, "OK", statuses)

Summarize(r) ==
    /\ pc[r] = "cases"
    /\ Case(r) > Len(Tests[SubOf[r]])
    /\ Answer(r, Summary(results[r]))
    /\ UNCHANGED <<dirs, cache, objects, got, side, child, results, histVars, faults>>

-----------------------------------------------------------------------------
(* The environment.                                                        *)

\* A test file is uploaded again under the key a queued task refers to
\* (ProblemStore), so its content no longer has the sha256 of the task.
Overwrite(d) ==
    /\ Spend
    /\ objects' = [objects EXCEPT ![d] = IF @ = d THEN Garbage ELSE d]
    /\ UNCHANGED <<pc, dirs, cache, requestVars, histVars>>

\* The worker dies; directories and cache stay.
Crash ==
    /\ Spend
    /\ \E r \in Requests : InFlight(r)
    /\ pc' = [r \in Requests |-> IF InFlight(r) THEN "lost" ELSE pc[r]]
    /\ child' = [r \in Requests |-> NoChild]
    /\ got' = [r \in Requests |-> NoData]
    /\ UNCHANGED <<dirs, cache, objects, side, results, verdict, histVars>>

Work(r) ==
    \/ CreateDirectory(r) \/ WriteSource(r) \/ Compile(r) \/ Link(r) \/ AcceptBinary(r)
    \/ CheckCache(r) \/ Download(r) \/ Verify(r) \/ ReadFile(r)
    \/ OpenInput(r) \/ WriteInput(r) \/ StartChild(r) \/ FinishChild(r) \/ KillChild(r) \/ Collect(r)
    \/ Summarize(r)

Next ==
    \/ \E r \in Requests : RemoveDirectory(r) \/ Work(r) \/ DownloadFails(r)
    \/ \E d \in Data : Overwrite(d)
    \/ Crash

\* A request that has begun goes on: its thread is scheduled, g++ has a CPU
\* limit and mc ends.
Fairness == \A r \in Requests : WF_vars(Work(r))

Spec == Init /\ [][Next]_vars /\ Fairness

-----------------------------------------------------------------------------

Verdicts == {"OK", "WRONG_ANSWER", "COMPILE_ERROR", "RUNTIME_ERROR", "TIME_LIMIT_EXCEEDED",
             "MEMORY_LIMIT_EXCEEDED", "OUTPUT_LIMIT_EXCEEDED", "SYSTEM_ERROR"}

\* Types of the requests, the directories, the cache and MinIO.
TypeOK ==
    /\ pc \in [Requests -> {"new", "removed", "writing", "compiling", "linking", "compiled", "cases",
                            "downloading", "verifying", "reading", "staging", "filling", "starting",
                            "running", "collecting", "answered", "lost"}]
    /\ \A s \in Subs :
           /\ {dirs[s].there, dirs[s].source, dirs[s].binary} \subseteq BOOLEAN
           /\ {dirs[s].stdin[i] : i \in DOMAIN dirs[s].stdin} \subseteq Content
           /\ {dirs[s].stdout[i] : i \in DOMAIN dirs[s].stdout} \subseteq Content
    /\ cache \in [Data -> Content]
    /\ objects \in [Data -> Content \ {Nothing}]
    /\ got \in [Requests -> [in : Content, out : Content]]
    /\ side \in [Requests -> {"in", "out"}]
    /\ child \in [Requests -> [ends : Endings \cup {"none", "running", "noexec", "timeout"},
                              over : BOOLEAN, linked : BOOLEAN, alone : BOOLEAN]]
    /\ results \in [Requests -> Seq(Verdicts)]
    /\ verdict \in [Requests -> Verdicts \cup {"none"}]
    /\ \A r \in Requests : pc[r] = "answered" => verdict[r] # "none"
    /\ met \subseteq Requests
    /\ shared \subseteq Requests
    /\ replaced \subseteq Requests
    /\ faults \in 0..MaxFaults

\* What a program deserves, case by case, from its own behaviour alone.
DeservedCase(run) ==
    CASE run.ends \in {"hangs", "cpu"} -> "TIME_LIMIT_EXCEEDED"
      [] run.ends = "filesize" -> "OUTPUT_LIMIT_EXCEEDED"
      [] run.ends \in {"zero", "nonzero", "signal"} /\ run.over -> "MEMORY_LIMIT_EXCEEDED"
      [] run.ends \in {"nonzero", "signal"} /\ ~run.over -> "RUNTIME_ERROR"
      [] run.ends = "zero" /\ ~run.over /\ ~run.right -> "WRONG_ANSWER"
      [] OTHER -> "OK"

\* It is accepted when every case is; otherwise it has the first status that is not OK.
Deserved(s) ==
    LET runs == Program[s].runs
        failed == {i \in DOMAIN runs : DeservedCase(runs[i]) # "OK"}
    IN  CASE ~Program[s].compiles -> "COMPILE_ERROR"
          [] Program[s].compiles /\ runs = <<>> -> "SYSTEM_ERROR"
          [] Program[s].compiles /\ runs # <<>> /\ failed = {} -> "OK"
          [] OTHER -> DeservedCase(runs[CHOOSE i \in failed : \A j \in failed : i <= j])

\* judge_core.cpp:217: submissions do not disturb each other.  However many
\* requests of other submissions run at the same time and share the cache, a
\* request gets the verdict its program deserves; a fault may turn it into
\* SYSTEM_ERROR and into nothing else.
VerdictIsDeserved ==
    \A r \in Requests : pc[r] = "answered" /\ r \notin met \cup replaced =>
        \/ verdict[r] = Deserved(SubOf[r])
        \/ faults > 0 /\ verdict[r] = "SYSTEM_ERROR"

\* judge_core.cpp:233: each case has a directory of its own.  Requests of one
\* submission remove each other's directory, compile and leave files in it, and
\* may cost each other the verdict; but only two that run the same case at the
\* same time may make an accepted program of one that does not deserve it.
AcceptanceIsEarned ==
    \A r \in Requests \ (shared \cup replaced) :
        verdict[r] = "OK" => Deserved(SubOf[r]) = "OK"

\* judge_core.cpp:108: a program runs only on data with the sha256 its task
\* names, unless another request downloads the same file after it was verified
\* and before it is read.
OnlyVerifiedData ==
    \A r \in Requests \ replaced :
        pc[r] \in {"staging", "filling", "starting", "running"} => got[r] = Test(r)

\* run_service.cpp:166: every request is answered, unless the worker dies,
\* although a program may hang.
RequestsReturn == \A r \in Requests : InFlight(r) ~> pc[r] \in {"answered", "lost"}
=============================================================================
