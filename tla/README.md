# oj_platform: a TLA+ development

Specifications, model-checking runs and machine-checked proofs for the online judge in
`src/oj_platform` (C++ services, a Go monitor, a Python agent service). Every definition is
translated from the source; `PROJECT.json` maps each to the lines it stands for, lists the runs, the
hazards and the theorems.

## 1. Inventory

| Part | State it keeps | Operations | Interacts with |
|---|---|---|---|
| `JudgeService::submit` (oj_server) | none of its own | create row, publish task, closing write of the row | MySQL, RabbitMQ; runs beside the dispatcher |
| RabbitMQ and `RabbitMqClient` | judge, retry (TTL) and dead-letter queues, unacknowledged deliveries, one connection per client | publish (unconfirmed), consume, ack, nack | submit publishes, the dispatcher does everything else |
| `judge_dispatcher` main loop | pending futures, `g_running` | consume, two loads, save RUNNING, collect, save/retry/dead-letter, ack | MySQL, RabbitMQ, worker pool |
| `WorkerPool` / `WorkerClient` | `next_index_`, cooldown deadline per worker | `judge` from several futures at once | judge workers over HTTP |
| `SubmissionRepository` | `submissions`, `submission_testcases`, leaderboard statistics | create, update (one transaction), find, lists | dispatcher and oj_server; Redis after the commit |
| Assignment leaderboard | two statistics tables, a Redis sorted set | recompute on each verdict, read by rank, rebuild | update_submission writes, the leaderboard page reads |
| `AssignmentRepository` | assignments, their problems, users | create, edit by phase (before, during, after) | leaderboard, submissions |
| `ProblemRepository`, `ProblemImporter` | problems, test-case references, objects in MinIO | import, edit, renumber, delete | cascades to submissions |
| `MySqlClient` | a pool per repository object | borrow, return | every repository |
| `RedisClient` and the caches in `routes.cpp` | cached lists and details | get, setex, del | list pages, edits |
| Assistant jobs (`routes.cpp`), `AiAssistantService`, `AgentClient` | event log and `done` flag of each job | start a thread, append, poll, expire, clean up | agent-service, conversations |
| `ConversationRepository` | conversations, messages, summary | append, load history | assistant jobs |
| `AuthService` | users, sessions | register, login, lookup | every route |
| judge_worker | work directories, object cache | compile, run, compare, summarise | dispatcher over HTTP, MinIO |
| agent-service | a state per chat | plan, call tools, stream an answer | oj_server, language model, vector store |
| go_monitor | lazily initialised clients | probe everything, summarise | all services |
| Web front end, migrator | none | poll, upload | oj_server |

Hard behaviours: oj_server's request handlers, the dispatcher's main thread, its judging threads and
the broker run concurrently on the same row; either process may crash between any two calls;
publishes are unconfirmed; an AMQP connection may close under the dispatcher; MySQL may fail, or
commit and lose the answer; retries travel through a TTL queue and overlap with redeliveries.

What makes each part correct:

* pipeline: no accepted submission is forgotten; each delivery is acknowledged or requeued by
  somebody; a verdict is not undone; the dead-letter queue holds what failed;
* worker pool: concurrent requests share the rotation; a request ends within a bound, and fails only
  when every worker failed it or is cooling down;
* judge_worker: requests that share only the cache get the verdicts their programs deserve; requests
  that share a work directory may lose a verdict, but as long as they do not run one case at the
  same time no program is accepted that does not deserve it; each request is answered;
* leaderboard: statistics equal a recomputation from the submissions, a page leaves nobody out, a
  stale sorted set does not last;
* assistant jobs: a page handles each event once and in order and is told how the job ended; an
  answer it was told of is stored, numbered, and taken along by the next question;
* agent: planning, answering and the fallback end in their time, the reader waits for an event no
  longer than a heartbeat, the fallback or a tool takes, and the answer that is stored is the one
  that was shown;
* problem store: every test case has its two files with the hashes of its row; an import that fails
  leaves no rows and, where the code cleans up, no objects; two halves uploaded at the same time are
  paired;
* assignments: an edit never takes back what an assignment has promised to its participants;
  concurrent additions do not collide; submissions belong to their assignment; a cached page is
  stale only through a race or a failure that the code leaves open.

## 2. Modules

| Module | Models |
|---|---|
| `JudgePipeline` | submit, queues, dispatcher: the whole life of a submission |
| `JudgeContract` | what the pipeline promises: at-least-once judging |
| `WorkerPool` | `WorkerPool::judge` under concurrent calls, with time |
| `JudgeWorker` | one judge_worker: concurrent requests, work directories, the cache of test data |
| `Leaderboard` | statistics of one assignment, the sorted set in Redis, the page |
| `AssistantJobs` | jobs and their event logs, polling pages, the stored conversation |
| `ChatGraph` | one chat request in agent-service: plan, tools, streamed answer, with time |
| `ProblemStore` | problems, test-case rows, objects and staged files under concurrent administrators |
| `Assignments` | assignments, the problem catalogue, submissions to them, the Redis copies |
| `MC...` | values for TLC: budgets, programs, users, initial states, symmetry |
| `...Proofs` | the inductive invariant and the theorems of the module of that name |

The modules meet at their interfaces. `JudgePipeline` sees the pool as a choice of outcome and a
save as one commit; `WorkerPool` opens up the first, `Leaderboard` the second. A call that the pool
gives up on goes on inside the worker: `JudgeWorker` begins there, with two requests of one
submission at once. What the worker downloads is what `ProblemStore` wrote; its `Overwrite` is an
upload there. `ChatGraph` is the stream that `AssistantJobs` relays: the bounds of the one are what
the timeouts of the other have to exceed. `Assignments` says which submissions the window of a
`Leaderboard` may count.

### JudgePipeline and the code

One action is one call another process can observe: a MySQL transaction, a publish, an ack.
Everything between two such calls is local to a thread and merged into the action before it. The
main thread's program counter is `main`:

    poll --Consume--> received --FirstLoad--> checked --SecondLoad--> starting --StartJudging--> poll
                          |                      |                       |
                          +------ an exception --+-----------------------+--> rejecting
    rejecting --RejectMark--> deadLettering --DeadLetterRaw--> acking --Ack--> poll
    poll --Collect--> finishing --SaveResult--> acking
                          +------MarkFailure--> rerouting --Reroute--> acking

`future[m]` is the `std::future` of the delivery `m` (none, judging, or its outcome), `Pending` the
vector `pending_tasks`. `msg` is what the broker holds: a message is in the judge queue, in the
retry queue or unacknowledged; `dead` is the dead-letter queue. `status` is the column of the row.
`settled`, `enqueued` and `vanished` are history: a terminal status was committed, submit() believes
the task is queued, the broker lost a publish.

Faults are actions or branches that spend from `budget`: a crash of the dispatcher, a lost
connection (`drop`), SIGTERM (`stop`), a MySQL error before or after the commit (`db`), a publish
that fails (`publish`) or is lost (`lose`), a deleted problem (`delete`). A crash of oj_server
inside submit() and a failing publish of submit() need no budget: each happens at most once per
submission.

Abstractions, and why they lose nothing the properties speak of:

* queues are sets: a nack and an expired TTL reorder them anyway; prefetching only fixes earlier
  which message is consumed next;
* a message is named by an identifier that is free again after its ack. `MsgIds` bounds the messages
  at one time; with two submissions and two faults that copy, five identifiers give the same states
  as four, so four never run out. Where they could run out (a larger budget) a publish would wait,
  and no such run is used;
* the load and the save of `mark_submission_*` are one action: the only other writer in that window
  is submit()'s closing QUEUED, and each of its positions ends like a position before or after both;
* the worker pool is a choice of outcome: every failure of it is reported as "all judge workers
  ...", which `is_transient_worker_failure` recognises; any other exception of `execute_judge_task`
  becomes SYSTEM_ERROR, or transient when its text mentions a timeout; the choice covers both;
* `vanished` also stands for a publish written to a connection the broker has already given up.

### JudgeContract

Four phases: new, accepted, settled, abandoned. An accepted job is eventually settled or abandoned
(dead-lettered, or lost by the broker); an abandoned one may still be settled by a surviving copy; a
settled one stays settled. `JudgePipeline` implements it with the refinement mapping `PhaseOf`.
`Moves` is its safety half (which moves there are), `Spec` adds that an accepted job does not wait
for ever.

### WorkerPool and the code

The pipeline sees the pool as a choice of outcome; this module is the pool. A call is one execution
of `WorkerPool::judge` on a `std::async` thread:

    idle --Begin--> choosing --Select--> waiting --Answer--> answered
                       |  ^------Fail-------+
                       +--GiveUp--> unavailable (no try failed) or failed

`Select` is the first critical section (scan, advance `next_index_`) and `Fail` the second (set
`unavailable_until`). `cooling` keeps deadlines as ticks left, so `Tick` counts them down; a tick
passes only when every thread waits for an answer, because the critical sections are short against
it. `ReadTimeout` is the longest time one try may take: connecting, sending and receiving each have
a socket timeout (3 s and 30 s by default). `SO_RCVTIMEO` is renewed by each `recv`; judge_worker
sends its answer at once when it has judged, so one timeout is charged for each try. `tried`,
`elapsed` and `turns` are history. That a worker goes on judging after its client gave up is not
part of the pool and belongs to `JudgeWorker`.

### Leaderboard and the code

A writer is the dispatcher's main thread (which saves one verdict at a time) or the handler of a
submission (whose closing write is QUEUED, or SYSTEM_ERROR when its publish failed). Both call
`update_submission`:

    idle/closing --Close, SaveVerdict--> updated --Lock--> locked --Commit--> zadd --PublishScore--> expire --RenewExpiry--> idle/done
                                           |                 |
                                           +----Rollback-----+--CommitUnknown, not counted--> idle/done

`Close` and `SaveVerdict` are the UPDATE, which takes the row of the submission. `Lock` is the
`SELECT ... FOR UPDATE`, whose LEFT JOIN takes the row of the assignment too, together with the
recomputation: at REPEATABLE READ (the default; nothing changes it) the read view is made by the
first consistent read, which comes after the lock, so it sees every earlier commit and its own
update. `rows`, `stats` and `rank` are the committed tables and change in `Committed` only. `found`
and `standing` are the two snapshots of the transaction. The page is one request at a time:

    idle --Ask--> fetching --Fetch--> matching --Match--> serving --Serve--> idle
              \________________\__________\--> loading --Load--> filling (Fill, SetExpiry) --^

Abstractions: a final_status is pending (QUEUED, RUNNING), accepted (OK) or rejected (the others);
the dispatcher's RUNNING and requeueing writes are omitted because it never makes them on a settled
row (`ReopensOnlyFromSubmit`) and they do not count; marking a task dead is a rejected verdict. The
window and the problem list of the assignment are constants: extending `end_at` or editing problems
recomputes nothing. Usernames, `last_status`, `score` (100 for each solved problem) and the cells of
the table are left out. The score is exact in a double: `Weight` is 10^9 and a problem list is
short. The expiry is one step, `TtlPasses`: how long 15 s are does not matter to the properties.
`disturbed`, `committed` and `ranked` are history.

### JudgeWorker and the code

A request of `POST /api/judge` runs `JudgeCore::judge` on a thread of the HTTP server:

    new --RemoveDirectory--> removed --CreateDirectory--> writing --WriteSource--> compiling --Compile--> linking --Link--> compiled
    compiled --AcceptBinary--> cases --CheckCache--> [downloading --Download--> verifying --Verify-->] reading --ReadFile--> cases (output half)
    reading --ReadFile--> staging --OpenInput--> filling --WriteInput--> starting --StartChild--> running --FinishChild, KillChild--> collecting --Collect--> cases
    cases --Summarize--> answered

`dirs` is the work directory of a submission: whether it, `main.cpp` and `main.bin` exist, and what
`run.stdin.txt` and `run.stdout.txt` of each case hold. `cache` maps a sha256 to what the file of
that name holds, `objects` is MinIO. All requests meet in `cache`, where one may remove or replace a
file between another's check and its read; two requests of one submission meet in `dirs`. The second
removes what the first works in, and when both are at the same case they share its files:

* `OpenInput` truncates `run.stdin.txt` (O_TRUNC) and `WriteInput` fills it; in between, and after
  another request's `OpenInput`, the file is empty, also for a child that has it open;
* `StartChild` is the child opening its files by name and truncating its output. `child` says how
  the program ended, whether its files still have their names (`linked`) and whether nobody has
  touched them (`alone`: the input was whole when it was opened, no other program writes the output,
  and nothing was truncated since);
* a program that is alone ends as its record says with the output its record says. Any other may
  have read any part of the input: it ends in any way of its `astray` set, or is killed, and leaves
  nothing, something wrong or the expected output. While another program writes the output file, the
  request may read anything there (`Readable`).

An exception is `Throw` (SYSTEM_ERROR). `met`, `shared` and `replaced` are history: requests in
flight with another of their submission, requests that ran a case at the same time as another, and
requests whose file was downloaded anew. The properties state what holds for requests these races
spared, and what still holds for the others.

Abstractions: a test file is named by its content, which is also its sha256; a program is a record
per case of how it ends, whether it exceeds its memory, and whether its output is right on the right
input. `main.cpp` is written in one step, because both requests write the same text; making a case's
directory and opening its input are one step; a download replaces the file at once, a program writes
its output when it ends. Names in the cache for a case without a sha256 are not modelled, and the
unused local test directory is the case without test cases (SYSTEM_ERROR). `Overwrite` and a failed
`mc` spend from `MaxFaults`, and so does a crash.

### AssistantJobs and the code

A job is a POST to `.../chat/stream`. Its detached thread:

    none --Create--> validating --Validate--> generating --AgentDone--> saving --Lock--> locked --Commit--> stored --AppendDone--> finishing --Finish--> ended
                         +--Refuse--+--AgentError, AgentCut--+--SaveFails, CommitThenThrow--> failing --AppendError--> finishing

and the page of a watched job: `waiting --Poll--> polling --Deliver--> waiting | done | error |
silent`. `Poll` finds the job and gives it up when it is stale; `Deliver` copies events and flag
under the job's lock. A restart of oj_server loses jobs and threads, and keeps the conversation.
`log` is the list of events, an id being a place in it; `rounds` and `count` are `ai_message` and
`round_count`; `number` is what a transaction computed under its row lock.

`history` is what a question takes along: the last `HistoryRounds` rounds (8 in the code,
`make_history_json`) of those stored when the thread read them.

Abstractions: relayed progress of any kind is one event; ages are classes (240 s, 600 s). A
conversation is created by its first job; a second job waits until it exists, as the page does. The
diagnosis endpoints run the same job code.

### ChatGraph and the code

    planning --PlannerAnswers, PlannerFails--> tools --CallLocal--> tools        (an unknown, local or incomplete call)
    tools --CallTool--> connecting --RequestSent--> reading --ToolAnswers, ToolFails--> tools   (connecting --ToolFails--> tools)
    reading --CodeGoesOn--> connecting;   connecting, reading --PeerGoesOn--> the same, with a new timeout
    tools --StartAnswer--> answering --StreamEnds--> done
    answering --StreamBreaks, AnswerWaits, Delta (too late)--> completing --Complete, CompleteFails--> done | failed

Code between two awaits takes no time; `Tick` lets time pass while `wait` is not used up.
`PlannerWaits` and `AnswerWaits` are the heartbeats of `asyncio.wait`, which the code sends instead
of an answer. `since` is the time of the phase, `sinceDelta` the code's `now - last_delta_at`,
`silence` the time since the reader saw an event. Texts are what the safety service tells apart:
plain, a whole program, the note on a partial answer, the refusal. A client that disconnects (which
cancels the graph) is not modelled.

Nothing bounds the time of a tool: `execute_tools_node` awaits it without `wait_for` or heartbeats,
and its HTTP clients have one timeout for getting a connection, for connecting and for each write
(`ConnectTimeout`) and one for each read (`ReadTimeout`). `RequestSent` and `CodeGoesOn` go from one
to the other and to the next client. `PeerGoesOn` is a peer that ends a wait and begins another with
the timeout anew: one more step of connecting and sending, or one more part of the answer. `pieces`
counts these. What can be said of a tool is therefore relative to them: its silence is at most one
timeout for each wait (`ToolTime` for a tool whose peers take one step to connect and one to answer,
and `LongestWait` for each further one), and a peer that sends piece by piece keeps it waiting
without limit.

### ProblemStore and the code

An upload of one half (`append_testcase_file_body`) and an import of a package (`import_zip_body`):

    none --Check--> checked --Stage--> written --Look--> staged | paired --Hash--> hashed --Upload--> halfway --Upload--> uploaded --Insert--> inserted --CleanUp--> appended
    none --UploadPackage--> uploaded --Allocate--> allocated --Import--> imported
      |  Malformed,            |  EmptyStatement,      |  Import (id taken), ImportFails: refused
      |  UploadPackageFails:   |  NoConnection:        |  NoConnection: abandoned
      +-> refused              +-> abandoned

with a failure at each step and the clean-up that the code does for it. An import that ends in
`refused` has sent nothing or has passed a `catch` that deletes its objects (`Undo`), each deletion
of which may fail; in `abandoned` it has not: no code deletes its objects after an empty
`problem.md`, when no id can be asked for, or when `import_problem` gets no connection. `row` is
`problem_testcases` with the place of its files and their hashes, `object` the object storage,
`staged` the staging directory. `Create`, `Renumber` and `Delete` are the other handlers; keys do
not follow a renumbering. `contested`, `failed`, `lost` and `left` are history: uploads that got
into each other's way, uploads that ended in an error, commits whose answer was lost, imports whose
objects could not all be deleted. A deletion may also fail when an upload is withdrawn. One test
case per problem is enough for two uploads to share keys; a file's write is atomic; the foreign key
that keeps a problem of an assignment is in `Assignments`.

### Assignments and the code

    reader:     new --Get--> done | missed --LoadRow--> half --Load--> loaded --Fill--> done
    edit:       new --Compare--> compared --LockForUpdate--> updating --Update--> deleting --Del--> ... done
                new --LockForAdd--> adding --Add--> deleting;   new --Create, Title, Delete, Renumber--> deleting
                updating, adding --RollBack--> done;   any commit whose answer is lost --> done, without Del
    submission: new --Look--> looked --CheckSubmission--> checked --Enter--> done

A request carries what it has read in its record, so a stale value is visible in the state. `lock`
is the `SELECT ... FOR UPDATE` of the assignment's row. `Compare` reads without it: only the fields
that differ from what it read are asked for, and `Allowed` decides on the row as locked. `cache`
holds the three Redis keys; every edit deletes some of them after its commit, one by one. When the
commit takes effect and then throws (its answer is lost, or `setAutoCommit(true)` fails), the route
answers 400 and deletes none of them (`Committed`): these keys are `excused`. The
catalogue's edits delete the list of problems and not the detail of the assignment, so `excused`
names the detail after them: a known limit of the code, not a hidden one.

Abstractions: one assignment, whose title and description are left out; an alias is a problem's
place; the second connection that checks for duplicates is part of `Add`; lock waits of InnoDB other
than the row lock are left out. `Expire` is the TTL; it may happen at any time or never.

## 3. Runs

| Run | Bounds | Shows |
|---|---|---|
| `Pipeline` | 2 submissions, 4 messages, 2 in flight, 1 retry; 1 crash, 1 lost connection, 1 deletion | types, `NoTaskLost`, `NoDeliveryLeaks`, `DeadLettersAreEarned`, `DeadLetteredIsSettled`, `OnlySubmitReopens`, `VerdictChangeNeedsCopy` |
| `PipelineLive` | 1 submission, 3 messages, 1 in flight; crash, SIGTERM, MySQL error, failed and lost publish once each | `ImplementsContract`: safety and liveness of the contract |
| `WorkerPool` | 3 workers, 2 calls, cooldown 2, read timeout 3 | types, `TurnsAreShared`, `GivesUpHonestly`, `CallsReturn` |
| `JudgeWorker` | 3 requests of which 2 come: 2 of a submission that is right on its first case and hangs on its second, 1 of a right one; the same data; 1 fault | types, `VerdictIsDeserved`, `AcceptanceIsEarned`, `OnlyVerifiedData`, `RequestsReturn` |
| `Leaderboard` | 2 users, 2 submissions of one of them for one problem, the second in the last second; 1 failure | types, `StatsCurrent`, `NothingInvented`, `StalenessEnds` |
| `LeaderboardPages` | 2 users with a submission each; 1 failure | `BoardIsWhole` |
| `AssistantJobs` | 2 jobs in one conversation, one of them polled, a history of 1 round, 2 progress events, 1 fault | types, `SeenRoundsAreKnown`, `ReadsInOrder`, `NeverSilent`, `NoAnswerLost`, `PageEnds` |
| `ChatGraph` | 2 tool calls, 2 renewed waits in each, 2 deltas, the timeouts scaled down | types, `AnswersInTime`, `StoredAnswerIsFaithful` |
| `ProblemStore` | 2 problem ids, 2 uploads, 2 imports, 2 edits, 1 fault | types, `RowsKeepTheirFiles`, `PairIsNeverMissed`, `FailedImportsLeaveNothing` |
| `Assignments` | 3 problem ids, 2 edits, 1 reader or 1 submission, clock to 2, 1 fault | types, `NoAddCollides`, `StaleOnlyByRace`, `SubmissionsBelong`, `WindowOnlyGrows` |
| `FinalStatusIsFinal` | 2 submissions, 3 messages, no fault | violated: submit()'s last write replaces a verdict by QUEUED |
| `RenumberingIsSafe` | 2 problem ids, 4 uploads, 2 edits, no fault, one request at a time | violated: a renumbered problem's files are overwritten by its successor's |

The bounds are the smallest where the hazards occur.

* Pipeline: two copies of a task judged at the same time need two futures, a retry that overlaps a
  redelivery needs one retry and one crash, a requeued delivery that meets the other submission
  needs two. `Verdicts` has one member because the outcomes SYSTEM_ERROR and NOT_FOUND already
  differ from it.
* Pool: three workers and two calls for a call to skip a worker another one has taken; the read
  timeout is longer than the cooldown, as in the code (30 s and 10 s).
* Worker: two of three requests come, so that either two of one submission meet in its directory or
  two of different submissions in the cache. The program that is right on its first case and hangs
  on its second is what a shared directory could get accepted: the output of the one case is the
  expected output of the other, a disturbed run may end before it would hang, and its first status
  differs from its last. The other one must be accepted. One fault may be an overwritten object, a
  failed download or a crash. Three requests at once are covered by the proofs.
* Leaderboard: a second submission for two transactions that recompute the same rows, a second user
  for a partly filled sorted set, one in its last second for the window's end. One failure may be a
  rollback, a commit whose answer is lost, any Redis call, a crash of either process, or a second
  delivery. `Weight` is 10, above any penalty of these runs.
* Assistant: two jobs of one conversation for two numbers computed at the same time and for a
  question asked after an answer was seen; a history of one round so that a conversation of two
  exceeds it, as one of nine does the code's eight; two progress events so that a poll can divide a
  log in its middle.
* Agent: the scaled values keep the order of the real ones; the planner's timeout and the idle limit
  are, as in the code, no multiples of their heartbeats, so that the last wait is a shortened one
  and a stall is noticed late. Two renewed waits can be in one phase of a tool or in two.
* Problem store: two uploads meet as two halves or as the same half twice; two ids are what a
  renumbering needs, and two imports compete for one. Four uploads, for the violation, are two
  complete test cases.
* Assignments: two edits for a form that is overtaken by another and for two additions; three ids so
  that one can be renumbered while two are in the assignment; three ends for two extensions in the
  wrong order. A behaviour begins without the assignment, before its start, or at the start of one
  that ends early, instead of in all initial states; a reader and a submission change nothing the
  other reads, so one of them is enough (`Apart`).

Deadlock is checked for the pool and the agent's graph, which ends in `Ended`. It is not checked for
the others: when every submission, upload or request is done they rightly wait for work that does
not come.

### Fairness

The main thread, the judging threads, the broker's timers and the restart of the process (`restart:
unless-stopped` in the compose file) are weakly fair. `Consume` and `Collect` are enabled only when
the main thread is at the top of its loop, but each turn scans all pending futures and takes the
messages of a queue in order, so each is strongly fair per message. Requests are not fair: nobody
has to submit, and a handler may die. Faults are never fair, and each kind is bounded by the budget.

In the pool, time passes and the threads run; a waiting thread is weakly fair because its receive
ends in an answer or in the socket timeout. `Begin` is not fair.

At the leaderboard, a transaction and a page that have begun go on (each writer and the page are
weakly fair, which also stands for lock waits that end) and an expiry passes. Nobody has to submit,
no verdict has to come and no page is asked for. `StalenessEnds` speaks of behaviours without
failures: one crash between ZADD and EXPIRE, or one failed EXPIRE, leaves a sorted set for ever.

A request in judge_worker that has begun goes on: its thread is scheduled, the compiler has a CPU
limit and `mc` ends. That a program may hang is part of `RequestsReturn`: `KillChild` is the
deadline. A page that polls keeps polling and time passes; of the job's thread nothing is assumed,
because it waits for a stream that may go on for any time, so `PageEnds` rests on the expiry alone.
`ProblemStore`, `Assignments` and `ChatGraph` state safety only: their bounds on time are
invariants.

### Findings

1. `judge_service.cpp:132` writes QUEUED after the publish, over whatever the dispatcher has written
   meanwhile, a verdict included (README.md:329 promises QUEUED, RUNNING, final): run
   `FinalStatusIsFinal`.
2. `problem_repository.cpp:148` renumbers a problem, and its comment (line 131) calls that safe. The
   keys of uploaded test files are made of the problem's id and do not follow. When the old number
   is given to a new problem, its uploads overwrite the files of the renumbered one, whose hashes no
   longer match: run `RenumberingIsSafe`.

Known limits of the code that the models carry, without a run against them:

* `main.cpp:274` of the dispatcher calls the second load idempotency protection; it does not protect
  against two deliveries in flight (a crash between publishing a retry and its ack makes two).
  `main.cpp:346` treats a MySQL error as an invalid task and may leave the row QUEUED for ever.
  `rabbitmq_client.cpp:394` swallows the loss of the connection and nothing reconnects; the 30 s
  heartbeat is not served while `main()` sleeps because all workers are busy.
* `WorkerPool::judge` counts tries and not workers, so a call slower than the cooldown may try a
  failed worker twice and give up without having tried an available one. `GivesUpHonestly` is stated
  for quicker calls for that reason.
* `assignment_leaderboard_repository.cpp:186` takes the order from Redis and the numbers from MySQL,
  so a page may be unsorted (`web/assignment-leaderboard.js:65`) until the stale set expires; each
  later verdict renews that.
* Two requests of one submission share a work directory: the first may be answered with a compile
  error or a wrong answer it does not deserve (`VerdictIsDeserved` excepts them,
  `AcceptanceIsEarned` does not). When they run the same case at the same time they share
  `run.stdin.txt` and `run.stdout.txt` too, and a program that ends early on a truncated input may
  find the expected output of the other's run: `AcceptanceIsEarned` excepts these.
* A job that failed after its commit reports an error although the round is stored
  (`CommitThenThrow`); an error of the agent is two error events; questions asked in parallel do not
  know each other's answers; a thread catches only `std::exception`; a hung job that nobody polls is
  never removed.
* The agent's waits add up to 223 s without tools (28 for the plan, 150 for the stream, 45 for the
  fallback), within the 240 s after which oj_server gives up a job. Tools have no limit: a call of
  `generate_and_run_code` may add 175 s in silence when each peer takes one step to connect and one
  to answer (5 + 15 for oj_server, 60 + 60 for the model, 5 + 30 for judge_worker), and another
  timeout for every further step or part, more than the 60 s that `OJ_AGENT_READ_TIMEOUT_MS`
  defaults to (the compose file sets 180 s). Deltas reach the reader before the safety check; only
  the stored answer is checked.
* A commit whose answer is lost makes the importer delete the objects of rows that exist. Objects of
  deleted problems and files left in the staging directory are never removed, nor are the objects of
  an import that ends with an empty `problem.md`, without an id or without a connection, or whose
  deletions fail.
* A reader may fill a cache after the edit deleted it, a failing `del` is swallowed, a commit whose
  answer is lost and a restart after a commit leave the cache as it was, and the detail of an
  assignment keeps a problem's old title until its TTL: `StaleOnlyByRace` says that there is no
  other way. Submissions after the end are accepted.
* From the ninth round on a question does not take the oldest rounds of its conversation along
  (`SeenRoundsAreKnown` is stated down to the oldest there is room for).

## 4. Proofs

`JudgePipelineProofs` proves, for every set of submissions and messages, every retry limit, number
of workers and fault budget (`PipelineAssumption`, evaluated by TLC in each run):

* `TypeCorrect`: `Spec => []TypeOK`;
* `TasksKept`: `Spec => []NoTaskLost`;
* `DeliveriesOwned`: `Spec => []NoDeliveryLeaks`;
* `ReopensOnlyFromSubmit`: `Spec => OnlySubmitReopens`;
* `DeadLettersEarned` and `DeadLetteredSettled`: `Spec => []DeadLettersAreEarned` and
  `Spec => []DeadLetteredIsSettled`;
* `VerdictsChangeByCopies`: `Spec => VerdictChangeNeedsCopy`;
* `PipelineKeepsContract`: `Spec => Contract!Moves`, the safety half of `ImplementsContract`.

All follow from `Inductive`, `Spec => []IInv`. None of the properties is inductive: that an ack
loses nothing needs to know what was committed or published before it (`CoverInv`), that needs the
delivery in hand to exist and to match its future (`LoopInv`), that it is still unacknowledged
unless the connection is gone (`OwnerInv`), and that nobody settles the submission between the load
that saw it unsettled and the write of RUNNING, which holds because only a handler whose publish
failed writes SYSTEM_ERROR and then no message exists (`OrderInv`). One lemma per conjunct
(`TypeStep` to `CoverStep`) has one step per action. Queues enter the proofs through a few lemmas on
what moving, requeueing and publishing a message keep.

The last two lines need more than `IInv`, and only of runs without certain faults. While MySQL has
not failed and nothing was deleted (`Calm`), every task has its row, so no load or save throws,
nothing is rejected, and only exhausted tasks, marked as dead before, are dead-lettered
(`CalmInductive`). While nothing crashed and no connection was lost (`Steady`), a submission has one
message, or two between the publish of a retry and the ack, and the row of what is being judged is
not terminal, so a result is never saved over another (`SoleInductive`).

The refinement needs little of the invariant: its types, that the delivery in hand is one whose task
was published (`LoopInv`, `OrderInv`); and besides that a submission which its handler has not
published yet is not settled (`FreshInv`). Every step of any process touches one submission at most
and only adds to `enqueued`, `settled`, `vanished` and `dead` (`StepTouches`, one case per action);
and whatever touches one submission that way is a move of the contract or a stutter (`TouchMoves`,
by the values of `PhaseOf` before and after).

`WorkerPoolProofs` proves for every number of workers and calls, every cooldown and timeout
(`WorkerPoolAssumption`): `PoolTypeCorrect`, `CallsAreBounded`, `TurnsShared` and `HonestGivingUp`,
all from `PoolInductive`. The bound on a call follows from the stronger `elapsed <= attempt *
ReadTimeout + waited`; that a quick call gives up honestly from: the workers it failed on are still
cooling, and they are as many as its tries, so when the tries are used up every worker was tried;
the fair rotation from: workers before the index have had one turn more than those from the index
on, until the first failure.

`LeaderboardProofs` proves for all users, problems, submissions and times and any number of failures
(`LeaderboardAssumption`): `StatsAreCurrent`, `RanksAreCurrent`, `ScoresAreCommitted`,
`BoardsAreWhole` and `BoardTypes`, all from `BoardInductive`; `ScoreOrders`, that the encoded score
orders as the page promises while penalties stay below the weight; and `SolvingPays`, that a newly
solved problem raises the score by the weight less its penalty. That the statistics are current is
not inductive: a commit writes numbers computed earlier. They are still right because the holder of
the assignment's row is the only one (`LockInv`) and every save of the assignment takes that row
before it commits, so what the holder has found stays equal to a recomputation (`ViewInv`). That
Redis holds only committed scores needs the same of every score on its way (`ScoreInv`); that a page
is whole, that ranks are never removed (`PageInv`). The types need that a delivery stays until its
verdict has been committed (`CopiesInv`), and that the sum of the penalties is a number and moves by
what one row moves (`SumIsNatural`, `SumUpdated`).

`JudgeWorkerProofs` proves for all requests, programs, data and numbers of faults
(`JudgeWorkerAssumption`) every safety property of the worker. `ProgramsRunOnVerifiedData` follows
from `DataInductive`: a file that a request is reading is verified in the cache unless somebody has
put other data there; who removes a file has found it damaged, so it was not the verified one, and
who downloads other data is recorded in `replaced`; a request past its first half has the right
input (`DataInv`). `WorkerTypes`, `AcceptancesAreEarned` and `VerdictsAreDeserved` follow from
`WorkerInductive`, which adds two arguments.

* An acceptance is earned even among requests that share a directory, as long as no two run the same
  case at once. A binary there was compiled from the submission's own source (`CompiledInv`). Two
  that are between `OpenInput` and `Collect` of one case are in `shared` (`SharingInv`), so the
  files of a case that is not shared are private in between, although the directory may be removed
  and made anew: the input that is opened is the whole input, nobody truncates it, and what is found
  in the output is what this program writes for it, or nothing (`PrivateInv`). Hence every case
  counted as OK deserves it (`EarnedInv`).
* A request that meets no other of its submission gets exactly its verdict: two in flight at once
  have met (`AloneInv`), so nobody else touches its directory and it is found as it was left, and
  the statuses so far are the deserved ones (`WholeInv`). Only a fault makes the cache or MinIO
  wrong (`FaultlessInv`), and then the request throws: SYSTEM_ERROR.

`SummaryIsFirstFailure` says what `Summary`, a fold over the statuses, computes for any number of
cases: the first that is not OK.

The library's induction theorems cannot be used, but its theorems that `<` on numbers and strict
inclusion on finite sets are well-founded can: a set of counterexamples that is not empty has a
least member (`LeastNumber`, `LeastSubset`). The folds of the community modules are a `CHOOSE` of a
function on subsets, so a fold is shown to be the intended function by exhibiting one that satisfies
its equation and showing that two that do cannot differ at a least subset. Thus the sums of
`Leaderboard` and the summary of `JudgeWorker` are inside the proofs.

`AssistantJobsProofs` proves for all jobs and conversations (`JobsAssumption`) `JobsTypeCorrect`,
`RoundsNumbered`, `AnswersAreKept`, `PagesReadInOrder`, `PagesAreTold` and `HistoriesAreComplete`,
from `JobsInductive`. The row lock keeps a computed number the next one (`NumberInv`), so the unique
key never refuses a round and an answer is lost only to a failure (`StoredInv`). A done event
implies a stored round, and a thread that has ended or a done flag implies a terminal event in the
log (`LogInv`), so a page that has handled only progress (`PageInv`) finds the terminal event with
the flag. What was seen as done was stored before the history was read (`HistoryInv`), and because
the rounds are numbered without gaps, one that is not among the last `HistoryRounds` is older than
all of them (`RecentOrOlder`).

`ChatGraphProofs` proves for all timeouts and bounds (`ChatAssumption`) `AnswersComeInTime`,
`StoredAnswerFaithful` and `GraphTypeCorrect`. Time is inductive as sums (`TimeInductive`): in a
phase that the graph bounds `since + wait` stays within its limit and `silence + wait` within the
heartbeat; in a tool, which has no limit, `since + wait` stays within the timeouts of the clients it
has reached and the longest timeout for each renewed wait (`CallingInv`); a stall is looked at
whenever a heartbeat ends. Until the end, what is shown is what is collected.

`ProblemStoreProofs` proves for all ids, uploads and imports and any number of edits and faults
(`StoreAssumption`) `StoreTypeCorrect`, `RowsAreBacked`, `PairsAreSeen` and `RefusedImportsVanish`,
from `StoreInductive`. An uncontested upload that has begun to send is the only one at its keys, the
staged files are the hashed ones or gone, and no row is there yet (`SendInv`); a complete pair has
an upload that will still see it, or a failed one (`PairInv`); an import has its objects until it
ends, nobody else deletes them, and a row only once it is done (`ImportInv`), so a failed one has a
row only when its commit took effect (`lost`) and, refused, only objects whose deletion failed
(`left`).

`AssignmentsProofs` proves for all ids, edits, readers and submissions and any time
(`AssignmentsAssumption`) `AddsNeverCollide`, `SubmissionsStayInPlace`, `WindowsOnlyGrow` and
`StaleOnlyByRaces`, from `AssignmentsInductive`, and `AssignmentsTypeCorrect`. What an edit has
checked under the row lock is still true when it writes (`HolderInv`); a submission's problem, once
checked, stays in the assignment unless it was renumbered under it (`EntryInv`); a copy that is
stale belongs to a key some edit has still to delete, or is excused (`StaleInv`): every commit
either leads to the deletions or, its answer lost, excuses the keys (`Committed`). A list that is
added to or renamed in stays without repetition, so it is no longer than there are problems
(`TypeInv`).

Model-checked only: liveness, which is outside the prover's reach (`CallsReturn`, `StalenessEnds`,
`RequestsReturn`, `PageEnds`, and of `ImplementsContract` the fairness half, that accepted jobs do
not wait for ever). Every invariant and every action property that a passing run checks is also
proved. `CallIsBounded`, `RankCurrent` and `RoundsAreNumbered` are proved and need no run.

## 5. Not modelled

* `AuthService`, HTTP parsing, JSON and SQL text, password hashing: encodings and single statements.
* The MySQL pool: every repository object makes its own and uses it from one thread, so neither its
  limit nor its waiting is ever reached.
* go_monitor: probes and a summary without state, except for a Redis client that the first probe
  makes without a lock.
* The web pages other than the assistant's polling and the leaderboard, the migrator, prompts and
  retrieval: no state that others rely on.
* Edits of statements and limits, which nothing modelled reads; numbered cases beyond the first.
* The submission id that `generate_and_run_code` takes from the clock, in the same namespace as the
  ids of rows; that the ids do not meet is assumed.
