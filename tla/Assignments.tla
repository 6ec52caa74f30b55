---------------------------- MODULE Assignments ----------------------------
(***************************************************************************)
(* Assignments and the catalogue of problems: administrators create,       *)
(* edit and extend an assignment and edit problems, students hand in       *)
(* submissions for it, and readers are served from Redis copies that the   *)
(* edits delete.                                                           *)
(*                                                                         *)
(* One assignment; an alias is the place of a problem in it, as the        *)
(* handlers never send one; titles and texts stand for themselves only     *)
(* where a copy shows them.                                                *)
(***************************************************************************)
EXTENDS Integers, FiniteSets, Sequences, SequencesExt

CONSTANTS
    Ids,            \* problem ids
    Titles,         \* titles of problems
    Edits,          \* requests of administrators
    Readers,        \* requests for a list or the detail
    Subs,           \* submissions for the assignment
    Nothing,        \* no row, copy or request
    MaxTime,        \* the clock stops here; assignments may end one later
    MaxFaults       \* failures of Redis or MySQL and restarts of oj_server

ASSUME AssignmentsAssumption ==
    /\ IsFiniteSet(Ids)
    /\ Edits \cap Readers = {} /\ Subs \cap (Edits \cup Readers) = {}
    /\ Nothing \notin Ids \cup Titles \cup Edits \cup Readers \cup Subs
    /\ Nothing \notin [start : Nat, end : Nat, items : Seq(Ids)]
    /\ MaxTime \in Nat \ {0} /\ MaxFaults \in Nat

VARIABLES
    now,
    problems,       \* table problems: the title of an id
    assignment,     \* its row and assignment_problems
    lock,           \* who holds the row (SELECT ... FOR UPDATE)
    cache,          \* Redis
    request,        \* where a request is and what it has read
    entered,        \* table submissions: the problem of a submission
    excused,        \* history: keys whose copy may be stale and no edit will delete it
    overtaken,      \* history: submissions whose problem was renumbered under them
    faults

tables == <<problems, assignment, entered>>
histVars == <<excused, overtaken>>
vars == <<now, tables, lock, cache, request, histVars, faults>>

Requests == Edits \cup Readers \cup Subs
Keys == {"problems", "list", "detail"}

\* A list of distinct problems, as the requests carry it.
Selections == {s \in SeqOf(Ids, Cardinality(Ids)) : IsInjective(s) /\ s # <<>>}
Starts == 0..MaxTime - 1
Ends == 1..MaxTime + 1
Windows == [start : Starts, end : Ends]
Rows == [start : Starts, end : Ends, items : Selections]

New == [at |-> "new"]
Done == [at |-> "done"]
At(r) == request[r].at
Become(r, next) == request' = [request EXCEPT ![r] = next]
Spend == faults < MaxFaults /\ faults' = faults + 1

Existing == {p \in Ids : problems[p] # Nothing}
Valid(row) == row.start < row.end /\ Range(row.items) \subseteq Existing

Init ==
    /\ now = 0
    /\ problems \in [Ids -> Titles \cup {Nothing}]
    /\ assignment = Nothing \/ (assignment \in Rows /\ Valid(assignment))
    /\ lock = Nothing
    /\ cache = [k \in Keys |-> Nothing]
    /\ request = [r \in Requests |-> New]
    /\ entered = [s \in Subs |-> Nothing]
    /\ excused = {} /\ overtaken = {}
    /\ faults = 0

\* What the endpoints make of the tables.
Summary ==
    IF assignment = Nothing THEN <<>>
    ELSE <<assignment.start, assignment.end, Len(assignment.items)>>
Detail(row) ==
    <<row.start, row.end,
      [i \in DOMAIN assignment.items |-> <<assignment.items[i], problems[assignment.items[i]]>>]>>

\* What a reader would be shown after reading the tables now.
Current(k) ==
    CASE k = "problems" -> problems
      [] k = "list" -> Summary
      [] k = "detail" -> IF assignment = Nothing THEN Nothing ELSE Detail(assignment)

-----------------------------------------------------------------------------
(* GET /api/problems, /api/assignments, /api/assignments/<id>: from the     *)
(* cache, or from the database and then into the cache.                    *)

\* A hit is served at once; a failed get counts as a miss.
Get(r, k) ==
    /\ At(r) = "new"
    /\ \/ cache[k] # Nothing /\ Become(r, Done) /\ UNCHANGED faults
       \/ cache[k] = Nothing /\ Become(r, [at |-> "missed", key |-> k]) /\ UNCHANGED faults
       \/ cache[k] # Nothing /\ Become(r, [at |-> "missed", key |-> k]) /\ Spend
    /\ UNCHANGED <<now, tables, lock, cache, histVars>>

\* find_assignment_detail reads the assignment first; 404 is not kept.
LoadRow(r) ==
    /\ At(r) = "missed" /\ request[r].key = "detail"
    /\ Become(r, IF assignment = Nothing THEN Done
                 ELSE [at |-> "half", key |-> "detail", row |-> assignment])
    /\ UNCHANGED <<now, tables, lock, cache, histVars, faults>>

\* Then its problems; the lists are one query.
Load(r) ==
    /\ At(r) = "half" \/ (At(r) = "missed" /\ request[r].key # "detail")
    /\ LET k == request[r].key
       IN  Become(r, [at |-> "loaded", key |-> k,
                      body |-> IF k = "detail" THEN Detail(request[r].row) ELSE Current(k)])
    /\ UNCHANGED <<now, tables, lock, cache, histVars, faults>>

\* setex, which may fail unnoticed.
Fill(r) ==
    LET k == request[r].key
        body == request[r].body
    IN  /\ At(r) = "loaded"
        /\ Become(r, Done)
        /\ \/ /\ cache' = [cache EXCEPT ![k] = body]
              /\ excused' = IF body = Current(k) THEN excused \ {k} ELSE excused \cup {k}
              /\ UNCHANGED faults
           \/ Spend /\ UNCHANGED <<cache, excused>>
        /\ UNCHANGED <<now, tables, lock, overtaken>>

Reader(r) == (\E k \in Keys : Get(r, k)) \/ LoadRow(r) \/ Load(r) \/ Fill(r)

\* The copy of a key has a time to live.
Expire(k) ==
    /\ cache[k] # Nothing
    /\ cache' = [cache EXCEPT ![k] = Nothing]
    /\ excused' = excused \ {k}
    /\ UNCHANGED <<now, tables, lock, request, overtaken, faults>>

-----------------------------------------------------------------------------
(* POST /api/admin/assignments, PATCH and POST .../problems.                *)

\* Mutant of AssignmentKeys: the detail is forgotten.
ListOnly == <<"list">>

\* invalidate_assignment_cache
AssignmentKeys == <<"list", "detail">>

Deleting(todo) == IF todo = <<>> THEN Done ELSE [at |-> "deleting", todo |-> todo]

\* The copies are deleted, unless commit() or setAutoCommit(true) throws after all:
\* then the answer is 400 and nothing more is done.
Committed(e, todo, spared) ==
    \/ /\ Become(e, Deleting(todo))
       /\ excused' = excused \cup spared
       /\ UNCHANGED faults
    \/ /\ Spend
       /\ Become(e, Done)
       /\ excused' = excused \cup spared \cup Range(todo)

\* create_assignment: the row and its problems in one transaction.
Create(e, window, items) ==
    LET row == [start |-> window.start, end |-> window.end, items |-> items]
    IN  /\ At(e) = "new"
        /\ assignment = Nothing
        /\ Valid(row)
        /\ assignment' = row
        /\ Committed(e, AssignmentKeys, {})
        /\ UNCHANGED <<now, problems, lock, cache, entered, overtaken>>

\* PATCH reads the assignment without a lock; nothing to change is no update, but
\* the copies are deleted all the same.
Compare(e, window) ==
    /\ At(e) = "new"
    /\ assignment # Nothing
    /\ Become(e, IF window.start = assignment.start /\ window.end = assignment.end
                 THEN Deleting(AssignmentKeys)
                 ELSE [at |-> "compared", row |-> assignment, window |-> window])
    /\ UNCHANGED <<now, tables, lock, cache, histVars, faults>>

\* Mutant of RowFree: the row is read without FOR UPDATE.
RowNotLocked == TRUE

RowFree == lock = Nothing

\* Mutant of Old: what PATCH compared with is what the row still holds.
AsCompared(e) == request[e].row

\* The row as SELECT ... FOR UPDATE returns it.
Old(e) == assignment

\* Only the fields that differed are asked for.
Asks(e, field) == request[e].window[field] # request[e].row[field]
NewValue(e, field, old) == IF Asks(e, field) THEN request[e].window[field] ELSE old[field]

\* Mutant of Allowed: a start is any time before the end.
StartMoves(e) ==
    /\ Asks(e, "end") => request[e].window.end > Old(e).end
    /\ NewValue(e, "start", Old(e)) < NewValue(e, "end", Old(e))

\* A start may change only before it comes and only to an earlier one, an end only
\* to a later one.
Allowed(e) ==
    /\ Asks(e, "start") => now < Old(e).start /\ request[e].window.start < Old(e).start
    /\ Asks(e, "end") => request[e].window.end > Old(e).end
    /\ NewValue(e, "start", Old(e)) < NewValue(e, "end", Old(e))

LockForUpdate(e) ==
    /\ At(e) = "compared"
    /\ RowFree
    /\ IF Allowed(e)
       THEN Become(e, [request[e] EXCEPT !.at = "updating"]) /\ lock' = e
       ELSE Become(e, Done) /\ UNCHANGED lock
    /\ UNCHANGED <<now, tables, cache, histVars, faults>>

Update(e) ==
    /\ At(e) = "updating"
    /\ assignment' = [assignment EXCEPT !.start = NewValue(e, "start", assignment),
                                        !.end = NewValue(e, "end", assignment)]
    /\ lock' = Nothing
    /\ Committed(e, AssignmentKeys, {})
    /\ UNCHANGED <<now, problems, cache, entered, overtaken>>

\* Mutant of NextOrder: the last order in use.
LastOrder == Len(assignment.items)

\* COALESCE(MAX(display_order), 0) + 1
NextOrder == Len(assignment.items) + 1

\* add_assignment_problems takes the row, unless the assignment has ended.
LockForAdd(e, items) ==
    /\ At(e) = "new"
    /\ assignment # Nothing
    /\ RowFree
    /\ IF now > assignment.end
       THEN Become(e, Done) /\ UNCHANGED lock
       ELSE Become(e, [at |-> "adding", items |-> items, order |-> NextOrder]) /\ lock' = e
    /\ UNCHANGED <<now, tables, cache, histVars, faults>>

\* All problems are added or none: they exist and are new to the assignment; the
\* unique keys catch an order or an alias that is taken.
Add(e) ==
    LET items == request[e].items
    IN  /\ At(e) = "adding"
        /\ lock' = Nothing
        /\ IF ~ Range(items) \subseteq Existing \ Range(assignment.items)
           THEN Become(e, Done) /\ UNCHANGED <<assignment, excused, faults>>
           ELSE IF request[e].order <= Len(assignment.items)
           THEN Become(e, [at |-> "collided"]) /\ UNCHANGED <<assignment, excused, faults>>
           ELSE /\ assignment' = [assignment EXCEPT !.items = @ \o items]
                /\ Committed(e, AssignmentKeys, {})
        /\ UNCHANGED <<now, problems, cache, entered, overtaken>>

\* MySQL fails before the commit: rollback, and the answer is 400.
RollBack(e) ==
    /\ At(e) \in {"updating", "adding"}
    /\ Spend
    /\ lock' = Nothing
    /\ Become(e, Done)
    /\ UNCHANGED <<now, tables, cache, histVars>>

\* del of the next key, which may fail unnoticed.
Del(e) ==
    LET k == Head(request[e].todo)
    IN  /\ At(e) = "deleting"
        /\ Become(e, Deleting(Tail(request[e].todo)))
        /\ \/ /\ cache' = [cache EXCEPT ![k] = Nothing]
              /\ excused' = excused \ {k}
              /\ UNCHANGED faults
           \/ Spend /\ excused' = excused \cup {k} /\ UNCHANGED cache
        /\ UNCHANGED <<now, tables, lock, overtaken>>

-----------------------------------------------------------------------------
(* Edits of the catalogue; the copy of the detail is not deleted.           *)

\* The statement of an edit, then del of the list of problems.
Catalog(e) ==
    /\ At(e) = "new"
    /\ Committed(e, <<"problems">>, {"detail"})
    /\ UNCHANGED <<now, lock, cache>>

\* A new problem, or a new title of one.
Title(e, p, t) ==
    /\ Catalog(e)
    /\ problems' = [problems EXCEPT ![p] = t]
    /\ UNCHANGED <<assignment, entered, overtaken>>

\* No assignment may hold the problem (ON DELETE RESTRICT); its submissions go.
Delete(e, p) ==
    /\ Catalog(e)
    /\ p \in Existing
    /\ assignment # Nothing => p \notin Range(assignment.items)
    /\ problems' = [problems EXCEPT ![p] = Nothing]
    /\ entered' = [s \in Subs |-> IF entered[s] = p THEN Nothing ELSE entered[s]]
    /\ UNCHANGED <<assignment, overtaken>>

Renamed(p, q, x) == IF x = p THEN q ELSE x

\* ON UPDATE CASCADE of submissions
Follow(p, q) == [s \in Subs |-> Renamed(p, q, entered[s])]

\* update_problem_id: assignments and submissions follow, a request under way does not.
Renumber(e, p, q) ==
    /\ Catalog(e)
    /\ p \in Existing /\ q \notin Existing
    /\ problems' = [problems EXCEPT ![p] = Nothing, ![q] = problems[p]]
    /\ assignment' =
           IF assignment = Nothing THEN Nothing
           ELSE [assignment EXCEPT !.items = [i \in DOMAIN @ |-> Renamed(p, q, @[i])]]
    /\ entered' = Follow(p, q)
    /\ overtaken' = overtaken \cup
           {s \in Subs : At(s) = "checked" /\ request[s].problem = p}

Edit(e) ==
    \/ \E w \in Windows : Compare(e, w) \/ (\E items \in Selections : Create(e, w, items))
    \/ \E items \in Selections : LockForAdd(e, items)
    \/ LockForUpdate(e) \/ Update(e) \/ Add(e) \/ RollBack(e) \/ Del(e)
    \/ \E p, q \in Ids, t \in Titles : Title(e, p, t) \/ Delete(e, p) \/ Renumber(e, p, q)

-----------------------------------------------------------------------------
(* POST /api/submissions with an assignment_id.                             *)

\* find_assignment_detail: the row first.
Look(s, p) ==
    /\ At(s) = "new"
    /\ assignment # Nothing
    /\ Become(s, [at |-> "looked", problem |-> p, start |-> assignment.start])
    /\ UNCHANGED <<now, tables, lock, cache, histVars, faults>>

\* Then the problems, and the clock; the end does not matter.
CheckSubmission(s) ==
    LET p == request[s].problem
    IN  /\ At(s) = "looked"
        /\ Become(s, IF p \in Range(assignment.items) /\ now >= request[s].start
                     THEN [at |-> "checked", problem |-> p] ELSE Done)
        /\ UNCHANGED <<now, tables, lock, cache, histVars, faults>>

\* JudgeService::submit inserts the row; its foreign keys need the problem and a
\* shared lock of the assignment.
Enter(s) ==
    LET p == request[s].problem
    IN  /\ At(s) = "checked"
        /\ RowFree
        /\ entered' = [entered EXCEPT ![s] = IF p \in Existing THEN p ELSE Nothing]
        /\ Become(s, Done)
        /\ UNCHANGED <<now, problems, assignment, lock, cache, histVars, faults>>

Submission(s) == (\E p \in Ids : Look(s, p)) \/ CheckSubmission(s) \/ Enter(s)

-----------------------------------------------------------------------------

Tick ==
    /\ now < MaxTime
    /\ now' = now + 1
    /\ UNCHANGED <<tables, lock, cache, request, histVars, faults>>

Pending(k) == \E e \in Edits : At(e) = "deleting" /\ k \in Range(request[e].todo)

\* oj_server restarts: requests end where they are, the lock is released.
Restart ==
    /\ \E r \in Requests : At(r) \notin {"new", "done", "collided"}
    /\ Spend
    /\ request' = [r \in Requests |-> IF At(r) = "new" THEN New ELSE Done]
    /\ excused' = excused \cup {k \in Keys : Pending(k)}
    /\ lock' = Nothing
    /\ UNCHANGED <<now, tables, cache, overtaken>>

Next ==
    \/ \E r \in Readers : Reader(r)
    \/ \E k \in Keys : Expire(k)
    \/ \E e \in Edits : Edit(e)
    \/ \E s \in Subs : Submission(s)
    \/ Tick \/ Restart

Spec == Init /\ [][Next]_vars

-----------------------------------------------------------------------------

\* Types; the lock is with the transaction that will end it, and its order is next.
TypeOK ==
    /\ now \in 0..MaxTime
    /\ problems \in [Ids -> Titles \cup {Nothing}]
    /\ assignment # Nothing => assignment \in Rows /\ Valid(assignment)
    /\ \A e \in Edits : lock = e <=> At(e) \in {"updating", "adding"}
    /\ \A e \in Edits : At(e) = "adding" => request[e].order = Len(assignment.items) + 1
    /\ entered \in [Subs -> Ids \cup {Nothing}]
    /\ excused \subseteq Keys /\ overtaken \subseteq Subs
    /\ faults \in 0..MaxFaults

\* assignment_repository.cpp:530: two administrators who add problems at the same
\* time never trip over each other's orders and aliases.
NoAddCollides == \A e \in Edits : At(e) # "collided"

\* routes.cpp:57: between an edit's commit and its last del a copy may be stale; after
\* that only if a slow reader put it there, the answer of a commit or a del was lost,
\* oj_server restarted between the two, or a problem of the assignment was edited.
StaleOnlyByRace ==
    \A k \in Keys : cache[k] \notin {Nothing, Current(k)} /\ ~ Pending(k) => k \in excused

\* routes.cpp:1888: what counts for the assignment is for a problem of it and came
\* after its start, whatever is renumbered, deleted, added or moved later.
SubmissionsBelong ==
    \A s \in Subs : entered[s] # Nothing /\ s \notin overtaken =>
        /\ assignment # Nothing
        /\ entered[s] \in Range(assignment.items)
        /\ assignment.start <= now

\* assignment_repository.cpp:424: whoever has planned with the window of an assignment
\* keeps it: concurrent and outdated forms never start it later or end it earlier.
WindowOnlyGrows ==
    [][assignment # Nothing =>
           /\ assignment' # Nothing
           /\ assignment'.start <= assignment.start
           /\ assignment'.end >= assignment.end]_vars
=============================================================================
