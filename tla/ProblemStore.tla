---------------------------- MODULE ProblemStore ----------------------------
(***************************************************************************)
(* Where oj_server keeps problems and their test data: rows in MySQL,      *)
(* objects in the object storage, uploaded halves of a test case in a      *)
(* staging directory.  Administrators upload files one by one, import      *)
(* packages, create, renumber and delete problems, all at the same time.   *)
(*                                                                         *)
(* One numbered test case per problem; the content of an uploaded file is  *)
(* named by its upload, and a sha256 is the content it was taken of.       *)
(***************************************************************************)
EXTENDS Integers, FiniteSets

CONSTANTS
    Ids,            \* problem ids; the importer starts at the least
    Uploads,        \* POST .../testcases/file
    Imports,        \* POST /api/admin/problems/import
    Nothing,        \* no file, object or row
    MaxEdits,       \* problems created, renumbered or deleted in a behaviour
    MaxFaults       \* failures of storage or MySQL and restarts

ASSUME StoreAssumption ==
    /\ Ids \subseteq Nat \ {0} /\ IsFiniteSet(Ids)
    /\ Uploads \cap Imports = {} /\ Ids \cap Imports = {}
    /\ Nothing \notin Ids \cup Uploads \cup Imports
    /\ Nothing \notin [place : Ids \cup Imports, in : Uploads \cup Imports, out : Uploads \cup Imports]
    /\ MaxEdits \in Nat /\ MaxFaults \in Nat

VARIABLES
    problems,   \* the ids of table problems
    row,        \* problem_testcases: where the files are, and their hashes
    object,     \* the object storage
    staged,     \* the staging directory
    at,         \* where an upload or import is
    target,     \* its problem
    half,       \* the file an upload brings
    hash,       \* the hashes an upload has taken
    contested,  \* history: targets of uploads that got into each other's way
    failed,     \* history: targets of uploads that ended in an error
    lost,       \* history: where the answer to a commit was lost
    left,       \* history: imports whose objects could not all be deleted again
    edits, faults

handlerVars == <<at, target, half, hash>>
histVars == <<contested, failed, lost, left>>
boundVars == <<edits, faults>>
vars == <<problems, row, object, staged, handlerVars, histVars, boundVars>>

Halves == {"in", "out"}
Contents == Uploads \cup Imports
Ended == {"none", "staged", "appended", "imported", "refused", "abandoned", "dead"}

\* build_appended_testcase: keys made of the problem and the case; load_testcases:
\* a random prefix for each import.
Places == Ids \cup Imports
Keys == Places \X Halves
Rows == [place : Places, in : Contents, out : Contents]

ImportPlace(i) == i

Init ==
    /\ problems \in SUBSET Ids
    /\ row = [p \in Ids |-> Nothing]
    /\ object = [k \in Keys |-> Nothing]
    /\ staged = [p \in Ids |-> [f \in Halves |-> Nothing]]
    /\ at = [h \in Contents |-> "none"]
    /\ target = [h \in Contents |-> Nothing]
    /\ half = [h \in Uploads |-> "in"]
    /\ hash = [h \in Uploads |-> [f \in Halves |-> Nothing]]
    /\ contested = {} /\ failed = {} /\ lost = {} /\ left = {}
    /\ edits = 0 /\ faults = 0

Goto(h, where) == at' = [at EXCEPT ![h] = where]
Spend == faults < MaxFaults /\ faults' = faults + 1
Edit == edits < MaxEdits /\ edits' = edits + 1

Active(h) == at[h] \notin Ended
Others(h) == {g \in Uploads \ {h} : Active(g) /\ target[g] = target[h]}

\* Another upload is past the point where it saw the pair, or a row lives here.
Conflict(h) ==
    \/ \E g \in Others(h) : at[g] \notin {"checked", "written"}
    \/ \E p \in Ids : row[p] # Nothing /\ row[p].place = target[h]

Contest(h) == contested' = IF Conflict(h) THEN contested \cup {target[h]} ELSE contested

-----------------------------------------------------------------------------
(* append_testcase_file_body.                                              *)

\* The problem exists and the case does not.
Check(h, p, f) ==
    /\ at[h] = "none"
    /\ p \in problems /\ row[p] = Nothing
    /\ Goto(h, "checked")
    /\ target' = [target EXCEPT ![h] = p]
    /\ half' = [half EXCEPT ![h] = f]
    /\ UNCHANGED <<problems, row, object, staged, hash, histVars, boundVars>>

Stage(h) ==
    /\ at[h] = "checked"
    /\ staged' = [staged EXCEPT ![target[h]][half[h]] = h]
    /\ Goto(h, "written")
    /\ Contest(h)
    /\ UNCHANGED <<problems, row, object, target, half, hash, failed, lost, left, boundVars>>

Other(f) == IF f = "in" THEN "out" ELSE "in"

\* Mutant of Paired: the input is taken to arrive first.
PairedByOutput(h) == half[h] = "out" /\ staged[target[h]]["in"] # Nothing

Paired(h) == staged[target[h]][Other(half[h])] # Nothing

Look(h) ==
    /\ at[h] = "written"
    /\ Goto(h, IF Paired(h) THEN "paired" ELSE "staged")
    /\ UNCHANGED <<problems, row, object, staged, target, half, hash, histVars, boundVars>>

Fails(h) ==
    /\ Goto(h, "refused")
    /\ failed' = failed \cup {target[h]}

\* A file that is gone cannot be opened.
Hash(h) ==
    /\ at[h] = "paired"
    /\ IF Nothing \in {staged[target[h]][f] : f \in Halves}
       THEN Fails(h) /\ UNCHANGED hash
       ELSE /\ hash' = [hash EXCEPT ![h] = staged[target[h]]]
            /\ Goto(h, "hashed") /\ UNCHANGED failed
    /\ UNCHANGED <<problems, row, object, staged, target, half, contested, lost, left, boundVars>>

\* catch (...): what was uploaded is deleted again.
Withdraw(h, sent, gone) ==
    /\ object' = [k \in Keys |->
           IF k[1] = target[h] /\ k[2] \in gone THEN Nothing ELSE sent[k]]
    /\ Fails(h)

\* Mutant of UploadFails: an upload that fails is not noticed.
FailureIgnored(h, f, uploaded) ==
    /\ at[h] = IF f = "in" THEN "hashed" ELSE "halfway"
    /\ Spend
    /\ Goto(h, IF f = "in" THEN "halfway" ELSE "uploaded")
    /\ UNCHANGED <<problems, row, object, staged, target, half, hash, histVars, edits>>

Sent(h, f) == [object EXCEPT ![<<target[h], f>>] = staged[target[h]][f]]

\* The storage fails, before the file is stored or after, and perhaps again when
\* what was uploaded is deleted.
UploadFails(h, f, uploaded) ==
    /\ at[h] = IF f = "in" THEN "hashed" ELSE "halfway"
    /\ Spend
    /\ \E gone \in SUBSET uploaded :
           \/ Withdraw(h, object, gone) /\ UNCHANGED contested
           \/ /\ staged[target[h]][f] # Nothing
              /\ Withdraw(h, Sent(h, f), gone) /\ Contest(h)
    /\ UNCHANGED <<problems, row, staged, target, half, hash, lost, left, edits>>

\* The staged file is sent as it is now.
Upload(h, f, uploaded) ==
    /\ at[h] = IF f = "in" THEN "hashed" ELSE "halfway"
    /\ Contest(h)
    /\ IF staged[target[h]][f] = Nothing
       THEN Withdraw(h, object, uploaded)
       ELSE /\ object' = Sent(h, f)
            /\ Goto(h, IF f = "in" THEN "halfway" ELSE "uploaded")
            /\ UNCHANGED failed
    /\ UNCHANGED <<problems, row, staged, target, half, hash, lost, left, boundVars>>

\* Mutant of NewRow: the hashes are taken when the row is written.
HashedLate(h) ==
    [place |-> target[h], in |-> staged[target[h]]["in"], out |-> staged[target[h]]["out"]]

NewRow(h) == [place |-> target[h], in |-> hash[h]["in"], out |-> hash[h]["out"]]

\* UNIQUE (problem_id, case_no) and the foreign key decide.
Insertable(h) == target[h] \in problems /\ row[target[h]] = Nothing

Insert(h) ==
    /\ at[h] = "uploaded"
    /\ IF Insertable(h)
       THEN /\ row' = [row EXCEPT ![target[h]] = NewRow(h)]
            /\ Goto(h, "inserted")
            /\ UNCHANGED <<object, failed>>
       ELSE Withdraw(h, object, Halves) /\ UNCHANGED row
    /\ UNCHANGED <<problems, staged, target, half, hash, contested, lost, left, boundVars>>

\* The connection fails, before the row is inserted or after, and perhaps the storage.
InsertFails(h) ==
    /\ at[h] = "uploaded"
    /\ Spend
    /\ \/ UNCHANGED row
       \/ Insertable(h) /\ row' = [row EXCEPT ![target[h]] = NewRow(h)]
    /\ lost' = lost \cup (IF row' = row THEN {} ELSE {target[h]})
    /\ \E gone \in SUBSET Halves : Withdraw(h, object, gone)
    /\ UNCHANGED <<problems, staged, target, half, hash, contested, left, edits>>

CleanUp(h) ==
    /\ at[h] = "inserted"
    /\ staged' = [staged EXCEPT ![target[h]] = [f \in Halves |-> Nothing]]
    /\ Goto(h, "appended")
    /\ UNCHANGED <<problems, row, object, target, half, hash, histVars, boundVars>>

UploadStep(h) ==
    \/ \E p \in Ids, f \in Halves : Check(h, p, f)
    \/ Stage(h) \/ Look(h) \/ Hash(h) \/ Insert(h) \/ InsertFails(h) \/ CleanUp(h)
    \/ Upload(h, "in", {}) \/ UploadFails(h, "in", {})
    \/ Upload(h, "out", {"in"}) \/ UploadFails(h, "out", {"in"})

-----------------------------------------------------------------------------
(* import_zip_body: the files of a package are uploaded, an id is chosen,   *)
(* the problem is inserted in one transaction.                             *)

\* The object storage when the import has just these objects.
Objects(i, files) ==
    [k \in Keys |-> IF k[1] # ImportPlace(i) THEN object[k]
                    ELSE IF k[2] \in files THEN i ELSE Nothing]

\* load_testcases: the files of the package go to the object storage.
UploadPackage(i) ==
    /\ at[i] = "none"
    /\ object' = Objects(i, Halves)
    /\ Goto(i, "uploaded")
    /\ UNCHANGED <<problems, row, staged, target, half, hash, histVars, boundVars>>

\* A package without its files, or with a half of a test case, is refused unread.
Malformed(i) ==
    /\ at[i] = "none"
    /\ Goto(i, "refused")
    /\ UNCHANGED <<problems, row, object, staged, target, half, hash, histVars, boundVars>>

\* Mutant of Undo: the rollback of the rows is thought to be enough.
UndoRowsOnly(i, kept) == Goto(i, "refused") /\ UNCHANGED <<object, left>>

\* catch (...): the objects are deleted, but for those whose deletion fails.
Undo(i, kept) ==
    /\ Goto(i, "refused")
    /\ object' = Objects(i, kept)
    /\ left' = IF kept = {} THEN left ELSE left \cup {i}

\* The storage fails: an object stays when its deletion fails too, or when it was
\* stored and only the answer lost.
UploadPackageFails(i) ==
    /\ at[i] = "none"
    /\ Spend
    /\ \E kept \in SUBSET Halves : Undo(i, kept)
    /\ UNCHANGED <<problems, row, staged, target, half, hash, contested, failed, lost, edits>>

\* The import ends where nothing deletes its objects.
Abandon(i) ==
    /\ Goto(i, "abandoned")
    /\ UNCHANGED <<problems, row, object, staged, target, half, hash, histVars, edits>>

\* An empty problem.md is noticed after the upload.
EmptyStatement(i) == at[i] = "uploaded" /\ Abandon(i) /\ UNCHANGED faults

\* MySQL cannot be asked for an id, or not be reached by import_problem.
NoConnection(i) == at[i] \in {"uploaded", "allocated"} /\ Spend /\ Abandon(i)

\* allocate_problem_id: the least free id, on a connection of its own.
Allocate(i) ==
    /\ at[i] = "uploaded"
    /\ \E p \in Ids \ problems :
           /\ \A q \in Ids : q < p => q \in problems
           /\ target' = [target EXCEPT ![i] = p]
    /\ Goto(i, "allocated")
    /\ UNCHANGED <<problems, row, object, staged, half, hash, histVars, boundVars>>

Take(i) ==
    /\ problems' = problems \cup {target[i]}
    /\ row' = [row EXCEPT ![target[i]] = [place |-> ImportPlace(i), in |-> i, out |-> i]]

\* import_problem: the primary key decides between two that got the same id.
Import(i) ==
    /\ at[i] = "allocated"
    /\ IF target[i] \notin problems
       THEN Take(i) /\ Goto(i, "imported") /\ UNCHANGED <<object, left>>
       ELSE Undo(i, {}) /\ UNCHANGED <<problems, row>>
    /\ UNCHANGED <<staged, target, half, hash, contested, failed, lost, boundVars>>

\* The transaction fails before its commit takes effect or after, or is refused and
\* the storage fails: the output of a test case is only deleted after its input.
ImportFails(i) ==
    /\ at[i] = "allocated"
    /\ Spend
    /\ \/ UNCHANGED <<problems, row, lost>>
       \/ target[i] \notin problems /\ Take(i) /\ lost' = lost \cup {i}
    /\ \E kept \in {{}, {"out"}, Halves} : Undo(i, kept)
    /\ UNCHANGED <<staged, target, half, hash, contested, failed, edits>>

ImportStep(i) ==
    \/ UploadPackage(i) \/ Malformed(i) \/ UploadPackageFails(i)
    \/ EmptyStatement(i) \/ NoConnection(i) \/ Allocate(i) \/ Import(i) \/ ImportFails(i)

-----------------------------------------------------------------------------
(* The other handlers, and the process.                                    *)

Create(p) ==
    /\ p \notin problems
    /\ Edit
    /\ problems' = problems \cup {p}
    /\ UNCHANGED <<row, object, staged, handlerVars, histVars, faults>>

\* update_problem_id: the rows follow (ON UPDATE CASCADE), keys and files do not.
Renumber(p, q) ==
    /\ p \in problems /\ q \notin problems
    /\ Edit
    /\ problems' = (problems \ {p}) \cup {q}
    /\ row' = [row EXCEPT ![p] = Nothing, ![q] = row[p]]
    /\ UNCHANGED <<object, staged, handlerVars, histVars, faults>>

\* delete_problem: the rows go (ON DELETE CASCADE), objects and files do not.
Delete(p) ==
    /\ p \in problems
    /\ Edit
    /\ problems' = problems \ {p}
    /\ row' = [row EXCEPT ![p] = Nothing]
    /\ UNCHANGED <<object, staged, handlerVars, histVars, faults>>

\* oj_server restarts; the staging directory survives.
Restart ==
    LET cut == {h \in Contents : Active(h)}
    IN  /\ cut # {}
        /\ Spend
        /\ at' = [h \in Contents |-> IF h \in cut THEN "dead" ELSE at[h]]
        /\ failed' = failed \cup {target[h] : h \in cut \cap Uploads}
        /\ UNCHANGED <<problems, row, object, staged, target, half, hash, contested, lost, left, edits>>

Next ==
    \/ \E h \in Uploads : UploadStep(h)
    \/ \E i \in Imports : ImportStep(i)
    \/ \E p, q \in Ids : Create(p) \/ Renumber(p, q) \/ Delete(p)
    \/ Restart

Spec == Init /\ [][Next]_vars

\* Administrators who wait for each answer before the next request, no failures.
SequentialNext ==
    /\ Next
    /\ (\E h \in Contents : Active(h)) =>
           \E h \in Contents : Active(h) /\ at'[h] # at[h]

SequentialSpec == Init /\ [][SequentialNext]_vars

-----------------------------------------------------------------------------

\* Types of the tables, the stores and the handlers.
TypeOK ==
    /\ problems \subseteq Ids
    /\ row \in [Ids -> Rows \cup {Nothing}]
    /\ object \in [Keys -> Contents \cup {Nothing}]
    /\ staged \in [Ids -> [Halves -> Uploads \cup {Nothing}]]
    /\ at \in [Contents -> Ended \cup {"checked", "written", "paired", "hashed", "halfway",
                                       "uploaded", "inserted", "allocated"}]
    /\ target \in [Contents -> Ids \cup {Nothing}]
    /\ half \in [Uploads -> Halves]
    /\ hash \in [Uploads -> [Halves -> Uploads \cup {Nothing}]]
    /\ contested \subseteq Ids /\ failed \subseteq Ids
    /\ lost \subseteq Places /\ left \subseteq Imports
    /\ edits \in 0..MaxEdits /\ faults \in 0..MaxFaults

\* The worker can fetch the files of the test case and their hashes match.
Backed(p) == \A f \in Halves : object[<<row[p].place, f>>] = row[p][f]

\* problem_importer.cpp:709: uploads, imports, rollbacks, deletions, renumberings and
\* failures in any order leave every test case with its files, unless two uploads
\* to the same keys got into each other's way or a commit's answer was lost.
RowsKeepTheirFiles ==
    \A p \in Ids : row[p] # Nothing /\ row[p].place \notin contested \cup lost => Backed(p)

\* problem_importer.cpp:685: of two administrators who upload the two halves at the
\* same time at least one sees the pair: both files never stay behind unused,
\* unless an upload of that case failed.
PairIsNeverMissed ==
    \A p \in Ids :
        /\ Nothing \notin {staged[p][f] : f \in Halves}
        /\ \A h \in Uploads : Active(h) => target[h] # p
        => p \in failed

\* problem_importer.cpp:546, :733, problem_repository.cpp:514: an import that fails leaves
\* no rows unless the answer to its commit was lost, and no objects unless the storage
\* would not delete them or it ended in one of the three places without a clean-up;
\* also when another import takes its id first.
FailedImportsLeaveNothing ==
    \A i \in Imports :
        /\ at[i] \in {"refused", "abandoned"} /\ i \notin lost =>
               \A p \in Ids : row[p] # Nothing => row[p].place # i
        /\ at[i] = "refused" /\ i \notin left => \A f \in Halves : object[<<i, f>>] = Nothing

\* problem_repository.cpp:131: a problem is renumbered safely, so administrators who
\* work one after the other never lose the files of a test case.
RenumberingIsSafe == \A p \in Ids : row[p] # Nothing => Backed(p)
=============================================================================
