------------------------- MODULE AssignmentsProofs -------------------------
(***************************************************************************)
(* Proofs about assignments, for any problems, administrators, readers and *)
(* submissions, any time and any number of failures.                       *)
(***************************************************************************)
EXTENDS Assignments, TLAPS, SequenceTheorems, FiniteSetTheorems

RowType == [start : Nat, end : Nat, items : Seq(Ids)]

TablesInv ==
    /\ now \in Nat
    /\ assignment # Nothing => assignment \in RowType
    /\ lock \in Edits \cup {Nothing}
    /\ request = [r \in Requests |-> request[r]]
    /\ entered \in [Subs -> Ids \cup {Nothing}]

Forms ==
    [at : {"compared", "updating"}, row : RowType, window : [start : Nat, end : Nat]]

\* What a form was compared with is a row, and an assignment is never deleted.
ComparedInv ==
    \A e \in Edits : At(e) \in {"compared", "updating"} =>
        /\ assignment # Nothing
        /\ request[e] \in Forms

\* Whoever is between SELECT ... FOR UPDATE and the end of the transaction holds
\* the row, so what was checked under the lock still holds.
HolderInv ==
    \A e \in Edits :
        /\ At(e) \in {"updating", "adding"} => lock = e
        /\ At(e) = "updating" =>
               /\ Asks(e, "start") => request[e].window.start < assignment.start
               /\ Asks(e, "end") => request[e].window.end > assignment.end
        /\ At(e) = "adding" =>
               /\ assignment # Nothing
               /\ request[e].items \in Selections
               /\ request[e].order = Len(assignment.items) + 1
        /\ At(e) # "collided"

\* A submission that has passed its checks is for a problem of the assignment,
\* unless the problem was renumbered after the check.
EntryInv ==
    \A s \in Subs :
        /\ At(s) = "looked" =>
               /\ assignment # Nothing
               /\ request[s].problem \in Ids
               /\ request[s].start \in Nat /\ assignment.start <= request[s].start
        /\ At(s) = "checked" /\ s \notin overtaken =>
               /\ assignment # Nothing
               /\ request[s].problem \in Range(assignment.items)
               /\ assignment.start <= now
        /\ At(s) = "checked" => request[s].problem \in Ids

IInv == TablesInv /\ ComparedInv /\ HolderInv /\ EntryInv /\ SubmissionsBelong

Busy == {"compared", "updating", "adding", "collided", "looked", "checked"}

-----------------------------------------------------------------------------

LEMMA SelectionsAreSequences == \A items \in Selections : items \in Seq(Ids)
  BY DEF Selections, SeqOf

LEMMA RowIsTyped == Rows \subseteq RowType
  BY SelectionsAreSequences, AssignmentsAssumption DEF Rows, RowType, Starts, Ends

LEMMA Initially == Init => IInv
<1> SUFFICES ASSUME Init PROVE IInv
  OBVIOUS
<1>1. TablesInv
  BY RowIsTyped, AssignmentsAssumption DEF Init, TablesInv
<1>2. ComparedInv /\ HolderInv /\ EntryInv
  BY DEF Init, ComparedInv, HolderInv, EntryInv, New, At, Requests
<1>3. SubmissionsBelong
  BY DEF Init, SubmissionsBelong
<1> QED
  BY <1>1, <1>2, <1>3 DEF IInv

\* A step of one request outside of the transactions disturbs nothing.
LEMMA Aside ==
    ASSUME IInv, NEW r \in Requests, At(r) \notin {"updating", "adding"},
           request' = [request EXCEPT ![r] = request'[r]], request'[r].at \notin Busy,
           UNCHANGED <<now, assignment, lock, entered, overtaken>>
    PROVE  IInv'
  BY DEF IInv, TablesInv, ComparedInv, HolderInv, EntryInv, SubmissionsBelong, At, Asks, Busy,
         Requests

\* Deleting the copies is such a step, and so is being done.
LEMMA DeletingIsAside == \A todo : Deleting(todo).at \notin Busy
  BY DEF Deleting, Done, Busy

\* So is the end of a transaction, whether its answer came or not.
LEMMA CommittedIsAside ==
    ASSUME IInv, NEW e \in Requests, NEW todo, NEW spared, Committed(e, todo, spared)
    PROVE  /\ request'[e].at \notin Busy /\ request' = [request EXCEPT ![e] = request'[e]]
           /\ \A r \in Requests \ {e} : request'[r] = request[r]
<1>1. PICK next : Become(e, next) /\ next.at \notin Busy
  BY DeletingIsAside DEF Committed, Done, Busy
<1> QED
  BY <1>1 DEF Become, IInv, TablesInv

LEMMA ReaderStep ==
    ASSUME IInv, NEW r \in Readers, Reader(r)
    PROVE  IInv'
<1> USE DEF tables, histVars
<1>1. r \in Requests /\ (At(r) \in {"new", "missed", "half", "loaded"} => At(r) \notin {"updating", "adding"})
  BY DEF Requests
<1>2. ASSUME NEW k \in Keys, Get(r, k) PROVE IInv'
  <2>1. PICK next : next.at \notin Busy /\ Become(r, next)
    BY <1>2 DEF Get, Done, Busy
  <2> QED
    BY <1>1, <1>2, <2>1, Aside DEF Get, Become, IInv, TablesInv
<1>3. ASSUME LoadRow(r) PROVE IInv'
  <2>1. PICK next : next.at \notin Busy /\ Become(r, next)
    BY <1>3 DEF LoadRow, Done, Busy
  <2> QED
    BY <1>1, <1>3, <2>1, Aside DEF LoadRow, Become, IInv, TablesInv
<1>4. ASSUME Load(r) PROVE IInv'
  <2>1. PICK next : next.at \notin Busy /\ Become(r, next)
    BY <1>4 DEF Load, Busy
  <2> QED
    BY <1>1, <1>4, <2>1, Aside DEF Load, Become, IInv, TablesInv
<1>5. ASSUME Fill(r) PROVE IInv'
  BY <1>1, <1>5, Aside DEF Fill, Become, Done, Busy, IInv, TablesInv
<1> QED
  BY <1>2, <1>3, <1>4, <1>5 DEF Reader

\* Nothing but the clock or the copies changes.
LEMMA BackgroundStep ==
    ASSUME IInv, UNCHANGED <<assignment, lock, request, entered, overtaken>>,
           now' \in Nat, now <= now'
    PROVE  IInv'
<1>1. TablesInv' /\ ComparedInv' /\ HolderInv'
  BY DEF IInv, TablesInv, ComparedInv, HolderInv, At, Asks
<1>2. assignment # Nothing => assignment.start \in Nat /\ now \in Nat
  BY DEF IInv, TablesInv, RowType
<1>3. EntryInv' /\ SubmissionsBelong'
  BY <1>2 DEF IInv, EntryInv, SubmissionsBelong, At
<1> QED
  BY <1>1, <1>3 DEF IInv

-----------------------------------------------------------------------------
(* The transactions of administrators.                                     *)

LEMMA CreateStep ==
    ASSUME IInv, NEW e \in Edits, NEW window \in Windows, NEW items \in Selections,
           Create(e, window, items)
    PROVE  IInv'
<1> DEFINE row == [start |-> window.start, end |-> window.end, items |-> items]
<1>1. /\ assignment = Nothing /\ assignment' = row /\ At(e) = "new"
      /\ Committed(e, AssignmentKeys, {})
      /\ UNCHANGED <<now, lock, entered, overtaken>>
  BY DEF Create
<1>2. row \in RowType /\ assignment' # Nothing
  BY <1>1, SelectionsAreSequences, AssignmentsAssumption DEF Windows, Starts, Ends, RowType
<1>3. /\ request'[e].at \notin Busy /\ e \in Requests /\ \A r \in Requests \ {e} : request'[r] = request[r]
      /\ request' = [request EXCEPT ![e] = request'[e]]
  BY <1>1, CommittedIsAside DEF Requests
<1>4. TablesInv'
  BY <1>1, <1>2, <1>3 DEF IInv, TablesInv
<1>5. \A d \in Edits : At(d) \notin {"compared", "updating", "adding"}
  BY <1>1 DEF IInv, ComparedInv, HolderInv
<1>6. ComparedInv' /\ HolderInv'
  BY <1>1, <1>3, <1>5 DEF IInv, ComparedInv, HolderInv, At, Busy, Requests
<1>7. EntryInv' /\ SubmissionsBelong'
  BY <1>1, <1>3 DEF IInv, EntryInv, SubmissionsBelong, At, Busy, Requests
<1> QED
  BY <1>4, <1>6, <1>7 DEF IInv

LEMMA CompareStep ==
    ASSUME IInv, NEW e \in Edits, NEW window \in Windows, Compare(e, window)
    PROVE  IInv'
<1>1. /\ At(e) = "new" /\ assignment # Nothing /\ e \in Requests
      /\ UNCHANGED <<now, assignment, lock, entered, overtaken>>
  BY DEF Compare, tables, histVars, Requests
<1>2. CASE window.start = assignment.start /\ window.end = assignment.end
  BY <1>1, <1>2, Aside, DeletingIsAside DEF Compare, Become, IInv, TablesInv
<1>3. CASE ~(window.start = assignment.start /\ window.end = assignment.end)
  <2>1. request' = [request EXCEPT ![e] = [at |-> "compared", row |-> assignment, window |-> window]]
    BY <1>3 DEF Compare, Become
  <2>2. window \in [start : Nat, end : Nat] /\ assignment \in RowType
    BY <1>1, AssignmentsAssumption DEF Windows, Starts, Ends, IInv, TablesInv
  <2>3. TablesInv' /\ ComparedInv'
    BY <1>1, <2>1, <2>2 DEF IInv, TablesInv, ComparedInv, Forms, At, Requests
  <2>4. HolderInv' /\ EntryInv' /\ SubmissionsBelong'
    BY <1>1, <2>1 DEF IInv, TablesInv, HolderInv, EntryInv, SubmissionsBelong, At, Asks, Requests
  <2> QED
    BY <2>3, <2>4 DEF IInv
<1> QED
  BY <1>2, <1>3

LEMMA LockForUpdateStep ==
    ASSUME IInv, NEW e \in Edits, LockForUpdate(e)
    PROVE  IInv'
<1>1. /\ At(e) = "compared" /\ lock = Nothing /\ e \in Requests
      /\ UNCHANGED <<now, assignment, entered, overtaken>>
  BY DEF LockForUpdate, RowFree, tables, histVars, Requests
<1>2. CASE ~Allowed(e)
  BY <1>1, <1>2, Aside DEF LockForUpdate, Become, Done, Busy, IInv, TablesInv
<1>3. CASE Allowed(e)
  <2>1. /\ request' = [request EXCEPT ![e] = [request[e] EXCEPT !.at = "updating"]]
        /\ lock' = e
    BY <1>3 DEF LockForUpdate, Become
  <2>2. /\ assignment # Nothing
        /\ request[e] \in Forms
        /\ Asks(e, "start") => request[e].window.start < assignment.start
        /\ Asks(e, "end") => request[e].window.end > assignment.end
    BY <1>1, <1>3 DEF IInv, ComparedInv, Allowed, Old
  <2>3. request'[e] = [request[e] EXCEPT !.at = "updating"]
        /\ \A r \in Requests \ {e} : request'[r] = request[r]
    BY <1>1, <2>1 DEF IInv, TablesInv
  <2>8. /\ request'[e].window = request[e].window /\ request'[e].row = request[e].row
        /\ request'[e].at = "updating" /\ request'[e] \in Forms
    BY <2>2, <2>3 DEF Forms
  <2>4. \A d \in Edits : At(d) \notin {"updating", "adding"}
    BY <1>1, AssignmentsAssumption DEF IInv, HolderInv
  <2>5. TablesInv' /\ ComparedInv'
    BY <1>1, <2>1, <2>2, <2>3, <2>8 DEF IInv, TablesInv, ComparedInv, At, Requests
  <2>6. HolderInv'
    BY <1>1, <2>1, <2>2, <2>3, <2>4, <2>8 DEF IInv, HolderInv, At, Asks, Requests
  <2>7. EntryInv' /\ SubmissionsBelong'
    BY <1>1, <2>3, <2>8, AssignmentsAssumption DEF IInv, EntryInv, SubmissionsBelong, At, Requests
  <2> QED
    BY <2>5, <2>6, <2>7 DEF IInv
<1> QED
  BY <1>2, <1>3

\* What an update makes of the window of the row.
LEMMA UpdateKeepsWindow ==
    ASSUME IInv, NEW e \in Edits, Update(e)
    PROVE  /\ assignment # Nothing /\ assignment' \in RowType
           /\ assignment'.start <= assignment.start /\ assignment'.end >= assignment.end
           /\ assignment'.items = assignment.items
<1>1. /\ assignment # Nothing /\ assignment \in RowType
      /\ request[e].window \in [start : Nat, end : Nat]
      /\ Asks(e, "start") => request[e].window.start < assignment.start
      /\ Asks(e, "end") => request[e].window.end > assignment.end
  BY DEF Update, IInv, TablesInv, ComparedInv, HolderInv, Forms
<1>2. assignment' = [assignment EXCEPT !.start = NewValue(e, "start", assignment),
                                       !.end = NewValue(e, "end", assignment)]
  BY DEF Update
<1>3. /\ NewValue(e, "start", assignment) \in Nat /\ NewValue(e, "start", assignment) <= assignment.start
      /\ NewValue(e, "end", assignment) \in Nat /\ NewValue(e, "end", assignment) >= assignment.end
  BY <1>1 DEF NewValue, RowType
<1> QED
  BY <1>1, <1>2, <1>3 DEF RowType

LEMMA UpdateStep ==
    ASSUME IInv, NEW e \in Edits, Update(e)
    PROVE  IInv'
<1>1. /\ At(e) = "updating" /\ lock = e /\ lock' = Nothing /\ e \in Requests
      /\ Committed(e, AssignmentKeys, {})
      /\ UNCHANGED <<now, entered, overtaken>>
  BY DEF Update, IInv, HolderInv, Requests
<1>2. assignment' # Nothing
  BY UpdateKeepsWindow, AssignmentsAssumption DEF RowType
<1>3. /\ request'[e].at \notin Busy /\ \A r \in Requests \ {e} : request'[r] = request[r]
      /\ request' = [request EXCEPT ![e] = request'[e]]
  BY <1>1, CommittedIsAside
<1>4. TablesInv'
  BY <1>1, <1>3, UpdateKeepsWindow DEF IInv, TablesInv
<1>5. \A d \in Edits \ {e} : At(d) \notin {"updating", "adding"}
  BY <1>1 DEF IInv, HolderInv
<1>6. ComparedInv' /\ HolderInv'
  BY <1>1, <1>2, <1>3, <1>5 DEF IInv, ComparedInv, HolderInv, At, Busy, Requests
<1>7. /\ assignment.start \in Nat /\ assignment'.start \in Nat /\ now \in Nat
      /\ assignment'.start <= assignment.start /\ assignment'.items = assignment.items
  BY UpdateKeepsWindow DEF IInv, TablesInv, RowType
<1>8. EntryInv' /\ SubmissionsBelong'
  <2>1. \A s \in Subs : s # e /\ s \in Requests
    BY AssignmentsAssumption DEF Requests
  <2> QED
    BY <1>1, <1>2, <1>3, <1>7, <2>1 DEF IInv, EntryInv, SubmissionsBelong, At, Busy
<1> QED
  BY <1>4, <1>6, <1>8 DEF IInv

LEMMA LockForAddStep ==
    ASSUME IInv, NEW e \in Edits, NEW items \in Selections, LockForAdd(e, items)
    PROVE  IInv'
<1>1. /\ At(e) = "new" /\ assignment # Nothing /\ lock = Nothing /\ e \in Requests
      /\ UNCHANGED <<now, assignment, entered, overtaken>>
  BY DEF LockForAdd, RowFree, tables, histVars, Requests
<1>2. CASE now > assignment.end
  BY <1>1, <1>2, Aside DEF LockForAdd, Become, Done, Busy, IInv, TablesInv
<1>3. CASE ~(now > assignment.end)
  <2>1. /\ request' = [request EXCEPT ![e] = [at |-> "adding", items |-> items, order |-> NextOrder]]
        /\ lock' = e
    BY <1>3 DEF LockForAdd, Become
  <2>2. /\ request'[e] = [at |-> "adding", items |-> items, order |-> NextOrder]
        /\ \A r \in Requests \ {e} : request'[r] = request[r]
    BY <1>1, <2>1 DEF IInv, TablesInv
  <2>3. \A d \in Edits : At(d) \notin {"updating", "adding"}
    BY <1>1, AssignmentsAssumption DEF IInv, HolderInv
  <2>4. TablesInv' /\ ComparedInv'
    BY <1>1, <2>1, <2>2 DEF IInv, TablesInv, ComparedInv, At, Requests
  <2>5. HolderInv'
    BY <1>1, <2>1, <2>2, <2>3 DEF IInv, HolderInv, At, Requests, NextOrder
  <2>6. EntryInv' /\ SubmissionsBelong'
    BY <1>1, <2>2 DEF IInv, EntryInv, SubmissionsBelong, At, Requests
  <2> QED
    BY <2>4, <2>5, <2>6 DEF IInv
<1> QED
  BY <1>2, <1>3

\* The order that was computed under the lock is still free, so problems are only appended.
LEMMA AddKeepsWindow ==
    ASSUME IInv, NEW e \in Edits, Add(e)
    PROVE  /\ assignment # Nothing /\ assignment' # Nothing /\ assignment' \in RowType
           /\ assignment'.start = assignment.start /\ assignment'.end = assignment.end
           /\ Range(assignment.items) \subseteq Range(assignment'.items)
<1> DEFINE items == request[e].items
<1>1. /\ At(e) = "adding" /\ lock = e /\ lock' = Nothing /\ e \in Requests
      /\ assignment # Nothing /\ assignment \in RowType
      /\ items \in Selections /\ request[e].order = Len(assignment.items) + 1
      /\ UNCHANGED <<now, entered, overtaken>>
  BY DEF Add, histVars, IInv, TablesInv, HolderInv, Requests
<1>2. assignment.items \in Seq(Ids) /\ assignment.start \in Nat /\ items \in Seq(Ids)
  BY <1>1, SelectionsAreSequences DEF RowType
<1>3. ~(request[e].order <= Len(assignment.items))
  BY <1>1, <1>2
<1>4. \/ assignment' = assignment
      \/ assignment' = [assignment EXCEPT !.items = assignment.items \o items]
  BY <1>3 DEF Add
<1>5. /\ assignment' \in RowType /\ assignment' # Nothing
      /\ assignment'.start = assignment.start /\ assignment'.end = assignment.end
      /\ Range(assignment.items) \subseteq Range(assignment'.items)
  <2>1. CASE assignment' = assignment
    BY <1>1, <2>1
  <2>2. CASE assignment' = [assignment EXCEPT !.items = assignment.items \o items]
    <3>1. /\ assignment.items \o items \in Seq(Ids)
          /\ \A i \in DOMAIN assignment.items :
                 i \in DOMAIN (assignment.items \o items)
                 /\ (assignment.items \o items)[i] = assignment.items[i]
      <4>1. PICK old \in Seq(Ids), new \in Seq(Ids) : old = assignment.items /\ new = items
        BY <1>2
      <4>2. /\ old \o new \in Seq(Ids)
            /\ \A i \in DOMAIN old : i \in DOMAIN (old \o new) /\ (old \o new)[i] = old[i]
        OBVIOUS
      <4> QED
        BY <4>1, <4>2
    <3>2. /\ assignment' \in RowType /\ assignment'.start = assignment.start
          /\ assignment'.end = assignment.end /\ assignment'.items = assignment.items \o items
      BY <1>1, <2>2, <3>1 DEF RowType
    <3> QED
      BY <3>1, <3>2, AssignmentsAssumption DEF RowType, Range
  <2> QED
    BY <1>4, <2>1, <2>2
<1> QED
  BY <1>1, <1>5

LEMMA AddStep ==
    ASSUME IInv, NEW e \in Edits, Add(e)
    PROVE  IInv'
<1> DEFINE items == request[e].items
<1>1. /\ At(e) = "adding" /\ lock = e /\ lock' = Nothing /\ e \in Requests
      /\ assignment # Nothing /\ assignment \in RowType
      /\ items \in Selections /\ request[e].order = Len(assignment.items) + 1
      /\ UNCHANGED <<now, entered, overtaken>>
  BY DEF Add, histVars, IInv, TablesInv, HolderInv, Requests
<1>2. assignment.items \in Seq(Ids) /\ assignment.start \in Nat /\ items \in Seq(Ids)
  BY <1>1, SelectionsAreSequences DEF RowType
<1>3. ~(request[e].order <= Len(assignment.items))
  BY <1>1, <1>2
<1>4. request' = [request EXCEPT ![e] = request'[e]] /\ request'[e].at \notin Busy
  <2>1. CASE Become(e, Done)
    BY <1>1, <2>1 DEF Become, Done, Busy, IInv, TablesInv
  <2>2. CASE Committed(e, AssignmentKeys, {})
    BY <1>1, <2>2, CommittedIsAside
  <2> QED
    BY <1>3, <2>1, <2>2 DEF Add
<1>5. \A r \in Requests \ {e} : request'[r] = request[r]
  BY <1>4 DEF IInv, TablesInv
<1>6. /\ assignment' \in RowType /\ assignment' # Nothing
      /\ assignment'.start = assignment.start
      /\ Range(assignment.items) \subseteq Range(assignment'.items)
  BY AddKeepsWindow
<1>7. TablesInv'
  BY <1>1, <1>4, <1>6 DEF IInv, TablesInv
<1>8. \A d \in Edits \ {e} : At(d) \notin {"updating", "adding"}
  BY <1>1 DEF IInv, HolderInv
<1>9. ComparedInv' /\ HolderInv'
  BY <1>1, <1>4, <1>5, <1>6, <1>8 DEF IInv, ComparedInv, HolderInv, At, Busy, Requests
<1>10. EntryInv' /\ SubmissionsBelong'
  <2>1. \A s \in Subs : s # e /\ s \in Requests
    BY AssignmentsAssumption DEF Requests
  <2> QED
    BY <1>1, <1>5, <1>6, <2>1 DEF IInv, EntryInv, SubmissionsBelong, At, Busy
<1> QED
  BY <1>7, <1>9, <1>10 DEF IInv

\* A transaction that is rolled back gives the row up.
LEMMA RollBackStep ==
    ASSUME IInv, NEW e \in Edits, RollBack(e)
    PROVE  IInv'
<1>1. /\ lock = e /\ lock' = Nothing /\ e \in Requests
      /\ request' = [request EXCEPT ![e] = Done]
      /\ UNCHANGED <<now, assignment, entered, overtaken>>
  BY DEF RollBack, Become, tables, histVars, IInv, HolderInv, Requests
<1>2. request'[e].at \notin Busy /\ \A r \in Requests \ {e} : request'[r] = request[r]
  BY <1>1 DEF Done, Busy, IInv, TablesInv
<1>3. TablesInv'
  BY <1>1 DEF IInv, TablesInv
<1>4. \A d \in Edits \ {e} : At(d) \notin {"updating", "adding"}
  BY <1>1 DEF IInv, HolderInv
<1>5. ComparedInv' /\ HolderInv'
  BY <1>1, <1>2, <1>4 DEF IInv, ComparedInv, HolderInv, At, Busy, Requests
<1>6. EntryInv' /\ SubmissionsBelong'
  BY <1>1, <1>2 DEF IInv, EntryInv, SubmissionsBelong, At, Busy, Requests
<1> QED
  BY <1>3, <1>5, <1>6 DEF IInv

LEMMA DelStep ==
    ASSUME IInv, NEW e \in Edits, Del(e)
    PROVE  IInv'
<1>1. /\ At(e) = "deleting" /\ e \in Requests
      /\ request' = [request EXCEPT ![e] = Deleting(Tail(request[e].todo))]
      /\ UNCHANGED <<now, assignment, lock, entered, overtaken>>
  BY DEF Del, Become, tables, Requests
<1>2. request'[e].at \notin Busy /\ request' = [request EXCEPT ![e] = request'[e]]
  BY <1>1, DeletingIsAside DEF IInv, TablesInv
<1> QED
  BY <1>1, <1>2, Aside

-----------------------------------------------------------------------------
(* The catalogue.                                                          *)

\* An edit of the catalogue, seen from the requests.
LEMMA CatalogRequests ==
    ASSUME IInv, NEW e \in Edits, Catalog(e)
    PROVE  /\ At(e) = "new" /\ e \in Requests
           /\ request' = [request EXCEPT ![e] = request'[e]] /\ request'[e].at \notin Busy
           /\ \A r \in Requests \ {e} : request'[r] = request[r]
           /\ UNCHANGED <<now, lock>>
<1>1. Committed(e, <<"problems">>, {"detail"}) /\ e \in Requests
  BY DEF Catalog, Requests
<1> QED
  BY <1>1, CommittedIsAside DEF Catalog

LEMMA TitleStep ==
    ASSUME IInv, NEW e \in Edits, NEW p \in Ids, NEW t \in Titles, Title(e, p, t)
    PROVE  IInv'
<1>1. Catalog(e) /\ UNCHANGED <<assignment, entered, overtaken>>
  BY DEF Title
<1> QED
  BY <1>1, CatalogRequests, Aside

\* The foreign key keeps the problems of the assignment.
LEMMA DeleteStep ==
    ASSUME IInv, NEW e \in Edits, NEW p \in Ids, Delete(e, p)
    PROVE  IInv'
<1>1. /\ Catalog(e) /\ UNCHANGED <<assignment, overtaken>>
      /\ assignment # Nothing => p \notin Range(assignment.items)
      /\ entered' = [s \in Subs |-> IF entered[s] = p THEN Nothing ELSE entered[s]]
  BY DEF Delete
<1>2. TablesInv' /\ ComparedInv' /\ HolderInv'
  BY <1>1, CatalogRequests DEF IInv, TablesInv, ComparedInv, HolderInv, At, Asks, Busy, Requests
<1>3. EntryInv' /\ SubmissionsBelong'
  BY <1>1, CatalogRequests DEF IInv, EntryInv, SubmissionsBelong, At, Busy, Requests
<1> QED
  BY <1>2, <1>3 DEF IInv

\* What a renumbering makes of the assignment.
LEMMA RenumberKeepsRow ==
    ASSUME IInv, NEW e \in Edits, NEW p \in Ids, NEW q \in Ids, Renumber(e, p, q)
    PROVE  /\ assignment = Nothing => assignment' = Nothing
           /\ assignment # Nothing =>
                /\ assignment' \in RowType /\ assignment' # Nothing
                /\ assignment'.start = assignment.start /\ assignment'.end = assignment.end
                /\ Len(assignment'.items) = Len(assignment.items)
                /\ \A x \in Range(assignment.items) : Renamed(p, q, x) \in Range(assignment'.items)
<1> SUFFICES ASSUME assignment # Nothing
             PROVE  /\ assignment' \in RowType /\ assignment' # Nothing
                    /\ assignment'.start = assignment.start /\ assignment'.end = assignment.end
                    /\ Len(assignment'.items) = Len(assignment.items)
                    /\ \A x \in Range(assignment.items) : Renamed(p, q, x) \in Range(assignment'.items)
  BY DEF Renumber
<1> DEFINE new == [i \in DOMAIN assignment.items |-> Renamed(p, q, assignment.items[i])]
<1>1. assignment \in RowType /\ assignment' = [assignment EXCEPT !.items = new]
  BY DEF Renumber, IInv, TablesInv
<1>2. assignment.items \in Seq(Ids)
  BY <1>1 DEF RowType
<1>3. \A x \in Ids : Renamed(p, q, x) \in Ids
  BY DEF Renamed
<1>4. new \in Seq(Ids) /\ Len(new) = Len(assignment.items) /\ DOMAIN new = DOMAIN assignment.items
  BY <1>2, <1>3
<1>5. /\ assignment' \in RowType /\ assignment'.items = new
      /\ assignment'.start = assignment.start /\ assignment'.end = assignment.end
  BY <1>1, <1>4 DEF RowType
<1>6. \A x \in Range(assignment.items) : Renamed(p, q, x) \in Range(new)
  BY <1>4 DEF Range
<1> QED
  BY <1>4, <1>5, <1>6, AssignmentsAssumption DEF RowType

LEMMA RenumberStep ==
    ASSUME IInv, NEW e \in Edits, NEW p \in Ids, NEW q \in Ids, Renumber(e, p, q)
    PROVE  IInv'
<1>1. /\ Catalog(e)
      /\ entered' = [s \in Subs |-> Renamed(p, q, entered[s])]
      /\ overtaken' = overtaken \cup {s \in Subs : At(s) = "checked" /\ request[s].problem = p}
  BY DEF Renumber, Follow
<1>2. TablesInv'
  <2>1. \A x \in Ids \cup {Nothing} : Renamed(p, q, x) \in Ids \cup {Nothing}
    BY DEF Renamed
  <2>2. entered' \in [Subs -> Ids \cup {Nothing}]
    BY <1>1, <2>1 DEF IInv, TablesInv
  <2> QED
    BY <1>1, <2>2, CatalogRequests, RenumberKeepsRow DEF IInv, TablesInv
<1>3. ComparedInv' /\ HolderInv'
  BY <1>1, CatalogRequests, RenumberKeepsRow
  DEF IInv, ComparedInv, HolderInv, At, Asks, Busy, Requests
<1>4. \A s \in Subs : s # e /\ request'[s] = request[s] /\ At(s)' = At(s)
  BY <1>1, CatalogRequests, AssignmentsAssumption DEF At, Requests
<1>5. EntryInv'
  BY <1>1, <1>4, CatalogRequests, RenumberKeepsRow DEF IInv, EntryInv, Renamed
<1>6. SubmissionsBelong'
  <2> SUFFICES ASSUME NEW s \in Subs, entered'[s] # Nothing, s \notin overtaken'
               PROVE  /\ assignment' # Nothing
                      /\ entered'[s] \in Range(assignment'.items)
                      /\ assignment'.start <= now'
    BY DEF SubmissionsBelong
  <2>1. entered'[s] = Renamed(p, q, entered[s]) /\ s \notin overtaken
    BY <1>1
  <2>2. entered[s] # Nothing
    BY <2>1, AssignmentsAssumption DEF Renamed
  <2>3. /\ assignment # Nothing /\ entered[s] \in Range(assignment.items)
        /\ assignment.start <= now
    BY <2>1, <2>2 DEF IInv, SubmissionsBelong
  <2> QED
    BY <1>1, <2>1, <2>3, CatalogRequests, RenumberKeepsRow
<1> QED
  BY <1>2, <1>3, <1>5, <1>6 DEF IInv

-----------------------------------------------------------------------------
(* Submissions and the process.                                            *)

LEMMA LookStep ==
    ASSUME IInv, NEW s \in Subs, NEW p \in Ids, Look(s, p)
    PROVE  IInv'
<1>1. /\ At(s) = "new" /\ assignment # Nothing /\ s \in Requests
      /\ request' = [request EXCEPT ![s] = [at |-> "looked", problem |-> p, start |-> assignment.start]]
      /\ UNCHANGED <<now, assignment, lock, entered, overtaken>>
  BY DEF Look, Become, tables, histVars, Requests
<1>2. assignment.start \in Nat
  BY <1>1 DEF IInv, TablesInv, RowType
<1>3. /\ request'[s] = [at |-> "looked", problem |-> p, start |-> assignment.start]
      /\ \A r \in Requests \ {s} : request'[r] = request[r]
  BY <1>1 DEF IInv, TablesInv
<1>4. TablesInv' /\ SubmissionsBelong'
  BY <1>1 DEF IInv, TablesInv, SubmissionsBelong
<1>5. ComparedInv' /\ HolderInv'
  BY <1>1, <1>3, AssignmentsAssumption DEF IInv, ComparedInv, HolderInv, At, Asks, Requests
<1>6. EntryInv'
  BY <1>1, <1>2, <1>3 DEF IInv, EntryInv, At, Requests
<1> QED
  BY <1>4, <1>5, <1>6 DEF IInv

LEMMA CheckStep ==
    ASSUME IInv, NEW s \in Subs, CheckSubmission(s)
    PROVE  IInv'
<1> DEFINE p == request[s].problem
<1>1. /\ At(s) = "looked" /\ s \in Requests /\ p \in Ids
      /\ UNCHANGED <<now, assignment, lock, entered, overtaken>>
  BY DEF CheckSubmission, tables, histVars, Requests, IInv, EntryInv
<1>2. CASE ~(p \in Range(assignment.items) /\ now >= request[s].start)
  BY <1>1, <1>2, Aside DEF CheckSubmission, Become, Done, Busy, IInv, TablesInv
<1>3. CASE p \in Range(assignment.items) /\ now >= request[s].start
  <2>1. request' = [request EXCEPT ![s] = [at |-> "checked", problem |-> p]]
    BY <1>3 DEF CheckSubmission, Become
  <2>2. request'[s] = [at |-> "checked", problem |-> p] /\ \A r \in Requests \ {s} : request'[r] = request[r]
    BY <1>1, <2>1 DEF IInv, TablesInv
  <2>3. assignment # Nothing /\ assignment.start <= now
    <3>1. /\ assignment # Nothing /\ assignment.start <= request[s].start
          /\ request[s].start \in Nat
      BY <1>1 DEF IInv, EntryInv
    <3>2. assignment.start \in Nat /\ now \in Nat
      BY <3>1 DEF IInv, TablesInv, RowType
    <3> QED
      BY <1>3, <3>1, <3>2
  <2>4. TablesInv' /\ SubmissionsBelong'
    BY <1>1, <2>1 DEF IInv, TablesInv, SubmissionsBelong
  <2>5. ComparedInv' /\ HolderInv'
    BY <1>1, <2>2, AssignmentsAssumption DEF IInv, ComparedInv, HolderInv, At, Asks, Requests
  <2>6. EntryInv'
    BY <1>1, <1>3, <2>2, <2>3 DEF IInv, EntryInv, At, Requests
  <2> QED
    BY <2>4, <2>5, <2>6 DEF IInv
<1> QED
  BY <1>2, <1>3

LEMMA EnterStep ==
    ASSUME IInv, NEW s \in Subs, Enter(s)
    PROVE  IInv'
<1> DEFINE p == request[s].problem
<1>1. /\ At(s) = "checked" /\ s \in Requests /\ p \in Ids
      /\ request' = [request EXCEPT ![s] = Done]
      /\ entered' = [entered EXCEPT ![s] = IF p \in Existing THEN p ELSE Nothing]
      /\ UNCHANGED <<now, assignment, lock, overtaken>>
  BY DEF Enter, Become, histVars, Requests, IInv, EntryInv
<1>2. request'[s] = Done /\ \A r \in Requests \ {s} : request'[r] = request[r]
  BY <1>1 DEF IInv, TablesInv
<1>3. TablesInv'
  BY <1>1 DEF IInv, TablesInv
<1>4. ComparedInv' /\ HolderInv' /\ EntryInv'
  BY <1>1, <1>2, AssignmentsAssumption
  DEF IInv, ComparedInv, HolderInv, EntryInv, At, Asks, Done, Requests
<1>5. SubmissionsBelong'
  BY <1>1 DEF IInv, TablesInv, EntryInv, SubmissionsBelong
<1> QED
  BY <1>3, <1>4, <1>5 DEF IInv

LEMMA RestartStep ==
    ASSUME IInv, Restart
    PROVE  IInv'
<1>1. /\ request' = [r \in Requests |-> IF At(r) = "new" THEN New ELSE Done]
      /\ lock' = Nothing
      /\ UNCHANGED <<now, assignment, entered, overtaken>>
  BY DEF Restart, tables
<1>2. \A r \in Requests : At(r)' \notin Busy
  BY <1>1 DEF At, New, Done, Busy
<1>3. TablesInv' /\ SubmissionsBelong'
  BY <1>1 DEF IInv, TablesInv, SubmissionsBelong
<1>4. ComparedInv' /\ HolderInv' /\ EntryInv'
  BY <1>2 DEF ComparedInv, HolderInv, EntryInv, Busy, Requests
<1> QED
  BY <1>3, <1>4 DEF IInv

LEMMA Stepwise == IInv /\ [Next]_vars => IInv'
<1> SUFFICES ASSUME IInv, [Next]_vars PROVE IInv'
  OBVIOUS
<1>1. ASSUME NEW r \in Readers, Reader(r) PROVE IInv'
  BY <1>1, ReaderStep
<1>2. ASSUME NEW k \in Keys, Expire(k) PROVE IInv'
  BY <1>2, BackgroundStep DEF Expire, tables, IInv, TablesInv
<1>3. ASSUME NEW e \in Edits, Edit(e) PROVE IInv'
  BY <1>3, CreateStep, CompareStep, LockForUpdateStep, UpdateStep, LockForAddStep, AddStep,
     RollBackStep, DelStep, TitleStep, DeleteStep, RenumberStep
  DEF Edit
<1>4. ASSUME NEW s \in Subs, Submission(s) PROVE IInv'
  BY <1>4, LookStep, CheckStep, EnterStep DEF Submission
<1>5. CASE Tick
  BY <1>5, BackgroundStep DEF Tick, tables, histVars, IInv, TablesInv
<1>6. CASE Restart
  BY <1>6, RestartStep
<1>7. CASE UNCHANGED vars
  BY <1>7, BackgroundStep DEF vars, tables, histVars, IInv, TablesInv
<1> QED
  BY <1>1, <1>2, <1>3, <1>4, <1>5, <1>6, <1>7 DEF Next

-----------------------------------------------------------------------------
(* The theorems.                                                           *)

\* What was checked under the row lock holds until the transaction ends.
THEOREM AssignmentsInductive == Spec => []IInv
  BY Initially, Stepwise, PTL DEF Spec

\* Administrators who add problems at the same time never collide.
THEOREM AddsNeverCollide == Spec => []NoAddCollides
<1>1. IInv => NoAddCollides
  BY DEF IInv, HolderInv, NoAddCollides
<1> QED
  BY AssignmentsInductive, <1>1, PTL

\* Every submission that counts is for a problem of the assignment and came after
\* its start, however it is edited.
THEOREM SubmissionsStayInPlace == Spec => []SubmissionsBelong
<1>1. IInv => SubmissionsBelong
  BY DEF IInv
<1> QED
  BY AssignmentsInductive, <1>1, PTL

\* No edit, concurrent or outdated, takes time away from an assignment.
THEOREM WindowsOnlyGrow == Spec => WindowOnlyGrows
<1>1. IInv /\ [Next]_vars =>
        [assignment # Nothing =>
            /\ assignment' # Nothing
            /\ assignment'.start <= assignment.start
            /\ assignment'.end >= assignment.end]_vars
  <2> SUFFICES ASSUME IInv, Next, assignment # Nothing
               PROVE  /\ assignment' # Nothing
                      /\ assignment'.start <= assignment.start
                      /\ assignment'.end >= assignment.end
    OBVIOUS
  <2>1. assignment.start \in Nat /\ assignment.end \in Nat
    BY DEF IInv, TablesInv, RowType
  <2>2. ASSUME assignment' = assignment
        PROVE  /\ assignment' # Nothing
               /\ assignment'.start <= assignment.start
               /\ assignment'.end >= assignment.end
    BY <2>1, <2>2
  <2>3. ASSUME NEW r \in Readers, Reader(r) PROVE assignment' = assignment
    BY <2>3 DEF Reader, Get, LoadRow, Load, Fill, tables
  <2>4. ASSUME NEW s \in Subs, Submission(s) PROVE assignment' = assignment
    BY <2>4 DEF Submission, Look, CheckSubmission, Enter, tables
  <2>5. CASE Tick \/ Restart \/ \E k \in Keys : Expire(k)
    BY <2>2, <2>5 DEF Tick, Restart, Expire, tables
  <2>6. ASSUME NEW e \in Edits, Edit(e)
        PROVE  /\ assignment' # Nothing
               /\ assignment'.start <= assignment.start
               /\ assignment'.end >= assignment.end
    <3>1. ASSUME NEW w \in Windows, Compare(e, w) PROVE assignment' = assignment
      BY <3>1 DEF Compare, tables
    <3>2. ASSUME NEW w \in Windows, NEW items \in Selections, Create(e, w, items) PROVE FALSE
      BY <3>2 DEF Create
    <3>3. ASSUME NEW items \in Selections, LockForAdd(e, items) PROVE assignment' = assignment
      BY <3>3 DEF LockForAdd, tables
    <3>4. CASE LockForUpdate(e) \/ RollBack(e) \/ Del(e)
      BY <2>2, <3>4 DEF LockForUpdate, RollBack, Del, tables
    <3>5. CASE Update(e)
      BY <3>5, UpdateKeepsWindow, AssignmentsAssumption DEF RowType
    <3>6. CASE Add(e)
      BY <2>1, <3>6, AddKeepsWindow
    <3>7. ASSUME NEW p \in Ids, NEW t \in Titles, Title(e, p, t) PROVE assignment' = assignment
      BY <3>7 DEF Title
    <3>8. ASSUME NEW p \in Ids, Delete(e, p) PROVE assignment' = assignment
      BY <3>8 DEF Delete
    <3>9. ASSUME NEW p \in Ids, NEW q \in Ids, Renumber(e, p, q)
          PROVE  /\ assignment' # Nothing
                 /\ assignment'.start <= assignment.start
                 /\ assignment'.end >= assignment.end
      BY <2>1, <3>9, RenumberKeepsRow
    <3> QED
      BY <2>2, <2>6, <3>1, <3>2, <3>3, <3>4, <3>5, <3>6, <3>7, <3>8, <3>9 DEF Edit
  <2> QED
    BY <2>2, <2>3, <2>4, <2>5, <2>6 DEF Next
<1> QED
  BY AssignmentsInductive, <1>1, PTL DEF Spec, WindowOnlyGrows

-----------------------------------------------------------------------------
(* Stale copies.                                                           *)

\* Whoever deletes copies has keys left to delete.
CopiesInv ==
    /\ cache = [k \in Keys |-> cache[k]]
    /\ \A e \in Edits : At(e) = "deleting" => request[e].todo \in Seq(Keys) /\ request[e].todo # <<>>

StaleInv == CopiesInv /\ StaleOnlyByRace

\* What a reader would be shown follows from the tables.
LEMMA CurrentFollowsTables ==
    ASSUME UNCHANGED <<problems, assignment>>, NEW k
    PROVE  Current(k)' = Current(k)
  BY DEF Current, Summary, Detail

LEMMA DeletingIsPending ==
    ASSUME NEW e \in Edits, NEW todo \in Seq(Keys), request'[e] = Deleting(todo)
    PROVE  /\ At(e)' = "deleting" => request'[e].todo \in Seq(Keys) /\ request'[e].todo # <<>>
           /\ \A k \in Range(todo) : Pending(k)'
<1>1. CASE todo = <<>>
  BY <1>1 DEF Deleting, Done, At, Range
<1>2. CASE todo # <<>>
  BY <1>2 DEF Deleting, At, Pending
<1> QED
  BY <1>1, <1>2

\* A request that deletes nothing yet, and whose step leaves the copies alone and
\* announces the deletion of all it makes stale.
LEMMA Announced ==
    ASSUME IInv, StaleInv, NEW r \in Requests, At(r) # "deleting",
           request' = [request EXCEPT ![r] = request'[r]],
           r \in Edits /\ At(r)' = "deleting" => request'[r].todo \in Seq(Keys) /\ request'[r].todo # <<>>,
           cache' = cache, excused \subseteq excused',
           \A k \in Keys : Current(k)' = Current(k) \/ Pending(k)' \/ k \in excused'
    PROVE  StaleInv'
<1>1. \A k \in Keys : Pending(k) => Pending(k)'
  BY DEF Pending, At, IInv, TablesInv, Requests
<1>2. StaleOnlyByRace'
  BY <1>1 DEF StaleInv, StaleOnlyByRace
<1>3. CopiesInv'
  BY DEF StaleInv, CopiesInv, At, IInv, TablesInv, Requests
<1> QED
  BY <1>2, <1>3 DEF StaleInv

LEMMA StaleInitially == Init => StaleInv
  BY DEF Init, StaleInv, CopiesInv, StaleOnlyByRace, New, At, Requests

LEMMA StaleFill ==
    ASSUME IInv, StaleInv, NEW r \in Readers, Fill(r)
    PROVE  StaleInv'
<1> DEFINE k == request[r].key
           body == request[r].body
<1>1. /\ At(r) = "loaded" /\ request' = [request EXCEPT ![r] = Done]
      /\ UNCHANGED <<problems, assignment>>
      /\ \/ cache' = [cache EXCEPT ![k] = body]
            /\ excused' = IF body = Current(k) THEN excused \ {k} ELSE excused \cup {k}
         \/ UNCHANGED <<cache, excused>>
  BY DEF Fill, Become, tables
<1>2. \A e \in Edits : request'[e] = request[e] /\ At(e)' = At(e)
  BY <1>1, AssignmentsAssumption DEF IInv, TablesInv, At, Requests
<1>3. \A x \in Keys : (Pending(x)' <=> Pending(x)) /\ Current(x)' = Current(x)
  BY <1>1, <1>2, CurrentFollowsTables DEF Pending
<1>4. CopiesInv'
  BY <1>1, <1>2 DEF StaleInv, CopiesInv
<1>5. StaleOnlyByRace'
  BY <1>1, <1>3 DEF StaleInv, StaleOnlyByRace, CopiesInv
<1> QED
  BY <1>4, <1>5 DEF StaleInv

LEMMA StaleExpire ==
    ASSUME IInv, StaleInv, NEW k \in Keys, Expire(k)
    PROVE  StaleInv'
<1>1. \A x \in Keys : (Pending(x)' <=> Pending(x)) /\ Current(x)' = Current(x)
  BY CurrentFollowsTables DEF Expire, tables, Pending, At
<1> QED
  BY <1>1 DEF Expire, StaleInv, StaleOnlyByRace, CopiesInv, At

\* The key whose copy is deleted, or is excused, is the only one no longer pending.
LEMMA StaleDel ==
    ASSUME IInv, StaleInv, NEW e \in Edits, Del(e)
    PROVE  StaleInv'
<1> DEFINE todo == request[e].todo
           k == Head(todo)
<1>1. /\ At(e) = "deleting" /\ e \in Requests /\ todo \in Seq(Keys) /\ todo # <<>>
      /\ request' = [request EXCEPT ![e] = Deleting(Tail(todo))]
      /\ UNCHANGED <<problems, assignment>>
      /\ \/ cache' = [cache EXCEPT ![k] = Nothing] /\ excused' = excused \ {k}
         \/ cache' = cache /\ excused' = excused \cup {k}
  BY DEF Del, Become, tables, Requests, StaleInv, CopiesInv
<1>2. /\ request'[e] = Deleting(Tail(todo))
      /\ \A d \in Edits \ {e} : request'[d] = request[d] /\ At(d)' = At(d)
  BY <1>1 DEF IInv, TablesInv, At, Requests
<1>3. /\ Tail(todo) \in Seq(Keys) /\ k \in Keys
      /\ \A x \in Range(todo) \ {k} : x \in Range(Tail(todo))
  <2>1. Tail(todo) \in Seq(Keys) /\ k \in Keys
    BY <1>1
  <2>2. ASSUME NEW i \in 1..Len(todo), todo[i] # k PROVE todo[i] \in Range(Tail(todo))
    <3>1. i - 1 \in 1..Len(Tail(todo)) /\ Tail(todo)[i - 1] = todo[i]
      BY <1>1, <2>2
    <3> QED
      BY <2>1, <3>1 DEF Range
  <2> QED
    BY <1>1, <2>1, <2>2 DEF Range
<1>4. /\ At(e)' = "deleting" => request'[e].todo \in Seq(Keys) /\ request'[e].todo # <<>>
      /\ \A x \in Range(Tail(todo)) : Pending(x)'
  BY <1>2, <1>3, DeletingIsPending
<1>5. \A x \in Keys \ {k} : Pending(x) => Pending(x)'
  BY <1>1, <1>2, <1>3, <1>4 DEF Pending
<1>6. \A x \in Keys : Current(x)' = Current(x)
  BY <1>1, CurrentFollowsTables
<1>7. CopiesInv'
  BY <1>1, <1>2, <1>4 DEF StaleInv, CopiesInv
<1>8. StaleOnlyByRace'
  BY <1>1, <1>3, <1>5, <1>6 DEF StaleInv, StaleOnlyByRace, CopiesInv
<1> QED
  BY <1>7, <1>8 DEF StaleInv

LEMMA StaleReader ==
    ASSUME IInv, StaleInv, NEW r \in Readers, Reader(r)
    PROVE  StaleInv'
<1>1. r \in Requests /\ r \notin Edits
  BY AssignmentsAssumption DEF Requests
<1>2. ASSUME At(r) \in {"new", "missed", "half"}, NEW next, Become(r, next),
             UNCHANGED <<problems, assignment, cache, excused>>
      PROVE  StaleInv'
  <2>1. request' = [request EXCEPT ![r] = request'[r]]
    BY <1>1, <1>2 DEF Become, IInv, TablesInv
  <2> QED
    BY <1>1, <1>2, <2>1, CurrentFollowsTables, Announced
<1>3. ASSUME NEW k \in Keys, Get(r, k) PROVE StaleInv'
  <2>1. PICK next : Become(r, next)
    BY <1>3 DEF Get
  <2> QED
    BY <1>2, <1>3, <2>1 DEF Get, tables, histVars
<1>4. ASSUME LoadRow(r) \/ Load(r) PROVE StaleInv'
  <2>1. PICK next : Become(r, next)
    BY <1>4 DEF LoadRow, Load
  <2> QED
    BY <1>2, <1>4, <2>1 DEF LoadRow, Load, tables, histVars
<1> QED
  BY <1>3, <1>4, StaleFill DEF Reader

LEMMA StaleSubmission ==
    ASSUME IInv, StaleInv, NEW s \in Subs, Submission(s)
    PROVE  StaleInv'
<1>1. s \in Requests /\ s \notin Edits
  BY AssignmentsAssumption DEF Requests
<1>2. PICK next : Become(s, next)
  BY DEF Submission, Look, CheckSubmission, Enter
<1>3. At(s) # "deleting" /\ UNCHANGED <<problems, assignment, cache, excused>>
  BY DEF Submission, Look, CheckSubmission, Enter, tables, histVars
<1>4. request' = [request EXCEPT ![s] = request'[s]]
  BY <1>1, <1>2 DEF Become, IInv, TablesInv
<1> QED
  BY <1>1, <1>3, <1>4, CurrentFollowsTables, Announced

\* The keys that the transactions of administrators make stale are the ones they
\* then delete.
LEMMA StaleEdit ==
    ASSUME IInv, StaleInv, NEW e \in Edits, Edit(e)
    PROVE  StaleInv'
<1>1. e \in Requests
  BY DEF Requests
<1>2. AssignmentKeys \in Seq(Keys) /\ Range(AssignmentKeys) = {"list", "detail"}
  BY DEF AssignmentKeys, Keys, Range
<1>3. ASSUME At(e) # "deleting", Become(e, Deleting(AssignmentKeys)),
             UNCHANGED <<problems, cache, excused>>
      PROVE  StaleInv'
  <2>1. request'[e] = Deleting(AssignmentKeys) /\ request' = [request EXCEPT ![e] = request'[e]]
    BY <1>1, <1>3 DEF Become, IInv, TablesInv
  <2>2. Current("problems")' = Current("problems") /\ Pending("list")' /\ Pending("detail")'
    BY <1>2, <1>3, <2>1, DeletingIsPending DEF Current
  <2> QED
    BY <1>1, <1>2, <1>3, <2>1, <2>2, DeletingIsPending, Announced DEF Keys
<1>4. ASSUME At(e) # "deleting", NEW next, next.at # "deleting", Become(e, next),
             UNCHANGED <<problems, assignment, cache, excused>>
      PROVE  StaleInv'
  <2>1. request'[e] = next /\ request' = [request EXCEPT ![e] = request'[e]]
    BY <1>1, <1>4 DEF Become, IInv, TablesInv
  <2> QED
    BY <1>1, <1>4, <2>1, CurrentFollowsTables, Announced DEF At
<1>15. ASSUME At(e) # "deleting", NEW todo \in Seq(Keys), NEW spared, Committed(e, todo, spared),
              cache' = cache,
              \A k \in Keys \ (spared \cup Range(todo)) : Current(k)' = Current(k)
       PROVE  StaleInv'
  <2>1. request' = [request EXCEPT ![e] = request'[e]]
    BY <1>1, <1>15, CommittedIsAside
  <2>2. CASE Become(e, Deleting(todo)) /\ excused' = excused \cup spared
    <3>1. request'[e] = Deleting(todo)
      BY <1>1, <2>2 DEF Become, IInv, TablesInv
    <3>2. \A k \in Keys : Current(k)' = Current(k) \/ Pending(k)' \/ k \in excused'
      BY <1>15, <2>2, <3>1, DeletingIsPending
    <3> QED
      BY <1>1, <1>15, <2>1, <2>2, <3>1, <3>2, DeletingIsPending, Announced
  <2>3. CASE Become(e, Done) /\ excused' = excused \cup spared \cup Range(todo)
    <3>1. At(e)' # "deleting"
      BY <1>1, <2>3 DEF Become, Done, At, IInv, TablesInv
    <3> QED
      BY <1>1, <1>15, <2>1, <2>3, <3>1, Announced
  <2> QED
    BY <1>15, <2>2, <2>3 DEF Committed
<1>16. ASSUME At(e) # "deleting", Committed(e, AssignmentKeys, {}), UNCHANGED <<problems, cache>>
       PROVE  StaleInv'
  <2>1. \A k \in Keys \ {"list", "detail"} : Current(k)' = Current(k)
    BY <1>16 DEF Current, Keys
  <2> QED
    BY <1>2, <1>15, <1>16, <2>1
<1>5. ASSUME Catalog(e), cache' = cache, Current("list")' = Current("list") PROVE StaleInv'
  <2>1. <<"problems">> \in Seq(Keys) /\ "problems" \in Range(<<"problems">>)
    BY DEF Keys, Range
  <2>2. \A k \in Keys \ ({"detail"} \cup Range(<<"problems">>)) : Current(k)' = Current(k)
    BY <1>5, <2>1 DEF Keys
  <2> QED
    BY <1>5, <1>15, <2>1, <2>2 DEF Catalog
<1>6. ASSUME NEW w \in Windows, NEW items \in Selections, Create(e, w, items) PROVE StaleInv'
  BY <1>6, <1>16 DEF Create
<1>7. ASSUME NEW w \in Windows, Compare(e, w) PROVE StaleInv'
  BY <1>3, <1>4, <1>7 DEF Compare, tables, histVars
<1>8. CASE LockForUpdate(e)
  <2>1. At(e) = "compared" /\ request[e] \in Forms
    BY <1>8 DEF LockForUpdate, IInv, ComparedInv
  <2>2. [request[e] EXCEPT !.at = "updating"].at # "deleting" /\ Done.at # "deleting"
    BY <2>1 DEF Forms, Done
  <2> QED
    BY <1>4, <1>8, <2>1, <2>2 DEF LockForUpdate, tables, histVars
<1>9. CASE Update(e) \/ RollBack(e)
  <2>1. CASE Update(e)
    BY <1>16, <2>1 DEF Update
  <2>2. CASE RollBack(e)
    BY <1>4, <2>2 DEF RollBack, Done, tables, histVars
  <2> QED
    BY <1>9, <2>1, <2>2
<1>10. ASSUME NEW items \in Selections, LockForAdd(e, items) PROVE StaleInv'
  <2>1. [at |-> "adding", items |-> items, order |-> NextOrder].at # "deleting" /\ Done.at # "deleting"
    BY DEF Done
  <2> QED
    BY <1>4, <1>10, <2>1 DEF LockForAdd, tables, histVars
<1>11. CASE Add(e)
  <2>1. [at |-> "collided"].at # "deleting" /\ Done.at # "deleting"
    BY DEF Done
  <2> QED
    BY <1>4, <1>11, <1>16, <2>1 DEF Add
<1>12. ASSUME NEW p \in Ids, NEW t \in Titles, Title(e, p, t) PROVE StaleInv'
  BY <1>5, <1>12 DEF Title, Catalog, Current, Summary
<1>13. ASSUME NEW p \in Ids, Delete(e, p) PROVE StaleInv'
  BY <1>5, <1>13 DEF Delete, Catalog, Current, Summary
<1>14. ASSUME NEW p \in Ids, NEW q \in Ids, Renumber(e, p, q) PROVE StaleInv'
  <2>1. Summary' = Summary
    BY <1>14, RenumberKeepsRow DEF Summary
  <2> QED
    BY <1>5, <1>14, <2>1 DEF Renumber, Catalog, Current
<1> QED
  BY <1>6, <1>7, <1>8, <1>9, <1>10, <1>11, <1>12, <1>13, <1>14, StaleDel DEF Edit

LEMMA StaleRestart ==
    ASSUME IInv, StaleInv, Restart
    PROVE  StaleInv'
<1>1. /\ request' = [r \in Requests |-> IF At(r) = "new" THEN New ELSE Done]
      /\ excused' = excused \cup {k \in Keys : Pending(k)}
      /\ UNCHANGED <<problems, assignment, cache>>
  BY DEF Restart, tables
<1>2. \A e \in Edits : At(e)' # "deleting"
  BY <1>1 DEF At, New, Done, Requests
<1>3. \A k \in Keys : Current(k)' = Current(k)
  BY <1>1, CurrentFollowsTables
<1> QED
  BY <1>1, <1>2, <1>3 DEF StaleInv, CopiesInv, StaleOnlyByRace

LEMMA StaleStep == IInv /\ StaleInv /\ [Next]_vars => StaleInv'
<1> SUFFICES ASSUME IInv, StaleInv, [Next]_vars PROVE StaleInv'
  OBVIOUS
<1>1. CASE Tick \/ UNCHANGED vars
  <2>1. UNCHANGED <<problems, assignment, request, cache, excused>>
    BY <1>1 DEF Tick, vars, tables, histVars
  <2>2. \A k \in Keys : (Pending(k)' <=> Pending(k)) /\ Current(k)' = Current(k)
    BY <2>1, CurrentFollowsTables DEF Pending, At
  <2> QED
    BY <2>1, <2>2 DEF StaleInv, CopiesInv, StaleOnlyByRace, At
<1> QED
  BY <1>1, StaleReader, StaleExpire, StaleEdit, StaleSubmission, StaleRestart DEF Next

\* After the last del of every edit a copy is stale only if a slow reader put it there,
\* the answer of a commit or a del was lost, oj_server restarted or a problem was edited.
THEOREM StaleOnlyByRaces == Spec => []StaleOnlyByRace
<1>1. StaleInv => StaleOnlyByRace
  BY DEF StaleInv
<1> QED
  BY Initially, Stepwise, StaleInitially, StaleStep, <1>1, PTL DEF Spec

-----------------------------------------------------------------------------
(* Types.                                                                  *)

Fetching == {"missed", "half", "loaded"}

\* Forms carry windows of the endpoint, and one that passed its checks keeps the
\* start before the end.
TypeInv ==
    /\ now \in 0..MaxTime
    /\ problems \in [Ids -> Titles \cup {Nothing}]
    /\ assignment # Nothing => assignment \in Rows /\ Valid(assignment)
    /\ \A e \in Edits :
           /\ lock = e => At(e) \in {"updating", "adding"}
           /\ At(e) \in {"compared", "updating"} => request[e].window \in Windows
           /\ At(e) = "updating" =>
                  NewValue(e, "start", assignment) < NewValue(e, "end", assignment)
    /\ \A r \in Readers : At(r) \in Fetching => request[r].key \in Keys
    /\ excused \subseteq Keys /\ overtaken \subseteq Subs
    /\ faults \in 0..MaxFaults

\* A list of distinct problems is no longer than there are problems.
LEMMA DistinctAreFew ==
    ASSUME NEW items \in Seq(Ids), IsInjective(items), items # <<>>
    PROVE  items \in Selections
<1>1. items \in [1..Len(items) -> Ids] /\ Len(items) \in Nat /\ DOMAIN items = 1..Len(items)
  OBVIOUS
<1>2. items \in Injection(1..Len(items), Ids)
  BY <1>1 DEF Injection
<1>3. /\ IsFiniteSet(1..Len(items)) /\ Cardinality(1..Len(items)) = Len(items)
  BY <1>1, FS_Interval
<1>4. Len(items) <= Cardinality(Ids) /\ Cardinality(Ids) \in Nat
  BY <1>2, <1>3, FS_Injection, FS_CardinalityType, AssignmentsAssumption
<1>5. items \in SeqOf(Ids, Cardinality(Ids))
  BY <1>1, <1>4 DEF SeqOf
<1> QED
  BY <1>5 DEF Selections

LEMMA TypesInitially == Init => TypeInv
<1> SUFFICES ASSUME Init PROVE TypeInv
  OBVIOUS
<1>1. \A r \in Requests : At(r) = "new" /\ (r \in Edits => lock # r)
  BY AssignmentsAssumption DEF Init, At, New
<1> QED
  BY <1>1, AssignmentsAssumption DEF Init, TypeInv, Requests, Fetching

\* A step of one request that leaves tables and lock alone.
LEMMA TypesAside ==
    ASSUME IInv, TypeInv, NEW r \in Requests, At(r) \notin {"updating", "adding"},
           request' = [request EXCEPT ![r] = request'[r]],
           request'[r].at \notin {"compared", "updating", "adding"},
           r \in Readers /\ request'[r].at \in Fetching => request'[r].key \in Keys,
           UNCHANGED <<problems, assignment, lock>>,
           now' \in 0..MaxTime, excused' \subseteq Keys, overtaken' \subseteq Subs,
           faults' \in 0..MaxFaults
    PROVE  TypeInv'
<1>1. \A q \in Requests \ {r} : request'[q] = request[q]
  BY DEF IInv, TablesInv
<1>2. (assignment # Nothing => assignment \in Rows /\ Valid(assignment))'
  BY DEF TypeInv, Valid, Existing
<1>3. ASSUME NEW e \in Edits
      PROVE  /\ lock' = e => At(e)' \in {"updating", "adding"}
             /\ At(e)' \in {"compared", "updating"} => request'[e].window \in Windows
             /\ At(e)' = "updating" =>
                    NewValue(e, "start", assignment)' < NewValue(e, "end", assignment)'
  <2>1. CASE e = r
    BY <2>1 DEF TypeInv, At
  <2>2. CASE e # r
    BY <1>1, <2>2 DEF TypeInv, At, NewValue, Asks, Requests
  <2> QED
    BY <2>1, <2>2
<1>4. \A q \in Readers : At(q)' \in Fetching => request'[q].key \in Keys
  BY <1>1 DEF TypeInv, At, Requests
<1> QED
  BY <1>2, <1>3, <1>4 DEF TypeInv

LEMMA FaultsAreBounded == TypeInv /\ (UNCHANGED faults \/ Spend) => faults' \in 0..MaxFaults
  BY AssignmentsAssumption DEF TypeInv, Spend

LEMMA TypesReader ==
    ASSUME IInv, TypeInv, NEW r \in Readers, Reader(r)
    PROVE  TypeInv'
<1>1. r \in Requests
  BY DEF Requests
<1>2. ASSUME At(r) \in {"new"} \cup Fetching, NEW next, Become(r, next),
             next.at \notin {"compared", "updating", "adding"},
             next.at \in Fetching => next.key \in Keys, excused' \subseteq Keys,
             UNCHANGED <<now, problems, assignment, lock, overtaken>>, UNCHANGED faults \/ Spend
      PROVE  TypeInv'
  <2>1. request' = [request EXCEPT ![r] = request'[r]] /\ request'[r] = next
    BY <1>1, <1>2 DEF Become, IInv, TablesInv
  <2>2. now' \in 0..MaxTime /\ overtaken' \subseteq Subs /\ faults' \in 0..MaxFaults
    BY <1>2, FaultsAreBounded DEF TypeInv
  <2> QED
    BY <1>1, <1>2, <2>1, <2>2, TypesAside DEF Fetching
<1>3. ASSUME NEW k \in Keys, Get(r, k) PROVE TypeInv'
  <2>1. PICK next : /\ next.at \notin {"compared", "updating", "adding"}
                    /\ next.at \in Fetching => next.key \in Keys
                    /\ Become(r, next)
    BY <1>3 DEF Get, Done, Fetching
  <2> QED
    BY <1>2, <1>3, <2>1 DEF Get, tables, histVars, TypeInv
<1>4. ASSUME LoadRow(r) \/ Load(r) PROVE TypeInv'
  <2>1. request[r].key \in Keys /\ At(r) \in Fetching
    BY <1>4 DEF LoadRow, Load, TypeInv, Fetching
  <2>2. PICK next : /\ next.at \notin {"compared", "updating", "adding"}
                    /\ next.at \in Fetching => next.key \in Keys
                    /\ Become(r, next)
    BY <1>4, <2>1 DEF LoadRow, Load, Done, Fetching
  <2> QED
    BY <1>2, <1>4, <2>1, <2>2 DEF LoadRow, Load, tables, histVars, TypeInv
<1>5. ASSUME Fill(r) PROVE TypeInv'
  <2>1. At(r) \in Fetching /\ Become(r, Done)
    BY <1>5 DEF Fill, Fetching
  <2>2. excused' \subseteq Keys
    BY <1>5, <2>1 DEF Fill, TypeInv
  <2> QED
    BY <1>2, <1>5, <2>1, <2>2 DEF Fill, tables, Done, Fetching
<1> QED
  BY <1>3, <1>4, <1>5 DEF Reader

LEMMA TypesSubmission ==
    ASSUME IInv, TypeInv, NEW s \in Subs, Submission(s)
    PROVE  TypeInv'
<1>1. s \in Requests /\ s \notin Readers
  BY AssignmentsAssumption DEF Requests
<1>2. PICK next : next.at \notin {"compared", "updating", "adding"} /\ Become(s, next)
  BY DEF Submission, Look, CheckSubmission, Enter, Done
<1>3. /\ At(s) \notin {"updating", "adding"}
      /\ UNCHANGED <<now, problems, assignment, lock, excused, overtaken, faults>>
  BY DEF Submission, Look, CheckSubmission, Enter, tables, histVars
<1>4. request' = [request EXCEPT ![s] = request'[s]] /\ request'[s] = next
  BY <1>1, <1>2 DEF Become, IInv, TablesInv
<1>5. now' \in 0..MaxTime /\ excused' \subseteq Keys /\ overtaken' \subseteq Subs /\ faults' \in 0..MaxFaults
  BY <1>3 DEF TypeInv
<1> QED
  BY <1>1, <1>2, <1>3, <1>4, <1>5, TypesAside

\* The clock, the copies and a restart.
LEMMA TypesBackground ==
    ASSUME IInv, TypeInv, Tick \/ Restart \/ UNCHANGED vars \/ \E k \in Keys : Expire(k)
    PROVE  TypeInv'
<1>1. UNCHANGED <<problems, assignment>>
  BY DEF Tick, Restart, Expire, vars, tables
<1>2. (assignment # Nothing => assignment \in Rows /\ Valid(assignment))'
  BY <1>1 DEF TypeInv, Valid, Existing
<1>3. /\ now' \in 0..MaxTime /\ excused' \subseteq Keys /\ overtaken' \subseteq Subs
      /\ faults' \in 0..MaxFaults
  BY FaultsAreBounded, AssignmentsAssumption DEF Tick, Restart, Expire, vars, histVars, TypeInv
<1>4. CASE UNCHANGED <<request, lock>>
  BY <1>1, <1>2, <1>3, <1>4 DEF TypeInv, At, NewValue, Asks
<1>5. CASE Restart
  <2>1. \A r \in Requests : At(r)' \in {"new", "done"}
    BY <1>5 DEF Restart, At, New, Done
  <2>2. lock' = Nothing
    BY <1>5 DEF Restart
  <2> QED
    BY <1>1, <1>2, <1>3, <2>1, <2>2, AssignmentsAssumption DEF TypeInv, Requests, Fetching
<1> QED
  BY <1>4, <1>5 DEF Tick, Expire, vars

\* Rows and orders of the transactions stay within their types.
LEMMA TypesAdd ==
    ASSUME IInv, TypeInv, NEW e \in Edits, Add(e)
    PROVE  (assignment # Nothing => assignment \in Rows /\ Valid(assignment))'
<1> DEFINE items == request[e].items
<1>1. /\ assignment # Nothing /\ items \in Selections /\ lock = e
      /\ request[e].order = Len(assignment.items) + 1
      /\ assignment \in Rows /\ Valid(assignment)
  BY DEF Add, IInv, HolderInv, TypeInv
<1>2. /\ assignment.items \in Seq(Ids) /\ items \in Seq(Ids)
      /\ IsInjective(assignment.items) /\ IsInjective(items) /\ items # <<>>
  BY <1>1, SelectionsAreSequences DEF Rows, Selections
<1>3. UNCHANGED problems /\ Existing' = Existing
  BY DEF Add, Existing
<1>4. CASE assignment' = assignment
  BY <1>1, <1>3, <1>4 DEF Valid
<1>5. CASE assignment' # assignment
  <2>1. /\ Range(items) \subseteq Existing \ Range(assignment.items)
        /\ assignment' = [assignment EXCEPT !.items = assignment.items \o items]
    BY <1>5 DEF Add
  <2>2. PICK old \in Seq(Ids), new \in Seq(Ids) : old = assignment.items /\ new = items
    BY <1>2
  <2>3. /\ old \o new \in Seq(Ids) /\ old \o new # <<>>
        /\ Len(old \o new) = Len(old) + Len(new)
        /\ \A i \in 1..Len(old \o new) :
               (old \o new)[i] = IF i <= Len(old) THEN old[i] ELSE new[i - Len(old)]
    <3>1. Len(old) \in Nat /\ Len(new) \in Nat /\ Len(new) > 0
      BY <1>2, <2>2
    <3> QED
      BY <3>1, ConcatProperties
  <2>4. \A i \in 1..Len(old), j \in 1..Len(new) : old[i] # new[j]
    <3>1. DOMAIN old = 1..Len(old) /\ DOMAIN new = 1..Len(new)
      OBVIOUS
    <3>2. Range(new) \cap Range(old) = {}
      BY <2>1, <2>2
    <3> QED
      BY <3>1, <3>2 DEF Range
  <2>5. IsInjective(old \o new)
    <3> SUFFICES ASSUME NEW i \in 1..Len(old \o new), NEW j \in 1..Len(old \o new),
                        (old \o new)[i] = (old \o new)[j]
                 PROVE  i = j
      BY <2>3 DEF IsInjective
    <3>1. \A k \in 1..Len(old \o new) : k > Len(old) => k - Len(old) \in 1..Len(new)
      BY <2>3
    <3>2. CASE i <= Len(old) /\ j <= Len(old)
      BY <1>2, <2>2, <2>3, <3>2 DEF IsInjective
    <3>3. CASE i > Len(old) /\ j > Len(old)
      <4>1. /\ i - Len(old) \in 1..Len(new) /\ j - Len(old) \in 1..Len(new)
            /\ new[i - Len(old)] = new[j - Len(old)]
        BY <2>3, <3>1, <3>3
      <4>2. i - Len(old) = j - Len(old)
        BY <1>2, <2>2, <4>1 DEF IsInjective
      <4> QED
        BY <4>2
    <3>4. CASE (i <= Len(old)) # (j <= Len(old))
      BY <2>3, <2>4, <3>1, <3>4
    <3> QED
      BY <3>2, <3>3, <3>4
  <2>6. old \o new \in Selections
    BY <2>3, <2>5, DistinctAreFew
  <2>7. Range(old \o new) \subseteq Existing
    <3>1. Range(old) \subseteq Existing /\ Range(new) \subseteq Existing
      BY <1>1, <2>1, <2>2 DEF Valid
    <3>2. \A i \in 1..Len(old \o new) : (old \o new)[i] \in Existing
      BY <2>3, <3>1 DEF Range
    <3> QED
      BY <2>3, <3>2 DEF Range
  <2>8. /\ assignment' \in Rows /\ assignment'.items = old \o new
        /\ assignment'.start = assignment.start /\ assignment'.end = assignment.end
    BY <1>1, <2>1, <2>2, <2>6 DEF Rows
  <2> QED
    BY <1>1, <1>3, <2>7, <2>8 DEF Valid
<1> QED
  BY <1>4, <1>5

LEMMA TypesRenumber ==
    ASSUME IInv, TypeInv, NEW e \in Edits, NEW p \in Ids, NEW q \in Ids, Renumber(e, p, q)
    PROVE  (assignment # Nothing => assignment \in Rows /\ Valid(assignment))'
<1> SUFFICES ASSUME assignment # Nothing
             PROVE  (assignment \in Rows /\ Valid(assignment))'
  BY DEF Renumber
<1> DEFINE old == assignment.items
           new == [i \in DOMAIN old |-> Renamed(p, q, old[i])]
<1>1. /\ p \in Existing /\ q \notin Existing
      /\ problems' = [problems EXCEPT ![p] = Nothing, ![q] = problems[p]]
      /\ assignment' = [assignment EXCEPT !.items = new]
      /\ assignment \in Rows /\ Valid(assignment)
  BY DEF Renumber, TypeInv
<1>2. old \in Seq(Ids) /\ IsInjective(old) /\ old # <<>> /\ Range(old) \subseteq Existing
  BY <1>1, SelectionsAreSequences DEF Rows, Selections, Valid
<1>3. \A x \in Existing : Renamed(p, q, x) \in Existing'
  BY <1>1 DEF Existing, Renamed, TypeInv
<1>4. \A i \in DOMAIN old : old[i] \in Existing
  BY <1>2 DEF Range
<1>5. new \in Seq(Ids) /\ new # <<>> /\ DOMAIN new = DOMAIN old
  BY <1>2 DEF Renamed
<1>6. IsInjective(new)
  BY <1>1, <1>2, <1>4, <1>5 DEF IsInjective, Renamed
<1>7. new \in Selections
  BY <1>5, <1>6, DistinctAreFew
<1>8. Range(new) \subseteq Existing'
  BY <1>3, <1>4, <1>5 DEF Range
<1>9. /\ assignment' \in Rows /\ assignment'.items = new
      /\ assignment'.start = assignment.start /\ assignment'.end = assignment.end
  BY <1>1, <1>7 DEF Rows
<1> QED
  BY <1>1, <1>8, <1>9 DEF Valid

LEMMA TypesUpdate ==
    ASSUME IInv, TypeInv, NEW e \in Edits, Update(e)
    PROVE  (assignment # Nothing => assignment \in Rows /\ Valid(assignment))'
<1>1. /\ assignment # Nothing /\ assignment \in Rows /\ Valid(assignment)
      /\ request[e].window \in Windows
      /\ NewValue(e, "start", assignment) < NewValue(e, "end", assignment)
      /\ assignment' = [assignment EXCEPT !.start = NewValue(e, "start", assignment),
                                          !.end = NewValue(e, "end", assignment)]
      /\ Existing' = Existing
  BY DEF Update, IInv, ComparedInv, TypeInv, Existing
<1>2. NewValue(e, "start", assignment) \in Starts /\ NewValue(e, "end", assignment) \in Ends
  BY <1>1 DEF NewValue, Windows, Rows
<1>3. /\ assignment' \in Rows /\ assignment'.items = assignment.items
      /\ assignment'.start = NewValue(e, "start", assignment)
      /\ assignment'.end = NewValue(e, "end", assignment)
  BY <1>1, <1>2 DEF Rows
<1> QED
  BY <1>1, <1>3 DEF Valid

\* An edit that leaves the tables well-formed, and the window to whoever holds the row.
LEMMA TypesOfEdit ==
    ASSUME IInv, TypeInv, NEW e \in Edits,
           request' = [request EXCEPT ![e] = request'[e]],
           lock' \in {lock, e, Nothing},
           lock' = e => At(e)' \in {"updating", "adding"},
           At(e)' \in {"compared", "updating"} => request'[e].window \in Windows,
           At(e)' = "updating" =>
               NewValue(e, "start", assignment)' < NewValue(e, "end", assignment)',
           (assignment # Nothing => assignment \in Rows /\ Valid(assignment))',
           \/ lock \in {e, Nothing}
           \/ assignment # Nothing => assignment'.start = assignment.start /\ assignment'.end = assignment.end,
           problems' \in [Ids -> Titles \cup {Nothing}],
           now' = now, excused' \subseteq Keys, overtaken' \subseteq Subs, faults' \in 0..MaxFaults
    PROVE  TypeInv'
<1>1. \A r \in Requests \ {e} : request'[r] = request[r]
  BY DEF IInv, TablesInv
<1>2. ASSUME NEW d \in Edits, d # e
      PROVE  /\ lock' = d => At(d)' \in {"updating", "adding"}
             /\ At(d)' \in {"compared", "updating"} => request'[d].window \in Windows
             /\ At(d)' = "updating" =>
                    NewValue(d, "start", assignment)' < NewValue(d, "end", assignment)'
  <2>1. request'[d] = request[d] /\ At(d)' = At(d) /\ d # Nothing
    BY <1>1, <1>2, AssignmentsAssumption DEF At, Requests
  <2>2. ASSUME At(d) = "updating"
        PROVE  NewValue(d, "start", assignment)' < NewValue(d, "end", assignment)'
    <3>1. lock = d /\ assignment # Nothing
      BY <2>2 DEF IInv, HolderInv, ComparedInv
    <3>2. assignment'.start = assignment.start /\ assignment'.end = assignment.end
      BY <1>2, <2>1, <3>1
    <3>3. NewValue(d, "start", assignment) < NewValue(d, "end", assignment)
      BY <2>2 DEF TypeInv
    <3> QED
      BY <2>1, <3>2, <3>3 DEF NewValue, Asks
  <2> QED
    BY <1>2, <2>1, <2>2 DEF TypeInv
<1>3. \A r \in Readers : At(r)' \in Fetching => request'[r].key \in Keys
  <2>1. \A r \in Readers : r # e /\ r \in Requests
    BY AssignmentsAssumption DEF Requests
  <2> QED
    BY <1>1, <2>1 DEF TypeInv, At
<1> QED
  BY <1>2, <1>3 DEF TypeInv

LEMMA TypesEdit ==
    ASSUME IInv, StaleInv, TypeInv, NEW e \in Edits, Edit(e)
    PROVE  TypeInv'
<1>1. e \in Requests
  BY DEF Requests
<1>2. \A next : Become(e, next) => request'[e] = next /\ request' = [request EXCEPT ![e] = request'[e]]
  BY <1>1 DEF Become, IInv, TablesInv
<1> DEFINE Idle(next) == next.at \notin {"compared", "updating", "adding"}
           SameBounds == /\ now' = now /\ overtaken' \subseteq Subs /\ excused' \subseteq Keys
                         /\ faults' \in 0..MaxFaults
           SameTables == UNCHANGED <<problems, assignment>>
<1>3. Idle(Done) /\ \A todo : Idle(Deleting(todo))
  BY DEF Deleting, Done
<1>4. SameTables => (assignment # Nothing => assignment \in Rows /\ Valid(assignment))'
  BY DEF TypeInv, Valid, Existing
<1>5. ASSUME NEW next, Idle(next), Become(e, next), lock' \in {lock, Nothing}, lock' # e, SameBounds,
             problems' = problems,
             (assignment # Nothing => assignment \in Rows /\ Valid(assignment))',
             assignment' = assignment \/ lock = e \/ assignment = Nothing
      PROVE  TypeInv'
  <2>1. At(e)' \notin {"compared", "updating", "adding"}
    BY <1>2, <1>5 DEF At
  <2> QED
    BY <1>2, <1>5, <2>1, TypesOfEdit DEF TypeInv
<1>6. At(e) \notin {"updating", "adding"} => lock # e
  BY DEF TypeInv
<1>18. ASSUME NEW todo \in Seq(Keys), NEW spared \in SUBSET Keys, Committed(e, todo, spared)
       PROVE  /\ excused' \subseteq Keys /\ faults' \in 0..MaxFaults
              /\ \E next : Idle(next) /\ Become(e, next)
  <2>1. Range(todo) \subseteq Keys
    BY DEF Range
  <2>2. UNCHANGED faults \/ Spend
    BY <1>18 DEF Committed
  <2>3. faults' \in 0..MaxFaults
    BY <2>2, FaultsAreBounded
  <2>4. excused' \subseteq Keys
    BY <1>18, <2>1 DEF Committed, TypeInv
  <2>5. Become(e, Done) \/ Become(e, Deleting(todo))
    BY <1>18 DEF Committed
  <2> QED
    BY <1>3, <2>3, <2>4, <2>5
<1>19. AssignmentKeys \in Seq(Keys) /\ <<"problems">> \in Seq(Keys) /\ {"detail"} \subseteq Keys
  BY DEF AssignmentKeys, Keys
<1>7. ASSUME NEW w \in Windows, NEW items \in Selections, Create(e, w, items) PROVE TypeInv'
  <2>1. (assignment # Nothing => assignment \in Rows /\ Valid(assignment))'
    BY <1>7 DEF Create, Rows, Windows, Valid, Existing
  <2>2. /\ At(e) = "new" /\ lock' = lock /\ UNCHANGED <<now, problems, overtaken>> /\ assignment = Nothing
        /\ Committed(e, AssignmentKeys, {})
    BY <1>7 DEF Create
  <2>3. PICK next : Idle(next) /\ Become(e, next)
    BY <1>18, <1>19, <2>2
  <2>4. SameBounds
    BY <1>18, <1>19, <2>2 DEF TypeInv
  <2> QED
    BY <1>5, <1>6, <2>1, <2>2, <2>3, <2>4
<1>8. ASSUME NEW w \in Windows, Compare(e, w) PROVE TypeInv'
  <2>1. CASE Become(e, Deleting(AssignmentKeys))
    BY <1>3, <1>4, <1>5, <1>6, <1>8, <2>1 DEF Compare, tables, histVars, TypeInv
  <2>2. CASE Become(e, [at |-> "compared", row |-> assignment, window |-> w])
    <3>1. At(e)' = "compared" /\ request'[e].window = w
      BY <1>2, <2>2 DEF At
    <3> QED
      BY <1>2, <1>4, <1>6, <1>8, <2>2, <3>1, TypesOfEdit DEF Compare, tables, histVars, TypeInv
  <2> QED
    BY <1>8, <2>1, <2>2 DEF Compare
<1>9. CASE LockForUpdate(e)
  <2>1. /\ At(e) = "compared" /\ lock = Nothing /\ SameTables /\ SameBounds
        /\ request[e] \in Forms /\ request[e].window \in Windows
    BY <1>9 DEF LockForUpdate, RowFree, tables, histVars, IInv, ComparedInv, TypeInv
  <2>2. CASE ~Allowed(e)
    BY <1>3, <1>4, <1>5, <1>6, <1>9, <2>1, <2>2 DEF LockForUpdate
  <2>3. CASE Allowed(e)
    <3>1. request'[e] = [request[e] EXCEPT !.at = "updating"] /\ lock' = e
      BY <1>2, <1>9, <2>3 DEF LockForUpdate
    <3>2. /\ request'[e].at = "updating" /\ request'[e].window = request[e].window
          /\ request'[e].row = request[e].row
      BY <2>1, <3>1 DEF Forms
    <3>3. NewValue(e, "start", assignment)' < NewValue(e, "end", assignment)'
      BY <2>1, <2>3, <3>2 DEF Allowed, NewValue, Asks, Old
    <3>4. request' = [request EXCEPT ![e] = request'[e]]
      BY <1>2, <1>9, <2>3 DEF LockForUpdate
    <3>5. now' = now /\ excused' \subseteq Keys /\ overtaken' \subseteq Subs /\ faults' \in 0..MaxFaults
      BY <2>1 DEF TypeInv
    <3>6. problems' \in [Ids -> Titles \cup {Nothing}]
      BY <2>1 DEF TypeInv
    <3> QED
      BY <1>4, <2>1, <3>1, <3>2, <3>3, <3>4, <3>5, <3>6, TypesOfEdit DEF At
  <2> QED
    BY <2>2, <2>3
<1>10. CASE Update(e)
  <2>1. lock = e /\ lock' = Nothing /\ lock' # e
    BY <1>10, AssignmentsAssumption DEF Update, IInv, HolderInv
  <2>2. Committed(e, AssignmentKeys, {}) /\ UNCHANGED <<now, problems, overtaken>>
    BY <1>10 DEF Update
  <2>3. PICK next : Idle(next) /\ Become(e, next)
    BY <1>18, <1>19, <2>2
  <2>4. SameBounds
    BY <1>18, <1>19, <2>2 DEF TypeInv
  <2> QED
    BY <1>5, <1>10, <2>1, <2>2, <2>3, <2>4, TypesUpdate
<1>20. CASE RollBack(e)
  <2>1. lock = e /\ lock' = Nothing /\ lock' # e
    BY <1>20, AssignmentsAssumption DEF RollBack, IInv, HolderInv
  <2>2. Become(e, Done) /\ SameTables /\ UNCHANGED <<now, excused, overtaken>> /\ Spend
    BY <1>20 DEF RollBack, tables, histVars
  <2>3. SameBounds
    BY <2>2, FaultsAreBounded DEF TypeInv
  <2> QED
    BY <1>3, <1>4, <1>5, <2>1, <2>2, <2>3
<1>11. ASSUME NEW items \in Selections, LockForAdd(e, items) PROVE TypeInv'
  <2>1. At(e) = "new" /\ lock = Nothing /\ SameTables /\ SameBounds
    BY <1>11 DEF LockForAdd, RowFree, tables, histVars, TypeInv
  <2>2. CASE now > assignment.end
    BY <1>3, <1>4, <1>5, <1>6, <1>11, <2>1, <2>2 DEF LockForAdd
  <2>3. CASE ~(now > assignment.end)
    <3>1. /\ request'[e].at = "adding" /\ lock' = e
          /\ request' = [request EXCEPT ![e] = request'[e]]
      BY <1>2, <1>11, <2>3 DEF LockForAdd
    <3>2. now' = now /\ excused' \subseteq Keys /\ overtaken' \subseteq Subs /\ faults' \in 0..MaxFaults
      BY <2>1 DEF TypeInv
    <3>3. problems' \in [Ids -> Titles \cup {Nothing}]
      BY <2>1 DEF TypeInv
    <3> QED
      BY <1>4, <2>1, <3>1, <3>2, <3>3, TypesOfEdit DEF At
  <2> QED
    BY <2>2, <2>3
<1>12. CASE Add(e)
  <2>1. lock = e /\ lock' = Nothing /\ lock' # e
    BY <1>12, AssignmentsAssumption DEF Add, IInv, HolderInv
  <2>2. UNCHANGED <<now, problems, overtaken>>
    BY <1>12 DEF Add
  <2>3. /\ excused' \subseteq Keys /\ faults' \in 0..MaxFaults
        /\ \E next : Idle(next) /\ Become(e, next)
    <3>1. CASE Committed(e, AssignmentKeys, {})
      BY <1>18, <1>19, <3>1
    <3>2. CASE Become(e, Done) /\ UNCHANGED <<excused, faults>>
      BY <1>3, <3>2 DEF TypeInv
    <3>3. CASE Become(e, [at |-> "collided"]) /\ UNCHANGED <<excused, faults>>
      BY <3>3 DEF TypeInv
    <3> QED
      BY <1>12, <3>1, <3>2, <3>3 DEF Add
  <2>4. PICK next : Idle(next) /\ Become(e, next)
    BY <2>3
  <2>5. SameBounds
    BY <2>2, <2>3 DEF TypeInv
  <2> QED
    BY <1>5, <1>12, <2>1, <2>2, <2>4, <2>5, TypesAdd
<1>13. CASE Del(e)
  <2>1. /\ At(e) = "deleting" /\ Become(e, Deleting(Tail(request[e].todo)))
        /\ SameTables /\ UNCHANGED <<now, lock, overtaken>>
        /\ UNCHANGED faults \/ Spend
    BY <1>13 DEF Del, tables
  <2>2. Head(request[e].todo) \in Keys
    BY <2>1 DEF StaleInv, CopiesInv
  <2>3. excused' \subseteq Keys /\ overtaken' \subseteq Subs /\ faults' \in 0..MaxFaults
    BY <1>13, <2>1, <2>2, FaultsAreBounded DEF Del, TypeInv
  <2>4. At(e)' \notin {"compared", "updating", "adding"}
    BY <1>2, <1>3, <2>1 DEF At
  <2>5. problems' \in [Ids -> Titles \cup {Nothing}]
    BY <2>1 DEF TypeInv
  <2> QED
    BY <1>2, <1>4, <1>6, <2>1, <2>3, <2>4, <2>5, TypesOfEdit
<1>14. ASSUME Catalog(e), overtaken' \subseteq Subs, problems' \in [Ids -> Titles \cup {Nothing}],
              (assignment # Nothing => assignment \in Rows /\ Valid(assignment))',
              assignment # Nothing => assignment'.start = assignment.start /\ assignment'.end = assignment.end
       PROVE  TypeInv'
  <2>1. At(e) = "new" /\ Committed(e, <<"problems">>, {"detail"}) /\ now' = now /\ lock' = lock
    BY <1>14 DEF Catalog
  <2>2. excused' \subseteq Keys /\ faults' \in 0..MaxFaults
    BY <1>18, <1>19, <2>1
  <2>3. PICK next : Idle(next) /\ Become(e, next)
    BY <1>18, <1>19, <2>1
  <2>4. At(e)' \notin {"compared", "updating", "adding"}
    BY <1>2, <2>3 DEF At
  <2> QED
    BY <1>2, <1>6, <1>14, <2>1, <2>2, <2>3, <2>4, TypesOfEdit
<1>15. ASSUME NEW p \in Ids, NEW t \in Titles, Title(e, p, t) PROVE TypeInv'
  <2>1. Existing \subseteq Existing' /\ problems' \in [Ids -> Titles \cup {Nothing}]
    BY <1>15, AssignmentsAssumption DEF Title, Existing, TypeInv
  <2>2. (assignment # Nothing => assignment \in Rows /\ Valid(assignment))'
    BY <1>15, <2>1 DEF Title, TypeInv, Valid
  <2> QED
    BY <1>14, <1>15, <2>1, <2>2 DEF Title, TypeInv
<1>16. ASSUME NEW p \in Ids, Delete(e, p) PROVE TypeInv'
  <2>1. /\ problems' = [problems EXCEPT ![p] = Nothing] /\ UNCHANGED <<assignment, overtaken>>
        /\ assignment # Nothing => p \notin Range(assignment.items)
    BY <1>16 DEF Delete
  <2>2. Existing \ {p} \subseteq Existing' /\ problems' \in [Ids -> Titles \cup {Nothing}]
    BY <2>1 DEF Existing, TypeInv
  <2>3. (assignment # Nothing => assignment \in Rows /\ Valid(assignment))'
    BY <2>1, <2>2 DEF TypeInv, Valid
  <2> QED
    BY <1>14, <1>16, <2>1, <2>2, <2>3 DEF Delete, TypeInv
<1>17. ASSUME NEW p \in Ids, NEW q \in Ids, Renumber(e, p, q) PROVE TypeInv'
  <2>1. problems' \in [Ids -> Titles \cup {Nothing}] /\ overtaken' \subseteq Subs
    BY <1>17 DEF Renumber, TypeInv
  <2>2. Catalog(e)
    BY <1>17 DEF Renumber
  <2> QED
    BY <1>14, <1>17, <2>1, <2>2, TypesRenumber, RenumberKeepsRow
<1> QED
  BY <1>7, <1>8, <1>9, <1>10, <1>11, <1>12, <1>13, <1>15, <1>16, <1>17, <1>20 DEF Edit

\* The tables, the lock and the requests of the assignments have their types.
THEOREM AssignmentsTypeCorrect == Spec => []TypeOK
<1>1. IInv /\ StaleInv /\ TypeInv /\ [Next]_vars => TypeInv'
  <2> SUFFICES ASSUME IInv, StaleInv, TypeInv, [Next]_vars PROVE TypeInv'
    OBVIOUS
  <2> QED
    BY TypesReader, TypesSubmission, TypesEdit, TypesBackground DEF Next
<1>2. IInv /\ TypeInv => TypeOK
  <2> SUFFICES ASSUME IInv, TypeInv PROVE TypeOK
    OBVIOUS
  <2>1. \A e \in Edits : lock = e <=> At(e) \in {"updating", "adding"}
    BY DEF IInv, HolderInv, TypeInv
  <2>2. \A e \in Edits : At(e) = "adding" => request[e].order = Len(assignment.items) + 1
    BY DEF IInv, HolderInv
  <2> QED
    BY <2>1, <2>2 DEF IInv, TablesInv, TypeInv, TypeOK
<1> QED
  BY Initially, Stepwise, StaleInitially, StaleStep, TypesInitially, <1>1, <1>2, PTL DEF Spec
=============================================================================
