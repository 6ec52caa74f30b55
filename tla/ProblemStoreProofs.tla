------------------------- MODULE ProblemStoreProofs -------------------------
(***************************************************************************)
(* Proofs about the problem store, for any number of problems, uploads,    *)
(* imports, edits and failures.                                            *)
(***************************************************************************)
EXTENDS ProblemStore, TLAPS

\* Past the first file an upload owns the keys of its test case.
Sending == {"halfway", "uploaded"}

\* An upload that is under way has a problem, and hashes once they are taken.
UploadInv ==
    \A h \in Uploads :
        /\ Active(h) => target[h] \in Ids
        /\ at[h] \in {"hashed"} \cup Sending => hash[h] \in [Halves -> Uploads]

\* What uploads to one case do while none got into another's way: the staged files
\* are the hashed ones or gone, the objects sent are the hashed ones, nobody
\* else sends and no row lives at these keys yet.
SendInv ==
    \A h \in Uploads : target[h] \notin contested =>
        /\ at[h] \in {"hashed", "halfway"} =>
               \A f \in Halves : staged[target[h]][f] \in {hash[h][f], Nothing}
        /\ at[h] \in Sending =>
               /\ object[<<target[h], "in">>] = hash[h]["in"]
               /\ \A g \in Uploads \ {h} : at[g] \in Sending => target[g] # target[h]
               /\ \A p \in Ids : row[p] # Nothing => row[p].place # target[h]
        /\ at[h] = "uploaded" => object[<<target[h], "out">>] = hash[h]["out"]

\* Somebody will still look at a complete pair, or has failed.
PairInv ==
    \A p \in Ids :
        Nothing \notin {staged[p][f] : f \in Halves} =>
            \/ p \in failed
            \/ \E h \in Uploads : target[h] = p /\ Active(h) /\ at[h] # "checked"

\* An import has its objects until it fails, and its row once it is done.
ImportInv ==
    \A i \in Imports :
        /\ at[i] = "allocated" => target[i] \in Ids
        /\ at[i] = "none" => \A f \in Halves : object[<<i, f>>] = Nothing
        /\ at[i] \in {"uploaded", "allocated"} => \A f \in Halves : object[<<i, f>>] = i
        /\ at[i] \in {"none", "uploaded", "allocated"} =>
               \A p \in Ids : row[p] # Nothing => row[p].place # i

IInv ==
    /\ TypeOK /\ UploadInv /\ SendInv /\ PairInv /\ ImportInv
    /\ RowsKeepTheirFiles /\ FailedImportsLeaveNothing

-----------------------------------------------------------------------------
LEMMA Initially == Init => IInv
<1> SUFFICES ASSUME Init PROVE IInv
  OBVIOUS
<1> USE StoreAssumption DEF Init
<1>1. TypeOK
  BY DEF TypeOK, Contents, Ended, Halves, Places, Keys
<1>2. UploadInv /\ SendInv
  BY DEF UploadInv, SendInv, Active, Ended, Sending, Contents
<1>3. PairInv
  BY DEF PairInv, Halves
<1>4. ImportInv
  BY DEF ImportInv, Contents, Keys, Places
<1>5. RowsKeepTheirFiles /\ FailedImportsLeaveNothing
  BY DEF RowsKeepTheirFiles, FailedImportsLeaveNothing, Contents
<1> QED
  BY <1>1, <1>2, <1>3, <1>4, <1>5 DEF IInv

\* Where the record of a row comes from.
LEMMA HashedRow ==
    ASSUME IInv, NEW h \in Uploads, at[h] = "uploaded"
    PROVE  /\ NewRow(h) \in Rows /\ NewRow(h).place = target[h] /\ target[h] \in Ids
           /\ NewRow(h).in = hash[h]["in"] /\ NewRow(h).out = hash[h]["out"]
<1>1. target[h] \in Ids /\ hash[h] \in [Halves -> Uploads]
  BY DEF IInv, UploadInv, Active, Ended, Sending
<1> QED
  BY <1>1 DEF NewRow, Rows, Places, Contents, Halves

\* What is sent and what is withdrawn are objects.
LEMMA SentType ==
    ASSUME IInv, NEW h \in Uploads, target[h] \in Ids, NEW f \in Halves
    PROVE  Sent(h, f) \in [Keys -> Contents \cup {Nothing}]
<1>1. staged[target[h]] \in [Halves -> Uploads \cup {Nothing}]
  BY DEF IInv, TypeOK
<1>2. staged[target[h]][f] \in Contents \cup {Nothing}
  BY <1>1 DEF Contents
<1> QED
  BY <1>2 DEF Sent, IInv, TypeOK

LEMMA WithdrawType ==
    ASSUME IInv, NEW h \in Uploads, target[h] \in Ids,
           NEW sent \in [Keys -> Contents \cup {Nothing}], NEW gone, Withdraw(h, sent, gone)
    PROVE  /\ object' \in [Keys -> Contents \cup {Nothing}] /\ failed' \subseteq Ids
           /\ at' = [at EXCEPT ![h] = "refused"]
  BY DEF Withdraw, Fails, Goto, IInv, TypeOK

\* An upload that the storage fails is refused, with no objects but those sent.
LEMMA UploadFailsHow ==
    ASSUME IInv, NEW h \in Uploads, NEW f \in Halves, NEW u, UploadFails(h, f, u)
    PROVE  /\ object' \in [Keys -> Contents \cup {Nothing}] /\ failed' \subseteq Ids
           /\ at' = [at EXCEPT ![h] = "refused"] /\ contested' \subseteq Ids
           /\ contested \subseteq contested' /\ failed \subseteq failed'
           /\ faults' \in 0..MaxFaults /\ target[h] \in Ids
<1>0. TypeOK
  BY DEF IInv
<1>1. target[h] \in Ids
  BY DEF UploadFails, IInv, UploadInv, Active, Ended
<1>2. PICK gone \in SUBSET u :
          \/ Withdraw(h, object, gone) /\ UNCHANGED contested
          \/ Withdraw(h, Sent(h, f), gone) /\ Contest(h)
  BY DEF UploadFails
<1>3. /\ object' \in [Keys -> Contents \cup {Nothing}] /\ failed' \subseteq Ids
      /\ at' = [at EXCEPT ![h] = "refused"]
  BY <1>0, <1>1, <1>2, SentType, WithdrawType DEF TypeOK
<1>4. contested' \subseteq Ids /\ contested \subseteq contested' /\ failed \subseteq failed'
  BY <1>0, <1>1, <1>2 DEF Contest, Withdraw, Fails, TypeOK
<1>5. faults' \in 0..MaxFaults
  BY <1>0, StoreAssumption DEF UploadFails, Spend, TypeOK
<1> QED
  BY <1>1, <1>3, <1>4, <1>5

LEMMA TypeStep == IInv /\ [Next]_vars => TypeOK'
<1> SUFFICES ASSUME IInv, [Next]_vars PROVE TypeOK'
  OBVIOUS
<1> USE StoreAssumption DEF boundVars, handlerVars, histVars, Goto, Spend, Edit
<1>0. TypeOK /\ Uploads \subseteq Contents /\ Imports \subseteq Contents
  BY DEF IInv, Contents
<1>1. ASSUME NEW h \in Uploads, UploadStep(h) PROVE TypeOK'
  <2>1. ASSUME NEW p \in Ids, NEW f \in Halves, Check(h, p, f) PROVE TypeOK'
    BY <1>0, <2>1 DEF Check, TypeOK
  <2>2. CASE Stage(h)
    <3>1. target[h] \in Ids /\ half[h] \in Halves /\ h \in Uploads \cup {Nothing}
      BY <1>0, <2>2 DEF Stage, IInv, UploadInv, Active, Ended, TypeOK
    <3>2. staged' \in [Ids -> [Halves -> Uploads \cup {Nothing}]]
      BY <1>0, <2>2, <3>1 DEF Stage, TypeOK
    <3> QED
      BY <1>0, <2>2, <3>1, <3>2 DEF Stage, TypeOK, Contest
  <2>3. CASE Look(h)
    BY <1>0, <2>3 DEF Look, TypeOK, Ended
  <2>4. CASE Hash(h)
    <3>1. target[h] \in Ids
      BY <1>0, <2>4 DEF Hash, IInv, UploadInv, Active, Ended
    <3>2. staged[target[h]] \in [Halves -> Uploads \cup {Nothing}]
      BY <1>0, <3>1 DEF TypeOK
    <3> QED
      BY <1>0, <2>4, <3>1, <3>2 DEF Hash, Fails, TypeOK, Ended
  <2>5. CASE Insert(h)
    <3>1. NewRow(h) \in Rows /\ target[h] \in Ids
      BY <2>5, HashedRow DEF Insert
    <3>2. row' \in [Ids -> Rows \cup {Nothing}]
      BY <1>0, <2>5, <3>1 DEF Insert, TypeOK
    <3>3. object' \in [Keys -> Contents \cup {Nothing}] /\ failed' \subseteq Ids
      <4>1. UNCHANGED <<object, failed>> \/ Withdraw(h, object, Halves)
        BY <2>5 DEF Insert
      <4>2. object \in [Keys -> Contents \cup {Nothing}] /\ failed \subseteq Ids
        BY <1>0 DEF TypeOK
      <4> QED
        BY <3>1, <4>1, <4>2, WithdrawType
    <3> QED
      BY <1>0, <2>5, <3>2, <3>3 DEF Insert, Withdraw, Fails, TypeOK, Ended
  <2>6. CASE InsertFails(h)
    <3>1. NewRow(h) \in Rows /\ target[h] \in Ids
      BY <2>6, HashedRow DEF InsertFails
    <3>2. row' \in [Ids -> Rows \cup {Nothing}]
      BY <1>0, <2>6, <3>1 DEF InsertFails, TypeOK
    <3>3. /\ object' \in [Keys -> Contents \cup {Nothing}] /\ failed' \subseteq Ids
          /\ at' = [at EXCEPT ![h] = "refused"]
      <4>1. object \in [Keys -> Contents \cup {Nothing}]
        BY <1>0 DEF TypeOK
      <4> QED
        BY <2>6, <3>1, <4>1, WithdrawType DEF InsertFails
    <3>4. lost' \subseteq Places
      BY <1>0, <2>6, <3>1 DEF InsertFails, TypeOK, Places
    <3> QED
      BY <1>0, <2>6, <3>2, <3>3, <3>4 DEF InsertFails, TypeOK, Ended
  <2>7. CASE CleanUp(h)
    BY <1>0, <2>7 DEF CleanUp, TypeOK, Ended
  <2>8. ASSUME NEW f \in Halves, NEW u, Upload(h, f, u) PROVE TypeOK'
    <3>1. target[h] \in Ids
      BY <1>0, <2>8 DEF Upload, IInv, UploadInv, Active, Ended
    <3>2. object \in [Keys -> Contents \cup {Nothing}]
      BY <1>0 DEF TypeOK
    <3>3. object' \in [Keys -> Contents \cup {Nothing}]
      BY <2>8, <3>1, <3>2, SentType, WithdrawType DEF Upload
    <3>4. failed' \subseteq Ids /\ contested' \subseteq Ids
      BY <1>0, <2>8, <3>1 DEF Upload, Withdraw, Fails, Contest, TypeOK
    <3>5. UNCHANGED <<problems, row, staged, target, half, hash, lost, left, boundVars>>
      BY <2>8 DEF Upload
    <3>6. at' \in [Contents -> Ended \cup {"checked", "written", "paired", "hashed", "halfway",
                                          "uploaded", "inserted", "allocated"}]
      <4>1. \/ at' = [at EXCEPT ![h] = "refused"]
            \/ at' = [at EXCEPT ![h] = IF f = "in" THEN "halfway" ELSE "uploaded"]
        BY <2>8 DEF Upload, Withdraw, Fails
      <4> QED
        BY <1>0, <4>1 DEF TypeOK, Ended
    <3> QED
      BY <1>0, <3>3, <3>4, <3>5, <3>6 DEF TypeOK
  <2>9. ASSUME NEW f \in Halves, NEW u, UploadFails(h, f, u) PROVE TypeOK'
    <3>1. /\ object' \in [Keys -> Contents \cup {Nothing}] /\ failed' \subseteq Ids
          /\ at' = [at EXCEPT ![h] = "refused"] /\ contested' \subseteq Ids
          /\ faults' \in 0..MaxFaults
      BY <2>9, UploadFailsHow
    <3>2. UNCHANGED <<problems, row, staged, target, half, hash, lost, left, edits>>
      BY <2>9 DEF UploadFails
    <3> QED
      BY <1>0, <3>1, <3>2 DEF TypeOK, Ended
  <2> QED
    BY <1>1, <2>1, <2>2, <2>3, <2>4, <2>5, <2>6, <2>7, <2>8, <2>9 DEF UploadStep, Halves
<1>2. ASSUME NEW i \in Imports, ImportStep(i) PROVE TypeOK'
  <2>1. i \in Contents /\ i \in Places
    BY <1>0 DEF Places
  <2>2. [place |-> i, in |-> i, out |-> i] \in Rows
    BY <2>1 DEF Rows
  <2>3. CASE UploadPackage(i)
    BY <1>0, <2>1, <2>3 DEF UploadPackage, Objects, ImportPlace, TypeOK, Ended
  <2>4. CASE EmptyStatement(i) \/ NoConnection(i) \/ Malformed(i)
    <3>1. at' \in {[at EXCEPT ![i] = "abandoned"], [at EXCEPT ![i] = "refused"]}
      BY <2>4 DEF EmptyStatement, NoConnection, Abandon, Malformed
    <3>2. faults' \in 0..MaxFaults
      BY <1>0, <2>4 DEF EmptyStatement, NoConnection, Malformed, TypeOK
    <3>3. UNCHANGED <<problems, row, object, staged, target, half, hash, histVars, edits>>
      BY <2>4 DEF EmptyStatement, NoConnection, Abandon, Malformed
    <3> QED
      BY <1>0, <3>1, <3>2, <3>3 DEF TypeOK, Ended
  <2>8. ASSUME NEW kept, Undo(i, kept)
        PROVE  /\ object' \in [Keys -> Contents \cup {Nothing}] /\ left' \subseteq Imports
               /\ at' = [at EXCEPT ![i] = "refused"]
    BY <1>0, <2>1, <2>8 DEF Undo, Objects, ImportPlace, TypeOK
  <2>9. CASE UploadPackageFails(i)
    <3>1. /\ object' \in [Keys -> Contents \cup {Nothing}] /\ left' \subseteq Imports
          /\ at' = [at EXCEPT ![i] = "refused"]
      BY <2>8, <2>9 DEF UploadPackageFails
    <3> QED
      BY <1>0, <2>1, <2>9, <3>1 DEF UploadPackageFails, TypeOK, Ended
  <2>7. CASE Allocate(i)
    <3>1. target' \in [Contents -> Ids \cup {Nothing}]
      BY <1>0, <2>1, <2>7 DEF Allocate, TypeOK
    <3> QED
      BY <1>0, <2>1, <2>7, <3>1 DEF Allocate, TypeOK, Ended
  <2>5. CASE Import(i)
    <3>1. target[i] \in Ids
      BY <2>5 DEF Import, IInv, ImportInv
    <3>2. row' \in [Ids -> Rows \cup {Nothing}] /\ problems' \subseteq Ids
      <4>1. Take(i) => /\ problems' = problems \cup {target[i]}
                       /\ row' = [row EXCEPT ![target[i]] = [place |-> i, in |-> i, out |-> i]]
        BY DEF Take, ImportPlace
      <4>2. Take(i) \/ UNCHANGED <<problems, row>>
        BY <2>5 DEF Import
      <4>3. row \in [Ids -> Rows \cup {Nothing}] /\ problems \subseteq Ids
        BY <1>0 DEF TypeOK
      <4>4. ASSUME NEW r \in Rows, row' = [row EXCEPT ![target[i]] = r]
            PROVE  row' \in [Ids -> Rows \cup {Nothing}]
        BY <3>1, <4>3, <4>4
      <4>5. CASE Take(i)
        BY <2>2, <3>1, <4>1, <4>3, <4>4, <4>5
      <4> QED
        BY <4>2, <4>3, <4>5
    <3>3. object' \in [Keys -> Contents \cup {Nothing}] /\ left' \subseteq Imports
      BY <1>0, <2>5, <2>8 DEF Import, TypeOK
    <3>4. at' \in {[at EXCEPT ![i] = "imported"], [at EXCEPT ![i] = "refused"]}
      BY <2>5, <2>8 DEF Import
    <3> QED
      BY <1>0, <2>5, <3>2, <3>3, <3>4 DEF Import, TypeOK, Ended
  <2>6. CASE ImportFails(i)
    <3>1. target[i] \in Ids
      BY <2>6 DEF ImportFails, IInv, ImportInv
    <3>2. row' \in [Ids -> Rows \cup {Nothing}] /\ problems' \subseteq Ids
      <4>1. Take(i) => /\ problems' = problems \cup {target[i]}
                       /\ row' = [row EXCEPT ![target[i]] = [place |-> i, in |-> i, out |-> i]]
        BY DEF Take, ImportPlace
      <4>2. Take(i) \/ UNCHANGED <<problems, row>>
        BY <2>6 DEF ImportFails
      <4>3. row \in [Ids -> Rows \cup {Nothing}] /\ problems \subseteq Ids
        BY <1>0 DEF TypeOK
      <4>4. ASSUME NEW r \in Rows, row' = [row EXCEPT ![target[i]] = r]
            PROVE  row' \in [Ids -> Rows \cup {Nothing}]
        BY <3>1, <4>3, <4>4
      <4>5. CASE Take(i)
        BY <2>2, <3>1, <4>1, <4>3, <4>4, <4>5
      <4> QED
        BY <4>2, <4>3, <4>5
    <3>3. /\ object' \in [Keys -> Contents \cup {Nothing}] /\ left' \subseteq Imports
          /\ at' = [at EXCEPT ![i] = "refused"]
      BY <2>6, <2>8 DEF ImportFails
    <3>4. lost' \subseteq Places
      BY <1>0, <2>1, <2>6 DEF ImportFails, TypeOK
    <3> QED
      BY <1>0, <2>6, <3>2, <3>3, <3>4 DEF ImportFails, TypeOK, Ended
  <2> QED
    BY <1>2, <2>3, <2>4, <2>5, <2>6, <2>7, <2>9 DEF ImportStep
<1>3. ASSUME NEW p \in Ids, NEW q \in Ids, Create(p) \/ Renumber(p, q) \/ Delete(p) PROVE TypeOK'
  <2>1. CASE Create(p)
    BY <1>0, <1>3, <2>1 DEF Create, TypeOK
  <2>2. CASE Renumber(p, q)
    <3>1. row' \in [Ids -> Rows \cup {Nothing}]
      BY <1>0, <1>3, <2>2 DEF Renumber, TypeOK
    <3> QED
      BY <1>0, <1>3, <2>2, <3>1 DEF Renumber, TypeOK
  <2>3. CASE Delete(p)
    BY <1>0, <1>3, <2>3 DEF Delete, TypeOK
  <2> QED
    BY <1>3, <2>1, <2>2, <2>3
<1>4. CASE Restart
  <2>1. failed' \subseteq Ids
    <3>1. \A h \in Uploads : Active(h) => target[h] \in Ids
      BY DEF IInv, UploadInv
    <3>2. failed \subseteq Ids
      BY <1>0 DEF TypeOK
    <3>3. failed' = failed \cup {target[h] : h \in {h \in Contents : Active(h)} \cap Uploads}
      BY <1>4 DEF Restart
    <3> QED
      BY <3>1, <3>2, <3>3
  <2>3. at' \in [Contents -> Ended \cup {"checked", "written", "paired", "hashed", "halfway",
                                        "uploaded", "inserted", "allocated"}]
    BY <1>0, <1>4 DEF Restart, TypeOK, Ended
  <2> QED
    BY <1>0, <1>4, <2>1, <2>3 DEF Restart, TypeOK
<1>5. CASE UNCHANGED vars
  BY <1>0, <1>5 DEF vars, TypeOK
<1> QED
  BY <1>1, <1>2, <1>3, <1>4, <1>5 DEF Next

-----------------------------------------------------------------------------
(* What a step does to the others.                                         *)

LEMMA UploadsAlone ==
    ASSUME IInv, NEW g \in Contents, NEW h \in Uploads, g # h, UploadStep(h)
    PROVE  /\ at'[g] = at[g] /\ target'[g] = target[g]
           /\ g \in Uploads => hash'[g] = hash[g]
<1>1. TypeOK /\ h \in Contents
  BY DEF IInv, Contents
<1> QED
  BY <1>1 DEF boundVars, handlerVars, histVars, Goto, UploadStep, Check, Stage, Look, Hash, Insert,
     InsertFails, CleanUp, Upload, UploadFails, Withdraw, Fails, TypeOK

LEMMA ImportsAlone ==
    ASSUME IInv, NEW g \in Contents, NEW i \in Imports, g # i, ImportStep(i)
    PROVE  /\ at'[g] = at[g] /\ target'[g] = target[g]
           /\ g \in Uploads => hash'[g] = hash[g]
<1>1. TypeOK /\ i \in Contents
  BY DEF IInv, Contents
<1> QED
  BY <1>1 DEF boundVars, handlerVars, histVars, Goto, ImportStep, UploadPackage, Malformed,
     UploadPackageFails, EmptyStatement, NoConnection, Abandon, Allocate, Import, ImportFails, Undo, TypeOK

\* An upload changes the objects of its own case only, and only when it has sent
\* one already or looks for conflicts as it sends.
LEMMA UploadObjects ==
    ASSUME IInv, NEW h \in Uploads, UploadStep(h), NEW x \in Places, NEW f \in Halves,
           object'[<<x, f>>] # object[<<x, f>>]
    PROVE  x = target[h] /\ (at[h] \in Sending \/ (Contest(h) /\ at[h] = "hashed"))
<1>0. object \in [Keys -> Contents \cup {Nothing}] /\ <<x, f>> \in Keys
  BY DEF IInv, TypeOK, Keys
<1>1. ~ UNCHANGED object
  OBVIOUS
<1>2. \/ Insert(h) \/ InsertFails(h)
      \/ Upload(h, "in", {}) \/ UploadFails(h, "in", {})
      \/ Upload(h, "out", {"in"}) \/ UploadFails(h, "out", {"in"})
  BY <1>1 DEF UploadStep, Check, Stage, Look, Hash, CleanUp
<1>3. ASSUME NEW u, Withdraw(h, object, u) PROVE x = target[h] /\ u # {}
  BY <1>0, <1>3 DEF Withdraw
<1>4. CASE Insert(h) \/ InsertFails(h)
  BY <1>1, <1>3, <1>4 DEF Insert, InsertFails, Sending
<1>8. ASSUME NEW e \in Halves, Sent(h, e)[<<x, f>>] # object[<<x, f>>] PROVE x = target[h]
  BY <1>0, <1>8 DEF Sent
<1>9. ASSUME NEW e \in Halves, NEW u, Withdraw(h, Sent(h, e), u) PROVE x = target[h]
  BY <1>0, <1>8, <1>9 DEF Withdraw
<1>5. ASSUME NEW e \in Halves, NEW u, Upload(h, e, u) PROVE x = target[h]
  BY <1>3, <1>5, <1>8 DEF Upload
<1>6. CASE Upload(h, "in", {}) \/ Upload(h, "out", {"in"})
  BY <1>5, <1>6 DEF Upload, Halves, Sending
<1>7. CASE UploadFails(h, "in", {}) \/ UploadFails(h, "out", {"in"})
  <2>1. ASSUME NEW e \in Halves, NEW u, UploadFails(h, e, u)
        PROVE  x = target[h] /\ (u # {} \/ Contest(h))
    <3>1. PICK gone \in SUBSET u :
              \/ Withdraw(h, object, gone) /\ UNCHANGED contested
              \/ /\ staged[target[h]][e] # Nothing
                 /\ Withdraw(h, Sent(h, e), gone) /\ Contest(h)
      BY <2>1 DEF UploadFails
    <3>2. gone # {} => u # {}
      OBVIOUS
    <3> QED
      BY <2>1, <3>1, <3>2, <1>3, <1>9
  <2> QED
    BY <1>7, <2>1 DEF UploadFails, Sending, Halves
<1> QED
  BY <1>2, <1>4, <1>6, <1>7

LEMMA ImportObjects ==
    ASSUME IInv, NEW i \in Imports, ImportStep(i), NEW x \in Places, x # i, NEW f \in Halves
    PROVE  object'[<<x, f>>] = object[<<x, f>>]
<1>0. object \in [Keys -> Contents \cup {Nothing}] /\ <<x, f>> \in Keys
  BY DEF IInv, TypeOK, Keys
<1>1. ASSUME NEW c, object' = Objects(i, c) PROVE object'[<<x, f>>] = object[<<x, f>>]
  BY <1>0, <1>1 DEF Objects, ImportPlace
<1>2. UNCHANGED object \/ \E c : object' = Objects(i, c)
  BY DEF ImportStep, UploadPackage, Malformed, UploadPackageFails, EmptyStatement, NoConnection,
     Abandon, Allocate, Import, ImportFails, Undo, histVars
<1> QED
  BY <1>1, <1>2

\* Where the rows of the next state come from.
LEMMA RowsMove ==
    ASSUME IInv, [Next]_vars, NEW p \in Ids, row'[p] # Nothing
    PROVE  \/ \E q \in Ids : row[q] # Nothing /\ row'[p] = row[q]
           \/ \E h \in Uploads : /\ UploadStep(h) /\ at[h] = "uploaded" /\ row'[p] = NewRow(h)
                                 /\ at'[h] = "inserted" \/ target[h] \in lost'
           \/ \E i \in Imports : /\ ImportStep(i) /\ at[i] = "allocated"
                                 /\ row'[p] = [place |-> i, in |-> i, out |-> i]
                                 /\ (at'[i] = "imported" /\ UNCHANGED object) \/ i \in lost'
<1>0. TypeOK
  BY DEF IInv
<1> DEFINE Kept == \E q \in Ids : row[q] # Nothing /\ row'[p] = row[q]
<1>1. UNCHANGED row => Kept
  OBVIOUS
<1> USE DEF boundVars, handlerVars, histVars, Goto
<1>2. ASSUME NEW h \in Uploads, UploadStep(h), ~Kept
      PROVE  /\ at[h] = "uploaded" /\ row'[p] = NewRow(h)
             /\ at'[h] = "inserted" \/ target[h] \in lost'
  <2>1. Insert(h) \/ InsertFails(h)
    BY <1>1, <1>2 DEF UploadStep, Check, Stage, Look, Hash, CleanUp, Upload, UploadFails
  <2>2. row' = [row EXCEPT ![target[h]] = NewRow(h)]
    BY <1>1, <1>2, <2>1 DEF Insert, InsertFails
  <2>3. p = target[h] /\ row'[p] = NewRow(h)
    BY <1>0, <1>2, <2>2 DEF TypeOK
  <2>4. h \in Contents
    BY DEF Contents
  <2> QED
    BY <1>0, <1>1, <1>2, <2>1, <2>3, <2>4 DEF Insert, InsertFails, TypeOK
<1>3. ASSUME NEW i \in Imports, ImportStep(i), ~Kept
      PROVE  /\ at[i] = "allocated" /\ row'[p] = [place |-> i, in |-> i, out |-> i]
             /\ (at'[i] = "imported" /\ UNCHANGED object) \/ i \in lost'
  <2>1. Import(i) \/ ImportFails(i)
    BY <1>1, <1>3 DEF ImportStep, UploadPackage, Malformed, UploadPackageFails, EmptyStatement,
       NoConnection, Abandon, Allocate
  <2>2. Take(i)
    BY <1>1, <1>3, <2>1 DEF Import, ImportFails
  <2>3. row'[p] = [place |-> i, in |-> i, out |-> i]
    <3>1. row' = [row EXCEPT ![target[i]] = [place |-> i, in |-> i, out |-> i]]
      BY <2>2 DEF Take, ImportPlace
    <3> QED
      BY <1>0, <1>3, <3>1 DEF TypeOK
  <2>4. i \in Contents
    BY DEF Contents
  <2> QED
    BY <1>0, <1>1, <1>3, <2>1, <2>3, <2>4 DEF Import, ImportFails, TypeOK
<1>4. ASSUME NEW q \in Ids, NEW r \in Ids, Create(q) \/ Renumber(q, r) \/ Delete(q) PROVE Kept
  BY <1>0, <1>1, <1>4 DEF Create, Renumber, Delete, TypeOK
<1>5. Restart \/ UNCHANGED vars => Kept
  BY <1>1 DEF Restart, vars
<1> QED
  BY <1>2, <1>3, <1>4, <1>5 DEF Next

-----------------------------------------------------------------------------
LEMMA UploadsStep == IInv /\ [Next]_vars => UploadInv'
<1> SUFFICES ASSUME IInv, [Next]_vars, NEW g \in Uploads
             PROVE  /\ Active(g)' => target'[g] \in Ids
                    /\ at'[g] \in {"hashed"} \cup Sending => hash'[g] \in [Halves -> Uploads]
  BY DEF UploadInv
<1>0. TypeOK /\ g \in Contents
  BY DEF IInv, Contents
<1>1. /\ Active(g) => target[g] \in Ids
      /\ at[g] \in {"hashed"} \cup Sending => hash[g] \in [Halves -> Uploads]
  BY DEF IInv, UploadInv
<1>2. ASSUME at'[g] = at[g], target'[g] = target[g], hash'[g] = hash[g]
      PROVE  /\ Active(g)' => target'[g] \in Ids
             /\ at'[g] \in {"hashed"} \cup Sending => hash'[g] \in [Halves -> Uploads]
  BY <1>1, <1>2 DEF Active
<1> USE DEF boundVars, handlerVars, histVars, Goto
<1>3. ASSUME UploadStep(g)
      PROVE  /\ Active(g)' => target'[g] \in Ids
             /\ at'[g] \in {"hashed"} \cup Sending => hash'[g] \in [Halves -> Uploads]
  <2>1. ASSUME NEW p \in Ids, NEW f \in Halves, Check(g, p, f)
        PROVE  target'[g] \in Ids /\ at'[g] = "checked"
    BY <1>0, <2>1 DEF Check, TypeOK
  <2>2. CASE Hash(g)
    <3>1. Active(g) /\ target'[g] = target[g] /\ target[g] \in Ids
      BY <1>1, <2>2 DEF Hash, Active, Ended
    <3>2. at'[g] \in {"refused", "hashed"}
      BY <1>0, <2>2 DEF Hash, Fails, TypeOK
    <3>3. at'[g] = "hashed" => hash'[g] = staged[target[g]]
                               /\ Nothing \notin {staged[target[g]][f] : f \in Halves}
      BY <1>0, <2>2 DEF Hash, Fails, TypeOK
    <3>4. staged[target[g]] \in [Halves -> Uploads \cup {Nothing}]
      BY <1>0, <3>1 DEF TypeOK
    <3>5. at'[g] = "hashed" => hash'[g] \in [Halves -> Uploads]
      BY <3>3, <3>4
    <3> QED
      BY <3>1, <3>2, <3>5 DEF Sending
  <2>3. ASSUME \/ Stage(g) \/ Look(g) \/ Insert(g) \/ InsertFails(g) \/ CleanUp(g)
               \/ Upload(g, "in", {}) \/ UploadFails(g, "in", {})
               \/ Upload(g, "out", {"in"}) \/ UploadFails(g, "out", {"in"})
        PROVE  /\ Active(g) /\ target'[g] = target[g] /\ hash'[g] = hash[g]
               /\ at'[g] \in {"hashed"} \cup Sending => at[g] \in {"hashed"} \cup Sending
    BY <1>0, <2>3 DEF Stage, Look, Insert, InsertFails, CleanUp, Upload, UploadFails, Withdraw, Fails,
       Active, Ended, Sending, TypeOK
  <2> QED
    BY <1>1, <1>3, <2>1, <2>2, <2>3 DEF UploadStep, Sending, Active
<1>4. ASSUME NEW h \in Uploads, UploadStep(h), h # g
      PROVE  at'[g] = at[g] /\ target'[g] = target[g] /\ hash'[g] = hash[g]
  <2>1. h \in Contents
    BY DEF Contents
  <2> QED
    BY <1>0, <1>4, <2>1, UploadsAlone
<1>5. ASSUME NEW i \in Imports, ImportStep(i)
      PROVE  at'[g] = at[g] /\ target'[g] = target[g] /\ hash'[g] = hash[g]
  BY <1>0, <1>5, ImportsAlone, StoreAssumption DEF Contents
<1>6. ASSUME NEW q \in Ids, NEW r \in Ids, Create(q) \/ Renumber(q, r) \/ Delete(q)
      PROVE  UNCHANGED handlerVars
  BY <1>6 DEF Create, Renumber, Delete
<1>7. CASE Restart
  <2>1. target' = target /\ hash' = hash /\ at'[g] \in {at[g], "dead"}
    BY <1>0, <1>7 DEF Restart, TypeOK
  <2> QED
    BY <1>1, <2>1 DEF Active, Ended, Sending
<1> QED
  BY <1>2, <1>3, <1>4, <1>5, <1>6, <1>7 DEF Next, vars

LEMMA ContestedGrows == IInv /\ [Next]_vars => contested \subseteq contested' /\ lost \subseteq lost' /\ left \subseteq left'
<1> SUFFICES ASSUME IInv, [Next]_vars PROVE contested \subseteq contested' /\ lost \subseteq lost' /\ left \subseteq left'
  OBVIOUS
<1> USE DEF boundVars, handlerVars, histVars
<1>1. ASSUME NEW h \in Uploads, UploadStep(h)
      PROVE  contested \subseteq contested' /\ lost \subseteq lost' /\ left \subseteq left'
  BY <1>1 DEF UploadStep, Check, Stage, Look, Hash, Insert, InsertFails, CleanUp, Upload,
     UploadFails, Contest
<1>2. ASSUME NEW i \in Imports, ImportStep(i)
      PROVE  contested \subseteq contested' /\ lost \subseteq lost' /\ left \subseteq left'
  BY <1>2 DEF ImportStep, UploadPackage, Malformed, UploadPackageFails, EmptyStatement, NoConnection,
     Abandon, Allocate, Import, ImportFails, Undo
<1> QED
  BY <1>1, <1>2 DEF Next, Create, Renumber, Delete, Restart, vars

\* A row at the keys of an upload, or another upload past its check, is a conflict.
LEMMA ConflictSeen ==
    ASSUME NEW h \in Uploads, Contest(h), target[h] \notin contested'
    PROVE  /\ \A p \in Ids : row[p] # Nothing => row[p].place # target[h]
           /\ \A g \in Uploads \ {h} : at[g] \in {"hashed"} \cup Sending => target[g] # target[h]
  BY DEF Contest, Conflict, Others, Active, Ended, Sending

\* An uncontested case stays as the upload under way believes it to be, whatever
\* another upload does.
LEMMA SendSafeFromUploads ==
    ASSUME IInv, NEW h \in Uploads, NEW g \in Uploads \ {h}, UploadStep(g),
           target[h] \notin contested', at[h] \in {"hashed"} \cup Sending
    PROVE  /\ at[h] \in {"hashed", "halfway"} =>
                  \A f \in Halves : staged'[target[h]][f] \in {hash[h][f], Nothing}
           /\ at[h] \in Sending =>
                  /\ \A f \in Halves : object'[<<target[h], f>>] = object[<<target[h], f>>]
                  /\ at'[g] \in Sending => target'[g] # target[h]
<1>0. TypeOK /\ g \in Contents
  BY DEF IInv, Contents
<1>1. [Next]_vars
  BY DEF Next
<1>2. target[h] \in Ids /\ target[h] \notin contested
  BY <1>1, ContestedGrows DEF IInv, UploadInv, Active, Ended, Sending
<1>3. Contest(g) => target[g] # target[h]
  <2>1. Contest(g) /\ target[g] = target[h] => FALSE
    BY ConflictSeen
  <2> QED
    BY <2>1
<1> USE DEF boundVars, handlerVars, histVars, Goto
<1>4. at[h] \in {"hashed", "halfway"} =>
          \A f \in Halves : staged'[target[h]][f] \in {hash[h][f], Nothing}
  <2>1. UNCHANGED staged \/ Stage(g) \/ CleanUp(g)
    BY DEF UploadStep, Check, Look, Hash, Insert, InsertFails, Upload, UploadFails
  <2>2. at[h] \in {"hashed", "halfway"} =>
            \A f \in Halves : staged[target[h]][f] \in {hash[h][f], Nothing}
    BY <1>2 DEF IInv, SendInv
  <2>3. CASE Stage(g)
    <3>1. target[g] # target[h]
      BY <1>3, <2>3 DEF Stage
    <3>2. staged'[target[h]] = staged[target[h]]
      BY <1>0, <1>2, <2>3, <3>1 DEF Stage, TypeOK
    <3> QED
      BY <2>2, <3>2
  <2>4. CASE CleanUp(g)
    <3>1. staged'[target[h]] = staged[target[h]] \/ staged'[target[h]] = [f \in Halves |-> Nothing]
      BY <1>0, <1>2, <2>4 DEF CleanUp, TypeOK
    <3> QED
      BY <2>2, <3>1
  <2> QED
    BY <2>1, <2>2, <2>3, <2>4
<1>5. ASSUME at[h] \in Sending, NEW f \in Halves
      PROVE  object'[<<target[h], f>>] = object[<<target[h], f>>]
  <2>1. at[g] \in Sending => target[g] # target[h]
    BY <1>2, <1>5 DEF IInv, SendInv
  <2> QED
    BY <1>2, <1>3, <2>1, UploadObjects DEF Places
<1>6. ASSUME at[h] \in Sending, at'[g] \in Sending
      PROVE  target'[g] # target[h]
  <2>1. Upload(g, "in", {}) \/ Upload(g, "out", {"in"})
    BY <1>0, <1>6 DEF UploadStep, Check, Stage, Look, Hash, Insert, InsertFails, CleanUp, UploadFails,
       Withdraw, Fails, Sending, TypeOK
  <2>2. Contest(g) /\ target'[g] = target[g]
    BY <2>1 DEF Upload
  <2> QED
    BY <1>3, <2>2
<1> QED
  BY <1>4, <1>5, <1>6

LEMMA SendStep == IInv /\ [Next]_vars => SendInv'
<1> SUFFICES ASSUME IInv, [Next]_vars, NEW h \in Uploads, target'[h] \notin contested',
                    at'[h] \in {"hashed"} \cup Sending
             PROVE  /\ at'[h] \in {"hashed", "halfway"} =>
                           \A f \in Halves : staged'[target'[h]][f] \in {hash'[h][f], Nothing}
                    /\ at'[h] \in Sending =>
                           /\ object'[<<target'[h], "in">>] = hash'[h]["in"]
                           /\ \A g \in Uploads \ {h} : at'[g] \in Sending => target'[g] # target'[h]
                           /\ \A p \in Ids : row'[p] # Nothing => row'[p].place # target'[h]
                    /\ at'[h] = "uploaded" => object'[<<target'[h], "out">>] = hash'[h]["out"]
  BY DEF SendInv, Sending
<1>0. TypeOK /\ h \in Contents
  BY DEF IInv, Contents
<1>1. target'[h] \notin contested
  BY ContestedGrows
<1> USE DEF boundVars, handlerVars, histVars, Goto
\* Steps of others.
<1>2. ASSUME at'[h] = at[h], target'[h] = target[h], hash'[h] = hash[h],
             at[h] \in {"hashed", "halfway"} =>
                 \A f \in Halves : staged'[target[h]][f] \in {hash[h][f], Nothing},
             at[h] \in Sending =>
                 /\ \A f \in Halves : object'[<<target[h], f>>] = object[<<target[h], f>>]
                 /\ \A g \in Uploads \ {h} : at'[g] \in Sending => target'[g] # target[h]
                 /\ \A p \in Ids : row'[p] # Nothing => row'[p].place # target[h]
      PROVE  /\ at'[h] \in {"hashed", "halfway"} =>
                    \A f \in Halves : staged'[target'[h]][f] \in {hash'[h][f], Nothing}
             /\ at'[h] \in Sending =>
                    /\ object'[<<target'[h], "in">>] = hash'[h]["in"]
                    /\ \A g \in Uploads \ {h} : at'[g] \in Sending => target'[g] # target'[h]
                    /\ \A p \in Ids : row'[p] # Nothing => row'[p].place # target'[h]
             /\ at'[h] = "uploaded" => object'[<<target'[h], "out">>] = hash'[h]["out"]
  <2>1. target[h] \notin contested
    BY <1>1, <1>2
  <2>2. /\ at[h] \in Sending => object[<<target[h], "in">>] = hash[h]["in"]
        /\ at[h] = "uploaded" => object[<<target[h], "out">>] = hash[h]["out"]
    BY <2>1 DEF IInv, SendInv
  <2>3. at[h] \in Sending => /\ object'[<<target[h], "in">>] = object[<<target[h], "in">>]
                             /\ object'[<<target[h], "out">>] = object[<<target[h], "out">>]
    BY <1>2 DEF Halves
  <2> QED
    BY <1>2, <2>2, <2>3 DEF Sending
<1>3. ASSUME ~UploadStep(h), at'[h] = at[h], target'[h] = target[h], at[h] \in Sending
      PROVE  \A p \in Ids : row'[p] # Nothing => row'[p].place # target[h]
  <2> SUFFICES ASSUME NEW p \in Ids, row'[p] # Nothing PROVE row'[p].place # target[h]
    OBVIOUS
  <2>0. target[h] \in Ids /\ target[h] \notin contested
    BY <1>1, <1>3 DEF IInv, UploadInv, Active, Ended, Sending
  <2>1. CASE \E q \in Ids : row[q] # Nothing /\ row'[p] = row[q]
    BY <1>3, <2>0, <2>1 DEF IInv, SendInv
  <2>2. ASSUME NEW g \in Uploads, UploadStep(g), at[g] = "uploaded", row'[p] = NewRow(g)
        PROVE  row'[p].place # target[h]
    <3>1. g \in Uploads \ {h} /\ at[g] \in Sending
      BY <1>3, <2>2 DEF Sending
    <3>2. target[g] # target[h]
      BY <1>3, <2>0, <3>1 DEF IInv, SendInv
    <3> QED
      BY <2>2, <3>2, HashedRow
  <2>3. ASSUME NEW i \in Imports, row'[p] = [place |-> i, in |-> i, out |-> i]
        PROVE  row'[p].place # target[h]
    BY <2>0, <2>3, StoreAssumption
  <2> QED
    BY <2>1, <2>2, <2>3, RowsMove
<1>4. ASSUME NEW g \in Uploads, UploadStep(g), g # h, ~UploadStep(h)
      PROVE  /\ at'[h] = at[h] /\ target'[h] = target[h] /\ hash'[h] = hash[h]
             /\ at[h] \in {"hashed", "halfway"} =>
                    \A f \in Halves : staged'[target[h]][f] \in {hash[h][f], Nothing}
             /\ at[h] \in Sending =>
                    /\ \A f \in Halves : object'[<<target[h], f>>] = object[<<target[h], f>>]
                    /\ \A k \in Uploads \ {h} : at'[k] \in Sending => target'[k] # target[h]
  <2>1. g \in Contents
    BY DEF Contents
  <2>2. at'[h] = at[h] /\ target'[h] = target[h] /\ hash'[h] = hash[h]
    BY <1>0, <1>4, <2>1, UploadsAlone
  <2>3. target[h] \notin contested' /\ target[h] \notin contested /\ at[h] \in {"hashed"} \cup Sending
    BY <1>1, <2>2
  <2>4. /\ at[h] \in {"hashed", "halfway"} =>
               \A f \in Halves : staged'[target[h]][f] \in {hash[h][f], Nothing}
        /\ at[h] \in Sending =>
               /\ \A f \in Halves : object'[<<target[h], f>>] = object[<<target[h], f>>]
               /\ at'[g] \in Sending => target'[g] # target[h]
    BY <1>4, <2>3, SendSafeFromUploads
  <2>5. ASSUME NEW k \in Uploads \ {h}, k # g, at[h] \in Sending, at'[k] \in Sending
        PROVE  target'[k] # target[h]
    <3>1. k \in Contents
      BY DEF Contents
    <3>2. at'[k] = at[k] /\ target'[k] = target[k]
      BY <1>4, <2>1, <2>5, <3>1, UploadsAlone
    <3> QED
      BY <2>3, <2>5, <3>2 DEF IInv, SendInv
  <2> QED
    BY <2>2, <2>4, <2>5
<1>5. ASSUME NEW i \in Imports, ImportStep(i)
      PROVE  /\ at'[h] = at[h] /\ target'[h] = target[h] /\ hash'[h] = hash[h]
             /\ staged' = staged
             /\ at[h] \in Sending =>
                    \A f \in Halves : object'[<<target[h], f>>] = object[<<target[h], f>>]
             /\ \A k \in Uploads : at'[k] = at[k] /\ target'[k] = target[k]
  <2>1. i \in Contents /\ \A k \in Uploads : k \in Contents /\ k # i
    BY StoreAssumption DEF Contents
  <2>2. \A k \in Uploads : at'[k] = at[k] /\ target'[k] = target[k] /\ hash'[k] = hash[k]
    BY <1>5, <2>1, ImportsAlone
  <2>3. staged' = staged
    BY <1>5 DEF ImportStep, UploadPackage, Malformed, UploadPackageFails, EmptyStatement, NoConnection,
       Abandon, Allocate, Import, ImportFails
  <2>4. at[h] \in Sending => target[h] \in Places /\ target[h] # i
    BY StoreAssumption DEF IInv, UploadInv, Active, Ended, Sending, Places
  <2> QED
    BY <1>5, <2>2, <2>3, <2>4, ImportObjects
<1>6. ASSUME NEW q \in Ids, NEW r \in Ids, Create(q) \/ Renumber(q, r) \/ Delete(q)
      PROVE  UNCHANGED <<object, staged, handlerVars>>
  BY <1>6 DEF Create, Renumber, Delete
<1>7. Restart => at[h] \in {"hashed"} \cup Sending /\ at'[h] = "dead"
  BY <1>0 DEF Restart, TypeOK, Active, Ended, Sending
\* Steps of its own.
<1>8. ASSUME UploadStep(h)
      PROVE  /\ at'[h] \in {"hashed", "halfway"} =>
                    \A f \in Halves : staged'[target'[h]][f] \in {hash'[h][f], Nothing}
             /\ at'[h] \in Sending =>
                    /\ object'[<<target'[h], "in">>] = hash'[h]["in"]
                    /\ \A g \in Uploads \ {h} : at'[g] \in Sending => target'[g] # target'[h]
                    /\ \A p \in Ids : row'[p] # Nothing => row'[p].place # target'[h]
             /\ at'[h] = "uploaded" => object'[<<target'[h], "out">>] = hash'[h]["out"]
  <2>1. Hash(h) \/ Upload(h, "in", {}) \/ Upload(h, "out", {"in"})
    BY <1>0, <1>8 DEF UploadStep, Check, Stage, Look, Insert, InsertFails, CleanUp, UploadFails,
       Withdraw, Fails, Sending, TypeOK
  <2>2. CASE Hash(h)
    <3>1. at'[h] = "hashed" /\ hash'[h] = staged[target[h]] /\ UNCHANGED <<staged, target>>
      BY <1>0, <2>2 DEF Hash, Fails, TypeOK, Sending
    <3> QED
      BY <3>1 DEF Sending
  <2>3. ASSUME NEW e \in Halves, NEW u, Upload(h, e, u)
        PROVE  /\ UNCHANGED <<staged, row, target, hash>> /\ Contest(h)
               /\ object' = Sent(h, e)
               /\ staged[target[h]][e] # Nothing /\ target[h] \in Ids /\ target[h] \notin contested
               /\ at[h] = (IF e = "in" THEN "hashed" ELSE "halfway")
               /\ at'[h] = (IF e = "in" THEN "halfway" ELSE "uploaded")
    <3>1. staged[target[h]][e] # Nothing
      BY <1>0, <2>3 DEF Upload, Withdraw, Fails, TypeOK, Sending
    <3>2. target[h] \in Ids
      BY <2>3 DEF Upload, IInv, UploadInv, Active, Ended, Sending
    <3>3. UNCHANGED <<staged, row, target, hash>> /\ Contest(h) /\ target[h] \notin contested
      BY <1>1, <2>3 DEF Upload
    <3> QED
      BY <1>0, <2>3, <3>1, <3>2, <3>3 DEF Upload, TypeOK
  <2>4. ASSUME Upload(h, "in", {}) \/ Upload(h, "out", {"in"})
        PROVE  /\ \A g \in Uploads \ {h} : at'[g] \in Sending => target'[g] # target'[h]
               /\ \A p \in Ids : row'[p] # Nothing => row'[p].place # target'[h]
    <3>1. UNCHANGED <<row, target>> /\ Contest(h)
      BY <2>4 DEF Upload
    <3>2. \A g \in Uploads \ {h} : at'[g] = at[g]
      BY <1>0, <1>8, UploadsAlone DEF Contents
    <3> QED
      BY <3>1, <3>2, ConflictSeen
  <2>5. object \in [Keys -> Contents \cup {Nothing}]
    BY <1>0 DEF TypeOK
  <2>6. CASE Upload(h, "in", {})
    <3>1. /\ UNCHANGED <<staged, target, hash>> /\ at[h] = "hashed" /\ at'[h] = "halfway"
          /\ object' = Sent(h, "in")
          /\ staged[target[h]]["in"] # Nothing /\ target[h] \in Ids /\ target[h] \notin contested
      BY <2>3, <2>6 DEF Halves
    <3>2. \A f \in Halves : staged[target[h]][f] \in {hash[h][f], Nothing}
      BY <3>1 DEF IInv, SendInv
    <3>3. staged[target[h]]["in"] = hash[h]["in"]
      BY <3>1, <3>2 DEF Halves
    <3>4. <<target[h], "in">> \in Keys
      BY <3>1 DEF Keys, Places, Halves
    <3> QED
      BY <2>4, <2>5, <2>6, <3>1, <3>2, <3>3, <3>4 DEF Sent
  <2>7. CASE Upload(h, "out", {"in"})
    <3>1. /\ UNCHANGED <<staged, target, hash>> /\ at[h] = "halfway" /\ at'[h] = "uploaded"
          /\ object' = Sent(h, "out")
          /\ staged[target[h]]["out"] # Nothing /\ target[h] \in Ids /\ target[h] \notin contested
      BY <2>3, <2>7 DEF Halves
    <3>2. /\ \A f \in Halves : staged[target[h]][f] \in {hash[h][f], Nothing}
          /\ object[<<target[h], "in">>] = hash[h]["in"]
      BY <3>1 DEF IInv, SendInv, Sending
    <3>3. staged[target[h]]["out"] = hash[h]["out"]
      BY <3>1, <3>2 DEF Halves
    <3>4. <<target[h], "in">> \in Keys /\ <<target[h], "out">> \in Keys
      BY <3>1 DEF Keys, Places, Halves
    <3> QED
      BY <2>4, <2>5, <2>7, <3>1, <3>2, <3>3, <3>4 DEF Sent
  <2> QED
    BY <2>1, <2>2, <2>6, <2>7
<1>9. ASSUME ~UploadStep(h), UNCHANGED <<object, staged, handlerVars>>
      PROVE  /\ at'[h] \in {"hashed", "halfway"} =>
                    \A f \in Halves : staged'[target'[h]][f] \in {hash'[h][f], Nothing}
             /\ at'[h] \in Sending =>
                    /\ object'[<<target'[h], "in">>] = hash'[h]["in"]
                    /\ \A g \in Uploads \ {h} : at'[g] \in Sending => target'[g] # target'[h]
                    /\ \A p \in Ids : row'[p] # Nothing => row'[p].place # target'[h]
             /\ at'[h] = "uploaded" => object'[<<target'[h], "out">>] = hash'[h]["out"]
  BY <1>1, <1>2, <1>3, <1>9 DEF IInv, SendInv
<1>10. CASE \E i \in Imports : ImportStep(i) /\ ~UploadStep(h)
  <2>1. /\ at'[h] = at[h] /\ target'[h] = target[h] /\ hash'[h] = hash[h]
        /\ staged' = staged
        /\ at[h] \in Sending =>
               \A f \in Halves : object'[<<target[h], f>>] = object[<<target[h], f>>]
        /\ \A k \in Uploads : at'[k] = at[k] /\ target'[k] = target[k]
    BY <1>5, <1>10
  <2>2. target[h] \notin contested
    BY <1>1, <2>1
  <2> QED
    BY <1>2, <1>3, <1>10, <2>1, <2>2 DEF IInv, SendInv
<1>11. CASE \E g \in Uploads : UploadStep(g) /\ ~UploadStep(h)
  BY <1>2, <1>3, <1>4, <1>11
<1> QED
  BY <1>6, <1>7, <1>8, <1>9, <1>10, <1>11 DEF Next, vars, Sending

-----------------------------------------------------------------------------
\* A complete pair has an upload that has yet to look, to hash or to send it.
LEMMA PairStep == IInv /\ [Next]_vars => PairInv'
<1> SUFFICES ASSUME IInv, [Next]_vars, NEW p \in Ids, Nothing \notin {staged'[p][f] : f \in Halves}
             PROVE  \/ p \in failed'
                    \/ \E h \in Uploads : target'[h] = p /\ Active(h)' /\ at'[h] # "checked"
  BY DEF PairInv
<1>0. TypeOK /\ Uploads \subseteq Contents /\ Imports \subseteq Contents
  BY DEF IInv, Contents
<1> USE DEF boundVars, handlerVars, histVars, Goto
<1>1. failed \subseteq failed'
  BY DEF Next, vars, UploadStep, Check, Stage, Look, Hash, Insert, InsertFails, CleanUp, Upload,
     UploadFails, Withdraw, Fails, ImportStep, UploadPackage, Malformed, UploadPackageFails,
     EmptyStatement, NoConnection, Abandon, Allocate, Import, ImportFails, Create, Renumber, Delete, Restart
<1>2. ASSUME staged'[p] = staged[p]
      PROVE  p \in failed \/ \E h \in Uploads : target[h] = p /\ Active(h) /\ at[h] # "checked"
  BY <1>2 DEF IInv, PairInv
<1>3. ASSUME NEW g \in Uploads, UploadStep(g)
      PROVE  \/ p \in failed'
             \/ \E h \in Uploads : target'[h] = p /\ Active(h)' /\ at'[h] # "checked"
  <2>1. CASE Stage(g) /\ target[g] = p
    <3>1. target'[g] = p /\ at'[g] = "written"
      BY <1>0, <2>1 DEF Stage, TypeOK
    <3> QED
      BY <3>1 DEF Active, Ended
  <2>2. CASE CleanUp(g) /\ target[g] = p
    <3>1. staged'[p] = [f \in Halves |-> Nothing]
      BY <1>0, <2>2 DEF CleanUp, TypeOK
    <3> QED
      BY <3>1 DEF Halves
  <2>3. CASE ~(Stage(g) \/ CleanUp(g)) \/ target[g] # p
    <3>1. staged'[p] = staged[p]
      <4>1. UNCHANGED staged \/ Stage(g) \/ CleanUp(g)
        BY <1>3 DEF UploadStep, Check, Look, Hash, Insert, InsertFails, Upload, UploadFails
      <4> QED
        BY <1>0, <2>3, <4>1 DEF Stage, CleanUp, TypeOK
    <3> SUFFICES ASSUME p \notin failed' PROVE \E h \in Uploads : target'[h] = p /\ Active(h)' /\ at'[h] # "checked"
      OBVIOUS
    <3>2. PICK h \in Uploads : target[h] = p /\ Active(h) /\ at[h] # "checked"
      BY <1>1, <1>2, <3>1
    <3>3. CASE h # g
      <4>1. at'[h] = at[h] /\ target'[h] = target[h]
        BY <1>0, <1>3, <3>3, UploadsAlone
      <4> QED
        BY <3>2, <4>1 DEF Active
    <3>4. CASE h = g
      <4>1. target'[g] = p /\ at'[g] \in {"paired", "hashed", "halfway", "uploaded", "inserted"}
        <5>1. ~CleanUp(g) /\ ~Stage(g)
          BY <2>3, <3>2, <3>4
        <5>2. ASSUME Look(g) PROVE target'[g] = p /\ at'[g] = "paired"
          <6>1. half[g] \in Halves
            BY <1>0 DEF TypeOK
          <6>2. Paired(g)
            BY <3>1, <3>2, <3>4, <6>1 DEF Paired, Other, Halves
          <6> QED
            BY <1>0, <3>2, <3>4, <5>2, <6>2 DEF Look, TypeOK
        <5>3. ASSUME NEW u, NEW e, Upload(g, e, u) \/ UploadFails(g, e, u)
              PROVE  target'[g] = p /\ at'[g] \in {"halfway", "uploaded"}
          BY <1>0, <3>2, <3>4, <5>3 DEF Upload, UploadFails, Withdraw, Fails, TypeOK
        <5>4. ASSUME Hash(g) \/ Insert(g) \/ InsertFails(g)
              PROVE  target'[g] = p /\ at'[g] \in {"hashed", "inserted"}
          BY <1>0, <3>2, <3>4, <5>4 DEF Hash, Insert, InsertFails, Withdraw, Fails, TypeOK
        <5>5. ASSUME NEW q, NEW f, Check(g, q, f) PROVE FALSE
          BY <3>2, <3>4, <5>5 DEF Check, Active, Ended
        <5> QED
          BY <1>3, <5>1, <5>2, <5>3, <5>4, <5>5 DEF UploadStep
      <4> QED
        BY <4>1 DEF Active, Ended
    <3> QED
      BY <3>3, <3>4
  <2> QED
    BY <2>1, <2>2, <2>3
<1>4. ASSUME staged' = staged, \A h \in Uploads : at'[h] = at[h] /\ target'[h] = target[h]
      PROVE  \/ p \in failed'
             \/ \E h \in Uploads : target'[h] = p /\ Active(h)' /\ at'[h] # "checked"
  BY <1>1, <1>2, <1>4 DEF Active
<1>5. ASSUME NEW i \in Imports, ImportStep(i)
      PROVE  staged' = staged /\ \A h \in Uploads : at'[h] = at[h] /\ target'[h] = target[h]
  <2>1. staged' = staged
    BY <1>5 DEF ImportStep, UploadPackage, Malformed, UploadPackageFails, EmptyStatement, NoConnection,
       Abandon, Allocate, Import, ImportFails
  <2> QED
    BY <1>0, <1>5, <2>1, ImportsAlone, StoreAssumption
<1>6. ASSUME NEW q \in Ids, NEW r \in Ids, Create(q) \/ Renumber(q, r) \/ Delete(q)
      PROVE  UNCHANGED <<staged, handlerVars>>
  BY <1>6 DEF Create, Renumber, Delete
<1>7. ASSUME Restart PROVE p \in failed'
  <2>1. staged'[p] = staged[p]
    BY <1>7 DEF Restart
  <2>2. failed' = failed \cup {target[h] : h \in {h \in Contents : Active(h)} \cap Uploads}
    BY <1>7 DEF Restart
  <2> QED
    BY <1>0, <1>2, <2>1, <2>2
<1> QED
  BY <1>3, <1>4, <1>5, <1>6, <1>7 DEF Next, vars

-----------------------------------------------------------------------------
\* A row whose keys nobody fought over is backed by the objects it names.
LEMMA RowsStep == IInv /\ [Next]_vars => RowsKeepTheirFiles'
<1> SUFFICES ASSUME IInv, [Next]_vars, NEW p \in Ids, row'[p] # Nothing,
                    row'[p].place \notin contested' \cup lost'
             PROVE  \A f \in Halves : object'[<<row'[p].place, f>>] = row'[p][f]
  BY DEF RowsKeepTheirFiles, Backed
<1>0. TypeOK /\ contested \subseteq contested' /\ lost \subseteq lost' /\ left \subseteq left'
  BY ContestedGrows DEF IInv
<1> USE DEF boundVars, handlerVars, histVars, Goto
<1>1. ASSUME NEW q \in Ids, row[q] # Nothing, row'[p] = row[q]
      PROVE  \A f \in Halves : object'[<<row'[p].place, f>>] = row'[p][f]
  <2> DEFINE x == row[q].place
  <2>1. x \in Places /\ x \notin contested' \cup lost'
    <3>1. row[q] \in Rows
      BY <1>0, <1>1 DEF TypeOK
    <3> QED
      BY <1>1, <3>1 DEF Rows
  <2>2. \A f \in Halves : object[<<x, f>>] = row[q][f]
    BY <1>0, <1>1, <2>1 DEF IInv, RowsKeepTheirFiles, Backed
  <2>3. ASSUME NEW f \in Halves, NEW g \in Uploads, UploadStep(g)
        PROVE  object'[<<x, f>>] = object[<<x, f>>]
    <3> SUFFICES ASSUME object'[<<x, f>>] # object[<<x, f>>] PROVE FALSE
      OBVIOUS
    <3>1. x = target[g] /\ (at[g] \in Sending \/ Contest(g))
      BY <2>1, <2>3, UploadObjects
    <3>2. CASE at[g] \in Sending
      BY <1>0, <1>1, <2>1, <3>1, <3>2 DEF IInv, SendInv
    <3>3. CASE Contest(g)
      BY <1>1, <2>1, <3>1, <3>3, ConflictSeen
    <3> QED
      BY <3>1, <3>2, <3>3
  <2>4. ASSUME NEW f \in Halves, NEW i \in Imports, ImportStep(i)
        PROVE  object'[<<x, f>>] = object[<<x, f>>]
    <3>1. CASE x # i
      BY <2>1, <2>4, <3>1, ImportObjects
    <3>2. CASE x = i
      <4>1. at[i] \notin {"none", "uploaded", "allocated"}
        BY <1>1, <3>2 DEF IInv, ImportInv
      <4> QED
        BY <2>4, <4>1 DEF ImportStep, UploadPackage, Malformed, UploadPackageFails, EmptyStatement,
           NoConnection, Abandon, Allocate, Import, ImportFails
    <3> QED
      BY <3>1, <3>2
  <2>5. ASSUME NEW r \in Ids, NEW t \in Ids, Create(r) \/ Renumber(r, t) \/ Delete(r)
        PROVE  UNCHANGED object
    BY <2>5 DEF Create, Renumber, Delete
  <2>6. Restart \/ UNCHANGED vars => UNCHANGED object
    BY DEF Restart, vars
  <2>7. \A f \in Halves : object'[<<x, f>>] = object[<<x, f>>]
    BY <2>3, <2>4, <2>5, <2>6 DEF Next
  <2> QED
    BY <1>1, <2>2, <2>7
<1>2. ASSUME NEW h \in Uploads, UploadStep(h), at[h] = "uploaded", row'[p] = NewRow(h),
             at'[h] = "inserted" \/ target[h] \in lost'
      PROVE  \A f \in Halves : object'[<<row'[p].place, f>>] = row'[p][f]
  <2>1. /\ row'[p].place = target[h] /\ target[h] \in Ids
        /\ row'[p].in = hash[h]["in"] /\ row'[p].out = hash[h]["out"]
    BY <1>2, HashedRow
  <2>2. at'[h] = "inserted" /\ target[h] \notin contested
    BY <1>0, <1>2, <2>1
  <2>3. UNCHANGED object
    <3>1. h \in Contents
      BY DEF Contents
    <3> QED
      BY <1>0, <1>2, <2>2, <3>1 DEF UploadStep, Check, Stage, Look, Hash, Insert, InsertFails, CleanUp,
         Upload, UploadFails, Withdraw, Fails, TypeOK
  <2>4. object[<<target[h], "in">>] = hash[h]["in"] /\ object[<<target[h], "out">>] = hash[h]["out"]
    BY <1>2, <2>2 DEF IInv, SendInv, Sending
  <2> QED
    BY <2>1, <2>3, <2>4 DEF Halves
<1>3. ASSUME NEW i \in Imports, ImportStep(i), at[i] = "allocated",
             row'[p] = [place |-> i, in |-> i, out |-> i],
             (at'[i] = "imported" /\ UNCHANGED object) \/ i \in lost'
      PROVE  \A f \in Halves : object'[<<row'[p].place, f>>] = row'[p][f]
  <2>1. row'[p].place = i /\ row'[p]["in"] = i /\ row'[p]["out"] = i
    BY <1>3
  <2>2. UNCHANGED object
    BY <1>3, <2>1
  <2>3. \A f \in Halves : object[<<i, f>>] = i
    BY <1>3 DEF IInv, ImportInv
  <2> QED
    BY <2>1, <2>2, <2>3 DEF Halves
<1> QED
  BY <1>1, <1>2, <1>3, RowsMove

-----------------------------------------------------------------------------
\* No upload, edit or other import touches the objects and the row of an import.
LEMMA ImportKept ==
    ASSUME IInv, [Next]_vars, NEW i \in Imports, ~ImportStep(i)
    PROVE  /\ \A f \in Halves : object'[<<i, f>>] = object[<<i, f>>]
           /\ (at'[i] = at[i] /\ target'[i] = target[i]) \/ Restart
           /\ (\A p \in Ids : row[p] # Nothing => row[p].place # i)
                  => \A p \in Ids : row'[p] # Nothing => row'[p].place # i
<1>0. TypeOK /\ i \in Contents /\ i \in Places /\ i \notin Ids /\ i \notin Uploads
  BY StoreAssumption DEF IInv, Contents, Places
<1> USE DEF boundVars, handlerVars, histVars
<1>1. ASSUME NEW f \in Halves PROVE object'[<<i, f>>] = object[<<i, f>>]
  <2>1. ASSUME NEW h \in Uploads, UploadStep(h), object'[<<i, f>>] # object[<<i, f>>] PROVE FALSE
    <3>1. i = target[h] /\ at[h] \in {"hashed"} \cup Sending
      BY <1>0, <2>1, UploadObjects
    <3> QED
      BY <1>0, <3>1 DEF IInv, UploadInv, Active, Ended, Sending
  <2>2. ASSUME NEW k \in Imports, ImportStep(k) PROVE object'[<<i, f>>] = object[<<i, f>>]
    BY <1>0, <2>2, ImportObjects
  <2>3. ASSUME NEW r \in Ids, NEW t \in Ids, Create(r) \/ Renumber(r, t) \/ Delete(r)
        PROVE  UNCHANGED object
    BY <2>3 DEF Create, Renumber, Delete
  <2> QED
    BY <2>1, <2>2, <2>3 DEF Next, Restart, vars
<1>2. (at'[i] = at[i] /\ target'[i] = target[i]) \/ Restart
  <2>1. ASSUME NEW h \in Uploads, UploadStep(h) PROVE at'[i] = at[i] /\ target'[i] = target[i]
    BY <1>0, <2>1, UploadsAlone
  <2>2. ASSUME NEW k \in Imports, ImportStep(k) PROVE at'[i] = at[i] /\ target'[i] = target[i]
    BY <1>0, <2>2, ImportsAlone
  <2>3. ASSUME NEW r \in Ids, NEW t \in Ids, Create(r) \/ Renumber(r, t) \/ Delete(r)
        PROVE  UNCHANGED handlerVars
    BY <2>3 DEF Create, Renumber, Delete
  <2> QED
    BY <2>1, <2>2, <2>3 DEF Next, vars
<1>3. ASSUME \A q \in Ids : row[q] # Nothing => row[q].place # i, NEW p \in Ids, row'[p] # Nothing
      PROVE  row'[p].place # i
  <2>1. ASSUME NEW h \in Uploads, at[h] = "uploaded", row'[p] = NewRow(h) PROVE row'[p].place # i
    BY <1>0, <2>1, HashedRow
  <2>2. ASSUME NEW k \in Imports, ImportStep(k), row'[p] = [place |-> k, in |-> k, out |-> k]
        PROVE  row'[p].place # i
    BY <2>2
  <2> QED
    BY <1>3, <2>1, <2>2, RowsMove
<1> QED
  BY <1>1, <1>2, <1>3

\* What an import does itself, step by step.
LEMMA ImportMoves ==
    ASSUME IInv, NEW i \in Imports, ImportStep(i)
    PROVE  \/ /\ at[i] = "none" /\ at'[i] = "uploaded" /\ UNCHANGED row
              /\ \A f \in Halves : object'[<<i, f>>] = i
           \/ at[i] = "none" /\ at'[i] = "refused" /\ UNCHANGED <<object, row>>
           \/ /\ at[i] = "uploaded" /\ at'[i] = "allocated" /\ UNCHANGED <<object, row>>
              /\ target'[i] \in Ids
           \/ at[i] \in {"uploaded", "allocated"} /\ at'[i] = "abandoned" /\ UNCHANGED row
           \/ /\ at[i] \in {"none", "allocated"} /\ at'[i] = "refused"
              /\ UNCHANGED row \/ i \in lost'
              /\ i \in left' \/ \A f \in Halves : object'[<<i, f>>] = Nothing
           \/ at[i] = "allocated" /\ at'[i] = "imported"
<1>0. TypeOK /\ i \in Contents
  BY DEF IInv, Contents
<1>1. \A f \in Halves : <<i, f>> \in Keys
  BY DEF Keys, Places
<1> USE DEF boundVars, handlerVars, histVars, Goto
<1>2. CASE UploadPackage(i)
  BY <1>0, <1>1, <1>2 DEF UploadPackage, Objects, ImportPlace, TypeOK
<1>3. CASE EmptyStatement(i) \/ NoConnection(i) \/ Allocate(i) \/ Malformed(i)
  BY <1>0, <1>3 DEF EmptyStatement, NoConnection, Abandon, Allocate, Malformed, TypeOK
<1>4. ASSUME NEW kept, Undo(i, kept)
      PROVE  /\ at'[i] = "refused"
             /\ i \in left' \/ \A f \in Halves : object'[<<i, f>>] = Nothing
  BY <1>0, <1>1, <1>4 DEF Undo, Objects, ImportPlace, TypeOK
<1>5. CASE UploadPackageFails(i)
  BY <1>4, <1>5 DEF UploadPackageFails
<1>6. CASE Import(i)
  BY <1>0, <1>4, <1>6 DEF Import, TypeOK
<1>7. CASE ImportFails(i)
  BY <1>4, <1>7 DEF ImportFails
<1> QED
  BY <1>2, <1>3, <1>5, <1>6, <1>7 DEF ImportStep

LEMMA ImportsStep == IInv /\ [Next]_vars => ImportInv' /\ FailedImportsLeaveNothing'
<1> SUFFICES ASSUME IInv, [Next]_vars, NEW i \in Imports
             PROVE  /\ at'[i] = "allocated" => target'[i] \in Ids
                    /\ at'[i] = "none" => \A f \in Halves : object'[<<i, f>>] = Nothing
                    /\ at'[i] \in {"uploaded", "allocated"} => \A f \in Halves : object'[<<i, f>>] = i
                    /\ at'[i] \in {"none", "uploaded", "allocated"} =>
                           \A p \in Ids : row'[p] # Nothing => row'[p].place # i
                    /\ at'[i] \in {"refused", "abandoned"} /\ i \notin lost' =>
                           \A p \in Ids : row'[p] # Nothing => row'[p].place # i
                    /\ at'[i] = "refused" /\ i \notin left' =>
                           \A f \in Halves : object'[<<i, f>>] = Nothing
  BY DEF ImportInv, FailedImportsLeaveNothing
<1>0. /\ at[i] = "allocated" => target[i] \in Ids
      /\ at[i] = "none" => \A f \in Halves : object[<<i, f>>] = Nothing
      /\ at[i] \in {"uploaded", "allocated"} => \A f \in Halves : object[<<i, f>>] = i
      /\ at[i] \in {"none", "uploaded", "allocated"} =>
             \A p \in Ids : row[p] # Nothing => row[p].place # i
      /\ at[i] \in {"refused", "abandoned"} /\ i \notin lost =>
             \A p \in Ids : row[p] # Nothing => row[p].place # i
      /\ at[i] = "refused" /\ i \notin left => \A f \in Halves : object[<<i, f>>] = Nothing
  BY DEF IInv, ImportInv, FailedImportsLeaveNothing
<1>1. CASE ImportStep(i)
  BY <1>0, <1>1, ImportMoves
<1>2. CASE ~ImportStep(i)
  <2>1. ASSUME Restart
        PROVE  \/ at'[i] = at[i] /\ target'[i] = target[i]
               \/ at'[i] = "dead"
    BY <2>1 DEF Restart, handlerVars, IInv, TypeOK, Contents
  <2>2. lost \subseteq lost' /\ left \subseteq left'
    BY ContestedGrows
  <2> QED
    BY <1>0, <1>2, <2>1, <2>2, ImportKept
<1> QED
  BY <1>1, <1>2

-----------------------------------------------------------------------------

LEMMA Stepwise == IInv /\ [Next]_vars => IInv'
  BY TypeStep, UploadsStep, SendStep, PairStep, ImportsStep, RowsStep DEF IInv

\* The whole invariant of the store.
THEOREM StoreInductive == Spec => []IInv
<1>1. Init => IInv
  BY Initially
<1>2. IInv /\ [Next]_vars => IInv'
  BY Stepwise
<1> QED
  BY <1>1, <1>2, PTL DEF Spec

\* Types are right in every state.
THEOREM StoreTypeCorrect == Spec => []TypeOK
<1>1. IInv => TypeOK
  BY DEF IInv
<1> QED
  BY <1>1, StoreInductive, PTL

\* A row whose keys no two uploads fought over, and whose transaction was answered,
\* names objects that are there and have its hashes.
THEOREM RowsAreBacked == Spec => []RowsKeepTheirFiles
<1>1. IInv => RowsKeepTheirFiles
  BY DEF IInv
<1> QED
  BY <1>1, StoreInductive, PTL

\* Two halves of a test case never wait for each other in the staging directory.
THEOREM PairsAreSeen == Spec => []PairIsNeverMissed
<1>1. IInv => PairIsNeverMissed
  BY DEF IInv, PairInv, PairIsNeverMissed
<1> QED
  BY <1>1, StoreInductive, PTL

\* An import that fails leaves no rows unless a commit's answer was lost, and, where the
\* code cleans up, no objects unless the storage would not delete them.
THEOREM RefusedImportsVanish == Spec => []FailedImportsLeaveNothing
<1>1. IInv => FailedImportsLeaveNothing
  BY DEF IInv
<1> QED
  BY <1>1, StoreInductive, PTL
=============================================================================
