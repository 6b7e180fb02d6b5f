--------------------------- MODULE Masters_proofs ---------------------------
(***************************************************************************)
(* Theorems of the companies, for every set of CINs, files and overlapping *)
(* requests, and of the LLPs and their working papers, for every set of    *)
(* LLPs, returns, payloads and overlapping requests.                       *)
(***************************************************************************)
EXTENDS Companies, Papers, SequenceTheorems, TLAPS

-----------------------------------------------------------------------------
(* The companies.                                                          *)

(* An insert gives the row a name and makes it live.                       *)
Complete(w) == w.at = 0 => w.deleted = "no" /\ w.name # None

CompleteRequest(r) ==
    /\ r.step # "idle" => \A c \in Cins : r.wrote[c] # None => Complete(r.wrote[c])
    /\ r.step = "flush" => Complete(r.write)

(* What is written and not committed leaves at most one live row of the    *)
(* CIN, and only one transaction has written to a CIN.                     *)
Allowed ==
    \A q \in Requests, c \in Cins :
        Holds(q, c) => IndexAllows(c, req[q].wrote[c])
OneHolder ==
    \A p, q \in Requests, c \in Cins : Holds(p, c) /\ Holds(q, c) => p = q

IInv ==
    /\ TypeOK
    /\ OneLive
    /\ Allowed
    /\ OneHolder
    /\ \A q \in Requests : CompleteRequest(req[q])

-----------------------------------------------------------------------------
(* The fields of a request.                                                *)
LEMMA RequestShapes ==
    ASSUME NEW r \in Request
    PROVE  /\ r.step \in {"idle", "read", "flush"}
           /\ r.step # "idle" => r.todo \in Seq(Record) /\ r.wrote \in Wrote
           /\ r.step = "flush" => r.cin \in Cins /\ r.write \in Write
<1>1. CASE r = Idle
    BY <1>1 DEF Idle
<1>2. CASE r \in [step: {"read"}, todo: Seq(Record), wrote: Wrote]
    BY <1>2
<1>3. CASE r \in [step: {"flush"}, todo: Seq(Record), wrote: Wrote, cin: Cins, write: Write]
    BY <1>3
<1> QED
    BY <1>1, <1>2, <1>3 DEF Request

(* A request to flush a complete write of a CIN, nothing new being written. *)
LEMMA ToFlushTyped ==
    ASSUME NEW todo \in Seq(Record), NEW wrote \in Wrote, NEW c \in Cins, NEW w \in Write,
           Complete(w), \A d \in Cins : wrote[d] # None => Complete(wrote[d])
    PROVE  LET r == ToFlush(todo, wrote, c, w) IN
               r \in Request /\ CompleteRequest(r) /\ r.step # "idle" /\ r.wrote = wrote
BY DEF ToFlush, Request, CompleteRequest

(* The insert, or the update of the only row of the CIN.                   *)
LEMMA UpsertTyped ==
    ASSUME TypeOK, NEW r \in Record, NEW n \in ByCin(r.cin)
    PROVE  Upsert(r, n) \in Write /\ Complete(Upsert(r, n))
<1>1. r.cin \in Cins /\ r.name \in Names
    BY DEF Record
<1>2. company[r.cin] \in Seq(Row)
    BY <1>1 DEF TypeOK
<1>3. n \in Nat /\ (n # 0 => n \in DOMAIN company[r.cin])
    BY <1>2 DEF ByCin
<1>4. CASE n = 0
    BY <1>1, <1>4, CompaniesAssumption DEF Upsert, Write, Complete
<1>5. CASE n # 0
    <2>1. Upsert(r, n) = [at |-> n, name |-> IF company[r.cin][n].name = r.name THEN None ELSE r.name,
                          deleted |-> IF company[r.cin][n].deleted THEN "no" ELSE "same"]
        BY <1>5 DEF Upsert
    <2> QED
        BY <1>1, <1>3, <1>5, <2>1 DEF Write, Complete
<1> QED
    BY <1>4, <1>5

-----------------------------------------------------------------------------
(* A request moves on to r and writes nothing new: the invariant is about  *)
(* the writes, and stays.                                                  *)
LEMMA ReadsKeepIInv ==
    ASSUME IInv, NEW q \in Requests, NEW r \in Request, Reads(q, r), CompleteRequest(r),
           \/ r.step = "idle" \/ r.wrote = NothingWritten
           \/ ~At(q, "idle") /\ r.wrote = req[q].wrote
    PROVE  IInv'
<1>1. /\ company' = company /\ req' \in [Requests -> Request] /\ req'[q] = r
      /\ \A p \in Requests : p # q => req'[p] = req[p]
    BY DEF Reads, IInv, TypeOK
<1>2. \A p \in Requests, c \in Cins :
          Holds(p, c)' => Holds(p, c) /\ req'[p].wrote[c] = req[p].wrote[c]
    BY <1>1 DEF Holds, At, NothingWritten
<1>3. TypeOK' /\ OneLive'
    BY <1>1 DEF IInv, TypeOK, OneLive
<1>4. Allowed'
    <2>1. \A p \in Requests, c \in Cins : Holds(p, c)' => IndexAllows(c, req'[p].wrote[c])
        BY <1>2 DEF IInv, Allowed
    <2> QED
        BY <1>1, <2>1 DEF Allowed, IndexAllows
<1>5. OneHolder'
    BY <1>2 DEF IInv, OneHolder
<1>6. \A p \in Requests : CompleteRequest(req'[p])
    BY <1>1 DEF IInv
<1> QED
    BY <1>3, <1>4, <1>5, <1>6 DEF IInv

LEMMA NothingWrittenTyped ==
    NothingWritten \in Wrote /\ \A c \in Cins : NothingWritten[c] = None
BY DEF NothingWritten, Wrote

LEMMA FormsKeepIInv ==
    ASSUME IInv, NEW q \in Requests, NEW c \in Cins, NEW w \in Write, Complete(w),
           Reads(q, ToFlush(<<>>, NothingWritten, c, w))
    PROVE  IInv'
<1> DEFINE r == ToFlush(<<>>, NothingWritten, c, w)
<1>1. <<>> \in Seq(Record)
    OBVIOUS
<1>2. r \in Request /\ CompleteRequest(r) /\ r.wrote = NothingWritten
    BY <1>1, NothingWrittenTyped, ToFlushTyped
<1>3. Reads(q, r)
    OBVIOUS
<1> HIDE DEF r
<1> QED
    BY <1>2, <1>3, ReadsKeepIInv

LEMMA StartsKeepIInv ==
    ASSUME IInv, NEW q \in Requests, Starts(q)
    PROVE  IInv'
<1>1. ASSUME NEW c \in Typed, NEW name \in Names, Create(q, [cin |-> c, name |-> name])
      PROVE  IInv'
    <2> DEFINE r == [cin |-> c, name |-> name]
    <2>1. r \in Record /\ r.cin = c /\ c \in Cins
        BY CompaniesAssumption DEF Record
    <2>2. PICK n \in ByCin(c) : Reads(q, ToFlush(<<>>, NothingWritten, c, Upsert(r, n)))
        BY <1>1 DEF Create
    <2>3. Upsert(r, n) \in Write /\ Complete(Upsert(r, n))
        BY <2>1, UpsertTyped DEF IInv
    <2> QED
        BY <2>1, <2>2, <2>3, FormsKeepIInv
<1>2. ASSUME NEW c \in Cins, NEW n \in DOMAIN company[c], NEW w,
             \/ \E name \in Names : w = [at |-> n, name |-> name, deleted |-> "same"]
             \/ w = [at |-> n, name |-> None, deleted |-> "yes"],
             Reads(q, ToFlush(<<>>, NothingWritten, c, w))
      PROVE  IInv'
    <2>1. n \in Nat \ {0}
        BY DEF IInv, TypeOK
    <2>2. w \in Write /\ Complete(w)
        BY <1>2, <2>1 DEF Write, Complete
    <2> QED
        BY <1>2, <2>2, FormsKeepIInv
<1>3. ASSUME NEW c \in Cins, NEW name \in Names, NEW n \in DOMAIN company[c],
             Update(q, c, n, name)
      PROVE  IInv'
    BY <1>2, <1>3 DEF Update
<1>4. ASSUME NEW c \in Cins, NEW n \in DOMAIN company[c], Delete(q, c, n) PROVE IInv'
    BY <1>2, <1>4 DEF Delete
<1>5. ASSUME NEW f \in Files, Import(q, f) PROVE IInv'
    <2> DEFINE r == [step |-> "read", todo |-> f, wrote |-> NothingWritten]
    <2>1. r \in Request /\ CompleteRequest(r) /\ r.wrote = NothingWritten
        BY CompaniesAssumption, NothingWrittenTyped DEF Request, CompleteRequest
    <2>2. Reads(q, r)
        BY <1>5 DEF Import
    <2> HIDE DEF r
    <2> QED
        BY <2>1, <2>2, ReadsKeepIInv
<1> QED
    BY <1>1, <1>3, <1>4, <1>5 DEF Starts

LEMMA ImportRowKeepsIInv ==
    ASSUME IInv, NEW q \in Requests, ImportRow(q)
    PROVE  IInv'
<1>1. SUFFICES ASSUME NEW old, old = req[q] PROVE IInv'
    OBVIOUS
<1> DEFINE r == Head(old.todo)
           rest == Tail(old.todo)
<1>2. /\ old \in Request /\ CompleteRequest(old) /\ old.step = "read"
      /\ old.todo \in Seq(Record) /\ old.todo # <<>> /\ old.wrote \in Wrote
    BY <1>1, RequestShapes DEF IInv, TypeOK, ImportRow, At
<1>3. r \in Record /\ rest \in Seq(Record)
    BY <1>2
<1>4. PICK n \in ByCin(r.cin) :
          Reads(q, IF AsListed(r, n) THEN [old EXCEPT !.todo = rest]
                   ELSE ToFlush(rest, old.wrote, r.cin, Upsert(r, n)))
    BY <1>1 DEF ImportRow
<1>5. CASE AsListed(r, n)
    <2> DEFINE new == [old EXCEPT !.todo = rest]
    <2>1. old \in [step: {"read"}, todo: Seq(Record), wrote: Wrote]
        BY <1>2 DEF Request, Idle
    <2>2. new \in Request /\ new.step = "read" /\ new.wrote = old.wrote
        BY <1>3, <2>1 DEF Request
    <2>3. CompleteRequest(new)
        BY <1>2, <2>2 DEF CompleteRequest
    <2>4. Reads(q, new)
        BY <1>4, <1>5
    <2> HIDE DEF new
    <2> QED
        BY <1>1, <1>2, <2>2, <2>3, <2>4, ReadsKeepIInv DEF At
<1>6. CASE ~AsListed(r, n)
    <2> DEFINE new == ToFlush(rest, old.wrote, r.cin, Upsert(r, n))
    <2>1. r.cin \in Cins
        BY <1>3 DEF Record
    <2>2. Upsert(r, n) \in Write /\ Complete(Upsert(r, n))
        BY <1>3, UpsertTyped DEF IInv
    <2>3. new \in Request /\ CompleteRequest(new) /\ new.wrote = old.wrote
        <3>1. \A d \in Cins : old.wrote[d] # None => Complete(old.wrote[d])
            BY <1>2 DEF CompleteRequest
        <3> HIDE DEF r, rest
        <3> QED
            BY <1>2, <1>3, <2>1, <2>2, <3>1, ToFlushTyped
    <2>4. Reads(q, new)
        BY <1>4, <1>6
    <2> HIDE DEF new
    <2> QED
        BY <1>1, <1>2, <2>3, <2>4, ReadsKeepIInv DEF At
<1> QED
    BY <1>5, <1>6

LEMMA GivesUpKeepsIInv ==
    ASSUME IInv, NEW q \in Requests, Reads(q, Idle)
    PROVE  IInv'
<1>1. Idle \in Request /\ CompleteRequest(Idle) /\ Idle.step = "idle"
    BY DEF Idle, Request, CompleteRequest
<1> QED
    BY <1>1, ReadsKeepIInv

(* A flush: nobody else holds the CIN, and the index allows the write.     *)
LEMMA FlushKeepsIInv ==
    ASSUME IInv, NEW q \in Requests, Flush(q)
    PROVE  IInv'
<1>1. SUFFICES ASSUME NEW old, old = req[q] PROVE IInv'
    OBVIOUS
<1>2. /\ old \in Request /\ CompleteRequest(old) /\ old.step = "flush"
      /\ old.todo \in Seq(Record) /\ old.wrote \in Wrote
      /\ old.cin \in Cins /\ old.write \in Write /\ Complete(old.write)
    BY <1>1, RequestShapes DEF IInv, TypeOK, Flush, Granted, At, CompleteRequest
<1> DEFINE wrote == [old.wrote EXCEPT ![old.cin] = old.write]
           new == [step |-> "read", todo |-> old.todo, wrote |-> wrote]
<1>3. wrote \in Wrote /\ \A c \in Cins : wrote[c] # None => Complete(wrote[c])
    BY <1>2 DEF Wrote, CompleteRequest
<1>4. new \in Request /\ CompleteRequest(new) /\ new.step = "read" /\ new.wrote = wrote
    BY <1>2, <1>3 DEF Request, CompleteRequest
<1>5. Reads(q, new) /\ IndexAllows(old.cin, old.write)
    BY <1>1 DEF Flush
<1>6. \A p \in Requests : p # q => ~Holds(p, old.cin)
    BY <1>1, <1>2 DEF Flush, Granted, Waits, At
<1>7. /\ wrote[old.cin] = old.write
      /\ \A c \in Cins : c # old.cin => wrote[c] = old.wrote[c]
    BY <1>2 DEF Wrote
<1> HIDE DEF wrote, new
<1>8. /\ company' = company /\ req' \in [Requests -> Request] /\ req'[q] = new
      /\ \A p \in Requests : p # q => req'[p] = req[p]
    BY <1>4, <1>5 DEF Reads, IInv, TypeOK
<1>9. \A p \in Requests, c \in Cins :
          Holds(p, c)' =>
              \/ Holds(p, c) /\ req'[p].wrote[c] = req[p].wrote[c]
              \/ p = q /\ c = old.cin /\ req'[p].wrote[c] = old.write
    BY <1>1, <1>2, <1>4, <1>7, <1>8 DEF Holds, At
<1>10. TypeOK' /\ OneLive'
    BY <1>8 DEF IInv, TypeOK, OneLive
<1>11. Allowed'
    <2>1. \A p \in Requests, c \in Cins : Holds(p, c)' => IndexAllows(c, req'[p].wrote[c])
        BY <1>5, <1>9 DEF IInv, Allowed
    <2> QED
        BY <1>8, <2>1 DEF Allowed, IndexAllows
<1>12. OneHolder'
    BY <1>6, <1>9 DEF IInv, OneHolder
<1>13. \A p \in Requests : CompleteRequest(req'[p])
    BY <1>4, <1>8 DEF IInv
<1> QED
    BY <1>10, <1>11, <1>12, <1>13 DEF IInv

-----------------------------------------------------------------------------
(* The commit.                                                             *)

(* A complete write that the index allows leaves at most one live row.     *)
LEMMA AppliedRows ==
    ASSUME NEW rows \in Seq(Row), NEW w \in Write, Complete(w),
           w.deleted = "no" => Live(rows) \subseteq {w.at},
           \A m, n \in Live(rows) : m = n
    PROVE  /\ Applied(rows, w) \in Seq(Row)
           /\ \A m, n \in Live(Applied(rows, w)) : m = n
<1> DEFINE new == Applied(rows, w)
<1>1. CASE w.at = 0
    <2>1. w.name \in Names /\ w.deleted = "no"
        BY <1>1 DEF Write, Complete
    <2>2. [name |-> w.name, deleted |-> FALSE] \in Row
        BY <2>1 DEF Row
    <2>3. /\ new = Append(rows, [name |-> w.name, deleted |-> FALSE])
          /\ new \in Seq(Row)
        BY <1>1, <2>2 DEF Applied
    <2>4. \A n \in DOMAIN new : (n \in DOMAIN rows /\ new[n] = rows[n]) \/ n = Len(rows) + 1
        BY <2>2, <2>3
    <2>5. \A n \in Live(rows) : FALSE
        BY <1>1, <2>1 DEF Live
    <2> QED
        BY <2>3, <2>4, <2>5 DEF Live
<1>2. CASE w.at # 0
    <2> DEFINE Changed(n) ==
                   [name |-> IF w.name = None THEN rows[n].name ELSE w.name,
                    deleted |-> IF w.deleted = "same" THEN rows[n].deleted
                                ELSE w.deleted = "yes"]
    <2>1. new = [n \in DOMAIN rows |-> IF n # w.at THEN rows[n] ELSE Changed(n)]
        BY <1>2 DEF Applied
    <2>2. \A n \in DOMAIN rows : rows[n] \in Row
        OBVIOUS
    <2>3. \A n \in DOMAIN rows : Changed(n) \in Row
        BY <2>2 DEF Row, Write
    <2>4. \A n \in DOMAIN rows : new[n] \in Row
        BY <2>1, <2>2, <2>3
    <2>5. new \in Seq(Row) /\ DOMAIN new = DOMAIN rows
        <3>1. DOMAIN rows = 1..Len(rows) /\ Len(rows) \in Nat
            OBVIOUS
        <3>2. new \in [1..Len(rows) -> Row]
            BY <2>1, <2>4, <3>1
        <3>3. DOMAIN new = DOMAIN rows
            BY <2>1
        <3> HIDE DEF new
        <3> QED
            BY <3>1, <3>2, <3>3, SeqDef
    <2>6. \A n \in Live(new) : n \in Live(rows) \/ (n = w.at /\ w.deleted = "no")
        <3> SUFFICES ASSUME NEW n \in DOMAIN rows, ~new[n].deleted, rows[n].deleted
                     PROVE  n = w.at /\ w.deleted = "no"
            BY <2>5 DEF Live
        <3>1. n = w.at
            BY <2>1
        <3>2. new[n].deleted = IF w.deleted = "same" THEN rows[n].deleted ELSE w.deleted = "yes"
            <4>1. new[n] = Changed(n)
                BY <2>1, <3>1
            <4>2. Changed(n).deleted =
                      IF w.deleted = "same" THEN rows[n].deleted ELSE w.deleted = "yes"
                BY Zenon
            <4> HIDE DEF new, Changed
            <4> QED
                BY <4>1, <4>2, Zenon
        <3>3. w.deleted # "same" /\ w.deleted # "yes"
            BY <3>2, Zenon
        <3> QED
            BY <3>1, <3>3 DEF Write
    <2> QED
        BY <2>5, <2>6 DEF Live
<1> QED
    BY <1>1, <1>2

LEMMA CommitKeepsIInv ==
    ASSUME IInv, NEW q \in Requests, Commit(q)
    PROVE  IInv'
<1>1. SUFFICES ASSUME NEW old, old = req[q] PROVE IInv'
    OBVIOUS
<1>2. /\ old \in Request /\ CompleteRequest(old) /\ old.step = "read"
      /\ old.wrote \in Wrote /\ old.todo = <<>>
    BY <1>1, RequestShapes DEF IInv, TypeOK, Commit, Finished, At
<1>3. /\ company \in [Cins -> Seq(Row)]
      /\ company' = [c \in Cins |-> IF old.wrote[c] = None THEN company[c]
                                    ELSE Applied(company[c], old.wrote[c])]
    BY <1>1 DEF Commit, IInv, TypeOK
<1>4. ASSUME NEW c \in Cins
      PROVE  company'[c] \in Seq(Row) /\ \A m, n \in Live(company'[c]) : m = n
    <2>1. company[c] \in Seq(Row) /\ \A m, n \in Live(company[c]) : m = n
        BY <1>3 DEF IInv, OneLive
    <2>2. CASE old.wrote[c] = None
        BY <1>3, <2>1, <2>2
    <2>3. CASE old.wrote[c] # None
        <3>1. old.wrote[c] \in Write /\ Complete(old.wrote[c])
            BY <1>2, <2>3 DEF Wrote, CompleteRequest
        <3>2. IndexAllows(c, old.wrote[c])
            BY <1>1, <1>2, <2>3 DEF IInv, Allowed, Holds, At
        <3>3. company'[c] = Applied(company[c], old.wrote[c])
            BY <1>3, <2>3
        <3> QED
            BY <2>1, <3>1, <3>2, <3>3, AppliedRows DEF IndexAllows
    <2> QED
        BY <2>2, <2>3
<1>5. /\ req' \in [Requests -> Request] /\ req'[q] = Idle
      /\ \A p \in Requests : p # q => req'[p] = req[p]
    BY <1>1, <1>2 DEF IInv, TypeOK, Commit, Request
<1>6. \A p \in Requests, c \in Cins :
          Holds(p, c)' => p # q /\ Holds(p, c) /\ req'[p].wrote[c] = req[p].wrote[c]
    BY <1>5 DEF Holds, At, Idle
<1>7. \A p \in Requests, c \in Cins : Holds(p, c)' => company'[c] = company[c]
    <2> SUFFICES ASSUME NEW p \in Requests, NEW c \in Cins, Holds(p, c)'
                 PROVE  old.wrote[c] = None
        BY <1>3
    <2> QED
        BY <1>1, <1>2, <1>6 DEF IInv, OneHolder, Holds, At
<1>8. TypeOK' /\ OneLive'
    BY <1>3, <1>4, <1>5 DEF TypeOK, OneLive
<1>9. Allowed'
    BY <1>6, <1>7 DEF IInv, Allowed, IndexAllows
<1>10. OneHolder'
    BY <1>6 DEF IInv, OneHolder
<1>11. \A p \in Requests : CompleteRequest(req'[p])
    BY <1>5 DEF IInv, CompleteRequest, Idle
<1> QED
    BY <1>8, <1>9, <1>10, <1>11 DEF IInv

-----------------------------------------------------------------------------
LEMMA Inductive == IInv /\ [Next]_vars => IInv'
<1> SUFFICES ASSUME IInv, [Next]_vars PROVE IInv'
    OBVIOUS
<1>1. ASSUME NEW q \in Requests, Continues(q) PROVE IInv'
    BY <1>1, ImportRowKeepsIInv, FlushKeepsIInv, CommitKeepsIInv, GivesUpKeepsIInv
    DEF Continues, Rollback
<1>2. ASSUME NEW q \in Requests, Crash(q) PROVE IInv'
    BY <1>2, GivesUpKeepsIInv DEF Crash
<1>3. CASE UNCHANGED vars
    BY <1>3 DEF vars, IInv, TypeOK, OneLive, Allowed, OneHolder, Holds, At, IndexAllows
<1> QED
    BY <1>1, <1>2, <1>3, StartsKeepIInv DEF Next

LEMMA Starting == Init => IInv
<1> SUFFICES ASSUME Init PROVE IInv
    OBVIOUS
<1>1. TypeOK
    BY DEF Init, TypeOK, Request
<1>2. OneLive
    BY DEF Init, OneLive, Live
<1>3. \A q \in Requests : req[q].step = "idle" /\ CompleteRequest(req[q])
    BY DEF Init, Idle, CompleteRequest
<1> QED
    BY <1>1, <1>2, <1>3 DEF IInv, Allowed, OneHolder, Holds, At

-----------------------------------------------------------------------------
(* The theorems.                                                           *)

(* The table and the requests keep their types, for every set of CINs,     *)
(* files and requests (models/masters.py, services/imports.py).            *)
THEOREM TypeCorrect == Spec => []TypeOK
<1>1. IInv => TypeOK
    BY DEF IInv
<1> QED
    BY <1>1, Starting, Inductive, PTL DEF Spec

(* A firm never has two companies of one CIN that are not deleted, however *)
(* many entries, imports, deletions and restores overlap: the index and    *)
(* the locks of uncommitted writes suffice (models/masters.py).            *)
THEOREM UniqueLiveCin == Spec => []OneLive
<1>1. IInv => OneLive
    BY DEF IInv
<1> QED
    BY <1>1, Starting, Inductive, PTL DEF Spec

-----------------------------------------------------------------------------
(* Imports.                                                                *)

(* CIN c is still to be read, about to be written or written by request r. *)
InHand(r, c) ==
    /\ r.step # "idle"
    /\ \/ \E i \in DOMAIN r.todo : r.todo[i].cin = c
       \/ r.wrote[c] # None
       \/ r.step = "flush" /\ r.cin = c

(* A write that is not an insert is to a row that is in the table.         *)
UpdatesRows ==
    \A q \in Requests, c \in Cins :
        /\ Holds(q, c) /\ req[q].wrote[c].at # 0 => company[c] # <<>>
        /\ At(q, "flush") /\ req[q].cin = c /\ req[q].write.at # 0 => company[c] # <<>>

(* Nobody types the CIN: a request has it in hand because it is in the     *)
(* table, or because of a file whose other CINs are in hand too.           *)
Covered(r, c) == company[c] # <<>> \/ InHand(r, c)
FromFile(r, c) == \E f \in Files : c \in CinsOf(f) /\ \A d \in CinsOf(f) : Covered(r, d)
Traced(r) == \A c \in Cins \ Typed : InHand(r, c) => company[c] # <<>> \/ FromFile(r, c)

WInv ==
    /\ WholeFiles
    /\ UpdatesRows
    /\ \A q \in Requests : Traced(req[q])

LEMMA FilesInCins == \A f \in Files : CinsOf(f) \subseteq Cins
<1>1. \A s \in Seq(Record) : \A i \in DOMAIN s : s[i] \in Record
    OBVIOUS
<1>2. \A r \in Record : r.cin \in Cins
    BY DEF Record
<1> QED
    BY <1>1, <1>2, CompaniesAssumption DEF CinsOf

(* A request moves on to r with what it had in hand, or less of what is in *)
(* the table.                                                              *)
LEMMA ReadsKeepWInv ==
    ASSUME IInv, WInv, NEW q \in Requests, NEW r \in Request, Reads(q, r), Traced(r),
           r.step = "idle" \/ r.wrote = NothingWritten \/ (~At(q, "idle") /\ r.wrote = req[q].wrote),
           r.step = "flush" /\ r.write.at # 0 => company[r.cin] # <<>>
    PROVE  WInv'
<1>1. /\ company' = company /\ req'[q] = r
      /\ \A p \in Requests : p # q => req'[p] = req[p]
    BY DEF Reads, IInv, TypeOK
<1>2. WholeFiles'
    BY <1>1 DEF WInv, WholeFiles
<1>3. UpdatesRows'
    <2> SUFFICES ASSUME NEW p \in Requests, NEW c \in Cins
                 PROVE  /\ Holds(p, c)' /\ req'[p].wrote[c].at # 0 => company[c] # <<>>
                        /\ At(p, "flush")' /\ req'[p].cin = c /\ req'[p].write.at # 0 =>
                               company[c] # <<>>
        BY <1>1 DEF UpdatesRows
    <2>1. CASE p # q
        BY <1>1, <2>1 DEF WInv, UpdatesRows, Holds, At
    <2>2. CASE p = q
        BY <1>1, <2>2 DEF WInv, UpdatesRows, Holds, At, NothingWritten
    <2> QED
        BY <2>1, <2>2
<1>4. (\A p \in Requests : Traced(req[p]))'
    <2> SUFFICES ASSUME NEW p \in Requests, NEW s, s = req'[p] PROVE Traced(s)'
        BY Zenon
    <2>1. Traced(s)
        BY <1>1 DEF WInv
    <2> QED
        BY <1>1, <2>1 DEF Traced, FromFile, Covered
<1> QED
    BY <1>2, <1>3, <1>4 DEF WInv

LEMMA StartsKeepWInv ==
    ASSUME IInv, WInv, NEW q \in Requests, Starts(q)
    PROVE  WInv'
<1>1. ASSUME NEW c \in Cins, NEW w \in Write, Complete(w),
             c \in Typed \/ company[c] # <<>>, w.at # 0 => company[c] # <<>>,
             Reads(q, ToFlush(<<>>, NothingWritten, c, w))
      PROVE  WInv'
    <2> DEFINE r == ToFlush(<<>>, NothingWritten, c, w)
    <2>1. r \in Request
        <3>1. <<>> \in Seq(Record)
            OBVIOUS
        <3> QED
            BY <1>1, <3>1, NothingWrittenTyped, ToFlushTyped
    <2>2. /\ r.step = "flush" /\ r.wrote = NothingWritten /\ r.cin = c /\ r.write = w
          /\ r.todo = <<>>
        BY DEF ToFlush
    <2>3. Reads(q, r)
        BY <1>1
    <2> HIDE DEF r
    <2>4. \A d \in Cins : InHand(r, d) => d = c
        BY <2>2 DEF InHand, NothingWritten
    <2>5. Traced(r)
        BY <1>1, <2>4 DEF Traced
    <2> QED
        BY <1>1, <2>1, <2>2, <2>3, <2>5, ReadsKeepWInv
<1>2. ASSUME NEW c \in Typed, NEW name \in Names, Create(q, [cin |-> c, name |-> name])
      PROVE  WInv'
    <2> DEFINE r == [cin |-> c, name |-> name]
    <2>1. r \in Record /\ r.cin = c /\ c \in Cins
        BY CompaniesAssumption DEF Record
    <2>2. PICK n \in ByCin(c) : Reads(q, ToFlush(<<>>, NothingWritten, c, Upsert(r, n)))
        BY <1>2 DEF Create
    <2>3. Upsert(r, n) \in Write /\ Complete(Upsert(r, n))
        BY <2>1, UpsertTyped DEF IInv
    <2>4. Upsert(r, n).at = n /\ (n # 0 => company[c] # <<>>)
        BY <2>1 DEF Upsert, ByCin, IInv, TypeOK
    <2> HIDE DEF r
    <2> QED
        BY <1>1, <2>1, <2>2, <2>3, <2>4
<1>3. ASSUME NEW c \in Cins, NEW n \in DOMAIN company[c], NEW w,
             \/ \E name \in Names : w = [at |-> n, name |-> name, deleted |-> "same"]
             \/ w = [at |-> n, name |-> None, deleted |-> "yes"],
             Reads(q, ToFlush(<<>>, NothingWritten, c, w))
      PROVE  WInv'
    <2>1. n \in Nat \ {0} /\ company[c] # <<>>
        BY DEF IInv, TypeOK
    <2>2. w \in Write /\ Complete(w)
        BY <1>3, <2>1 DEF Write, Complete
    <2> QED
        BY <1>1, <1>3, <2>1, <2>2
<1>4. ASSUME NEW c \in Cins, NEW name \in Names, NEW n \in DOMAIN company[c],
             Update(q, c, n, name)
      PROVE  WInv'
    BY <1>3, <1>4 DEF Update
<1>5. ASSUME NEW c \in Cins, NEW n \in DOMAIN company[c], Delete(q, c, n) PROVE WInv'
    BY <1>3, <1>5 DEF Delete
<1>6. ASSUME NEW f \in Files, Import(q, f) PROVE WInv'
    <2> DEFINE r == [step |-> "read", todo |-> f, wrote |-> NothingWritten]
    <2>1. r \in Request
        BY CompaniesAssumption, NothingWrittenTyped DEF Request
    <2>2. r.step = "read" /\ r.wrote = NothingWritten /\ r.todo = f
        OBVIOUS
    <2>3. Reads(q, r)
        BY <1>6 DEF Import
    <2> HIDE DEF r
    <2>4. \A d \in Cins : InHand(r, d) <=> d \in CinsOf(f)
        BY <2>2 DEF InHand, NothingWritten, CinsOf
    <2>5. Traced(r)
        BY <2>4, FilesInCins DEF Traced, FromFile, Covered
    <2> QED
        BY <2>1, <2>2, <2>3, <2>5, ReadsKeepWInv
<1> QED
    BY <1>2, <1>4, <1>5, <1>6 DEF Starts

(* What was in hand is in hand, or is in the table: the request is traced. *)
LEMMA StillTraced ==
    ASSUME NEW old, NEW new, Traced(old),
           \A c \in Cins : InHand(new, c) => InHand(old, c),
           \A c \in Cins : InHand(old, c) => Covered(new, c)
    PROVE  Traced(new)
BY FilesInCins DEF Traced, FromFile, Covered

LEMMA ImportRowKeepsWInv ==
    ASSUME IInv, WInv, NEW q \in Requests, ImportRow(q)
    PROVE  WInv'
<1>1. SUFFICES ASSUME NEW old, old = req[q] PROVE WInv'
    OBVIOUS
<1> DEFINE r == Head(old.todo)
           rest == Tail(old.todo)
<1>2. /\ old \in Request /\ CompleteRequest(old) /\ old.step = "read"
      /\ old.todo \in Seq(Record) /\ old.todo # <<>> /\ old.wrote \in Wrote
      /\ Traced(old) /\ ~At(q, "idle")
    BY <1>1, RequestShapes DEF IInv, WInv, TypeOK, ImportRow, At
<1>3. r \in Record /\ rest \in Seq(Record) /\ r.cin \in Cins
    <2>1. r \in Record /\ rest \in Seq(Record)
        BY <1>2
    <2> QED
        BY <2>1 DEF Record
<1>4. \A c : (\E i \in DOMAIN old.todo : old.todo[i].cin = c) <=>
                 (c = r.cin \/ \E i \in DOMAIN rest : rest[i].cin = c)
    <2> SUFFICES ASSUME NEW t \in Seq(Record), t # <<>>
                 PROVE  \A c : (\E i \in DOMAIN t : t[i].cin = c) <=>
                            (c = Head(t).cin \/ \E i \in DOMAIN Tail(t) : Tail(t)[i].cin = c)
        BY <1>2
    <2>1. /\ Len(t) \in Nat \ {0} /\ DOMAIN t = 1..Len(t) /\ DOMAIN Tail(t) = 1..Len(t) - 1
          /\ Head(t) = t[1] /\ \A i \in 1..Len(t) - 1 : Tail(t)[i] = t[i + 1]
        OBVIOUS
    <2>2. \A i \in 1..Len(t) : i = 1 \/ (i - 1 \in 1..Len(t) - 1 /\ t[i] = Tail(t)[i - 1])
        BY <2>1
    <2>3. \A i \in 1..Len(t) - 1 : i + 1 \in 1..Len(t)
        BY <2>1
    <2>4. 1 \in 1..Len(t)
        BY <2>1
    <2> QED
        BY <2>1, <2>2, <2>3, <2>4
<1>5. PICK n \in ByCin(r.cin) :
          Reads(q, IF AsListed(r, n) THEN [old EXCEPT !.todo = rest]
                   ELSE ToFlush(rest, old.wrote, r.cin, Upsert(r, n)))
    BY <1>1 DEF ImportRow
<1>6. n # 0 => company[r.cin] # <<>>
    BY <1>3 DEF ByCin, IInv, TypeOK
<1> HIDE DEF r, rest
<1>7. CASE AsListed(r, n)
    <2> DEFINE new == [old EXCEPT !.todo = rest]
    <2>1. old \in [step: {"read"}, todo: Seq(Record), wrote: Wrote]
        BY <1>2 DEF Request, Idle
    <2>2. /\ new \in Request /\ new.step = "read" /\ new.wrote = old.wrote
          /\ new.todo = rest
        BY <1>3, <2>1 DEF Request
    <2>3. Reads(q, new) /\ company[r.cin] # <<>>
        BY <1>5, <1>6, <1>7 DEF AsListed
    <2> HIDE DEF new
    <2>4. \A c \in Cins : InHand(new, c) => InHand(old, c)
        BY <1>2, <1>4, <2>2 DEF InHand
    <2>5. \A c \in Cins : InHand(old, c) => Covered(new, c)
        BY <1>2, <1>4, <2>2, <2>3 DEF InHand, Covered
    <2>6. Traced(new)
        BY <1>2, <2>4, <2>5, StillTraced
    <2> QED
        BY <1>1, <1>2, <2>2, <2>3, <2>6, ReadsKeepWInv
<1>8. CASE ~AsListed(r, n)
    <2> DEFINE new == ToFlush(rest, old.wrote, r.cin, Upsert(r, n))
    <2>1. Upsert(r, n) \in Write /\ Complete(Upsert(r, n)) /\ Upsert(r, n).at = n
        BY <1>3, UpsertTyped DEF IInv, Upsert
    <2>2. new \in Request
        BY <1>2, <1>3, <2>1, ToFlushTyped DEF CompleteRequest
    <2>3. /\ new.step = "flush" /\ new.wrote = old.wrote /\ new.todo = rest
          /\ new.cin = r.cin /\ new.write.at = n
        BY <2>1 DEF ToFlush
    <2>4. Reads(q, new)
        BY <1>5, <1>8
    <2> HIDE DEF new
    <2>5. \A c \in Cins : InHand(new, c) => InHand(old, c)
        BY <1>2, <1>4, <2>3 DEF InHand
    <2>6. \A c \in Cins : InHand(old, c) => Covered(new, c)
        BY <1>2, <1>4, <2>3 DEF InHand, Covered
    <2>7. Traced(new)
        BY <1>2, <2>5, <2>6, StillTraced
    <2> QED
        BY <1>1, <1>2, <1>6, <2>2, <2>3, <2>4, <2>7, ReadsKeepWInv
<1> QED
    BY <1>7, <1>8

LEMMA GivesUpKeepsWInv ==
    ASSUME IInv, WInv, NEW q \in Requests, Reads(q, Idle)
    PROVE  WInv'
<1>1. Idle \in Request /\ Idle.step = "idle" /\ Traced(Idle)
    BY DEF Idle, Request, Traced, InHand
<1> QED
    BY <1>1, ReadsKeepWInv

LEMMA FlushKeepsWInv ==
    ASSUME IInv, WInv, NEW q \in Requests, Flush(q)
    PROVE  WInv'
<1>1. SUFFICES ASSUME NEW old, old = req[q] PROVE WInv'
    OBVIOUS
<1>2. /\ old \in Request /\ old.step = "flush" /\ old.wrote \in Wrote
      /\ old.cin \in Cins /\ old.write \in Write /\ Traced(old)
    BY <1>1, RequestShapes DEF IInv, WInv, TypeOK, Flush, Granted, At
<1> DEFINE wrote == [old.wrote EXCEPT ![old.cin] = old.write]
           new == [step |-> "read", todo |-> old.todo, wrote |-> wrote]
<1>3. Reads(q, new)
    BY <1>1 DEF Flush
<1>4. /\ wrote[old.cin] = old.write /\ old.write # None
      /\ \A c \in Cins : c # old.cin => wrote[c] = old.wrote[c]
    BY <1>2, CompaniesAssumption DEF Wrote
<1>5. new.step = "read" /\ new.todo = old.todo /\ new.wrote = wrote
    OBVIOUS
<1> HIDE DEF wrote, new
<1>6. /\ company' = company /\ req'[q] = new
      /\ \A p \in Requests : p # q => req'[p] = req[p]
    BY <1>3 DEF Reads, IInv, TypeOK
<1>7. Traced(new)
    <2>1. \A c \in Cins : InHand(new, c) <=> InHand(old, c)
        BY <1>2, <1>4, <1>5 DEF InHand
    <2> QED
        BY <1>2, <2>1, StillTraced DEF Covered
<1>8. WholeFiles'
    BY <1>6 DEF WInv, WholeFiles
<1>9. UpdatesRows'
    <2> SUFFICES ASSUME NEW p \in Requests, NEW c \in Cins
                 PROVE  /\ Holds(p, c)' /\ req'[p].wrote[c].at # 0 => company[c] # <<>>
                        /\ At(p, "flush")' /\ req'[p].cin = c /\ req'[p].write.at # 0 =>
                               company[c] # <<>>
        BY <1>6 DEF UpdatesRows
    <2>1. CASE p # q
        BY <1>6, <2>1 DEF WInv, UpdatesRows, Holds, At
    <2>2. CASE p = q /\ c # old.cin
        BY <1>1, <1>2, <1>4, <1>5, <1>6, <2>2 DEF WInv, UpdatesRows, Holds, At
    <2>3. CASE p = q /\ c = old.cin
        <3>1. old.write.at # 0 => company[c] # <<>>
            BY <1>1, <1>2, <2>3 DEF WInv, UpdatesRows, At
        <3> QED
            BY <1>4, <1>5, <1>6, <2>3, <3>1 DEF At
    <2> QED
        BY <2>1, <2>2, <2>3
<1>10. (\A p \in Requests : Traced(req[p]))'
    <2> SUFFICES ASSUME NEW p \in Requests, NEW s, s = req'[p] PROVE Traced(s)'
        BY Zenon
    <2>1. Traced(s)
        BY <1>6, <1>7 DEF WInv
    <2> QED
        BY <1>6, <2>1 DEF Traced, FromFile, Covered
<1> QED
    BY <1>8, <1>9, <1>10 DEF WInv

(* Rows only come to more, and a write leaves a row behind.                *)
LEMMA AppliedSome ==
    ASSUME NEW rows \in Seq(Row), NEW w \in Write, w.at # 0 => rows # <<>>
    PROVE  Applied(rows, w) # <<>>
<1>1. CASE w.at = 0
    BY <1>1 DEF Applied
<1>2. CASE w.at # 0
    <2>1. DOMAIN Applied(rows, w) = DOMAIN rows
        BY <1>2 DEF Applied
    <2>2. DOMAIN rows # {}
        <3>1. rows = <<>> <=> DOMAIN rows = {}
            OBVIOUS
        <3> QED
            BY <1>2, <3>1
    <2> QED
        BY <2>1, <2>2
<1> QED
    BY <1>1, <1>2

LEMMA CommitKeepsWInv ==
    ASSUME IInv, WInv, NEW q \in Requests, Commit(q)
    PROVE  WInv'
<1>1. SUFFICES ASSUME NEW old, old = req[q] PROVE WInv'
    OBVIOUS
<1>2. /\ old.step = "read" /\ old.wrote \in Wrote /\ old.todo = <<>> /\ Traced(old)
    BY <1>1, RequestShapes DEF IInv, WInv, TypeOK, Commit, Finished, At
<1>3. /\ company \in [Cins -> Seq(Row)]
      /\ company' = [c \in Cins |-> IF old.wrote[c] = None THEN company[c]
                                    ELSE Applied(company[c], old.wrote[c])]
    BY <1>1 DEF Commit, IInv, TypeOK
<1>4. ASSUME NEW c \in Cins PROVE old.wrote[c] # None => company'[c] # <<>>
    <2> SUFFICES ASSUME old.wrote[c] # None PROVE company'[c] # <<>>
        OBVIOUS
    <2>1. old.wrote[c] \in Write
        BY <1>2 DEF Wrote
    <2>2. old.wrote[c].at # 0 => company[c] # <<>>
        BY <1>1, <1>2 DEF WInv, UpdatesRows, Holds, At
    <2> QED
        BY <1>3, <2>1, <2>2, AppliedSome
<1>5. \A c \in Cins : company[c] # <<>> => company'[c] # <<>>
    BY <1>3, <1>4
<1>6. \A c \in Cins : InHand(old, c) <=> old.wrote[c] # None
    BY <1>2 DEF InHand
<1>7. \A c \in Cins : Covered(old, c) <=> company'[c] # <<>>
    BY <1>3, <1>4, <1>5, <1>6 DEF Covered
<1>8. /\ req' \in [Requests -> Request] /\ req'[q] = Idle
      /\ \A p \in Requests : p # q => req'[p] = req[p]
    BY <1>1, <1>2 DEF IInv, TypeOK, Commit, Request
<1>9. WholeFiles'
    <2> SUFFICES ASSUME NEW c \in Cins \ Typed, company'[c] # <<>>
                 PROVE  \E f \in Files : /\ c \in CinsOf(f)
                                         /\ \A d \in CinsOf(f) : company'[d] # <<>>
        BY DEF WholeFiles
    <2>1. CASE company[c] # <<>>
        BY <1>5, <2>1, FilesInCins DEF WInv, WholeFiles
    <2>2. CASE company[c] = <<>>
        <3>1. FromFile(old, c)
            BY <1>2, <1>7, <2>2 DEF Covered, Traced
        <3> QED
            BY <1>7, <3>1, FilesInCins DEF FromFile
    <2> QED
        BY <2>1, <2>2
<1>10. UpdatesRows'
    <2> SUFFICES ASSUME NEW p \in Requests, NEW c \in Cins
                 PROVE  /\ Holds(p, c)' /\ req'[p].wrote[c].at # 0 => company'[c] # <<>>
                        /\ At(p, "flush")' /\ req'[p].cin = c /\ req'[p].write.at # 0 =>
                               company'[c] # <<>>
        BY DEF UpdatesRows
    <2>1. CASE p # q
        BY <1>5, <1>8, <2>1 DEF WInv, UpdatesRows, Holds, At
    <2>2. CASE p = q
        BY <1>8, <2>2 DEF Holds, At, Idle
    <2> QED
        BY <2>1, <2>2
<1>11. (\A p \in Requests : Traced(req[p]))'
    <2> SUFFICES ASSUME NEW p \in Requests, NEW s, s = req'[p] PROVE Traced(s)'
        BY Zenon
    <2>1. CASE p = q
        BY <1>8, <2>1 DEF Traced, InHand, Idle
    <2>2. CASE p # q
        <3>1. Traced(s)
            BY <1>8, <2>2 DEF WInv
        <3> QED
            BY <1>5, <3>1, FilesInCins DEF Traced, FromFile, Covered
    <2> QED
        BY <2>1, <2>2
<1> QED
    BY <1>9, <1>10, <1>11 DEF WInv

LEMMA WInvInductive == IInv /\ WInv /\ [Next]_vars => WInv'
<1> SUFFICES ASSUME IInv, WInv, [Next]_vars PROVE WInv'
    OBVIOUS
<1>1. ASSUME NEW q \in Requests, Continues(q) PROVE WInv'
    BY <1>1, ImportRowKeepsWInv, FlushKeepsWInv, CommitKeepsWInv, GivesUpKeepsWInv
    DEF Continues, Rollback
<1>2. ASSUME NEW q \in Requests, Crash(q) PROVE WInv'
    BY <1>2, GivesUpKeepsWInv DEF Crash
<1>3. CASE UNCHANGED vars
    <2>1. WholeFiles' /\ UpdatesRows'
        BY <1>3 DEF vars, WInv, WholeFiles, UpdatesRows, Holds, At
    <2>2. (\A q \in Requests : Traced(req[q]))'
        <3> SUFFICES ASSUME NEW q \in Requests, NEW s, s = req'[q] PROVE Traced(s)'
            BY Zenon
        <3>1. Traced(s)
            BY <1>3 DEF vars, WInv
        <3> QED
            BY <1>3, <3>1 DEF vars, Traced, FromFile, Covered
    <2> QED
        BY <2>1, <2>2 DEF WInv
<1> QED
    BY <1>1, <1>2, <1>3, StartsKeepWInv DEF Next

(* An import leaves all of its rows or none, for every set of files: a CIN *)
(* nobody types is never in the table without the others of its file.      *)
THEOREM ImportsWhole == Spec => []WholeFiles
<1>1. Init => WInv
    BY DEF Init, WInv, WholeFiles, UpdatesRows, Traced, InHand, Holds, At, Idle
<1>2. WInv => WholeFiles
    BY DEF WInv
<1> QED
    BY <1>1, <1>2, Starting, Inductive, WInvInductive, PTL DEF Spec

-----------------------------------------------------------------------------
(* The LLPs and their working papers.                                      *)

(* The row that a request is about to update is in its table, and a paper  *)
(* was a draft when the request loaded it.                                 *)
Ready(r, llps, papers) ==
    /\ r.step \in {"llpin", "delete"} => llps[r.at] # None
    /\ r.step = "paper" => papers[r.at] # None /\ r.loaded.status = "draft"

(* The invariant: types, no LLPIN twice, and only drafts are edited.       *)
LlpInv ==
    /\ LlpTypeOK
    /\ OneLlpin
    /\ \A q \in Requests : Ready(req[q], llp, paper)

-----------------------------------------------------------------------------
(* A record with a step is one of the requests of that step.               *)
LEMMA LlpRequestShapes ==
    ASSUME NEW r \in LlpRequest
    PROVE  /\ r.step = "insert llp" => r.at \in Llps /\ r.row \in Llp
           /\ r.step = "llpin" => r.at \in Llps /\ r.llpin \in Llpins
           /\ r.step = "delete" => r.at \in Llps
           /\ r.step = "insert paper" => r.at \in Keys /\ r.row \in Paper
           /\ r.step = "paper" => r.at \in Keys /\ r.body \in Paper /\ r.loaded \in Paper
<1>1. CASE r = Idle
    BY <1>1 DEF Idle
<1>2. CASE r \in [step: {"insert llp"}, at: Llps, row: Llp]
    BY <1>2
<1>3. CASE r \in [step: {"llpin"}, at: Llps, llpin: Llpins]
    BY <1>3
<1>4. CASE r \in [step: {"delete"}, at: Llps]
    BY <1>4
<1>5. CASE r \in [step: {"insert paper"}, at: Keys, row: Paper]
    BY <1>5
<1>6. CASE r \in [step: {"paper"}, at: Keys, body: Paper, loaded: Paper]
    BY <1>6
<1> QED
    BY <1>1, <1>2, <1>3, <1>4, <1>5, <1>6 DEF LlpRequest

(* Merged is a paper, and it is no draft when the row is not and only the  *)
(* columns that differ from a draft are written.                           *)
LEMMA MergedPaper ==
    ASSUME NEW row \in Paper, NEW loaded \in Paper, NEW body \in Paper
    PROVE  /\ Merged(row, loaded, body) \in Paper
           /\ loaded.status = "draft" /\ row.status = "finalized"
                  => Merged(row, loaded, body).status = "finalized"
<1> DEFINE new == Merged(row, loaded, body)
<1>1. DOMAIN row = {"payload", "status", "srn"}
    BY DEF Paper
<1>2. new = [c \in {"payload", "status", "srn"} |->
                 IF body[c] = loaded[c] THEN row[c] ELSE body[c]]
    BY <1>1 DEF Merged
<1>3. /\ new.payload \in Payloads /\ new.status \in {"draft", "finalized"}
      /\ new.srn \in Srns \cup {None}
    BY <1>2 DEF Paper
<1>4. new \in Paper
    BY <1>2, <1>3 DEF Paper
<1>5. loaded.status = "draft" /\ row.status = "finalized" => new.status = "finalized"
    BY <1>2 DEF Paper
<1> QED
    BY <1>4, <1>5

(* A request moves on to r, and the others stay where they are.            *)
LEMMA GoesTyped ==
    ASSUME LlpTypeOK, NEW q \in Requests, NEW r \in LlpRequest, Goes(q, r)
    PROVE  /\ req' \in [Requests -> LlpRequest]
           /\ req'[q] = r
           /\ \A p \in Requests : p # q => req'[p] = req[p]
BY DEF LlpTypeOK, Goes

-----------------------------------------------------------------------------
(* Requests that load: neither table changes.                              *)

LEMMA LoadsKeepsLlpInv ==
    ASSUME LlpInv, NEW q \in Requests, NEW r \in LlpRequest, Loads(q, r), Ready(r, llp, paper)
    PROVE  LlpInv'
<1>1. /\ req' \in [Requests -> LlpRequest] /\ req'[q] = r
      /\ \A p \in Requests : p # q => req'[p] = req[p]
    BY GoesTyped DEF Loads, LlpInv
<1>2. LlpTypeOK'
    BY <1>1 DEF LlpInv, LlpTypeOK, Loads
<1>3. OneLlpin'
    BY DEF LlpInv, OneLlpin, Holders, LiveLlp, Loads
<1>4. \A p \in Requests : Ready(req'[p], llp', paper')
    BY <1>1 DEF LlpInv, Loads
<1> QED
    BY <1>2, <1>3, <1>4 DEF LlpInv

LEMMA StartsKeepLlpInv ==
    ASSUME LlpInv, NEW q \in Requests,
           \/ \E i \in Llps, pin \in Llpins : CreateLlp(q, i, pin) \/ UpdateLlp(q, i, pin)
           \/ \E i \in Llps : DeleteLlp(q, i)
           \/ \E k \in Keys, body \in Bodies : UpsertPaper(q, k, body)
    PROVE  LlpInv'
<1>1. ASSUME NEW i \in Llps, NEW pin \in Llpins, CreateLlp(q, i, pin) PROVE LlpInv'
    <2> DEFINE r == [step |-> "insert llp", at |-> i, row |-> [llpin |-> pin, deleted |-> FALSE]]
    <2>1. [llpin |-> pin, deleted |-> FALSE] \in Llp
        BY DEF Llp
    <2>2. r \in LlpRequest
        BY <2>1 DEF LlpRequest
    <2>3. Ready(r, llp, paper) /\ Loads(q, r)
        BY <1>1 DEF Ready, CreateLlp
    <2> QED
        BY <2>2, <2>3, LoadsKeepsLlpInv
<1>2. ASSUME NEW i \in Llps, NEW pin \in Llpins, UpdateLlp(q, i, pin) PROVE LlpInv'
    <2> DEFINE r == [step |-> "llpin", at |-> i, llpin |-> pin]
    <2>1. r \in LlpRequest
        BY DEF LlpRequest
    <2>2. Ready(r, llp, paper) /\ Loads(q, r)
        BY <1>2 DEF Ready, UpdateLlp, LiveLlp
    <2> QED
        BY <2>1, <2>2, LoadsKeepsLlpInv
<1>3. ASSUME NEW i \in Llps, DeleteLlp(q, i) PROVE LlpInv'
    <2> DEFINE r == [step |-> "delete", at |-> i]
    <2>1. r \in LlpRequest
        BY DEF LlpRequest
    <2>2. Ready(r, llp, paper) /\ Loads(q, r)
        BY <1>3 DEF Ready, DeleteLlp, LiveLlp
    <2> QED
        BY <2>1, <2>2, LoadsKeepsLlpInv
<1>4. ASSUME NEW k \in Keys, NEW body \in Bodies, UpsertPaper(q, k, body) PROVE LlpInv'
    <2>1. body \in Paper
        BY DEF Bodies
    <2>2. CASE paper[k] = None
        <3> DEFINE r == [step |-> "insert paper", at |-> k, row |-> body]
        <3>1. r \in LlpRequest
            BY <2>1 DEF LlpRequest
        <3>2. Ready(r, llp, paper) /\ Loads(q, r)
            BY <1>4, <2>2 DEF Ready, UpsertPaper
        <3> QED
            BY <3>1, <3>2, LoadsKeepsLlpInv
    <2>3. CASE paper[k] # None
        <3> DEFINE r == [step |-> "paper", at |-> k, body |-> body, loaded |-> paper[k]]
        <3>1. paper[k] \in Paper
            BY <2>3 DEF LlpInv, LlpTypeOK
        <3>2. r \in LlpRequest
            BY <2>1, <3>1 DEF LlpRequest
        <3>3. Ready(r, llp, paper) /\ Loads(q, r)
            BY <1>4, <2>3 DEF Ready, UpsertPaper, Editable
        <3> QED
            BY <3>2, <3>3, LoadsKeepsLlpInv
    <2> QED
        BY <2>2, <2>3
<1> QED
    BY <1>1, <1>2, <1>3, <1>4

-----------------------------------------------------------------------------
(* The writes.                                                             *)

(* A request ends, and no row that is in a table leaves it: the other      *)
(* requests are as ready as they were.                                     *)
LEMMA Ends ==
    ASSUME LlpInv, NEW q \in Requests, Goes(q, Idle),
           \A i \in Llps : llp[i] # None => llp'[i] # None,
           \A k \in Keys : paper[k] # None => paper'[k] # None
    PROVE  /\ req' \in [Requests -> LlpRequest]
           /\ \A p \in Requests : Ready(req'[p], llp', paper')
<1>1. Idle \in LlpRequest /\ Ready(Idle, llp', paper')
    BY DEF LlpRequest, Idle, Ready
<1>2. /\ req' \in [Requests -> LlpRequest] /\ req'[q] = Idle
      /\ \A p \in Requests : p # q => req'[p] = req[p]
    BY <1>1, GoesTyped DEF LlpInv
<1>3. ASSUME NEW p \in Requests, p # q PROVE Ready(req[p], llp', paper')
    <2>1. SUFFICES ASSUME NEW r, r = req[p] PROVE Ready(r, llp', paper')
        OBVIOUS
    <2>2. r \in LlpRequest /\ Ready(r, llp, paper)
        BY <2>1 DEF LlpInv, LlpTypeOK
    <2>3. /\ r.step \in {"llpin", "delete"} => r.at \in Llps
          /\ r.step = "paper" => r.at \in Keys
        BY <2>2, LlpRequestShapes
    <2> QED
        BY <2>2, <2>3 DEF Ready
<1> QED
    BY <1>1, <1>2, <1>3

(* One row of the LLP master changes to new, and no other LLP holds the    *)
(* LLPIN of new unless new is deleted.                                     *)
LEMMA LlpChanges ==
    ASSUME LlpInv, NEW i \in Llps, NEW new \in Llp, llp' = [llp EXCEPT ![i] = new],
           new.deleted \/ PinFree(i, new.llpin)
    PROVE  llp' \in [Llps -> Llp \cup {None}] /\ OneLlpin'
<1>1. llp \in [Llps -> Llp \cup {None}] /\ llp' \in [Llps -> Llp \cup {None}]
    BY DEF LlpInv, LlpTypeOK
<1>2. llp'[i] = new /\ \A j \in Llps : j # i => llp'[j] = llp[j]
    BY <1>1
<1>3. \A j \in Llps, pin \in Llpins : j # i => (j \in Holders(pin)' <=> j \in Holders(pin))
    BY <1>2 DEF Holders, LiveLlp
<1>4. \A pin \in Llpins : i \in Holders(pin)' => pin = new.llpin /\ ~new.deleted
    BY <1>2 DEF Holders, LiveLlp
<1>5. \A pin \in Llpins : Holders(pin)' \subseteq Llps
    BY DEF Holders
<1>6. ASSUME NEW pin \in Llpins, NEW j \in Holders(pin)', NEW k \in Holders(pin)' PROVE j = k
    <2>1. CASE i \in Holders(pin)'
        <3>1. Holders(pin) \subseteq {i}
            BY <1>4, <2>1 DEF PinFree
        <3> QED
            BY <1>3, <1>5, <1>6, <3>1
    <2>2. CASE i \notin Holders(pin)'
        BY <1>3, <1>5, <1>6, <2>2 DEF LlpInv, OneLlpin
    <2> QED
        BY <2>1, <2>2
<1> QED
    BY <1>1, <1>6 DEF OneLlpin

LEMMA WriteLlpKeepsLlpInv ==
    ASSUME LlpInv, NEW q \in Requests, WriteLlp(q)
    PROVE  LlpInv'
<1>1. SUFFICES ASSUME NEW r, r = req[q] PROVE LlpInv'
    OBVIOUS
<1>2. /\ r \in LlpRequest /\ Ready(r, llp, paper)
      /\ llp \in [Llps -> Llp \cup {None}]
    BY <1>1 DEF LlpInv, LlpTypeOK
<1>3. PICK i \in Llps, new \in Llp :
          llp' = [llp EXCEPT ![i] = new] /\ (new.deleted \/ PinFree(i, new.llpin))
    <2>1. CASE /\ At(q, "insert llp") /\ PinFree(r.at, r.row.llpin)
               /\ llp' = [llp EXCEPT ![r.at] = r.row]
        <3>1. r.at \in Llps /\ r.row \in Llp
            BY <1>1, <1>2, <2>1, LlpRequestShapes DEF At
        <3> QED
            BY <2>1, <3>1
    <2>2. CASE /\ At(q, "llpin") /\ (llp[r.at].deleted \/ PinFree(r.at, r.llpin))
               /\ llp' = [llp EXCEPT ![r.at].llpin = r.llpin]
        <3> DEFINE new == [llp[r.at] EXCEPT !.llpin = r.llpin]
        <3>1. r.at \in Llps /\ r.llpin \in Llpins
            BY <1>1, <1>2, <2>2, LlpRequestShapes DEF At
        <3>2. llp[r.at] \in Llp
            BY <1>1, <1>2, <2>2, <3>1 DEF At, Ready
        <3>3. new \in Llp /\ new.llpin = r.llpin /\ new.deleted = llp[r.at].deleted
            BY <3>1, <3>2 DEF Llp
        <3> QED
            BY <2>2, <3>1, <3>3
    <2>3. CASE At(q, "delete") /\ llp' = [llp EXCEPT ![r.at].deleted = TRUE]
        <3> DEFINE new == [llp[r.at] EXCEPT !.deleted = TRUE]
        <3>1. r.at \in Llps
            BY <1>1, <1>2, <2>3, LlpRequestShapes DEF At
        <3>2. llp[r.at] \in Llp
            BY <1>1, <1>2, <2>3, <3>1 DEF At, Ready
        <3>3. new \in Llp /\ new.deleted
            BY <3>1, <3>2 DEF Llp
        <3> QED
            BY <2>3, <3>1, <3>3
    <2> QED
        BY <1>1, <2>1, <2>2, <2>3 DEF WriteLlp
<1>4. llp' \in [Llps -> Llp \cup {None}] /\ OneLlpin'
    BY <1>3, LlpChanges
<1>5. \A j \in Llps : llp[j] # None => llp'[j] # None
    BY <1>2, <1>3, PapersAssumption
<1>6. paper' = paper /\ Goes(q, Idle)
    BY DEF WriteLlp
<1>7. /\ req' \in [Requests -> LlpRequest]
      /\ \A p \in Requests : Ready(req'[p], llp', paper')
    BY <1>5, <1>6, Ends
<1>8. LlpTypeOK'
    BY <1>4, <1>6, <1>7 DEF LlpInv, LlpTypeOK
<1> QED
    BY <1>4, <1>7, <1>8 DEF LlpInv

(* A paper is inserted where there is none, or merged from a draft.        *)
LEMMA PaperChanges ==
    ASSUME LlpInv, NEW q \in Requests, WritePaper(q)
    PROVE  \E k \in Keys, new \in Paper :
               /\ paper' = [paper EXCEPT ![k] = new]
               /\ Finalised(k) => new.status = "finalized"
<1>1. SUFFICES ASSUME NEW r, r = req[q]
               PROVE  \E k \in Keys, new \in Paper :
                          /\ paper' = [paper EXCEPT ![k] = new]
                          /\ Finalised(k) => new.status = "finalized"
    OBVIOUS
<1>2. /\ r \in LlpRequest /\ Ready(r, llp, paper)
      /\ paper \in [Keys -> Paper \cup {None}]
    BY <1>1 DEF LlpInv, LlpTypeOK
<1>3. CASE /\ At(q, "insert paper") /\ paper[r.at] = None
           /\ paper' = [paper EXCEPT ![r.at] = r.row]
    <2>1. r.at \in Keys /\ r.row \in Paper
        BY <1>1, <1>2, <1>3, LlpRequestShapes DEF At
    <2> QED
        BY <1>3, <2>1 DEF Finalised
<1>4. CASE At(q, "paper") /\ paper' = [paper EXCEPT ![r.at] = Merged(@, r.loaded, r.body)]
    <2>1. /\ r.at \in Keys /\ r.body \in Paper /\ r.loaded \in Paper
          /\ paper[r.at] # None /\ r.loaded.status = "draft"
        BY <1>1, <1>2, <1>4, LlpRequestShapes DEF At, Ready
    <2>2. paper[r.at] \in Paper
        BY <1>2, <2>1
    <2>3. /\ Merged(paper[r.at], r.loaded, r.body) \in Paper
          /\ Finalised(r.at) => Merged(paper[r.at], r.loaded, r.body).status = "finalized"
        BY <2>1, <2>2, MergedPaper DEF Finalised
    <2>4. paper' = [paper EXCEPT ![r.at] = Merged(paper[r.at], r.loaded, r.body)]
        BY <1>4
    <2> QED
        BY <2>1, <2>3, <2>4
<1> QED
    BY <1>1, <1>3, <1>4 DEF WritePaper

LEMMA WritePaperKeepsLlpInv ==
    ASSUME LlpInv, NEW q \in Requests, WritePaper(q)
    PROVE  LlpInv'
<1>1. PICK k \in Keys, new \in Paper : paper' = [paper EXCEPT ![k] = new]
    BY PaperChanges
<1>2. paper \in [Keys -> Paper \cup {None}] /\ paper' \in [Keys -> Paper \cup {None}]
    BY <1>1 DEF LlpInv, LlpTypeOK
<1>3. \A j \in Keys : paper[j] # None => paper'[j] # None
    BY <1>1, <1>2, PapersAssumption
<1>4. llp' = llp /\ Goes(q, Idle)
    BY DEF WritePaper
<1>5. /\ req' \in [Requests -> LlpRequest]
      /\ \A p \in Requests : Ready(req'[p], llp', paper')
    BY <1>3, <1>4, Ends
<1>6. OneLlpin'
    BY <1>4 DEF LlpInv, OneLlpin, Holders, LiveLlp
<1>7. LlpTypeOK'
    BY <1>2, <1>4, <1>5 DEF LlpInv, LlpTypeOK
<1> QED
    BY <1>5, <1>6, <1>7 DEF LlpInv

LEMMA FailKeepsLlpInv ==
    ASSUME LlpInv, NEW q \in Requests, Fail(q)
    PROVE  LlpInv'
<1>1. /\ req' \in [Requests -> LlpRequest]
      /\ \A p \in Requests : Ready(req'[p], llp', paper')
    BY Ends DEF Fail
<1>2. OneLlpin'
    BY DEF Fail, LlpInv, OneLlpin, Holders, LiveLlp
<1>3. LlpTypeOK'
    BY <1>1 DEF Fail, LlpInv, LlpTypeOK
<1> QED
    BY <1>1, <1>2, <1>3 DEF LlpInv

LEMMA StutterKeepsLlpInv ==
    ASSUME LlpInv, UNCHANGED llpVars
    PROVE  LlpInv'
BY DEF LlpInv, LlpTypeOK, OneLlpin, Holders, LiveLlp, llpVars

LEMMA LlpInductive == LlpInv /\ [LlpNext]_llpVars => LlpInv'
<1> SUFFICES ASSUME LlpInv, [LlpNext]_llpVars PROVE LlpInv'
    OBVIOUS
<1>1. ASSUME NEW q \in Requests, WriteLlp(q) \/ WritePaper(q) \/ Fail(q) PROVE LlpInv'
    BY <1>1, WriteLlpKeepsLlpInv, WritePaperKeepsLlpInv, FailKeepsLlpInv
<1>2. ASSUME NEW q \in Requests, Answer(q) PROVE LlpInv'
    BY <1>2, StutterKeepsLlpInv DEF Answer
<1> QED
    BY <1>1, <1>2, StartsKeepLlpInv, StutterKeepsLlpInv DEF LlpNext

LEMMA LlpStarting == LlpInit => LlpInv
BY DEF LlpInit, LlpInv, LlpTypeOK, OneLlpin, Holders, LiveLlp, Ready, LlpRequest, Idle

-----------------------------------------------------------------------------
(* The theorems.                                                           *)

(* The tables and the requests keep their types, for every set of LLPs,    *)
(* returns, payloads and overlapping requests (models/llps.py).            *)
THEOREM LlpTypeCorrect == LlpSpec => []LlpTypeOK
<1>1. LlpInv => LlpTypeOK
    BY DEF LlpInv
<1> QED
    BY <1>1, LlpStarting, LlpInductive, PTL DEF LlpSpec

(* No two LLPs that are not deleted have one LLPIN, whatever create_llp    *)
(* and update_llp overlap.                                                 *)
THEOREM UniqueLlpin == LlpSpec => []OneLlpin
<1>1. LlpInv => OneLlpin
    BY DEF LlpInv
<1> QED
    BY <1>1, LlpStarting, LlpInductive, PTL DEF LlpSpec

(* A finalised working paper never becomes a draft again, although any     *)
(* number of requests loaded it as a draft (upsert_working_paper).         *)
THEOREM FinalisedForEver == LlpSpec => FinalisedStays
<1>1. LlpInv /\ [LlpNext]_llpVars => [\A k \in Keys : Finalised(k) => Finalised(k)']_llpVars
    <2> SUFFICES ASSUME LlpInv, LlpNext, NEW k \in Keys, Finalised(k) PROVE Finalised(k)'
        OBVIOUS
    <2>1. CASE paper' = paper
        BY <2>1 DEF Finalised
    <2>2. ASSUME NEW q \in Requests, WritePaper(q) PROVE Finalised(k)'
        <3>1. PICK j \in Keys, new \in Paper :
                  /\ paper' = [paper EXCEPT ![j] = new]
                  /\ Finalised(j) => new.status = "finalized"
            BY <2>2, PaperChanges
        <3>2. paper \in [Keys -> Paper \cup {None}]
            BY DEF LlpInv, LlpTypeOK
        <3> QED
            BY <3>1, <3>2, PapersAssumption DEF Finalised
    <2> QED
        BY <2>1, <2>2 DEF LlpNext, CreateLlp, UpdateLlp, DeleteLlp, UpsertPaper, Loads, WriteLlp,
           Fail, Answer, llpVars
<1> QED
    BY <1>1, LlpStarting, LlpInductive, PTL DEF LlpSpec, FinalisedStays

=============================================================================
