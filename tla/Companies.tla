----------------------------- MODULE Companies -----------------------------
(***************************************************************************)
(* The companies of a firm: entry by form, edit, soft delete with a        *)
(* reason, restore, and the import of a spreadsheet (routes/companies.py,  *)
(* routes/imports.py, services/imports.py, repositories/companies.py).     *)
(*                                                                         *)
(* Each request is one READ COMMITTED transaction.  It reads committed     *)
(* rows, a flush sends a write that nobody else sees and that holds the    *)
(* rows until the end of the transaction, and the commit publishes all of  *)
(* its writes.  A partial index allows one row of a CIN that is not        *)
(* deleted; deleted rows stay in the table.                                *)
(***************************************************************************)
EXTENDS Integers, Sequences, Transactions

CONSTANTS
    Cins, Names,
    Typed,     \* CINs entered by form
    Files      \* spreadsheets that clients upload: the rows parse_and_validate returns

Record == [cin: Cins, name: Names]
CinsOf(file) == {file[i].cin : i \in DOMAIN file}

VARIABLE company  \* [Cins -> Seq(Row)]: the company rows of each CIN; the position is the id

vars == <<company, req>>

Row == [name: Names, deleted: BOOLEAN]

(* A write: at is the row it updates, 0 for an insert; name and deleted    *)
(* are the values it sets, None and "same" for a column it leaves alone.   *)
Write == [at: Nat, name: Names \cup {None}, deleted: {"same", "no", "yes"}]

\* A file with a row in error or a CIN listed twice is refused before any write.
ASSUME CompaniesAssumption ==
    /\ None \notin Names /\ None \notin Write
    /\ Typed \subseteq Cins
    /\ \A f \in Files : /\ f \in Seq(Record)
                        /\ \A i, j \in DOMAIN f : f[i].cin = f[j].cin => i = j

\* For each CIN, what a transaction wrote to its rows and nobody else sees.
Wrote == [Cins -> Write \cup {None}]
NothingWritten == [c \in Cins |-> None]

Request ==
         {Idle}
    \cup [step: {"read"}, todo: Seq(Record), wrote: Wrote]
    \cup [step: {"flush"}, todo: Seq(Record), wrote: Wrote, cin: Cins, write: Write]

TypeOK ==
    /\ company \in [Cins -> Seq(Row)]
    /\ req \in [Requests -> Request]

Init ==
    /\ company = [c \in Cins |-> <<>>]
    /\ req = [q \in Requests |-> Idle]

Reads(q, r) == req' = [req EXCEPT ![q] = r] /\ UNCHANGED company

Live(rows) == {n \in DOMAIN rows : ~rows[n].deleted}

-----------------------------------------------------------------------------
(* What a request writes, decided on the row it loaded.                    *)

ToFlush(todo, wrote, c, write) ==
    [step |-> "flush", todo |-> todo, wrote |-> wrote, cin |-> c, write |-> write]

\* The insert, or the update and the restore of row n, for a record of the client.
Upsert(r, n) ==
    IF n = 0 THEN [at |-> 0, name |-> r.name, deleted |-> "no"]
    ELSE LET row == company[r.cin][n] IN
         [at |-> n, name |-> IF row.name = r.name THEN None ELSE r.name,
          deleted |-> IF row.deleted THEN "no" ELSE "same"]

(* get_by_cin: the row of the CIN, deleted or not, 0 for none; with more   *)
(* than one row the query raises and the request fails.                    *)
ByCin(c) == IF Len(company[c]) <= 1 THEN {Len(company[c])} ELSE {}

\* POST /companies: 409 when the row is not deleted.
Create(q, r) ==
    /\ At(q, "idle")
    /\ \E n \in ByCin(r.cin) \ Live(company[r.cin]) :
           Reads(q, ToFlush(<<>>, NothingWritten, r.cin, Upsert(r, n)))

\* PUT /companies/{id}: the CIN is not among the fields of CompanyUpdate.
Update(q, c, n, name) ==
    /\ At(q, "idle") /\ n \in Live(company[c]) /\ company[c][n].name # name
    /\ Reads(q, ToFlush(<<>>, NothingWritten, c, [at |-> n, name |-> name, deleted |-> "same"]))

\* DELETE /companies/{id}: soft.
Delete(q, c, n) ==
    /\ At(q, "idle") /\ n \in Live(company[c])
    /\ Reads(q, ToFlush(<<>>, NothingWritten, c, [at |-> n, name |-> None, deleted |-> "yes"]))

-----------------------------------------------------------------------------
(* POST /companies/import, not a dry run: commit_rows takes one row of the *)
(* file after the other.                                                   *)

Import(q, f) ==
    /\ At(q, "idle")
    /\ Reads(q, [step |-> "read", todo |-> f, wrote |-> NothingWritten])

AsListed(r, n) == n # 0 /\ company[r.cin][n] = [name |-> r.name, deleted |-> FALSE]

ImportRow(q) ==
    /\ At(q, "read") /\ req[q].todo # <<>>
    /\ LET r == Head(req[q].todo)  rest == Tail(req[q].todo) IN
           \E n \in ByCin(r.cin) :
               Reads(q, IF AsListed(r, n) THEN [req[q] EXCEPT !.todo = rest]
                        ELSE ToFlush(rest, req[q].wrote, r.cin, Upsert(r, n)))

-----------------------------------------------------------------------------
(* The database.                                                           *)

\* The rows of the CIN, and its place in the index, are held by transaction p.
Holds(p, c) == ~At(p, "idle") /\ req[p].wrote[c] # None
Waits(q, p) == p # q /\ At(q, "flush") /\ Holds(p, req[q].cin)
Granted(q) == At(q, "flush") /\ \A p \in Requests : ~Waits(q, p)

\* Mutant: no partial index.
IndexNone(c, write) == TRUE

\* The partial index: after the write no other row of the CIN is live.
IndexAllows(c, write) ==
    write.deleted = "no" => Live(company[c]) \subseteq {write.at}

Flush(q) ==
    /\ Granted(q) /\ IndexAllows(req[q].cin, req[q].write)
    /\ Reads(q, [step |-> "read", todo |-> req[q].todo,
                 wrote |-> [req[q].wrote EXCEPT ![req[q].cin] = req[q].write]])

\* The IntegrityError of the index, or MultipleResultsFound: the request fails.
Refused(q) ==
    \/ Granted(q) /\ ~IndexAllows(req[q].cin, req[q].write)
    \/ At(q, "read") /\ req[q].todo # <<>> /\ ByCin(Head(req[q].todo).cin) = {}

\* Mutant: nothing ends a cycle of waits.
DeadlockedNever(q) == FALSE

\* PostgreSQL ends one of the transactions that wait for each other in a cycle.
Deadlocked(q) ==
    \E cycle \in SUBSET Requests :
        /\ q \in cycle
        /\ \A p \in cycle : (\E o \in cycle : Waits(p, o)) /\ (\E o \in cycle : Waits(o, p))

Rollback(q) ==
    /\ Refused(q) \/ Deadlocked(q)
    /\ Reads(q, Idle)

\* The client or the process may go away at any step.
Crash(q) == ~At(q, "idle") /\ Reads(q, Idle)

Applied(rows, write) ==
    IF write.at = 0 THEN Append(rows, [name |-> write.name, deleted |-> FALSE])
    ELSE [n \in DOMAIN rows |->
             IF n # write.at THEN rows[n]
             ELSE [name |-> IF write.name = None THEN rows[n].name ELSE write.name,
                   deleted |-> IF write.deleted = "same" THEN rows[n].deleted
                               ELSE write.deleted = "yes"]]

\* Mutant: one commit for each row of the file.
FinishedRow(q) == req[q].wrote # NothingWritten

Finished(q) == req[q].todo = <<>>

Commit(q) ==
    /\ At(q, "read") /\ Finished(q)
    /\ company' = [c \in Cins |-> IF req[q].wrote[c] = None THEN company[c]
                                  ELSE Applied(company[c], req[q].wrote[c])]
    /\ req' = [req EXCEPT ![q] =
           IF req[q].todo = <<>> THEN Idle ELSE [req[q] EXCEPT !.wrote = NothingWritten]]

-----------------------------------------------------------------------------
Starts(q) ==
    \/ \E c \in Typed, name \in Names : Create(q, [cin |-> c, name |-> name])
    \/ \E c \in Cins, name \in Names : \E n \in DOMAIN company[c] : Update(q, c, n, name)
    \/ \E c \in Cins : \E n \in DOMAIN company[c] : Delete(q, c, n)
    \/ \E f \in Files : Import(q, f)

Continues(q) == ImportRow(q) \/ Flush(q) \/ Rollback(q) \/ Commit(q)

Next == \E q \in Requests : Starts(q) \/ Continues(q) \/ Crash(q)

Spec == Init /\ [][Next]_vars

(* The event loop runs every request on, and PostgreSQL queues the         *)
(* transactions that wait for a lock: one that can go on again and again   *)
(* does.  Nothing is assumed of the clients.                               *)
Fairness == \A q \in Requests : SF_vars(Continues(q))
FairSpec == Spec /\ Fairness

-----------------------------------------------------------------------------
(* A firm never has two companies of a CIN that are not deleted, however   *)
(* entries, imports, deletions and restores overlap.                       *)
OneLive == \A c \in Cins : \A m, n \in Live(company[c]) : m = n

(* An import is all or nothing: a CIN that nobody types is in the table    *)
(* only together with the other CINs of a file that lists it, whatever     *)
(* failed in the middle of an import.                                      *)
WholeFiles ==
    \A c \in Cins \ Typed : company[c] # <<>> =>
        \E f \in Files : /\ c \in CinsOf(f)
                         /\ \A d \in CinsOf(f) : company[d] # <<>>

(* Every request ends, although two imports that list the same CINs in     *)
(* different orders wait for each other.                                   *)
RequestsEnd == \A q \in Requests : ~At(q, "idle") ~> At(q, "idle")
=============================================================================
