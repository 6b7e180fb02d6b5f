----------------------------- MODULE Registers -----------------------------
(***************************************************************************)
(* One statutory register of a company (services/registers.py,             *)
(* routes/registers.py).  A request opens a transaction when it            *)
(* authenticates, reads the head of the entry, inserts the next version    *)
(* and commits; requests overlap.  created_at is now(), which in Postgres  *)
(* is the time the transaction began.                                      *)
(***************************************************************************)
EXTENDS Naturals

CONSTANTS
    Keys,       \* entry_key values: a new entry draws a new one
    Payloads,   \* payloads that validate_payload accepts
    Requests,   \* bound on the requests in progress at a time
    MaxTime     \* bound on the transactions begun

ASSUME RegistersAssumption == MaxTime \in Nat

VARIABLES
    table,  \* the committed register_entry rows
    clock,  \* the time the next transaction begins
    req     \* the requests in progress

vars == <<table, clock, req>>

Row == [key: Keys, version: Nat \ {0}, payload: Payloads, deleted: BOOLEAN, at: Nat]

Idle == [step |-> "idle"]

\* expected is the version the client amends; a deletion names none.
Request == {Idle}
      \cup [step: {"amend"}, key: Keys, payload: Payloads, expected: Nat, at: Nat]
      \cup [step: {"delete"}, key: Keys, at: Nat]
      \cup [step: {"insert"}, row: Row]

TypeOK ==
    /\ table \in SUBSET Row
    /\ clock \in 0..MaxTime
    /\ req \in [Requests -> Request]

Init == table = {} /\ clock = 0 /\ req = [q \in Requests |-> Idle]

-----------------------------------------------------------------------------
Versions(k) == {row \in table : row.key = k}

\* current_version: the row with the highest version_no.
IsHead(row, k) == row \in Versions(k) /\ \A r \in Versions(k) : r.version <= row.version

Moves(q, r) == req' = [req EXCEPT ![q] = r]

\* A transaction begins: the clock stands at its created_at.
Begin(q, r) ==
    /\ req[q].step = "idle"
    /\ clock < MaxTime
    /\ clock' = clock + 1
    /\ Moves(q, r)
    /\ UNCHANGED table

NewRow(k, version, payload, deleted, at) ==
    [key |-> k, version |-> version, payload |-> payload, deleted |-> deleted, at |-> at]

Used(k) == Versions(k) # {} \/ \E q \in Requests : req[q].step = "insert" /\ req[q].row.key = k

\* Mutant: the numbering starts at 0.
CreateVersionZero(q, k, p) ==
    ~Used(k) /\ Begin(q, [step |-> "insert", row |-> NewRow(k, 0, p, FALSE, clock)])

CreateEntry(q, k, p) == ~Used(k) /\ Begin(q, [step |-> "insert", row |-> NewRow(k, 1, p, FALSE, clock)])

\* The client has loaded the version it names.
BeginAmend(q, k, p) ==
    \E loaded \in Versions(k) :
        Begin(q, [step |-> "amend", key |-> k, payload |-> p, expected |-> loaded.version,
                  at |-> clock])

BeginDelete(q, k) == Versions(k) # {} /\ Begin(q, [step |-> "delete", key |-> k, at |-> clock])

\* Mutants: a deleted entry may be amended; the expected version is not compared.
AmendsDeleted(head, expected) == head.version = expected
AmendsAnyHead(head, expected) == ~head.deleted

MayAmend(head, expected) == ~head.deleted /\ head.version = expected

\* amend_entry reads the head; it refuses a deleted entry and a head that is not
\* the version the client amends.
AmendEntry(q) ==
    /\ req[q].step = "amend"
    /\ \E head \in table :
           /\ IsHead(head, req[q].key)
           /\ Moves(q, IF ~MayAmend(head, req[q].expected) THEN Idle
                       ELSE [step |-> "insert",
                             row |-> NewRow(head.key, head.version + 1, req[q].payload,
                                            FALSE, req[q].at)])
    /\ UNCHANGED <<table, clock>>

\* Mutant: an entry may be deleted again.
DeletesAgain(head) == TRUE

MayDelete(head) == ~head.deleted

\* soft_delete_entry takes whatever head there is, unless it is deleted.
SoftDeleteEntry(q) ==
    /\ req[q].step = "delete"
    /\ \E head \in table :
           /\ IsHead(head, req[q].key)
           /\ Moves(q, IF ~MayDelete(head) THEN Idle
                       ELSE [step |-> "insert",
                             row |-> NewRow(head.key, head.version + 1, head.payload,
                                            TRUE, req[q].at)])
    /\ UNCHANGED <<table, clock>>

\* Mutant: the table has no such constraint.
NeverTaken(row) == TRUE

\* UNIQUE (entry_key, version_no).
IsFree(row) == \A r \in table : r.key = row.key => r.version # row.version

Insert(q) ==
    /\ req[q].step = "insert"
    /\ IsFree(req[q].row)
    /\ table' = table \cup {req[q].row}
    /\ Moves(q, Idle)
    /\ UNCHANGED clock

\* The insert meets the constraint, or the process or the client dies.
Fail(q) == /\ req[q].step # "idle"
           /\ Moves(q, Idle)
           /\ UNCHANGED <<table, clock>>

\* A request opens its transaction and, once it has the session, reads or inserts.
Starts(q) ==
    \E k \in Keys :
        \/ BeginDelete(q, k)
        \/ \E p \in Payloads : CreateEntry(q, k, p) \/ BeginAmend(q, k, p)

Next ==
    \E q \in Requests : Starts(q) \/ AmendEntry(q) \/ SoftDeleteEntry(q) \/ Insert(q) \/ Fail(q)

Spec == Init /\ [][Next]_vars

-----------------------------------------------------------------------------
(* entries_as_on: rows in the order of created_at, the last one per key.   *)

Upto(k, t) == {row \in Versions(k) : row.at <= t}

ShownAsOn(t) ==
    {row \in table : /\ row \in Upto(row.key, t)
                     /\ \A r \in Upto(row.key, t) : r.at <= row.at
                     /\ ~row.deleted}

-----------------------------------------------------------------------------
(* Safety.                                                                 *)

\* PRD section 8: the versions of an entry are 1, 2, ... without a gap and
\* without a fork, whatever requests overlap.
OneChain ==
    /\ \A a, b \in table : a.key = b.key /\ a.version = b.version => a = b
    /\ \A a \in table : \A n \in 1..a.version : \E b \in table : b.key = a.key /\ b.version = n

\* amend_entry: there is no restore for legal records.  Nothing follows a
\* deletion, and there is one at most.
DeletedIsLast ==
    \A a, b \in table : a.key = b.key /\ a.deleted => b.version <= a.version

\* PRD section 8, the as-on extract: an entry nobody deleted shows its latest
\* version, because a client can only amend a version it has loaded and the
\* times of the versions grow with their numbers.
AmendsShown ==
    \A k \in Keys : (\A r \in Versions(k) : ~r.deleted) =>
        \A head \in Versions(k) : IsHead(head, k) => head \in ShownAsOn(clock)

-----------------------------------------------------------------------------
(* The chains of Register: sequences, since OneChain holds.                *)

EntryOf(row) == [payload |-> row.payload, deleted |-> row.deleted]

History(rows) ==
    [n \in {row.version : row \in rows} |-> EntryOf(CHOOSE row \in rows : row.version = n)]

Promised == INSTANCE Register WITH chain <- [k \in Keys |-> History(Versions(k))]

\* Requests that overlap in any way leave the chains that single requests, one
\* after the other, would have left: no amendment is lost and none is applied to
\* a version its author had not loaded.
Linear == Promised!Spec

=============================================================================
