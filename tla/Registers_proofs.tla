-------------------------- MODULE Registers_proofs --------------------------
(***************************************************************************)
(* What Registers guarantees for every set of entries, payloads and        *)
(* requests, and every number of transactions.                             *)
(***************************************************************************)
EXTENDS Registers, Sequences, TLAPS

-----------------------------------------------------------------------------
(* The inductive invariant: the rows, and what the requests in progress    *)
(* know of them.                                                           *)

\* The versions of an entry that is not deleted grow with their times.
TimesGrow ==
    \A a, b \in table :
        a.key = b.key /\ ~b.deleted /\ a.version < b.version => a.at < b.at

\* No row is of a transaction to come.
Past == \A a \in table : a.at < clock

\* Every entry that has rows has a last one.
Headed == \A k \in Keys : Versions(k) # {} => \E head \in table : IsHead(head, k)

\* The row a request is about to insert begins its entry or follows a row that
\* is not a deletion; a deletion keeps the payload.
Follows(row, rows) ==
    \/ row.version = 1 /\ ~row.deleted
    \/ \E b \in rows : /\ b.key = row.key /\ b.version + 1 = row.version /\ ~b.deleted
                       /\ row.deleted => row.payload = b.payload

\* The rows of k up to version v are older than t.
OlderThan(rows, k, v, t) == \A a \in rows : a.key = k /\ a.version <= v => a.at < t

\* An amendment began after the version it names, and those before it, were
\* committed; an insertion keeps that.
Fits(r, rows, now) ==
    /\ r.step = "amend" =>
           /\ r.at < now
           /\ \E b \in rows : b.key = r.key /\ b.version = r.expected
           /\ OlderThan(rows, r.key, r.expected, r.at)
    /\ r.step = "delete" => r.at < now
    /\ r.step = "insert" =>
           /\ r.row.at < now
           /\ Follows(r.row, rows)
           /\ ~r.row.deleted => OlderThan(rows, r.row.key, r.row.version - 1, r.row.at)

IInv ==
    /\ TypeOK
    /\ OneChain
    /\ DeletedIsLast
    /\ TimesGrow
    /\ Past
    /\ Headed
    /\ \A q \in Requests : Fits(req[q], table, clock)

-----------------------------------------------------------------------------
(* Lemmas.                                                                 *)

\* A row whose version is free is above every row of its entry.
LEMMA FreeIsAbove ==
    ASSUME TypeOK, OneChain, NEW row \in Row, IsFree(row)
    PROVE  \A a \in table : a.key = row.key => a.version < row.version
<1> SUFFICES ASSUME NEW a \in table, a.key = row.key, ~(a.version < row.version)
             PROVE  FALSE
    OBVIOUS
<1>1. a \in Row
    BY DEF TypeOK
<1>2. a.version \in Nat \ {0} /\ row.version \in Nat \ {0}
    BY <1>1 DEF Row
<1>3. row.version \in 1..a.version
    BY <1>2
<1>4. PICK b \in table : b.key = a.key /\ b.version = row.version
    BY <1>3 DEF OneChain
<1> QED
    BY <1>4 DEF IsFree

\* A row that follows another is one above it.
LEMMA FollowsAbove ==
    ASSUME NEW row, NEW rows, Follows(row, rows), row.version # 1
    PROVE  \E b \in rows : b.key = row.key /\ b.version + 1 = row.version /\ ~b.deleted
    BY Zenon DEF Follows

\* What a request inserts is a row.
LEMMA NewRowTyped ==
    ASSUME NEW k \in Keys, NEW v \in Nat \ {0}, NEW p \in Payloads,
           NEW d \in BOOLEAN, NEW t \in Nat
    PROVE  NewRow(k, v, p, d, t) \in Row
    BY DEF NewRow, Row

\* A step of a request leaves it in a state of Request.
LEMMA MovesTyped ==
    ASSUME TypeOK, NEW q \in Requests, NEW r \in Request, Moves(q, r)
    PROVE  /\ req' \in [Requests -> Request]
           /\ req'[q] = r
           /\ \A p \in Requests : p # q => req'[p] = req[p]
    BY DEF TypeOK, Moves

\* A transaction that begins is typed.
LEMMA BeginTyped ==
    ASSUME TypeOK, NEW q \in Requests, NEW r \in Request, Begin(q, r)
    PROVE  TypeOK'
<1>1. req' \in [Requests -> Request]
    BY MovesTyped DEF Begin
<1>2. clock' \in 0..MaxTime
    BY RegistersAssumption DEF TypeOK, Begin
<1>3. table' = table
    BY DEF Begin
<1> QED
    BY <1>1, <1>2, <1>3 DEF TypeOK

\* The members of Request, one shape at a time.
LEMMA RequestShapes ==
    ASSUME NEW r \in Request
    PROVE  /\ r.step = "amend" =>
                  r.key \in Keys /\ r.payload \in Payloads /\ r.expected \in Nat /\ r.at \in Nat
           /\ r.step = "delete" => r.key \in Keys /\ r.at \in Nat
           /\ r.step = "insert" => r.row \in Row
    BY DEF Request, Idle

-----------------------------------------------------------------------------
(* The type invariant.                                                     *)

LEMMA StartsTyped ==
    ASSUME TypeOK, NEW q \in Requests, Starts(q)
    PROVE  TypeOK'
<1>1. clock \in Nat
    BY RegistersAssumption DEF TypeOK
<1>2. PICK k \in Keys :
        \/ BeginDelete(q, k)
        \/ \E p \in Payloads : CreateEntry(q, k, p) \/ BeginAmend(q, k, p)
    BY DEF Starts
<1>3. CASE BeginDelete(q, k)
    <2>1. [step |-> "delete", key |-> k, at |-> clock] \in Request
        BY <1>1 DEF Request
    <2> QED
        BY <1>3, <2>1, BeginTyped DEF BeginDelete
<1>4. ASSUME NEW p \in Payloads, CreateEntry(q, k, p) PROVE TypeOK'
    <2>1. NewRow(k, 1, p, FALSE, clock) \in Row
        <3>1. 1 \in Nat \ {0} /\ FALSE \in BOOLEAN
            OBVIOUS
        <3> QED
            BY <1>1, <3>1, NewRowTyped
    <2>2. [step |-> "insert", row |-> NewRow(k, 1, p, FALSE, clock)] \in Request
        BY <2>1 DEF Request
    <2> QED
        BY <1>4, <2>2, BeginTyped DEF CreateEntry
<1>5. ASSUME NEW p \in Payloads, BeginAmend(q, k, p) PROVE TypeOK'
    <2>1. PICK loaded \in Versions(k) :
            Begin(q, [step |-> "amend", key |-> k, payload |-> p,
                      expected |-> loaded.version, at |-> clock])
        BY <1>5 DEF BeginAmend
    <2>2. loaded.version \in Nat
        BY DEF Versions, TypeOK, Row
    <2>3. [step |-> "amend", key |-> k, payload |-> p,
           expected |-> loaded.version, at |-> clock] \in Request
        BY <1>1, <2>2 DEF Request
    <2> QED
        BY <2>1, <2>3, BeginTyped
<1> QED
    BY <1>2, <1>3, <1>4, <1>5

\* What amend_entry and soft_delete_entry hold after they have read the head.
LEMMA ReadsHead ==
    ASSUME TypeOK, NEW q \in Requests, AmendEntry(q) \/ SoftDeleteEntry(q)
    PROVE  /\ table' = table /\ clock' = clock
           /\ \E r \in Request :
                  /\ Moves(q, r)
                  /\ \/ r = Idle
                     \/ \E head \in table :
                            /\ IsHead(head, req[q].key)
                            /\ ~head.deleted
                            /\ \/ /\ req[q].step = "amend"
                                  /\ head.version = req[q].expected
                                  /\ r = [step |-> "insert",
                                          row |-> NewRow(head.key, head.version + 1,
                                                         req[q].payload, FALSE, req[q].at)]
                               \/ /\ req[q].step = "delete"
                                  /\ r = [step |-> "insert",
                                          row |-> NewRow(head.key, head.version + 1,
                                                         head.payload, TRUE, req[q].at)]
<1>1. table' = table /\ clock' = clock
    BY DEF AmendEntry, SoftDeleteEntry
<1>2. Idle \in Request
    BY DEF Request
<1>3. req[q] \in Request
    BY DEF TypeOK
<1>4. CASE AmendEntry(q)
    <2>1. PICK head \in table :
            /\ IsHead(head, req[q].key)
            /\ Moves(q, IF ~MayAmend(head, req[q].expected) THEN Idle
                        ELSE [step |-> "insert",
                              row |-> NewRow(head.key, head.version + 1, req[q].payload,
                                             FALSE, req[q].at)])
        BY <1>4 DEF AmendEntry
    <2>2. CASE ~MayAmend(head, req[q].expected)
        BY <1>1, <1>2, <2>1, <2>2
    <2>3. CASE MayAmend(head, req[q].expected)
        <3> DEFINE row == NewRow(head.key, head.version + 1, req[q].payload, FALSE, req[q].at)
        <3>1. req[q].step = "amend" /\ req[q].payload \in Payloads /\ req[q].at \in Nat
            BY <1>3, <1>4, RequestShapes DEF AmendEntry
        <3>2. head.key \in Keys /\ head.version + 1 \in Nat \ {0}
            BY DEF TypeOK, Row
        <3>3. row \in Row
            BY <3>1, <3>2, NewRowTyped
        <3>4. [step |-> "insert", row |-> row] \in Request
            BY <3>3 DEF Request
        <3>5. Moves(q, [step |-> "insert", row |-> row])
            BY <2>1, <2>3
        <3> QED
            BY <1>1, <2>1, <2>3, <3>1, <3>4, <3>5 DEF MayAmend
    <2> QED
        BY <2>2, <2>3
<1>5. CASE SoftDeleteEntry(q)
    <2>1. PICK head \in table :
            /\ IsHead(head, req[q].key)
            /\ Moves(q, IF ~MayDelete(head) THEN Idle
                        ELSE [step |-> "insert",
                              row |-> NewRow(head.key, head.version + 1, head.payload,
                                             TRUE, req[q].at)])
        BY <1>5 DEF SoftDeleteEntry
    <2>2. CASE ~MayDelete(head)
        BY <1>1, <1>2, <2>1, <2>2
    <2>3. CASE MayDelete(head)
        <3> DEFINE row == NewRow(head.key, head.version + 1, head.payload, TRUE, req[q].at)
        <3>1. req[q].step = "delete" /\ req[q].at \in Nat
            BY <1>3, <1>5, RequestShapes DEF SoftDeleteEntry
        <3>2. head.key \in Keys /\ head.version + 1 \in Nat \ {0} /\ head.payload \in Payloads
            BY DEF TypeOK, Row
        <3>3. row \in Row
            BY <3>1, <3>2, NewRowTyped
        <3>4. [step |-> "insert", row |-> row] \in Request
            BY <3>3 DEF Request
        <3>5. Moves(q, [step |-> "insert", row |-> row])
            BY <2>1, <2>3
        <3> QED
            BY <1>1, <2>1, <2>3, <3>1, <3>4, <3>5 DEF MayDelete
    <2> QED
        BY <2>2, <2>3
<1> QED
    BY <1>4, <1>5

LEMMA TypeInductive == TypeOK /\ [Next]_vars => TypeOK'
<1> SUFFICES ASSUME TypeOK, [Next]_vars PROVE TypeOK'
    OBVIOUS
<1>1. ASSUME NEW q \in Requests, Starts(q) PROVE TypeOK'
    BY <1>1, StartsTyped
<1>2. ASSUME NEW q \in Requests, AmendEntry(q) \/ SoftDeleteEntry(q) PROVE TypeOK'
    <2>1. /\ table' = table /\ clock' = clock
          /\ \E r \in Request : Moves(q, r)
        BY <1>2, ReadsHead
    <2>2. req' \in [Requests -> Request]
        BY <2>1, MovesTyped
    <2> QED
        BY <2>1, <2>2 DEF TypeOK
<1>3. ASSUME NEW q \in Requests, Insert(q) \/ Fail(q) PROVE TypeOK'
    <2>1. Idle \in Request
        BY DEF Request
    <2>2. req' \in [Requests -> Request]
        BY <1>3, <2>1, MovesTyped DEF Insert, Fail
    <2>3. req[q].step = "insert" => req[q].row \in Row
        BY RequestShapes DEF TypeOK
    <2>4. table' \in SUBSET Row /\ clock' \in 0..MaxTime
        BY <1>3, <2>3 DEF TypeOK, Insert, Fail
    <2> QED
        BY <2>2, <2>4 DEF TypeOK
<1>4. CASE UNCHANGED vars
    BY <1>4 DEF vars, TypeOK
<1> QED
    BY <1>1, <1>2, <1>3, <1>4 DEF Next

\* TypeOK holds for every set of entries, payloads and requests: a version is at
\* least 1 and every row is one the models' columns admit.
THEOREM TypeCorrect == Spec => []TypeOK
<1>1. Init => TypeOK
    BY RegistersAssumption DEF Init, TypeOK, Request
<1> QED
    BY <1>1, TypeInductive, PTL DEF Spec

-----------------------------------------------------------------------------
(* The strengthening.                                                      *)

\* What a request knows stays true while the clock runs.
LEMMA FitsLater ==
    ASSUME NEW rows \in SUBSET Row, NEW r \in Request, NEW now \in Nat,
           NEW later \in Nat, now <= later, Fits(r, rows, now)
    PROVE  Fits(r, rows, later)
<1>1. /\ r.step \in {"amend", "delete"} => r.at \in Nat
      /\ r.step = "insert" => r.row.at \in Nat
    BY RequestShapes DEF Row
<1>2. \A t \in Nat : t < now => t < later
    OBVIOUS
<1> QED
    BY <1>1, <1>2 DEF Fits

\* What a request knows stays true while another inserts above every row of its
\* entry.
LEMMA FitsMore ==
    ASSUME NEW rows \in SUBSET Row, NEW r \in Request, NEW now \in Nat, Fits(r, rows, now),
           NEW new \in Row, \A a \in rows : a.key = new.key => a.version < new.version
    PROVE  Fits(r, rows \cup {new}, now)
<1>1. new.version \in Nat \ {0} /\ \A b \in rows : b.version \in Nat \ {0}
    BY DEF Row
<1>2. CASE r.step = "amend"
    <2>1. PICK b \in rows : b.key = r.key /\ b.version = r.expected
        BY <1>2 DEF Fits
    <2>2. ~(new.key = r.key /\ new.version <= r.expected)
        BY <1>1, <2>1
    <2>3. OlderThan(rows, r.key, r.expected, r.at) /\ r.at < now
        BY <1>2 DEF Fits
    <2>4. OlderThan(rows \cup {new}, r.key, r.expected, r.at)
        BY <2>2, <2>3 DEF OlderThan
    <2> QED
        BY <1>2, <2>1, <2>3, <2>4 DEF Fits
<1>3. CASE r.step = "insert"
    <2>1. r.row \in Row /\ r.row.version \in Nat \ {0}
        BY <1>3, RequestShapes DEF Row
    <2>2. Follows(r.row, rows) /\ r.row.at < now
        BY <1>3 DEF Fits
    <2>3. Follows(r.row, rows \cup {new})
        BY <2>2 DEF Follows
    <2>4. ~(new.key = r.row.key /\ new.version <= r.row.version - 1)
        BY <1>1, <2>1, <2>2, FollowsAbove
    <2>5. ~r.row.deleted => OlderThan(rows, r.row.key, r.row.version - 1, r.row.at)
        BY <1>3 DEF Fits
    <2>6. ~r.row.deleted => OlderThan(rows \cup {new}, r.row.key, r.row.version - 1, r.row.at)
        BY <2>4, <2>5 DEF OlderThan
    <2> QED
        BY <1>3, <2>2, <2>3, <2>6 DEF Fits
<1>4. CASE r.step \notin {"amend", "insert"}
    BY <1>4 DEF Fits
<1> QED
    BY <1>2, <1>3, <1>4

\* A step that only moves a request, to a state that fits, keeps the invariant.
LEMMA MoveKeeps ==
    ASSUME IInv, TypeOK', NEW q \in Requests, NEW r \in Request, Moves(q, r),
           table' = table, clock' \in {clock, clock + 1}, Fits(r, table, clock')
    PROVE  IInv'
<1>1. OneChain' /\ DeletedIsLast' /\ TimesGrow' /\ Headed'
    <2>1. OneChain' /\ DeletedIsLast' /\ TimesGrow'
        BY DEF IInv, OneChain, DeletedIsLast, TimesGrow
    <2>2. \A k \in Keys : Versions(k)' = Versions(k)
        BY DEF Versions
    <2>3. Headed'
        BY <2>2 DEF IInv, Headed, IsHead
    <2> QED
        BY <2>1, <2>3
<1>2. clock \in Nat /\ clock' \in Nat /\ clock <= clock' /\ table \in SUBSET Row
    BY RegistersAssumption DEF IInv, TypeOK
<1>3. Past'
    BY <1>2 DEF IInv, Past, Row
<1>4. ASSUME NEW p \in Requests PROVE Fits(req'[p], table', clock')
    <2>1. CASE p = q
        BY <2>1, MovesTyped DEF IInv
    <2>2. CASE p # q
        <3>1. req'[p] = req[p] /\ req[p] \in Request /\ Fits(req[p], table, clock)
            BY <2>2, MovesTyped DEF IInv, TypeOK
        <3>2. Fits(req[p], table, clock')
            BY <1>2, <3>1, FitsLater
        <3> QED
            BY <3>1, <3>2
    <2> QED
        BY <2>1, <2>2
<1> QED
    BY <1>1, <1>3, <1>4 DEF IInv

LEMMA IdleFits ==
    ASSUME NEW rows, NEW now
    PROVE  Idle \in Request /\ Fits(Idle, rows, now)
    BY DEF Idle, Request, Fits

LEMMA StartsKeeps ==
    ASSUME IInv, NEW q \in Requests, Starts(q)
    PROVE  IInv'
<1>1. clock \in Nat /\ TypeOK
    BY RegistersAssumption DEF IInv, TypeOK
<1>2. TypeOK'
    BY <1>1, StartsTyped
<1>3. ASSUME NEW r \in Request, Begin(q, r), Fits(r, table, clock + 1) PROVE IInv'
    BY <1>2, <1>3, MoveKeeps DEF Begin
<1>4. PICK k \in Keys :
        \/ BeginDelete(q, k)
        \/ \E p \in Payloads : CreateEntry(q, k, p) \/ BeginAmend(q, k, p)
    BY DEF Starts
<1>5. CASE BeginDelete(q, k)
    <2> DEFINE r == [step |-> "delete", key |-> k, at |-> clock]
    <2>1. r \in Request /\ Fits(r, table, clock + 1)
        BY <1>1 DEF Request, Fits
    <2> QED
        BY <1>3, <1>5, <2>1 DEF BeginDelete
<1>6. ASSUME NEW p \in Payloads, CreateEntry(q, k, p) PROVE IInv'
    <2> DEFINE row == NewRow(k, 1, p, FALSE, clock)
               r == [step |-> "insert", row |-> row]
    <2>1. row \in Row
        <3>1. 1 \in Nat \ {0} /\ FALSE \in BOOLEAN
            OBVIOUS
        <3> QED
            BY <1>1, <3>1, NewRowTyped
    <2>2. r \in Request
        BY <2>1 DEF Request
    <2>3. row.at < clock + 1 /\ row.version = 1 /\ ~row.deleted
        BY <1>1 DEF NewRow
    <2>4. OlderThan(table, row.key, row.version - 1, row.at)
        <3>1. \A a \in table : a.version \in Nat \ {0}
            BY <1>1 DEF TypeOK, Row
        <3> HIDE DEF row
        <3> QED
            BY <2>3, <3>1 DEF OlderThan
    <2>5. Fits(r, table, clock + 1)
        <3> HIDE DEF row
        <3> QED
            BY <2>3, <2>4 DEF Fits, Follows
    <2> QED
        BY <1>3, <1>6, <2>2, <2>5 DEF CreateEntry
<1>7. ASSUME NEW p \in Payloads, BeginAmend(q, k, p) PROVE IInv'
    <2>1. PICK loaded \in Versions(k) :
            Begin(q, [step |-> "amend", key |-> k, payload |-> p,
                      expected |-> loaded.version, at |-> clock])
        BY <1>7 DEF BeginAmend
    <2> DEFINE r == [step |-> "amend", key |-> k, payload |-> p,
                     expected |-> loaded.version, at |-> clock]
    <2>2. loaded \in table /\ loaded.key = k /\ loaded.version \in Nat
        BY <1>1 DEF Versions, TypeOK, Row
    <2>3. r \in Request
        BY <1>1, <2>2 DEF Request
    <2>4. OlderThan(table, k, loaded.version, clock)
        BY DEF IInv, Past, OlderThan
    <2>5. Fits(r, table, clock + 1)
        BY <1>1, <2>2, <2>4 DEF Fits
    <2> QED
        BY <1>3, <2>1, <2>3, <2>5
<1> QED
    BY <1>4, <1>5, <1>6, <1>7

LEMMA ReadsKeep ==
    ASSUME IInv, NEW q \in Requests, AmendEntry(q) \/ SoftDeleteEntry(q)
    PROVE  IInv'
<1>1. TypeOK /\ TypeOK'
    BY TypeInductive DEF IInv, Next
<1>2. clock \in Nat /\ req[q] \in Request /\ Fits(req[q], table, clock)
    BY RegistersAssumption DEF IInv, TypeOK
<1>3. table' = table /\ clock' = clock
    BY <1>1, ReadsHead
<1>4. ASSUME NEW r \in Request, Moves(q, r), Fits(r, table, clock) PROVE IInv'
    BY <1>1, <1>3, <1>4, MoveKeeps
<1>5. PICK r \in Request :
        /\ Moves(q, r)
        /\ \/ r = Idle
           \/ \E head \in table :
                  /\ IsHead(head, req[q].key)
                  /\ ~head.deleted
                  /\ \/ /\ req[q].step = "amend"
                        /\ head.version = req[q].expected
                        /\ r = [step |-> "insert",
                                row |-> NewRow(head.key, head.version + 1,
                                               req[q].payload, FALSE, req[q].at)]
                     \/ /\ req[q].step = "delete"
                        /\ r = [step |-> "insert",
                                row |-> NewRow(head.key, head.version + 1,
                                               head.payload, TRUE, req[q].at)]
    BY <1>1, ReadsHead
<1>6. CASE r = Idle
    BY <1>4, <1>5, <1>6, IdleFits
<1>7. ASSUME NEW head \in table, IsHead(head, req[q].key), ~head.deleted,
             req[q].step = "amend", head.version = req[q].expected,
             r = [step |-> "insert",
                  row |-> NewRow(head.key, head.version + 1, req[q].payload, FALSE, req[q].at)]
      PROVE  IInv'
    <2>1. head.key = req[q].key /\ head.version \in Nat \ {0}
        BY <1>1, <1>7 DEF IsHead, Versions, TypeOK, Row
    <2>2. req[q].at < clock /\ OlderThan(table, head.key, head.version, req[q].at)
        BY <1>2, <1>7, <2>1 DEF Fits
    <2>3. /\ r.step = "insert" /\ r.row.key = head.key /\ r.row.version = head.version + 1
          /\ r.row.at = req[q].at /\ ~r.row.deleted
        BY <1>7 DEF NewRow
    <2>4. r.row.version - 1 = head.version
        BY <2>1, <2>3
    <2>5. Follows(r.row, table)
        BY <1>7, <2>3 DEF Follows
    <2>6. Fits(r, table, clock)
        BY <2>2, <2>3, <2>4, <2>5 DEF Fits
    <2> QED
        BY <1>4, <1>5, <2>6
<1>8. ASSUME NEW head \in table, IsHead(head, req[q].key), ~head.deleted,
             req[q].step = "delete",
             r = [step |-> "insert",
                  row |-> NewRow(head.key, head.version + 1, head.payload, TRUE, req[q].at)]
      PROVE  IInv'
    <2>1. req[q].at < clock
        BY <1>2, <1>8 DEF Fits
    <2>2. /\ r.step = "insert" /\ r.row.key = head.key /\ r.row.version = head.version + 1
          /\ r.row.at = req[q].at /\ r.row.deleted /\ r.row.payload = head.payload
        BY <1>8 DEF NewRow
    <2>3. Follows(r.row, table)
        BY <1>8, <2>2 DEF Follows
    <2>4. Fits(r, table, clock)
        BY <2>1, <2>2, <2>3 DEF Fits
    <2> QED
        BY <1>4, <1>5, <2>4
<1> QED
    BY <1>5, <1>6, <1>7, <1>8

\* The insertion: the unique constraint makes the new row the highest of its entry.
LEMMA InsertKeeps ==
    ASSUME IInv, NEW q \in Requests, Insert(q)
    PROVE  IInv'
<1> DEFINE new == req[q].row
<1>1. TypeOK /\ TypeOK'
    BY TypeInductive DEF IInv, Next
<1>2. /\ table \in SUBSET Row /\ clock \in Nat
      /\ \A p \in Requests : req[p] \in Request /\ Fits(req[p], table, clock)
    BY RegistersAssumption DEF IInv, TypeOK
<1>3. new \in Row /\ IsFree(new) /\ table' = table \cup {new} /\ clock' = clock
    BY <1>2, RequestShapes DEF Insert
<1>4. /\ new.at < clock /\ Follows(new, table)
      /\ ~new.deleted => OlderThan(table, new.key, new.version - 1, new.at)
    BY <1>2 DEF Insert, Fits
<1>5. \A a \in table : a.key = new.key => a.version < new.version
    BY <1>1, <1>3, FreeIsAbove DEF IInv
<1>6. /\ new.version \in Nat \ {0} /\ new.at \in Nat
      /\ \A a \in table : a.version \in Nat \ {0} /\ a.at \in Nat
    BY <1>2, <1>3 DEF Row
<1> HIDE DEF new
<1>7. OneChain'
    <2>1. ASSUME NEW a \in table', NEW b \in table', a.key = b.key, a.version = b.version
          PROVE  a = b
        BY <1>3, <1>5, <1>6, <2>1 DEF IInv, OneChain
    <2>2. ASSUME NEW a \in table', NEW n \in 1..a.version
          PROVE  \E b \in table' : b.key = a.key /\ b.version = n
        <3>1. CASE a \in table
            BY <1>3, <3>1, <2>2 DEF IInv, OneChain
        <3>2. CASE a = new /\ n = new.version
            BY <1>3, <3>2
        <3>3. CASE a = new /\ n # new.version
            <4>1. PICK b \in table : b.key = new.key /\ b.version + 1 = new.version
                BY <1>4, <1>6, <2>2, <3>3, FollowsAbove
            <4>2. n \in 1..b.version
                BY <1>6, <2>2, <3>3, <4>1
            <4> QED
                BY <1>3, <3>3, <4>1, <4>2 DEF IInv, OneChain
        <3> QED
            BY <1>3, <3>1, <3>2, <3>3
    <2> QED
        BY <2>1, <2>2 DEF OneChain
<1>8. DeletedIsLast'
    <2> SUFFICES ASSUME NEW a \in table', NEW b \in table', a.key = b.key, a.deleted
                 PROVE  b.version <= a.version
        BY DEF DeletedIsLast
    <2>1. CASE a \in table /\ b \in table
        BY <2>1 DEF IInv, DeletedIsLast
    <2>2. CASE a \in table /\ b = new
        <3>1. PICK c \in table : c.key = new.key /\ c.version + 1 = new.version /\ ~c.deleted
            BY <1>4, <1>5, <1>6, <2>2, FollowsAbove
        <3>2. c.version <= a.version
            BY <2>2, <3>1 DEF IInv, DeletedIsLast
        <3>3. c.version # a.version
            BY <2>2, <3>1 DEF IInv, OneChain
        <3> QED
            BY <1>6, <2>2, <3>1, <3>2, <3>3
    <2>3. CASE a = new
        BY <1>3, <1>5, <1>6, <2>3
    <2> QED
        BY <1>3, <2>1, <2>2, <2>3
<1>9. TimesGrow'
    <2> SUFFICES ASSUME NEW a \in table', NEW b \in table', a.key = b.key, ~b.deleted,
                        a.version < b.version
                 PROVE  a.at < b.at
        BY DEF TimesGrow
    <2>1. CASE a \in table /\ b \in table
        BY <2>1 DEF IInv, TimesGrow
    <2>2. CASE a \in table /\ b = new
        <3>1. a.version <= new.version - 1
            BY <1>6, <2>2
        <3> QED
            BY <1>4, <2>2, <3>1 DEF OlderThan
    <2>3. CASE a = new
        BY <1>3, <1>5, <1>6, <2>3
    <2> QED
        BY <1>3, <2>1, <2>2, <2>3
<1>10. Past'
    BY <1>3, <1>4 DEF IInv, Past
<1>11. ASSUME NEW p \in Requests PROVE Fits(req'[p], table', clock')
    <2>1. CASE p = q
        BY <1>1, <2>1, IdleFits, MovesTyped DEF Insert
    <2>2. CASE p # q
        <3>1. req'[p] = req[p]
            BY <1>1, <2>2, IdleFits, MovesTyped DEF Insert
        <3> QED
            BY <1>2, <1>3, <1>5, <3>1, FitsMore
    <2> QED
        BY <2>1, <2>2
<1>12. Headed'
    <2> SUFFICES ASSUME NEW k \in Keys, Versions(k)' # {}
                 PROVE  \E head \in table' : IsHead(head, k)'
        BY DEF Headed
    <2>1. CASE k = new.key
        <3>1. Versions(k)' = Versions(k) \cup {new}
            BY <1>3, <2>1 DEF Versions
        <3>2. \A r \in Versions(k) : r.version <= new.version
            BY <1>5, <1>6, <2>1 DEF Versions
        <3> QED
            BY <1>3, <1>6, <3>1, <3>2 DEF IsHead
    <2>2. CASE k # new.key
        <3>1. Versions(k)' = Versions(k)
            BY <1>3, <2>2 DEF Versions
        <3>2. PICK head \in table : IsHead(head, k)
            BY <3>1 DEF IInv, Headed
        <3>3. IsHead(head, k)' /\ head \in table'
            BY <1>3, <3>1, <3>2 DEF IsHead
        <3> QED
            BY <3>3
    <2> QED
        BY <2>1, <2>2
<1> QED
    BY <1>1, <1>7, <1>8, <1>9, <1>10, <1>11, <1>12 DEF IInv

LEMMA Inductive == IInv /\ [Next]_vars => IInv'
<1> SUFFICES ASSUME IInv, [Next]_vars PROVE IInv'
    OBVIOUS
<1>1. ASSUME NEW q \in Requests, Fail(q) PROVE IInv'
    <2>1. TypeOK'
        BY <1>1, TypeInductive DEF IInv, Next
    <2> QED
        BY <1>1, <2>1, IdleFits, MoveKeeps DEF Fail
<1>2. CASE UNCHANGED vars
    <2>1. \A k \in Keys : Versions(k)' = Versions(k)
        BY <1>2 DEF vars, Versions
    <2>2. Headed'
        BY <1>2, <2>1 DEF vars, IInv, Headed, IsHead
    <2> QED
        BY <1>2, <2>2 DEF vars, IInv, TypeOK, OneChain, DeletedIsLast, TimesGrow, Past
<1> QED
    BY <1>1, <1>2, StartsKeeps, ReadsKeep, InsertKeeps DEF Next

LEMMA Invariant == Spec => []IInv
<1>1. Init => IInv
    BY IdleFits, RegistersAssumption
    DEF Init, IInv, TypeOK, OneChain, DeletedIsLast, TimesGrow, Past, Headed, Versions
<1> QED
    BY <1>1, Inductive, PTL DEF Spec

-----------------------------------------------------------------------------
(* The theorems.                                                           *)

\* Whatever requests overlap and fail, the versions of an entry are 1, 2, ...
\* without gap or fork: the chain the amend and delete handlers build by reading
\* the head and adding one.
THEOREM ChainUnbroken == Spec => []OneChain
    BY Invariant, PTL DEF IInv

\* No version ever follows a deletion, although a deletion does not say which
\* version it deletes.
THEOREM NoVersionAfterDeletion == Spec => []DeletedIsLast
    BY Invariant, PTL DEF IInv

\* The as-on extract of an entry nobody deleted shows its last version, although
\* it orders the rows by the time their transactions began and not by number.
THEOREM LatestShown == Spec => []AmendsShown
<1>1. IInv => AmendsShown
    <2> SUFFICES ASSUME IInv, NEW k \in Keys, \A r \in Versions(k) : ~r.deleted,
                        NEW head \in Versions(k), IsHead(head, k)
                 PROVE  head \in ShownAsOn(clock)
        BY DEF AmendsShown
    <2>1. /\ head \in table /\ head.key = k /\ ~head.deleted
          /\ clock \in Nat /\ \A r \in table : r.at \in Nat /\ r.version \in Nat /\ r.at < clock
        BY RegistersAssumption DEF IInv, TypeOK, Row, Versions, Past
    <2>2. head \in Upto(k, clock)
        BY <2>1 DEF Upto
    <2>3. ASSUME NEW r \in Upto(k, clock) PROVE r.at <= head.at
        <3>1. r \in table /\ r.key = k /\ r.version <= head.version
            BY <2>3 DEF Upto, Versions, IsHead
        <3>2. CASE r.version = head.version
            BY <2>1, <3>1, <3>2 DEF IInv, OneChain
        <3>3. CASE r.version < head.version
            BY <2>1, <3>1, <3>3 DEF IInv, TimesGrow
        <3> QED
            BY <2>1, <3>1, <3>2, <3>3
    <2> QED
        BY <2>1, <2>2, <2>3 DEF ShownAsOn
<1> QED
    BY <1>1, Invariant, PTL

-----------------------------------------------------------------------------
(* Registers implements Register.                                          *)

\* Rows numbered 1 to n.
Numbered(rows, n) ==
    /\ {row.version : row \in rows} = 1..n
    /\ \A a, b \in rows : a.version = b.version => a = b

\* The chain of numbered rows has the row of version v at its place v.
LEMMA ChainTyped ==
    ASSUME NEW rows \in SUBSET Row, NEW n \in Nat, Numbered(rows, n)
    PROVE  /\ History(rows) \in Seq(Promised!Entry)
           /\ Len(History(rows)) = n
           /\ \A row \in rows : History(rows)[row.version] = EntryOf(row)
<1> DEFINE pick(m) == CHOOSE row \in rows : row.version = m
<1>1. \A m \in 1..n : pick(m) \in rows /\ pick(m).version = m
    BY DEF Numbered
<1>2. \A row \in rows : row.version \in 1..n /\ pick(row.version) = row
    BY <1>1 DEF Numbered
<1> HIDE DEF pick
<1>3. History(rows) = [m \in 1..n |-> EntryOf(pick(m))]
    BY DEF History, Numbered, pick
<1>4. \A m \in 1..n : EntryOf(pick(m)) \in Promised!Entry
    BY <1>1 DEF EntryOf, Promised!Entry, Row
<1> QED
    BY <1>2, <1>3, <1>4

\* A row above them all is appended.
LEMMA ChainGrows ==
    ASSUME NEW rows \in SUBSET Row, NEW n \in Nat, Numbered(rows, n),
           NEW new \in Row, new.version = n + 1
    PROVE  History(rows \cup {new}) = Append(History(rows), EntryOf(new))
<1> DEFINE more == rows \cup {new}
<1>1. Numbered(more, n + 1)
    <2>1. \A row \in rows : row.version \in 1..n
        BY DEF Numbered
    <2>2. {row.version : row \in more} = 1..(n + 1)
        BY DEF Numbered
    <2>3. \A a, b \in more : a.version = b.version => a = b
        BY <2>1 DEF Numbered
    <2> QED
        BY <2>2, <2>3 DEF Numbered
<1>2. /\ History(rows) \in Seq(Promised!Entry) /\ Len(History(rows)) = n
      /\ \A row \in rows : History(rows)[row.version] = EntryOf(row)
    BY ChainTyped
<1>3. /\ History(more) \in Seq(Promised!Entry) /\ Len(History(more)) = n + 1
      /\ \A row \in more : History(more)[row.version] = EntryOf(row)
    <2>1. more \in SUBSET Row /\ n + 1 \in Nat
        OBVIOUS
    <2> HIDE DEF more
    <2> QED
        BY <1>1, <2>1, ChainTyped
<1>4. \A m \in 1..n : History(more)[m] = History(rows)[m]
    <2> TAKE m \in 1..n
    <2>1. PICK row \in rows : row.version = m
        BY DEF Numbered
    <2> QED
        BY <1>2, <1>3, <2>1
<1>5. History(more)[n + 1] = EntryOf(new)
    BY <1>3
<1> HIDE DEF more
<1>6. /\ Append(History(rows), EntryOf(new)) \in Seq(Promised!Entry)
      /\ Len(Append(History(rows), EntryOf(new))) = n + 1
      /\ Append(History(rows), EntryOf(new))[n + 1] = EntryOf(new)
      /\ \A m \in 1..n : Append(History(rows), EntryOf(new))[m] = History(rows)[m]
    <2>1. EntryOf(new) \in Promised!Entry
        BY DEF EntryOf, Promised!Entry, Row
    <2> QED
        BY <1>2, <2>1
<1>7. History(more) = Append(History(rows), EntryOf(new))
    <2>1. \A m \in 1..(n + 1) : History(more)[m] = Append(History(rows), EntryOf(new))[m]
        BY <1>4, <1>5, <1>6
    <2> QED
        BY <1>3, <1>6, <2>1
<1> QED
    BY <1>7 DEF more

\* The rows of an entry are numbered 1 to the version of its head.
LEMMA EntryNumbered ==
    ASSUME IInv, NEW k \in Keys
    PROVE  \E n \in Nat : Numbered(Versions(k), n)
<1>1. \A a \in table : a \in Row /\ a.version \in Nat \ {0}
    BY DEF IInv, TypeOK, Row
<1>2. \A a, b \in Versions(k) : a.version = b.version => a = b
    BY DEF IInv, OneChain, Versions
<1>3. CASE Versions(k) = {}
    BY <1>3 DEF Numbered
<1>4. CASE Versions(k) # {}
    <2>1. PICK head \in table : IsHead(head, k)
        BY <1>4 DEF IInv, Headed
    <2>2. head.key = k /\ \A a \in Versions(k) : a.version \in 1..head.version
        BY <1>1, <2>1 DEF IsHead, Versions
    <2>3. \A n \in 1..head.version : \E b \in Versions(k) : b.version = n
        BY <2>2 DEF IInv, OneChain, Versions
    <2>4. {row.version : row \in Versions(k)} = 1..head.version
        BY <2>2, <2>3
    <2> QED
        BY <1>1, <1>2, <2>1, <2>4 DEF Numbered
<1> QED
    BY <1>3, <1>4

\* An insertion is a step of the abstract register.
LEMMA InsertRefines ==
    ASSUME IInv, NEW q \in Requests, Insert(q)
    PROVE  Promised!Next
<1> DEFINE chain == [j \in Keys |-> History(Versions(j))]
<1> SUFFICES ASSUME NEW new, new = req[q].row, NEW k, k = new.key
             PROVE  Promised!Next
    OBVIOUS
<1> DEFINE h == History(Versions(k))
<1>1. TypeOK /\ table \in SUBSET Row /\ req[q] \in Request /\ Fits(req[q], table, clock)
    BY DEF IInv, TypeOK
<1>2. new \in Row /\ IsFree(new) /\ table' = table \cup {new} /\ Follows(new, table)
    BY <1>1, RequestShapes DEF Insert, Fits
<1>3. /\ k \in Keys /\ new.version \in Nat \ {0} /\ new.payload \in Payloads
      /\ new.deleted \in BOOLEAN
    BY <1>2 DEF Row
<1>4. \A a \in table : a.key = k => a.version < new.version
    BY <1>1, <1>2, FreeIsAbove DEF IInv
<1>5. PICK n \in Nat : Numbered(Versions(k), n)
    BY <1>3, EntryNumbered
<1>6. Versions(k) \in SUBSET Row
    BY <1>1 DEF Versions
<1>7. /\ h \in Seq(Promised!Entry) /\ Len(h) = n
      /\ \A row \in Versions(k) : h[row.version] = EntryOf(row)
    BY <1>5, <1>6, ChainTyped
<1> HIDE DEF h
<1>8. ASSUME new.version = n + 1
      PROVE  chain' = [chain EXCEPT ![k] = Append(h, EntryOf(new))]
    <2>1. Versions(k)' = Versions(k) \cup {new}
        BY <1>2 DEF Versions
    <2>2. \A j \in Keys : j # k => Versions(j)' = Versions(j)
        BY <1>2 DEF Versions
    <2>3. History(Versions(k))' = Append(h, EntryOf(new))
        <3>1. History(Versions(k) \cup {new}) = Append(h, EntryOf(new))
            BY <1>2, <1>5, <1>6, <1>8, ChainGrows DEF h
        <3> QED
            BY <2>1, <3>1
    <2> QED
        BY <1>3, <2>2, <2>3
<1>9. ASSUME new.version = n + 1, NEW p, NEW d, EntryOf(new) = [payload |-> p, deleted |-> d]
      PROVE  Promised!Appends(k, p, d)
    BY <1>3, <1>8, <1>9 DEF Promised!Appends, h
<1>10. chain[k] = h
    BY <1>3 DEF h
<1>11. CASE new.version = 1
    <2>1. ~new.deleted
        <3>1. \A b \in table : b.version \in Nat \ {0}
            BY <1>1 DEF Row
        <3>2. ~\E b \in table : b.key = new.key /\ b.version + 1 = new.version
            BY <1>11, <3>1
        <3> QED
            BY <1>2, <3>2, Zenon DEF Follows
    <2>2. \A a \in table : a.version \in Nat \ {0}
        BY <1>1 DEF Row
    <2>3. Versions(k) = {}
        BY <1>4, <1>11, <2>2 DEF Versions
    <2>4. n = 0
        BY <1>5, <2>3 DEF Numbered
    <2>5. h = <<>>
        BY <1>7, <2>4
    <2>6. EntryOf(new) = [payload |-> new.payload, deleted |-> FALSE]
        BY <1>3, <2>1 DEF EntryOf
    <2>7. Promised!Create(k)
        <3>1. new.version = n + 1
            BY <1>11, <2>4
        <3>2. Promised!Appends(k, new.payload, FALSE)
            BY <1>9, <2>6, <3>1
        <3> QED
            BY <1>3, <1>10, <2>5, <3>2, Zenon DEF Promised!Create
    <2> QED
        BY <1>3, <2>7 DEF Promised!Next
<1>12. CASE new.version # 1
    <2>1. PICK b \in table : /\ b.key = k /\ b.version + 1 = new.version /\ ~b.deleted
                             /\ new.deleted => new.payload = b.payload
        BY <1>2, <1>12, Zenon DEF Follows
    <2>2. b \in Versions(k) /\ b.version \in Nat \ {0}
        BY <1>1, <2>1 DEF Versions, Row
    <2>3. \A a \in Versions(k) : a.version <= b.version
        <3>1. \A a \in table : a.version \in Nat \ {0}
            BY <1>1 DEF Row
        <3> QED
            BY <1>3, <1>4, <2>1, <2>2, <3>1 DEF Versions
    <2>4. n = b.version
        <3>1. b.version \in 1..n
            BY <1>5, <2>2 DEF Numbered
        <3>2. \E a \in Versions(k) : a.version = n
            BY <1>5, <3>1 DEF Numbered
        <3> QED
            BY <2>2, <2>3, <3>1, <3>2
    <2>5. new.version = n + 1
        BY <2>1, <2>4
    <2>6. h[n] = EntryOf(b) /\ h # <<>>
        BY <1>7, <2>2, <2>4
    <2>7. h[Len(h)].payload = b.payload /\ ~h[Len(h)].deleted
        <3>1. EntryOf(b).payload = b.payload /\ EntryOf(b).deleted = b.deleted
            BY DEF EntryOf
        <3> QED
            BY <1>7, <2>1, <2>6, <3>1, Zenon
    <2>8. Promised!Live(k)
        BY <1>10, <2>6, <2>7, Zenon DEF Promised!Live
    <2>9. CASE new.deleted
        <3>1. EntryOf(new) = [payload |-> h[Len(h)].payload, deleted |-> TRUE]
            BY <1>3, <2>1, <2>7, <2>9 DEF EntryOf
        <3>2. Promised!Appends(k, h[Len(h)].payload, TRUE)
            BY <1>9, <2>5, <3>1
        <3>3. Promised!Delete(k)
            BY <1>10, <2>8, <3>2, Zenon DEF Promised!Delete
        <3> QED
            BY <1>3, <3>3 DEF Promised!Next
    <2>10. CASE ~new.deleted
        <3>1. EntryOf(new) = [payload |-> new.payload, deleted |-> FALSE]
            BY <1>3, <2>10 DEF EntryOf
        <3>2. Promised!Appends(k, new.payload, FALSE)
            BY <1>9, <2>5, <3>1
        <3>3. Promised!Amend(k, n)
            BY <1>3, <1>7, <1>10, <2>8, <3>2, Zenon DEF Promised!Amend
        <3>4. n \in 1..Len(chain[k])
            BY <1>7, <1>10, <2>2, <2>4
        <3> QED
            BY <1>3, <3>3, <3>4 DEF Promised!Next
    <2> QED
        BY <2>9, <2>10
<1> QED
    BY <1>11, <1>12

\* Registers implements Register: a request that overlaps any others either
\* appends to the chain exactly what its author saw it append to, or nothing.
THEOREM Implements == Spec => Linear
<1>1. Init => Promised!Init
    BY DEF Init, Promised!Init, Versions, History
<1>2. IInv /\ [Next]_vars => [Promised!Next]_([k \in Keys |-> History(Versions(k))])
    <2> SUFFICES ASSUME IInv, [Next]_vars
                 PROVE  [Promised!Next]_([k \in Keys |-> History(Versions(k))])
        OBVIOUS
    <2>1. ASSUME table' = table
          PROVE  UNCHANGED [k \in Keys |-> History(Versions(k))]
        BY <2>1 DEF Versions
    <2>2. ASSUME NEW q \in Requests, Starts(q)
          PROVE  table' = table
        BY <2>2 DEF Starts, BeginDelete, BeginAmend, CreateEntry, Begin
    <2>3. ASSUME NEW q \in Requests, AmendEntry(q) \/ SoftDeleteEntry(q) \/ Fail(q)
          PROVE  table' = table
        BY <2>3 DEF AmendEntry, SoftDeleteEntry, Fail
    <2>4. CASE UNCHANGED vars
        BY <2>1, <2>4 DEF vars
    <2> QED
        BY <2>1, <2>2, <2>3, <2>4, InsertRefines DEF Next
<1> QED
    BY <1>1, <1>2, Invariant, PTL DEF Spec, Linear, Promised!Spec

=============================================================================
