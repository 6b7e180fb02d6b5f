-------------------------- MODULE Reminders_proofs --------------------------
(***************************************************************************)
(* Theorems about Reminders, for every set of subjects, every choice of    *)
(* the users, any number of crashes and of manual retries, and their       *)
(* proofs.                                                                 *)
(*                                                                         *)
(* That a mail leaves once is decided by what the delivery in progress     *)
(* holds in its hands: the invariant says, for each dispatch, where a mail *)
(* that left is remembered until its row says sent.                        *)
(* The attempt budget has an invariant of its own, at the end: what a row  *)
(* tells of the retries that crossed its deliveries.                       *)
(***************************************************************************)
EXTENDS Reminders, FiniteSetTheorems, TLAPS

Typed == TypeOK /\ \A s \in Subjects : subject[s] \in Profiles[s]

\* The ids in use are ids of rows.
RowsExist ==
    /\ sweep.todo \subseteq DOMAIN dispatch
    /\ \A i \in Ids : job[i].state # "none" \/ work[i].step # "start" => i \in DOMAIN dispatch
    /\ \A q \in Requests : retry[q].step # "new" => retry[q].id \in DOMAIN dispatch

\* A delivery in progress loaded an open dispatch, and an ok means a mail left.
Open(w) == w.step # "start" => w.loaded.status \notin {"sent", "dead"}
Opened ==
    \A i \in Ids : /\ Open(work[i])
                   /\ work[i].step = "record" /\ work[i].outcome = "ok" => mails[i] >= 1

\* Where the one mail of a clean dispatch is remembered.
Remembered ==
    \A i \in Ids : clean[i] =>
        \/ mails[i] = 0
        \/ mails[i] = 1 /\ work[i].step = "record" /\ work[i].outcome = "ok"
        \/ mails[i] = 1 /\ work[i].step = "start" /\ Has(i, "sent")

IInv ==
    /\ Typed /\ RowsExist /\ Opened /\ Remembered
    /\ OneDispatchPerSendDay /\ SentWasMailed

LEMMA IdsAreRows == TypeOK => DOMAIN dispatch \subseteq Ids /\ DOMAIN dispatch = 1..Len(dispatch)
BY RemindersAssumption DEF TypeOK, Ids

LEMMA WorkShapes ==
    ASSUME NEW w \in Work
    PROVE  /\ w.step \in {"start", "send", "record"}
           /\ w.step = "start" => w = Idle
           /\ w.step # "start" => w.loaded \in Dispatch
           /\ w.step = "record" => w.outcome \in Outcomes
<1>1. CASE w = Idle
    BY <1>1 DEF Idle
<1>2. CASE w \in [step: {"send"}, loaded: Dispatch]
    BY <1>2
<1>3. CASE w \in [step: {"record"}, loaded: Dispatch, outcome: Outcomes]
    BY <1>3
<1> QED
    BY <1>1, <1>2, <1>3 DEF Work

LEMMA IdleWork == Idle \in Work /\ Idle.step = "start"
BY DEF Idle, Work

LEMMA Starting == Init => IInv
<1> SUFFICES ASSUME Init PROVE IInv
    OBVIOUS
<1>1. subject \in [Subjects -> Profile] /\ \A s \in Subjects : subject[s] \in Profiles[s]
    BY RemindersAssumption DEF Init
<1>2. TypeOK
    BY <1>1, IdleWork, RemindersAssumption
    DEF Init, TypeOK, SweepSteps, Job, NoJob, Dispatch, Request
<1>3. RowsExist /\ Opened /\ Remembered
    BY IdleWork DEF Init, RowsExist, Opened, Open, Remembered, NoJob, NoRequest
<1>4. OneDispatchPerSendDay /\ SentWasMailed
    BY DEF Init, OneDispatchPerSendDay, SentWasMailed
<1> QED
    BY <1>1, <1>2, <1>3, <1>4 DEF IInv, Typed

-----------------------------------------------------------------------------
(* Steps that touch no dispatch row, no delivery and no mail.              *)

LEMMA OthersKeepIInv ==
    ASSUME IInv, today' \in Days,
           subject' \in [Subjects -> Profile], \A s \in Subjects : subject'[s] \in Profiles[s],
           sweep' \in [step: SweepSteps, todo: SUBSET Ids], sweep'.todo \subseteq DOMAIN dispatch,
           job' \in [Ids -> Job],
           \A i \in Ids : job'[i].state # "none" => i \in DOMAIN dispatch,
           UNCHANGED <<dispatch, work, retry, faults, history>>
    PROVE  IInv'
<1>1. /\ dispatch' = dispatch /\ work' = work /\ retry' = retry /\ faults' = faults
      /\ mails' = mails /\ clean' = clean
    BY DEF history
<1>2. Typed'
    BY <1>1 DEF IInv, Typed, TypeOK
<1>3. RowsExist'
    BY <1>1 DEF IInv, RowsExist
<1>4. Opened' /\ Remembered'
    BY <1>1 DEF IInv, Opened, Open, Remembered, Has
<1>5. OneDispatchPerSendDay' /\ SentWasMailed'
    BY <1>1 DEF IInv, OneDispatchPerSendDay, SentWasMailed
<1> QED
    BY <1>2, <1>3, <1>4, <1>5 DEF IInv

LEMMA QueueKeepsIInv ==
    ASSUME IInv,
           \/ \E s \in Subjects : Edit(s)
           \/ NextDay \/ SelectQueued \/ SweepDone
           \/ \E i \in Ids : Enqueue(i) \/ TakeJob(i) \/ Forget(i)
           \/ UNCHANGED vars
    PROVE  IInv'
<1> USE DEF IInv, Typed, TypeOK
<1>1. ASSUME NEW s \in Subjects, Edit(s) PROVE IInv'
    <2>1. PICK p \in Profiles[s] : subject' = [subject EXCEPT ![s] = p]
        BY <1>1 DEF Edit
    <2>2. /\ subject' \in [Subjects -> Profile]
          /\ \A o \in Subjects : subject'[o] \in Profiles[o]
        BY <2>1, RemindersAssumption
    <2> QED
        BY <1>1, <2>2, OthersKeepIInv DEF Edit, RowsExist
<1>2. CASE NextDay
    BY <1>2, OthersKeepIInv DEF NextDay, db, RowsExist
<1>3. CASE SelectQueued
    <2>1. sweep'.todo \subseteq DOMAIN dispatch
        BY <1>3 DEF SelectQueued
    <2>2. sweep' \in [step: SweepSteps, todo: SUBSET Ids]
        BY <1>3, IdsAreRows DEF SelectQueued, SweepSteps
    <2> QED
        BY <1>3, <2>1, <2>2, OthersKeepIInv DEF SelectQueued, db, RowsExist
<1>4. CASE SweepDone
    BY <1>4, OthersKeepIInv DEF SweepDone, db, RowsExist, SweepSteps
<1>5. ASSUME NEW i \in Ids, Enqueue(i) PROVE IInv'
    <2>1. job' \in [Ids -> Job] /\ \A j \in Ids : job'[j].state # "none" => j \in DOMAIN dispatch
        BY <1>5, RemindersAssumption DEF Enqueue, Job, RowsExist
    <2> QED
        BY <1>5, <2>1, OthersKeepIInv DEF Enqueue, db, RowsExist
<1>6. ASSUME NEW i \in Ids, TakeJob(i) PROVE IInv'
    <2>1. job' \in [Ids -> Job]
        BY <1>6, RemindersAssumption DEF TakeJob, Job
    <2>2. \A j \in Ids : job'[j].state # "none" => j \in DOMAIN dispatch
        BY <1>6 DEF TakeJob, Job, RowsExist
    <2> QED
        BY <1>6, <2>1, <2>2, OthersKeepIInv DEF TakeJob, db, RowsExist
<1>7. ASSUME NEW i \in Ids, Forget(i) PROVE IInv'
    <2>1. job' \in [Ids -> Job] /\ \A j \in Ids : job'[j].state # "none" => j \in DOMAIN dispatch
        BY <1>7, RemindersAssumption DEF Forget, Job, NoJob, RowsExist
    <2> QED
        BY <1>7, <2>1, OthersKeepIInv DEF Forget, db, RowsExist
<1>8. CASE UNCHANGED vars
    BY <1>8, OthersKeepIInv DEF vars, db, RowsExist
<1> QED
    BY <1>1, <1>2, <1>3, <1>4, <1>5, <1>6, <1>7, <1>8

-----------------------------------------------------------------------------
(* The sweep: new rows for send-days that have none.                       *)

LEMMA ImageFinite ==
    ASSUME NEW S, IsFiniteSet(S), NEW f, DOMAIN f = S, f = [x \in S |-> f[x]]
    PROVE  IsFiniteSet({f[x] : x \in S})
<1>1. f \in Surjection(S, {f[x] : x \in S})
    BY DEF Surjection
<1> QED
    BY <1>1, FS_Surjection

NewRow(s, d) == [subject |-> s, day |-> d, status |-> "queued", attempts |-> 0]

LEMMA DueFinite ==
    ASSUME Typed, NEW S, S \subseteq Subjects
    PROVE  /\ IsFiniteSet(Due(S))
           /\ \A r \in Due(S) : /\ r \in Dispatch /\ r.status = "queued" /\ r.attempts = 0
                                /\ r.day \notin Existing(r.subject)
           /\ \A r, t \in Due(S) : r.subject = t.subject /\ r.day = t.day => r = t
<1> DEFINE new(s) == {x \in SendDays(subject[s]) \ Existing(s) : x <= today}
           rowsOf(s) == {NewRow(s, d) : d \in new(s)}
<1>1. Due(S) = UNION {rowsOf(s) : s \in S}
    BY DEF Due, NewRow
<1>2. ASSUME NEW s \in S
      PROVE  IsFiniteSet(rowsOf(s)) /\ \A d \in new(s) : d \in Int
    <2> DEFINE p == subject[s]
    <2>1. p \in Profile /\ IsFiniteSet(p.days)
        BY RemindersAssumption DEF Typed
    <2>2. CASE ~p.open \/ p.due = None \/ p.due < today
        BY <2>2, FS_EmptySet DEF SendDays
    <2>3. CASE ~(~p.open \/ p.due = None \/ p.due < today)
        <3>1. SendDays(p) = {p.due - n : n \in p.days}
            BY <2>3 DEF SendDays
        <3>2. p.due \in Int /\ p.days \subseteq Nat
            BY <2>1, <2>3 DEF Profile
        <3>3. IsFiniteSet(SendDays(p))
            <4> DEFINE f == [n \in p.days |-> p.due - n]
            <4>1. IsFiniteSet({f[n] : n \in p.days})
                BY <2>1, ImageFinite
            <4>2. {f[n] : n \in p.days} = {p.due - n : n \in p.days}
                OBVIOUS
            <4> QED
                BY <3>1, <4>1, <4>2
        <3>4. IsFiniteSet(new(s))
            BY <3>3, FS_Subset
        <3>5. IsFiniteSet(rowsOf(s))
            <4> DEFINE f == [d \in new(s) |-> NewRow(s, d)]
            <4> HIDE DEF new
            <4>1. IsFiniteSet({f[d] : d \in new(s)})
                BY <3>4, ImageFinite
            <4> QED
                BY <4>1
        <3> QED
            BY <3>1, <3>2, <3>5
    <2> QED
        BY <2>2, <2>3
<1>3. IsFiniteSet({rowsOf(s) : s \in S})
    <2>1. IsFiniteSet(S)
        BY RemindersAssumption, FS_Subset
    <2> QED
        <3> DEFINE f == [s \in S |-> rowsOf(s)]
        <3> HIDE DEF rowsOf
        <3>1. IsFiniteSet({f[s] : s \in S})
            BY <2>1, ImageFinite
        <3> QED
            BY <3>1
<1>4. IsFiniteSet(Due(S))
    <2> HIDE DEF rowsOf
    <2>1. \A T \in {rowsOf(s) : s \in S} : IsFiniteSet(T)
        BY <1>2
    <2>2. IsFiniteSet(UNION {rowsOf(s) : s \in S})
        BY <1>3, <2>1, FS_UNION
    <2> QED
        BY <1>1, <2>2
<1>5. ASSUME NEW r \in Due(S)
      PROVE  \E s \in S, d \in Int : r = NewRow(s, d) /\ d \notin Existing(s)
    BY <1>1, <1>2
<1>6. ASSUME NEW s \in S, NEW d \in Int
      PROVE  /\ NewRow(s, d) \in Dispatch
             /\ NewRow(s, d).status = "queued" /\ NewRow(s, d).attempts = 0
             /\ NewRow(s, d).subject = s
             /\ NewRow(s, d).day = d
    BY DEF NewRow, Dispatch, Statuses
<1> QED
    BY <1>4, <1>5, <1>6

(* What a commit of the sweep appends: the due dispatches, each once.      *)
LEMMA Appended ==
    ASSUME IInv, NEW S, S \subseteq Subjects, Schedule(S)
    PROVE  \E N \in Nat, new \in Seq(Dispatch) :
               LET L == Len(dispatch)
               IN  /\ L \in Nat /\ L + N <= MaxDispatches
                   /\ new \in [1..N -> Due(S)] /\ \A i, j \in 1..N : new[i] = new[j] => i = j
                   /\ dispatch' \in Seq(Dispatch) /\ Len(dispatch') = L + N
                   /\ DOMAIN dispatch' = 1..L + N /\ DOMAIN dispatch = 1..L
                   /\ \A i \in 1..L : dispatch'[i] = dispatch[i]
                   /\ \A i \in 1..L + N : i > L => /\ i - L \in 1..N
                                                    /\ dispatch'[i] = new[i - L]
                                                    /\ dispatch'[i] \in Due(S)
<1> DEFINE D == Due(S)
           N == Cardinality(D)
           L == Len(dispatch)
<1>1. /\ IsFiniteSet(D)
      /\ \A r \in D : /\ r \in Dispatch /\ r.status = "queued" /\ r.attempts = 0
                      /\ r.day \notin Existing(r.subject)
      /\ \A r, t \in D : r.subject = t.subject /\ r.day = t.day => r = t
    BY DueFinite DEF IInv
<1>2. N \in Nat
    BY <1>1, FS_CardinalityType
<1>3. PICK new \in Orders(D) : dispatch' = dispatch \o new
    BY DEF Schedule
<1>4. new \in [1..N -> D] /\ \A i, j \in 1..N : new[i] = new[j] => i = j
    BY <1>3 DEF Orders
<1>5. L + N <= MaxDispatches
    BY DEF Schedule
<1> HIDE DEF D, N
<1>6. dispatch \in Seq(Dispatch) /\ L \in Nat
    BY DEF IInv, Typed, TypeOK
<1>7. new \in Seq(Dispatch) /\ Len(new) = N
    BY <1>1, <1>2, <1>4
<1>8. /\ dispatch' \in Seq(Dispatch) /\ Len(dispatch') = L + N
      /\ DOMAIN dispatch' = 1..L + N /\ DOMAIN dispatch = 1..L
      /\ \A i \in 1..L : dispatch'[i] = dispatch[i]
      /\ \A i \in 1..L + N : i > L => dispatch'[i] = new[i - L]
    <2>1. L = Len(dispatch) /\ N = Len(new)
        BY <1>7
    <2>2. dispatch \in Seq(Dispatch) /\ new \in Seq(Dispatch) /\ dispatch' = dispatch \o new
        BY <1>3, <1>6, <1>7
    <2> HIDE DEF L
    <2> QED
        <3>1. dispatch' \in Seq(Dispatch)
            BY <2>1, <2>2
        <3>2. Len(dispatch') = L + N
            BY <2>1, <2>2
        <3>3. DOMAIN dispatch = 1..L
            BY <2>1, <2>2
        <3>4. DOMAIN dispatch' = 1..L + N
            BY <3>1, <3>2
        <3>5. \A i \in 1..L : dispatch'[i] = dispatch[i]
            BY <2>1, <2>2
        <3>6. \A i \in 1..L + N : i > L => dispatch'[i] = new[i - L]
            BY <2>1, <2>2
        <3> QED
            BY <3>1, <3>2, <3>3, <3>4, <3>5, <3>6
<1> HIDE DEF L
<1>9. ASSUME NEW i \in 1..L + N, i > L
      PROVE  i - L \in 1..N /\ dispatch'[i] = new[i - L] /\ dispatch'[i] \in D
    <2>1. i - L \in 1..N
        BY <1>2, <1>6, <1>9
    <2>2. dispatch'[i] = new[i - L]
        BY <1>8, <1>9
    <2> QED
        BY <1>4, <2>1, <2>2
<1> USE <1>2, <1>7
<1> WITNESS N \in Nat, new \in Seq(Dispatch)
<1> QED
    BY <1>2, <1>4, <1>5, <1>6, <1>7, <1>8, <1>9 DEF D, L

LEMMA ScheduleKeepsIInv ==
    ASSUME IInv, NEW S, S \subseteq Subjects, Schedule(S),
           sweep' \in [step: SweepSteps, todo: SUBSET Ids], sweep'.todo = sweep.todo
    PROVE  IInv'
<1> DEFINE L == Len(dispatch)
           D == Due(S)
<1>1. \A r \in D : r.status = "queued" /\ r.day \notin Existing(r.subject)
    BY DueFinite DEF IInv
<1>2. \A r, t \in D : r.subject = t.subject /\ r.day = t.day => r = t
    BY DueFinite DEF IInv
<1> HIDE DEF D
<1>3. PICK N \in Nat, new \in Seq(Dispatch) :
          /\ L \in Nat /\ L + N <= MaxDispatches
          /\ new \in [1..N -> D] /\ \A i, j \in 1..N : new[i] = new[j] => i = j
          /\ dispatch' \in Seq(Dispatch) /\ Len(dispatch') = L + N
          /\ DOMAIN dispatch' = 1..L + N /\ DOMAIN dispatch = 1..L
          /\ \A i \in 1..L : dispatch'[i] = dispatch[i]
          /\ \A i \in 1..L + N : i > L => /\ i - L \in 1..N
                                           /\ dispatch'[i] = new[i - L]
                                           /\ dispatch'[i] \in D
    BY Appended DEF D
<1>4. /\ today' = today /\ subject' = subject /\ job' = job /\ work' = work
       /\ retry' = retry /\ faults' = faults
       /\ mails' = mails /\ clean' = clean
    BY DEF Schedule, history
<1> HIDE DEF L
<1>5. Typed'
    BY <1>3, <1>4 DEF IInv, Typed, TypeOK
<1>6. DOMAIN dispatch \subseteq DOMAIN dispatch'
    BY <1>3
<1>7. RowsExist'
    BY <1>4, <1>6 DEF IInv, RowsExist
<1>8. Opened'
    BY <1>4 DEF IInv, Opened, Open
<1>9. Remembered'
    BY <1>3, <1>4, <1>6 DEF IInv, Remembered, Has
<1>10. OneDispatchPerSendDay'
    <2> SUFFICES ASSUME NEW i \in 1..L + N, NEW j \in 1..L + N,
                        dispatch'[i].subject = dispatch'[j].subject,
                        dispatch'[i].day = dispatch'[j].day
                 PROVE  i = j
        BY <1>3 DEF OneDispatchPerSendDay
    <2>1. CASE i \in 1..L /\ j \in 1..L
        BY <1>3, <2>1 DEF IInv, OneDispatchPerSendDay
    <2>2. ASSUME NEW m \in 1..L, NEW n \in 1..L + N, n > L,
                 dispatch'[m].subject = dispatch'[n].subject,
                 dispatch'[m].day = dispatch'[n].day
          PROVE  FALSE
        <3>1. dispatch[m].day \in Existing(dispatch[m].subject)
            BY <1>3 DEF Existing
        <3> QED
            BY <1>1, <1>2, <1>3, <2>2, <3>1
    <2>3. CASE i > L /\ j > L
        <3>1. new[i - L] = new[j - L]
            BY <1>1, <1>2, <1>3, <2>3
        <3>2. i - L = j - L
            BY <1>3, <2>3, <3>1
        <3> QED
            BY <1>3, <3>2
    <2>4. CASE i \in 1..L /\ j > L
        BY <2>2, <2>4
    <2>5. CASE j \in 1..L /\ i > L
        BY <2>2, <2>5
    <2>6. \A k \in 1..L + N : k \in 1..L \/ k > L
        BY <1>3
    <2> QED
        BY <2>1, <2>3, <2>4, <2>5, <2>6
<1>11. SentWasMailed'
    <2> SUFFICES ASSUME NEW i \in 1..L + N, dispatch'[i].status = "sent" PROVE mails[i] >= 1
        BY <1>3, <1>4 DEF SentWasMailed
    <2>1. i \in 1..L
        BY <1>1, <1>3
    <2> QED
        BY <1>3, <2>1 DEF IInv, SentWasMailed
<1> QED
    BY <1>5, <1>7, <1>8, <1>9, <1>10, <1>11 DEF IInv

-----------------------------------------------------------------------------
(* The delivery.                                                           *)

AsksForRows(r) ==
    /\ r \in [Requests -> Request]
    /\ \A q \in Requests : r[q].step # "new" => r[q].id \in DOMAIN dispatch

(* A step on dispatch i: its row, its delivery, its mails.                 *)
LEMMA DispatchKeepsIInv ==
    ASSUME IInv, NEW i \in Ids, i \in DOMAIN dispatch,
           NEW w \in Work, work' = [work EXCEPT ![i] = w], Open(w),
           NEW row \in Dispatch, dispatch' = [dispatch EXCEPT ![i] = row],
           row.subject = dispatch[i].subject, row.day = dispatch[i].day,
           NEW m \in 0..2, mails' = [mails EXCEPT ![i] = m],
           NEW k \in BOOLEAN, clean' = [clean EXCEPT ![i] = k],
           w.step = "record" /\ w.outcome = "ok" => m >= 1,
           row.status = "sent" => m >= 1,
           k => \/ m = 0
                \/ m = 1 /\ w.step = "record" /\ w.outcome = "ok"
                \/ m = 1 /\ w.step = "start" /\ row.status = "sent",
           job' \in [Ids -> Job],
           \A j \in Ids : job'[j].state # "none" => j \in DOMAIN dispatch,
           retry' = retry \/ AsksForRows(retry'),
           faults' \in {faults} \cup 0..MaxFaults, UNCHANGED <<today, subject, sweep>>
    PROVE  IInv'
<1>1. /\ dispatch \in Seq(Dispatch) /\ DOMAIN dispatch = 1..Len(dispatch)
      /\ Len(dispatch) <= MaxDispatches /\ work \in [Ids -> Work]
      /\ mails \in [Ids -> 0..2] /\ clean \in [Ids -> BOOLEAN]
    BY DEF IInv, Typed, TypeOK
<1>2. /\ dispatch' \in Seq(Dispatch) /\ Len(dispatch') = Len(dispatch)
      /\ DOMAIN dispatch' = DOMAIN dispatch /\ dispatch'[i] = row
      /\ \A j \in DOMAIN dispatch : j # i => dispatch'[j] = dispatch[j]
    BY <1>1
<1>3. /\ work' \in [Ids -> Work] /\ work'[i] = w
      /\ \A j \in Ids : j # i => work'[j] = work[j]
    BY <1>1
<1>4. /\ mails' \in [Ids -> 0..2] /\ mails'[i] = m
      /\ \A j \in Ids : j # i => mails'[j] = mails[j]
    BY <1>1
<1>5. /\ clean' \in [Ids -> BOOLEAN] /\ clean'[i] = k
      /\ \A j \in Ids : j # i => clean'[j] = clean[j]
    BY <1>1
<1>6. Typed'
    <2>1. /\ retry' \in [Requests -> Request] /\ faults' \in 0..MaxFaults
        BY DEF IInv, Typed, TypeOK, AsksForRows
    <2>2. /\ today' \in Days /\ subject' \in [Subjects -> Profile]
          /\ sweep' \in [step: SweepSteps, todo: SUBSET Ids]
          /\ \A s \in Subjects : subject'[s] \in Profiles[s]
        BY DEF IInv, Typed, TypeOK
    <2> QED
        BY <1>1, <1>2, <1>3, <1>4, <1>5, <2>1, <2>2 DEF Typed, TypeOK
<1>7. RowsExist'
    <2>1. sweep'.todo \subseteq DOMAIN dispatch'
        BY <1>2 DEF IInv, RowsExist
    <2>2. ASSUME NEW j \in Ids, job'[j].state # "none" \/ work'[j].step # "start"
          PROVE  j \in DOMAIN dispatch'
        BY <1>2, <1>3, <2>2 DEF IInv, RowsExist
    <2>3. \A q \in Requests : retry'[q].step # "new" => retry'[q].id \in DOMAIN dispatch'
        BY <1>2 DEF IInv, RowsExist, AsksForRows
    <2> QED
        BY <2>1, <2>2, <2>3 DEF RowsExist
<1>8. Opened'
    <2> SUFFICES ASSUME NEW j \in Ids, NEW v, v = work'[j], NEW n, n = mails'[j]
                 PROVE  Open(v) /\ (v.step = "record" /\ v.outcome = "ok" => n >= 1)
        BY Zenon DEF Opened, Open
    <2>1. CASE j = i
        BY <1>3, <1>4, <2>1
    <2>2. CASE j # i
        BY <1>3, <1>4, <2>2 DEF IInv, Opened
    <2> QED
        BY <2>1, <2>2
<1>9. Remembered'
    <2> SUFFICES ASSUME NEW j \in Ids, clean'[j]
                 PROVE  \/ mails'[j] = 0
                        \/ mails'[j] = 1 /\ work'[j].step = "record" /\ work'[j].outcome = "ok"
                        \/ mails'[j] = 1 /\ work'[j].step = "start" /\ Has(j, "sent")'
        BY DEF Remembered
    <2>1. CASE j = i
        BY <1>2, <1>3, <1>4, <1>5, <2>1 DEF Has
    <2>2. CASE j # i
        BY <1>2, <1>3, <1>4, <1>5, <2>2 DEF IInv, Remembered, Has
    <2> QED
        BY <2>1, <2>2
<1>10. OneDispatchPerSendDay'
    BY <1>2 DEF IInv, OneDispatchPerSendDay
<1>11. SentWasMailed'
    <2> SUFFICES ASSUME NEW j \in DOMAIN dispatch, dispatch'[j].status = "sent"
                 PROVE  mails'[j] >= 1
        BY <1>2 DEF SentWasMailed
    <2>1. j \in Ids
        BY IdsAreRows DEF IInv, Typed
    <2>2. CASE j = i
        BY <1>2, <1>4, <2>2
    <2>3. CASE j # i
        BY <1>2, <1>4, <2>1, <2>3 DEF IInv, SentWasMailed
    <2> QED
        BY <2>2, <2>3
<1> QED
    BY <1>6, <1>7, <1>8, <1>9, <1>10, <1>11 DEF IInv

LEMMA LoadKeepsIInv ==
    ASSUME IInv, NEW i \in Ids, Load(i)
    PROVE  IInv'
<1>1. /\ today' = today /\ subject' = subject /\ dispatch' = dispatch /\ sweep' = sweep
      /\ retry' = retry /\ faults' = faults
      /\ mails' = mails /\ clean' = clean
    BY DEF Load, db, history
<1>2. i \in DOMAIN dispatch /\ dispatch[i] \in Dispatch /\ work[i] = Idle
    BY DEF Load, IInv, Typed, TypeOK, RowsExist
<1>3. CASE dispatch[i].status \in {"sent", "dead"}
    <2>1. /\ job' = [job EXCEPT ![i] = [state |-> "kept", tries |-> 0]]
          /\ work' = [work EXCEPT ![i] = Idle]
        BY <1>3 DEF Load, Finish, Stop
    <2>2. work' = work
        BY <1>2, <2>1 DEF IInv, Typed, TypeOK
    <2>3. job' \in [Ids -> Job] /\ \A j \in Ids : job'[j].state # "none" => j \in DOMAIN dispatch
        BY <1>2, <2>1, RemindersAssumption DEF IInv, Typed, TypeOK, RowsExist, Job
    <2> QED
        BY <1>1, <2>2, <2>3, OthersKeepIInv DEF IInv, Typed, TypeOK, RowsExist, history
<1>4. CASE dispatch[i].status \notin {"sent", "dead"}
    <2>1. /\ job' = job
          /\ \/ work' = [work EXCEPT ![i] = [step |-> "record", loaded |-> dispatch[i],
                                             outcome |-> "dead"]]
             \/ work' = [work EXCEPT ![i] = [step |-> "send", loaded |-> dispatch[i]]]
        BY <1>4 DEF Load
    <2>2. PICK w \in Work : /\ work' = [work EXCEPT ![i] = w] /\ w.loaded = dispatch[i]
                            /\ w.step \in {"send", "record"}
                            /\ w.step = "record" => w.outcome = "dead"
        <3>1. [step |-> "record", loaded |-> dispatch[i], outcome |-> "dead"] \in Work
            BY <1>2 DEF Work, Outcomes
        <3>2. [step |-> "send", loaded |-> dispatch[i]] \in Work
            BY <1>2 DEF Work
        <3> QED
            BY <2>1, <3>1, <3>2
    <2>3. Open(w) /\ w.step # "start"
        BY <1>4, <2>2 DEF Open
    <2>4. /\ mails \in [Ids -> 0..2] /\ clean \in [Ids -> BOOLEAN]
          /\ dispatch \in Seq(Dispatch) /\ job \in [Ids -> Job]
          /\ \A j \in Ids : job[j].state # "none" => j \in DOMAIN dispatch
        BY DEF IInv, Typed, TypeOK, RowsExist
    <2>5. clean[i] => mails[i] = 0
        BY <1>2, <1>4, IdleWork DEF IInv, Remembered, Has
    <2>6. /\ dispatch' = [dispatch EXCEPT ![i] = dispatch[i]]
          /\ mails' = [mails EXCEPT ![i] = mails[i]]
          /\ clean' = [clean EXCEPT ![i] = clean[i]]
        BY <1>1, <2>4
    <2>7. /\ mails[i] \in 0..2 /\ clean[i] \in BOOLEAN
          /\ dispatch[i].status = "sent" => mails[i] >= 1
        BY <1>2, <2>4 DEF IInv, SentWasMailed
    <2>8. ~(w.step = "record" /\ w.outcome = "ok")
        BY <2>2
    <2>9. UNCHANGED <<today, subject, sweep, retry, faults>>
        BY <1>1
    <2> QED
        BY <1>2, <2>1, <2>2, <2>3, <2>4, <2>5, <2>6, <2>7, <2>8, <2>9, DispatchKeepsIInv
<1> QED
    BY <1>3, <1>4
LEMMA SendKeepsIInv ==
    ASSUME IInv, NEW i \in Ids, Send(i)
    PROVE  IInv'
<1>1. SUFFICES ASSUME NEW old, old = work[i] PROVE IInv'
    OBVIOUS
<1>2. /\ dispatch' = dispatch /\ job' = job
      /\ UNCHANGED <<today, subject, sweep, retry, faults>>
    BY DEF Send, db
<1>3. /\ old \in Work /\ old.step = "send" /\ i \in DOMAIN dispatch
      /\ old.loaded \in Dispatch /\ Open(old)
    BY <1>1, WorkShapes DEF Send, IInv, Typed, TypeOK, RowsExist, Opened
<1>4. /\ mails \in [Ids -> 0..2] /\ clean \in [Ids -> BOOLEAN]
      /\ dispatch \in Seq(Dispatch) /\ dispatch[i] \in Dispatch /\ job' \in [Ids -> Job]
      /\ \A j \in Ids : job'[j].state # "none" => j \in DOMAIN dispatch
    BY <1>2, <1>3 DEF IInv, Typed, TypeOK, RowsExist
<1>5. PICK left \in BOOLEAN, outcome \in {"ok", "error"} :
          /\ outcome = "ok" => left
          /\ mails' = [mails EXCEPT ![i] = IF left THEN Counted(@, clean[i]) ELSE @]
          /\ clean' = [clean EXCEPT ![i] = @ /\ ~(left /\ outcome = "error")]
          /\ work' = [work EXCEPT ![i] =
                 [step |-> "record", loaded |-> @.loaded, outcome |-> outcome]]
    BY DEF Send
<1> DEFINE w == [step |-> "record", loaded |-> old.loaded, outcome |-> outcome]
           m == IF left THEN Counted(mails[i], clean[i]) ELSE mails[i]
           k == clean[i] /\ ~(left /\ outcome = "error")
<1>6. /\ w \in Work /\ w.step = "record" /\ w.outcome = outcome /\ Open(w)
      /\ work' = [work EXCEPT ![i] = w]
    <2>1. w \in Work
        BY <1>3 DEF Work, Outcomes
    <2>2. w.step = "record" /\ w.outcome = outcome /\ w.loaded = old.loaded
        OBVIOUS
    <2>3. Open(w)
        BY <1>3, <2>2 DEF Open
    <2>4. work' = [work EXCEPT ![i] = w]
        BY <1>1, <1>5
    <2> HIDE DEF w
    <2> QED
        BY <2>1, <2>2, <2>3, <2>4, Zenon
<1>7. m \in 0..2 /\ mails' = [mails EXCEPT ![i] = m] /\ (left => m >= 1) /\ m >= mails[i]
    <2>1. mails[i] \in 0..2 /\ clean[i] \in BOOLEAN
        BY <1>4
    <2>2. m \in 0..2 /\ (left => m >= 1) /\ m >= mails[i]
        BY <2>1 DEF Counted
    <2>3. mails' = [mails EXCEPT ![i] = m]
        BY <1>4, <1>5, Zenon
    <2> HIDE DEF m
    <2> QED
        BY <2>2, <2>3
<1>8. k \in BOOLEAN /\ clean' = [clean EXCEPT ![i] = k]
    BY <1>4, <1>5, Zenon
<1>9. clean[i] => mails[i] = 0
    BY <1>1, <1>3 DEF IInv, Remembered
<1>10. k => \/ m = 0
            \/ m = 1 /\ w.step = "record" /\ w.outcome = "ok"
    <2>1. CASE left
        <3>1. k => clean[i] /\ outcome = "ok"
            BY <2>1, <1>5
        <3> QED
            BY <1>6, <1>9, <2>1, <3>1 DEF Counted
    <2>2. CASE ~left
        <3>1. k => clean[i]
            OBVIOUS
        <3> QED
            BY <1>9, <2>2, <3>1
    <2> QED
        BY <2>1, <2>2
<1>11. dispatch' = [dispatch EXCEPT ![i] = dispatch[i]]
    BY <1>2, <1>4
<1>12. dispatch[i].status = "sent" => m >= 1
    <2>1. dispatch[i].status = "sent" => mails[i] >= 1
        BY <1>3 DEF IInv, SentWasMailed
    <2> QED
        BY <1>4, <1>7, <2>1
<1>13. w.step = "record" /\ w.outcome = "ok" => m >= 1
    BY <1>5, <1>6, <1>7
<1> HIDE DEF w, m, k
<1> QED
    BY <1>2, <1>3, <1>4, <1>6, <1>7, <1>8, <1>10, <1>11, <1>12, <1>13, DispatchKeepsIInv

LEMMA RecordedTyped ==
    ASSUME NEW row \in Dispatch, NEW outcome \in Outcomes
    PROVE  /\ Recorded(row, outcome) \in Dispatch
           /\ outcome = "ok" => Recorded(row, outcome).status = "sent"
           /\ outcome # "ok" => Recorded(row, outcome).status \in {"failed", "dead"}
<1>0. \A n \in Nat, s \in Statuses :
          LET r == [row EXCEPT !.status = s, !.attempts = n] IN r \in Dispatch /\ r.status = s
    BY DEF Dispatch
<1>1. CASE outcome = "dead"
    BY <1>1 DEF Recorded, Dispatch, Statuses
<1>2. CASE outcome = "ok"
    <2>1. Recorded(row, outcome) = [row EXCEPT !.status = "sent", !.attempts = row.attempts + 1]
        BY <1>2 DEF Recorded, Dispatch
    <2>2. row.attempts + 1 \in Nat /\ "sent" \in Statuses
        BY DEF Dispatch, Statuses
    <2>3. Recorded(row, outcome) \in Dispatch /\ Recorded(row, outcome).status = "sent"
        BY <1>0, <2>1, <2>2
    <2> QED
        BY <1>2, <2>3
<1>3. CASE outcome = "error"
    <2>1. PICK s \in {"failed", "dead"} :
              Recorded(row, outcome) = [row EXCEPT !.status = s, !.attempts = row.attempts + 1]
        BY <1>3 DEF Recorded, Dispatch
    <2>2. row.attempts + 1 \in Nat /\ s \in Statuses
        BY DEF Dispatch, Statuses
    <2> QED
        BY <1>0, <1>3, <2>1, <2>2
<1> QED
    BY <1>1, <1>2, <1>3 DEF Outcomes

LEMMA Merged ==
    ASSUME NEW stored \in Dispatch, NEW loaded \in Dispatch, NEW new \in Dispatch
    PROVE  /\ Merge(stored, loaded, new) \in Dispatch
           /\ Merge(stored, loaded, new).subject = stored.subject
           /\ Merge(stored, loaded, new).day = stored.day
           /\ Merge(stored, loaded, new).status =
                  IF new.status = loaded.status THEN stored.status ELSE new.status
           /\ Merge(stored, loaded, new).attempts =
                  IF new.attempts = loaded.attempts THEN stored.attempts ELSE new.attempts
BY DEF Merge, Dispatch

LEMMA RecordKeepsIInv ==
    ASSUME IInv, NEW i \in Ids, Record(i)
    PROVE  IInv'
<1>1. SUFFICES ASSUME NEW old, old = work[i] PROVE IInv'
    OBVIOUS
<1>2. /\ UNCHANGED <<today, subject, sweep, retry, faults>>
      /\ mails' = mails /\ clean' = clean
    BY DEF Record, history
<1>3. /\ old \in Work /\ old.step = "record" /\ i \in DOMAIN dispatch
      /\ old.loaded \in Dispatch /\ old.outcome \in Outcomes /\ Open(old)
      /\ old.outcome = "ok" => mails[i] >= 1
    BY <1>1, WorkShapes DEF Record, IInv, Typed, TypeOK, RowsExist, Opened
<1>4. /\ mails \in [Ids -> 0..2] /\ clean \in [Ids -> BOOLEAN] /\ job \in [Ids -> Job]
      /\ dispatch \in Seq(Dispatch) /\ dispatch[i] \in Dispatch
    BY <1>3 DEF IInv, Typed, TypeOK
<1> DEFINE new == Recorded(old.loaded, old.outcome)
           row == Merge(dispatch[i], old.loaded, new)
<1>5. /\ dispatch' = [dispatch EXCEPT ![i] = row]
      /\ work' = [work EXCEPT ![i] = Idle]
      /\ \/ job' = [job EXCEPT ![i].state = "queued"]
         \/ job' = [job EXCEPT ![i] = [state |-> "kept", tries |-> 0]]
    BY <1>1 DEF Record, Finish, Stop
<1>6. /\ new \in Dispatch
      /\ old.outcome = "ok" => new.status = "sent"
      /\ old.outcome # "ok" => new.status \in {"failed", "dead"}
    BY <1>3, RecordedTyped
<1> HIDE DEF new
<1>7. /\ row \in Dispatch /\ row.subject = dispatch[i].subject /\ row.day = dispatch[i].day
      /\ row.status = IF new.status = old.loaded.status THEN dispatch[i].status
                      ELSE new.status
    BY <1>3, <1>4, <1>6, Merged
<1> HIDE DEF row
<1>8. old.outcome = "ok" => row.status = "sent"
    BY <1>3, <1>6, <1>7 DEF Open
<1>9. row.status = "sent" => mails[i] >= 1
    <2>1. dispatch[i].status = "sent" => mails[i] >= 1
        BY <1>3 DEF IInv, SentWasMailed
    <2> QED
        BY <1>3, <1>6, <1>7, <2>1
<1>10. clean[i] => mails[i] = 0 \/ (mails[i] = 1 /\ row.status = "sent")
    BY <1>1, <1>3, <1>8 DEF IInv, Remembered
<1>11. /\ job' \in [Ids -> Job]
       /\ \A j \in Ids : job'[j].state # "none" => j \in DOMAIN dispatch
    <2>1. job[i] \in Job /\ \A t \in 0..MaxTries : [state |-> "kept", tries |-> t] \in Job
        BY <1>3, <1>4 DEF Job
    <2>2. [job[i] EXCEPT !.state = "queued"] \in Job
        BY <2>1 DEF Job
    <2>3. job' \in [Ids -> Job] /\ \A j \in Ids : j # i => job'[j] = job[j]
        <3>1. PICK v \in Job : job' = [job EXCEPT ![i] = v]
            BY <1>5, <2>1, <2>2, RemindersAssumption
        <3> QED
            BY <1>4, <3>1
    <2> QED
        BY <1>3, <2>3 DEF IInv, RowsExist
<1>12. /\ mails' = [mails EXCEPT ![i] = mails[i]] /\ mails[i] \in 0..2
       /\ clean' = [clean EXCEPT ![i] = clean[i]] /\ clean[i] \in BOOLEAN
    BY <1>2, <1>4
<1>13. Idle \in Work /\ Idle.step = "start" /\ Open(Idle)
    BY IdleWork DEF Open
<1> QED
    BY <1>2, <1>3, <1>5, <1>7, <1>9, <1>10, <1>11, <1>12, <1>13, DispatchKeepsIInv

-----------------------------------------------------------------------------
(* Crashes and the managers' retries.                                      *)

LEMMA CrashKeepsIInv ==
    ASSUME IInv, Crash
    PROVE  IInv'
<1>1. /\ today' = today /\ subject' = subject /\ dispatch' = dispatch
      /\ retry' = retry /\ mails' = mails
      /\ faults < MaxFaults /\ faults' = faults + 1
      /\ sweep' = [step |-> "idle", todo |-> {}]
      /\ job' = [i \in Ids |-> IF job[i].state = "running"
                               THEN [job[i] EXCEPT !.state = "queued"] ELSE job[i]]
      /\ work' = [i \in Ids |-> Idle]
      /\ clean' = [i \in Ids |-> clean[i] /\ work[i].step # "record"]
    BY DEF Crash, db
<1>2. \A i \in Ids : work'[i].step = "start" /\ work'[i] \in Work
    BY <1>1, IdleWork
<1>3. clean' \in [Ids -> BOOLEAN]
    BY <1>1, Zenon
<1>4. job' \in [Ids -> Job] /\ \A i \in Ids : job'[i].state # "none" => job[i].state # "none"
    BY <1>1 DEF IInv, Typed, TypeOK, Job
<1>5. Typed'
    <2>1. work' \in [Ids -> Work]
        BY <1>1, IdleWork
    <2>2. faults' \in 0..MaxFaults
        BY <1>1, RemindersAssumption DEF IInv, Typed, TypeOK
    <2>3. sweep' \in [step: SweepSteps, todo: SUBSET Ids]
        BY <1>1 DEF SweepSteps
    <2> QED
        BY <1>1, <1>3, <1>4, <2>1, <2>2, <2>3 DEF IInv, Typed, TypeOK
<1>6. RowsExist'
    BY <1>1, <1>2, <1>4 DEF IInv, RowsExist
<1>7. Opened'
    BY <1>2 DEF Opened, Open
<1>8. Remembered'
    <2> SUFFICES ASSUME NEW i \in Ids, clean[i], work[i].step # "record"
                 PROVE  mails[i] = 0 \/ (mails[i] = 1 /\ Has(i, "sent"))
        BY <1>1, <1>2 DEF Remembered, Has
    <2> QED
        BY DEF IInv, Remembered
<1>9. OneDispatchPerSendDay' /\ SentWasMailed'
    BY <1>1 DEF IInv, OneDispatchPerSendDay, SentWasMailed
<1> QED
    BY <1>5, <1>6, <1>7, <1>8, <1>9 DEF IInv

LEMMA JobFailsKeepsIInv ==
    ASSUME IInv, NEW i \in Ids, JobFails(i)
    PROVE  IInv'
<1>1. /\ dispatch' = dispatch /\ mails' = mails /\ faults' = faults + 1
      /\ job' = [job EXCEPT ![i] = [state |-> "lost", tries |-> 0]]
      /\ work' = [work EXCEPT ![i] = Idle]
      /\ clean' = [clean EXCEPT ![i] = clean[i] /\ work[i].step # "record"]
      /\ retry' = retry /\ UNCHANGED <<today, subject, sweep>>
    BY DEF JobFails, Stop, db
<1>2. faults' \in 0..MaxFaults
    BY RemindersAssumption DEF JobFails, IInv, Typed, TypeOK
<1>3. /\ i \in DOMAIN dispatch /\ dispatch \in Seq(Dispatch) /\ dispatch[i] \in Dispatch
      /\ mails \in [Ids -> 0..2] /\ clean \in [Ids -> BOOLEAN] /\ job \in [Ids -> Job]
    BY DEF JobFails, IInv, Typed, TypeOK, RowsExist
<1>4. /\ job' \in [Ids -> Job]
      /\ \A j \in Ids : job'[j].state # "none" => j \in DOMAIN dispatch
    BY <1>1, <1>3, RemindersAssumption DEF Job, IInv, RowsExist
<1> DEFINE k == clean[i] /\ work[i].step # "record"
<1>5. k \in BOOLEAN /\ clean' = [clean EXCEPT ![i] = k]
    BY <1>1, <1>3, Zenon
<1>6. k => mails[i] = 0 \/ (mails[i] = 1 /\ Idle.step = "start" /\ dispatch[i].status = "sent")
    BY <1>3, IdleWork DEF IInv, Remembered, Has
<1> HIDE DEF k
<1>7. /\ dispatch' = [dispatch EXCEPT ![i] = dispatch[i]]
      /\ mails' = [mails EXCEPT ![i] = mails[i]] /\ mails[i] \in 0..2
      /\ dispatch[i].status = "sent" => mails[i] >= 1
    BY <1>1, <1>3 DEF IInv, SentWasMailed
<1>8. Idle \in Work /\ Idle.step = "start" /\ Open(Idle)
    BY IdleWork DEF Open
<1>9. /\ retry' = retry \/ AsksForRows(retry')
      /\ faults' \in {faults} \cup 0..MaxFaults
      /\ UNCHANGED <<today, subject, sweep>>
    BY <1>1, <1>2
<1>10. work' = [work EXCEPT ![i] = Idle] /\ ~(Idle.step = "record")
    BY <1>1, IdleWork
<1> QED
    BY <1>3, <1>4, <1>5, <1>6, <1>7, <1>8, <1>9, <1>10, DispatchKeepsIInv

LEMMA SweepFailsKeepsIInv ==
    ASSUME IInv, SweepFails
    PROVE  IInv'
<1>1. /\ today' = today /\ subject' = subject /\ dispatch' = dispatch /\ job' = job
      /\ work' = work /\ retry' = retry /\ mails' = mails /\ clean' = clean
      /\ sweep' = [step |-> "idle", todo |-> {}]
    BY DEF SweepFails, db, history
<1>2. Typed'
    <2>1. faults' \in 0..MaxFaults
        BY RemindersAssumption DEF SweepFails, IInv, Typed, TypeOK
    <2> QED
        BY <1>1, <2>1 DEF IInv, Typed, TypeOK, SweepSteps
<1>3. RowsExist' /\ Opened' /\ Remembered'
    BY <1>1 DEF IInv, RowsExist, Opened, Open, Remembered, Has
<1>4. OneDispatchPerSendDay' /\ SentWasMailed'
    BY <1>1 DEF IInv, OneDispatchPerSendDay, SentWasMailed
<1> QED
    BY <1>2, <1>3, <1>4 DEF IInv

LEMMA RequestShapes ==
    ASSUME NEW r \in Request
    PROVE  /\ r.step \in {"new", "open", "done"}
           /\ r.step = "new" => r = NoRequest
           /\ r.step # "new" => r.id \in Ids
           /\ r.step = "open" => r.loaded \in Dispatch
<1>1. CASE r = NoRequest
    BY <1>1 DEF NoRequest
<1>2. CASE r \in [step: {"open"}, id: Ids, loaded: Dispatch]
    BY <1>2
<1>3. CASE r \in [step: {"done"}, id: Ids]
    BY <1>3
<1> QED
    BY <1>1, <1>2, <1>3 DEF Request

LEMMA RetryReadKeepsIInv ==
    ASSUME IInv, NEW q \in Requests, NEW i \in Ids, RetryRead(q, i)
    PROVE  IInv'
<1>1. /\ today' = today /\ subject' = subject /\ dispatch' = dispatch /\ sweep' = sweep
      /\ job' = job /\ work' = work /\ faults' = faults
      /\ mails' = mails /\ clean' = clean /\ i \in DOMAIN dispatch
    BY DEF RetryRead, db, history
<1> DEFINE r == [step |-> "open", id |-> i, loaded |-> dispatch[i]]
<1>2. /\ retry' = [retry EXCEPT ![q] = r] /\ retry \in [Requests -> Request]
      /\ dispatch[i] \in Dispatch
    BY <1>1 DEF RetryRead, IInv, Typed, TypeOK
<1>3. r \in Request /\ r.id = i
    BY <1>2 DEF Request
<1> HIDE DEF r
<1>4. Typed'
    BY <1>1, <1>2, <1>3 DEF IInv, Typed, TypeOK
<1>5. RowsExist'
    BY <1>1, <1>2, <1>3 DEF IInv, RowsExist
<1>6. Opened' /\ Remembered'
    BY <1>1 DEF IInv, Opened, Open, Remembered, Has
<1>7. OneDispatchPerSendDay' /\ SentWasMailed'
    BY <1>1 DEF IInv, OneDispatchPerSendDay, SentWasMailed
<1> QED
    BY <1>4, <1>5, <1>6, <1>7 DEF IInv

LEMMA RetryCommitKeepsIInv ==
    ASSUME IInv, NEW q \in Requests, RetryCommit(q)
    PROVE  IInv'
<1> DEFINE i == retry[q].id
           loaded == retry[q].loaded
           new == [loaded EXCEPT !.status = "queued", !.attempts = 0]
           row == Merge(dispatch[i], loaded, new)
<1>0. retry \in [Requests -> Request] /\ retry[q].step = "open"
    BY DEF RetryCommit, IInv, Typed, TypeOK
<1>1. /\ i \in Ids /\ loaded \in Dispatch /\ i \in DOMAIN dispatch
      /\ dispatch \in Seq(Dispatch) /\ dispatch[i] \in Dispatch /\ work[i] \in Work
      /\ mails \in [Ids -> 0..2] /\ job \in [Ids -> Job] /\ work \in [Ids -> Work]
    BY <1>0, RequestShapes DEF IInv, Typed, TypeOK, RowsExist
<1>2. new \in Dispatch /\ new.status = "queued"
    BY <1>1 DEF Dispatch, Statuses
<1>3. /\ dispatch' = [dispatch EXCEPT ![i] = row]
      /\ clean' = [clean EXCEPT ![i] = FALSE] /\ mails' = mails
      /\ work' = work /\ job' = job
      /\ UNCHANGED <<today, subject, sweep, faults>>
      /\ retry' = [retry EXCEPT ![q] = [step |-> "done", id |-> i]]
    BY DEF RetryCommit
<1>9. AsksForRows(retry')
    <2>1. [step |-> "done", id |-> i] \in Request
        BY <1>1 DEF Request
    <2> QED
        BY <1>0, <1>1, <1>3, <2>1 DEF AsksForRows, IInv, RowsExist
<1> HIDE DEF new
<1>4. /\ row \in Dispatch /\ row.subject = dispatch[i].subject /\ row.day = dispatch[i].day
      /\ row.status = IF new.status = loaded.status THEN dispatch[i].status ELSE new.status
    BY <1>1, <1>2, Merged
<1> HIDE DEF row, loaded
<1>5. row.status = "sent" => mails[i] >= 1
    BY <1>1, <1>2, <1>4 DEF IInv, SentWasMailed
<1>6. Open(work[i]) /\ (work[i].step = "record" /\ work[i].outcome = "ok" => mails[i] >= 1)
    BY <1>1 DEF IInv, Opened
<1>7. /\ work' = [work EXCEPT ![i] = work[i]] /\ mails' = [mails EXCEPT ![i] = mails[i]]
      /\ mails[i] \in 0..2
    BY <1>1, <1>3
<1>8. /\ job' \in [Ids -> Job]
      /\ \A j \in Ids : job'[j].state # "none" => j \in DOMAIN dispatch
    BY <1>1, <1>3 DEF IInv, RowsExist
<1> HIDE DEF i
<1> QED
    BY <1>1, <1>3, <1>4, <1>5, <1>6, <1>7, <1>8, <1>9, DispatchKeepsIInv

-----------------------------------------------------------------------------
LEMMA Inductive == IInv /\ [Next]_vars => IInv'
<1> SUFFICES ASSUME IInv, [Next]_vars PROVE IInv'
    OBVIOUS
<1>1. CASE ScheduleDue
    BY <1>1, ScheduleKeepsIInv DEF ScheduleDue, IInv, Typed, TypeOK, SweepSteps
<1>2. CASE ScheduleDsc
    BY <1>2, ScheduleKeepsIInv, RemindersAssumption
    DEF ScheduleDsc, IInv, Typed, TypeOK, SweepSteps
<1>3. ASSUME NEW i \in Ids, Deliver(i) PROVE IInv'
    BY <1>3, LoadKeepsIInv, SendKeepsIInv, RecordKeepsIInv DEF Deliver
<1> QED
    BY <1>1, <1>2, <1>3, QueueKeepsIInv, CrashKeepsIInv, JobFailsKeepsIInv,
       SweepFailsKeepsIInv, RetryReadKeepsIInv, RetryCommitKeepsIInv DEF Next, SweepNext

LEMMA Always == Spec => []IInv
BY Starting, Inductive, PTL DEF Spec

(* The rows, the jobs and the deliveries keep their shapes.                *)
THEOREM TypeCorrect == Spec => []TypeOK
BY Always, PTL DEF IInv, Typed

(* The sweep never makes a second dispatch for a subject and a send-day,   *)
(* however often it runs, crashes, or meets due dates that move.           *)
THEOREM OneDispatch == Spec => []OneDispatchPerSendDay
BY Always, PTL DEF IInv

(* No dispatch is recorded as sent without a mail, whatever retries cross  *)
(* the delivery.                                                           *)
THEOREM SentMeansMailed == Spec => []SentWasMailed
BY Always, PTL DEF IInv

(* A reminder goes out once, but for crashes, lost answers and retries.    *)
THEOREM OneMail == Spec => []MailedOnce
<1>1. IInv => MailedOnce
    BY DEF IInv, Remembered, MailedOnce
<1> QED
    BY <1>1, Always, PTL

-----------------------------------------------------------------------------
(* The attempt budget.  A retry commits against a row that deliveries have *)
(* moved on, and writes only the columns that differ from what it read.    *)
(* What betrays it is a queued dispatch with attempts; a failed dispatch   *)
(* without attempts takes two requests, and so does a dead one that was    *)
(* read as it is not any more.  The invariant speaks of the dispatches     *)
(* that one request at most asks for; a dispatch never comes back to them. *)

\* In terms of the requests: one at most asks for dispatch i, one has committed.
Once(requests, i) ==
    \A q, r \in Requests : Asks(requests[q], i) /\ Asks(requests[r], i) => q = r
Done(requests, i) == \E q \in Requests : requests[q].step = "done" /\ requests[q].id = i

Crosses(row, done) ==
    /\ row.status = "queued" /\ row.attempts > 0 => done
    /\ row.status = "failed" => row.attempts > 0

\* A delivery in progress keeps its dispatch open; what it loaded as failed is
\* queued by now only if a retry came in between.
InHand(w, row, done) ==
    w.step # "start" => /\ row.status \notin {"sent", "dead"}
                        /\ w.loaded.status = "failed" /\ row.status = "queued" => done

\* Nobody moves a dead dispatch while the one request that read it is in progress.
InRequest(row, loaded) ==
    /\ loaded.status # "sent"
    /\ loaded.status = "dead" => row = loaded
    /\ Crosses(loaded, FALSE)

InBudget(row) == row.attempts >= MAX_ATTEMPTS => row.status \in {"sent", "dead"}

Budgeted(i, row, w, requests) ==
    Once(requests, i) =>
        /\ Crosses(row, Done(requests, i)) /\ InHand(w, row, Done(requests, i))
        /\ InBudget(row)
        /\ \A q \in Requests : requests[q].step = "open" /\ requests[q].id = i
                                => InRequest(row, requests[q].loaded)

BInv == \A i \in DOMAIN dispatch : Budgeted(i, dispatch[i], work[i], retry)

LEMMA RecordedColumns ==
    ASSUME NEW row \in Dispatch, NEW outcome \in Outcomes
    PROVE  LET new == Recorded(row, outcome)
           IN  \/ new.status \in {"sent", "dead"}
               \/ /\ new.status = "failed" /\ new.attempts = row.attempts + 1
                  /\ new.attempts < MAX_ATTEMPTS
<1>1. CASE outcome \in {"dead", "ok"}
    BY <1>1 DEF Recorded, Dispatch
<1>2. CASE outcome = "error" /\ row.attempts + 1 >= MAX_ATTEMPTS
    BY <1>2 DEF Recorded, Dispatch
<1>3. CASE outcome = "error" /\ ~(row.attempts + 1 >= MAX_ATTEMPTS)
    <2>1. Recorded(row, outcome) =
              [row EXCEPT !.attempts = row.attempts + 1, !.status = "failed"]
        BY <1>3 DEF Recorded, Dispatch
    <2>2. /\ Recorded(row, outcome).status = "failed"
          /\ Recorded(row, outcome).attempts = row.attempts + 1
        BY <2>1 DEF Dispatch
    <2>3. row.attempts + 1 < MAX_ATTEMPTS
        <3>1. row.attempts \in Nat
            BY DEF Dispatch
        <3> QED
            BY <1>3, <3>1, RemindersAssumption
    <2> QED
        BY <2>2, <2>3
<1> QED
    BY <1>1, <1>2, <1>3 DEF Outcomes

LEMMA StartingBudget == Init => BInv
BY DEF Init, BInv

(* Requests for other dispatches do not matter.                            *)
LEMMA SameRequests ==
    ASSUME NEW i, NEW row, NEW w, NEW old, NEW new,
           \A q \in Requests : new[q] = old[q] \/ (~Asks(old[q], i) /\ ~Asks(new[q], i)),
           Budgeted(i, row, w, old)
    PROVE  Budgeted(i, row, w, new)
<1> SUFFICES ASSUME Once(new, i)
             PROVE  /\ Crosses(row, Done(new, i)) /\ InHand(w, row, Done(new, i))
                    /\ InBudget(row)
                    /\ \A q \in Requests : new[q].step = "open" /\ new[q].id = i
                                            => InRequest(row, new[q].loaded)
    BY DEF Budgeted
<1>1. Once(old, i) /\ (Done(new, i) <=> Done(old, i))
    BY DEF Once, Done, Asks
<1>2. \A q \in Requests : new[q].step = "open" /\ new[q].id = i => new[q] = old[q]
    BY DEF Asks
<1> QED
    BY <1>1, <1>2 DEF Budgeted, Crosses, InHand

(* A delivery may start on an open dispatch, go on or stop.                *)
LEMMA DeliveryKeepsBudget ==
    ASSUME BInv, UNCHANGED <<dispatch, retry>>,
           \A i \in DOMAIN dispatch :
               \/ work'[i].step = "start"
               \/ work[i].step # "start" /\ work'[i].loaded = work[i].loaded
               \/ dispatch[i].status \notin {"sent", "dead"} /\ work'[i].loaded = dispatch[i]
    PROVE  BInv'
<1>1. ASSUME NEW i \in DOMAIN dispatch PROVE Budgeted(i, dispatch[i], work'[i], retry)
    <2>1. Budgeted(i, dispatch[i], work[i], retry)
        BY DEF BInv
    <2>2. InHand(work[i], dispatch[i], Done(retry, i)) => InHand(work'[i], dispatch[i], Done(retry, i))
        BY DEF InHand
    <2> QED
        BY <2>1, <2>2 DEF Budgeted
<1>2. dispatch' = dispatch /\ retry' = retry
    OBVIOUS
<1> QED
    BY <1>1, <1>2 DEF BInv

LEMMA ScheduleKeepsBudget ==
    ASSUME IInv, BInv, NEW S, S \subseteq Subjects, Schedule(S)
    PROVE  BInv'
<1> DEFINE D == Due(S)
<1>1. \A r \in D : r.status = "queued" /\ r.attempts = 0
    BY DueFinite DEF IInv
<1> HIDE DEF D
<1>2. /\ \A i \in DOMAIN dispatch : i \in DOMAIN dispatch' /\ dispatch'[i] = dispatch[i]
      /\ \A i \in DOMAIN dispatch' \ DOMAIN dispatch : i \in Ids /\ dispatch'[i] \in D
    <2> DEFINE L == Len(dispatch)
    <2>1. PICK N \in Nat, new \in Seq(Dispatch) :
              /\ L \in Nat /\ L + N <= MaxDispatches
              /\ DOMAIN dispatch' = 1..L + N /\ DOMAIN dispatch = 1..L
              /\ \A i \in 1..L : dispatch'[i] = dispatch[i]
              /\ \A i \in 1..L + N : i > L => dispatch'[i] \in D
        BY Appended DEF D
    <2> QED
        BY <2>1, RemindersAssumption DEF Ids
<1>3. work' = work /\ retry' = retry
    BY DEF Schedule
<1>4. ASSUME NEW i \in DOMAIN dispatch' PROVE Budgeted(i, dispatch'[i], work[i], retry)
    <2>1. CASE i \in DOMAIN dispatch
        BY <1>2, <2>1 DEF BInv
    <2>2. CASE i \notin DOMAIN dispatch
        <3>1. i \in Ids /\ dispatch'[i].status = "queued" /\ dispatch'[i].attempts = 0
            BY <1>1, <1>2, <2>2
        <3>2. work[i].step = "start" /\ \A q \in Requests : ~Asks(retry[q], i)
            BY <2>2, <3>1 DEF IInv, RowsExist, Asks
        <3>3. /\ Crosses(dispatch'[i], Done(retry, i))
              /\ InHand(work[i], dispatch'[i], Done(retry, i))
            BY <3>1, <3>2 DEF Crosses, InHand
        <3>4. InBudget(dispatch'[i])
            BY <3>1, RemindersAssumption DEF InBudget
        <3> QED
            BY <3>2, <3>3, <3>4 DEF Budgeted, Asks
    <2> QED
        BY <2>1, <2>2
<1> QED
    BY <1>3, <1>4 DEF BInv

LEMMA RecordKeepsBudget ==
    ASSUME IInv, BInv, NEW i \in Ids, Record(i)
    PROVE  BInv'
<1>1. SUFFICES ASSUME NEW old, old = work[i] PROVE BInv'
    OBVIOUS
<1>2. /\ old \in Work /\ old.step = "record" /\ i \in DOMAIN dispatch
      /\ old.loaded \in Dispatch /\ old.outcome \in Outcomes /\ Open(old)
    BY <1>1, WorkShapes DEF Record, IInv, Typed, TypeOK, RowsExist, Opened
<1>3. dispatch \in Seq(Dispatch) /\ dispatch[i] \in Dispatch /\ work \in [Ids -> Work]
    BY <1>2 DEF IInv, Typed, TypeOK
<1> DEFINE new == Recorded(old.loaded, old.outcome)
           row == Merge(dispatch[i], old.loaded, new)
           done == Done(retry, i)
<1>4. /\ dispatch' = [dispatch EXCEPT ![i] = row]
      /\ work' = [work EXCEPT ![i] = Idle]
      /\ retry' = retry
    BY <1>1 DEF Record, Finish, Stop
<1>5. /\ new \in Dispatch
      /\ \/ new.status \in {"sent", "dead"}
         \/ /\ new.status = "failed" /\ new.attempts = old.loaded.attempts + 1
            /\ new.attempts < MAX_ATTEMPTS
    BY <1>2, RecordedTyped, RecordedColumns
<1> HIDE DEF new
<1>6. /\ row \in Dispatch
      /\ row.status = IF new.status = old.loaded.status THEN dispatch[i].status
                      ELSE new.status
      /\ row.attempts = IF new.attempts = old.loaded.attempts THEN dispatch[i].attempts
                        ELSE new.attempts
    BY <1>2, <1>3, <1>5, Merged
<1> HIDE DEF row, done
<1>7. /\ DOMAIN dispatch' = DOMAIN dispatch /\ dispatch'[i] = row
      /\ work'[i].step = "start"
      /\ \A j \in DOMAIN dispatch : j # i => dispatch'[j] = dispatch[j] /\ work'[j] = work[j]
    <2>1. DOMAIN dispatch \subseteq Ids
        BY IdsAreRows DEF IInv, Typed
    <2> QED
        BY <1>2, <1>3, <1>4, <2>1, IdleWork
<1>8. Budgeted(i, row, work'[i], retry)
    <2> SUFFICES ASSUME Once(retry, i)
                 PROVE  /\ Crosses(row, done) /\ InHand(work'[i], row, done) /\ InBudget(row)
                        /\ \A q \in Requests : retry[q].step = "open" /\ retry[q].id = i
                                                => InRequest(row, retry[q].loaded)
        BY DEF Budgeted, done
    <2>1. /\ InHand(old, dispatch[i], done)
          /\ \A q \in Requests : retry[q].step = "open" /\ retry[q].id = i
                                  => InRequest(dispatch[i], retry[q].loaded)
        BY <1>1, <1>2 DEF BInv, Budgeted, done
    <2>2. Crosses(row, done) /\ InBudget(row)
        <3>1. CASE new.status \in {"sent", "dead"}
            <4>1. row.status \in {"sent", "dead"}
                BY <1>2, <1>6, <3>1 DEF Open
            <4> QED
                BY <4>1 DEF Crosses, InBudget
        <3>2. CASE new.status = "failed" /\ new.attempts = old.loaded.attempts + 1
                   /\ new.attempts < MAX_ATTEMPTS
            <4>1. old.loaded.attempts \in Nat
                BY <1>2 DEF Dispatch
            <4>2. row.attempts = old.loaded.attempts + 1 /\ row.attempts < MAX_ATTEMPTS
                BY <1>6, <3>2, <4>1
            <4>3. row.attempts > 0 /\ ~(row.attempts >= MAX_ATTEMPTS)
                BY <4>1, <4>2, RemindersAssumption
            <4>4. row.status = "queued" => done
                BY <1>2, <1>6, <2>1, <3>2 DEF InHand
            <4> QED
                BY <4>3, <4>4 DEF Crosses, InBudget
        <3> QED
            BY <1>5, <3>1, <3>2
    <2>3. ASSUME NEW q \in Requests, retry[q].step = "open", retry[q].id = i
          PROVE  InRequest(row, retry[q].loaded)
        <3>1. InRequest(dispatch[i], retry[q].loaded)
            BY <2>1, <2>3
        <3>2. dispatch[i].status # "dead"
            BY <1>2, <2>1 DEF InHand
        <3> QED
            BY <3>1, <3>2 DEF InRequest
    <2>4. InHand(work'[i], row, done)
        BY <1>7 DEF InHand
    <2> QED
        BY <2>2, <2>3, <2>4
<1> QED
    BY <1>4, <1>7, <1>8 DEF BInv

LEMMA RetryReadKeepsBudget ==
    ASSUME IInv, BInv, NEW q \in Requests, NEW i \in Ids, RetryRead(q, i)
    PROVE  BInv'
<1> DEFINE r == [step |-> "open", id |-> i, loaded |-> dispatch[i]]
<1>1. /\ dispatch' = dispatch /\ work' = work /\ i \in DOMAIN dispatch
      /\ retry' = [retry EXCEPT ![q] = r] /\ retry[q].step = "new"
      /\ dispatch[i].status # "sent" /\ retry \in [Requests -> Request]
    BY DEF RetryRead, db, NoRequest, IInv, Typed, TypeOK
<1>2. r.step = "open" /\ r.id = i /\ r.loaded = dispatch[i]
    OBVIOUS
<1> HIDE DEF r
<1>3. retry'[q] = r /\ \A p \in Requests : p # q => retry'[p] = retry[p]
    BY <1>1
<1>4. ASSUME NEW j \in DOMAIN dispatch, j # i
      PROVE  Budgeted(j, dispatch[j], work[j], retry')
    <2>1. \A p \in Requests : retry'[p] = retry[p] \/ (~Asks(retry[p], j) /\ ~Asks(retry'[p], j))
        BY <1>1, <1>2, <1>3, <1>4 DEF Asks
    <2>2. Budgeted(j, dispatch[j], work[j], retry)
        BY DEF BInv
    <2> QED
        BY <2>1, <2>2, SameRequests
<1>5. Budgeted(i, dispatch[i], work[i], retry')
    <2> SUFFICES ASSUME Once(retry', i)
                 PROVE  /\ Crosses(dispatch[i], Done(retry', i))
                        /\ InHand(work[i], dispatch[i], Done(retry', i))
                        /\ InBudget(dispatch[i])
                        /\ \A p \in Requests : retry'[p].step = "open" /\ retry'[p].id = i
                                                => InRequest(dispatch[i], retry'[p].loaded)
        BY DEF Budgeted
    <2>1. \A p \in Requests : Asks(retry'[p], i) => p = q
        BY <1>2, <1>3 DEF Once, Asks
    <2>2. \A p \in Requests : ~Asks(retry[p], i)
        BY <1>1, <1>3, <2>1 DEF Asks
    <2>3. Once(retry, i) /\ ~Done(retry, i) /\ ~Done(retry', i)
        BY <1>2, <1>3, <2>1, <2>2 DEF Once, Done, Asks
    <2>4. /\ Crosses(dispatch[i], FALSE) /\ InHand(work[i], dispatch[i], FALSE)
          /\ InBudget(dispatch[i])
        BY <1>1, <2>3 DEF BInv, Budgeted, Crosses, InHand
    <2>5. InRequest(dispatch[i], r.loaded)
        BY <1>1, <1>2, <2>4 DEF InRequest
    <2>6. \A p \in Requests : retry'[p].step = "open" /\ retry'[p].id = i => p = q
        BY <2>1 DEF Asks
    <2> QED
        BY <1>3, <2>3, <2>4, <2>5, <2>6 DEF Crosses, InHand
<1> QED
    BY <1>1, <1>4, <1>5 DEF BInv

LEMMA RetryCommitKeepsBudget ==
    ASSUME IInv, BInv, NEW q \in Requests, RetryCommit(q)
    PROVE  BInv'
<1> DEFINE i == retry[q].id
           loaded == retry[q].loaded
           stored == dispatch[i]
           new == [loaded EXCEPT !.status = "queued", !.attempts = 0]
           row == Merge(stored, loaded, new)
<1>0. retry \in [Requests -> Request] /\ retry[q].step = "open" /\ retry[q].id = i
    BY DEF RetryCommit, IInv, Typed, TypeOK
<1>1. /\ i \in Ids /\ loaded \in Dispatch /\ i \in DOMAIN dispatch
      /\ dispatch \in Seq(Dispatch) /\ stored \in Dispatch
    BY <1>0, RequestShapes DEF IInv, Typed, TypeOK, RowsExist
<1>2. new \in Dispatch /\ new.status = "queued" /\ new.attempts = 0
    BY <1>1 DEF Dispatch, Statuses
<1>3. /\ dispatch' = [dispatch EXCEPT ![i] = row] /\ work' = work
      /\ retry' = [retry EXCEPT ![q] = [step |-> "done", id |-> i]]
    BY DEF RetryCommit
<1> HIDE DEF new
<1>4. /\ row \in Dispatch
      /\ row.status = IF loaded.status = "queued" THEN stored.status ELSE "queued"
      /\ row.attempts = IF loaded.attempts = 0 THEN stored.attempts ELSE 0
    BY <1>1, <1>2, Merged
<1> HIDE DEF row
<1>5. /\ DOMAIN dispatch' = DOMAIN dispatch /\ dispatch'[i] = row
      /\ \A j \in DOMAIN dispatch : j # i => dispatch'[j] = dispatch[j]
    BY <1>1, <1>3
<1>6. /\ retry'[q].step = "done" /\ retry'[q].id = i
      /\ \A p \in Requests : p # q => retry'[p] = retry[p]
    BY <1>0, <1>3
<1>7. loaded.attempts \in Nat /\ stored.attempts \in Nat /\ loaded.status \in Statuses
    BY <1>1 DEF Dispatch
<1>8. Budgeted(i, stored, work[i], retry)
    BY <1>1 DEF BInv
<1>9. retry[q].loaded = loaded
    OBVIOUS
<1> HIDE DEF i, loaded, stored
<1>10. ASSUME NEW j \in DOMAIN dispatch, j # i
       PROVE  Budgeted(j, dispatch[j], work[j], retry')
    <2>1. \A p \in Requests : retry'[p] = retry[p] \/ (~Asks(retry[p], j) /\ ~Asks(retry'[p], j))
        BY <1>0, <1>6, <1>10 DEF Asks
    <2>2. Budgeted(j, dispatch[j], work[j], retry)
        BY DEF BInv
    <2> QED
        BY <2>1, <2>2, SameRequests
<1>11. Budgeted(i, row, work[i], retry')
    <2> SUFFICES ASSUME Once(retry', i)
                 PROVE  /\ Crosses(row, Done(retry', i)) /\ InHand(work[i], row, Done(retry', i))
                        /\ InBudget(row)
                        /\ \A p \in Requests : retry'[p].step = "open" /\ retry'[p].id = i
                                                => InRequest(row, retry'[p].loaded)
        BY DEF Budgeted
    <2>1. \A p \in Requests : p # q => ~Asks(retry[p], i) /\ ~Asks(retry'[p], i)
        BY <1>6 DEF Once, Asks
    <2>2. Once(retry, i) /\ ~Done(retry, i) /\ Done(retry', i)
        BY <1>0, <1>6, <2>1 DEF Once, Done, Asks
    <2>3. /\ Crosses(stored, FALSE) /\ InHand(work[i], stored, FALSE) /\ InBudget(stored)
          /\ InRequest(stored, loaded)
        BY <1>0, <1>8, <1>9, <2>2 DEF Budgeted, Crosses, InHand
    <2>4. Crosses(row, TRUE)
        <3> SUFFICES ASSUME row.status = "failed" PROVE row.attempts > 0
            BY DEF Crosses
        <3>1. loaded.status = "queued" /\ stored.status = "failed"
            BY <1>4
        <3>2. loaded.attempts = 0 /\ stored.attempts > 0
            BY <1>7, <2>3, <3>1 DEF InRequest, Crosses
        <3> QED
            BY <1>4, <3>2
    <2>5. InBudget(row)
        <3> SUFFICES ASSUME row.attempts >= MAX_ATTEMPTS PROVE row.status \in {"sent", "dead"}
            BY DEF InBudget
        <3>1. loaded.attempts = 0 /\ stored.attempts >= MAX_ATTEMPTS
            BY <1>4, RemindersAssumption
        <3>2. stored.status \in {"sent", "dead"}
            BY <2>3, <3>1 DEF InBudget
        <3>3. loaded.status # "failed"
            BY <2>3, <3>1 DEF InRequest, Crosses
        <3>4. loaded.status # "dead"
            BY <2>3, <3>1, RemindersAssumption DEF InRequest
        <3>5. loaded.status = "queued"
            BY <1>7, <2>3, <3>3, <3>4 DEF InRequest, Statuses
        <3> QED
            BY <1>4, <3>2, <3>5
    <2>6. InHand(work[i], row, TRUE)
        BY <1>4, <2>3 DEF InHand
    <2>7. \A p \in Requests : ~(retry'[p].step = "open" /\ retry'[p].id = i)
        BY <1>6, <2>1 DEF Asks
    <2> QED
        BY <2>2, <2>4, <2>5, <2>6, <2>7 DEF Crosses, InHand
<1> QED
    BY <1>3, <1>5, <1>10, <1>11 DEF BInv

LEMMA LoadOrSendKeepsBudget ==
    ASSUME IInv, BInv, NEW i \in Ids, Load(i) \/ Send(i) \/ JobFails(i)
    PROVE  BInv'
<1>1. /\ UNCHANGED <<dispatch, retry>>
      /\ \E w : /\ work' = [work EXCEPT ![i] = w]
                /\ \/ w.step = "start"
                   \/ work[i].step # "start" /\ w.loaded = work[i].loaded
                   \/ dispatch[i].status \notin {"sent", "dead"} /\ w.loaded = dispatch[i]
    BY IdleWork DEF Load, Send, JobFails, Finish, Stop, db
<1>2. work \in [Ids -> Work] /\ DOMAIN dispatch \subseteq Ids
    BY IdsAreRows DEF IInv, Typed, TypeOK
<1>3. \A j \in Ids : j # i => work'[j] = work[j]
    BY <1>1, <1>2
<1>4. \A j \in DOMAIN dispatch :
          \/ work'[j].step = "start"
          \/ work[j].step # "start" /\ work'[j].loaded = work[j].loaded
          \/ dispatch[j].status \notin {"sent", "dead"} /\ work'[j].loaded = dispatch[j]
    BY <1>1, <1>2, <1>3
<1> QED
    BY <1>1, <1>4, DeliveryKeepsBudget

LEMMA BudgetInductive == IInv /\ BInv /\ [Next]_vars => BInv'
<1> SUFFICES ASSUME IInv, BInv, [Next]_vars PROVE BInv'
    OBVIOUS
<1>1. CASE ScheduleDue
    BY <1>1, ScheduleKeepsBudget DEF ScheduleDue
<1>2. CASE ScheduleDsc
    BY <1>2, ScheduleKeepsBudget, RemindersAssumption DEF ScheduleDsc
<1>3. ASSUME NEW i \in Ids, Deliver(i) \/ JobFails(i) PROVE BInv'
    BY <1>3, LoadOrSendKeepsBudget, RecordKeepsBudget DEF Deliver
<1>4. CASE \/ \E s \in Subjects : Edit(s)
           \/ NextDay \/ SelectQueued \/ SweepDone \/ SweepFails
           \/ \E i \in Ids : Enqueue(i) \/ TakeJob(i) \/ Forget(i)
           \/ UNCHANGED vars
    <2>1. UNCHANGED <<dispatch, retry, work>>
        BY <1>4 DEF Edit, NextDay, SelectQueued, SweepDone, SweepFails, Enqueue, TakeJob,
                    Forget, vars, db
    <2> QED
        BY <2>1, DeliveryKeepsBudget
<1>5. CASE Crash
    <2>1. UNCHANGED <<dispatch, retry>> /\ \A i \in Ids : work'[i] = Idle
        BY <1>5 DEF Crash, db
    <2>2. DOMAIN dispatch \subseteq Ids
        BY IdsAreRows DEF IInv, Typed
    <2> QED
        BY <2>1, <2>2, IdleWork, DeliveryKeepsBudget
<1> QED
    BY <1>1, <1>2, <1>3, <1>4, <1>5, RetryReadKeepsBudget, RetryCommitKeepsBudget
    DEF Next, SweepNext

(* A dispatch that used up its attempts is over, also when the one request *)
(* of a manager for it crosses its deliveries, whatever requests overlap   *)
(* on other dispatches.                                                    *)
THEOREM Budget == Spec => []BudgetRespected
<1>1. BInv => BudgetRespected
    BY DEF BInv, Budgeted, InBudget, BudgetRespected, AskedOnce, Once
<1> QED
    BY <1>1, Always, StartingBudget, BudgetInductive, PTL DEF Spec

=============================================================================
