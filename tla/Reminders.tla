----------------------------- MODULE Reminders -----------------------------
(***************************************************************************)
(* Reminder dispatches: the daily sweep of the worker, the arq queue, the  *)
(* delivery of one dispatch, the manager's retry, and what may happen in   *)
(* between (services/reminders.py, services/worker.py, routes/reminders.py)*)
(*                                                                         *)
(* A subject is a calendar row with its reminder_config, or a DSC token    *)
(* with its firm's DSC policy.  The queue is arq, not part of the code:    *)
(* its rules are the ones the worker relies on.                            *)
(***************************************************************************)
EXTENDS Integers, Sequences, FiniteSets

CONSTANTS
    None,
    Subjects,
    Tokens,        \* the subjects that are DSC tokens
    Days,          \* the days of the model, from the first one on
    Profiles,      \* [Subjects -> SUBSET Profile], the states users can give each of them
    MAX_ATTEMPTS,  \* tries of one dispatch before the dead letter
    MaxTries,      \* arq's max_tries: runs of one job
    MaxJobs,       \* arq's max_jobs: jobs that run at a time
    Requests,      \* the retry requests the managers make, each once
    MaxDispatches, MaxFaults  \* bounds of the model

\* open: the row is neither filed nor not applicable; due: override, extension or
\* computed date (expiry of a token); days: days_before; reachable: has recipients.
Profile == [open: BOOLEAN, due: Int \cup {None}, days: SUBSET Nat, reachable: BOOLEAN]

ASSUME RemindersAssumption ==
    /\ Tokens \subseteq Subjects
    /\ Days \subseteq Int
    /\ None \notin Int
    /\ IsFiniteSet(Subjects) /\ Profiles \in [Subjects -> SUBSET Profile]
    /\ \A s \in Subjects : \A p \in Profiles[s] : IsFiniteSet(p.days)
    /\ \A s \in Tokens : \A p \in Profiles[s] : p.open
    /\ MAX_ATTEMPTS \in Nat \ {0} /\ MaxTries \in Nat \ {0} /\ MaxJobs \in Nat
    /\ MaxDispatches \in Nat /\ MaxFaults \in Nat

VARIABLES
    today,
    subject,   \* [Subjects -> Profile]
    dispatch,  \* the reminder_dispatch rows; the position is the id
    sweep,     \* the sweep job: where it is and the ids it still has to enqueue
    job,       \* [Ids -> Job]: the arq job of each dispatch
    work,      \* [Ids -> what the running delivery knows]
    retry,     \* [Requests -> Request]: how far each retry request of a manager is
    faults,    \* deaths of the worker, and jobs of it that ended in an error, so far
    mails,     \* history: mails that left for a dispatch, counted up to 2
    clean      \* history: no fault, no lost answer and no retry touched the dispatch

db == <<subject, dispatch>>
history == <<mails, clean>>
vars == <<today, db, sweep, job, work, retry, faults, history>>

Ids == 1..MaxDispatches
Statuses == {"queued", "sent", "failed", "dead"}
Dispatch == [subject: Subjects, day: Int, status: Statuses, attempts: Nat]

\* An arq job: kept and lost stand for the stored result of a job that finished or
\* ended in an error, which still refuses a job of the same id; tries counts runs.
Job == [state: {"none", "queued", "running", "kept", "lost"}, tries: 0..MaxTries]
NoJob == [state |-> "none", tries |-> 0]

\* A delivery: start, send (with the row it loaded), or record (with the outcome).
Outcomes == {"dead", "ok", "error"}
Idle == [step |-> "start"]
Work == {Idle}
   \cup [step: {"send"}, loaded: Dispatch]
   \cup [step: {"record"}, loaded: Dispatch, outcome: Outcomes]

\* A retry request: the row as it was read, then the id alone.
NoRequest == [step |-> "new"]
Request == {NoRequest}
   \cup [step: {"open"}, id: Ids, loaded: Dispatch]
   \cup [step: {"done"}, id: Ids]

SweepSteps == {"idle", "tokens", "select", "enqueue"}

TypeOK ==
    /\ today \in Days
    /\ subject \in [Subjects -> Profile]
    /\ dispatch \in Seq(Dispatch) /\ Len(dispatch) <= MaxDispatches
    /\ sweep \in [step: SweepSteps, todo: SUBSET Ids]
    /\ job \in [Ids -> Job]
    /\ work \in [Ids -> Work]
    /\ retry \in [Requests -> Request]
    /\ faults \in 0..MaxFaults
    /\ mails \in [Ids -> 0..2]
    /\ clean \in [Ids -> BOOLEAN]

Init ==
    /\ today \in Days /\ \A d \in Days : today <= d
    /\ subject \in {f \in [Subjects -> UNION {Profiles[s] : s \in Subjects}] :
                      \A s \in Subjects : f[s] \in Profiles[s]}
    /\ dispatch = <<>>
    /\ sweep = [step |-> "idle", todo |-> {}]
    /\ job = [i \in Ids |-> NoJob]
    /\ work = [i \in Ids |-> Idle]
    /\ retry = [q \in Requests |-> NoRequest]
    /\ faults = 0
    /\ mails = [i \in Ids |-> 0]
    /\ clean = [i \in Ids |-> TRUE]

-----------------------------------------------------------------------------
(* Users and the calendar.                                                 *)

\* patch_row, generate, upsert_reminder, the DSC and the firm settings routes.
Edit(s) ==
    /\ \E p \in Profiles[s] : p # subject[s] /\ subject' = [subject EXCEPT ![s] = p]
    /\ UNCHANGED <<today, dispatch, sweep, job, work, retry, faults, history>>

NextDay ==
    /\ today + 1 \in Days
    /\ today' = today + 1
    /\ UNCHANGED <<db, sweep, job, work, retry, faults, history>>

-----------------------------------------------------------------------------
(* The sweep (schedule_reminders_job).  Only the sweep inserts dispatches  *)
(* and there is one worker, so the select of the existing ones and the     *)
(* commit of the new ones are one step; calendar rows and tokens commit    *)
(* apart.                                                                  *)

SendDays(p) == IF ~p.open \/ p.due = None THEN {}
               ELSE IF p.due < today THEN {}
               ELSE {p.due - n : n \in p.days}

\* Mutant: only dispatches still waiting count as existing.
ExistingQueued(s) ==
    {dispatch[i].day : i \in {j \in DOMAIN dispatch :
                                 dispatch[j].subject = s /\ dispatch[j].status = "queued"}}

Existing(s) == {dispatch[i].day : i \in {j \in DOMAIN dispatch : dispatch[j].subject = s}}

\* Mutant: only the reminders of the very day, no catch-up.
DueToday(S) ==
    UNION {{[subject |-> s, day |-> d, status |-> "queued", attempts |-> 0] :
                d \in {x \in SendDays(subject[s]) \ Existing(s) : x = today}} : s \in S}

\* The dispatches to create for the subjects in S.
Due(S) ==
    UNION {{[subject |-> s, day |-> d, status |-> "queued", attempts |-> 0] :
                d \in {x \in SendDays(subject[s]) \ Existing(s) : x <= today}} : s \in S}

Orders(S) == {f \in [1..Cardinality(S) -> S] : \A i, j \in DOMAIN f : f[i] = f[j] => i = j}

Schedule(S) ==
    /\ Len(dispatch) + Cardinality(Due(S)) <= MaxDispatches
    /\ \E new \in Orders(Due(S)) : dispatch' = dispatch \o new
    /\ UNCHANGED <<today, subject, job, work, retry, faults, history>>

ScheduleDue ==
    /\ sweep.step = "idle"
    /\ Schedule(Subjects \ Tokens)
    /\ sweep' = [sweep EXCEPT !.step = "tokens"]

ScheduleDsc ==
    /\ sweep.step = "tokens"
    /\ Schedule(Tokens)
    /\ sweep' = [sweep EXCEPT !.step = "select"]

\* Mutant: the sweep enqueues the dispatches of the day only.
SelectToday ==
    /\ sweep.step = "select"
    /\ sweep' = [step |-> "enqueue",
                 todo |-> {i \in DOMAIN dispatch :
                              dispatch[i].status = "queued" /\ dispatch[i].day = today}]
    /\ UNCHANGED <<today, db, job, work, retry, faults, history>>

SelectQueued ==
    /\ sweep.step = "select"
    /\ sweep' = [step |-> "enqueue",
                 todo |-> {i \in DOMAIN dispatch : dispatch[i].status = "queued"}]
    /\ UNCHANGED <<today, db, job, work, retry, faults, history>>

\* _job_id: arq takes no second job of the same id while one waits, runs or has
\* its result kept.
Enqueue(i) ==
    /\ sweep.step = "enqueue" /\ i \in sweep.todo
    /\ sweep' = [sweep EXCEPT !.todo = @ \ {i}]
    /\ job' = IF job[i].state = "none"
              THEN [job EXCEPT ![i] = [state |-> "queued", tries |-> 0]] ELSE job
    /\ UNCHANGED <<today, db, work, retry, faults, history>>

SweepDone ==
    /\ sweep.step = "enqueue" /\ sweep.todo = {}
    /\ sweep' = [sweep EXCEPT !.step = "idle"]
    /\ UNCHANGED <<today, db, job, work, retry, faults, history>>

-----------------------------------------------------------------------------
(* One delivery (send_reminder_job, deliver, _deliver_dsc).                *)

\* arq drops the count of runs with the job.
Stop(i, state) == /\ job' = [job EXCEPT ![i] = [state |-> state, tries |-> 0]]
                  /\ work' = [work EXCEPT ![i] = Idle]
Finish(i) == Stop(i, "kept")

\* arq takes the job, or gives it up when it has run max_tries times.
TakeJob(i) ==
    /\ job[i].state = "queued"
    /\ Cardinality({j \in Ids : job[j].state = "running"}) < MaxJobs
    /\ job' = [job EXCEPT ![i] = IF @.tries < MaxTries
                                 THEN [state |-> "running", tries |-> @.tries + 1]
                                 ELSE [state |-> "kept", tries |-> 0]]
    /\ UNCHANGED <<today, db, sweep, work, retry, faults, history>>

\* The subject is gone before its reminder: resolved row, or token without expiry.
Gone(i) ==
    LET s == dispatch[i].subject
    IN  IF s \in Tokens THEN subject[s].due = None ELSE ~subject[s].open

\* Mutant: a dispatch already sent is delivered again when its job runs.
LoadSent(i) ==
    /\ job[i].state = "running" /\ work[i] = Idle
    /\ IF dispatch[i].status = "dead"
       THEN Finish(i)
       ELSE /\ work' = [work EXCEPT ![i] = [step |-> "send", loaded |-> dispatch[i]]]
            /\ UNCHANGED job
    /\ UNCHANGED <<today, db, sweep, retry, faults, history>>

\* deliver loads the dispatch and the subject, and decides.
Load(i) ==
    /\ job[i].state = "running" /\ work[i] = Idle
    /\ IF dispatch[i].status \in {"sent", "dead"}
       THEN Finish(i)
       ELSE /\ work' = [work EXCEPT ![i] =
                   IF Gone(i) \/ ~subject[dispatch[i].subject].reachable
                   THEN [step |-> "record", loaded |-> dispatch[i], outcome |-> "dead"]
                   ELSE [step |-> "send", loaded |-> dispatch[i]]]
            /\ UNCHANGED job
    /\ UNCHANGED <<today, db, sweep, retry, faults, history>>

\* One mail more: up to 2, and up to 1 once nothing tells a second one apart.
Counted(n, isClean) == IF n = 0 THEN 1 ELSE IF isClean THEN 2 ELSE n

\* send_email: the mail leaves or not, and the call returns or raises; a raise
\* may follow a mail that left.
Send(i) ==
    /\ work[i].step = "send"
    /\ \E left \in BOOLEAN, outcome \in {"ok", "error"} :
           /\ outcome = "ok" => left
           /\ mails' = [mails EXCEPT ![i] = IF left THEN Counted(@, clean[i]) ELSE @]
           /\ clean' = [clean EXCEPT ![i] = @ /\ ~(left /\ outcome = "error")]
           /\ work' = [work EXCEPT ![i] =
                  [step |-> "record", loaded |-> @.loaded, outcome |-> outcome]]
    /\ UNCHANGED <<today, db, sweep, job, retry, faults>>

\* Mutant: one attempt too many.
RecordedLate(row, outcome) ==
    CASE outcome = "dead"  -> [row EXCEPT !.status = "dead"]
      [] outcome = "ok"    -> [row EXCEPT !.status = "sent", !.attempts = @ + 1]
      [] outcome = "error" -> [row EXCEPT !.attempts = @ + 1,
                                          !.status = IF row.attempts + 1 > MAX_ATTEMPTS
                                                     THEN "dead" ELSE "failed"]

\* Mutant: an exception of the provider is swallowed.
RecordedSwallowed(row, outcome) ==
    IF outcome = "dead" THEN [row EXCEPT !.status = "dead"]
    ELSE [row EXCEPT !.status = "sent", !.attempts = @ + 1]

(* The row as the handler leaves it.                                       *)
Recorded(row, outcome) ==
    CASE outcome = "dead"  -> [row EXCEPT !.status = "dead"]
      [] outcome = "ok"    -> [row EXCEPT !.status = "sent", !.attempts = @ + 1]
      [] outcome = "error" -> [row EXCEPT !.attempts = @ + 1,
                                          !.status = IF row.attempts + 1 >= MAX_ATTEMPTS
                                                     THEN "dead" ELSE "failed"]

(* The flush: UPDATE of the columns that differ from the ones loaded.      *)
Merge(stored, loaded, new) ==
    [stored EXCEPT !.status = IF new.status = loaded.status THEN @ ELSE new.status,
                   !.attempts = IF new.attempts = loaded.attempts THEN @ ELSE new.attempts]

\* "retry" raises arq's Retry: the job waits for its backoff.
Record(i) ==
    /\ work[i].step = "record"
    /\ LET new == Recorded(work[i].loaded, work[i].outcome) IN
           /\ dispatch' = [dispatch EXCEPT ![i] = Merge(@, work[i].loaded, new)]
           /\ IF new.status = "failed"
              THEN /\ job' = [job EXCEPT ![i].state = "queued"]
                   /\ work' = [work EXCEPT ![i] = Idle]
              ELSE Finish(i)
    /\ UNCHANGED <<today, subject, sweep, retry, faults, history>>

\* arq forgets the result of a finished job after a while.
Forget(i) ==
    /\ job[i].state \in {"kept", "lost"}
    /\ job' = [job EXCEPT ![i] = NoJob]
    /\ UNCHANGED <<today, db, sweep, work, retry, faults, history>>

\* Mutant: the jobs live in the worker's memory.
CrashLosingJobs ==
    /\ faults < MaxFaults
    /\ faults' = faults + 1
    /\ sweep' = [step |-> "idle", todo |-> {}]
    /\ job' = [i \in Ids |-> NoJob]
    /\ work' = [i \in Ids |-> Idle]
    /\ clean' = [i \in Ids |-> clean[i] /\ work[i].step # "record"]
    /\ UNCHANGED <<today, db, retry, mails>>

\* The worker dies: its transactions roll back, arq runs its jobs again.
Crash ==
    /\ faults < MaxFaults
    /\ faults' = faults + 1
    /\ sweep' = [step |-> "idle", todo |-> {}]
    /\ job' = [i \in Ids |-> IF job[i].state = "running"
                             THEN [job[i] EXCEPT !.state = "queued"] ELSE job[i]]
    /\ work' = [i \in Ids |-> Idle]
    /\ clean' = [i \in Ids |-> clean[i] /\ work[i].step # "record"]
    /\ UNCHANGED <<today, db, retry, mails>>

\* A job of the worker ends in an error of its own (the database at a select or
\* at the commit, arq's job_timeout): its transaction rolls back and arq keeps the
\* failure as the job's result, without another run.  A mail may have left.
JobFails(i) ==
    /\ job[i].state = "running"
    /\ faults < MaxFaults
    /\ faults' = faults + 1
    /\ Stop(i, "lost")
    /\ clean' = [clean EXCEPT ![i] = @ /\ work[i].step # "record"]
    /\ UNCHANGED <<today, db, sweep, retry, mails>>

SweepFails ==
    /\ sweep.step # "idle"
    /\ faults < MaxFaults
    /\ faults' = faults + 1
    /\ sweep' = [step |-> "idle", todo |-> {}]
    /\ UNCHANGED <<today, db, job, work, retry, history>>

-----------------------------------------------------------------------------
(* retry_dispatch: a manager's request reads the row, then commits.  The    *)
(* API takes no lock, so requests for one dispatch may overlap.            *)

Asks(request, i) == request.step # "new" /\ request.id = i

RetryRead(q, i) ==
    /\ retry[q] = NoRequest
    /\ i \in DOMAIN dispatch /\ dispatch[i].status # "sent"
    /\ retry' = [retry EXCEPT ![q] = [step |-> "open", id |-> i, loaded |-> dispatch[i]]]
    /\ UNCHANGED <<today, db, sweep, job, work, faults, history>>

RetryCommit(q) ==
    /\ retry[q].step = "open"
    /\ LET loaded == retry[q].loaded
           new == [loaded EXCEPT !.status = "queued", !.attempts = 0]
       IN  dispatch' = [dispatch EXCEPT ![retry[q].id] = Merge(@, loaded, new)]
    /\ clean' = [clean EXCEPT ![retry[q].id] = FALSE]
    /\ retry' = [retry EXCEPT ![q] = [step |-> "done", id |-> @.id]]
    /\ UNCHANGED <<today, subject, sweep, job, work, faults, mails>>

-----------------------------------------------------------------------------
SweepNext == ScheduleDue \/ ScheduleDsc \/ SelectQueued \/ SweepDone \/ \E i \in Ids : Enqueue(i)
Deliver(i) == Load(i) \/ Send(i) \/ Record(i)

Next ==
    \/ \E s \in Subjects : Edit(s)
    \/ NextDay
    \/ SweepNext
    \/ \E i \in Ids : TakeJob(i) \/ Deliver(i) \/ Forget(i) \/ JobFails(i)
    \/ SweepFails
    \/ Crash
    \/ \E q \in Requests : RetryCommit(q) \/ \E i \in Ids : RetryRead(q, i)

(* The worker runs its sweep again and again and takes what waits in its   *)
(* queue (arq), and Redis drops a result when its time is over.  Nothing   *)
(* makes a user act, a day pass or a worker crash.                         *)
Fairness ==
    /\ WF_vars(SweepNext)
    /\ \A i \in Ids : WF_vars(TakeJob(i)) /\ WF_vars(Deliver(i)) /\ WF_vars(Forget(i))

Spec == Init /\ [][Next]_vars
FairSpec == Spec /\ Fairness

-----------------------------------------------------------------------------
(* Safety.                                                                 *)

\* services/reminders.py: one dispatch per subject and send-day; running the
\* sweep again, after a crash or a changed due date too, never duplicates one.
OneDispatchPerSendDay ==
    \A i, j \in DOMAIN dispatch :
        dispatch[i].subject = dispatch[j].subject /\ dispatch[i].day = dispatch[j].day => i = j

AskedOnce(i) == \A q, r \in Requests : Asks(retry[q], i) /\ Asks(retry[r], i) => q = r

\* M5 acceptance: the attempt budget.  A dispatch that used MAX_ATTEMPTS is over
\* (sent or in the dead letter), also when the one retry a manager asked for
\* crosses its deliveries.  A second request may leave it queued with its budget
\* used up: two that both read a dead dispatch without attempts.
BudgetRespected ==
    \A i \in DOMAIN dispatch : AskedOnce(i) =>
        (dispatch[i].attempts >= MAX_ATTEMPTS => dispatch[i].status \in {"sent", "dead"})

\* PRD section 4.6: silent failure is a defect.  A dispatch recorded as sent was
\* mailed.
SentWasMailed ==
    \A i \in DOMAIN dispatch : dispatch[i].status = "sent" => mails[i] >= 1

\* A reminder goes out once, unless the worker crashed or failed before recording
\* it, the provider's answer was lost, or a manager asked for it again.
MailedOnce == \A i \in Ids : clean[i] => mails[i] <= 1

-----------------------------------------------------------------------------
(* Liveness.                                                               *)

Has(i, status) == i \in DOMAIN dispatch /\ dispatch[i].status = status

\* Catch-up (services/reminders.py): a reminder whose send-day has come gets its
\* dispatch, as long as the row stays open and the due date ahead.
CatchUp ==
    \A s \in Subjects, d \in Days :
        d \in SendDays(subject[s]) /\ d <= today
            ~> d \in Existing(s) \/ d \notin SendDays(subject[s])

\* worker.py: jobs persist, killing the worker loses nothing.  Every queued
\* dispatch is attempted, or closed.
QueuedAttempted ==
    \A i \in Ids : Has(i, "queued") ~> ~Has(i, "queued")

\* A failed dispatch whose job waits or runs (its failure leaves it so) is tried
\* again until it is sent or dead, as long as arq's own limit leaves room for the
\* crashes and the manual retries there are.  Not if the job ends in an error: the
\* sweep selects queued dispatches only, and this one waits for a manager.
FailedRetried ==
    \A i \in Ids : Has(i, "failed") /\ job[i].state \in {"queued", "running"}
                      ~> ~Has(i, "failed") \/ job[i].state = "lost"

=============================================================================
