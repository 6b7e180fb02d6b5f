# Praxis in TLA+

Praxis is a practice-management system for company secretaries: a FastAPI
backend (`src/backend/app`) with async SQLAlchemy on Postgres, Redis, an arq
worker for reminders, and a React client. Production runs two API processes and
one worker (`docs/RUNBOOK.md`). This directory holds TLA+ models of the parts
whose correctness depends on the order of steps or on a subtle function, the
TLC runs that check them, and TLAPS proofs of the main results.

    tlc -config Calendar.cfg MCCalendar.tla        # one run
    tlapm Calendar_proofs.tla                      # the proofs

## 1. The system

| Component | State | Operations | What is hard |
|---|---|---|---|
| Rules dataset (`rules/load.py`, `repositories/rules.py`) | `compliance_rule`, immutable `rule_version`, `rule_extension` | `load_entries`, ops inserting an extension | versions and flags must land together; overlaps with generate |
| Rules engine (`rules/evaluator.py`, `predicates.py`, `dates.py`) | none, pure | `compute_calendar` | three-valued logic, supersession order, month arithmetic |
| Calendar (`services/calendar.py`, `routes/calendar.py`) | `calendar_row`, `company_fy_attributes` | generate, patch, put FY attributes | upsert by rule code, user columns against generated columns, review queue, READ COMMITTED races |
| Reminders (`services/reminders.py`, `services/worker.py`, `routes/reminders.py`) | `reminder_config`, `reminder_dispatch`, arq jobs in Redis | daily sweep, delivery, retry | crashes between commit and enqueue or send and commit, retries, idempotence, two retry budgets |
| Registers (`services/registers.py`, `routes/registers.py`) | append-only `register_entry` | create, amend, soft delete, as-on view | optimistic versions, order of time against order of versions |
| Documents and meetings | `doc_template`, documents on disk | sync, validate, generate, pack | stamps per version, packs |
| Authentication | users, invitations, refresh and TOTP keys in Redis | login, refresh, logout, TOTP, accept | consume-then-store, races on one-shot tokens |
| Companies and imports | `company` rows, soft-deleted ones too | create, edit, delete, restore, import of a spreadsheet | restore against the partial unique index, row locks, all or nothing |
| LLPs | `llp`, `llp_working_paper` | create, edit, delete, upsert of a paper | LLPINs changed by update, finalised papers against stale drafts |
| Masters, practice | plain rows | CRUD | - |
| Request guards, activity log, client, configuration | counters, log rows, a CSRF token | - | fixed rate window, CSRF bootstrap |

How they meet. `load_entries` inserts versions and flags the calendar rows
pinned to older ones. `generate` reads versions, extensions and the company's
facts, calls the evaluator, expands director rules, and upserts rows by rule
code. Users patch the same rows. The sweep reads rows and reminder
configurations, inserts dispatches and enqueues jobs; the worker delivers them
after reading the row again. A generated document reads the template, the
masters and the meeting at different moments. Every request owns one ORM session
and one READ COMMITTED transaction; no handler locks a row to read it, a flush
writes only changed columns and then holds the rows until the commit.

What makes each correct:

* dataset: one growing chain of versions per rule; no row stands on an old
  version outside the review queue;
* engine: no obligation is lost for a fact nobody supplied; a row not flagged is
  settled; what the loop over the rules leaves is what the dataset declares;
* calendar: filed rows have evidence, dates trace to a version, no date changes
  silently, users' columns are users' own;
* reminders: one dispatch per subject and send-day, a sent dispatch was mailed,
  the attempt budget holds, what is due is dispatched and ends;
* registers: one chain per entry, nothing after a deletion, no lost amendment;
* documents: made only from versions that somebody reviewed, each with a file of
  its own, packs whole and naming one list of attendees;
* accounts: one working refresh token per session, an ended session stays ended,
  one user per invitation, login asks only for codes of proved secrets;
* companies: one live row per CIN, imports all or nothing, every request ends;
* LLPs: no LLPIN twice, a finalised paper is never a draft again.

## 2. Modules

| Module | Models | Extends / instantiates |
|---|---|---|
| `CalendarData` | rows, versions, drafts, and the functions the handlers apply: `Drafted`, `NewRow`, `Revise`, `Flagged`, `PatchAllowed`, `Patched` | |
| `Calendar` | the calendar with every request as one step: the abstract specification | `CalendarData` |
| `CalendarSessions` | the same requests as reads followed by a commit, any number of them overlapping | `CalendarData`; `Atomic == INSTANCE Calendar` |
| `Dates`, `Predicates`, `Evaluator` | date arithmetic, three-valued predicates, `compute_calendar` and the director rows | |
| `Reminders` | sweep, queue, delivery, retry | |
| `Register` | what a register promises: a chain of versions per entry | |
| `Registers` | the register's overlapping transactions | `Promised == INSTANCE Register` |
| `Documents` | template registry, validation stamp, documents and meeting packs | |
| `Accounts` | registration, invitations, login, refresh, logout, TOTP over Redis and cookies | |
| `Transactions` | requests in progress, one transaction each | |
| `Companies` | entry, edit, soft delete, restore and import over row locks and the partial index | `Transactions` |
| `Papers` | the LLP master and the working papers | `Transactions` |
| `X_proofs` for `X` = `Calendar`, `CalendarSessions`, `Evaluator`, `Registers`, `Reminders`, `Documents`, `Accounts` | TLAPS proofs | `X` |
| `Masters_proofs` | TLAPS proofs | `Companies`, `Papers` |
| `MC*` | constants for TLC | |

### Calendar and CalendarSessions

One company and one financial year. A *slot* is the key of the upsert in
`generate`: (rule code, subject, occurrence). `versions[r]` is the sequence of a
rule's versions; a version has a payload and whether `effective_from` has come by
the end of the year. `rows[s]` is the row of a slot with the columns the handlers
read or write: pinned version, computed date, extension, review flag and reason,
and the users' columns status, srn, ack, assignee, override date and reason.
Remarks, audit entries and names are left out. `seen` is a history variable: how
many versions the rule had when the row was last acknowledged.

The evaluator appears as two constant functions: `Evaluate`, what the rule of a
slot drafts from its own payload and the company's facts, and `Supersede`, what
the other rules in force do to that draft. So whatever is checked or proved
about the calendar holds for every rule language; the evaluator itself is the
module `Evaluator`. Extensions keep the two quirks of the code: the last
applicable one wins in an unordered list (`Resolutions` is the set of outcomes
over all orders), and its id is looked up by `circular_ref` alone. One circular may
extend several rules (`docs/RULES_AUTHORING.md`, section 4), each by a row of
`rule_extension`, so the row found may be another rule's.

`CalendarSessions` splits generate into the read of the rules, the read of the
rows and the commit; patch into read and commit; load into the read of the
versions, the read of the rows and the commit. `Merge` is the column-wise flush:
a column is written when its new value differs from the value *loaded*. A slot
now holds a sequence of rows, because nothing but the upsert keeps it to one.
`UniqueHolds` is the UNIQUE constraint, which does not bite on a NULL subject.
The read of the rules, the extensions and the facts is one step, and so is the
flush with the commit (other sessions see nothing in between); multi-flush
lock orders are not modelled, an aborted request is `Fail`.

### Evaluator

The rule language as records: predicates (`always`, `all`, `any`, `not`,
`attr`), anchors with ordered fallback, day, month and fixed offsets, variants,
occurrences, supersession, subject and phase (`RuleData`). `Evaluation` is a
recursive function over the predicates in use, which are trees (`PredsFounded`). The state is what is known of
the company, and a step is one fact that comes in: so "UNKNOWN" is compared with
every way it can be resolved. Offsets in days are not negative (the dataset has
none that is), anchors and predicates are those on which `dates.py` and
`predicates.py` do not raise (`RulesTyped`, `PredsClosed`). A fact is an attribute,
the AGM date, or what `update_director` adds to a director (`LearnDin`): the DIN,
with or without its allocation date, or that date alone. Corrections of a fact that
is known already are not modelled: the properties are about missing ones. The dataset is also
assumed free of chains of supersession (`NoChains`): with a chain A over B over
C, whether C keeps its row depends on the alphabetical order of the codes.

### Reminders

A subject is a calendar row with its configuration, or a DSC token with its
firm's policy; what users can do to it is the set `Profiles` (open or resolved,
due date, days before, recipients). `job` is arq's view of a dispatch: none,
queued, running, or kept (a result that still refuses a job with the same id);
lost is a kept result of a job that ended in an error. A delivery loads, sends and
records; a send may have left although the call raised. `Crash` rolls back what is
open and lets arq run the jobs again. `JobFails` is every other error of a delivery
(the database at a select or at the commit, `job_timeout`): only `Retry` makes arq
run a job again, so this one is over; `SweepFails` is the same of the sweep, whose
next run is the cron's. A manager's retry is a request of its own, any number of
which may be between their read and their commit at a time, and cross deliveries.
`mails` and `clean` are history variables.

### Registers

A request gets its `created_at` when its transaction begins, reads the head,
inserts version head + 1, and may fail at any point; UNIQUE (entry, version) is
the guard of `Insert`. `ShownAsOn` is `entries_as_on`: the last row by time, per
entry. `History` is `history`, the rows by version: it maps the table to the
chains of `Register`. Two transactions never begin at the same instant.

### Documents

`manifest` is what the deployed `manifest.json` says, and with it the version of the
template files beside it; `Deploy` is a release, which replaces both. A file's name is
the same for every version, so `Render` takes the content that is on the disk and the
version that the row of the registry named when it was selected.
`SyncRead` and `SyncCommit` are `sync_templates`: the commit resets the stamp of a
row whose version changed, but a stamp that was NULL when the sync loaded the row
is not written again, so one set in between survives (`Synced`). `ValidateCommit`
stamps whatever version the row has by then. A generation takes one template
after the other: `SelectTemplate` is `select_template` with its 409, `Render` the
context, the file on the disk and the row of the open transaction, and
`GenerateCommit` publishes all rows at once. A pack computes its attendees once,
from its meeting; a single document takes the active directors of the moment.
`Fail` is every way out without a commit; the files stay. What a template renders
is abstracted to (code, version, content, attendees). `reviewed` and `carried` are history
variables: the (code, version) pairs that were read and stamped, and those that
received a stamp meant for another version.

### Accounts

A handler is a chain of single effects on the database, on Redis and on the
cookie jar, and may die between any two (`Fail`). `refresh` is `RefreshConsume`
(GETDEL of the jti), `StoreToken` and `Answer`; a register, an acceptance and a
login join that chain at `StoreToken`. `token` is every refresh token ever made with
its user and session, `live` the jtis Redis still holds. `totp_enable` pops the
pending secret, and then enables it or, on a wrong code, puts it back. The e-mail
is looked for in every firm while the constraint is UNIQUE (firm, email), which is
why `Login` needs exactly one user of the e-mail. A user who registered is a partner,
and one who was invited is what the invitation says (`IsPartner`, which decides who
gets through without a second factor and who invites). Passwords, hashes, roles below
partner, and access tokens, which nothing stores, are abstracted.

### Companies

`company[c]` is the sequence of all rows of a CIN, deleted ones included; a
request alternates reads of committed rows and flushes of one write each. `Holds`
and `Waits` are the row and index locks that a flush takes and others wait for;
`IndexAllows` is the partial index; `Deadlocked` is the detection of a cycle of
waits. `ByCin` has no value when a CIN has more than one row, because
`get_by_cin` uses `scalar_one_or_none`. A spreadsheet is the list of rows that
`parse_and_validate` returns; files with a row in error never reach the database.

### Papers

Every request has one write, made from the row it loaded and applied at its
commit. `Merged` is the column-wise UPDATE of a working paper; `PinFree` is
`uq_llp_firm_llpin`, on which `update_llp` relies alone. Partners are plain rows
and left out.

## 3. Runs

| Run | Question | Instance | Distinct states |
|---|---|---|---|
| `Calendar` | does the calendar keep its promises with one request at a time? | 1 slot, 2 rules, 2 versions per rule, 2 payloads, 2 states of the company, 3 extensions of which 2 of different rules share a circular, 5 patches | 251 000 |
| `SessionsSerial` | do the sessions implement `Calendar` when they do not overlap? | 1 rule, 1 request at a time | 18 000 |
| `SessionsOverlap` | what survives two overlapping requests? | 1 rule, 2 requests, 2 versions | 115 000 |
| `SessionsFiled` | does filed evidence survive them? *violated* | 2 overlapping requests | - |
| `RemindersFaults` | safety with a moving date, a crash or a failed job, lost answers, overlapping retries | 2 rows, 2 days, 2 attempts, 3 job tries, 1 fault, 2 retry requests | 3 800 000 |
| `RemindersLive` | does everything due end? | 1 token, 2 days, 4 attempts, 10 job tries, 2 faults, 1 retry request | 185 000 |
| `Registers` | chains, deletions and the as-on view with three overlapping requests | 2 entries, 2 payloads, 4 transactions | 8 600 |
| `Evaluator` | is nothing lost, and what is unflagged settled? | 4 datasets with all features, 4 attributes, 3 AGM dates, 1 director with or without a DIN | 5 200 |
| `Documents` | are documents made of reviewed versions, and packs whole? | a board meeting whose pack is a notice (2 versions) and minutes, 1 director, 2 requests, 2 files | 893 000 |
| `Accounts` | do rotation, logout, invitations and TOTP survive two overlapping requests? | 1 browser, 2 e-mails, 3 users, 1 invitation, 3 tokens and secrets | 2 940 000 |
| `Companies` | one live row per CIN, whole imports, no request that waits for ever? | 2 CINs of which 1 is typed, 2 names, 2 files in opposite orders, 2 requests | 83 000 |
| `Papers` | do LLPINs and finalised papers survive three overlapping requests? | 2 LLPs, 2 LLPINs, 1 form, 1 payload, 1 SRN | 447 000 |

Why these bounds. Every race of the sessions is between one read and one commit
of two requests, so two requests suffice, and two versions give a stale one. Two
rules are needed for an extension or a supersession to cross from one rule to
another, and three extensions for a circular that two rules share beside one of its
own. Two payloads whose dates never coincide let `DateTraces` tell versions
apart. In `RemindersFaults` the due date moves between the two days, so each of
the two send-days gets its dispatch, the second row is a dispatch that dies without an
attempt, and one crash or failed job, lost answers and two retry requests can fall at
any step and overlap; two attempts are the fewest with a failed one that
is not dead. `RemindersLive` has the code's own limits, because its result
depends on them: `FailedRetried` needs
`MaxTries >= (MAX_ATTEMPTS - 1) * Cardinality(Requests) + MAX_ATTEMPTS + MaxFaults`,
9 here, and fails with 8. In `Documents` one template that changes and one that does
not, and two files for the two documents of a pack, are the fewest with a stamp
that can go stale and a pack that can fail in its middle. In `Accounts` three
tokens are a login, its refresh and one more of either; the bound `MaxMade` on
tokens and secrets together keeps the product finite. In `Companies` two files in
opposite orders make the deadlock; a CIN that nobody types is what `WholeFiles`
speaks of. In `Papers` a third request writes between the read and the write of a
second, while the first is open.

`Registers` alone of the passing runs has `CHECK_DEADLOCK FALSE`: its behaviours
end with the bound on transactions.

Symmetry is used for interchangeable requests and entries, in runs of safety
properties only (of invariants, and of action properties, which speak of one
step).

Fairness is stated in two modules. `Reminders!Fairness`: the cron sweep and its
loop go on, arq takes queued jobs, a running job finishes (in success or, a bounded
number of times, in an error), and Redis expires a kept result; all weak, each stays
possible until it happens. `Companies!Fairness`:
the event loop runs every request on, and Postgres queues the transactions that
wait for a lock and ends one of those that wait in a cycle; strong, because a lock
may be free and taken again while a request waits for it. Nothing makes users act,
days pass, or workers and their jobs fail.

## 4. What the violated run shows, and what the models show besides

* `SessionsFiled`: `patch_row` checks the merged row as it was loaded. A patch
  that files with the row's SRN and one that clears the SRN can overlap, and
  leave a filed row without evidence.

Seen while modelling, and no run:

* calendar: an explicit `null` clears the reason of an override, since the
  condition of `routes/calendar.py:128` looks at the date only
  (`docs/milestones/M4.md:30` asks for a reason);
* calendar: `generate` leaves the loop before the extension when it has revised
  the date (`services/calendar.py:178`, against `M4.md:33-34`), so a row shows the
  extension of its last draft that changed nothing;
* calendar: two generates that overlap may both insert a row of a company slot,
  because UNIQUE does not bite on a NULL subject (`OneRowPerSlot` does not hold
  with `Overlap = TRUE`);
* registers: a deletion that began before an amendment and reads its version has
  the earlier `created_at`, so the as-on view shows the deleted entry
  (`services/registers.py:248`); hence `AmendsShown` speaks of entries not deleted;
* calendar: `extension_ids` knows circulars, not rules (`services/calendar.py:104`).
  With one circular for two rules a row of the one can get the extension of the other,
  and with it the other's revised date where the listing shows it; the circular is right,
  and that is what `CircularOfRule` says. `MCCalendar` has such a circular;
* calendar: a director without a DIN has no rows, and nothing in the review queue says
  so (`services/calendar.py:222`, documented in `docs/milestones/M4.md:25`): when the DIN
  is supplied, duties appear that nobody was shown, perhaps overdue. `NothingLost` states
  this as its one exception;
* reminders: the budget of a dispatch (`MAX_ATTEMPTS`) is reset by a manual retry
  (`docs/milestones/M5.md:12`, `routes/reminders.py:156`), but nothing locks the row
  between the read and the commit. Two requests read a dispatch that died without an
  attempt; one is committed, and deliveries fail until the budget is used up; then the
  other is committed, which writes the status and not the count, because it loaded the
  count 0 that it sets: the row is queued with its budget used up. `BudgetRespected` therefore speaks of dispatches that one request asks for;
  without `AskedOnce` TLC finds this in `RemindersFaults`;
* reminders: a delivery that ends in an error other than the mail's (the database, or
  `job_timeout`) is not run again by arq, and the sweep selects queued dispatches only
  (`services/worker.py:38-44`, `:63`). A dispatch that was `failed` by then stays so until
  a manager retries it. `FailedRetried` names this as its only way out;
* documents: between a release and its sync, or between the check of the stamp and the
  rendering, the file on the disk is newer than the version that was checked
  (`services/documents.py:211`), so a document is made from text that nobody stamped, under
  the old version's number; `PRD_v2.md:124` has the stamp "enforced, not advisory".
  `VersionReviewed` says that this and the next are the only ways round it;
* documents: a validation that commits after a sync, or in between its read and
  its commit, stamps a version nobody read. `carried` holds exactly these;
* accounts: two overlapping registrations of one e-mail both commit, in two
  firms, and login then raises for both users;
* accounts: a logout that overlaps a refresh of the session revokes the token it
  was sent; the token that the refresh makes afterwards works;
* companies: two creations of a CIN with a deletion in between leave a deleted
  and a live row; `get_by_cin` (`repositories/companies.py:45`) then raises for
  every later entry or import of the CIN;
* LLPs: payload and SRN of a finalised paper are overwritten by a request that
  loaded the draft (`docs/milestones/M13-llp.md:22` calls the paper read-only);
  the status is not, and `FinalisedStays` says so.

## 5. Proofs

`Calendar_proofs` proves, for every dataset, evaluator, number of slots, set of
patches and bound on versions:

* `TypeCorrect`: `Spec => []TypeOK`;
* `FiledEvidence`, from `TypeOK` alone: every writer of `status`, `srn` or `ack`
  is a patch that was allowed on the row before it;
* `Traceability`: `DateTraces`. Inductive with `TypeOK`: a generate that
  re-dates also re-pins, one that only re-pins keeps a date equal to the
  draft's, and versions only grow;
* `StaleRowsQueued`: `StaleRowFlagged`. Inductive with `TypeOK`, because it
  mentions the history variable `seen`: a load flags every row it makes stale, a
  generate pins the version in force, and a patch that lowers the flag has
  loaded that version;
* `DatesNeverSilent`: the action property `NeverSilent`;
* `OwnCirculars`: `CircularOfRule`, for every set of extensions, circulars shared by
  rules included: whatever `extension_ids` returns has the reference of an extension of
  the row's own rule that is `Applicable`.

They rest on the assumptions on the constants in `CalendarData` and `Calendar`
(types, and that NULL is not a value of a column).

`CalendarSessions_proofs` proves, for any number of overlapping requests,
`TypeCorrect`, `UsersKeepTheirColumns` and `SilentOnlyWhenQueued`. A flush writes
what its request changed of the row it loaded, so the two action properties are
arguments about one `Merge`, and the invariant only says that rows and loaded rows
are rows.

Under the hypothesis `~Overlap` (requests one at a time, the constant of the run
`SessionsSerial`, with any number of requests that fail or die) it proves
`OneRowAlone` (`OneRowPerSlot`), `SerialRefines` (`Serial`: every commit is a
handler of `Calendar`, everything else a stutter), `FiledEvidenceAlone`
(`FiledHasEvidence`, which overlapping requests break) and `GuaranteesAlone`: the
theorems of `Calendar_proofs` on dates, stale rows and silent changes hold of the
rows of this module too, through the refinement. `OneRowPerSlot` is not inductive,
nor is the refinement: `Alone` says that one request at most is in progress, and
`Fresh` that what it has read (the drafts, the rows, the row to patch, the versions
a load starts from) is still what the database holds, so that its commit is the
handler of `Calendar` on the state it commits to.

`Registers_proofs` proves, for every set of entries, payloads and overlapping
requests and every bound on transactions, the four invariants of the run
`Registers` (`TypeCorrect`, `ChainUnbroken`, `NoVersionAfterDeletion`,
`LatestShown`) and the refinement (`Implements`: `Spec => Linear`). None of the
invariants is inductive: each depends on what a request learned before others
committed. `IInv` adds

* `Fits`: a row about to be inserted begins its entry or follows a row that is
  not a deletion; an amendment is younger than every version up to the one it
  names. It survives the commits of others because `FreeIsAbove` shows that a row
  the UNIQUE constraint accepts is above every row of its entry;
* `TimesGrow`: versions that are not deletions grow with their times. It fails
  for deletions, which name no version (section 4);
* `Past` and `Headed`: no row from the future, and every entry has a head.

For the refinement, an insertion appends to the history of its entry
(`ChainGrows`) and is a `Create`, an `Amend` or a `Delete` of `Register`; every
other step stutters. The only assumption is `MaxTime \in Nat`.

`Reminders_proofs` proves `TypeCorrect`, `OneDispatch`, `SentMeansMailed`,
`OneMail` and `Budget`, for every set of subjects, any profiles of finitely many send-days and
any number of faults and of retry requests, all of which may overlap. `MailedOnce` is
not inductive: `Remembered` says, for a dispatch that met no fault, lost answer or retry,
where its one mail is remembered until the row says sent: nowhere yet, in the outcome
that the delivery in progress holds, or in the row. `Opened` and `RowsExist` tie
deliveries, jobs and requests to rows that were open when they were loaded. For `Budget`
(`BudgetRespected`), `BInv` says of a dispatch that one request asks for at most what its
row tells of that request: one that is queued with attempts, or queued again behind a
delivery that loaded it as failed, has seen its commit (`Crosses`, `InHand`); and a dead
dispatch stays as the request read it, since nobody else moves it (`InRequest`). So the
commit of the request finds the attempts it loaded, or leaves a row that is not yet at
its budget. Requests for other dispatches do not matter (`SameRequests`).

`Documents_proofs` proves `TypeCorrect`, `OnlyReviewedVersions`,
`EveryRowHasItsFile` and `PacksWhole`. `KnownAll` extends `VersionReviewed` to the
template rows that requests have loaded and the documents they hold (`Backed`), and
`Released` says that the registry is never ahead of the release, so that the file on the
disk is the stamped version's or newer; `OwnFiles` extends `OwnFile` to the rows
that are made and not committed, of every request. `PacksWhole` (the action property
`PackWhole`) rests on what a request has in hand: the rows it made and the templates
left to do are together one pack, each template once, with the attendees it loaded
first (`AssembledAll`), and nobody else holds its rows (`Apart`).

`Accounts_proofs` proves `TypeCorrect` and the four properties of the run
`Accounts`. `Known` says that tokens, requests and cookies name tokens and users
that exist; for the sessions every step is one of four changes of a session's
working tokens and rotations (`SessionStep`), and a session with neither stays so
(`EndedForEver`). `Invited` says that a user of an invitation has its firm and its
e-mail: the uniqueness of e-mails in the firm makes a second acceptance fail.

`Masters_proofs` proves, of `Companies`, `TypeCorrect`, `UniqueLiveCin` and
`ImportsWhole`. The index is checked when a write is flushed, but the write is seen
at the commit: `Allowed` says that what the index allowed then it still allows, which
rests on `OneHolder`, the lock. For the imports, `Traced` says that a request has a CIN
that nobody types in hand because it is in the table, or because of a file whose other
CINs are in hand too, and `UpdatesRows` that an update finds its row. Of `Papers` it
proves `LlpTypeCorrect`, `UniqueLlpin` and `FinalisedForEver`; the last rests on: a
request that loaded a draft to leave it a draft does not write the status.

`Evaluator_proofs` proves the four properties of the run `Evaluator` for every
dataset, company, year and order in which facts come in: `TypeCorrect`, `Declares`
(`SupersessionAsDeclared`), `ObligationsKept` (`NothingLost`) and `SettledRowsStay`
(`SettledStays`). The state machine is simple (`IInv`: the facts have their types and
`drafts` is what they make), the work is in the functions, which recur. The library's
`NatLessThanWellFounded` and `WFMin` give induction for sets of numbers (`Least`,
`Induction`), and with it

* `EvaluationDefined`: `evaluate` has a value on every predicate, by induction on its
  depth; `AnswersSettle`: a new fact never changes an answer that was TRUE or FALSE
  (Kleene's operators are monotone), by the same induction;
* `AddDaysDate`: some month contains the day that a number of days leads to, so
  with `AddMonthsDate` every due date is a date of the calendar, leap years included;
* `Supersession`: after n rules the loop has left `After`, a set that mentions which
  of them apply and not their order. `NoChains` is needed in `SupersessionStep`: a rule
  that supersedes still has rows when its turn comes;
* `ExtensionsKeep` and `ExtensionsSettle`: extensions change columns of rows and never
  which rows there are.

`ObligationsKept` excepts what `NothingLost` excepts, the director whose DIN the fact
supplies. `CalendarShape` (what the whole calendar of a company holds) and `CalendarSettles`
(which of it is final) combine these, and the rows of the directors come last
(`Expanded`, `SubjectsShrink`).

`TypeOK` is a theorem of each of these modules (`TypeCorrect`); the runs of
`Reminders`, `Documents`, `Accounts`, `Companies` and `Papers` leave it to the
theorem.

The proofs of these modules use the named assumptions of their modules only, all of
which TLC evaluates in the runs.

Only model-checked: the liveness properties `CatchUp`, `QueuedAttempted`,
`FailedRetried` and `RequestsEnd`, because the provers used here have no rules for
fairness; and the counterexample of the run `SessionsFiled`. Every other property of a
run is a theorem.

## 6. Not modelled, and the plan

What could come next, in order of importance:

1. the composition of `Calendar` and `Reminders` (a row filed between the check
   and the send), and of `Evaluator` with `Calendar` (its drafts as `Evaluate` and
   `Supersede`);
2. the imports of directors and shareholders, which share the locks of `Companies`;
3. a row's extension and its date in the listing, for circulars that several rules
   share; the two keys of the firm settings, the client's CSRF
   bootstrap, the LLP partners: one counter, one column or one row each.

Left out for good: rendering, exports, listings, the activity log (one insert in
the transaction of the change), e-mail formatting, encryption, migrations,
configuration, the rate limiter (one counter per client, path and window, on which
nothing else depends).
