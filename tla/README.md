# Verification of the third-party security review application

The application takes a vendor's security questionnaire, maps its rows to
questions, has an AI provider review every answer in the background, and lets
people sign the drafts off until the assessment can be closed; a closed or open
assessment is exported, and comes back with revised answers. It is one Go program
over one Postgres database; several instances may share the database.

The modules here model the parts of it where order, failure or heuristics decide
what is stored: the job queue and its workers, the life of one assessment, the
summary, the accounts, the calls to the provider, and the way of a questionnaire
from a file to questions and back.

## The system

| Part | State | Operations | Interacts with | What is hard |
|---|---|---|---|---|
| Review queue (`repository/review_job.go`, `service/review/worker.go`) | `review_jobs`, `review_job_questions`; goroutines with a heartbeat each | Enqueue, ClaimNext, Heartbeat, UpdateProgress, Finish, ReclaimStalled, start and shutdown | assessments (status), questions, provider | several processes, crashes, heartbeats that fail, lost replies, two-statement Finish |
| Review run (`service/review/service.go`) | job's counters, question drafts, `review_results` | Run, persistChunk, reviewChunk, buildSummary | queue, questions, provider, summary | runs for minutes on what it read at the start |
| Assessment and sign-off (`service/assessment/*.go`, `repository/question.go`) | `assessments.status`, `current_run_id`, stored upload, question rows | Upload, ConfirmMapping, Finalize, Reopen, BulkFinalize, Close, Reopen assessment, ApplyAnswerRevisions | review runs | every guard reads a status and writes in a later statement |
| Summary (`service/review/aggregate.go`, `repository/assessment_summary.go`) | `assessment_summaries` | Aggregate, buildSummary, RecomputeSummary | runs and every sign-off | a slow provider call between read and upsert; several writers |
| Accounts (`service/auth`, `middleware/session.go`) | users, sessions, recovery codes, cookies | sign-in, second factor, enrolment, edits, deactivation, first run | every handler | whole-row updates, single-use codes, no transactions |
| Provider clients (`service/aiclient`, `helper/jsonx.go`) | none | complete, retries, JSON search and repair, decoding | runs | what is retried, replies in any shape and cut anywhere |
| Parser (`service/parser`) | none | ReadGrid, DetectHeaderRow, AutoMap, DetectSections, Apply | mapping page | heuristics whose results a person confirms |
| Export and revision matching (`service/assessment/export.go`, `revise.go`) | answers | ExportCSV, ExportXLSX, PreviewAnswerRevisions, ApplyAnswerRevisions | parser, sign-off | a workbook is matched back by text alone |
| Risk scale and settings (`helper/risk.go`, `service/settings`) | settings row, matrix in memory | Band, BandFromFloat, UpdateRiskMatrix | every page | rounding; a copy in memory |
| Dashboard, vendors, domains, rubrics, configuration, TOTP | rows written in one statement, or none | | | |

What makes each part correct: a job is run by one worker at a time, ends, and is
final; an assessment does not stay in `reviewing`; a person's signature is undone
by a person only, and applies to the answer that is stored; AI text and signed
text stay apart; a closed assessment is fully signed; the summary shows figures of
the latest results; a recovery code works once; a deactivated account is out;
every question is reviewed or counted as failed, and what the provider said of it
is what is stored; what a person confirmed on a page is what is stored; what is
exported can be read back and does not pass a draft off as signed.

`PROJECT.json` lists every part with its status, and under `hazards` the places
in the code where these properties could fail.

## Modules

| Module | Extends | Role |
|---|---|---|
| `JobLedger` | | What the queue promises: a job is submitted, taken by a worker that holds its lease, settled by that worker, or given back only when nobody holds it; a settled job is final. |
| `ReviewQueue` | | The queue as coded: processes, goroutines, heartbeats, the clock, the reclaimer, the enqueue requests. |
| `ReviewQueueProofs` | `ReviewQueue` | Theorems about it. |
| `SignOff` | | One assessment: status, question rows, handlers, review runs. |
| `SignOffProofs` | `SignOff` | Theorems about it. |
| `Accounts` | | Users, sessions, recovery codes, and the cookies of a few browsers. |
| `AccountsProofs` | `Accounts` | Theorems about it. |
| `Orders` | | Sorting a set and selecting from a list, as operators. |
| `OrdersProofs` | `Orders` | Lemmas about orders, sublists, concatenations, and folds step by step. |
| `Aggregate` | `Orders` | The risk scale, its bands, the aggregation and the worst findings, as operators. |
| `ReviewBatches` | `Aggregate` | Domain groups, chunks, peers, follow-up calls, as operators. |
| `AggregateProofs` | `ReviewBatches`, `OrdersProofs` | Lemmas about chunks, peers, sums, the blend, the counts, the findings and the bands. |
| `Summary` | `ReviewBatches` | The summary row, its writers, and the tables they aggregate. |
| `SummaryProofs` | `Summary` | Theorems about it. |
| `Payload` | `ReviewBatches` | A reply as a sequence of tokens: finding, repairing and decoding its JSON. |
| `ProviderCalls` | `Payload` | One review run call by call, with retries, failures and the job's deadline. |
| `ProviderCallsProofs` | `ProviderCalls`, `AggregateProofs` | Theorems about it. |
| `Sheets` | `Orders` | Spreadsheet to grid, header, columns, sections and questions, as operators. |
| `Exports` | `Sheets` | Both exports, and the matching of returned rows, as operators. |
| `Intake` | `Exports` | The mapping page, sign-off, export, return and next round of one questionnaire. |
| `IntakeProofs` | `Intake`, `OrdersProofs` | Theorems about it. |
| `MCReviewQueue`, `MCSignOff`, `MCAccounts`, `MCSummary`, `MCProvider`, `MCIntake` | | Instances for TLC. |

A mutated operator, used to see that a property would notice, stands next to the
one it mutates.

The state machines overlap where the code does, each keeping what its properties
need. Enqueue and Run appear by job in `ReviewQueue` (every fault, time, no
questions), by question row in `SignOff` (no crashes, no time), by result in
`Summary` (overlapping runs, crashes and re-runs), by provider call in `ProviderCalls` (one run
alone). Mapping appears as a change of question ids in `SignOff` and `Summary`,
and with its pages and files in `Intake`.

### ReviewQueue and the code

One action is one SQL statement, because neither Enqueue, Run nor Finish spans a
transaction. `ReadStatus`, `CheckActive`, `Create`, `SaveQuestionScope` are
Enqueue; `AbortEnqueue` is any of its statements failing or its validation
refusing. `ClaimNext` ... `ResetAssessment` are `claimAndRun`, `Run` and
`Service.Finish` in order; `pc` says which statement is next, and its states are
grouped as `Running` (Run has not returned) and `Recording` (the outcome is not
written). `MarkReviewing` and `MarkReviewed` write whatever the status is, as
`SetStatus` does; `FinishJob` and `UpdateProgress` write by job id whatever the
row's status is, as the SQL does.

Time is counted in ticks. `age[j]` is `now() - heartbeat_at`; `timer[w]` is a
worker's wait since its last heartbeat attempt, or since it began to record the
outcome. A tick never passes a due heartbeat or an expired outcome context: a
goroutine that is alive attempts its heartbeat, which may fail `MaxMisses` times
in a row, and the 15-second outcome context ends `FinishWithin` after it opened.
After shutdown or the job timeout the heartbeats stop: the model assumes that Run
notices its cancelled context within one heartbeat interval, and a process that
has not stopped by the end of the grace period is `Kill`ed.

`Kill`, `Shutdown`, `ClaimLost` (the claim commits, the reply is lost) and
`FinishLost` (a statement of Finish fails, which is logged and dropped) are the
faults, at most `MaxFaults` of them. `Start` reclaims what is stalled before its
goroutines run, as `Worker.Start` does.

### SignOff and the code

A handler is two or three actions: the check (`CheckOpen`, `CloseCheck`,
`ReviseCheck`, `ConfirmCheck`, `EnqueueCheck`, ...), what it reads next
(`BulkList`, `CountUnfinalized`, `ReviseList`, `GetUpload`), and the statement or
transaction that writes. What was read is kept in the request's record, as it is
in the handler's locals. Postgres runs at READ COMMITTED and the code locks no
row, so other requests and runs act in between. A write to questions of a mapping
that was replaced finds no row and fails.

A text is abstracted to the answer it is about: a draft is the answer the
provider was shown, a signed text is a draft or the reviewer's own words. A chunk
comes back with results for any subset of its questions and drafts for any subset
of those; `ProviderCalls` has how that comes about.

Every action of the run may also be its last (`RunFails`), and every request may
stop after any statement (`Abort`).

### Accounts and the code

A browser makes one request at a time. Each begins in the Auth middleware
(`AuthSession`, `AuthUser`), which looks at the cookie alone, so what is asked for is
chosen at its end (`RequireAuth`). Then it goes on statement by statement: `at` names
the next one, `row` is the copy of the user that a handler read and will write back
whole (`UpdateRow`), `jar` is what the response will do to the cookie. `Edit` tells,
for every form, whether the copy allows it, what becomes of it, and what follows the
update: `EraseCodes` and `InsertCodes` are the two statements of `Replace`,
`EndSessions` is `DeleteByUser`. `Consume` is one DELETE that reports whether it
found the row, which is what makes a code single-use. `Abort` ends a request between
any two statements; sessions expire and are purged at any time.

Six variables are ghosts: `half` (sessions opened by a password alone), `gap`
(sessions whose sign-in had read the row before a deactivation ended), `ended`
(accounts a deactivation has run to its end for), `uses` and `issued` (of codes),
`untidy` (accounts with an edit that was cut short or overtaken). `stale` marks a
request overtaken by another writer. They let properties say "unless two requests
raced" exactly.

### Aggregate, ReviewBatches, Summary and the code

Aggregates are integers in hundredths; `Hundredths` rounds half up as
`math.Round` does for positive numbers. Where a fraction is exactly half a
hundredth, the code's float64 may lie on either side of it; the bounds of the
runs stay clear of that.

In `Summary`, `RecomputeSummary` is four statements after the request's own
write (`Change`): `ReadQuestions`, `ReadResults`, `ReadExisting` and the upsert;
a failure is logged by the handler and dropped (`GiveUp`). `buildSummary` is
`RunReadsQuestions`, `RunReadsResults` and, after the provider's answer,
`BuildSummary`. `raced` and `neglected` are ghosts that record what the code
cannot repair: the last writer was overtaken, or a change was not followed by
any recomputation. A crashed run is queued again under its own id, so
`BulkCreate`'s ON CONFLICT clause is met.

Nothing keeps two jobs of one assessment from being queued (see below) and claimed
by two workers, so the runs of `Summary` overlap in any way: their chunks alternate,
and each may write its figures and its narrative over the other's. Only one *job* is
run by one worker at a time, which is `ExclusiveRun`. `LatestByAssessment` orders by
`created_at`, which Postgres sets to the time the transaction began; `results` keeps
the rows of a question in that order, and `Places` lets a transaction that commits
late stand behind the rows of runs that stored theirs in the meantime (`met`).

### Payload, ProviderCalls and the code

A text is a sequence of tokens: brackets, commas, quotes, backslashes, keys with
their colon, and words. `ExtractJSON`, `FencedBlock`, `ScanJSON`, `Walk` and
`RepairTruncated` are the functions of `jsonx.go` over them; `Parse` is
encoding/json, which ignores unknown keys and rejects what does not close.
`ParseBatch` and `ParseSingle` are the decoders, with the fallbacks from the
object to the bare array and from the single shape to the batch shape.

`ProviderCalls` sends one request per action: it fails (`Fail`, in one of five
ways) or is answered (`SayBatch`, `SaySingle`). `call` carries the attempt, the
round (a batch reply that cannot be read is asked for once more) and whether JSON
mode is still on. `EndChunk` is `persistChunk`. The job's context may end at any
time (`Expire`): a call under way then fails, none is retried, and the chunk is
dropped. The replies say of every question one of `Says`, in the shapes models
use, fenced, behind a thought, behind a citation, cut after any token. `heard`,
`vague` and `unlucky` are ghosts: what was legibly and completely said, of which
questions a reply was cut or of the wrong shape, and whether anything went wrong
besides a refused JSON mode.

### Sheets, Exports, Intake and the code

Texts are model values; how much one resembles a field name, a domain or another
text is a table given by the instance, in percent, where the code computes edit
distances and shared words. Everything the code does with these numbers is
modelled: thresholds, the order of greedy choices, ties. `SameText` is the full
score, which `fuzzy.Ratio` gives only to texts that are equal but for letter case
and the space around them. Rows and columns count from 1.

`Intake` keeps what the browser shows (`page`, `returned`) apart from what is
stored. `MappingPage` opens the page, `RepreviewMapping` swaps the preview and
leaves the button (`synced` says the preview belongs to the dropdowns),
`ConfirmMapping` parses the file again with the submitted columns and domain
overrides. `sent` holds the rows of the last workbook; `UploadAnswerRevisions`
reads it back after the vendor's `Edits` (answers, a reworded question, rows
moved or removed), and `ApplyAnswerRevisions` writes the checked rows by id.
`OnlyOurs` names the domains of a returned workbook in which no text came back that
is not on file, or more often than it is; there every unchanged row has to find its
question.
`Upload` starts the next round with the exported workbook. A request is one
action: what overtakes what inside the server is `SignOff`'s subject.

## Runs

| Run | Instance | Shows |
|---|---|---|
| `queue_lease` | 2 processes, 2 jobs, 1 failed heartbeat in a row, window 3, 1 fault | types, one worker per job, fresh leases, refinement of `JobLedger` |
| `queue_zombies` | window 1, 2 failed heartbeats in a row, 1 job, 1 fault | two workers do share a job here, and still a finished job is final and every queued job finishes |
| `queue_calm` | 2 requests, no fault | `reviewing` has an owner and ends |
| `signoff_serial` | 2 questions, 1 request, all handlers, 1 run | types, and a closed assessment is fully signed, with sign-off, closing, revisions and a review against each other |
| `signoff_race` | 1 question, 2 requests (all handlers but the two that close and reopen the assessment), 2 mappings, 1 run | what a person signed and what the AI said survive interleaved handlers; `reviewing` ends |
| `accounts` | 3 accounts, 2 browsers, 3 sessions, 3 requests out of 19; a team of two, or none yet | codes are spent once, half a sign-in opens nothing, a deactivated account is out, an edit changes its column, the last account goes only by a race |
| `summary` | 2 questions in 2 domains, 1 request, 2 overlapping runs, a crash or a second mapping | figures at rest are those of the tables, one result per run, the narrative is that of the run on record |
| `intake` | 3 files, 2 mappings, 5 further steps | sections, guesses, confirmation, export, return |
| `provider` | 3 questions in 2 domains and 1 question alone, batches of 2, 1 retry, 2 providers | bounded calls with samples of other answers, every question accounted for, no answer lost or invented, figures, findings and bands follow |

Two workers in two processes are enough for every conflict over a row (claim
against claim, reclaimer against owner, old owner against new), one spare job
shows the order of the queue and a re-review. A window of 3 ticks with a
heartbeat every tick is the smallest that tolerates one failed heartbeat; the
code's 120 s against 15 s and 15 s tolerates six. Two requests are enough for a
check and a write of one with all of the other in between; two mappings for a
stale question id. Closing and reopening write no question row, so `signoff_race`
leaves them to `signoff_serial`.

In `accounts`, two browsers give every pair of racing requests, and a third
request prepares the ground (a sign-in, an earlier edit); one account has a
second factor and one unused code, the other none. In `summary`
(1,319,437 states), one request and two runs give every pair of writers of the row,
and two domains with a chunk each let the runs' chunks alternate. A crash and a new
mapping are not combined there (`MaxUpsets = 1`), which would take TLC too long; the
theorems of `SummaryProofs` are for any number of both. In
`intake` (49,989 states), the three files hold, between them, merged headings, a cover sheet, a
title above the header, a question before the first heading, a heading without
questions, a question that reads as a heading, a column that resembles two fields,
one without a known title, blank rows, and a draft of an earlier round. In
`provider`, the interleaved domains make a domain return after another, a chunk
has a question of its own and a batch, and every reply is cut at every token.

Deadlock is checked where nothing is lost. With a fault the queue may really stop
with the assessment in `reviewing`; the other runs stop at their bounds.

Fairness (`FairSpec`): goroutines are scheduled (every wait of Run is bounded by
`jobTimeout`, every wait of Finish by its context), tickers fire, time passes,
and a stopped process exits and is started again. Clients, faults, failing
heartbeats and the people behind the requests are not fair. The fairness is one
condition per goroutine, on whatever its next step is, never on a particular
outcome. `Accounts`, `Summary`, `Intake` and `ProviderCalls` state no fairness:
their properties are about what a step may do and what is at rest, and
`CallsAreBounded` bounds a chunk without it.

## Disagreements with what the code says of itself

Each of these runs checks one property a comment or a message states, and TLC
finds a counterexample; `PROJECT.json` quotes the lines.

| Run | What happens |
|---|---|
| `bulk_stale` | Review, revise the answer, bulk sign-off: the draft about the old answer is signed as it stands. One request at a time is enough. |
| `mfa_cookie` | The middleware of every route clears the cookie of a session that is pending MFA, so the page that asks for the code takes away the cookie the code is to be sent with. |
| `commit_button` | The confirm button is outside the part of the page a corrected column refreshes: a file whose question column is not recognised cannot be confirmed. |

### Without a run of their own

Met while modelling; the models take the code as it is, and their properties are
stated so that they hold all the same.

Queue and sign-off:

- Two enqueue requests pass the active-job check before either inserts
  (`review/service.go:93`, `184`): two jobs for one assessment, which two workers may
  run at once; `Summary` has them overlap.
- A crash or a failed statement between the two statements of Finish
  (`review/service.go:221`): the job is final, the assessment stays in
  `reviewing`, and every handler refuses.
- A question reopened between the count of unsigned questions and the closing is
  unsigned in a closed assessment (`assessment/finalize.go:152`).
- A job queued before the closing puts the closed assessment back in review
  (`review/service.go:238`).
- Bulk sign-off replaces a text a person signed after the list was read
  (`assessment/finalize.go:107`).
- When `Discard` fails, a closed assessment can be re-mapped, since
  `ConfirmMapping` refuses only `reviewing`; and one that was never mapped has no
  unsigned question, so `CloseAssessment` accepts it.
- A selected-scope job may be claimed before `SaveQuestionScope`; its run fails
  with no question matched, and the assessment recovers.

Summary and settings:

- Whoever is overtaken between reading and upserting stores older figures
  (`review/service.go:475`, `501`), until the next recomputation.
- Re-mapping leaves the summary of the old questions; a run that is cancelled
  leaves results without a summary.
- A blend of the mean and the worst quintile still lets three scores of 5 among
  sixty of 1 come out at 1.63, a "low", which is the case `aggregate.go:20-23`
  gives as its reason.
- `UpdateRiskMatrix` writes the row, then memory (`settings/service.go:66`): two
  updates, or two processes, may go on with different matrices.

Accounts:

- Two deactivations at once may leave no active account (`users.go:197`), and two
  first-run forms may both create one (`handler/auth.go:171`).
- `Replace` is two statements outside a transaction (`recovery_code.go:45`): an
  account may be left with a second factor and no codes.
- Whole-row updates undo one another: a rename may reactivate an account that was
  switched off in between.
- `ValidatePassword` accepts up to 256 bytes; bcrypt refuses more than 72.

Provider:

- A single question answered in the shape of a batch decodes as an empty object
  (`openaicompat.go:204`), so the fallback below it is never reached and the
  lowest score is stored. A score that is no number, or was cut off, becomes the
  lowest too.
- The element a reply was cut in is kept when it closes (`jsonx.go:130` says it is
  dropped).
- A bracketed word before the JSON ("[1]") is taken for it.
- One id in a batch that is no UUID makes the whole batch unreadable; the prompt's
  schema calls the id an integer (`prompt.go:54`).
- With no retries configured, a backend that rejects JSON mode is never asked
  without it; the Anthropic client retries a 400 with nothing to change.
- `buildPeers` takes the first answers when there are fewer than twice the limit.
- A follow-up reply without a draft replaces a batch reply that had one.

Intake:

- Coming back to a mapping page with a stored mapping leaves the count and the
  blocker of the guess (`assessment/service.go:263`).
- When no title is taken for the question, the fallback may choose a column that
  `AutoMap` has given another field (`parser.go:60`), although each column is to be
  "used at most once" (`header.go:92`). The page then shows its texts as both, while
  its form posts the column as the question only: once confirmed, the other field is
  blank. `GuessedApart` excludes it from `ConfirmedAsShown`, and
  `GuessesAreTheBest` makes room for the column taken for the question.
- Greedy matching may give a question to a row that resembles it before the row
  that repeats it is looked at (`revise.go:90`).
- A question that reads as a heading is a heading when its exported workbook is
  read (`domains.go:66`); a question cell merged over rows becomes several
  questions; a draft's marking is kept, and repeated, by each further round.

## Proofs

A theorem holds for every value of the constants that the module's named
assumptions admit. All the modules below are checked to the last leaf. An
invariant listed with an inductive one beside it follows from that one and is not
inductive alone.

### Review queue (`ReviewQueueProofs`)

For any number of assessments, processes, workers, requests, jobs and faults, and
any heartbeat interval and window:

- `TypeCorrect`: the type invariant, with the correspondence between where a
  worker is and whether it has a job in its hands.
- `OneWorkerPerJob`: `ExclusiveRun`, under `Tolerant`: the window is at least
  the failed heartbeats plus one, times the interval, plus the time Finish may
  take. The code's constants satisfy it for up to six failed heartbeats in a row.
- `HeldJobsAreFresh`: `LeaseInv`.
- `FinishedStaysFinished`: a terminal row stays terminal. Here `Tolerant` is not
  needed: a late Finish of an old owner replaces one terminal status by another.
- `QueueImplementsLedger`: the refinement of `JobLedger`, under `Tolerant`.
- `ReviewIsOwned`: `ReviewingHasOwner`, under `Tolerant` and `ResetsLand`.

The assumptions are `SizeAssumption` (the bounds and durations are naturals) and
`ServerAssumption` (every worker is in a process, there is an assessment).

Exclusion is not inductive by itself: that no second worker claims a job follows
from its row being `running`, which follows from its heartbeat being younger than
the window, which follows from the worker's waits being bounded. The inductive
invariant is

    IInv == TypeOK /\ LeaseInv /\ ExclusiveRun

with `LeaseInv == Tolerant => WaitsBounded /\ LeaseFresh`. `SilenceBounded`
gives the arithmetic, `HeldNotStalled` says that the reclaimer passes over every
held job, `OneWorkerMoves` says what a step of one worker must leave alone, and
there is one step per action. The refinement maps `status` to the ledger's state
and the jobs of workers in `Running` or `Recording` to leases; each action is a
step of the ledger or a stutter under `IInv`.

`ResetsLand` says that a worker which leaves the second statement of Finish has
taken the assessment out of review. It excludes one fault and no other: that
statement failing, or its process dying there, is exactly the defect listed above
for `review/service.go:221`. With it, `OInv == Owned /\ HeldExist` (every
assessment in review has an active job, or a worker at that statement) is
inductive over `IInv`. The run `queue_calm` has no faults, so the theorem also
covers the crashes, lost claims and failed heartbeats that the run leaves out.

### Sign-off (`SignOffProofs`)

For any number of questions, requests, runs and mappings, any set of the eight
handlers, any batch size (`SlotsAssumption`, `AnswerAssumption`, `OpsAssumption`):

- `TypeCorrect`.
- `SignatureKept` (`SignedStaysSigned`) and `ColumnsKept` (`ColumnsSeparable`)
  rest on one lemma, `RowWriter`, which goes through the actions once and says
  who may write a question row and what each writer leaves alone in it.
- `ReviewingIsRun` (`ReviewingHasRun`), from `ReviewingHasWriter`: an assessment
  in review has a run between `MarkReviewing` and its last status write. Requests
  write statuses too, so the lemma shows that none of them writes `reviewing`.
- `ClosedSigned`: `ClosedIsSigned`, as long as `ClosesAlone`: no request that
  closes overlaps with one that reopens a question, revises an answer or confirms
  a mapping. `signoff_serial` has one request and so satisfies it; the theorem
  allows any number of requests, and closings against closings, sign-offs and
  runs. What happens without it is listed above (`assessment/finalize.go:152`).
  The inductive invariant `Closable` adds that a closing past its count finds
  nothing unsigned, and that a request which may un-sign a question without
  reopening the assessment is under way only while it is open.

### Accounts (`AccountsProofs`)

For any users, browsers, sessions, codes and forms (`AskAssumption`;
`TokenAssumption`: a TOTP secret is no recovery code; `NoneAssumption`,
`LanguageAssumption`; `StartAssumption`: no code is issued to two accounts to
begin with), all eight properties of the run `accounts`. The inductive invariant

    IInv == TypeOK /\ Tables /\ \A b \in Browser : Placed(req[b]) /\ Sound(req[b])

has three parts. `Placed` says what a handler has in its locals at each
statement. `Sound` relates the locals to the tables: what was read is what is
stored unless another request wrote in between (`stale`), a request acts for
somebody only with a session that owes nothing. `Tables` relates the tables:
`CodesAreFresh` (a stored code was printed, belongs to one account, and was never
used), which makes `CodesWorkOnce` inductive; `CodesHaveAFactor` (codes without a
factor are those of an edit cut short or overtaken, or are about to be erased);
`HalfIsPending`; `EndedIsOff`. The three action properties follow from `IInv` and
`StepOfOne`, that a step is one browser's.

### Summary (`SummaryProofs`)

For any sheet with distinct ids, any requests, runs, crashes and mappings, any overlap
of the runs, and any replies (`SheetAssumption`, `ReplyAssumption`, `NoneAssumption`):

- `FiguresAreCurrent` (`SummaryIsCurrent`) and `RecomputingKeepsTheProse`
  (`NarrativeIsTheRuns`), from `IInv == Shapes /\ Reads /\ Accounted /\ Prose`.
  `Reads` says that whoever was not overtaken holds what the tables still say;
  `Accounted` that the row is current, or somebody is yet to write it, or one of
  the two ghosts says why not; `Prose` the same for the narrative. No part of it
  supposes that runs exclude each other: a run that stores results marks every other
  reader as overtaken, and one that writes the row marks every request that holds
  another narrative.
- `OneRowPerRun` (`OneResultPerRun`) and `StoredOnTheScale`, from `Rows`: the
  argument is `ON CONFLICT`'s, that an insertion removes the row of its own key,
  wherever among the others the new one then stands (`Placing`).

### Batches and figures (`OrdersProofs`, `AggregateProofs`)

These are about operators, for every sequence of questions and results:

- `ChunksPartition`: the chunks hold every question in one place, none is empty.
- `OthersAreASample`: peers are answered, distinct, of other chunks, at most the
  limit; with the arithmetic of the stride.
- `BlendBetween`, `BlendGrows`: the aggregate lies between mean and worst, and
  worse scores never improve it, for lists of any length. Sums and sorted heads
  are folds, which cannot be unfolded by induction here; the proof counts layers
  instead. A score of v counts once in each of the layers 1 to v, so a sum is the
  sum over the five layers of how many scores reach them, and the sum of the
  worst n is that of the least of n and each layer. More scores reach every layer
  when every score is at least as bad.
- `BandsMeet`: the band of an aggregate is that of the score it rounds to, for
  every matrix. The proof failed first because `BandAt` had been written as a
  CASE, whose arms overlap where `helper/risk.go` tests them in order: it allowed
  TLC to choose and was corrected to the code's order.
- `PlacesCounted`, `LinesAddUp`, `FiguresSum`: the questions of an assessment are
  counted once by their domains' lines, and so are flags and high scores. The
  induction is over how many domains have been added up.
- `TopFindingsAre`: the findings shown are the head of all flagged results ranked
  by score, so that none left out outranks one shown.

### Provider calls (`ProviderCallsProofs`)

For any sheets with distinct ids, providers, replies, batch size, retries, peers
and number of findings (`BoundAssumption`, `FindingsAssumption`,
`SheetAssumption`, `ProviderAssumption`, `NumeralAssumption`), all eight
properties of the run `provider`:

- `BoundedCalls` (`CallsAreBounded`), from `Budget`, which says how many requests
  the attempts, rounds and questions so far can have cost.
- `NoQuestionIsDropped` (`EveryQuestionIsAccountedFor`), from `Accounted`, which
  relates the counters to the questions of the chunks that have ended.
- `NoAnswerIsLost` (`AnswersAreNotLost`) and `NoScoreIsMadeUp` (`ScoresAreSaid`),
  from `Kept`, under `ReaderKeeps`.
- `RefusalIsHarmless` (`RejectingBackendIsUsable`), from `Lucky`, under
  `ReaderKeeps` and `MaxRetries > 0`. The code's default is two; with none
  configured the property is false, as listed above.
- `BandsAreRounded`, `BadNewsIsNotLost` and `NothingIsLeftOut` (`FiguresAddUp`), from
  the lemmas on figures.

The figures need that what is read is typed, in every shape of a reply: `Parse` and `Walk` are functions of how many tokens have been taken, so what
they keep goes along the tokens by a plain induction: `ParseTyped` (an object's place
is that of an object begun before, its members hold words of the text),
`WalkTyped` (the scan stands at a place of the text with brackets of it on its stack).
Then come the places where a payload may start or be cut, the mended text, and what
the models of providers write (`BatchWritten`, `SingleWritten`).

`ReaderKeeps` is a contract about the same reader: a question said in full is decoded,
with its score, and nothing is decoded that was not said. It is a hypothesis of the
three theorems that name it. Its proof would follow each shape of reply token by token
through the parser and was left out for its length; `ReaderAssumption` of `MCProvider`
has TLC evaluate it on every reply of the instance, in each shape and cut after each
token.

### Intake (`IntakeProofs`)

For any files, templates, domains, tables of texts, mappings and steps, every
property of the run `intake`:

- `NothingPassesAsSigned` (`UnsignedIsMarked`), from `Rows`: ids tell questions
  apart, and a row that is `finalized` holds the very text its last signature was
  for. Every statement that writes question rows either leaves that text and status
  alone, signs anew, or takes the status away.
- `PageIsRight` (`RowsFollowTheirHeading`), from `Pages`. `DetectSections` goes down
  the sheet with a state of its own; `Known` is the invariant of that loop (the
  heading in force, the sections so far, the rows still without one), and `Settled`
  what it leaves at the last row, including the rows above the first heading.
  That the sections add up is then a count over disjoint stretches of the sheet.
- `IngestedAsShown` (`ConfirmedAsShown`), from `Synced`: a page that is in step with
  its dropdowns shows what reading the file again with them gives.
- `RevisionsLand` (`RevisionsLandAsShown`), from `AsMapped` and `Offered`: a row of
  the page of returned answers carries the text of the question its id stands for,
  and ids of an earlier mapping are never given again.
- `BestGuesses` (`GuessesAreTheBest`). `AutoMap` goes down the pairings in order of
  their scores and takes each whose field and column are free. `BestPaired` says
  that whatever was not taken was blocked by a pairing before it, so one at least as
  good; the fallback for the question is the exception the property names.
- `ReadBack` (`ExportReadsBack`). `Laid` says at which row each question is
  written, a domain's banner before its first; `Reread` what the sheet holds once
  the merged banner is spread and blank rows are skipped; the titles are found again
  as the header and bound each to its own column; `Spaced` and `Filed` put every
  question under its own banner. `Worded` (only texts are stored, sent and
  returned) is the invariant it rests on.
- `RevisionsFind` (`RevisionsFindTheirQuestion`), from `Paired`, the invariant of the
  loop of `Match`: rows so far and questions found are paired off. `OneIsFree` counts:
  rows of a text that came back are no more than its questions, each row of it met so
  far has taken one of those, so one is free for the next, and a free question with
  the full score is never passed over.

Sorting, folding and flattening are constructs of data, so their lemmas in
`OrdersProofs` state what a result is place by place: where an element of a sorted or
selected list comes from, and that a fold has a table of its values, one per
position (`Recursion`), along which a plain induction over naturals is possible.

What is assumed of the constants, and where the code has it: the fields are
different and include the three the code names (`FieldsAssumption`); scores are
percents (`LikeAssumption`); there is a domain to fall back on
(`DomainsAssumption`); each title of the template is its own field's name and no
other's (`TitlesAssumption`, `dto/template_field.go:17-53`); domain names are not
blank (`NamesAssumption`); the full score is given to a text that is not blank and
itself, both ways, and to no text in between (`AlikeAssumption`,
`pkg/fuzzy/fuzzy.go:13-22`); a workbook's rows are lists of texts and its worksheets
have different names (`BooksAssumption`); people write texts (`WordsAssumption`); and
the bounds are naturals (`HeaderAssumption`, `BoundAssumption`). TLC evaluates each of
them on the instance.

The attempt corrected the model and its properties. The guess that gives one column
two fields (listed above) came out of the proof of `IngestedAsShown`. `ExportReadsBack`
had left unsaid that a domain's name has to read as that domain's heading, which it
does not when an earlier domain has the same name. `RevisionsFindTheirQuestion` had
compared texts letter by letter, where matching ignores case, and had left out a file
of which nothing was found.

### Only model-checked

- Liveness (`JobSettles`, `ReviewEnds`): the prover has no rules for fairness and
  ENABLED. Every other property of a passing run is stated by a theorem.
- The contract `ReaderKeeps`: that what is said in full is what `Parse` and the
  decoders find.
- The three disagreements above: they are counterexamples.

## Not modelled

- Deletion of an assessment, rubric attachment, `ReassignDomain` (no caller).
- The account bootstrap at start-up, `BeginMFAEnrolment` and `RecordLogin`: none
  changes a column the properties read.
- Prompts, rubric excerpts, the narrative's wording and the back-off's length.
- The similarity measure (`pkg/fuzzy`) but for its full score, encodings, size limits, styles.
- Settings: the race of row and memory is described above.
- Dashboard (read-only queries), vendors, domains and rubrics (single statements
  under database constraints), configuration and start-up, TOTP (a published
  algorithm).

## Next

1. The five hazards without a property. Each is a race the code does not close, so
   what could be checked is the property the code would have after a repair: one
   active job per assessment under a unique index (`review/service.go:93`), a claim
   that looks at the assessment's status (`review/service.go:238`), a bulk sign-off
   whose UPDATE repeats its condition (`finalize.go:107`), a closing that waits for
   `Discard` (`finalize.go:167`), and a matrix that is read from its row
   (`settings/service.go:66`).
2. `ReaderKeeps` as a theorem. The typing lemmas of the reader carry types along the
   tokens; what is missing is the state of `Parse` after each of an item's parts, the
   objects that a later token never changes, and that a text which is cut is mended
   behind its last whole item.
3. The start-up path and the writes of vendors, domains and rubrics, which are single
   statements now and would become interesting with a cache in front of them.
