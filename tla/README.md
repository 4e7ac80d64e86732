# Formal models of the AudiaX backend

TLA+ models of the Go backend under `src/`, the TLC configurations that check
them on small instances, and TLAPS proofs of their main properties for every
instance. `PROJECT.json` lists components, runs, mutants, the line map, hazards,
findings and theorems; this file explains them.

## 1. The system

A Fiber HTTP server with three layers (controllers, use cases, repositories).
One process serves all requests, each in a goroutine of its own; nothing is
shared in memory between requests, so everything they do to each other goes
through four outside systems:

| system | state kept there | written by |
|---|---|---|
| Postgres (gorm, READ COMMITTED, `SkipDefaultTransaction`) | users, machines, baselines, inspections | the four use cases |
| Redis | one key per session, one index set per user, each with a TTL | `SessionRepository` |
| Supabase storage | calibration and inspection recordings | `ObjectStore.Put` |
| AI service, LLM (Ollama) | nothing of ours | called, up to minutes per call |

| component | state | operations | what makes it correct |
|---|---|---|---|
| calibration (`usecase/baseline.go`) | `baselines` rows, recordings | Calibrate, List | one active baseline per machine; a switch is atomic; old baselines are kept; a path leads to an object |
| inspection (`usecase/inspection.go`) | `inspections` rows, clips | Inspect, List | a score names the baseline that produced it; only anomalous clips are kept |
| sessions (`usecase/user.go`, `repository/session.go`, `middleware/auth.go`) | password hash, session keys, index | Login, Verify, Logout, password part of Update | a password change ends the sessions that exist; ended sessions stay ended |
| accounts (`usecase/user.go`) | `users` rows | Register, Current, Update | unique email, non-empty name |
| machine registry (`usecase/machine.go`) | `machines` rows, soft deleted | Create, List, Get, Update, Delete | unique label among a user's live machines; ownership gate |
| advisory (`usecase/advisory.go`, `advisory/`) | none, decision table | Send, RenderPrompt | danger words never reach the LLM; an LLM answer is shown only if the guard accepts it; there is always an answer |
| clients (`config/aiservice.go`, `llmservice.go`, `storage.go`) | none | Calibrate, Inspect, Complete, Put | a failure is reported as one; deadlines end every call |
| lifecycle (`cmd/web/main.go`) | server running or draining | start, shutdown | a clean exit has answered every request; a shutdown ends; the next life inherits nothing but the tables |
| HTTP delivery (`delivery/http`) | none | parse, call, map errors | the status is true |

What is hard here: two requests for one machine or one user interleave between
their statements; state read before an AI call of minutes is used after it;
Postgres, Redis and storage are written one after the other with no transaction
across them; every call can fail, or take effect and be reported as failed; the
process can die between any two steps. `PROJECT.json` names each hazard at its
line with the property that covers it, or why none does yet.

## 2. Modules

| module | models | checked by | proved in |
|---|---|---|---|
| `BaselineRegister` | abstract: current and superseded baselines of a machine | refined by `Calibration` | `CalibrationProofs` |
| `Calibration` | `BaselineUseCase.Calibrate`, transactions, locks, pool, uploads | run `calibration`, inside `Lifecycle` | `CalibrationProofs` |
| `Lifecycle` | `run` in `cmd/web/main.go`: signal, draining, deadline, kill, restart; EXTENDS `Calibration` and runs around it | runs `calibration`, `deploy` | `LifecycleProofs` |
| `Inspection` | `InspectionUseCase.Inspect`; EXTENDS `Calibration` and runs beside it | run `inspection` | `InspectionProofs` |
| `SessionLedger` | abstract: who holds which token, how long it works, what a password change ends | refined by `Sessions` | `SessionsProofs` |
| `Sessions` | Login, Verify, Logout, password change; Redis keys, index and TTLs | runs `sessions*` | `SessionsProofs` |
| `Accounts` | Register and Update on the users table, validation, status codes | runs `accounts*` | `AccountsProofs` |
| `Machines` | `MachineUseCase`: Create, Update, Delete on the machines table | run `machines` | `MachinesProofs` |
| `Advice` | decision table, `Lookup`, `StaticReply`, `Guard`, the numbers of a prompt; no state | by way of `Advisory` | `AdvisoryProofs` |
| `Advisory` | `AdvisoryUseCase.Send`, EXTENDS `Advice` | runs `advisory*` | `AdvisoryProofs` |
| `Prompt` | `RenderPrompt` on a turn of `Advisory`, which it EXTENDS | run `advisory` | `PromptProofs` |
| `MC*` | the instances | | |

**Calibration.** A request `c` is also the id of the baseline it builds, because
the handler draws a fresh uuid. `pc[c]` is the point the handler has reached:
`idle`, `calling` (AI service), `built`, `deactivating` (UPDATE has its snapshot
and waits for row locks), `deactivated`, `inserted`, `committed`, `stored`, and
the outcomes `ok`, `refused` (before the transaction), `failed` (500), `lost`
(process died). `row[c]` is the committed row; `held[c]` the rows an open
transaction has updated, which nobody else may lock. Postgres is modelled by what
READ COMMITTED does to these two statements: the UPDATE selects in a snapshot,
waits for locks, then re-evaluates its WHERE on the new versions and never looks
at rows committed after the snapshot; the insert waits for open transactions that
own an entry of the partial unique index and fails when a committed one remains.
A COMMIT may take effect and be reported as failed. `MayGoOn(c)` says what request
`c` waits for at each point: a connection of the pool, row locks, an index entry.

**Lifecycle.** `mode` is the process: `up`, `draining` after SIGINT or SIGTERM,
`down`. `ShutdownWithTimeout` waits for the connections that serve a request; it
cancels nothing, because fiber's `UserContext` is the background context. Either no
request is left and the process exits with status 0 (`Drained`), or the deadline
comes first (`DeadlinePasses`): then the deferred `Close`s and `os.Exit(1)` are to a
handler what a crash is. `Kill` is SIGKILL or a panic outside a handler. `Restart`
starts with nothing in memory, any number of times and whatever ended the last life;
rows and objects are what that life left.

**Inspection.** The active baseline is read (`payload`), sent to the AI service
(`card`), and only then are clip and row written. In between calibrations commit,
machines are deleted, the process dies. `CreateInspectionFails` covers an insert
that fails and one that took effect without being acknowledged, `FindActiveFails` the
baseline query or the encoding of its row. Nobody looks at the
machine again after `FindMachine`, so a machine deleted during the AI call still
gets its baseline or inspection; `DeletionSettles` says what bounds this: only
requests that had read the machine before its deletion write, and after the last of
them its history is final.

**Sessions.** A login is also the token it creates. `version[u]` counts password
replacements, which is all that the properties need of a bcrypt hash. Redis is a
remaining TTL per key; `Tick` lets time pass. `TxPipeline` is one step, because
MULTI/EXEC is; SMEMBERS and EXEC of `DeleteAllForUser` are two. A lost reply
makes go-redis send the transaction again. `handed` and `raced` are history
variables: nothing reads them but the properties. `SessionLedger` is what all this
amounts to for a client: a token is issued to one user, works for `Lifetime`, and ends
sooner only by its own user's logout or password change. `left` is the TTL of the
tokens that were handed out, `named` what a change both listed and found in the hands
of clients; a key that a failed login left in Redis is in no client's hands and not in
the ledger.

**Accounts.** A signup names the account it makes, as a calibration does its
baseline. `pc` is `idle`, `hashed` (validated, before the INSERT) and then the
error or `created`; `StatusOf` is what the error handler makes of it. There is no
lookup: `CreateUser` and `CreateConflicts` are told apart by the unique index alone,
and `CreateFails` may leave a row. Update is a read and a write of the named columns
(`Written`); a body that is refused or names nothing leaves no trace. Text is a
member of a small set with functions for what the code asks of it: `Normal`, `Trim`,
`Size`, and `Runes` beside `Bytes`, because the validator counts the one and bcrypt
the other. `typed` is a history variable.

**Machines.** Update and Delete are two statements each: the ownership gate reads
the row (`FindOwnedMachine`), the write comes later (`UpdateRow`, `DeleteRow`), and
between the two the machine may be renamed or deleted by others. A write is scoped
to live rows, as gorm does for a model with `DeletedAt`, and meets the partial
unique index on `(user_id, lower(label))`. `Lower` is a function on labels, so that
labels that differ only in case exist. A request that is answered returns to
`ready` and stands for the next one, so any number of updates and deletions happen;
only the number of machines is bounded.

**Advice and Advisory.** `Advice` holds the functions of `internal/advisory` that
have no state. A text is a sequence of phrases, of which only the telling word
(`matikan`, `periksa`, a forbidden diagnosis) and the numbers are kept, in
hundredths. `Table` is `decision_table.json`: every gated cell has the gate text,
starts its checklist with "Periksa", and differs in key, number of steps, urgency,
hours and technician. What IEEE doubles make of a score halfway between two decimals is
a fact of arithmetic that the model takes as constants: `HalfUp` for the way
`FormatFloat` rounds it, `HalfNear` for the pairs whose difference comes out below the
guard's `< 0.05`. `Advisory` is one turn: `FindMachine`, `FindInspection`,
`JoinBaseline`, then either `AnswerDanger` or `AskModel` followed by whatever
the model does. `Completions` is what the model may send; nothing is assumed of it
but its shape. `Prompt` is what the model is told: `Template` is the template file,
one record per line with its placeholders, and `RenderPrompt` walks it as the loop in
`prompt.go` does. The history comes with the request, so any may come with any
question.

Definitions whose comment starts with "Mutant:" are wrong on purpose. They are
not used by any specification; each stands for a plausible bug, and the run of
the property it is listed with in `PROJECT.json` fails when it replaces the
definition after it.

## 3. Runs

| run | bounds | shows |
|---|---|---|
| `calibration` | 1 machine, 3 calibrations, 2 connections, deadline of 1 tick, signals, kills and restarts without bound; 247 958 states | all safety properties, no deadlock over locks and connections, refinement of `BaselineRegister`, orderly exits, every calibration answered, in any life, or lost with its process, every shutdown ends |
| `inspection` | 2 machines, 2 calibrations, 1 inspection, 1 connection, crashes at any time; 280 768 states | traceable scores, evidence policy, never falsely "not calibrated", what a deletion leaves, every inspection answered |
| `sessions` | 2 users, 2 logins, 2 changes, TTL 2, margin 1, 1 fault; 191 316 states | what a password change guarantees, refinement of `SessionLedger`, every session ends |
| `sessions_old_password` | no fault | violation: a login that overlaps a change survives it |
| `sessions_orphan` | no fault | violation: a session stored between SMEMBERS and EXEC is out of reach of later changes |
| `sessions_partial` | 1 fault, nothing overlaps | violation: password replaced, old tokens alive |
| `machines` | 2 users, 2 machines, 2 updates and 1 deletion at a time, 3 labels of which two differ in case; 342 793 states | unique labels, partial updates, deleted rows, ownership, true conflicts |
| `advisory` | 2 users, 2 machines, 1 inspection, 1 turn, 187 completions, scores 3.44, 1.25 and 1.35, histories of 0, 8, 9 and 19 turns; 596 160 states | ownership, flags decided by rules and one cell of the table, switch off first, vetted numbers, a whole prompt, every turn answered |
| `advisory_signed` | one machine with z = -0.62 | violation: the guard rejects the score the prompt shows |
| `accounts` | 2 signups, 2 updates at a time, 3 spellings of 2 addresses, 4 names, 4 passwords around both limits; 1 675 933 states | every account can be found, true status codes, partial updates |
| `accounts_blank_name` | 1 signup, 1 update | violation: a name of blanks is stored empty |
| `deploy` | 1 calibration, 1 shutdown | violation: a request still in flight at the deadline is cut off |

`machines` ends when every machine of the bound has been created and deleted, and
`accounts` when every signup of the bound has been refused, hence their
`CHECK_DEADLOCK FALSE`. Turns share nothing but the database,
which they only read, so one turn beside deletions and recalibrations shows what
several would; the model's answers have up to two phrases and a next step, enough
for each word, a score, and an invented number in every order.

Three calibrations of one machine are enough for one holder of a lock, one waiter and
one that starts after both; two connections let two transactions be open while the
third waits for a connection, and the single connection of `inspection` makes everyone
queue. Two changes and two logins are what the orphan scenario needs; a second user
makes it a matter whose tokens a change ends. The proofs remove these bounds for the
safety properties.

The scores are an ordinary one and two that lie halfway between two decimals, with what
doubles make of them: 1.25 is shown as 1.2 and 1.2 is 0.05000000000000004 away, 1.35 is
shown as 1.4 and 1.4 is 0.0499999999999998 away. A process may be killed or give up at
its deadline with requests in flight, locks held and connections taken, and be started
again, as often as there are requests to lose. That a later life waits for nothing an
earlier one held is what `CrashHoldingLocks` shows to be checked: with it a calibration
after a kill and a restart is never answered.

A shutdown deadline of one tick already lets it pass before, while and after each
step of a handler. The histories lie at, just above and far above the cap.

Fairness. `InspectionFairSpec` asks that a request that has begun keeps moving (`WF`
on its steps, not on its failures): goroutines are scheduled, Postgres grants a lock
once its holder is gone, and the HTTP clients' timeouts (`constants.AITimeout`,
`StorageTimeout`) turn a silent service into an answer. Nothing obliges a client to
begin. `LifecycleFairSpec` asks less: only that time passes and that `main` is woken
when the drain is over. `ShutdownEnds` holds under that alone, also when a handler
hangs; `AnsweredInAnyLife` needs moving handlers as well and states them as its
premise (`HandlersRun`). In `Sessions` only time is fair. In `Advisory` a turn that has
begun goes on, and a model that does not answer counts as unavailable when
`context.WithTimeout` expires; the model itself owes nothing.

## 4. Proofs

`CalibrationProofs` proves the inductive invariant
`IInv == TypeOK /\ LockDiscipline /\ RowOrigin /\ AudioOrigin /\
OneActivePerMachine /\ OnceCalibratedAlwaysActive`. `OneActivePerMachine` is not
inductive alone: a commit makes its own row active and retires the rows it has
locked, so one must know that a transaction past the unique index has locked
every active row of its machine and that no other one of that machine is past it
(`LockDiscipline`), and that a request inside its transaction has no committed row
yet (`RowOrigin`). Refinement follows because only a commit changes rows
(`WhoTouchesRows`) and a commit is the abstract `Switch` (`CommitSwitches`).

`NoDeadlock` follows from the same invariant: of the open transactions one may go on
(`SomeTransactionMayGoOn`). If one has inserted, it may commit. If none has but one is
past its UPDATE and waits for the index entry of a row somebody else has updated, that
somebody holds the only active row of the machine and goes on to insert. If all still
wait in their UPDATE, nobody holds anything. A request that waits for a connection
waits for it only when the pool, which has at least one, is all in the hands of open
transactions, and one of these may go on. So there is no circle, whatever the number
of requests and the size of the pool (`NobodyStuck`). `NeverStuck` is stated with
`MayGoOn`, which TLC was used to compare with `ENABLED` of the request's steps while
the server runs.

`InspectionProofs` shows that to `Calibration` every step is one of its own or a
stutter (`CalibrationSees`), so its invariant carries over, and adds what a request
knows of its payload and card. `RunsCalibration` states this as an implementation,
from which the register (`RegisterInspected`) and the absence of deadlocks
(`InspectionNeverStuck`) follow beside inspections as well. `DeletionsSettle` goes
through the steps twice: for who is busy with a deleted machine, and for what the
tables hold of it.

`LifecycleProofs` maps every step of a life to a step of `Calibration` or a stutter
(`ImplementsCalibration`), so the properties of `Calibration`, the refinement of the
register among them (`RegisterSurvives`), hold through signals, deadlines, kills and
restarts, `LifeNeverStuck` included. `ExitIsOrderly` is inductive with the types and
one fact more: who is neither in flight nor idle has an outcome.

`PromptProofs` shows that `RenderPrompt`, which walks the template line by line and
then collapses blank runs, gives the prompt that `WholePrompt` states outright
(`WholeTruth`). Both passes are recursive functions on sequences. Induction over the
lines is carried out in first-order form, on the set of the numbers for which a claim
holds: a least counterexample would have a predecessor (`LeastNumber`, `Induction`),
which also gives the existence of the functions (`Recursion`).

`AccountsProofs` uses an invariant that ties a row to what its owner typed
(`email = Normal[typed]`) and a conflict to the row that caused it; both last because
addresses never change and no row is ever removed.

`SessionsProofs` rests on: an index lists only its own user's keys and outlives
them, and between SMEMBERS and EXEC a change knows every living session of its
user except those counted in `raced`. `LedgerKept` maps every step to one of
`SessionLedger` or a stutter (`LoginKeeps`, `ChangeKeeps`, `EnvironmentKeeps`). It
needs one invariant more, `Undertaking`: what a change has listed are keys of its own
user, and nothing is listed before there is a user; so what EXEC deletes are tokens of
that user, all that were named among them, however often it is sent.

`MachinesProofs` uses `IInv == TypeOK /\ GateHolds /\ LabelsUnique`: between its
two statements a request knows that the row it read still exists and still belongs
to its user (`GateHolds`), because no step removes a row or changes its owner. The
four action properties follow from it, one step at a time.

`AdvisoryProofs` proves, one turn at a time, what a turn knows at each point
(`TurnOK`). `OneCell` shows that the table has exactly one cell for every status and any
indicator, drive type and recency, values it has never heard of included: at most three
cells match (`Candidates`) and they have 0, 1 and 3 wildcards (`CountingWildcards`), so
one beats the others (`Winner`). With the table that is deployed, `Lookup` never fails.
`TableShape` reads the shape of every cell off the table, from which
`StaticSafe` shows that the table's own reply begins with the gate, `GuardSafe`
that the guard lets through only text that says to switch off first, and
`LookupStatus` that the cell found is of the status asked for. Nothing is assumed
of a completion but that it is one. `AllVetted` and `MayQuote` follow the numbers: those
of a cell reach the guard's list whatever the cell says (`CellContents`), those of the
static reply are all among them (`StaticVetted`), and a score rounded to a decimal is
within the guard's tolerance of itself (`RoundingTolerated`) unless it lies halfway
between two decimals. `FactsMayBeQuoted` says so: of the numbers in a prompt that are
not negative, only such a score may be refused. `OnlyOwn` adds to `TurnOK` that the
machine of a turn is its caller's or deleted since (`CallersStep`).

The only assumptions are the ASSUMEs of the modules: the null values are not
members of the sets, the bounds are natural numbers, the functions on texts are
functions, and a pair in `HalfNear` is 0.05 apart (`DoublesAssumption`). Every safety
property of the runs, invariants and action properties alike, and both refinements are
proved. Only TLC checks liveness under fairness, for which no prover of `ENABLED` is at
hand; `NeverStuck` is the part of it that is a state property.

## 5. Findings

- `sessions_old_password`: `session.go:75-76` promises that a stolen token stops
  working the moment the password rotates; a login that compared the old hash
  before the change stores its session after the change listed them.
- `sessions_orphan`: `session.go:75` promises to revoke every session a user
  holds; `Del(index)` at line 89 also forgets a session stored after line 80.
- `sessions_partial`: `user.go:199` demands that a rotated password must not leave
  old tokens usable; a failure between the UPDATE and the DEL leaves them so.
- `advisory_signed`: `guard.go:42-44` allows every number the caller supplies; the
  pattern at line 91 reads "-0.6" as 0.6, which is not near the supplied -0.62. The
  answer is then replaced by the static one, so nothing unsafe is shown. With `{125}` for
  the scores TLC reports the same violation: 1.25 is shown as 1.2, and the doubles differ
  by more than 0.05. `{135}` passes.
- `accounts_blank_name`: `model/user.go:37` asks for a name of at least one character;
  Update validates before it trims, so blanks pass and an empty name is stored.
  Register trims first, for the reason given at `user.go:74-75`.
- `deploy`: `README.md:321` says that in-flight requests survive a deploy; the shutdown
  waits 15 s by default and a calibration up to 240 s for the AI service. What does hold
  is `ExitIsOrderly`, proved: the process never exits with status 0 over an unanswered
  request, and gives up on none before the deadline.

For sessions, what does hold is stated by `ChangeRevokesIndexedTokens`,
`UnindexedOnlyByRace` and `KeepsLedger`, and proved.

## 6. Not modelled, and why

- HTTP parsing, routing, converters, logging, configuration, wiring in `app.New`:
  straight-line code whose result the models take as the inputs and outcomes of a
  request. The error handler's table is in `Accounts`; a Redis outage during `Verify` is
  answered like a bad token (`auth.go:19`), and nothing says it should be otherwise.
- List, Get and Current: they read in one statement and change nothing.
- The wording of the prompt: a line is its label and its values, and the label maps of
  drive type, recency and machine age (`humanise`) leave their value as it is. So
  `PromptIsWhole` says nothing of a label's words. The numbers in them are kept where
  they meet the guard (`LabelNumbers`).
- Floating point, but for the two facts above. Scores are exact hundredths; a score of
  finer resolution is within the tolerance of its rounding as long as it is further from
  halfway than the error of a subtraction.
- How a number is written: `extractNumbers` loses the sign, which the model keeps, and
  reads "1.000" as 1, which it does not.
- A retry of a Redis transaction after its reply has arrived: go-redis sends one again
  only when the reply was lost.
- Substring matching of danger and diagnosis words: a text has the word or not.
- Postgres, Redis and the object store beyond the statements used: READ COMMITTED
  is modelled, replication and eviction are not.

## 7. Plan

What remains worth doing, in this order:

1. `Lifecycle` around `Inspection` and `Sessions` as well. A request there differs from
   a calibration only in its steps; the shutdown treats it the same.
2. `Machines` in place of the `DeleteMachine` of `Calibration`, so that labels and
   calibrations are checked together. The two share only the `live` set.
3. Abstract directories for `Accounts` and `Machines`: a row appears, changes in named
   columns and is closed in one step each, as `SessionLedger` does for tokens.
