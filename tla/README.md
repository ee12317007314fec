# A TLA+ verification of Pepe Watcher

Pepe Watcher simulates the outage of a company's services and lets a language
model coordinate the recovery: it plans, asks an operator for approvals, calls
engineers and executes recovery actions, while the incident changes under it.
This directory holds TLA+ modules that model the server's core logic and the
views the dashboard derives from it, TLC configurations that check them on small
instances, and TLAPS proofs.

All paths below are relative to `apps/server/src` unless they say otherwise.

## 1. The system

One NestJS process with a relational database, a Next.js dashboard that reads
and commands it, and outside systems: the language model, telephone providers,
recovery endpoints, subscribers of webhooks. Every HTTP handler, timer
(`@Interval`) and domain event listener is an asynchronous function; between
two of its `await`s any other may run. There is almost no locking in the
database: a row is read with `findOne`, edited in memory, and written back with
all of its columns by `updateEntity` (`common/database/persistence.helper.ts`).
That is the source of most of the hazards in this project.

At this commit live voice is switched off: `configuration.factory.ts` (in
`common/configuration`) pins `engineerCall.mode` and `happyRobot.mode` to "simulated"
(`:221` "Legacy environment settings must not dial", `:236`), `engineers/engineers.module.ts:58`
therefore selects the simulated adapter, and `company-calls/company-call.guard.ts:16` answers
every request of a company's call with 403; `apps/server/docs/CALL-ENGINEER-CONTRACT.md:3`
calls its contracts historical. The code that dials through ElevenLabs and HappyRobot, polls,
takes callbacks and reports from the line and falls back, and that of company requests, is
kept, but nothing reaches it until a configuration allows it. It is modelled as it stands, for
that configuration; the simulated adapter is in both runs of the calls. Incoming calls, simulated
and confirmed, are reachable.

### Components

| Component | State | Operations | What makes it correct |
|---|---|---|---|
| Incident store (`incidents/services`) | a row per run: active flag, status, services, resources, harness events | start, reset, harness events, capacity, service status, simulation clock | one active run per browser session; reset is final; allocation within capacity; status agrees with the services |
| Agent cycles (`agent/services`, `agent/llm/llm-loop.service.ts`) | in memory: lock, rerun flag, last outcome, cooldown; in the run: cycle counter | triggers, tick, `requestCycle`, `executeCycle`, the turns of the loop | one cycle works at a time; the lock is never leaked; changes are decided on; nothing is dispatched on a state the model has not seen |
| Plans (`plans/services`) | a row per plan version with its steps | `createVersion`, `updateStep`, `markCompleted` | one active version; a completed step has succeeded; finished work is carried over |
| Plan construction and validation (`agent/llm/plan-*.ts`, `agent/helpers`) | none (pure) | repair, validate, build, complete | an accepted plan can be carried out |
| Approvals (`approvals/services`) | a row per request: pending, approved, rejected, superseded, expired | `request`, `decide`, `supersedePending`, `expireOverdue`, `isApproved` | nothing is executed without an approval of its version; never pending for ever |
| Tool calls (`tools/services`, `tools/implementations`) | a row per call, unique per idempotency key | `execute`, `complete`, `expireRunningCalls` | a key runs once; a retry follows only a retryable failure |
| Recovery actions (`recovery`) | a row per action | `execute`, `complete`, callbacks, verification | units are held by the actions that did not fail; only a recovery makes a service healthy |
| Engineer calls (`engineers`) | a row per call | start, fallback, poll, callback, timeout, reports from the line | nobody is rung again behind a call that may still go on; silence authorizes nothing; calls end |
| Incoming calls, company calls (`engineers`, `company-calls`) | a row per call or session | receive, confirm; initiate, receive, dispatch | a report is applied once; a request is accepted on an active run only |
| Model client, subagents (`agent/llm`) | in memory: the chain of calls, cooldowns, the relief window | complete; run a specialist | pauses are honoured; a failed call blocks no other; conversations are well formed |
| Customers (`customers`) | a cache of rankings | prioritize, rank | the worse off company comes first |
| Activity log (`activity`) | events with a number per run | record, stream, overview | numbers are unique; an uncut stream is complete; an overview is not older than its revision |
| Tasks, learning, scenarios, replays | rows or static data | updates, counters, generation | no concurrency rule of their own |
| Browser sessions (`authentication`) | a cookie | guard | runs belong to a session |
| Outbound webhooks (`webhooks`) | a row per delivery | dispatch, retry with backoff | at least once until exhausted |
| Web application (`apps/web/src/lib`) | views | join records and events | the view follows the records |

### Interactions

* A start (`startRun`), a reset and a replay go through `insertRun`, which
  replaces the active runs of the browser session in a transaction; a reset
  also emits `INCIDENT_RUN_DEACTIVATED`, on which the agent forgets its lock.
* Harness events, approvals, finished tool calls, incoming calls, company calls
  and task updates each emit a domain event; `AgentService` handles it by asking
  for a cycle. A cycle observes the rows, asks the model, compares the
  fingerprint of a new observation with the old one, and acts: a new plan
  version, a step, a specialist, or waiting.
* A recovery step asks for an approval through a tool call, is linked to it,
  and is executed through another tool call, whose recovery action allocates
  capacity, asks an adapter and sets the status of the service when it reports.
* A contact step calls an engineer through a provider; what the engineer
  authorized is recorded as facts and may confirm the backup's capacity.
* A tick sweeps the live runs: overdue approvals, overdue tool calls, stalled
  runs. Another one polls the calls a provider has in progress.
* Everything is logged as activity; a browser reads the log as a stream and as
  an overview, and derives its panels from both.

### What is hard

Stale whole-row writes; results that arrive before the step that waits for them
is linked; approvals decided while a plan is replaced; cycles that outlive a
reset; timeouts that do not stop what they give up; providers that answer late,
twice or never; drafts of a model that must be repaired around work in
progress; restarts that lose everything in memory (`states`, `stalledNudges`,
`pendingChanges`, timers, emitted events) and keep the rows. `PROJECT.json`
lists these hazards at their lines with the properties that cover them; those that only the
switched off code is exposed to are not in that list.

## 2. The modules

A module separates the steps between which others may run where its properties depend on
it, and merges them elsewhere; which are merged is said below, module by module, and in the
modules' headers.

### IncidentState, IncidentStore, OutsideReports

`IncidentState` has the pure functions of `incidents/helpers/incident-state.helper.ts`:
baseline, impact, one status update, one pass of dependency propagation, and
the derivation of the incident's status. A service is its health and whether it
changed after the impact; that comparison is the only use of the timestamp.

`IncidentStore` has the incident rows (`row`, `started`) and every handler of
`IncidentsService` that changes one. A handler is two steps: the action with the
method's name reads the row, applies the guards and computes the copy
(`pending[h]`), and `Save` is `updateEntity`: it writes all columns, or fails when
the partial unique index `incidents_one_active_browser` refuses a second active
row of the session (`ViolatesIndex`). `BeginStart` and `CommitStart` are the
transaction of `insertRun`: the lock is taken and the active runs are read, then
everything is committed at once. `insertRun` reads and writes inside the
transaction without waiting for anything outside, so what it reads when it has
the lock is one step; other handlers may write between that and the commit.

| Code | Model |
|---|---|
| `startRun`, `startReplayRun`, `reset`, `switchLanguage`, `insertRun` | `BeginStart`, `CommitStart` |
| `applyHarnessEvent` with the four cases of `mutateForEvent` | `MeteoriteImpact`, `CapacityLimited`, `ServiceHealthChanged`, `FactReported` (all through `ApplyHarnessEvent`) |
| `allocateCapacity`, `releaseCapacity`, `setServiceStatus`, `markResponding` | the actions of those names |
| `setSimulationPaused`, `advanceSimulation` | `AdvanceSimulation` |
| `recordFact`, `confirmResourceCapacity`, `setBackupRegion`, `incrementAgentCycles`, `sampleRecoveryScript` | `RewriteRow` |
| `updateEntity` | `Save` |

`SetServiceStatus` has no guard, as in the code; `Repairable` bounds the runs it is called
of. The columns that `AdvanceSimulation` and `RewriteRow` edit are not modelled; the
copy of all the others is what matters. `conflicts`, `claims` and `acked` are
history: failed starts, units granted to actions that have not failed, events
whose handler answered. The legacy session of internal fixtures, for which
`insertRun` takes no lock and the index does not hold, and `deactivateRun`, which
only that session reaches, are left out; `switchLanguage` is a start.

`OutsideReports` composes the store with what reaches a run from outside.
`CompanyCallService.receive` locks the row of its session and that of the run;
`IncomingCallsService.confirm` locks the row of the call, while the event it
applies is a handler of the store on another connection. The steps of the
dispatcher (find, claim, emit and close) and of a confirmation (check, apply,
save) interleave with the store's handlers, and a crash may come between any
two. A session is one company's, a report is one call's.

### AgentCycle, ExclusiveCycles, AgentTurns

`AgentCycle` has the decision cycles of one run. `entry` is the run's entry in
`AgentCycleStateService` (`inProgress`, `rerunRequested`, `lastOutcome`),
`stage[c]` where an execution of `executeCycle` stands. An execution checks the
skips, counts against the budget, then takes turns: observe, ask the model,
compare the fingerprint, accept or reject the answer. `fresh[c]` says that
nothing changed since the last observation, which is what the fingerprint
compares; `undecided` that an applied change was not seen by an accepted
decision. `Finish` covers the end of `executeCycle` and of `requestCycle`: the
lock is released and the rerun begins in the same synchronous stretch of code.
`StartCycle` merges the reads with which an execution begins, and `ResumeStalledRun` those of
the tick: what changes between them changes the same flags before or after that step.
`Deliver` is any event handler that asks for a cycle, `ResumeStalledRun` the tick,
`Deactivate` with `OnRunDeactivated` the reset (the row changes first, the lock is
forgotten when the event is handled). `Restart` clears what is in memory. The plan
is reduced to what wakes or parks the agent (`PlanState`), and the model's answer
is any of the accepted, rejected, failed or rate-limited ones.

`ExclusiveCycles` is the promise behind it, without a lock, triggers or turns:
at most one execution works on a run, none starts to work after a reset, none
works for ever. `AgentCycle` implements it under the refinement mapping
`Executions <- Slots`, `working <- ` the executions in a working stage
(`KeepsCyclesExclusive`).

`AgentTurns` looks into one cycle: the turns of the commander
(`LlmLoopService.run`) and of the specialist it delegates to
(`SubagentRunnerService.run`), the statuses of the steps they dispatch, their
two conversations, the budgets of turns and steps, and the challenges that send
a wait back once. An observation reads its parts one by one (`Read`): the incident, then the
plan, then the incoming reports and the rest of the evidence in any order, and anything may
happen outside between two of them (`StepSettles`, `EvidenceChanges`). `unseen` are the parts
that changed since the commander read them, which is what the fingerprint tells; `noted` what
the observation under way has found. `Confirm` begins the observation before a dispatch, which
the runner and the loop make in the same way; `Accept` or `Refuse` ends it, and after that nothing
is looked at again. `held` remembers whether all was as the commander had seen it when that
observation began. The start of a tool and the status its step gets are one step (`Dispatch`), and
so is the saving of a plan (`SavePlan`); `PlanApprovals` and `CallResults` take these apart.

### PlanRules, PlanBuilder, PlanRevision, CustomerPriorities

`PlanRules` has the repair (`plan-repair.ts`) and the validation
(`plan-validation.ts`) of a draft as pure operators over the draft and the
trusted state. A draft is a decision per service, the steps with their status
and dependencies, and the capacity block; what the code only copies from
trusted state (names, owners, costs, ranks, times) is taken to be right.
`PlanBuilder` has the opening plan, which calls the engineer, and the
deterministic planner that the scripted client puts in the model's place.

`PlanRevision` runs them: a plan is opened, its steps are dispatched and settle,
services recover, fail and break again, the engineer limits or confirms the
capacity, an operator rejects, and a model proposes drafts of five forms: in order, with
executions that wait for nothing, with one that waits for its own verification, under
identifiers of the model's own, and with work listed as if nothing had been done. Each comes with any
selection of services, any decisions and two assumed capacities, and makes its mistake in all of
its steps alike.
`verified` and `disturbed` are history: what was verified when the plan was
accepted, and whether a service broke or the region changed since then. Each operation is one
step here; what happens between the awaits is the matter of `PlanApprovals`. A
tool call is the entry of its idempotency key, which the code forms of step and
attempt without the plan's version. `insight` is what `LearningService` has learned of
the capacity.

`CustomerPriorities` extends it with the order of the affected companies: the
score, the tiers and the comparisons of `customer-priority.helper.ts`, and what
`rankWithModel` makes of a model's answer, one place for each company.

### PlanApprovals

The plan versions of one run, the approvals of their recovery steps, and the
tool calls that request an approval or start a recovery. The processes are the
decision cycle, operators, sweeps, the handlers of finished or overdue calls, and the bodies of
tools whose calls have timed out (`Bodies`); `local[p]` holds a program counter and what the
process has read. Every `await` between a read and the write that depends on it separates two
actions:

| Code | Model |
|---|---|
| `updateStep`, `markCompleted` | `ReadStep`, `SavePlan` |
| `decide` and the handler of its event | `Decide`, `CheckActivePlan`, `RecordDecision`, `ApplyDecision` |
| `expireOverdue` | `Expire`, `RecordDecision`, `ApplyDecision` |
| `save_recovery_plan`, in the cycle or late | `AcceptPlan`, `CheckPrevious`, `ListPending`, `SupersedePending`, `ReadPrevious`, `SavePrevious`, `InsertPlan`; `TimeOutSave` |
| `request_approval`, in the cycle or late | `RequestApproval`, `InsertApproval`, `FinishRequest`; `TimeOutRequest`; `FindRequest`, `ExpireRequest` of `expireRunningCalls` |
| `executeStep` and `execute_recovery` | `Dispatch`, `CheckRecovery` (the plan, then the approval), `RefuseRecovery` or `StartRecovery`, `RecordOutcome`; `TimeOutTool`, `LateToolContinues` |
| `complete`, `expireRunningCalls`, `onToolCallFinished` | `FindCall`, `FinishCall`, `SettleCall` |

`TimeOutSave`, `TimeOutRequest` and `TimeOutTool` are `runWithTimeout`: the cycle goes on with a
failure, and the body it no longer waits for goes on too, beside later cycles, in a process of
`Bodies` or, for `execute_recovery`, in `late`. `overlapped`, `decided`, `executed` and
`reported` are history; `overlapped` has the approvals that were requested while a late
`save_recovery_plan` was revising the plan of that version, and those that a late
`request_approval` inserted. The steps have no dependencies on one another, and all of them need
approval.

### RecoveryActions

One service's recovery by overlapping attempts of its step: `at[k][w]` is where
the tool body, the writer of the action's row, the timer or a callback of attempt
`k` stands. The simulated adapter delivers its result by a timer of the process;
the environment behind the HTTP one may call back before the answer is
written, again, or never. `row` is what the incident's row has of it: the health of the
service and of what it depends on, and the units allocated. `allocateCapacity`,
`releaseCapacity` and `setServiceStatus` read it (`ReadRow`) into `copy[k][w]` and write all of it
after an await; `OtherReads` and `OtherWrites` are any other handler of the incident, which may
write it back, or break or repair the service above. `torn` remembers that a row was
written which had changed since it was read. The check of a row and its write are one step
for the action rows and the tool calls, whose handlers `PlanApprovals` takes apart.

### EngineerCalls, CallResults

`EngineerCalls` has the calls of a contact step: one row, tool call and telephone
per attempt. `dial` is the `startCall` in progress, `local[p]` what the poll and the
callbacks have read. The phone belongs to the provider: it may ring although the
answer to the request was lost. ElevenLabs is polled, HappyRobot calls back, the
simulated adapter, the one that is selected at this commit, uses a timer, and is the
fallback of both. Only the adapter
under consideration is present in a behaviour, so that each run says which.
`CallResults` extends it with what a finished ElevenLabs conversation is taken
for: the permissions reported from the line joined with the analysis after it.
The run is taken to be active; "failed" stands for "no-answer" too; one dial is
in progress at a time; a callback that is refused is left out.

### LlmClient

`LlmClientService` for the whole process: the chain in which calls wait for each
other, the cooldown of a rate limit, the repetition after a pause, and the relief
provider that takes over for a while. Time is a tick that all countdowns follow.
`asked[p]` is history: what is left of the pause provider `p` asked for. A pause is what
`providerPauseMilliseconds` makes of the answer (`agent/llm/llm-client.service.ts:403`): it is
capped, so a request may be repeated before a longer `Retry-After` is over.

### ActivityFeed, AgentTrace

`ActivityFeed` has the log, its writers and one browser. Numbers are reserved in
memory above the persisted maximum; the event of a company's request is reserved
and inserted in a transaction of its own that may roll back. The stream subscribes,
pages through the backlog, sends what it buffered, then what it hears. The
overview samples its revision before it loads the snapshot. `AgentTrace` extends
it with the agent's panel (`apps/web/src/lib/agent-trace.ts`): how tool calls,
decisions and turns are joined of events and of the rows in the overview.
`Readings` says what the events of the feed are about. The phase of a recovery is
derived for each service and each status the overview may have of it.

### MC modules

`MCIncidentStore`, `MCOutsideReports`, `MCPlanRevision`, `MCEngineerCalls` and
`MCActivityFeed` name the values of constants that a configuration cannot write
down, and symmetry sets.

## 3. The runs

| Run | Checks | What it shows |
|---|---|---|
| StoreSessions | OneActiveRun, StartNeverConflicts, ResetMeansInactive, NeverReactivated, OnlyReplacedByItsSession, AcceptedOnActiveRun, ReportAppliedOnce | the life of runs with two sessions, a replay, stale copies, and what reaches them from outside |
| StoreStatus | CapacityWithinTotal, RecoveredMeansHealthy | stored rows are consistent in themselves, whatever is lost |
| Cycle | LockHeldByExecution, KeepsCyclesExclusive, ChangesAreDecided, ProposedWorkIsResumed | the refinement and the liveness of the cycles across a reset and a restart |
| Turns | HistoryIsPaired, DispatchesAreCurrent, CycleEnds | what one cycle may do while the world changes between its reads |
| PlanAuthority | RecoveryIsAuthorized, CompletedMeansSucceeded, RetriesOnlyFailures | what may be executed under late tools and stale rows, and what a status may say |
| PlanExpiry | PendingIsOfLatestPlan, PendingIsSettled | the operator's desk under late tool bodies and the sweep |
| PlanRevision | WorkIsCarried, PlanCanStart, AcceptedRecoveryRuns, ScriptedAccepted, CompaniesInOrder | what repair and validation promise of an accepted plan; the order of the companies |
| Recovery | UnitsAreHeld, HealthyWasRecovered, ToolCallsEnd | late, repeated and lost results of a recovery, among whole-row writes of the incident |
| CallsElevenLabs | FailoverWasAuthorized, AcceptedCallsEnd | polled calls, reports from the line, expiry |
| CallsHappyRobot | RungAgainOnlyAfterFailure, CompletedStepWasAnswered, FinishedStaysFinished | callbacks, timers, the fallback, retries |
| Client | PausesAreHonoured, CallsEnd | the one queue to the model |
| Feed | NumbersAreUnique, StreamIsComplete, UnchangedIsCurrent, TraceFollowsEvents | the log and its readers |

`TypeOK` stands in most modules and is in no configuration: it is proved of
`IncidentStore`, `AgentCycle`, `LlmClient`, `ActivityFeed`, `RecoveryActions`,
`EngineerCalls` and `PlanApprovals`, where everything else rests on it. `PlanInv` has the
types that the proofs about `PlanRevision` need.

### Bounds, and why they are enough

* Store: two handlers suffice for a stale write, since a write only depends on
  the row its handler read and the row it meets. Three runs give a session that
  replaces a run and another session beside it. Two services are the smallest
  chain of dependencies. One or two events and one unit of capacity
  make every guard of capacity go both ways. `Repairable` has the one run that services
are set of, since what it does to one run it does to any. Two confirmations of the one
  report race, and one crash separates any two of their steps. `MaximumClaims`,
  `MaximumWakes` and `MaximumCrashes` bound counters.
* Cycle: two executions: one that outlived a reset and one begun after it. Two
  turns let a turn be rejected and another be the last. `MaximumChanges` counts
  external events, among them exceptions, and `MaximumQueue` the triggers on the
  way. The proofs have no bound.
* Turns: three turns and two steps exhaust both budgets in either order; the
  conversations are cut to three and four messages instead of eight, so that a
  cut falls inside an exchange of an assistant and its tool.
* Plans (authority, expiry): one step: steps interact only through the row of their
  plan, and every invariant is proved of any number of them; two versions
  (a step is carried or proposed again), one restart. PlanAuthority has an operator, a handler of
  finished calls and two attempts (a retry, and one past the maximum, which the code does not
  exclude); its late tool is that of the recovery. PlanExpiry has the sweep, one attempt and one
  late body, which is enough for it to overlap a later cycle. The proofs are of any number of
  each together.
* Plan revision: a chain of two services, so that a prerequisite, a carried
  dependency and a shared region all occur; capacities that hold one recovery
  or both; three versions and one service that breaks again (`MaximumBreaks`). Four companies tie
  and differ in each criterion.
* Calls: two attempts are a call and its retry; one or two reports; one restart. The
  run of HappyRobot has one callback or timer in flight, that of ElevenLabs two; with
  two the former is too large for a run, and its three properties are proved for any
  number.
* Recovery: two attempts with the simulated adapter, one with the environment (`HttpAttempts`),
  three units for a cost of two, so that a leaked unit makes the other attempt fail; one callback
  beside the answer, one crash, one write by another handler (`MaximumOthers`).
* Client: three calls (one asks, one waits, one comes later), three attempts and
  pauses of up to three ticks within a relief window of four.
* Feed: a call and a request, pages of one event, an overview of two; one cut or
  restart; five readings of what the events are about, each with every status of the services.

Deadlock is checked in the stores and in the client. The other models may stop: an exhausted run, a finished plan, an
operator who never answers. Those runs say `CHECK_DEADLOCK FALSE`.

### Fairness

* `AgentCycle`: an execution in flight continues, emitted events are handled,
  the tick and the cooldown come round: these are timers and the event loop of
  one process. Strong fairness of `CompareAnswer` and `AcceptDecision` says that a
  model that is asked again and again sometimes answers in time and acceptably.
  Work in flight settles or times out (`WorkSettles`) while the run is not
  recovered, because the tick skips a recovered one. Nothing is assumed of the
  operator, of resets, or of `CycleThrows`.
* `AgentTurns`: the cycle takes its next step; nothing is assumed of what the
  model answers.
* `PlanApprovals`: only the sweep is fair.
* `EngineerCalls`: the tick (`Expire`), time, the start of a call (`DialStep`), the poll
  (`PollStep`), the end of a tool call (`FinishTool`) and the write of a callback or
  a report that was read (`CompleteCall`, `WriteReport`) are fair: timers and code in
  progress. The engineer, and the arrival of callbacks and reports, are not.
* `RecoveryActions`: only the sweep of overdue calls (`Expire`); a tool body may
  hang, and a result or a callback may never come.
* `LlmClient`: a call goes on and time passes; a request ends, because the code aborts it
  when its time is over. The timeout covers the reading of the stream; that `onText`, which
  the stream awaits (`agent/llm/llm-stream.ts:50`) and which logs the text, returns is assumed.
* The liveness properties assume that the tick visits the run. `listLiveEntities`
  leaves out a run whose row was not written for 30 minutes
  (`incidents/services/runs.service.ts:69`), so they are about runs within that
  window: the approval timeout is 10 minutes and the call timeout 5 by default,
  both shorter.

## 4. What is proved

Eight modules hold the proofs. Their assumptions are the named `ASSUME`s of the
modules they extend, which give constants their types and say what tables list (the
services in the order of their impact, the customers in that of their names); TLC evaluates
them in the runs. Each proof is one inductive invariant, checked by TLC first, and
one lemma or step per action.

| Module | Theorems | The argument |
|---|---|---|
| IncidentStoreProofs | OneActiveRun, StartNeverConflicts, ResetMeansInactive, CapacityWithinTotal, NeverReactivated, OnlyReplacedByItsSession | What a stale write does is decided by what its handler read (`SoundWrite`: a copy that says inactive is of an inactive run), what a start commits by the rows it saw under the lock (`SoundStart`, `OneStartPerSession`). `SaveKeepsActive`: the index lets no save change which runs are active |
| | AcceptedOnActiveRun, ReportAppliedOnce (OutsideReports), and the store's invariant under crashes and reports | A locked run stays unresolved (`LockHolds`). While a confirmation is about to apply the report, and whenever none is under way and the call is pending, all copies agree with the row on whether the report is part of it (`Agree`); a crash removes the copies |
| | RecoveredMeansHealthy, also under crashes and reports | A service is healthy again only by a change after the impact; so when one breaks while the others are healthy, they still show that there was a recovery, and the status leaves `recovered` (`Coherent`, of each row, copy and start: `Coherence`) |
| AgentCycleProofs | LockHeldByExecution, OneWorkingCycle, CyclesAreExclusive | `OneExecution`, `ForgottenAfterReset`, `LockIsKnown`: an execution without the lock is one that a reset has forgotten, and it stops at its next check. `CyclesAreExclusive` is the safety part of the refinement that `KeepsCyclesExclusive` checks: initial states map to initial states, each step to a step of `ExclusiveCycles` or a stutter |
| LanguageModelProofs | HistoryIsPaired, DispatchesAreCurrent (AgentTurns) | Both conversations consist of pairs wherever they are cut (`TrimmedIsPaired`). A part that is yet to be read when an observation confirms, or was read and did not differ, was as the commander saw it when that observation began, because a change stays noted until the commander reads the part again |
| | PausesAreHonoured, OneCallAtATime (LlmClient) | The chain is an order of the callers: one place each, everyone behind its predecessor, the last one last (`Chained`), hence one at work; what a provider asked for is covered by the cooldown or by the wait of whoever is next (`PausesKept`) |
| ActivityFeedProofs | NumbersAreUnique, StreamIsComplete, UnchangedIsCurrent, CardFollowsCall | Every number handed out is below the counter of its process, and a seed covers the table (`NumberInv`); the pages read, the buffer and what is still to come cover every announced event (`ReaderInv`); an overview's revision is sampled before its content (`OverviewInv`); no snapshot of the call is ahead of its row (`CallsInOrder`) |
| RecoveryActionsProofs | UnitsAreHeld, HealthyWasRecovered | Until a write is torn, a copy that will be written is the row it was read from; each attempt then holds its units from the allocation to a recorded failure, and the allocation is the sum over the holders. A result that is applied or seen has happened, and no copy, however old, says healthy before that |
| EngineerCallsProofs | RungAgainOnlyAfterFailure, CompletedStepWasAnswered, FinishedStaysFinished | Whoever holds a row in the simulated mode holds it of an attempt that was switched (`Modes`); an attempt that is given up for another one was not rung, or was switched and its call has failed (`GaveUp`); each settlement on its way has its conversation or its fallback (`Reasons`); only ElevenLabs writes a whole row back from a report (`Results`) |
| | FailoverWasAuthorized (CallResults): of the report that the poll had read, see section 6 | A row with a person's result has the outcome of the engineer's line, and every row that is written back whole for another reason has no such result yet (`Talks`) |
| PlanApprovalsProofs | RecoveryIsAuthorized, PendingIsOfLatestPlan, CompletedMeansSucceeded, AttemptStartsOnce | Whole rows are written of what was read before, so the invariant follows what each process holds (`Fits`) beside the rows (`Rows`): who holds a completed step has its success (`Sourced`); from listing to insertion a process that revises a plan knows every pending approval but the overlapped ones (`Revises`); only the tool of an attempt, in the hands of the cycle or timed out (`Owns`, `LateTools`), may start its recovery |
| PlanRevisionProofs | WorkIsCarried, PlanCanStart, AcceptedRecoveryRuns (PlanRevision) | What was accepted goes on holding while steps run, end and are rejected (`PlanInv`): rows and tool calls agree, a service has one recovery and was recovered before it was verified, and, until something breaks, whatever waits has its prerequisites settled or waited for, and all that waits fits together in the units left. After a break the same is true again of the latest plan until it is disturbed, but for what it carries as verified (`SinceInv`). A plan whose steps could be sequenced has a first one |
| | CompaniesInOrder (CustomerPriorities) | Each of the sorts is a total order of the customers (`SortedIs`: a member's place is one more than the number of members before it); a healthy customer scores nothing, one that is down with no recovery under way does (`ScoresAre`) |

What folds, sums and recursive functions over finite sets compute is shown by the
least number, or the smallest set, for which it would be something else
(`NumberInduction`, `SubsetInduction`, `FoldExists`, `SumExists` in PlanRevisionProofs).
The orders of the customers are defined without `SortSeq`, of which the prover knows
nothing.

Two theorems have one more hypothesis: RecoveredMeansHealthy is proved of a scenario of
several services, none of which the impact leaves healthy (`WholeOutage`). The code's
scenarios are of this kind (`scenarios/constants/meteorite-scenario.constant.ts:120`), and
so is the instance of StoreStatus. Without it the status may keep saying recovered (section 6).

They hold for every value of the constants: any number of runs, handlers, sessions,
executions, callers, steps, versions, operators, attempts, events, pages and restarts.

What three of them do not say: FinishedStaysFinished excludes ElevenLabs, where a report that
arrives late writes a whole row (`engineers/services/engineers.service.ts:357`) and may reopen a
finished call; UnitsAreHeld excepts restarts and writes that overlapped; PendingIsOfLatestPlan
names the approvals that late bodies leave behind. Section 6 has what happens in each.

Only model-checked:

* `RetriesOnlyFailures`. Its first part is `AttemptStartsOnce`. The second is no theorem:
  it needs decisions that do not overlap, and a plan with one recovery. With two, the row that
  is written back for one step may unlink the approval of another that runs; the next version
  then requests a second approval for it, and if its early result was overwritten and it
  settles twice, the operator approves a step that has failed for good, which starts an attempt
  past the maximum (found by following that schedule in TLC: two steps, three handlers).
* `ScriptedAccepted`. It is no theorem either: `buildPlanDraft` selects the direct
  prerequisites of a service, whatever these depend on
  (`agent/helpers/plan-builder.helper.ts:264`), so that in a chain of three, all down, a rejection
  of the first leaves it with a plan that recovers the second and the third, which the validator
  refuses. It holds of the run's chain of two.
* `TraceFollowsEvents`. It depends on what the events are about: a turn that is answered
  and proposed again afterwards would be shown in progress. What it says of the card is
  part of `CardFollowsCall`.
* Every liveness property, and the fairness in the refinement. Liveness and `ENABLED`
  are beyond the prover.

## 5. Faulty variants

Each checked property has a mutant in `PROJECT.json`: a definition of the model is
replaced by the faulty variant defined before it (a dropped guard, a lock that is
not taken, an identity where something is updated), and TLC then finds the
property violated under the run's configuration. No specification uses one.

## 6. Where code and documents disagree

Nine definitions state what a document, a comment or a test claims and the code
does not do. They stand at the end of their modules, no run checks them, and TLC
refutes each one under the specification of the run named here.

| Claim | Module (run) | What happens |
|---|---|---|
| GrantedWithinCapacity | IncidentStore (StoreStatus) | Two recoveries allocate from the same read, or a stale row takes a grant back (`incidents/services/incidents.service.ts:465`; `apps/server/README.md:149` "The runtime enforces capacity") |
| AnsweredEventsAreKept | IncidentStore (StoreStatus) | A handler that read the row before a harness event removes it again (`common/database/persistence.helper.ts:16`) |
| RunnableWorkIsResumed | AgentCycle (Cycle) | An approved step whose cycle was lost in a restart is not resumed (`agent/services/agent.service.ts:306`) |
| DecidedOnce | PlanApprovals (PlanAuthority, two operators) | Two overlapping decisions both succeed (`approvals/services/approvals.service.ts:85`; `apps/server/docs/API.md:301`) |
| ExpiredIsRequestedAgain | PlanApprovals (PlanExpiry) | An approval that expires before its step is linked leaves the step waiting (`agent/services/agent.service.ts:1545`; `apps/server/docs/API.md:305`) |
| RunningWorkIsOpen | PlanApprovals (PlanAuthority) | A result that arrives before its step is running is lost (`agent/services/agent.service.ts:237`; `agent/llm/llm-state.ts:8`) |
| ObsoleteIsSuperseded | PlanApprovals (PlanExpiry) | An approval of the old plan, requested while a late `save_recovery_plan` revises it or inserted by a late `request_approval`, stays pending under the new one (`tools/services/tools.service.ts:299`; `apps/server/docs/LLM-AGENT.md:33`) |
| NeverRedialed | EngineerCalls (CallsHappyRobot) | The fallback makes the row of a call that was placed simulated; when HappyRobot then reports its failure, that is retryable and the engineer is rung again (`tools/services/tools.service.ts:227`; `tools/implementations/contact-engineer.tool.ts:94`, `apps/server/docs/CALL-ENGINEER-CONTRACT.md:157`) |
| ReportsAreKept | EngineerCalls (CallsElevenLabs) | The result of the poll is built with the row read before, and a report saved meanwhile is lost (`engineers/services/engineers.service.ts:435`; `engineers/adapters/elevenlabs-engineer-call.adapter.ts:472`) |

The last two need a configuration with live calls.

Also seen while modelling, without a property of its own:

* Plans. A stale `updateStep` makes a superseded plan active again;
  `supersedePending` overwrites a rejection. The key of a tool call lacks the plan's version, so
  a step proposed again two versions later meets its first attempt's call
  (`tools/services/tools.service.ts:51`). The repair drops dependencies on carried steps
  that the model left out, although it is told to omit them (`agent/llm/plan-repair.ts:172`,
  `agent/llm/llm-loop.service.ts:59`). Only the latest plan's failed services are remembered
  (`agent/services/agent.service.ts:795`). A step validated as postponed is refused when its
  recovery is validated. A service that was recovered and verified and breaks again keeps both
  steps as completed in the next plan (`agent/llm/plan-validation.ts:1524`): what depends on it waits for
  the old verification, is dispatched, and is refused for good; the service itself cannot be
  executed again (`VerifiedInVain` in AcceptedRecoveryRuns).
* Recovery. `allocateCapacity`, `releaseCapacity` and `setServiceStatus` each read the row and later write
  all of it (`incidents/services/incidents.service.ts:468`, `:529`, `:557`): of two that overlap,
  the later undoes the other, so units are lost, revived or given out twice, and a status is taken
  back (`torn` in RecoveryActions).
  A body that outlives its timeout can start the recovery of a replaced plan; an
  early callback is overwritten by the "running" row written after the answer; two
  callbacks at once are both applied (`recovery/services/recovery.service.ts:179`); nothing expires
  an action; a crash after the allocation keeps its units (`:113`). A service is healthy
  before its verification, and a failed one does not take that back.
* Engineer calls. An answer that no negative pattern matches, an empty one included, counts as a
  confirmation, of the capacity too (`agent/helpers/answer-interpretation.helper.ts:20`), although "a refusal or an
  unclear answer records nothing" (`agent/services/agent.service.ts:1439`). `apps/server/docs/API.md:649` has a
  failed call retried; a live one is not (`tools/implementations/contact-engineer.tool.ts:96`). A HappyRobot row
  without callback stays in progress.
* Agent. Overlapping increments of `agentCycles` count once; ticks may overlap; a
  specialist's own read makes its next dispatch stale
  (`agent/services/agent.service.ts:571`, `agent/llm/subagent-runner.service.ts:169`).
* Model client. A caller in the chain waits for the primary's cooldown although it
  will go to the relief, and a pause of 30 s or more is waited for in full first.
* Customers. The fingerprint of a ranking counts the services per status only
  (`customers/services/customer-ranking-llm.service.ts:105`), so a cached order may be stale; concurrent rankings
  overwrite each other's cache.
* Feed. The overview lists the first 50 events of its window, where `apps/server/docs/API.md:209`
  says the latest (`agent/controllers/overview.controller.ts:85`); a number that commits below the cursor of a cut stream is
  skipped; numbers are unique within one server process only; overlapping refreshes
  may apply an older snapshot.
* Outside reports. `dispatchPending` marks a request stale that was observed meanwhile
  (`company-calls/company-call.service.ts:260`); a crash after the commit of a confirmation loses the
  agent's wake-up (`engineers/services/incoming-calls.service.ts:134`).
* Incident state. An incident stays recovered if every service is unhealthy
  and none has recovered since the impact (`incidents/helpers/incident-state.helper.ts:140`). The
  code's scenarios reach no such state: see `WholeOutage` in section 4.

## 7. Not modelled, and why

* Outbound webhooks: nothing in the system depends on them. The first delivery is
  sent before its row exists, so a crash then loses it.
* Seeded simulation and scenarios: a deterministic generator and static data.
* Tool tests, contracts, configuration: manual checks, declarations, start-up parsing.
* The re-emission of recorded events in a replay, task rows, the report of a run: no
  guard and no invariant of their own.
* Texts of every kind: prompts, what a model says beyond the choices it makes,
  translations, wording and layout in the browser.
* Read tools, communications to customers, investigations: they change what a
  prompt shows.
* In the browser: the compaction of the log to 100 events, the card
  that is rebuilt from tool calls, the staleness timer, nested tasks.
* Time is a quantity only in `LlmClient`; elsewhere an elapsed timeout is an event that may
  happen at any moment.
* Several server processes: the lock of a cycle and the counter of the log are
  in memory, and the code is made for one process.

## 8. What could follow

* What does hold of retries in plans of several recoveries, where the second part of
  `RetriesOnlyFailures` does not, and of the scripted planner in deeper chains.
* A composition of `PlanApprovals` and `RecoveryActions`, which meet in
  the tool call of a recovery and are checked apart.
* The cache of customer rankings and the queue of webhook deliveries.
