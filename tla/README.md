# A formal model of the Malacca port resilience sandbox

TLA+ modules, TLC configurations and TLAPS proofs for the sandbox: the services
of its server (`server/`), the learning engines and scripts behind its policies
(`server/`, `scripts/rl/`), and the parts of its page that keep state across
requests (`src/`). The server lets people and learned policies act on a
*simulated* port. The model is about the machinery that decides which action
takes effect, when, on whose approval and with what record; about the gateways,
stores, leases and queues underneath; about how a policy is trained, chosen and
published; and about a page whose answers come late.

## Parts of the system

| part | state it keeps | operations | who calls it |
|---|---|---|---|
| `PortOperationsSimulator` (operationalSimulator.ts) | tick, quantities of the port, running flag, scenario, one active control, recent ticks | snapshot (catches up with the wall clock), forced tick, apply a control (with a counterfactual), start, stop, inject a scenario | the control service, in the same event loop |
| `OperationalControlService` (operationalSimulator.ts) | decisions, receipts by idempotency key, core receipts, hash-chained audit | create, approve, execute, roll back a decision; execute, roll back a core plan | HTTP routes; synchronous |
| core proposal routes (publicEvidencePlugin.ts) | `coreProposals`: mutable proposal objects by id | infer, approve, execute, roll back, report; three of them await between reading and writing | HTTP clients, overlapping |
| core policy decision (coreOperationsRlEngine.ts, coreOperationsRlService.ts) | none between calls | observe, mask, vote, gate, replay, turn a plan into a control | infer and execute routes, evaluation scripts |
| core model registry (coreOperationsModelRegistry.ts) | manifest of active and rollback model | load, activate | scripts, inference |
| learning engines (rlTrainingEngine.ts, portBusinessRlEngine.ts, coreOperationsRlEngine.ts, coreOperationsFittedRl.ts) | one training's progress | train, tune, select, test | training jobs, scripts |
| champion and candidate scripts (scripts/rl) | reports, artifacts, a run directory of files | train, validate, lock, test, publish, verify | people, from a shell |
| training jobs (rlTrainingJobs.ts) | jobs, waiting queue, slot counter, checkpoints | create, cancel, run, evaluate, restore | HTTP routes, the event loop |
| business proposals (portBusinessRlPlugin.ts, portBusinessRlService.ts, portBusinessControlPlane.ts) | proposals by id | infer, approve | HTTP routes |
| `DurableStateStore` (reliableStateStore.ts) | state file, previous generation, journal | load, commit, verify | site adapters; files shared with other processes |
| `FileFencedLease` (reliableStateStore.ts) | lease file, update lock file | acquire, assertCurrent | processes of one host |
| operator integration gateway | resident envelopes, replay set, evidence file | ingest, restore, persist, release a snapshot | HTTP clients with signatures |
| AIS gateway | socket, back-off timer, vessel tracks | connect, message, close, stop | server start, socket callbacks |
| port community gateway | clearances, replay set, audit chain | ingest | HTTP clients with signatures |
| production authority and site acceptance gates | none | decisions over a bundle and the clock | routes and scripts |
| regulatory runtime, port twin | vessels held; calls, berths, yard | step | the snapshot route |
| native Godot validation (server, and its page hook) | one run of an external process, jobs | start, poll, exit, cancel, dispose | page hook, HTTP routes |
| training page, evidence centre, assistant, Godot window (src/) | bound job, policy test, shown telemetry, running command, request and result | clicks, timers, answers, messages of a window | the user, React, the server's answers |
| vessel traffic safety, HTTP server, maps and dashboards | none that outlives a request | geometry, transport, rendering | - |

What is hard: routes suspend in the middle and write to objects they looked up
earlier; every decision and plan competes for one control slot; clients retry
with idempotency keys; the simulator stops, catches up and is taken ahead by
forced ticks; sockets, windows and processes that were given up still speak;
answers reach a page that has moved on; files are written in several steps that
a crash can come between; segments, envelopes and masks meet at boundaries no
fixture has. The list of hazards with their source lines is in `PROJECT.json`.

## Modules

One module per part; its header says what it leaves out. The operators marked
*Mutation* are plausible wrong versions of the definition that follows them;
each one breaks a property, as `PROJECT.json` lists.

### Decisions, plans and the control slot

`PortSimulator` holds clock and control slot. A tick is its number: the
snapshot hash is a function of it, because a tick is computed once and the
paired baseline tick is undone. `Lag` is what `advance` would catch up;
`Install` is `applyAction`/`applyCoreControl` with its forced tick; `Aged` is
the consumption of `remainingTicks` in `step`. Time is counted in wall ticks of
at least a second, so one synchronous handler meets at most one boundary, which
its forced tick has taken already.

`OperationalControl` extends it with the service. One action per method, since
each method is synchronous: `CreateDecision`, `ApproveDecision`,
`ExecuteDecision` and `ExecuteDecisionBlocked` (the gate is closed: the decision
fails, no receipt), `RollbackDecision`, `ExecuteCorePlan`, `RollbackCorePlan`.
A decision's identity is (controller, millisecond, snapshot) because its id is
the hash of those, so a creation can hit a stored decision and replace it. A
core plan's identity is (plan, snapshot). A known idempotency key replays and
changes nothing, which is a stutter. `applied` is the only history variable
besides the two auxiliary fields of an effect. A call that throws after it took
a snapshot does what `Snapshot` does.

`SimulationRelease` is the abstract promise: a subject is released only while
the gate is open and while it is cleared, never twice, and withdrawn at most
once. `OperationalControl` implements it (`KeepsThePromise`): cleared is an
approved decision, or a core plan whose snapshot is current.

`CoreProposals` extends `OperationalControl` with the routes. A proposal object
has an address; the map `stored` has an address per id; a suspended route holds
a snapshot (infer) or an address (approve, rollback) in `pending`, and its
second half puts that object back. Execute does not await. `CallFails` is a
malformed body, a non-dual approval or a refusal of the service. That the routes
still implement `SimulationRelease`, with a plan cleared by its approval, is
`PlansKeepThePromise`.

`CorePlans` is one decision of the core policy. A situation is the set of
troubles that close an interlock or a gate, and the heads whose signals call for
something. `Closed` is `actionReasons`, `Askable` the masks, `Project` the
projection to the hold of a head, `Checks` the gates of
`resolveCoreRuntimePlan`, `Control` the control the execute route computes from
`corePlanEffect`, `Envelope` the check of `applyCoreControl`. `PlansAreSafe`:
nothing is carried out whose interlock is closed, a served plan is what the
agreeing heads asked for or the hold, and its control always fits the simulator's
envelope, so an approved plan is never refused by the arithmetic.

`PortFlows` is the physics of a tick (queue, yard, battery, kept ticks) and the
paired counterfactual: the baseline tick, `Restore`, the tick under the plan.
`FlowsAreOneHistory`: the kept ticks are consecutive and each follows from the
one before, and the two ticks of a pair start from the same port.

### Learning

`LearningBenchmark` is `trainRlBenchmark`: the split of the records, training in
chunks of episodes, the stop checks where the code has them, tuning, selection,
and the policy test. `reads` collects which records were read for which purpose.
`BenchmarkIsSound`: nothing that is judged was learnt from or precedes it, the
test records stay closed until the choice stands, and what is kept is the first
of the best.

`DatasetSplits` are the three ways to cut a dataset into segments. `TrainingData` is
how a job resolves its dataset: read the manifest, read the file it names, check the
records, truncate and write the adapted file, read it back, and make a dataset of it;
loads overlap and the operator replaces manifest and file. `DataIsEarned`: a load
hands over the records of the manifest and the file it read itself, each once and
in order, with no capacity inferred from later records and an operational claim only
with the operator's authority, the measured capacity of every record, and the weather
and incidents of all but one in 2000, which is what the rounding of the coverage hides;
segments by month keep apart and months stay whole for every number of months, segments
by record from 26 months on and, as the property also says, no earlier; and every
disturbance the public months are given occurs in every segment.

`PortReplay` has the two environments as functions of a state, an action and a
record: `BusinessStep` and `BenchmarkStep` with `Moved`, the shared flow of
demand; `Applicable` is the mask of the business learners. `ReplayIsSound`:
vessels are served, queued, deferred or diverted but never lost or made, the
backlog stays bounded, an action the mask left is never projected, and a learner
of the business engine never intervenes twice in a row.

`ChampionSelection` is the ladder of attempts for both engines with the script
around it, its two writes, a crash between them, and `verify...Champion.ts`.
`FittedCandidate` are the scripts of the fitted learner, which share only the
files of a run directory; two processes run any of them in any order, and
sources change. `LearnerEvidence` puts the two side by side for `EvidenceIsEarned`:
an admitted champion is the foremost candidate of the last attempt that qualified and
its report the last of its files, the test records are opened once per lock, and what
is published is what was locked and, the sources left alone, validated.

`RlTrainingJobs` has one action per piece of `runJob` between awaits, the two
request handlers, the deadline and `Restart`. `Pump` is `pumpTrainingQueue`
with its loop: it shifts jobs until the slots are taken, skipping cancelled
ones. `scheduled` are the jobs between the shift and their `setImmediate`
callback. `TrainingService` is what it promises the page; `RlTrainingJobs`
implements it (`KeepsServicePromises`), and `RlTrainingPage` uses it as its
server.  `QueueIsSound`: slots are exact, no job waits beside a free slot, and a
completed job is on disk.

### Services

`DurableStateStore` breaks a commit at its file operations: load and generation
check, journal check, truncating and filling the copy of the previous
generation, the rename, the append. Digests are taken as injective, so an
envelope is the sequence of payloads it was built from, and a journal line the
sequence of envelopes it vouches for. `Crash` kills one process, leaving a
journal line missing, cut or without its newline; `PowerLoss` also loses the
previous generation, which is never synchronised; `DamageFile` spoils a state
file. With `OneProcess` a commit is alone, as in one event loop.
`StoreKeepsItsWord` joins what survives an acknowledgement, what a commit was built
on, how far `load` falls back and what the journal tells.

`FencedLease` breaks `acquire` at its file operations; the clock moves between
any two. `HolderDies` leaves the update lock. `FencingIsSound`: the leader is the
holder of the newest token, and no token is given twice.

`CoreModelRegistry` breaks `activate` at its read of the manifest, the rename
and the receipt; two commands overlap and may die; a report may be damaged.
`ModelsStayLoadable`: a new manifest names two models that both verified after
its activation began, and every manifest that was in force has a receipt unless
its command died before writing it.

`OperatorIntake` has the source systems that number their envelopes, the network
that repeats and reorders them, `Accept` (which may fail to save after it has
changed memory), `Replay`, a restart from the evidence file and `ShadowSnapshot`.
A source may use an id again with the same or a changed payload, under another
sequence and time; the gateway recognises a repeat by id and digest alone, before it
looks at the sequence, and keeps the repeat in memory beside the older evidence.
`ShadowIsTrustworthy`: the payloads of a released snapshot are one cut, of each
adapter the payload the newest accepted envelope brought, fresh and aligned by the
times they were accepted with (the time stamped on the record is that of the envelopes
in memory, which nothing compares, see below); what was answered as accepted is never
accepted again; a feed stops being ready only by age, by a restart or when a snapshot
older than the newest is repeated.

`AisGateway` has the sockets as external processes that answer late. `LiveMeansLive`: data is called live only over an open stream the gateway
holds, and no socket that may still deliver is one it has dropped. `PortCommunity` has partners,
a network and `Ingest`. `ClearancesAreExplained`: the decision that stands is
the accepted one that takes effect last, whatever the order, and the audit chain
has every accepted message once.

`BusinessProposals` has `Infer`, and `BeginApprove`/`EndApprove` around the
await of the body. `ProposalsAreSigned`: what is shown as approved
is an intervention signed by two people in both roles, and an id stands for its
newest inference unless an older one was approved meanwhile. `ReleaseGates` has two
bundles that people sign, revise and judge as time passes. `GatesHold`: whatever
is released was approved by two people other than its creator, on the revision
that is released and recently enough, the plant was safe within the age of a
receipt, and a site is ready only with the evidence its owners saw.

`RegulatoryRuntime` has `Snapshot` with its catch-up and the held vessels.
`BacklogIsExact`: polling often or rarely steps each sequence number once, and
vessels are conserved. `PortTwin` is one `Step` over calls, berths, cranes and
yard, including the step that throws on a full yard after it changed the calls.
`TwinIsPhysical`: a berth has one call, cargo is conserved, and moves stay within
the cranes.

### Page

`RlTrainingPage` is `App.tsx` as a client of `TrainingService`: a generation
counter per kind of request, the bound job, the policy test, inference.
`TrainingIsWatched`: a live job is watched, on its way to the page or being
cancelled, unless a POST was given up, a poll failed or a DELETE was lost; the
inference that can be applied is of the bound job.

`EvidenceCenter` has the refresh with its calls in parallel, the abort controller
and actions whose answers are lost. `PanelIsCurrent`: what is shown never goes
back, and a report is of the plan beside it, at its stage or a later one.

`XiaoyiAssistant` has the asynchronous loops of runs, also those that are over.
`AssistantIsHonest`: every click belongs to a run the user has not stopped, of a
high-impact command to an approved one, a report leaves out at most the click
that failed, one loop works at a time, and a lock has something that ends it.

`GodotBridge` has the page, the messages in both directions, the script in the
window, and every other source of a result. `ResultsAreMatched`: a result that
is shown belongs to the request that is shown, and phases follow one another.

`NativeValidation` is the service around the external process, `start` cut at
its awaits; `NativeValidationPage` composes it with the page's controller over
a network that delays and loses answers. `WindowIsAccountedFor`: at most one
engine runs, nothing outlives the disposal unasked, a window that closed after
writing its result is never reported as failed, and a job that runs is the
page's or will be closed, unless an answer was given up. `EndsOnceForItsRequest`:
a job ends once, and a result is handed over only for the request shown.
`JobsEnd`: whenever a job runs the service comes to rest, every job ended and no
process left but that of a completed one.

### Composition

`MCServices`, `MCEngines` and `MCPage` put the parts that share no state into
one run each. `focus` is chosen in the initial state and says which part moves;
the others stand still. Every behaviour of all of them together is an
interleaving of such behaviours, so nothing is lost for properties of one part,
and every part is explored completely within its bounds. Parts that do share
state are composed for real: `CoreProposals` with `OperationalControl` and
`PortSimulator`, `NativeValidationPage` with `NativeValidation`,
`RlTrainingPage` with `TrainingService`, which stands for `RlTrainingJobs`.

## Runs

| run | instance | question |
|---|---|---|
| operations | one decision at a time, core plans of snapshots 0 to 3, three wall ticks, one shared key, four audit records | do decisions and plans keep every promise while they compete for the slot |
| engines | nine parts, below | safety of the proposals, the decision of the policy, the tick, the data, the learners, the champions and the store |
| services | eleven parts, below | safety of the services; does the stream come back, does every job settle, is leadership taken again |
| page | five parts, below | is what the page shows true, and does every wait end |
| late_inference, retry_after_rollback | the proposals of `engines`, one property each | violated |
| store_journal_gap, store_two_processes | two generations, one crash; two processes | violated |
| lease_crash | two processes, one death | violated |
| jobs_late_cancel | two jobs | violated |
| grouped_calibration | the 377 public months | violated |
| replay_without_gates | the situations of `engines` | violated |

Bounds and why they are enough.

* operations: a decision that ran can be hit again only by a creation on the
  same snapshot, so `MaxTrail = 4` lets it be created, approved and executed and
  still leaves room for another creation; `MaxSeq = 3` lets a control run out, a
  simulator catch up and two plans follow each other; hold and action last 1 and
  3 ticks instead of 4 and 8: a hold is consumed by its own forced tick, an action
  outlives it and a first catch-up, and a catch-up of two ticks ends it.
* engines: two calls in flight and two proposal objects, because a route holds
  one object and conflicts are pairwise; six situations that close every
  interlock and gate at least once; four ticks with storm, low tide, a fault and
  the peak tariff, two kept, so the window slides; three months, of which each
  may be calm, closed or full, in every order and scenario, with two residuals;
  three learners (two that train, one that is calibrated) with two trials of two
  chunks of episodes; datasets of 19 (refused), 20 (too short to tune on), 24 and
  30 records; four candidates with two rankings that have ties, a ladder of two, two starts, one edit;
  two seeds and two processes, one edit; seven files, each with one thing wrong or
  special, five manifests, two loads and one replacement, a coverage rounded to 12
  parts instead of 1000, so that files of 21 to 24 records lie on both sides of the
  rounding (one record in 24 without its incidents is claimed, one in fewer or two
  are not), public files of 19 (refused), 24, 25, 26 and the 377 months, the borders at
  which the segments by record fall apart; two clients, three generations (a
  fallback then lies behind a journaled state), two crashes, one damaged file.
* services: two adapters with two envelopes each, the second of which may repeat the
  id of the first with the same or a changed payload, one failed save or restart; three sockets,
  so that two can be old; two messages of two kinds about two calls, one restart;
  three models, two commands, three activations, one death, one damaged report;
  three calls for two berths, of which one fits one only, with a yard of three;
  they come inbound with all they exchange, which the constructor does not check; two
  situations and two proposals; three people with six logins, two approvals,
  two sign-offs, two revisions; a queue with catch-up 3 over sequence numbers to 5;
  three jobs (a running, a waiting and one too many), one slot, one restart; two
  processes, three tokens, one death.
* page: two jobs, one trouble of the network; one plan, three actions, one token,
  versions to 3; two commands of two steps, three runs, so that two loops can be
  left over; two requests in the Godot window and five acts of the user; two
  native runs, one changed request, one trouble, one failed window.

Every run sets `CHECK_DEADLOCK FALSE`: the bounds, and the end of a job, a run or
a script, are places to stop.

Fairness is stated where it is used, and clients and users never have to do
anything, nothing crashes by obligation:

* `AisGateway`: a reconnect timer that is set fires. `RlTrainingJobs`: the event
  loop runs what it scheduled, resumes what was awaited, and training is a
  bounded number of episodes. `FencedLease`: the clock goes on, and a process
  keeps calling `acquire` and finishes the call unless it dies (there is no
  blocking operation in it).
* training page: the answer of a policy test comes or its fifteen seconds pass,
  and the replay interval ends. Evidence centre: the poll timer fires, and its
  calls are answered or aborted (each has a timeout). Assistant: a delay ends.
  Godot window: the post timer and the script's interval fire, messages arrive
  and the engine does its part. Native validation: both event loops go on, a
  killed process ends, the ninety seconds of a job pass; that the poll which sees
  this is served once if it is sent for ever is the one strong fairness, because
  an earlier poll may be in flight each time. The process itself never has to
  write or to end.
* `engines` states none: nothing there waits.

## What the code does not keep

Each is a run that TLC finds violated; the quoted text is in `PROJECT.json`.

* late_inference: a second `infer` on a snapshot that ends after the first
  proposal was executed replaces it in the map, and the report reads pending.
* retry_after_rollback: `execute` retried with its key after the rollback is
  answered with the stored receipt and sets the proposal back to executed.
* store_journal_gap: a crash between rename and append leaves a generation that
  the verified journal never mentions, and later commits build on it.
* store_two_processes: two processes can both pass the generation check.
* lease_crash: a process that dies in `acquire` leaves the lock file forever.
* jobs_late_cancel: a cancellation accepted while the checkpoint is written does
  not stop the job.
* grouped_calibration: the grouped dataset says its capacities are calibrated on
  the train segment; they were calibrated on three of its validation records.
* replay_without_gates: the champions of the ladder are replayed without the
  gates that serving applies.

Seen while modelling, without a run of its own. The first three contradict a document;
the property beside them says exactly what the code does instead. Of the others no
document says otherwise, or the model does not reach them:

* intake (`ReleasesOneCut`): an envelope with a known id and digest but another
  sequence and `observed_at` is answered as an idempotent replay and replaces the one in
  memory (server/operatorIntegrationGateway.ts:525-541). Freshness and alignment are
  judged on the evidence (591-628), the timestamp and lineage of the released record are
  taken from memory (688-693), so a record may carry times that are not aligned, or a
  sequence that fell back. docs/REAL_PORT_DATA_INTEGRATION.md:22 says that a sequence
  which falls back is refused, line 26 that nothing is released when times are not
  aligned.
* data (`KeepApart`): with 20 to 25 public months, which the loader accepts, the
  business dataset has no record to validate on, and with 20 to 24 it is tested on
  records it was trained on, while server/portBusinessDataset.ts:375-379 reports
  `chronologicalSplit: true` and `validationExcludedFromTraining: true` whatever the
  segments are. The public file has 377.
* data (`ClaimIsBacked`): docs/DATASET_CONTRACT.md:57-58 says `operationalClaimAllowed`
  is false when the arrivals of the later segments drift significantly; the drifts
  are reported (server/portTrainingDataset.ts:273-274) and the claim (269-272) does
  not look at them. The model has no drift, because nothing the code decides depends
  on it. The same lines compare a coverage that was rounded to one digit with 100:
  from 2000 records on, one in 2000 may lack its weather or incidents under a claim.
* control and proposals: a key used for two plans reports the second executed
  with the receipt of the first; a rollback installs a hold over whatever is in
  the slot, so rolling back one subject ends the effect of another; a decision
  is executed however old its snapshot is; a torn journal line blocks all later
  commits; a training job cancelled between the shift and its callback still
  starts.
* core policy: arrival smoothing with a tide window (or with a neighbour-port
  advisory) always exceeds the diverted share the gates admit, so the whole plan
  is held; `safetyProjectionClean` cannot fail behind the masks;
  `operationalActionFromPlan` says 'hold-plan' for plans that only prioritise
  pilots or maintain; the queue relief takes vessels off the queue without
  serving them; one per cent of at most seven arrivals rounds to none diverted;
  the battery is clamped at its reserve while the peak shaving goes on supplying.
* learning: the predictive controller of the benchmark reads the records it
  predicts; the first state already holds part of the demand the first step adds;
  deferred demand vanishes in the core environment; the tabular benchmark's
  backlog stays in bin 0; the core training's record before the first is the last
  one; the business script replaces an admitted report by one that is not, and
  evaluates its forecaster on the test records before the choice.
* data: 20 records are accepted, of which two validate and none can be tuned on
  (docs/DATASET_CONTRACT.md:28 asks for four); records are sorted by the text of their
  timestamps, which is not their time when offsets are mixed; two terminals of one
  port with the same timestamps are always refused; a load that reads the adapted file
  while another load of the same rewrites it fails; manifest and file may be of two
  revisions.
* fitted candidate: nothing keeps the policies that were validated from being
  trained again before the lock; `trainCoreFittedSeed.ts` compares one source file
  of the engine's; a crash between two of the files written once leaves a
  directory that no script goes on with.
* page: an inference without an injected event moves the dispatch phase beside a
  running sensing phase; the second of two pending validation phases keeps the
  time of the first; a feed polled faster than it answers aborts every request.

## Proofs

One module of proofs per group of modules; every theorem holds for every value
of the constants that satisfies the named assumptions. Each starts from an
inductive invariant, `[]...Inv`, whose conjuncts are what follows in brackets
here; TLC checked each of them on an instance before it was proved.

`OperationalControl_proofs`, decisions and plans on the control slot:
`TypeCorrect`; `AtMostOnce`, no control is applied twice; `Truthful`, statuses and
receipts say what was applied; `TwoPeopleApprove`; `Final`, an executed decision is
never lost, replaced or approved again; `OnItsSnapshot`; `Closed`, no step applies a
control while the gate is closed; `BooksAreKept`, the receipts and the audit trail
tell the life of every decision; `Refinement`, `SimulationRelease` is implemented.

The argument is the clock. "Applied at most once" is not inductive: a creation
in the same millisecond could replace an executed decision by a pending one,
which could then run again. It cannot, because identities contain the tick of the
snapshot, an execution forces a tick (the gate requires a running simulator), and
creation and core execution use the current tick. So the invariant adds
`MadeFromThePast` (what is stored was made from a tick that was reached) and
`ExecutedIsPast` (what was executed was made from one that has gone by), next to
`StatusCounts` (the status is the number of applications) and `ApprovedByTwo`.

Assumptions: `SimulatorAssumption` and `ControlAssumption` (sorts of the
constants and that subjects are decisions and plans), and `RoleAssumption`: an
approver's role is one of the two of the declared type. The HTTP boundary does
not check that type; without it two approvals with roles of both kinds still
exist, but one of the two different people could carry an unknown role.

`CoreProposals_proofs`, the routes: `RoutesUseTheService` (every behaviour of the
routes is one of the service, so its theorems hold behind them),
`RunsWhatWasApproved`, `ProposalsKeepTheirWord` and `ProposalRefinement` (what the
routes release was approved, once). A suspended route still holds an object it
looked up under its id [an object keeps its plan and snapshot, an approval only
grows, a pending call names an object that exists]. That reports are earned is
proved where no key is shared between plans (`SharedKey = {}`); a shared key is
the divergence named below.

`FencedLease_proofs`: `Fencing` (no number is given twice, and who passes
`assertCurrent` has the largest) and `Undisturbed` (a lease is replaced before it
expires by its holder only). The argument is the update lock: whoever is inside
`acquire` is alone [`Alone`], so what it read of the lease file is still there
when it writes [`ReadIsCurrent`], and the file has the newest token
[`LeaseIsNewest`], so the number it counts up is new. A process that dies inside
leaves the lock, which keeps everybody out.

`RlTrainingJobs_proofs`: `QueueKeepsItsBooks` (slots are exact for any number of
slots and jobs, through cancellations, deadlines and restarts) and
`ServiceRefinement` (`TrainingService` is implemented, on which `RlTrainingPage` is
built). About the data of the jobs, `DataStaysEarned` in three parts:
`LoadsKeepTheirWord`, for any number of overlapping loads - what an adapted file is
made of is in its name, so a load that reads one back finds what it wrote itself or a
part of it [`FilesAreNamed`], and a part only while another load of the same pair
rewrites it - and `SegmentsStaySound`, for every number of months the loaders accept:
by month the cuts keep their order under rounding [`GroupsInTurn`]; by record they do
for 104 records and more, which 26 months have [`BusinessInTurn`], while of 80 to 100
the first 80 train, the last 20 test and none validates [`BusinessTooFew`]. That every disturbance occurs in every
segment is a fact about the 377 public months [`EverythingIsSeen`], which the theorem
has as its hypothesis. The third part is about the datasets themselves, for files of any
content and length: sorting puts every chosen position in its place
[`InsertedOrders`, `InOrderIs`], so the records are the valid rows of the port, once
each, their times grow [`TimesGrow`], and the record at nine tenths of the sorted train
segment has the rank it should [`RankIs`]; nothing later is among what was sorted
[`CapacitiesAreOfThePast`]. What a claim is backed by [`ClaimsAreBacked`] is arithmetic
of the rounding: a share that rounds to full lacks at most half a unit [`RoundedToFull`],
so of the records at most one in twice `FullCoverage` [`RowsLackNoMore`].

`Approvals_proofs`: `BusinessIsSigned` [an object of a proposal never changes what
it recommends, and its approvals are of different people with different roles] for
finite sets of people and roles; `GatesAreSafe` [the fields of a verdict were true
at the moment it was written, and approvals age with the clock].

`Engines_proofs`: `BenchmarkChoosesFairly`, for every acceptable number of records
[the segments lie in order; what was read so far was of the segments open at the
stage; the best candidate is the first of those scored]; `StoreIsReliable` and
`NothingAckedIsLost`, for any number of clients, generations, crashes, power
losses and damaged files. The store's argument is that all envelopes there are
form one chain in which each is built on the one before: the file has the newest
[`PrimaryIsNewest`], the previous generation one at most one behind what the
journal has acknowledged [`PreviousIsBehind`], the journal tells them in order
[`JournalInOrder`], and a commit under way extends the newest
[`CommitIsBuiltOnAll`]. It needs `OneProcess`: `store_two_processes` shows that the
conclusion fails without it.

Also there, `EvidenceStaysEarned`, from `ChampionStaysEarned` (any ladder, any grades)
and `CandidateStaysSealed` (any finite set of seeds, any number of edits and second
starts). Champion: the script that runs, and the report that is there, hold what an
earned report holds [`ScriptEarns`, `ReportEarned`], and no file is older than the
report beside it [`FilesInOrder`]. Candidate: what a script past the validation holds
had passed it [`FrozenFirst`]; one process at a time is past the lock, holds what it
locked, and opens the records for that only [`OneTest`]; who publishes holds the lock's
policies and sources [`PublishedIsLocked`]; before the first edit all that is trained
is alike [`UneditedIsAlike`]. `FlowsStayOneHistory`, for any tide, weather, arrivals and
number of ticks: that the kept ticks are one history which ends in the port is inductive
once every quantity has its range [`FlowShape`], so the work is the arithmetic of `Tick`:
that its queue, yard, charge and throughput stay in range for every control
`applyCoreControl` lets pass (`ControlEnvelope`), not only for those of a run.

`ReplayStaysSound`, for any records of the declared ranges, any horizon, noise and
rhythm of disruptions: what a step does with the demand makes and loses no vessel,
because deferred and diverted shares are together less than the arrivals [`MovedIs`],
and takes three tenths from the backlog before it adds what is deferred. So the
backlog stays below ten thirds of the most any month can defer, which is inductive
only with the month as a witness that may change: the present month's arrivals or the
month that bounded it before. What training has chosen for its next step is in the mask
of the next record and the next state [`ReplayInv`], so the projection never has to
correct it; choosing with the record of this step breaks that.

`PlansStaySafe`, for every situation and every vote of the heads (`Situations` and
`Abstentions` are any sets of such). That an approved plan is never refused by the
simulator needs the effect of an arbitrary plan: `Unclamped` is the loop over the rows
of the table `CoreEffects`, and what holds after every row [`IsSum`] is shown by the
least row after which it would fail. The sums are natural numbers, the six clamped
quantities lie in what `applyCoreControl` accepts because the two sets of bounds agree,
and the others because the route caps them [`EveryPlanFits`]; the diversion is in range
even before its clamp, as only the eighteenth row diverts. The interlocks follow from
the projection alone, whoever decides.

`Gateways_proofs`: `LiveComesFromOneStream` (AIS: of the sockets only the one the
gateway holds can still deliver); `RegistryKeepsModelsLoadable` (artifacts only get
damaged, so what verified late was sound early); `CommunityExplainsClearances`
[messages are numbered by their ids, keys of the chain are of messages that were
accepted, and a superseding decision takes effect later than all it supersedes];
`IntakeIsTrustworthy` [the window ascends, names each id once and ends with the newest;
memory holds an envelope that was sent, no further ahead of the clock than the skew], where
some feed other than AIS is dynamic: an adapter that is ready has in memory the payload
of the newest, because the window names an id once [`IdOnce`, `ReadyIsNewest`]; `BacklogStaysExact`, for any capacity and catch-up. A step of the supplement
lets go a part of what it holds, so it makes and loses no vessel [`StepKeeps`], nor do
as many steps as are due: `StepsFrom` is a recursive function, of which `StepsExist`
shows that there is one and `StepsKeep` that it keeps the balance, both by the least
number at which it would fail.

`TwinStaysPhysical`, also there: for any calls, berths, cranes, inputs and number of
steps. A step is two loops over the calls, one that gives berths and one that works the
berthed calls. Each round changes one call, to one that is as good [`CallIs`], at a berth
that was free or its own [`ReplaceOne`], so what the fleet is [`FleetIs`] is kept by every
round, and with it by the loop [`RoundByRound`, `RoundsExist`]. The moves of the work are
counted twice in the code, in what each call has left and in the two totals of the step;
that the counts agree [`WorkIs`] needs that a call is worked once, which is why the
constructor must refuse two calls of one identity [`SumOfOneMore`], and the cranes of a
round come from those the rounds before have left. The rest is the arithmetic of the yard:
a step that is refused after its calls were changed leaves its moves in no book, so the
invariant has them in `lost`.

`Page_proofs`:

* `BridgeMatchesResults` - a file, message or result is of a request that was
  made, and the timer is owed only for a request;
* `TrainingKeepsItsJobs` - no job is bound while a submission is out, and what a
  poll on its way will say is still true of the job unless it was cancelled;
* `EvidencePanelIsCurrent` - one refresh is alive, none while an action is
  unanswered, and nothing an answer carries is newer than the server;
* `AssistantStaysHonest` - a loop belongs to one run, and the flags follow the loop
  of the current run, however many older loops still wake up;
* `NativeWindowIsAccountedFor` and `NativeEndsOnce`, for every finite set of runs -
  a job of the service only goes forward; what the page saw of an ended job stays
  true of it until it is evicted; an exit owes two polls, of which the second
  begins after the process is gone and so reads the final file; every POST is
  awaited or was given up; a window of an earlier run is never open beside a
  running job.

Assumptions on constants are sorts, non-emptiness, finiteness and what constructors and
loaders check: `LeaseAssumption`,
`ProposalAssumption`, `JobsAssumption`, `BusinessAssumption`, `GatesAssumption`,
`BenchmarkAssumption`, `StoreAssumption`, `AisAssumption`, `RegistryAssumption`,
`CommunityAssumption`, `IntakeAssumption`, `BridgeAssumption`,
`TrainingPageAssumption`, `EvidenceAssumption`, `AssistantAssumption`,
`KeptAssumption`, `HookAssumption`, `ChampionAssumption`, `FittedAssumption`,
`FlowAssumption`, `ReplayAssumption`, `PlanAssumption`, `TwinAssumption`,
`RegulatoryAssumption`, `DataAssumption`. Every one is evaluated by the runs.

Proving changed the models where they were wrong or said less than the code: two
arms of the watch of a training job overlapped, the service of native validations
waits for all of its windows, and the bounds of the page are only numbers. Others were
put so that they can be reasoned about and say the same: the catch-up of
`RegulatoryRuntime`, the loops of `CorePlans` and `PortTwin` and the sorting of
`TrainingData` are recursive functions over the numbers of their rounds, `PortReplay`
gives the effect of an action by conditions, and the adapted files of `TrainingData`
are given by a function over their names.

Only model-checked:

* every liveness property and the fairness they need (`WaitsEnd`, `PageWaitsEnd`,
  `JobsEnd`): TLAPS does not handle fairness or ENABLED.

## Not modelled

* Scores, rewards, gradients and forecasts of the learners, in floating point: a
  score is any grade, a preference any action a mask leaves. The text formats and
  units of datasets, the forecaster and the robustness report.
* Vessel traffic safety: geometry over the tracks of one request.
* Rendering, the map, the panels and the arithmetic of the dashboards, which is
  most of `src/App.tsx`; the adapters that only fetch and reshape.
* Authentication, rate limits and transport. Signatures and hashes are taken as
  unforgeable and injective; requests refused before anything is read are
  stutters.
* The algorithm assurance gate and the reports: conjunctions over one document.
* The audit chain is projected on each decision. Restoring a checkpoint assumes
  the dataset it was trained on is still the one resolved.

## Plan

1. The remaining state machine of the page: the phases of a scenario and the data
   feed of `src/App.tsx`.
2. Abstract specifications: the store as a register, the lease as a sequence of
   leaders.
