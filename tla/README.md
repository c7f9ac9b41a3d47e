# Verification of gengui-core

TLA+ models of the core API of gengui (`src/` of the repository), model-checked
with TLC and proved about with TLAPS. `PROJECT.json` maps every definition of a
module to the lines of code it stands for, and lists the runs, the mutants that
show that a run can fail, the hazards, the findings and the theorems.

## 1. The system

An Express server, one or more identical processes ("Scale Core API
horizontally"), over one Postgres database, one Redis and one graph database.
There is no leader: processes coordinate through rows, a partial unique index,
row locks, and Redis messages that may be lost.

| component | its state | its operations | who else touches it |
|---|---|---|---|
| Job queue (`jobs/worker.ts`, `jobs/service.ts`) | the `jobs` table; per worker `isRunning`, `processingPromise`, `currentActivity` | create, claim, progress, complete / fail / cancel / pause, stale recovery | routes write `jobs.status` directly; Redis `jobs:notify:<type>` wakes workers |
| Activities (`services/activity.service.ts`) | the `activities` table | created at claim, settled with the job, retry, cancel, orphan sync every 30 s | workers, `routes/activities.ts` |
| Document analysis control (`routes/documents.ts`, `jobs/workers/document-analysis.ts`, `services/pipeline/`) | `documents.analysisStatus`, `documents.analysisCheckpoint`, the graph of a document | analyze, pause, resume, cancel, delete analysis; nine stages with a checkpoint | the pipeline polls `analysisStatus`, not the job |
| Usage quota (`services/usage/usageService.ts`) | `user_subscriptions`, `quota_reservations` | check and reserve under the subscription's lock, finalize, expire, clean up, reset the period | generation and analyze routes, the analysis worker, a cron |
| Media generation (`services/generationsService.ts`, `services/runpod/`, media workers) | `media.status`, its activity, Redis hashes, RunPod's jobs | create, augment, submit, draw, status jobs, cancel, two reconcilers | RunPod and the inference worker, every instance |
| Media library (`services/mediaService.ts`) | `media.deletedAt`, `document_media.deletedAt` | delete, restore, erase | the daily cleanup |
| Documents and versions (`services/documents.ts`, `services/versioning.ts`, `utils/diffUtils.ts`) | `documents`, `document_versions` | save, trash, restore, erase; diffs between versions | analyses record the version they read |
| Accounts (`services/auth.ts`, `auth/oauth.ts`) | `users`, `sessions`, tokens | sign up, log in, lock out, reset and change a password, delete an account and take it back | the daily cleanup |
| Server-sent events (`services/sse.ts`) | a log and connections in the memory of a process | subscribe, broadcast, replay | everything that announces something |
| Usage tracking (`services/usageTracking`, `imageUsageTracking`) | `llm_usage`, `image_usage`, the daily totals | record, report | every call of a model |
| Segments and mentions (`services/segments`, `services/mentions`) | `documents.segmentSequence`, `mentions` | cut a text, keep the ids, anchor | saves, stages 1 to 4 |
| Sentences and staleness (`services/sentences`, `services/staleness`) | `sentence_embeddings`, `analysis_snapshots` | embed, take a snapshot | stage 1 and the end of an analysis |
| Story graph (`services/graph`, `services/pipeline`) | nodes, facets, connections, threads, arcs and states in FalkorDB | stages 3 to 8, causal order, threads by hand, deletion | overlapping runs, routes |
| Review queue (`services/pipeline/mergeReview.ts`, stage 9, `routes/conflicts.ts`) | `review_queue` | detect, insert, resolve | |
| Batching (`services/contextBudget`, `pipeline/batchProcessing.ts`) | a calibrator in the memory of a process | plan and run the batches of a stage | every model call |
| Version upgrade (`jobs/workers/analysis-version-upgrade.ts`) | the job's checkpoint, a column of vectors | embed a graph anew, resumably | upgrade route, retry of an activity |
| Others | see `PROJECT.json`, "components" | | |

What is hard here, and why tests hardly reach it: every handler is a chain of
`await`s, so anything may happen between two statements; most writes of a status
are by id, on a snapshot read some awaits earlier; a worker runs up to three
chains of awaits at once; processes crash between two statements; stale recovery
cannot tell a dead worker from a slow one; messages are lost. The hazards, each at its
line, are in `PROJECT.json`.

What makes each component correct:

- *Job queue*: one active job per document; claims are exclusive; retries are
  bounded and charged once per stall; a finished job stays finished; every job ends.
- *Activities*: they tell the truth about their job, at least eventually; an
  outcome goes to the activity of the job it belongs to.
- *Analysis control*: a document is not left "analyzing" with no job; a cancelled
  or paused run stops; a checkpoint only skips stages whose results are there.
- *Usage quota*: what is consumed and reserved stays within the quota, and what is in flight within
  the tier's limits; a reservation ends.
- *Media generation*: an image shown as completed has been stored; one that RunPod
  was asked for settles, whoever dies.
- *Media library, documents*: what is hidden can be restored and what is erased goes for good;
  no text is overwritten that was not recorded; "no changes since the analysis" is true.
- *Accounts*: who knows the password gets in but for a lockout that ends; a changed password ends
  the sessions there were; an account is erased when it is due and not before.
- *Events*: no event twice on a connection, and none of the missed ones left out of a replay.
- *Usage tracking*: totals never above what was called, and exact without a race.
- *Stories*: a stage that is cut off and run again repeats nothing; a position
  is in the text it was found in; the causal graph has no cycle; a derived structure (order,
  components, states, transitions, batches) says what its input says.

## 2. Modules

| module | models | correspondence |
|---|---|---|
| `JobTable` | the rows of `jobs` for one job type, and each SQL statement on them | operators on a table; a statement is atomic in Postgres, so a step takes one of them |
| `JobLifecycle` | the abstract specification: what the table promises, whoever writes it on whatever snapshot | `Create`, `Take`, `ShowLife`, `End`, `PutBack`, `RunOut`, requeue and exhaust |
| `JobQueue` | every process' `JobWorker`, and the requests | `thread[<<w, c>>].pc` is the await at which chain `c` of worker `w` stands; one action per await; `processing` is `processingPromise`; `request` is where a route handler stands |
| `JobActivities` | the activities and the awaits that write them | each action is one of `JobQueue` plus the write it owes (`debt`), or an await that pays one; the settlement after a sweep reads an activity and writes it in two of them |
| `AnalysisControl` | `processJob` of the analysis worker, the control of the pipeline, and what the routes write to the document | `document` and `checkpoint` are the columns, `results` the version that each stage's results are of; `run[<<w, c>>].pc` is the await of the run, `chore[r]` what a route has yet to write |
| `UsageQuota` | `checkAndReserveQuota` as a transaction that holds a row's lock from its first statement, the reservations (which it does not lock), the runs of an operation and `finalizeReservation`, the cleanup, the period | `ask[o]` is the statement at which the transaction of `o` stands, `draft` its uncommitted row; a throw rolls back; `loose` and `excess` (history) name what the check no longer covers |
| `MediaGeneration` | the request, the workers, four providers, the status jobs, the cancellation, the reconciler of each instance and the cron, all of which write one media row by id | `maker[m]` is where the request or worker stands, `sight[i][m]` what a reconciler has read; `deployment` is chosen once |
| `Accounts` | `auth.ts`, `oauth.ts`, `requireAuth`, the cleanup of users | `login[l]` is a login between its awaits, with the row as it read it; `writing[u][h]` counts the handlers (of a password, or of unlinking Google) between their check and their UPDATE, which asks nothing of the row, `ending` those that have yet to delete the user's sessions |
| `Documents` | a save as its chain of awaits, versions, trash and erasure, the mark of an analysis | `save[s].at` is the await; `version` the recorded texts, whose number is `currentVersion` |
| `DiffUtils` | computing, inverting and applying diffs, and chains of deltas | operators on sequences of lines; a loop is the function of the states after its iterations; the empty text, which `computeDiff` takes for one empty line and `applyUnifiedDiff` for none, is left out |
| `MediaLibrary` | deletion and restoration, two UPDATEs each | `deletion`, `restoration` hold what the SELECT before them chose |
| `EventFeed` | abstract: what a listener is promised | |
| `EventStream` | one process's log, connections, replay with its awaits, restart | implements `EventFeed` (`INSTANCE EventFeed WITH ...`: the feed is the user's own channel) |
| `UsageTracking` | log rows, daily totals by read-modify-write, the atomic upsert for images, reports | `recording[c].at` is the await |
| `EntityExtraction` | stages 3 and 4: ids for names, nodes, facets, mentions, checkpoint after each batch | `work.at` is the query of stage 4 that comes next |
| `StoryGraph` | finding, checking and creating connections, three queries each | `writer[w]`; the cycle query's answer is `Path`, the least set closed under causal connections, which is what a path of at most 50 steps reaches while there are at most 50 nodes (`LongestPath`) |
| `CausalAnalysis` | Kahn's order, components, pivotal nodes | the loops are the actions |
| `NarrativeThreads` | stage 7's threads and the routes' | `creation[m]` |
| `CharacterArcs` | stages 7 and 8: arcs, states, facets moved to states | `arcRun.at` is the next query |
| `TextAnchors` | cutting a text, ids kept, the runs' own segments, mentions | `reader[r]` holds what a run has read |
| `ConflictReview` | stage 9 and its parallel insertions, merge signals, resolution | `stage9[a]`, `verdicts` |
| `Sentences` | vectors and snapshots of versions, and what tells stale sentences | `embedder[r].at` is the next statement; `recorded` the values that `lastAnalyzedVersion` has had; `unsaved` (history) the versions left without a snapshot of their own |
| `ModelBatches` | the budget, the batches, their answers, the calibrator | `workload` is chosen once; `plannedBy` (history) is the calibrator that the plan was made with |
| `VersionUpgrade` | the route, the resumable job, the retry of its activity, recovery; stage 8's moves of facets to states beside it | `upgrader[w].at`; `onNode` holds the facets that `getFacetsForEntity` lists |
| `MCServices`, `MCStory`, `MCSettling` | instances of these modules, see section 3 | |
| `MCJobQueue`, `MCJobActivities`, `MCAnalysisControl` | instances for TLC | model values; `RecoveryAtOnce`, see section 3 |
| `JobQueueProofs`, `JobControlProofs` | the proofs about the table and the queue; about the activities and the control of analyses | the second EXTENDS the first |
| `ResourceProofs`, `ServiceProofs`, `StoryProofs`, `StageProofs`, `DiffProofs` | the proofs about quota, usage, media and library; accounts, documents and events; upgrade, threads, graph and extraction; sentences, the review, the arcs, the batches, the anchors and the causal order; diffs | see section 4 |
| `RecursionProofs` | what functions defined by recursion compute | facts that `StageProofs` and `DiffProofs` share |

`JobActivities` and `AnalysisControl` EXTEND `JobQueue`, which EXTENDS `JobLifecycle` and it `JobTable`, so a
property of a lower module can be checked, and is proved, in the ones above it.

Abstractions of the queue. The payload, the progress value, error texts, worker ids and the
user are left out. `created_at` is the row's number. The two clocks of a job
(10 minutes since its claim, 5 since its last progress) are one flag, `stalled`:
they run out for a job that nobody holds, and, as the upset "stall", for one whose run is slow.
`processJob` is abstract, as it is in the class: it reports progress and returns
or throws one of its four results. A message may come at any time, which covers every
publisher, the notifications of other documents' jobs, and losing one. What can go
wrong (`Upsets`: stall, steer, restart, fault) is bounded by `MaxUpsets`, the rows
by `MaxJobs`, requests in flight by `Client`, failing activity writes by
`MaxLapses`. `reopened` and `stalls` are history variables; nothing reads them
but the properties.

`ConflictIsNull` says whether `create()` recognises the unique violation. It looks
for `error.code`; the locked drizzle-orm (0.45.1) wraps the driver's error and has the
code in `error.cause.code`, as the test helper's `error.cause?.code || error.code`
knows. With FALSE the analyze route fails instead of looking
for a stale job, and a stale job can only be cleared by the recovery. The safety
runs take TRUE, which has more behaviours; the liveness run FALSE, which has
less help.

In `AnalysisControl` what the stages compute is left out: a result is the version
of the document that the run read. The output of stage 3, which lives in the
checkpoint until stage 4 writes it to the graph, is a flag. Stages 5 and 6 run
together and are saved as 6. An instance has a few of the stages (`Stages`): 1,
which names the version in the checkpoint; 3, which saves batches and hands its
output over through the checkpoint; 4, the first that writes to the graph. The
others differ from 4 in nothing the control sees. Left out are the
migration of old checkpoints, the content of a batch's progress, and the reservation and
the snapshot around the pipeline (their failures are `PipelineError`). `document.version` stands for
the content too; the code writes the two in separate awaits, which is for
the module of documents. The ghost `disturbed` holds the documents for which the code
gives no guarantee: two runs overlapped, something was cleared or deleted under a
run, or the graph was deleted while a checkpoint was saved. That is so when a deletion empties the
graph before it clears the checkpoint, and when a cancel, which clears it first, deletes the graph
only after the next run has saved one. A completed reset takes a document out again.

The modules after it. Names, texts and vectors are values of small sets: a vector
is "there, of this input", a text a value or (`DiffUtils`, `TextAnchors`) a short
sequence. What a language model may answer is a set of answers; in particular it may
contradict itself and name what is not there. Times are flags (`stale`,
`fresh`, `due`): a clock that matters runs out at any moment. A Postgres statement and
a FalkorDB query are atomic, two of them are not. A ghost (`loose`, `excess`,
`overlap`, `blind`, `late`, `cut`, `moved`, `torn`, `raced`, `shared`, `overwritten`, `readTogether`, `unsaved`) marks where the
code gives no guarantee, and nothing but the properties reads it; which is how a property says
exactly when it holds; the hazard's note in `PROJECT.json` says so where the case is the hazard's own. RunPod, Redis' expiry and the inference worker are external and do what the
code expects of them, at any time. What each module leaves out is in its header.

## 3. Runs

| run | expects | what it shows | bounds |
|---|---|---|---|
| `JobQueueSafety` | pass | type, one active job per document, retry accounting, bounded overlap, finished jobs final, and that the queue implements `JobLifecycle` | two jobs of one document (the least that conflict), all three chains of one worker, one request at a time, any two upsets: enough for a stale recovery under a live run followed by a pause, a crash or an error |
| `JobActivities` | pass | types; the sync repairs what is left running, though a settlement writes by what it read | one job that is failed at its first stall (`MaxRetries = 0`, so that every way to settle happens), every request, one upset and one failing activity write |
| `JobActivitiesLive` | pass | every job ends | two jobs of one document, two crashes or shutdowns at any step |
| `AnalysisControl` | pass | a checkpoint that will be trusted skips only stages whose results, of that version, are there; an analysis is recorded only for a version that every stage has seen | one document, two jobs, stages 1, 3 (with a batch) and 4, one restart or failing query of the queue, one edit, one failing query of the analysis: enough for a run that dies or fails at any await, an edit, and a second run that resumes or starts over |
| `AnalysisSteering` | pass | the two properties of the document under pause, resume, cancel and deletion at every await | one job, stages 3 and 4, any two of pause and resume, any number of cancellations and deletions |
| `PausedUntilResumed` | violation | a paused job is claimed at once, without a resume | one worker, one job |
| `RejectedPromise` | violation | one failing query in `failJob` wedges the worker | one worker, one job, one fault |
| `OwnActivity` | violation | two chains of one worker share `currentActivity` | one worker, two documents |
| `NoInconsistency` | violation | a cancel during stage 4 leaves a checkpoint that fails the next analysis | one worker, two jobs of a document that was never edited |
| `Services` | pass | the twelve properties below, of what does not concern stories | below |
| `Story` | pass | the ten properties below, of an analysis and its graph | below |
| `Settling` | pass | every reservation ends; every image asked of RunPod settles | one image, two instances of which one must keep reconciling; an analysis and an image of one user, an image of an admin |

The last three are composed runs. The parts that share no state are checked together: `MCServices`, `MCStory`
and `MCSettling` EXTEND the modules of several components; a variable `part`, chosen in `Init`, names the one
that moves, the others stay at one initial state (`Pinned`, `StayBut`). The state graph is the disjoint
union of the components' graphs, and `VIEW` drops the variables that stand still. A
property is then checked of its own component in all its behaviours, and trivially of the others.
Where components do share rows (queue, activities and analyses; image, activity and status jobs;
saves and analyses; segments, mentions and analyses), one module has both sides.

| `Services` checks | of | what could break it | bounds |
|---|---|---|---|
| `QuotaRespected`, `InFlightBounded` | `UsageQuota` | checks racing with expiry, cleanup, a second run, a new period | three operations of a user (an analysis that runs twice, two images), quota 40, 35 or 39 used, at most two in flight, one month; of one operation at most the reservation loses the cover of its check (`QuotaBound`) |
| `CompletedHasImage` | `MediaGeneration` | six writers of one row | one image, two instances, five deployments (the ways provider and configuration combine; two reconcilers only with RunPod), one retry |
| `AccountCanLogIn`, `OldSessionsEnd`, `DeletedWhenDue` | `Accounts` | a login across a lockout, a password change or a deletion; handlers that overlap between their check and their UPDATE | one user, one login, lockout after 2, one deletion of sessions at a time; in two parts: one handler at a time and one change of password (`LoginsBound`), or two handlers at once and two changes, without deletions and wrong passwords, and mails of addresses only before the first change (`HandlersBound`) |
| `EditsKept`, `NoChangesMeansAnalysed` | `Documents` | overlapping saves, an analysis between a save's two writes | two saves, two texts, two versions |
| `DiffsSound` | `DiffUtils` | a patch on repeated or marker-like lines | every text of one or two lines over `a`, `b`, `--x` and of three over `a`, `b`, three longer ones with repeated and moved lines; context 0, 1 and 3; chains of two deltas |
| `ShownOrRestorable` | `MediaLibrary` | a crash between two UPDATEs, a restoration of what was deleted since | two images, two deletions, one restoration; at most one image torn by a death between its UPDATEs (`LibraryBound`) |
| `EachEventOnce` | `EventStream` | broadcasts between a replay's awaits, a log that is cut, a restart | one browser, one document's channel, log of 2, four events, one restart |
| `UsageAccounted` | `UsageTracking` | lost updates, two rows of one day, midnight | three model calls and an image of two users, two days; the image, which shares no row with them, is counted while no model call is (`UsageBound`) |

| `Story` checks | of | what could break it | bounds |
|---|---|---|---|
| `FacetsOnce` | `EntityExtraction` | stage 4 cut off and run again, names that change their entity | two names, one a pronoun, one other facet, two batches, two analyses, two crashes, five ids |
| `CausalAcyclic` | `StoryGraph` | two runs that each check, then write | three nodes, two runs; at most one connection created by a run that had been overtaken (`GraphBound`) |
| `CausalSound` | `CausalAnalysis` | cycles, ties, missing orders | four events, six graphs, every assignment of two orders |
| `ColoursDistinct` | `NarrativeThreads` | two makers between reading and writing | one analysis, one editor, two colours, three threads |
| `FacetsHeld` | `CharacterArcs` | stages cut off, deletion under a run | two characters, three facets, three states, two arcs |
| `AnchorsHold` | `TextAnchors` | a run that writes segments of an older text | three texts, one run, six ids, one mention |
| `ReviewSound` | `ConflictReview` | an insertion that fails beside others | three facets of one entity, one run, every order of the signals |
| `SentencesSound` | `Sentences` | a text that changes under a run, a request between a snapshot's two statements, a death there | two runs, three texts, one of them without a sentence, two versions; of a second version stage 1 runs alone, and beside a run of it another is only at its end (`SentencesBound`) |
| `EveryItemAsked` | `ModelBatches` | overlaps, a batch that does not fit, lost batches | six workloads |
| `UpgradeComplete` | `VersionUpgrade` | a job taken over, cancelled, retried; a facet moved away under it | one node of two facets, one of them of type 'state', two workers, batches of one, one retry; two workers overlap only until the facet is moved, and a deleted story, of which nothing is claimed, is not followed further (`UpgradeBound`) |

One row, user, image or document is enough wherever a statement only ever names one by its id: what
interleaves is the chains of awaits on it. Two are used where the code compares rows
(quota sums, colours, cycles, duplicate names, two images of one document). No mutant in `PROJECT.json`
survives these bounds. Those with a name in the tables cut off combinations that would make a run
too long; the theorems of section 4 have none of them.

Three chains of awaits in one worker interleave on the table exactly as chains of
two workers would, since the statements, not memory, are what they share (the
one shared field, `currentActivity`, is the subject of `OwnActivity`); that is
why one worker is enough to reach concurrent claims, concurrent sweeps and runs of
one job by two chains. `CHECK_DEADLOCK FALSE`: users may stop asking, and the job rows of the
bound may be used up.

`AnalysisSteering` has the action constraint `RecoveryAtOnce`: a chain in
`recoverStaleJobs` moves first. Nobody crashes or stalls there, so recovery finds no
stale row and changes nothing; the constraint only removes the places it could
wait at.

Fairness (`FairSpec`, `ActFairSpec`). An await that can return does (WF of the
steps of threads and requests); a process that is down is started again; the
shutdown's exit happens (it has a 5 s limit); the clocks of a job nobody works
on run out. The poll timer is strongly fair: it ticks for ever but is ignored
while a run is under way, so weak fairness would say nothing, and strong
fairness excludes only a worker that is busy at every single tick. Nothing forces users,
messages, stalls of a live run or failures. `SyncFairSpec` only assumes the
sync timer and its writes. `QuotaFairness`: reservations expire and the cron runs its cleanup; nothing
forces an operation to end. `MediaFairness(i)`: instance `i`'s reconciler begins its rounds for ever, and its
queries and its process do not fail every single time (SF), a job of RunPod ends (the submission sets an execution
limit), an old row grows stale; no other instance, no worker and no request need do anything.

## 4. Proofs

Every theorem holds for every finite set of workers, of users, of requests and of whatever else is a constant,
and for every bound. The assumptions are those that the modules name (`JobTableAssumption`, `UsageQuotaAssumption`, ...):
bounds are natural numbers, sets that are counted are finite, special values are outside of the sets they are added to.
Five say more. `UsageQuotaAssumption` starts within the quota, as a new period does. `StoryGraphAssumption` has no more nodes than the
50 steps that the code's cycle query follows: beyond them the code promises nothing, and nothing is proved.
`NarrativeThreadsAssumption` has a palette of at least one colour. `ItemsCanBeAsked` has room for any single item, with
another as overlap, before the calibrator backs off: segments have at most `HARD_MAX_SIZE` characters (segment.types.ts:43), and
of an entity only its name and a few facets are sent. `TextAnchorsAssumption` has sizes that fit one another, as those of
`SEGMENTATION_CONFIG` do: a split that looks for white space stays within `HARD_MAX_SIZE`.

The inductive invariants are in the proof modules, each part named and explained where it is defined, and each was
first checked by TLC, as an invariant of the run.

**The queue**

- `LifeSpec => []OneActivePerTarget`. Inductive with the type invariant: only `Create`
  and `PutBack` make a row active, both through the index; a requeue keeps the row
  active. Lemmas `NoneBecomesActive` and `OneBecomesActive` carry every action.
- `LifeSpec => []RetriesAccounted`. Not inductive: a stalled job about to be requeued must
  have a stall in reserve. `RetriesInv` strengthens it with
  `Reserve(j)`, 1 while the job is processing and stalled.
- `Spec => []TypeOK`, with the parts a step relies on: who is past a claim or a read names an
  inserted row, and rows are never deleted (`Follows`).
- `Spec => LifeSpec`: every step of workers and requests maps to a step of the abstract
  specification or a stutter. The two invariants above then hold of the queue for free.
- `Spec => FinishedIsFinal`, from the type invariant, action by action.
- `Spec => []OverlapAccounted`, inductive over all actions with cardinalities of `Holders`: a
  claim turns one claimable row into one holder; only a requeue, a pause and a
  request make a row claimable, and each is charged to `retryCount`, to the holder that
  leaves, or to `reopened`.
- `ActSpec => []ActivitiesOK`. What holds of the queue holds with activities, since each of their actions is one of the
  queue's or leaves it alone (`ActivitiesKeepQueue`).

**The control of analyses**

- `AnSpec => []AnalysisOK`; the queue is as it was, likewise (`AnalysisKeepsQueue`). That a run is under
  way only in a thread that is in a job is not inductive by itself: it needs that a process that is
  down runs nothing and that the main chain runs only while `processingPromise` is set (`WorkersOK`),
  since starting and waking a worker overwrite a thread; and that only the steering routes
  write a status (`WritersOK`).
- `AnSpec => []CheckpointSound` and `AnSpec => AnalysisComplete`, from `SoundInv`. A checkpoint is written by a run that read the
  document, the checkpoint and the job at different moments, so what it says must hold while it is in memory. For each document
  that is not `disturbed`: at most one run is under way (`Alone`); a checkpoint is backed by the results for *its own* version
  (`Trusted`: the version of the document moves on under it, and never back to it);
  a run at stage k has the results of its version for every stage below k, and its checkpoint says no
  more (`AtStage`); before it has validated a checkpoint it holds nothing else (`RunFits`). The proof shows, step by step, that whatever
  another document's run does touches none of this (`RunsStay`, `ColumnsStay`), and that a step which could is one that
  makes the document `disturbed`. The attempt found that the ghost missed the cancel of section 2: TLC then showed it
  with two clients, and the module was corrected.

**Quota and usage** (`ResourceProofs`)

- `QuotaRespected` and `InFlightBounded`, from `QuotaInv`. What the strict check compared must still hold when the reservation is
  inserted (`StillAllowed`), although it locked the subscription and not the rows it added up. It does, since only the
  holder of the lock inserts (`LockHeld`) and everyone else takes away; a row that expired is `loose` (`ExpiredIsLoose`).
- `UsageAccounted`, from `TrackingInv`: who has counted what, by row and by call (`By`), first for the user and then for everyone
  (`UserFirst`, `AllFollow`), and `OneWriter`: until two calls read a day's total at once, the one that writes it has
  read what it holds.

**Images** (`ResourceProofs`)

- `CompletedHasImage`, from `Stored`: a completion on its way, as a job, as a run of one, or in the memory of the worker that drew the
  image, already has its key, since the key is written before anybody says so and no writer takes it away.
- `ShownOrRestorable`, from `Claimed`: an image whose row and link disagree is in the hands of a request between its two UPDATEs.

**Accounts, documents, events** (`ServiceProofs`)

- `AccountCanLogIn`, `OldSessionsEnd` and `DeletedWhenDue`, from `AuthInv`. An unlinking under way was admitted with a password, which nothing takes
  away; sessions are compared with the last epoch that a handler began which ends sessions (`ends`). To be inductive it needs that an account that the cleanup has listed is still
  there, and due unless it was moved since (`SweptAreDue`).
- `NoChangesMeansAnalysed` and `EditsKept`, from `DocInv`: what an analysis read is the text as long as its version is the
  last (`Reading`), what a save read is the text until another writes, and is a version when it is about to be overwritten (`SaveSound`).
- `EachEventOnce`, that `EventStream` implements `EventFeed`: each step maps to a step of the feed or a stutter, from `StreamInv` (numbers in
  the log are of one event each and not above the counter; what is still to be replayed was not sent on the connection). Broadcasting with a full log
  drops the oldest events, which is what the feed calls being lost to those who are away.

**What an analysis makes of the text** (`StoryProofs`)

- `UpgradeComplete`, from `UpgradeInv`: what a run has in memory or has saved, as its job's or as another's whose job it took over,
  is true of the graph (`Sound`), and stays so because, while the story is there, vectors are only added and facets only leave
  their nodes. What it says is said of the facets still on a node; those moved to a state may never be listed. It also needs where a run may be in
  which stage, and what its batch is then (`Shaped`).
- `ColoursDistinct`, from `ColourIsFree`: until another thread is made, the colour a creation picked is no thread's. The
  least unused colour exists and is unused (`LeastIsThere`, by well-foundedness of the naturals).
- `CausalAcyclic`, from `AskedSound`: an answer that no other run's connection has outdated is still true when the connection is
  created. `NoCycleIsClosed` then says that a connection whose ends were not connected the other way closes no
  cycle, by a closed set that has one end and not the other.
- `FacetsOnce`, from `ExtrInv`: a facet about to be made is not attached yet (`MakesNew`), and of the entities that the run in stage 4, or
  the checkpoint it left, has done, nothing is missing (`AllDone`).

**Single stages** (`StageProofs`)

- `SentencesSound`, from `SentenceInv`: what a run is about to store is its sentence's vector, wherever it was taken from, and what it
  is about to record are sentences of a text it got through. Snapshots then say nothing else, whichever run wrote them last. A version that
  was recorded, or is about to be, has its snapshot, unless a run is replacing it or has left it without (`RecordInv`).
- `ReviewSound`, from `ReviewInv`. Of a run of stage 9: what it found is in the queue, or it has yet to insert it (`RunRecorded`), and a
  rejected insertion keeps the stage from being saved. Of the signals: the confidence of a group is at least that of each of its
  signals (`HighestIsHighest`), by induction over the loop.
- `FacetsHeld`, from `ArcInv`: as long as a character is there, the arc and the states its run has at hand are its own and linked to
  it (`ArcUnderway`); nothing leads from a state that is not (`Arcs`), so that a deletion, which unlinks them all, leaves no
  transition behind. `TargetsAreRight` says that the state chosen for a facet is one that `getStateAtPosition` may find.
- `EveryItemAsked`, from `BatchInv`: in the middle of a plan, what comes before the next batch is in one or was answered before
  (`PlanSound`), and of the batches that a stage has passed every item is answered (`AskSound`). `BatchIs` says what one batch
  is, `HalfFits` that the half of a batch fits (a batch is judged by the calibrator its plan was made with, `plannedBy`, and by what the plan counts), `OneFits` that a single item does before the calibrator backs off, and
  `SortIsPermutation` that stage 6 sorts its items and loses none: an item's rank is how many come before it.
- `AnchorsHold`, from `AnchorInv`: the segments a run holds are of the content as long as the run is not outdated (`ReaderSound`), an id
  is given once and later ones are higher (`OwnIds`), and a mention that counts as fresh is placed in the stored
  segments (`HeldBy`). `RangesAre` says that the ranges cut any text: the loop over the boundaries keeps some of
  them (`KeptAre`), the loop over an oversized part goes on by at most `HardMax` and reaches its end (`SplitIs`), so that from
  everywhere in the text the next end is near enough (`EndsAre`), and sorting the ends keeps them all (`AscendingIs`).

- `CausalSound`, from `CausalInv`. Of the order (`OrderInv`): a degree counts the causes that are not ordered yet, and a node has degree 0
  just when it is ordered or queued, so that at the end every node left out has a cause that is left out. Of those
  that lead to such a node, one that fewest lead to is on a cycle (`LeftOutIsBehind`); that no cycle leads to an ordered one
  follows from the positions (`OrderedIsFree`). Of the threads (`ThreadInv`): ended components are whole, and only what is queued may have
  neighbours outside the one being built. `PivotalIs` compares the components with and without the node: those that it is not in are
  the same, and its own falls into as many as its neighbours are in. `Connected` and `Leads` are least closed sets, as in `StoryGraph`.

The type-correctness theorems of these modules (`QuotaTypeCorrect`, `TrackingTypeCorrect`, `MediaTypeCorrect`, `LibraryTypeCorrect`, `AuthTypeCorrect`,
`DocTypeCorrect`, `StreamTypeCorrect`, `UpgradeTypeCorrect`, `ThreadTypeCorrect`, `GraphTypeCorrect`) come with those invariants.

**Diffs** (`DiffProofs`)

- `DiffsSound`, for any texts, any context and chains of any length. The invariant is small (`DiffInv`: each delta was computed from a text and
  the next); the work is in what the functions of `diffUtils.ts` compute. The walk back through the table ends with lines that both texts
  have in order (`LCSIs`; that there are as many as can be is not needed, nor shown). The edit script
  keeps, removes or adds each line once, and reaches the ends of both texts, since its third branch always applies while one is left
  (`EditScriptIs`). The hunks have every change of the script, in order and apart, with exactly the lines between their ends
  (`GroupIntoHunksIs`; the invariant of the loop says what was added so far and how far the last change lies back). Of a hunk applied where it starts,
  the text grows from the new text before the hunk to the new text after it, and between two hunks nothing changes (`ApplyHunkIs`, `GapIs`,
  `ApplyIs`). An inverted diff has the hunks of the script with the two texts exchanged, as long as no line begins with `--`
  or `++` (`InvertIs`), so the same argument holds for it, and then for a chain of them (`ReconstructIs`).

**Recursion** (`RecursionProofs`)

- The library's induction takes an operator, which the provers cannot instantiate. `SetInduction` is over a set of
  naturals, from well-foundedness; `Recursion` says that a function defined by recursion on the naturals exists, so that the
  equation of a LET may be used; `LoopIs` and `LoopKeeps` say the same of a loop of n iterations: that the function of its
  states exists, and that it stays in what each iteration keeps. Lemmas above that speak of a loop rest on these.

Only model-checked:

- Liveness (`EveryJobEnds`, `ActivitySettles`, `ReservationsEnd`, `GenerationsSettle`): out of the prover's reach, as ENABLED is.
- The four runs that expect a violation.

## 5. Findings

1. A pause does not last: `claimNextJob` takes paused rows, so the job goes on
   without a resume (`PausedUntilResumed`).
2. A rejected `processingPromise` is never reset; the worker stops polling and
   listening (`RejectedPromise`).
3. The untracked startup chain and the main chain share `currentActivity`
   (`OwnActivity`).
4. A cancel while stage 4 or a later one runs lets the stage's save create a
   checkpoint of version 0 with no output of stage 3; a document whose version is 0
   can then not be analyzed again (`NoInconsistency`).

Observed while translating, each visible in a module as an action or a ghost, and
not claimed against a line of documentation:

- *Analysis*: a cancel clears the checkpoint, then deletes the graph; an analysis started in between may have saved a checkpoint by then,
  which goes on to say that its stages are done (`DeleteGraph`).
- *Quota*: the strict path's `SELECT SUM(...) ... FOR UPDATE` (`usageService.ts:139-151`) is a statement Postgres refuses
  (`QuotaQueryFails`); the optimistic path leaves nothing to refund (`OptimisticDeduct`).
- *Media*: a stale "processing" status job sets a completed image back; a refused announcement marks a completed image failed
  (`AnnounceMade`); a cancelled row can be revived; attempts are counted from a snapshot; "augmenting" rows are never reconciled;
  a second "Job completed before cancellation" is swallowed (`AskRunPodAgain`); restoring a document's images
  revives those deleted one by one before.
- *Activities*: the settlement of an exhausted job reads the activity and then writes 'failed' by id (`worker.ts:386-395`): an activity that was
  settled in between is overwritten (`SettleActivity`).
- *Accounts*: `setPasswordForOAuthUser` looks for a password, awaits bcrypt and then UPDATEs, and ends no session (`auth.ts:858-882`): beside a second
  request, or a reset, it replaces a password and leaves the sessions of the old one (`SetPasswordForOAuthUser`); `auth.ts:136` says "You can reset your password to unlock immediately.", and `resetPassword` does not unlock; failed attempts
  are counted from a snapshot; a login by OAuth asks neither for a lock nor for a scheduled deletion.
- *Documents*: two overlapping saves may leave the older summary; erasing a document leaves its graph if
  narrative mode is off, and the cron never deletes it.
- *Events*: the replay covers only the user's channel; a live event during a replay moves `Last-Event-ID` past events not yet
  replayed; ids restart at 1 with the process.
- *Usage tracking*: the day is taken after the log row, so a call at midnight may be logged on one day and counted on the next.
- *Extraction*: `createFacet` makes the facet, then attaches it by a query that may match nothing and does not fail
  (`graph.service.ts:1618-1664`, whose comment says that it fails): orphans.
- *Graph*: a deletion leaves `CharacterState` and `Arc` nodes; a crash between a thread and its links leaves it without events for good.
- *Segments*: `updateDocumentSegments` and stage 2 may write segments of an older text over a save's.
- *Batches*: stage 6 sorts by segments but continues by the original order, so an entity may be in no batch
  (`calculator.ts:186-205`); stages 5 and 6 log "continuing with partial results" when `Promise.all` has dropped all of
  them (`pipeline.ts:1757-1760`, `1887-1890`); the calibrator multiplies without a bound and eases only after twenty batches
  under budget: once no segment fits, every stage 3 of that process fails until it restarts; a call sends, besides its batch, the segment before the
  batch's first (`pipeline.ts:949-956`), while the plan counts the last item of the batch before (`calculator.ts:218-229`), and on a resume counts none.
- *Sentences*: a resumed run skips stage 1 although the text has changed under the same version; old rows are never
  removed; a text without sentences leaves the older snapshot, or none. While the snapshot of a recorded version is being replaced, after a death between its DELETE and
  its INSERT, and when the recorded text had no sentence, nothing is called stale whatever the text (`staleness.service.ts:116-123`).
- *Upgrade*: facets that stage 8 has moved to a `CharacterState` are not listed (`graph.service.ts:1688-1700`, `2110-2123`) and keep the old vectors, though the
  document is given the new version; an analysis records the current `analysisVersion` at its start though older facets lack its vectors; a crash between the UPDATE and
  the insertion of the job leaves "upgrading", which bars later upgrades; an upgrade resumed after its last stage sets "upgrading" again;
  an analysis may run beside an upgrade; the retry of an activity makes a job without a claim of the document.

## 6. Not modelled, and the plan

Done: the queue, the activities, the control of analyses and their proofs; then every module of section 2.
Every safety property of a run is proved. `AnalysisControl` still lacks the cancellation of an activity, which none of its
runs takes.

Not modelled:

- Rate limiters: those of routes are a library's, in memory; the daily ones count a sorted set in Redis, then add to it, and let
  everything pass when Redis fails. The browser pool of the PDF export: it asks how many browsers it has, then awaits a launch, so that overlapping requests may launch more than its size.
- Prompts, wording and parsing of the model clients, the description of a story's nodes, character sheets' prompts: text.
- Export, Google Drive, storage, e-mail, administration, tags, styles: I/O and single statements. The changelog is written and
  only read for display.
- The projection cache of the graph and the cache of similarities, which is keyed by version and goes stale
  when a text is saved without a new one; `buildCharacterContext`, whose `!eCausal` drops an event at causal position 0.
- Code that nothing calls: the write operations of `graphRepository.ts`, `entityResolution`'s resolver, `calculateContextBudget`,
  `incrementRetry`, `updateFacet`, `softDeleteFacet`, `deleteSnapshots*`, `pruneEventLog`, `updateEmail`.
- Embeddings and the clustering of mentions: floating-point scores, which the modules leave open wherever a decision depends on them.
