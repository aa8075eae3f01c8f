# A verification project for the CI self-healing bot

The bot receives GitLab webhooks for failed pipelines, starts one worker process
per repair, lets an agent repair the build on a branch of its own, opens a merge
request, and hands over to a human what it may not decide.  This directory holds
TLA+ modules that model its core, the TLC runs that check them on small
instances, and proofs that TLAPS checks for every instance.

Paths below are relative to the repository's `src/` directory.

## 1. The system

| Part | State | Operations | Talks to |
|---|---|---|---|
| `agent-runtime/scheduler.ts` | `queue`, `inflight` (dedup), `activeKeys`, `running`, `runningByKey`, quiet-window timestamps and timer, `crashCount`, `resumeChains`, `pendingSteerByKey` | `enqueue`, `pump`, `runOne`, `enqueueResume`, `runResumeSerialized`, steering | worker manager, decision store, gates (GitLab) |
| `decision/store.ts` | the SQLite table of decisions, the only state that survives a restart | `create`, `updateStatus`, `invalidateByMr`, `invalidateByProject`, `sweepExpired` | scheduler, `/heal`, lifecycle |
| `decision/lifecycle.ts` | none of its own | `onNewPipeline`, `onMrTerminal`, TTL sweep | store, `cleanupScene` |
| `decision/heal-command.ts` | none of its own | `/heal <id> test / widen / prod / drop` | store, scheduler, `cleanupScene` |
| `worker/manager.ts` | `activeWorkers` | `run`, `runResume`, `cleanupScene`, `sendControl`, `shutdown` | child processes, git |
| `pipeline/worktree.ts`, `repair-branch.ts` | one bare clone per project, shared by all processes: worktrees and branches; a lock per process | `realWorktree`, `removeWorktreesOnBranch`, `extractPatch`, push | git |
| `worker/*` | steer text waiting for the session | receive controls, run the pipeline, write the result file | manager over IPC |
| `pipeline/run-repair.ts`, `run-resume.ts`, `repair-outcome.ts` | one run's patch, retries | gates, agent, merge request, retry loop, `finishRepair` | GitLab, agent |
| `agent-runtime/runtime.ts`, `agent/*` | an agent session, a budget | `run`, `continueSession` | the language model |
| `pipeline/mr-session-store.ts` | archived sessions, at most 32 | save, find, evict, remove | repair pipeline, lifecycle |
| `webhook/receiver.ts` | rate-limit buckets | authenticate, parse, enqueue, end of a merge request | scheduler, lifecycle |
| `dashboard/event-hub.ts`, `ipc-dispatch.ts`, the page's `useEventSource` | the registry of workers, a snapshot, connected clients; the page's copy | lifecycle events, IPC messages, server-sent events | scheduler, worker processes, browsers |
| `notify/*` | routes from projects to groups | messages | everybody |

What is hard in it:

* **Interleaving.** The main process is one thread, but every `await` lets
  another handler run.  Workers are processes of their own; they and the git
  commands of the main process work on one bare clone without a common lock.
* **Failure.** Workers crash or time out; every step of a cleanup may fail and is
  swallowed; the process is restarted while workers run, and only rows survive.
* **Order.** Webhooks are redelivered, pipelines overtake each other, a decision
  is registered after the event that makes it stale.
* **Time.** Quiet windows, the TTL, polling resumes, retries.

What makes the parts correct is listed in sections 3 and 4; all places in the
code at which something of this can go wrong are the `hazards` of `PROJECT.json`.

## 2. The modules

| Module | What it is |
|---|---|
| `SerialExecutor` | What the scheduler promises: a job waits, may be replaced by one of the same key, never runs with one of the same key, and at most `Cap` run. |
| `Scheduler` | `scheduler.ts` as written: queue, dedup, keys, slots, quiet window and timer, gates, crashes, resume chains and their polling.  Implements `SerialExecutor`. |
| `Decisions` | What a run leaves behind: scenes on disk, rows, `/heal`, the lifecycle handlers, cleanup, restart.  Uses `SerialExecutor` for when jobs run. |
| `Steer` | A newer pipeline while a worker runs: the lookups and the books of `scheduler.ts`, the control channel, and the worker's deliveries into the agent session. |
| `RepairPipeline` | One worker process from its spawn to the manager's verdict: `run-repair.ts`, `run-resume.ts`, `repair-outcome.ts`, `worker/entry.ts`, with GitLab, the developer and the agent's own git commands moving at every await. |
| `Gates` | The gates inside that run, line by line: the three readers of a diff, the path gate, widening, the line gate, and the scope of violations the prompt offers. |
| `AgentSession` | The agent inside that run: `real-runner.ts` over `runtime.ts` over a session of the SDK; prompts, budget monitors, aborts, continuations. |
| `SessionArchive` | What a run leaves to the next one of its merge request: archived sessions file by file, and the replay of the repair branch. |
| `Dashboard` | Who is at work, as the event hub knows it and as a page shows it. |
| `SchedulerProofs`, `DecisionsProofs`, `SteerProofs`, `RepairPipelineProofs`, `AgentSessionProofs`, `SessionArchiveProofs`, `GatesProofs`, `DashboardProofs` | The theorems. |
| `MC...` | Values of the constants for TLC. |

How they fit together: `Scheduler` says when a run starts and ends, and what a run is
to it (one stage, `work`) is `RepairPipeline`; the calls of the agent there
(`AgentFixes`, `AgentContinues`, ...) are `AgentSession`; the tests `PathViolation`,
`Widenable` and `LineViolation` there, over classes of path, are `Gates`; the replay
and the archive at its two ends are `SessionArchive`; a retained scene there is a
scene of `Decisions`; the controls and messages its process exchanges with the main
process are `Steer` and `Dashboard`.  Each module takes what another details as a
free choice among all that the other allows.

### Scheduler

The fields are variables of the same names (`queue`, `inflight`, `activeKeys`,
`running`, `chain` for `resumeChains`); `runner` stands for `runningByKey`,
`stage` for the point at which the asynchronous function of a job is suspended,
`fresh` for the keys whose quiet window has not elapsed, `timer` for the single
re-pump timer.  `pump()` has no await before the loop ends and is therefore one
turn, but each job it starts runs synchronously to its first await inside that
turn, which is why `PumpStart` and `PumpEnd` are separate actions that exclude
all others.  `Enqueue` is one action: dedup, stage exclusion, coalescing and
entering `pump()`.

### Decisions

A *scene* is what one run leaves on disk.  Work directories are named with a
random id for every run, so a scene belongs to exactly one run, to at most one
decision and to at most one resume; the model uses one identity for the three.
`at` is where a job is: `setup` (started, nothing made), `agent` (at work in its
worktree), `dirty`, `headless` and `notify` (the cleanup in the `finally` clause:
before it, after the worktree is gone, after the branch is gone).  `cleaners` are
the handlers that are inside one of the loops over rows, each with the scene it
is cleaning and the rows it has left.  `trees` and `refs` are the bare clone.
`late` and `stranded` are history: which decisions were registered when a newer
pipeline was already there, and which worktrees were left to nobody, by a restart, a
failed write or a removal that failed.  Closed, dropped and invalidated rows are one
status, `void`.

`cleanupScene` is two actions, since what other processes can do between removing
the worktree (found by its path) and deleting the branch (found by its name,
which other scenes share) is what matters.  Each of its commands may fail; it goes on
all the same, and nobody tries again.  `RealWorktree` is the creation with its
self-healing: it removes every worktree on the branch, whoever works there, and may
fail half way, before or after that.  The row operations of `/heal` and of
the handlers are atomic up to their first await, as in the code.  Compensation
for a failed `enqueueResume` is not modelled: `main.ts` always provides what it
checks for.

### Steer

Two processes for one serial key.  Nothing in the code compares commits: a pipeline
may be delivered again, or run again after a newer one, and only one that waits or is
being repaired is dropped as a duplicate.  So `Arrive` takes any event, deliveries are
numbered only to tell messages apart, and `Resume` may run any event.  In the main
process `calls` is where each `maybeSteerRunningWorker` is suspended, with its payload
(`lookup`: the changed files and the green check, two awaits between which nothing is
read or written; `retrying`: between two attempts to send), and `pending` the new event
of `pendingSteerByKey`.  The flag `delivered` of a pending steer is set only in the turn
that deletes it, so it is no variable.  `controls` and `acks` are the two directions of
the child's IPC channel; Node emits `close` only after the channel back is drained, which
is the guard of `Release`.  In the worker, `stash`, `undelivered` and `session` are the
module variables of `steer-session.ts`, and `delivering` says in which await each
`deliverSupersedeSteer` is: the listener does not wait for it, and several controls read
in one chunk are handled before any promise continues, so deliveries interleave.
`steering` and the turn boundary belong to the SDK, modelled from the repository's stub
of it; `shown` and `latest` are history.  Left out: changed files, the green flag, texts,
the sidecar file, and the supersede chain of the audit.

### RepairPipeline

`stage` is what the worker awaits; every await of `runRepair`, `runResumeRepair`,
`repairFixed`, `resolveRepairMr` and `finishRepair` is a value of it, and each action
is the code from one await to the next, with the failure of the awaited call as an
alternative.  A patch is the set of its paths (`edits`, and `far` for those with a
hunk outside the scope of lines); an agent's turn may set it to anything.  `spill`
are the files the bot itself writes into the worktree, which `git add -A` stages too.
`mr`, `rev` and `ci` are GitLab's merge request, the pushes of the repair branch and
the newest pipeline, which carries the push it is for; `seen` is the last pipeline
read.  `thrown` is an exception that leaves `main` of `worker/entry.ts`, which ends
the process without a result; `Collect` is what the manager makes of the exit and of
the result file, and whether it keeps the scene.  A resume starts in the scene an
escalated run left, with everything edited that can be, and hands the gates an empty
diff of the merge request, as the code does.

### Gates

A diff is written one line per step by glab (plain `---`/`+++` pairs) or git (with
headers and prefixes, a rename without hunks as a header only) and read by
`parseDiffFiles`, `parseDiffHunkRanges` and `buildDiffIndex` together, whose local
variables are `files`, `hunks` and `index`.  `mr` and `patch` keep what really
changed, so that the properties compare what the readers found with the truth.
A path is a sequence of segments.  A changed line whose text looks like a header
(`-- x` removed shows as `--- x`) is read as one; `misled` remembers which readers it
may have led astray.  `Judge` is `repairFixed` from the empty patch to the line gate.

### AgentSession

`Run` and `Continue` are the runner's calls, `Open` is `createDefaultSession` with its
steps that may fail, `TurnEnds` and `PromptEnds` are the SDK's moves while a prompt
runs, `Close` is the runner's and `Exit` an end of the process without it.  `monitors`
are the subscriptions of `subscribeBudget`; `aborting` says that the session accepted
an abort, which it may refuse.  `said` is the last text of the assistant and the prompt
it came from: `extractLastAssistantText` searches all messages, and may find one of an
earlier prompt.  A session, once opened, is disposed by `close` only.

### SessionArchive

Each file operation of `saveMrSession`, `findMrSession`, `evictMrSessions` and
`removeMrSession` is a step of its own, since workers of different merge requests are
processes that share the directory without a lock.  A tree is the set of commits it
holds; the repair branch is the tree it was pushed with; a replay adds what the
difference of the branch to the archived commit adds and takes away what it removes.
A run works on the commit of its pipeline, which may be older than the latest, and may
leave a `scene`; a resume of it archives the commit of the scene.  `fork` and `strayed`
are history: the commit the pushed branch was made from, and the merge requests whose
archive has passed it (`StraysBySaving`, `StraysByNotSaving`, `StraysWithoutMeta`).

### Dashboard

`workers`, `snapshot` and `online` are the event hub's; `channel` is the IPC channel of
each worker id, `net` what is on its way to a browser, `view` the page's table.  A worker
id is shared by a repair, its resume and a repair after a redelivered webhook, which
run one after the other.  Node emits `close` only after the channel is drained, hence
the guard of `RunEnds`.

## 3. What TLC checks

| Run | Question | States |
|---|---|---|
| `scheduler` | Is the bookkeeping exact, does the scheduler implement `SerialExecutor`, does every pipeline and resume end? | 33 thousand |
| `decisions` | Who owns a scene, when is a decision stale, who takes a worktree from a worker or a resume, are scenes reclaimed? | 492 thousand |
| `steer` | Is an agent told only that its own run is superseded, does the latest control survive, is every pending steer settled? | 953 thousand |
| `pipeline` | Is what is published gated, what is red never announced, do worker and manager agree, does every run end? | 1.3 million |
| `gates` | Do the readers see what changed, and do the gates admit and offer what they should? | 429 thousand |
| `agent` | Is a breach ever passed off as an answer, do monitors and sessions end with their owner? | 6 thousand |
| `archive` | Does the cap hold, and when may a replay undo a commit? | 3.2 million |
| `dashboard` | Is the registry exact, and does a page that stays connected follow it? | 2.9 million |
| `decisions_terminal`, `pipeline_verified`, `archive_replay`, `gates_lines` | Claims of comments and documents that the code does not keep | violated |

**Bounds.** `scheduler` has three keys for two slots, so that both the key and the
slot can be what a job waits for; four pipelines (two of one merge request, so that
coalescing and redelivery happen, one stage-excluded), two resumes, crash threshold
two.  Pipelines may be delivered without limit; nothing else counts upwards.

`decisions` runs with two pipelines of one merge request and one of another from the
same source branch, so that two keys share a repair branch, a scene of each, and a
pipeline without a merge request, whose arrival voids every row.
`MaxRestarts = 1`: after a restart every reachable state has empty memory, so a
second adds nothing but stranded worktrees.  A webhook that would need a scene
when all of the pipeline's are in use is left out; this is the one place where
the bounded model stops, and the reason for `CHECK_DEADLOCK FALSE`.

`steer` has two pipelines and three deliveries, and any number of resumes of either:
three controls are needed for one delivery to overtake another that is replacing a
third, and during a resume all three may be sent.  A run may be followed by another, or
by a resume of the same event, which a call that is still retrying may reach.

`pipeline` has one path of each kind the gates tell apart (the production file of the
merge request, a test outside it, a build file), two retries, one poll that may find
the pipeline pending, and one push by the agent itself, so that a pipeline of an older
push, of the newest and none at all can be what is read.  GitLab moves only while
somebody will still look at it.

`gates` has at most two files in each diff, out of eight changes of a merge request and
ten of an agent; a file is what a reader must not carry over to the next, so two are
enough for each confusion.  `Tolerance` is 2 where the code has 5, so that small line
numbers lie before, within and beyond it; the theorems are for every tolerance.
`MCGates` assumes `PlainPaths`: no file of its changes lies in a directory `a` or `b` at the
top of the repository.  With one that does TLC finds `ReadersExact` violated (see "Seen
while modelling"); `Segments`, of which the proofs say only that it has `a` and `b`, is
there for the names of files.
Context lines are counted and not written, since no reader looks at them.

`agent` has two continuations, two turns a prompt and reports of 2, 3 or no tokens: one
turn of 3 breaks the limit of a turn, two of 2 that of a prompt.  `archive` has a cap of
one for two merge requests, so that each save evicts, and two commits for one of them;
the other is there for its saves and evictions, and `OnlySaves` keeps it from pushing
and from leaving scenes.
`dashboard` has two workers and one browser (browsers do not affect each other), one
stage, one turn, one message on each channel and two events on the connection.

In `pipeline`, `agent`, `archive`, `gates` and `steer` everything ends some time, hence
`CHECK_DEADLOCK FALSE`.

**The properties of `Scheduler`.**  `SerialPerKey`: two jobs never hold one key,
and the maps by key name its holder.  `SlotAccounting`: `running` is the number
of slot holders, at most the cap.  `InflightExact`: dedup is exactly what is
queued or worked on, through crashes and skips.  `NoLostWakeup`: outside `pump()` a
startable pipeline is waiting only if the timer is set.  `ImplementsExecutor`: the
refinement.  `AcceptedEventuallySettled`: no accepted pipeline stays in flight for ever;
it is repaired, skipped, crashes, or is replaced by a newer one of its key, even if the
pushes never pause.  `ResumeEventuallyEnds`: a resume gets its turn once no pipeline waits.

**The properties of `Decisions`.**  `SceneOwned`: a worktree has a run, a waiting
row, a resume or a handler that will see to it, or is stranded.  `StaleOnlyIfLate`:
a decision for an old commit was registered after the newer pipeline came; voiding
misses nothing that exists.  `WorkerKeepsItsTree`: a worker at work loses its
worktree only to `onMrTerminal`, to a restart, or to a run of another key that makes a
worktree on the same branch.  `ResumeKeepsScene`: a resume that waits loses its scene
only to `onMrTerminal`, to a restart, or to a run that makes a worktree on its branch -
not to the TTL, the voiding at arrival, or another command.  `ScenesAreReclaimed`: once
no pipeline waits any more every worktree goes, or is stranded.

**The properties of `Steer`.**  `SteersMeetTheirRun`: an agent is only told that the commit
of its own run is superseded, whatever run holds the key when a lookup answers (by
what, nobody checks: see below).
`LatestSurvives`: the last control a worker has handled is waiting, being delivered,
queued or shown as long as the session is not closed; clearing the queue for one
delivery never drops another.  `PendingEventuallyAudited`: a steer that is pending
while the key is held is reported delivered or lost.  Only then: one that a late
lookup records after the last run stays for ever.

**The properties of `RepairPipeline`.**  `PublishedIsGated`: what the bot pushes,
monitors or announces satisfies the gates as it lies in the worktree, through all
retries.  `RedIsNeverAnnounced`: no limit of the loop turns a red or running pipeline
into a success.  `NoticesAgree`: the group and the dashboard hear the same, even if a
notice is rejected or the worker is killed between notice and result.
`DecisionHasScene`: the manager keeps a scene only if it is there.
`FixedRunsCloseTheirSession`: a run that comes to its outcome after a fix has closed its
session, through whatever gates and retries.  `RunSettles`: every run gets its verdict.

**The properties of `Gates`.**  `ReadersExact`: ranges and counts are those of the real
change, for every writer and every sequence of files; git's renames are excepted, whose
prefixes the readers keep, and what follows a line that looks like a header.  Both this
property and the next are meant for repositories with `PlainPaths`.
`LineGateExact`: a patch for a static-analysis failure that passes leaves each production
hunk near the merge request's (`AdmittedStaysInScope`), and one that is turned down for its
lines has a hunk that is not near, as the patch numbers its lines, or a renamed file
(`RejectedLeavesScope`): shifted numbers and renames are all the line gate gets wrong.  `WideningUnblocks`: the files a decision
names are all that stood in the way.  `OfferedIsAdmitted`: a violation the prompt calls
repairable may be repaired at its line, unless another file of the merge request has a
path of which one is the end of the other.

**The properties of `AgentSession`.**  `BreachNeverPasses`: what was said in a prompt
that broke its budget is never an answer, whether the abort was accepted or not.
`AbortsAreOwn`: no monitor of an earlier prompt aborts a later one.
`NothingOutlivesTheSession`: steering, activity and disposal agree, whatever step of
the setup failed.

**The properties of `SessionArchive`.**  `CapHolds`: once nobody saves there are at most
`Cap` archives, unless a save failed or was killed half way.  `ReplayKeepsUnlessStrayed`:
as long as the archive has not passed the branch, a replay leaves every commit of the
merge request in the worktree, through runs of older commits, resumes, failed saves,
evictions, and replays on replays.  That it may pass the branch is what `archive_replay`
shows.

**The properties of `Dashboard`.**  `RegistryIsExact`: a repair is listed, with its
directory, from start to end; what is listed without a run is what a crash or a resume
left.  `ViewFollows`: a page connected since it was loaded shows the registry once it
has read its events.

**Fairness.**  Runs progress because the worker and the gates have timeouts;
`pump()` runs when it is called; timers fire; handlers get their turn because the
event loop is fair; the sweep is an interval timer.  Polling resumes and `pump()`
compete for slots and nothing in the code favours the resume, so resumes are only
claimed to run once no pipeline waits any more.  In `Scheduler` quiet windows pass
(`WindowPasses`), though a webhook may begin the next one at once.  In `Decisions` some
run goes on, some resume that can be started is, some handler gets its turn, and the
sweep comes again: which of several is left open.  For `Steer`, messages arrive and
children end or are killed; nothing is assumed of lookups, of attempts and of the agent's
turns.  In `RepairPipeline` every await of the worker returns
(commands end, the budget ends a session) and nothing is assumed of GitLab: a pipeline
that never finishes is ended by the limit of polls.  Webhooks, humans, merge requests
and restarts are under no obligation.

**What is violated.**

* `TerminalCleanupIsHarmless` - cleaning the scene of an old decision deletes the
  branch under a running worker.  The run excludes the narrower race in which the
  worktree is added while the cleanup is between its commands (`PromptCleanup`).
* `AnnouncedIsVerified` - a repair is announced although no pipeline of the pushed
  branch succeeded: "unknown" ends the loop as a success, and a success is not compared
  with the push it is for.
* `ReplayKeepsTheCommits` - after a run that pushed nothing but archived its newer
  commit, the replay takes away what the developers pushed in between.
* `EditsInScopePass` - the lines a patch adds shift the numbers of its later hunks, and
  the line gate compares them with numbers from before the patch.

**Seen while modelling, and not among the runs.**

* A pipeline that arrives while a repair runs voids nothing, and the repair then
  registers a decision for the old commit (`scheduler.ts:575`).
* `/heal <id> widen` hands the resume the record read before the update: the worker is
  told `test`, and never the remark (`heal-command.ts:127`).
* Two merge requests from one source branch share a repair branch and not a key: the run
  of one removes the worktree under the worker of the other (`worktree.ts:320`), an
  exception of `WorkerKeepsItsTree`.  So does a new run to a resume that waits, an
  exception of `ResumeKeepsScene`.
* A cleanup whose command fails is never repeated (`manager.ts:373-403`): the worktree
  stays, among the `stranded`.
* A pipeline that is delivered again or runs again steers the agent although its commit is
  older than the agent's, or, during a resume, the agent's own (`receiver.ts:218`,
  `scheduler.ts:270`).
* A resume whose `fetchMrDiff` is rejected after the agent has fixed something ends with
  its session open (`run-resume.ts:139`).
* A resume that was announced is lost with the process (`scheduler.ts:731`).
* Of two lookups the one for the older event may answer last (`scheduler.ts:304`);
  `steer_delivered` names no steer, so that it closes the books on a newer one
  (`scheduler.ts:239`); payloads merged before the session is open keep the flag "green"
  of the earlier push under the name of the later (`steer-session.ts:85`).
* `violations-retry.json`, which a retry writes, is not matched by the noise filter
  (`worktree.ts:580`): the whitelist rejects it, or it is pushed.
* The readers of a diff know git's prefixes by the first segment of a path alone, so that
  they misread a file that is new, gone or moved in a directory `a` or `b` at the top of
  the repository when glab, which writes no prefixes, wrote the diff; and an edited file
  `b/x` shares a name with a file git has moved to `x` (`run-repair.ts:794`, `845`).
* A resume hands the line gate an empty diff (`run-resume.ts:85`), which rejects every
  edit of production code after a static-analysis failure.
* Each continuation has a budget of its own (`runtime.ts:254`), where a comment says
  cumulative.
* The agent is asked to push and to open the merge request itself, before any gate
  (`ci-repair-definition.ts:225`).
* A page that reconnects keeps workers that are gone, since a snapshot only adds.

## 4. What is proved

All theorems hold for every finite set of pipelines, resumes or scenes, keys,
merge requests and branches and every cap, path, limit and tolerance; they rest on the
named assumptions of the modules (finite sets, types of the constants, a resume has the
key of its pipeline, the classes of path are sets of paths; of a diff, that a file that
is gone has no new lines).

`SchedulerProofs`: the inductive invariant `IInv` adds to the properties that a
queued pipeline is not being worked on, that chains hold resumes of their own
key, and that windows exist only if configured.  `OccupyKeeps` and `VacateKeeps`
carry the argument: taking a free key and a free slot, and giving both back, keep
keys and counter exact; each action is one of these or touches neither.  From
`IInv` follow `TypeCorrect`, `KeysAreSerial`, `SlotsAreExact`, `DedupIsExact`,
`CoalescingIsComplete` and `NoWakeupIsLost`.  `Refinement` shows that each step of
`Scheduler` is a step of `SerialExecutor` or leaves its variables alone.

`DecisionsProofs`: none of the properties is inductive alone.  `IInv` adds

* `Placed` (exactly the active jobs are on their way, and none of them waits) and `Serial`,
* `Named` (the scene of a run is of its pipeline and has no row yet), without which
  an escalation could overwrite a row,
* `Removed` (a run that leaves has no worktree, or has failed to remove it), without which a run that ends
  would leave one that nobody owns,
* `Decided` (a resume that waits or runs has been decided) and `Spent` (what a
  handler cleans has been voided, closed or deleted), which together say that a
  handler and a resume never get the same scene - except through `onMrTerminal`.

`VoidingKeeps` covers all handlers that void rows and start cleaning, `HandsOverKeeps`
all steps at which a loop goes on to its next row, `TreeGoesKeeps` a removal that succeeds
or fails.  From `IInv` follow `TypeCorrect`, `ScenesHaveOwners` and
`StaleDecisionsAreLate`.  `TreesGoBy` lists the steps by which a worktree goes at all, and
`ScenesAreApart` says whose scenes those steps may reach; with `IInv` they give the action
properties `WorkersKeepTheirTrees` and `ResumesKeepTheirScene`.

`SteerProofs`: for any set of pipelines, delivered and resumed in any order.  `IInv` adds
to the two properties `Own` (whatever is on its way to the agent, in whichever buffer, is
meant for the run that holds the key) and `Clean` (no child, no memory of one: without it
what an old worker was sent could meet the next runner).  `AttemptKeeps` is the step that
matters: a control is sent only if the event its call has read is the runner.  From
`IInv` follow `TypeCorrect`, `AgentsHearOfTheirRun` and `LatestControlSurvives`.

`RepairPipelineProofs`: `IInv` adds to the properties what each stage has established
before it: no outcome and no notice before the end (`Undecided`), a retry left inside the
loop (`AttemptInv`), no pipeline read before the first poll (`SeenInv`), a worktree inside
`repairFixed` and behind a decidable outcome (`TreeInv`), an admitted patch in all stages
behind the gates (`GateInv`), and who has been told what (`ToldInv`).  Without `GateInv`
nothing connects the patch that was judged with the one that is pushed.  All safety
properties of the run follow: `PublishedGated`, `RedUnannounced`, `NoticesAgreeAlways`,
`DecisionsHaveScenes`, `SessionsClosed`.

`AgentSessionProofs`: for all limits and reports.  `Counting` (at most one monitor is
subscribed, that of the running prompt, and it has noticed a breach exactly if there was
one) and `Overruns` (only the last prompt can have exceeded a limit, and then no answer
comes from the agent) carry `BreachesNeverPass` and `AbortsAreOwnAlways`; `Numbering`
keeps prompts apart and `Opening` says from which file a session may come, from which
`ResumesAreOfTheScene` and `NothingOutlives` follow.

`GatesProofs`: for diffs of any length, over any files and lines.  The readers keep no more
than a few values from line to line, and the diff they are in the middle of is not among
them; each invariant says what these values mean half way through a file.

* `TypeCorrect`.  The types alone give `OfferedIsAdmittedAlways`: the two gates find a path
  by its end in one way, and by the whole of it in another (`ResolvedIsIt`).
* `ReadInv` carries `ReadersExactAlways` for the ranges.  `WritingInv` ties the writer to
  the change it is in, `HeaderInv` says that the path the reader holds is the one the
  hunks of this change will be filed under (`PlusName`), and `RangesInv` that exactly the
  hunks written so far are recorded, and none of another file under the same name
  (`RecordedBelongs`).  `MrInv` keeps the ranges of the merge request while the patch is
  read.
* `IndexInv` carries it for the counts.  What `buildDiffIndex` has counted for a file is
  a sum over its hunks, which is no induction over data if it is stated as the
  cardinality of the set of lines read so far: one more line is one more element
  (`CountHead`, `LeastIndex`).  `NamesApart` says that no two files share an entry, with
  or without a prefix; like `PlusName` and `RecordedBelongs` it needs `PlainPaths`.
* `VerdictInv`, with the ranges, gives `LineGateIsExact`: the gate judged the true ranges
  of the patch by the true ranges of the merge request.  What it admits needs only that
  each range is that of a hunk; what it turns down that each hunk of a file that was not
  renamed has its range (`Ranges`).
* `NearMeansNearLines`: comparing the ends of two ranges is the same as asking for a line
  of each within the tolerance.
* `WideningUnblocksAlways`, whose invariant `WidenInv` says that what was widenable when
  the gates decided stays so.

`ReadersExactAlways` and `LineGateIsExact` have `PlainPaths` as a hypothesis.
The code does not ensure it, and without it both are false.

`SessionArchiveProofs`: `CapHolds` is far from inductive, for while workers save and remove
there may be any number of files.  `RestFits` says that what nobody is about to remove is
within the cap, unless a listing is still to come or was missed; a listing establishes it
whatever was there before (`KeptFit`), and every other step keeps it (`RestStays`), because
a file that is written again is followed by a listing of its own.  From it follows
`CapTheorem`.  `Unstrayed` says of each merge request whose archive has not passed the
branch that the branch holds the commits it was made from and every worker and scene the
commits of its own (`TreesAreWhole`), and that the archived commit and the base a worker
has read are none of the later ones (`MetaIsBehind`, `BaseIsBehind`), except while the run
that moved the branch is saving (`PushedIsSaved`).  A replay is harmless then
(`ReplayFromBehind`), and so is what comes of it: the branch a replayed tree is pushed to,
the scene it is left in, the resume of that scene.  Hence `ReplaysKeepCommits`.

`DashboardProofs`: `OnTheWay` says that the events on their way to a page lead, one after
the other, from the table it shows to the public part of the registry.  `EmitKeeps` is the
argument: an event that shows a page what the registry has become may be sent at any time.
That each kind of event does so are `ShowsStarted`, `ShowsProgress`, `ShowsDone` and, for
the snapshot of a new connection, `ShowsSnapshot`; the end of a stage shows nothing new
only of a worker that is registered (`ShowsExit`), which needs `RunsOwnTheirChild`: only
repairs have stages, and `RegistryIsExact`.  From these follow `RegistryTheorem` and
`ViewTheorem`.

Only model-checked: liveness (`AcceptedEventuallySettled`, `ResumeEventuallyEnds`,
`ScenesAreReclaimed`, `PendingEventuallyAudited`, `RunSettles`), which the proof system
does not cover.  All other properties of the passing runs are stated by theorems.

## 5. Plan

Done, in the order of importance for the system: `Scheduler` with `SerialExecutor`,
`Decisions`, `Steer`, `RepairPipeline`, `AgentSession`, `SessionArchive`, `Gates`,
`Dashboard`, each with its proofs.  What could be modelled next: the five rounds of the
manager's shutdown, and the rate limit of the receiver.

## 6. Not modelled

* The language model, prompts, and GitLab beyond what its calls may answer.
* Message texts, sending, and the routes from projects to groups: each is one statement
  on a map, or pure output.  That a notice is rejected is in `RepairPipeline`.
* Metrics (sums over a list in memory), log tails and the HTTP routes of the dashboard,
  and all of the page but its table of workers.
* The rate limit, authentication and parsing of webhooks, and reading the configuration:
  local computations on one input.
* Parsing of CI logs, model selection and prices, which decide nothing about state.
* Of the modelled parts: the audit trail and the sidecar files, heartbeats, cloning and
  credentials, and the submit tool of agent definitions with a schema.

`PROJECT.json` lists every part with its status and note.
