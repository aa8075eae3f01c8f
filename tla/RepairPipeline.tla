--------------------------- MODULE RepairPipeline ---------------------------
(***************************************************************************)
(* One worker process from its spawn to the manager's verdict: runRepair,   *)
(* repairFixed and resolveRepairMr of pipeline/run-repair.ts, the resume of *)
(* a retained scene in run-resume.ts, finishRepair of repair-outcome.ts,    *)
(* main of worker/entry.ts and spawnWorker of worker/manager.ts.            *)
(*                                                                          *)
(* The worker is one thread; every await is a step, so that GitLab, the     *)
(* developer and the manager move between any two of them.  GitLab's        *)
(* merge request and its pipelines, and the agent's session, are external.  *)
(*                                                                          *)
(* A patch is the set of paths it touches.  Which class a path belongs to   *)
(* is decided by the operators of module Gates; here the classes are        *)
(* constants.  far holds the paths whose hunks leave the tolerance of the   *)
(* merge request's hunks.                                                   *)
(***************************************************************************)
EXTENDS Integers

CONSTANTS
    AgentPaths,   \* what an agent may edit
    MrFiles,      \* parseDiffFiles of the merge request's diff
    BuildConfig,  \* isForbiddenConfig
    Production,   \* isProductionPath
    TestOrDoc,    \* isWidenEligiblePath
    RetryLimit,   \* CIHEAL_RETRY_LIMIT
    PollLimit,    \* CIHEAL_POLL_LIMIT
    AgentPushes   \* bound: how often the agent pushes the branch itself

ASSUME PathAssumption ==
    /\ MrFiles \subseteq AgentPaths
    /\ BuildConfig \subseteq AgentPaths
    /\ Production \subseteq AgentPaths
    /\ TestOrDoc \subseteq AgentPaths

ASSUME LimitAssumption ==
    RetryLimit \in Nat \ {0} /\ PollLimit \in Nat \ {0} /\ AgentPushes \in Nat

\* The files the bot writes into the worktree for the agent to read.
SpillFiles == {"ci-log", "violations", "violations-retry"}

ASSUME SpillAssumption == SpillFiles \cap AgentPaths = {}

Statuses == {"none", "pending", "success", "failed", "other"}

Pipelines == [rev : Nat, status : Statuses]

NoPipeline == [rev |-> 0, status |-> "none"]

NoOutcome == [kind |-> "none", decidable |-> FALSE, why |-> "none"]

VARIABLES
    mode,        \* WorkerTask.mode
    mrEvent,     \* the event has a merge request
    lint,        \* isStaticAnalysisStage of its failed stages
    approved,    \* oosPaths of a widen decision
    stage,       \* what the worker awaits
    session,     \* the agent's session in this process
    fixed,       \* the run is inside repairFixed and its finally
    attempt,     \* retries
    polls,       \* polls that found the pipeline pending
    edits,       \* paths of git diff <baseSha>, the agent's
    far,         \* those with a hunk outside the line scope
    spill,       \* bot files in the worktree
    found,       \* findMrBySourceBranch at resolveRepairMr
    seen,        \* the pipeline the last poll read
    outcome,     \* RepairResult
    told,        \* notices sent by the worker
    tree,        \* the worktree
    superseded,  \* the source branch has moved past event.sha
    mr,          \* the repair merge request at GitLab
    rev,         \* pushes of the repair branch
    ci,          \* the newest pipeline of the merge request
    verdict,     \* what the manager reports
    retained     \* the scene is kept for a decision

task   == <<mode, mrEvent, lint, approved>>
work   == <<edits, far, spill>>
loop   == <<attempt, polls, seen>>
gitlab == <<superseded, mr, rev, ci>>
report == <<verdict, retained>>
vars   == <<task, stage, session, fixed, loop, work, found, outcome, told, tree,
            gitlab, report>>

Stages == {"spawn", "log", "tree", "diff", "run", "resume-diff", "extract",
           "fresh", "find", "push", "open", "monitor", "ci-log", "continue",
           "recheck", "notify", "record", "remove", "write",
           "exited", "thrown", "settled"}

Reasons == {"none", "log", "class5", "worktree", "agent-run", "agent", "empty",
            "path", "line", "superseded", "repair-mr", "no-url",
            "unmonitored", "again", "red", "green"}

Outcomes == [kind : {"none", "mr", "escalated", "failed"}, decidable : BOOLEAN, why : Reasons]

TypeOK ==
    /\ mode \in {"repair", "resume"}
    /\ mrEvent \in BOOLEAN
    /\ lint \in BOOLEAN
    /\ approved \in SUBSET TestOrDoc
    /\ stage \in Stages
    /\ session \in {"none", "open", "closed"}
    /\ fixed \in BOOLEAN
    /\ attempt \in 0 .. RetryLimit
    /\ polls \in 0 .. PollLimit
    /\ edits \in SUBSET AgentPaths
    /\ far \in SUBSET AgentPaths
    /\ spill \in SUBSET SpillFiles
    /\ found \in {"none", "opened", "ended"}
    /\ seen \in Pipelines
    /\ outcome \in Outcomes
    /\ told \in {"none", "success", "failure"}
    /\ tree \in {"none", "live", "gone"}
    /\ superseded \in BOOLEAN
    /\ mr \in {"none", "opened", "ended"}
    /\ rev \in Nat
    /\ ci \in Pipelines
    /\ verdict \in {"none", "mr", "escalated", "failed", "crashed"}
    /\ retained \in BOOLEAN

\* A repair starts from nothing; a resume from the scene an earlier run left,
\* whose edits passed no gate: they are all taken to be there.  An earlier
\* pipeline of the same merge request may have left a repair branch and its
\* merge request.
Init ==
    /\ mode \in {"repair", "resume"}
    /\ mrEvent \in BOOLEAN
    /\ lint \in BOOLEAN
    /\ approved \in SUBSET (TestOrDoc \ MrFiles)
    /\ approved # {} => mode = "resume" /\ mrEvent
    /\ stage = "spawn"
    /\ session = "none"
    /\ fixed = FALSE
    /\ attempt = 0
    /\ polls = 0
    /\ edits = IF mode = "resume" THEN AgentPaths ELSE {}
    /\ far = {}
    /\ spill = IF mode = "resume" THEN {"ci-log"} ELSE {}
    /\ found = "none"
    /\ seen = NoPipeline
    /\ outcome = NoOutcome
    /\ told = "none"
    /\ tree = IF mode = "resume" THEN "live" ELSE "none"
    /\ superseded = FALSE
    /\ mr \in {"none", "opened", "ended"}
    /\ rev = 0
    /\ ci \in {NoPipeline} \cup [rev : {0}, status : Statuses]
    /\ mr # "opened" => ci = NoPipeline
    /\ verdict = "none"
    /\ retained = FALSE

-----------------------------------------------------------------------------
(* The gates.                                                               *)

\* SPILL_RE: violations-retry.json is not among them.
IsPatchNoise(f) == f \in {"ci-log", "violations"}

\* extractPatch: git add -A, then every path of the diff that is no noise.
PatchPaths == edits \cup {f \in spill : ~IsPatchNoise(f)}

\* The whitelist: a resume appends the paths a widen decision approved.
DiffFiles == IF mrEvent THEN MrFiles \cup approved ELSE {}

PathViolation ==
    \E p \in PatchPaths :
        \/ p \in BuildConfig
        \/ DiffFiles = {} /\ p \in Production
        \/ DiffFiles # {} /\ p \notin DiffFiles

OutsideDiffPaths == IF DiffFiles = {} THEN {} ELSE PatchPaths \ DiffFiles

Widenable ==
    /\ PatchPaths \cap BuildConfig = {}
    /\ OutsideDiffPaths # {}
    /\ OutsideDiffPaths \subseteq TestOrDoc

\* The merge request's hunks: a resume hands repairFixed an empty diff.
HunkFiles == IF mode = "repair" /\ mrEvent THEN MrFiles ELSE {}

LineViolation ==
    lint /\ \E p \in PatchPaths \cap Production : p \notin HunkFiles \/ p \in far

-----------------------------------------------------------------------------
(* Ends of a run.                                                           *)

Finish(kind, decidable, why) ==
    /\ outcome' = [kind |-> kind, decidable |-> decidable, why |-> why]
    /\ stage' = "notify"

-----------------------------------------------------------------------------
(* Faulty variants of the operators below, each a plausible slip in the     *)
(* code; they show which property notices it.                               *)

LeftOpen == session
EndsGreen(status) == Finish("mr", FALSE, "green")
PolledTwice == polls + 2
Uncounted == polls
LineScopeForgotten == PatchPaths # {} /\ ~PathViolation
RejectionSwallowed == "record"
AlwaysDropped == TRUE

-----------------------------------------------------------------------------

\* The finally of repairFixed's callers, or nothing on the other paths.
SessionAtExit == IF fixed THEN "closed" ELSE session

\* An exception nobody catches leaves through that finally and fails main.
Throws ==
    /\ stage' = "thrown"
    /\ session' = SessionAtExit
    /\ UNCHANGED <<task, fixed, loop, work, found, outcome, told, tree, gitlab, report>>

-----------------------------------------------------------------------------
(* runRepair up to the agent's result.                                      *)

\* spawnWorker: the runtime's files are copied, or the scene is dropped.
Spawn ==
    /\ stage = "spawn"
    /\ \/ stage' = (IF mode = "repair" THEN "log" ELSE "run") /\ UNCHANGED tree
       \/ stage' = "thrown" /\ tree' \in {tree, "gone"}
    /\ UNCHANGED <<task, session, fixed, loop, work, found, outcome, told, gitlab, report>>

FetchLog ==
    /\ stage = "log"
    /\ \/ Finish("failed", FALSE, "log")
       \/ Finish("escalated", FALSE, "class5")
       \/ stage' = "tree" /\ UNCHANGED outcome
    /\ UNCHANGED <<task, session, fixed, loop, work, found, told, tree, gitlab, report>>

CreateTree ==
    /\ stage = "tree"
    /\ \/ Finish("failed", FALSE, "worktree") /\ tree' \in {tree, "live"}
       \/ stage' = "diff" /\ tree' = "live" /\ UNCHANGED outcome
    /\ UNCHANGED <<task, session, fixed, loop, work, found, told, gitlab, report>>

\* The merge request's diff, then the replay of an earlier repair's changes
\* into the tree, and the first prompt with its files.
PrepareRun ==
    /\ stage = "diff"
    /\ stage' = "run"
    /\ edits' \in (IF mrEvent THEN SUBSET MrFiles ELSE {{}})
    /\ far' = {}
    /\ spill' \in {{"ci-log"}} \cup (IF lint THEN {{"ci-log", "violations"}} ELSE {})
    /\ UNCHANGED <<task, session, fixed, loop, found, outcome, told, tree, gitlab, report>>

FetchDiffFails == stage = "diff" /\ mrEvent /\ Throws

\* The session may change and undo anything; only the line scope reads far.
AgentEdits ==
    /\ edits' \in SUBSET AgentPaths
    /\ far' \in (IF lint THEN SUBSET (edits' \cap Production) ELSE {{}})

\* agent.run and agent.resume: a fix, a hand-over by the agent or by the
\* runner, or an exception.  What was edited before the latter two is only
\* listed in the audit trace.
AgentFixes ==
    /\ stage = "run"
    /\ AgentEdits
    /\ session' = "open"
    /\ \/ mode = "repair" /\ stage' = "extract" /\ fixed' = TRUE
       \/ mode = "resume" /\ stage' = "resume-diff" /\ UNCHANGED fixed
    /\ UNCHANGED <<task, loop, spill, found, outcome, told, tree, gitlab, report>>

\* runRepair closes the session, runResumeRepair does not.
SessionHandedOver == IF mode = "repair" THEN "closed" ELSE "open"

\* isDecidableEscalation, which only runRepair asks.
AgentEscalates ==
    /\ stage = "run"
    /\ session' = SessionHandedOver
    /\ \E source \in {"agent", "runner"}, class5 \in BOOLEAN :
           Finish("escalated", mode = "repair" /\ source = "agent" /\ ~class5, "agent")
    /\ UNCHANGED <<task, fixed, loop, work, found, told, tree, gitlab, report>>

AgentThrows ==
    /\ stage = "run"
    /\ session' = SessionHandedOver
    /\ Finish("failed", FALSE, "agent-run")
    /\ UNCHANGED <<task, fixed, loop, work, found, told, tree, gitlab, report>>

\* A resume fetches the diff after the fix, outside the try.
ResumeDiff ==
    /\ stage = "resume-diff"
    /\ stage' = "extract"
    /\ fixed' = TRUE
    /\ UNCHANGED <<task, session, loop, work, found, outcome, told, tree, gitlab, report>>

ResumeDiffFails == stage = "resume-diff" /\ mrEvent /\ Throws

-----------------------------------------------------------------------------
(* repairFixed and resolveRepairMr.                                         *)

\* The three gates in their order.
Extract ==
    /\ stage = "extract"
    /\ IF PatchPaths = {} THEN Finish("escalated", FALSE, "empty")
       ELSE IF PathViolation THEN Finish("escalated", Widenable, "path")
       ELSE IF LineViolation THEN Finish("escalated", FALSE, "line")
       ELSE stage' = "fresh" /\ UNCHANGED outcome
    /\ UNCHANGED <<task, session, fixed, loop, work, found, told, tree, gitlab, report>>

ExtractFails == stage \in {"extract", "recheck"} /\ Throws

\* The freshness gate; a failed lookup passes.
CheckFresh ==
    /\ stage = "fresh"
    /\ \/ mrEvent /\ superseded /\ Finish("failed", FALSE, "superseded")
       \/ stage' = "find" /\ UNCHANGED outcome
    /\ UNCHANGED <<task, session, fixed, loop, work, found, told, tree, gitlab, report>>

FindMr ==
    /\ stage = "find"
    /\ found' = mr
    /\ stage' = "push"
    /\ UNCHANGED <<task, session, fixed, loop, work, outcome, told, tree, gitlab, report>>

PushBranch ==
    /\ stage = "push"
    /\ rev' = rev + 1
    /\ stage' = "open"
    /\ UNCHANGED <<task, session, fixed, loop, work, found, outcome, told, tree,
                   superseded, mr, ci, report>>

\* An opened merge request is used as it is; otherwise one is created.  The
\* url may be missing, or name no merge request that could be monitored.
OpenMr ==
    /\ stage = "open"
    /\ \/ /\ found = "opened"
          /\ UNCHANGED <<mr, ci>>
       \/ /\ found # "opened"
          /\ mr' = "opened"
          /\ ci' = NoPipeline
    /\ \/ stage' = "monitor" /\ UNCHANGED outcome
       \/ Finish("escalated", FALSE, "no-url")
       \/ Finish("mr", FALSE, "unmonitored")
    /\ UNCHANGED <<task, session, fixed, loop, work, found, told, tree,
                   superseded, rev, report>>

\* The try around resolveRepairMr.
ResolveFails ==
    /\ stage \in {"find", "push", "open"}
    /\ Finish("failed", FALSE, "repair-mr")
    /\ UNCHANGED <<task, session, fixed, loop, work, found, told, tree, gitlab, report>>

-----------------------------------------------------------------------------
(* The monitor loop.                                                        *)

\* fetchMrPipelineStatus: no pipeline and every status it does not name,
\* canceled among them, are "unknown".
StatusOf(pipeline) ==
    IF pipeline.status \in {"none", "other"} THEN "unknown" ELSE pipeline.status

\* After the loop.
LoopEnds(status) ==
    IF status \in {"success", "unknown"}
    THEN Finish("mr", FALSE, "green")
    ELSE Finish("escalated", FALSE, "red")

PollsAfterPending == polls + 1

Poll ==
    /\ stage = "monitor"
    /\ seen' = ci
    /\ LET status == StatusOf(ci) IN
       \/ /\ status \in {"success", "unknown"}
          /\ LoopEnds(status)
          /\ UNCHANGED polls
       \/ /\ status = "pending"
          /\ IF polls >= PollLimit
             THEN LoopEnds(status) /\ UNCHANGED polls
             ELSE polls' = PollsAfterPending /\ UNCHANGED <<stage, outcome>>
       \/ /\ status = "failed"
          /\ stage' = "ci-log"
          /\ UNCHANGED <<outcome, polls>>
    /\ UNCHANGED <<task, session, fixed, attempt, work, found, told, tree, gitlab, report>>

PollFails == stage \in {"monitor", "ci-log", "continue"} /\ Throws

\* The failed pipeline's log and the prompt of agent.continue, with its files.
FetchRetryLog ==
    /\ stage = "ci-log"
    /\ stage' = "continue"
    /\ spill' \in {spill} \cup (IF lint THEN {spill \cup {"violations-retry"}} ELSE {})
    /\ UNCHANGED <<task, session, fixed, loop, edits, far, found, outcome, told, tree,
                   gitlab, report>>

AgentContinues ==
    /\ stage = "continue"
    /\ \/ stage' = "recheck" /\ AgentEdits /\ UNCHANGED outcome
       \/ Finish("escalated", FALSE, "again") /\ UNCHANGED <<edits, far>>
    /\ UNCHANGED <<task, session, fixed, loop, spill, found, told, tree, gitlab, report>>

\* The gates after the retry: the whitelist and the line scope again.
RetryAdmitted == PatchPaths # {} /\ ~PathViolation /\ ~LineViolation

RetryReason ==
    IF PatchPaths = {} THEN "empty" ELSE IF PathViolation THEN "path" ELSE "line"

Recheck ==
    /\ stage = "recheck"
    /\ \/ /\ RetryAdmitted
          /\ attempt' = attempt + 1
          /\ IF attempt' < RetryLimit
             THEN stage' = "monitor" /\ UNCHANGED outcome
             ELSE LoopEnds(StatusOf(seen))
       \/ /\ ~RetryAdmitted
          /\ Finish("escalated", FALSE, RetryReason)
          /\ UNCHANGED attempt
    /\ UNCHANGED <<task, session, fixed, polls, seen, work, found, told, tree, gitlab, report>>

-----------------------------------------------------------------------------
(* finishRepair, main, and the manager's verdict.                           *)

AfterRejection == "thrown"

\* Only a merge request and a failure are told here.  The success notice is
\* awaited bare, the failure notice is caught.
Notify ==
    /\ stage = "notify"
    /\ \/ /\ outcome.kind = "mr"
          /\ told' = "success"
          /\ stage' = "record"
          /\ UNCHANGED session
       \/ /\ outcome.kind = "mr"
          /\ stage' = AfterRejection
          /\ session' = SessionAtExit
          /\ UNCHANGED told
       \/ /\ outcome.kind = "failed"
          /\ told' \in {"failure", told}
          /\ stage' = "record"
          /\ UNCHANGED session
       \/ /\ outcome.kind = "escalated"
          /\ stage' = "record"
          /\ UNCHANGED <<session, told>>
    /\ UNCHANGED <<task, fixed, loop, work, found, outcome, tree, gitlab, report>>

\* What finishRepair removes; the removal is best effort.
SceneDropped == ~(outcome.kind = "escalated" /\ outcome.decidable)

Removal == IF tree = "live" THEN {"live", "gone"} ELSE {tree}

\* The session archive and the audit trace are written first, at best effort
\* and without an await; then the worktree goes, and the finally runs.
RecordAndRemove ==
    /\ stage = "record"
    /\ tree' \in (IF SceneDropped THEN Removal ELSE {tree})
    /\ stage' = "write"
    /\ session' = SessionAtExit
    /\ UNCHANGED <<task, fixed, loop, work, found, outcome, told, gitlab, report>>

\* main writes the result file, or fails.
WriteResult ==
    /\ stage = "write"
    /\ stage' \in {"exited", "thrown"}
    /\ UNCHANGED <<task, session, fixed, loop, work, found, outcome, told, tree,
                   gitlab, report>>

\* The manager's timeout or its shutdown, at any await.
Killed ==
    /\ stage \notin {"spawn", "exited", "thrown", "settled"}
    /\ stage' = "thrown"
    /\ UNCHANGED <<task, session, fixed, loop, work, found, outcome, told, tree,
                   gitlab, report>>

\* spawnWorker's finally.
Retains ==
    /\ stage = "exited"
    /\ mode = "repair"
    /\ outcome.kind = "escalated"
    /\ outcome.decidable

Collect ==
    /\ stage \in {"exited", "thrown"}
    /\ stage' = "settled"
    /\ verdict' = IF stage = "exited" THEN outcome.kind ELSE "crashed"
    /\ retained' = Retains
    /\ tree' \in (IF Retains THEN {tree} ELSE Removal)
    /\ UNCHANGED <<task, session, fixed, loop, work, found, outcome, told, gitlab>>

-----------------------------------------------------------------------------
(* GitLab, the developer, and the agent's own git and glab commands.        *)

worker == <<stage, session, fixed, loop, work, found, outcome, told, tree>>

\* Bounds: what nobody looks at before it changes again is left out, so the
\* developer moves up to the freshness gate and GitLab up to the last poll.
BeforeGate == stage \in {"run", "resume-diff", "extract", "fresh"}
BeforeLastPoll == stage \in {"find", "push", "open", "monitor", "ci-log", "continue", "recheck"}

DeveloperPushes ==
    /\ mrEvent /\ ~superseded
    /\ BeforeGate
    /\ superseded' = TRUE
    /\ UNCHANGED <<task, worker, mr, rev, ci, report>>

\* The prompt asks the agent to push and to open the merge request itself.
AgentPublishes ==
    /\ stage \in {"run", "continue"}
    /\ rev < AgentPushes
    /\ rev' = rev + 1
    /\ \/ mr = "opened" /\ UNCHANGED <<mr, ci>>
       \/ mr # "opened" /\ mr' = "opened" /\ ci' = NoPipeline
    /\ UNCHANGED <<task, worker, superseded, report>>

MrEnds ==
    /\ mr = "opened"
    /\ BeforeLastPoll
    /\ mr' = "ended"
    /\ UNCHANGED <<task, worker, superseded, rev, ci, report>>

\* GitLab starts the pipeline of a push some time after the push.
CiStarts ==
    /\ mr = "opened" /\ ci.rev < rev
    /\ BeforeLastPoll
    /\ ci' = [rev |-> rev, status |-> "pending"]
    /\ UNCHANGED <<task, worker, superseded, mr, rev, report>>

CiEnds ==
    /\ ci.status = "pending"
    /\ BeforeLastPoll
    /\ \E status \in {"success", "failed", "other"} : ci' = [ci EXCEPT !.status = status]
    /\ UNCHANGED <<task, worker, superseded, mr, rev, report>>

-----------------------------------------------------------------------------

Steps ==
    \/ Spawn \/ FetchLog \/ CreateTree \/ PrepareRun
    \/ AgentFixes \/ AgentEscalates \/ AgentThrows \/ ResumeDiff
    \/ Extract \/ CheckFresh \/ FindMr \/ PushBranch \/ OpenMr
    \/ Poll \/ FetchRetryLog \/ AgentContinues \/ Recheck
    \/ Notify \/ RecordAndRemove \/ WriteResult \/ Collect

Failures ==
    FetchDiffFails \/ ResumeDiffFails \/ ExtractFails \/ ResolveFails \/ PollFails

Environment == DeveloperPushes \/ AgentPublishes \/ MrEnds \/ CiStarts \/ CiEnds

Next == Steps \/ Failures \/ Killed \/ Environment

\* Every await of the worker returns: its commands end, the agent's budget
\* ends a session.  No failure may be counted on, and nothing is asked of
\* GitLab, of its pipelines or of people.
Fairness == WF_vars(Steps)

Spec == Init /\ [][Next]_vars /\ Fairness

-----------------------------------------------------------------------------
(* Properties.                                                              *)

\* What may be published: no build file, nothing outside the merge request but
\* what a person approved, no production code without a merge request, and for
\* static analysis no production line away from the merge request's.
Admissible ==
    \A p \in edits :
        /\ p \notin BuildConfig
        /\ DiffFiles # {} => p \in MrFiles \cup approved
        /\ DiffFiles = {} => p \notin Production
        /\ lint /\ p \in Production => p \notin far

\* Whatever the bot pushes, monitors or announces passed the gates as it is in
\* the worktree now: no edit of a retry slips by, in a repair or in a resume.
PublishedIsGated ==
    \/ stage \in {"fresh", "find", "push", "open", "monitor", "ci-log"}
    \/ outcome.kind = "mr"
    => Admissible

\* A merge request whose last read pipeline was red or still running is never
\* announced as a repair, whichever limit ended the loop.
RedIsNeverAnnounced ==
    outcome.kind = "mr" => seen.status \notin {"failed", "pending"}

\* The group and the dashboard hear the same: a repair the manager reports was
\* told as a success, and a success told is never reported as anything but
\* that repair or a crash of the worker.
NoticesAgree ==
    /\ verdict = "mr" => told = "success"
    /\ told = "success" => verdict \in {"none", "mr", "crashed"}
    /\ told = "failure" => verdict \in {"none", "failed", "crashed"}

\* The worker and the manager agree on the scene: if the manager keeps it for
\* a decision, the worker has left the worktree the decision will resume.
DecisionHasScene == retained => tree = "live"

\* A run whose agent fixed something does not come to its outcome with the session
\* open, through whatever gates and retries, so that its transcript reaches the
\* audit directory.  One that an exception or a kill ends may: of a resume, a
\* rejected fetchMrDiff after the fix leaves the process (run-resume.ts:139-141).
FixedRunsCloseTheirSession ==
    stage = "exited" /\ (fixed \/ mode = "repair") => session # "open"

\* Every run gets its verdict, even if no pipeline ever finishes.
RunSettles == <>(stage = "settled")

\* ADR-0004: the re-run of the merge request's pipeline is the verification
\* gate.  So a monitored repair is announced after a success of the branch as
\* it is.
AnnouncedIsVerified ==
    outcome.why = "green" => seen = [rev |-> rev, status |-> "success"]

=============================================================================
