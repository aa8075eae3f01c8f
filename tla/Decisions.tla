----------------------------- MODULE Decisions -----------------------------
(***************************************************************************)
(* Human decisions on retained scenes: agent-runtime/scheduler.ts (a run    *)
(* registers a decision, a decision schedules a resume), decision/store.ts  *)
(* (the persistent rows), decision/heal-command.ts (/heal), lifecycle.ts    *)
(* (a new pipeline, the end of a merge request and the TTL each void        *)
(* decisions), worker/manager.ts (cleanupScene) and pipeline/worktree.ts    *)
(* (the worktrees, all of a project in one shared bare clone).              *)
(*                                                                          *)
(* When jobs wait, start and finish is what SerialExecutor says, which      *)
(* Scheduler implements.  A scene is what one run leaves on disk (cwd,      *)
(* worktree, session); it has the name of the decision that may be          *)
(* registered for it, and as a job it stands for the resume of that         *)
(* decision.  An identity that nothing refers to any more is used again.    *)
(*                                                                          *)
(* An action is the code between two awaits.  The processes that touch the  *)
(* shared clone (workers, and git commands of the main process) share no    *)
(* lock: withProjectLock serialises one process with itself only.           *)
(***************************************************************************)
EXTENDS SerialExecutor

CONSTANTS
    Pipelines,    \* failed pipelines of one project
    Scenes,       \* runs that may leave a scene, decisions, resumes
    PipeOf,       \* the pipeline of each scene
    Mrs, NoMr,    \* merge requests; a pipeline may carry no mrIid
    MrOf,         \* the merge request of each pipeline
    Branches,     \* repair branches
    BranchOf,     \* repairBranchName of each pipeline
    Excluded,     \* pipelines whose failed stages are all skip stages
    Widenable,    \* scenes whose escalation carries oosPaths
    NoScene,
    PromptCleanup,\* no worktree is added while a branch of its name is cleaned up
    MaxRestarts   \* bound: restarts of the main process

ASSUME JobsAssumption ==
    /\ IsFiniteSet(Pipelines) /\ IsFiniteSet(Scenes)
    /\ Pipelines \cap Scenes = {}
    /\ Jobs = Pipelines \cup Scenes
    /\ NoScene \notin Scenes
    /\ NoMr \notin Mrs

ASSUME EventAssumption ==
    /\ PipeOf \in [Scenes -> Pipelines]
    /\ MrOf \in [Pipelines -> Mrs \cup {NoMr}]
    /\ BranchOf \in [Pipelines -> Branches]
    /\ KeyOf \in [Jobs -> Keys]
    /\ \A s \in Scenes : KeyOf[s] = KeyOf[PipeOf[s]]
    /\ Excluded \subseteq Pipelines
    /\ Widenable \subseteq Scenes

ASSUME BoundAssumption ==
    Cap \in Nat \ {0} /\ MaxRestarts \in Nat /\ PromptCleanup \in BOOLEAN

VARIABLES
    at,         \* where each job stands
    scene,      \* the scene of each running repair
    status,     \* decisions.status; "none": no row yet, "gone": row deleted,
                \* "void": closed, dropped or invalidated, which nothing tells apart
    value,      \* decisions.decision_value
    task,       \* the decision value the resume worker is given
    trees,      \* scenes whose worktree exists
    refs,       \* repair branches that exist in the bare clone
    cleaners,   \* handlers that still have scenes to clean
    late,       \* decisions registered when a newer pipeline was waiting
    stranded,   \* worktrees that nobody need come back to: a removal that
                \* failed, a row that was not written, a restart
    restarts

sceneVars == <<trees, refs>>
rowVars   == <<status, value, task, late>>
vars == <<pending, active, at, scene, status, value, task, trees, refs,
          cleaners, late, stranded, restarts>>

Phases   == {"idle", "setup", "agent", "dirty", "headless", "notify", "over"}
Statuses == {"none", "awaiting", "resumed", "void", "gone"}
Values   == {"null", "test", "widen"}

SceneBranch(s) == BranchOf[PipeOf[s]]

UndecidedOrResumed == {s \in Scenes : status[s] \in {"awaiting", "resumed"}}
Awaiting == {s \in Scenes : status[s] = "awaiting"}

\* A handler in the middle of a loop over decision rows: it is cleaning the
\* scene "now" and has the rows "left" to go; "voids" is the loop of
\* onMrTerminal, which updates each row right before it cleans.
Cleaner == [now : Scenes, step : {"tree", "ref"}, left : SUBSET Scenes, voids : BOOLEAN]

TypeOK ==
    /\ pending \subseteq Jobs
    /\ active \subseteq Jobs
    /\ at \in [Jobs -> Phases]
    /\ scene \in [Pipelines -> Scenes \cup {NoScene}]
    /\ status \in [Scenes -> Statuses]
    /\ value \in [Scenes -> Values]
    /\ task \in [Scenes -> {"none", "test", "widen"}]
    /\ trees \subseteq Scenes
    /\ refs \subseteq Branches
    /\ cleaners \subseteq Cleaner
    /\ late \subseteq Scenes
    /\ stranded \subseteq Scenes
    /\ restarts \in 0 .. MaxRestarts

Init ==
    /\ ExecInit
    /\ at = [j \in Jobs |-> "idle"]
    /\ scene = [p \in Pipelines |-> NoScene]
    /\ status = [s \in Scenes |-> "none"]
    /\ value = [s \in Scenes |-> "null"]
    /\ task = [s \in Scenes |-> "none"]
    /\ trees = {}
    /\ refs = {}
    /\ cleaners = {}
    /\ late = {}
    /\ stranded = {}
    /\ restarts = 0

-----------------------------------------------------------------------------
(* Faulty variants of the operators below, each a plausible slip in the     *)
(* code; they show which property notices it.                               *)

StaleRowsOfPipeline(p) == {s \in Awaiting : PipeOf[s] = p}
CarriedUnchecked(s) == value[s]
AfterWorkerRetains(j) == IF j \in Scenes THEN "notify" ELSE "dirty"
CleanSweptNothing(ss) == UNCHANGED cleaners
TakeKeyUnchecked(j) == pending' = pending \ {j} /\ active' = active \cup {j}

-----------------------------------------------------------------------------
(* The shared clone.                                                        *)

\* realWorktree: prune, remove --force every worktree on the branch, delete
\* the branch, worktree add -b.
OnBranch(b) == {s \in trees : SceneBranch(s) = b}

AddTree(s) ==
    /\ trees' = (trees \ OnBranch(SceneBranch(s))) \cup {s}
    /\ refs' = refs \cup {SceneBranch(s)}
    /\ stranded' = stranded \cap trees'

\* All but the last of these commands may fail and are swallowed.  A worktree
\* or branch that stays makes the last one fail, which may have made the branch
\* by then.
HalfAddTree(b) ==
    \E gone \in SUBSET OnBranch(b) :
        /\ trees' = trees \ gone
        /\ stranded' = stranded \ gone
        /\ \/ refs' = refs \cup {b}
           \/ gone = OnBranch(b) /\ refs' = refs \ {b}
           \/ UNCHANGED refs

\* cleanupScene, in the two parts between which other processes get a turn:
\* the worktree goes by its path, the branch by its name, which other scenes
\* share (branch -D refuses a branch that is checked out, update-ref does not).
\* Whatever fails in either part is swallowed, and not tried again.
RemoveTree(s) ==
    /\ \/ /\ trees' = trees \ {s}
          /\ stranded' = stranded \ {s}
       \/ /\ s \in trees
          /\ stranded' = stranded \cup {s}
          /\ UNCHANGED trees
    /\ UNCHANGED refs

DeleteRef(s) ==
    /\ refs' \in {refs, refs \ {SceneBranch(s)}}
    /\ UNCHANGED <<trees, stranded>>

-----------------------------------------------------------------------------
(* Rows and the handlers that clean up behind them.                         *)

Cleaning(s, left, voids) ==
    [now |-> s, step |-> "tree", left |-> left, voids |-> voids]

StartCleaning(ss) ==
    \/ ss = {} /\ UNCHANGED cleaners
    \/ \E s \in ss : cleaners' = cleaners \cup {Cleaning(s, ss \ {s}, FALSE)}

SetStatus(ss, to) ==
    /\ status' = [s \in Scenes |-> IF s \in ss THEN to ELSE status[s]]
    /\ late' = late \ ss

\* invalidateByMr, invalidateByProject for a pipeline without mrIid.
Voids(q, s) == MrOf[q] = NoMr \/ MrOf[q] = MrOf[PipeOf[s]]

StaleRows(p) == {s \in Awaiting : Voids(p, s)}

OnNewPipeline(p) ==
    /\ SetStatus(StaleRows(p), "void")
    /\ StartCleaning(StaleRows(p))
    /\ UNCHANGED <<value, task>>

\* A webhook that is no duplicate; whether it is queued or stage-skipped, the
\* decisions it makes stale are voided before the handler's first await.
Free(p) == {s \in Scenes : /\ PipeOf[s] = p
                           /\ status[s] = "none"
                           /\ s \notin trees
                           /\ \A q \in Pipelines : scene[q] # s}

Webhook(p) ==
    /\ p \notin pending \cup active
    /\ p \notin Excluded
    /\ Free(p) # {}
    /\ LET waiting == {q \in pending \cap Pipelines : KeyOf[q] = KeyOf[p]}
       IN  \/ waiting = {} /\ Admit(p)
           \/ \E q \in waiting : Replace(q, p)
    /\ OnNewPipeline(p)
    /\ UNCHANGED <<at, scene, sceneVars, stranded, restarts>>

SkippedWebhook(p) ==
    /\ p \in Excluded
    /\ OnNewPipeline(p)
    /\ UNCHANGED <<execVars, at, scene, sceneVars, stranded, restarts>>

-----------------------------------------------------------------------------
(* A run: a repair, or a resume of a retained scene.                        *)

SceneOf(j) == IF j \in Scenes THEN j ELSE scene[j]

MoveTo(j, from, to) ==
    /\ j \in active
    /\ at[j] \in from
    /\ at' = [at EXCEPT ![j] = to]

TakeKey(j) == Start(j)

StartRepair(p) ==
    /\ TakeKey(p)
    /\ at' = [at EXCEPT ![p] = "setup"]
    /\ \E s \in Free(p) : scene' = [scene EXCEPT ![p] = s]
    /\ UNCHANGED <<rowVars, sceneVars, cleaners, stranded, restarts>>

\* The end of every worker that leaves nothing to decide: a merge request, a
\* failure, a crash, a plain escalation, any end of a resume.
AfterWorker(j) == "dirty"

\* A few git commands of the main process and a worker that has yet to start
\* and to fetch: nothing orders them, but a run may assume that they take turns.
Undisturbed(p) ==
    PromptCleanup =>
        \A c \in cleaners : \A s \in {c.now} \cup c.left : SceneBranch(s) # BranchOf[p]

WorktreeAdded(p) ==
    /\ p \in Pipelines
    /\ Undisturbed(p)
    /\ MoveTo(p, {"setup"}, "agent")
    /\ AddTree(scene[p])
    /\ UNCHANGED <<execVars, scene, rowVars, cleaners, restarts>>

WorktreeBlocked(p) ==
    /\ p \in Pipelines
    /\ MoveTo(p, {"setup"}, AfterWorker(p))
    /\ HalfAddTree(BranchOf[p])
    /\ UNCHANGED <<execVars, scene, rowVars, cleaners, restarts>>

StartResume(s) ==
    /\ TakeKey(s)
    /\ at' = [at EXCEPT ![s] = "setup"]
    /\ UNCHANGED <<scene, rowVars, sceneVars, cleaners, stranded, restarts>>

\* A resume works in the scene as it finds it.
ResumeSpawned(s) ==
    /\ s \in Scenes
    /\ MoveTo(s, {"setup"}, "agent")
    /\ UNCHANGED <<execVars, scene, rowVars, sceneVars, cleaners, stranded, restarts>>

\* The Pi configuration cannot be copied: the cwd is removed, the branch stays.
ConfigFails(j) ==
    /\ MoveTo(j, {"setup"}, "notify")
    /\ RemoveTree(SceneOf(j))
    /\ UNCHANGED <<execVars, scene, rowVars, cleaners, restarts>>

WorkerEnds(j) ==
    /\ MoveTo(j, {"setup", "agent"}, AfterWorker(j))
    /\ UNCHANGED <<execVars, scene, rowVars, sceneVars, cleaners, stranded, restarts>>

\* Pipelines whose acceptance voids the decisions of a scene, and which are
\* not finished.
Overtaking(s) ==
    {q \in (pending \cup active) \cap Pipelines : q # PipeOf[s] /\ Voids(q, s)}

\* A decidable escalation keeps its scene and registers a decision for it; if
\* the row cannot be written, the scene stays for somebody to clean by hand.
Escalates(p) ==
    LET s == scene[p]
    IN  /\ p \in Pipelines
        /\ MoveTo(p, {"agent"}, "notify")
        /\ scene' = [scene EXCEPT ![p] = NoScene]
        /\ \/ /\ status' = [status EXCEPT ![s] = "awaiting"]
              /\ late' = IF Overtaking(s) = {} THEN late ELSE late \cup {s}
              /\ UNCHANGED stranded
           \/ /\ stranded' = stranded \cup ({s} \cap trees)
              /\ UNCHANGED <<status, late>>
        /\ UNCHANGED <<execVars, value, task, sceneVars, cleaners, restarts>>

\* cleanupScene in the finally clause of spawnWorker.
WorkerTreeRemoved(j) ==
    /\ MoveTo(j, {"dirty"}, "headless")
    /\ RemoveTree(SceneOf(j))
    /\ UNCHANGED <<execVars, scene, rowVars, cleaners, restarts>>

WorkerRefDeleted(j) ==
    /\ MoveTo(j, {"headless"}, "notify")
    /\ DeleteRef(SceneOf(j))
    /\ UNCHANGED <<execVars, scene, rowVars, cleaners, restarts>>

\* The outcome is announced and the key released; or the gates skipped the
\* pipeline before a worker existed.
Leaves(j) ==
    /\ \/ MoveTo(j, {"notify"}, IF j \in Scenes THEN "over" ELSE "idle")
       \/ j \in Pipelines /\ MoveTo(j, {"setup"}, "idle")
    /\ Finish(j)
    /\ scene' = [p \in Pipelines |-> IF p = j THEN NoScene ELSE scene[p]]
    /\ UNCHANGED <<rowVars, sceneVars, cleaners, stranded, restarts>>

-----------------------------------------------------------------------------
(* /heal: look the row up, check it, update it, without an await between.   *)

\* enqueueResume is given the record that was read before the update.
Carried(s) == IF value[s] = "widen" THEN "widen" ELSE "test"

HealResume(s, v) ==
    /\ s \in Awaiting
    /\ v = "widen" => s \in Widenable
    /\ SetStatus({s}, "resumed")
    /\ value' = [value EXCEPT ![s] = v]
    /\ task' = [task EXCEPT ![s] = Carried(s)]
    /\ Admit(s)
    /\ UNCHANGED <<at, scene, sceneVars, cleaners, stranded, restarts>>

\* prod and drop.
HealClose(s) ==
    /\ s \in Awaiting
    /\ SetStatus({s}, "void")
    /\ StartCleaning({s})
    /\ UNCHANGED <<execVars, at, scene, value, task, sceneVars, stranded, restarts>>

-----------------------------------------------------------------------------
(* The TTL and the end of a merge request.                                  *)

\* Rows expire at the time written when they were created, under the TTL of
\* that time; the sweep deletes them and then cleans their scenes.
CleanSwept(ss) == StartCleaning(ss)

Sweep ==
    \E expired \in SUBSET Awaiting :
        /\ expired # {}
        /\ SetStatus(expired, "gone")
        /\ CleanSwept(expired)
        /\ UNCHANGED <<execVars, at, scene, value, task, sceneVars, stranded, restarts>>

\* onMrTerminal lists the awaiting rows once, then for each of them updates
\* the status, whatever it is by then, and cleans; a row that is gone makes
\* the update throw, which ends the loop.
MrTerminal(m) ==
    LET listed == {s \in Awaiting : MrOf[PipeOf[s]] = m}
    IN  \E s \in listed :
            /\ SetStatus({s}, "void")
            /\ cleaners' = cleaners \cup {Cleaning(s, listed \ {s}, TRUE)}
            /\ UNCHANGED <<execVars, at, scene, value, task, sceneVars, stranded, restarts>>

CleanerTree(c) ==
    /\ c.step = "tree"
    /\ RemoveTree(c.now)
    /\ cleaners' = (cleaners \ {c}) \cup {[c EXCEPT !.step = "ref"]}
    /\ UNCHANGED <<execVars, at, scene, rowVars, restarts>>

\* The branch of the scene is deleted and the loop comes to its next row.
NextRow(c) ==
    \/ /\ c.left = {}
       /\ cleaners' = cleaners \ {c}
       /\ UNCHANGED <<status, late>>
    \/ \E s \in c.left :
          \/ /\ ~c.voids
             /\ cleaners' = (cleaners \ {c}) \cup {Cleaning(s, c.left \ {s}, FALSE)}
             /\ UNCHANGED <<status, late>>
          \/ /\ c.voids
             /\ status[s] # "gone"
             /\ SetStatus({s}, "void")
             /\ cleaners' = (cleaners \ {c}) \cup {Cleaning(s, c.left \ {s}, TRUE)}
          \/ /\ c.voids
             /\ status[s] = "gone"
             /\ cleaners' = cleaners \ {c}
             /\ UNCHANGED <<status, late>>

CleanerRef(c) ==
    /\ c.step = "ref"
    /\ DeleteRef(c.now)
    /\ NextRow(c)
    /\ UNCHANGED <<execVars, at, scene, value, task, restarts>>

-----------------------------------------------------------------------------
(* A restart forgets the queue, the resumes and the handlers, and keeps the *)
(* rows.  A shutdown cleans the scenes of the active workers (what its five *)
(* rounds miss or fail to remove stays), a kill cleans none; nothing looks  *)
(* for them when the process comes up again.                                *)

ActiveScenes == {SceneOf(j) : j \in active}

Restart ==
    /\ restarts < MaxRestarts
    /\ restarts' = restarts + 1
    /\ pending' = {}
    /\ active' = {}
    /\ at' = [j \in Jobs |-> IF at[j] = "over" THEN "over" ELSE "idle"]
    /\ scene' = [p \in Pipelines |-> NoScene]
    /\ cleaners' = {}
    /\ \E cleaned \in SUBSET (ActiveScenes \ {NoScene}) :
          /\ trees' = trees \ cleaned
          /\ refs' = refs \ {SceneBranch(s) : s \in cleaned}
    /\ stranded' = trees' \ Awaiting
    /\ UNCHANGED rowVars

-----------------------------------------------------------------------------
RealWorktree(p) == WorktreeAdded(p) \/ WorktreeBlocked(p)

RepairStep(p) == StartRepair(p) \/ RealWorktree(p) \/ Escalates(p)

RunStep(j) ==
    \/ ResumeSpawned(j)
    \/ ConfigFails(j)
    \/ WorkerEnds(j)
    \/ WorkerTreeRemoved(j)
    \/ WorkerRefDeleted(j)
    \/ Leaves(j)

CleanerStep(c) == CleanerTree(c) \/ CleanerRef(c)

Next ==
    \/ \E p \in Pipelines : Webhook(p) \/ SkippedWebhook(p) \/ RepairStep(p)
    \/ \E j \in Jobs : RunStep(j)
    \/ \E s \in Scenes :
          \/ StartResume(s)
          \/ HealClose(s)
          \/ \E v \in {"test", "widen"} : HealResume(s, v)
    \/ Sweep
    \/ \E m \in Mrs : MrTerminal(m)
    \/ \E c \in cleaners : CleanerStep(c)
    \/ Restart

Spec == Init /\ [][Next]_vars

\* Runs go on (worker and gates have timeouts), a waiting resume is started when
\* it can be, handlers get their turn, the sweep timer fires.  Which of several
\* runs or resumes goes on is left open.  Webhooks, pump(), humans and restarts
\* are under no obligation.
Fairness ==
    /\ WF_vars(\E j \in Jobs : RunStep(j))
    /\ WF_vars(\E s \in Scenes : StartResume(s))
    /\ WF_vars(\E c \in cleaners : CleanerStep(c))
    /\ WF_vars(Sweep)

FairSpec == Spec /\ Fairness

-----------------------------------------------------------------------------
(* Safety.                                                                  *)

\* No worktree is forgotten: each belongs to a run, to a decision that waits for
\* a human, to a resume that waits or runs, or to a handler that has yet to come
\* to it, or it is stranded: somebody tried to remove it once and failed, its row
\* could not be written, or a restart forgot it.  (The rows that onMrTerminal
\* listed and has not come to are no reason: the loop may end before.)
SceneOwned ==
    \A s \in trees :
        \/ \E p \in active : SceneOf(p) = s
        \/ s \in Awaiting \cup pending \cup stranded
        \/ \E c \in cleaners :
              \/ s = c.now /\ c.step = "tree"
              \/ s \in c.left /\ ~c.voids

\* A decision that waits for a human while a newer pipeline waits or runs is
\* one that was registered after that pipeline had come: voiding at arrival
\* misses no row that existed, and nothing else makes a waiting decision stale.
StaleOnlyIfLate ==
    \A s \in Awaiting : Overtaking(s) # {} => s \in late

\* What may take the worktree of scene s although somebody is to work in it: the
\* handler of onMrTerminal, from rows it listed before s was resumed; or a restart.
TakenByTerminal(s) ==
    \E c \in cleaners : c.voids /\ c.now = s /\ CleanerTree(c)

\* A worktree is not removed under the worker that is at work in it, by whichever
\* of the processes that clean the shared clone: not by a run of its own key, and
\* by one of another key only if that makes a worktree on the same branch
\* (removeWorktreesOnBranch: "no other live run may legitimately hold it", which
\* one key per branch would make true and the code does not ensure).
WorkerKeepsItsTree ==
    [][\A j \in active :
          at[j] = "agent" /\ SceneOf(j) \in trees \ trees' =>
              \/ \E q \in active \cap Pipelines :
                    /\ RealWorktree(q)
                    /\ BranchOf[q] = SceneBranch(SceneOf(j))
                    /\ KeyOf[q] # KeyOf[j]
              \/ TakenByTerminal(SceneOf(j))
              \/ Restart]_vars

\* The worktree of a decision that a human resumed is there when its resume
\* starts, whatever the TTL, new pipelines and other commands do meanwhile: none
\* of their handlers takes it.  A run that makes its own worktree on the branch
\* does, as do onMrTerminal and a restart.
ResumeKeepsScene ==
    [][\A s \in pending \cap trees :
          s \notin trees' =>
              \/ \E q \in active \cap Pipelines :
                    RealWorktree(q) /\ BranchOf[q] = SceneBranch(s)
              \/ TakenByTerminal(s)
              \/ Restart]_vars

-----------------------------------------------------------------------------
(* Liveness.                                                                *)

\* Once webhooks stop filling the queue somebody gets to every worktree: in the
\* end those are left that are stranded, and no other (cleanupScene makes one try;
\* while webhooks go on, resumes may wait for ever with theirs).
ScenesAreReclaimed ==
    <>[](pending \cap Pipelines = {}) => <>[](trees \subseteq stranded)

-----------------------------------------------------------------------------
(* What documents say and the code does not do.                             *)

\* Cleaning up for a merge request that ended does no harm to a worker that
\* still holds its scene ("worst case a redundant warning log", ADR-0008): a
\* branch that a worker is on is not deleted under it.
LiveBranches == {SceneBranch(SceneOf(j)) : j \in {i \in active : at[i] = "agent"}}

TerminalCleanupIsHarmless ==
    [][\A c \in cleaners :
          c.voids /\ CleanerRef(c) => refs \cap LiveBranches \subseteq refs']_vars

=============================================================================
