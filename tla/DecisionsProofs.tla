-------------------------- MODULE DecisionsProofs --------------------------
(***************************************************************************)
(* The safety properties of Decisions for every set of pipelines, scenes,   *)
(* merge requests and branches, any number of restarts and any cap.         *)
(***************************************************************************)
EXTENDS Decisions, TLAPS

Final == {"void", "gone"}

\* Exactly the jobs that hold their key are somewhere on their way, and none of
\* them waits.
Placed ==
    /\ \A j \in Jobs : j \in active <=> at[j] \notin {"idle", "over"}
    /\ pending \cap active = {}

\* Two active jobs never share a key.
Serial == \A i, j \in active : KeyOf[i] = KeyOf[j] => i = j

\* The scene of a run is a scene of its pipeline, without a row, and it is
\* there at least until the run's worker has been cleaned up behind.
Named ==
    \A p \in Pipelines :
        /\ scene[p] # NoScene =>
              /\ p \in active
              /\ PipeOf[scene[p]] = p
              /\ status[scene[p]] = "none"
        /\ at[p] \in {"setup", "agent", "dirty", "headless"} => scene[p] # NoScene

\* A run that has not made its worktree has none, and one that has tried to
\* remove it has done so or left it stranded.
Removed ==
    /\ \A p \in Pipelines : at[p] = "setup" => scene[p] \notin trees
    /\ \A p \in Pipelines :
          at[p] \in {"headless", "notify"} => scene[p] \notin trees \ stranded
    /\ \A s \in Scenes : at[s] \in {"headless", "notify"} => s \notin trees \ stranded

\* A resume that waits or runs has been decided; only onMrTerminal may have
\* voided it since.
Decided == \A s \in (pending \cup active) \cap Scenes : status[s] \in {"resumed", "void"}

\* What a handler cleans can no longer be resumed, nor, outside onMrTerminal,
\* can what it is going to clean.
Spent ==
    \A c \in cleaners :
        /\ status[c.now] \in Final
        /\ \A s \in c.left : status[s] # "none"
        /\ ~c.voids => \A s \in c.left : status[s] \in Final

\* From /heal to the end of the resume nobody but onMrTerminal has the scene
\* among those to clean.
Spared ==
    \A s \in (pending \cup active) \cap Scenes, c \in cleaners :
        s = c.now \/ s \in c.left => c.voids

\* A handler that is going to remove the worktree of s.
Owns(c, s) ==
    \/ s = c.now /\ c.step = "tree"
    \/ s \in c.left /\ ~c.voids

\* The inductive invariant.
IInv ==
    /\ TypeOK
    /\ Placed
    /\ Serial
    /\ Named
    /\ Removed
    /\ Decided
    /\ Spent
    /\ SceneOwned
    /\ StaleOnlyIfLate
    /\ Spared

-----------------------------------------------------------------------------
(* Operators.                                                               *)

\* What the constants say of a job, its scene and its pipeline.
LEMMA JobFacts ==
  /\ \A p \in Pipelines : p \in Jobs /\ p \notin Scenes /\ BranchOf[p] \in Branches
  /\ \A s \in Scenes : s \in Jobs /\ s \notin Pipelines /\ s # NoScene
  /\ \A s \in Scenes : PipeOf[s] \in Pipelines /\ SceneBranch(s) \in Branches
  BY JobsAssumption, EventAssumption DEF SceneBranch

LEMMA SetStatusType ==
  ASSUME TypeOK, NEW ss, NEW to \in Statuses, SetStatus(ss, to)
  PROVE  /\ status' \in [Scenes -> Statuses]
         /\ \A s \in Scenes : status'[s] = IF s \in ss THEN to ELSE status[s]
         /\ late' \subseteq Scenes
         /\ \A s \in Scenes : s \in late' <=> s \in late /\ s \notin ss
  BY DEF SetStatus, TypeOK

LEMMA CleaningType ==
  ASSUME NEW s \in Scenes, NEW left \in SUBSET Scenes, NEW voids \in BOOLEAN
  PROVE  Cleaning(s, left, voids) \in Cleaner
  BY DEF Cleaning, Cleaner

\* Starting to clean adds at most one handler, which has all of the scenes.
LEMMA StartCleaningFacts ==
  ASSUME TypeOK, NEW ss \in SUBSET Scenes, StartCleaning(ss)
  PROVE  /\ cleaners' \subseteq Cleaner
         /\ cleaners \subseteq cleaners'
         /\ \A c \in cleaners' \ cleaners :
               c.now \in ss /\ c.left \subseteq ss /\ c.step = "tree" /\ ~c.voids
         /\ \A s \in ss : \E c \in cleaners' :
               \/ s = c.now /\ c.step = "tree"
               \/ s \in c.left /\ ~c.voids
<1>1. CASE ss = {} /\ UNCHANGED cleaners
  BY <1>1 DEF TypeOK
<1>2. CASE \E s \in ss : cleaners' = cleaners \cup {Cleaning(s, ss \ {s}, FALSE)}
  <2>1. PICK s \in ss : cleaners' = cleaners \cup {Cleaning(s, ss \ {s}, FALSE)}
    BY <1>2
  <2>2. Cleaning(s, ss \ {s}, FALSE) \in Cleaner
    BY CleaningType
  <2>. DEFINE c == Cleaning(s, ss \ {s}, FALSE)
  <2>3. c.now = s /\ c.left = ss \ {s} /\ c.step = "tree" /\ c.voids = FALSE
    BY DEF Cleaning
  <2>. QED
    BY <2>1, <2>2, <2>3 DEF TypeOK
<1>. QED
  BY <1>1, <1>2 DEF StartCleaning

LEMMA MoveToType ==
  ASSUME TypeOK, NEW j \in Jobs, NEW from, NEW to \in Phases, MoveTo(j, from, to)
  PROVE  /\ at' \in [Jobs -> Phases]
         /\ \A k \in Jobs : at'[k] = IF k = j THEN to ELSE at[k]
  BY DEF MoveTo, TypeOK

-----------------------------------------------------------------------------
(* Webhooks.                                                                *)

\* Voiding rows and starting to clean their scenes, whatever the reason,
\* disturbs no run and leaves each of the scenes with a handler.
LEMMA VoidingKeeps ==
  ASSUME IInv, NEW ss \in SUBSET Awaiting, NEW to \in Final,
         SetStatus(ss, to), StartCleaning(ss),
         UNCHANGED <<active, at, scene, value, task, sceneVars, stranded, restarts>>,
         pending' \subseteq Jobs, pending' \cap active = {},
         pending' \cap Scenes = pending \cap Scenes
  PROVE  /\ TypeOK' /\ Placed' /\ Serial' /\ Named' /\ Removed' /\ Decided' /\ Spent'
         /\ SceneOwned' /\ Spared'
         /\ Awaiting' = Awaiting \ ss
         /\ \A s \in Awaiting' : s \in late => s \in late'
<1>1. /\ status' \in [Scenes -> Statuses]
      /\ \A s \in Scenes : status'[s] = IF s \in ss THEN to ELSE status[s]
      /\ late' \subseteq Scenes
      /\ \A s \in Scenes : s \in late' <=> s \in late /\ s \notin ss
  BY SetStatusType DEF IInv, Final, Statuses
<1>2. /\ cleaners' \subseteq Cleaner
      /\ cleaners \subseteq cleaners'
      /\ \A c \in cleaners' \ cleaners :
            c.now \in ss /\ c.left \subseteq ss /\ c.step = "tree" /\ ~c.voids
      /\ \A s \in ss : \E c \in cleaners' :
            \/ s = c.now /\ c.step = "tree"
            \/ s \in c.left /\ ~c.voids
  BY StartCleaningFacts DEF IInv, Awaiting
<1>3. \A s \in ss : s \in Scenes /\ status[s] = "awaiting"
  BY DEF Awaiting
<1>4. TypeOK'
  BY <1>1, <1>2 DEF IInv, TypeOK, sceneVars
<1>5. Placed' /\ Serial'
  BY DEF IInv, Placed, Serial
<1>6. Named'
  BY <1>1, <1>3, JobFacts DEF IInv, Named, TypeOK
<1>7. Removed'
  BY DEF IInv, Removed, sceneVars
<1>8. Decided'
  BY <1>1, <1>3 DEF IInv, Decided
<1>9. Spent'
  <2>. SUFFICES ASSUME NEW c \in cleaners'
       PROVE  /\ status'[c.now] \in Final
              /\ \A s \in c.left : status'[s] # "none"
              /\ ~c.voids => \A s \in c.left : status'[s] \in Final
    BY DEF Spent
  <2>1. c.now \in Scenes /\ c.left \subseteq Scenes
    BY <1>2 DEF Cleaner
  <2>2. CASE c \in cleaners
    BY <1>1, <2>1, <2>2 DEF IInv, Spent, Final
  <2>3. CASE c \notin cleaners
    BY <1>1, <1>2, <2>1, <2>3 DEF Final
  <2>. QED
    BY <2>2, <2>3
<1>10. Awaiting' = Awaiting \ ss
  BY <1>1 DEF Awaiting, Final
<1>11. SceneOwned'
  <2>. SUFFICES ASSUME NEW s \in trees
       PROVE  \/ \E p \in active : SceneOf(p) = s
              \/ s \in Awaiting' \cup pending' \cup stranded
              \/ \E c \in cleaners' :
                    \/ s = c.now /\ c.step = "tree"
                    \/ s \in c.left /\ ~c.voids
    BY DEF SceneOwned, SceneOf, sceneVars
  <2>1. s \in Scenes
    BY DEF IInv, TypeOK
  <2>2. CASE s \in ss
    BY <1>2, <2>2
  <2>3. CASE s \notin ss
    BY <1>2, <1>10, <2>1, <2>3 DEF IInv, SceneOwned
  <2>. QED
    BY <2>2, <2>3
<1>12. Spared'
  <2>. SUFFICES ASSUME NEW s \in (pending \cup active) \cap Scenes, NEW c \in cleaners',
                       s = c.now \/ s \in c.left
       PROVE  c.voids
    BY DEF Spared
  <2>1. CASE c \in cleaners
    BY <2>1 DEF IInv, Spared
  <2>2. CASE c \notin cleaners
    BY <1>2, <1>3, <2>2 DEF IInv, Decided
  <2>. QED
    BY <2>1, <2>2
<1>. QED
  BY <1>1, <1>4, <1>5, <1>6, <1>7, <1>8, <1>9, <1>10, <1>11, <1>12 DEF Awaiting

LEMMA StaleRowsAwait ==
  ASSUME NEW p
  PROVE  StaleRows(p) \in SUBSET Awaiting
  BY DEF StaleRows

LEMMA WebhookKeeps ==
  ASSUME IInv, NEW p \in Pipelines, Webhook(p)
  PROVE  IInv'
<1>1. /\ SetStatus(StaleRows(p), "void")
      /\ StartCleaning(StaleRows(p))
      /\ UNCHANGED <<active, at, scene, value, task, sceneVars, stranded, restarts>>
  BY DEF Webhook, OnNewPipeline, Admit, Replace
<1>2. /\ pending' \subseteq pending \cup {p}
      /\ pending' \cap Scenes = pending \cap Scenes
  BY JobFacts DEF Webhook, Admit, Replace
<1>3. pending' \subseteq Jobs /\ pending' \cap active = {}
  BY <1>2, JobFacts DEF IInv, TypeOK, Placed, Webhook
<1>4. /\ TypeOK' /\ Placed' /\ Serial' /\ Named' /\ Removed' /\ Decided' /\ Spent'
      /\ SceneOwned' /\ Spared'
      /\ Awaiting' = Awaiting \ StaleRows(p)
      /\ \A s \in Awaiting' : s \in late => s \in late'
  BY <1>1, <1>2, <1>3, StaleRowsAwait, VoidingKeeps DEF Final
<1>5. StaleOnlyIfLate'
  <2>. SUFFICES ASSUME NEW s \in Awaiting', Overtaking(s)' # {}
       PROVE  s \in late'
    BY DEF StaleOnlyIfLate
  <2>1. s \in Awaiting /\ ~Voids(p, s)
    BY <1>4 DEF StaleRows
  <2>2. Overtaking(s)' \subseteq Overtaking(s)
    BY <1>1, <1>2, <2>1 DEF Overtaking, Voids
  <2>3. s \in late
    BY <2>1, <2>2 DEF IInv, StaleOnlyIfLate
  <2>. QED
    BY <1>4, <2>3
<1>. QED
  BY <1>4, <1>5 DEF IInv

\* Rows may be voided for any other reason while nothing new is waiting.
LEMMA VoidingKeepsAll ==
  ASSUME IInv, NEW ss \in SUBSET Awaiting, NEW to \in Final,
         SetStatus(ss, to), StartCleaning(ss),
         UNCHANGED <<pending, active, at, scene, value, task, sceneVars, stranded, restarts>>
  PROVE  IInv'
<1>1. pending' \subseteq Jobs /\ pending' \cap Scenes = pending \cap Scenes
  BY DEF IInv, TypeOK
<1>2. /\ TypeOK' /\ Placed' /\ Serial' /\ Named' /\ Removed' /\ Decided' /\ Spent'
      /\ SceneOwned' /\ Spared'
      /\ Awaiting' = Awaiting \ ss
      /\ \A s \in Awaiting' : s \in late => s \in late'
  BY <1>1, VoidingKeeps DEF IInv, Placed
<1>3. StaleOnlyIfLate'
  BY <1>2 DEF IInv, StaleOnlyIfLate, Overtaking, Voids
<1>. QED
  BY <1>2, <1>3 DEF IInv

LEMMA SkippedWebhookKeeps ==
  ASSUME IInv, NEW p \in Pipelines, SkippedWebhook(p)
  PROVE  IInv'
  BY StaleRowsAwait, VoidingKeepsAll
     DEF SkippedWebhook, OnNewPipeline, execVars, Final

LEMMA HealCloseKeeps ==
  ASSUME IInv, NEW s \in Scenes, HealClose(s)
  PROVE  IInv'
  BY VoidingKeepsAll DEF HealClose, execVars, Final

LEMMA SweepKeeps ==
  ASSUME IInv, Sweep
  PROVE  IInv'
  BY VoidingKeepsAll DEF Sweep, CleanSwept, execVars, Final

-----------------------------------------------------------------------------
(* Runs.                                                                    *)

\* A worktree that is to be removed goes, or stays stranded; no other is touched.
LEMMA RemoveTreeFacts ==
  ASSUME TypeOK, NEW s, RemoveTree(s)
  PROVE  /\ trees' \subseteq trees /\ trees \ {s} \subseteq trees'
         /\ s \notin trees' \ stranded'
         /\ stranded \ {s} \subseteq stranded'
         /\ trees' \subseteq Scenes /\ stranded' \subseteq Scenes
         /\ refs' \subseteq Branches
  BY DEF RemoveTree, TypeOK

LEMMA StartRepairKeeps ==
  ASSUME IInv, NEW p \in Pipelines, StartRepair(p)
  PROVE  IInv'
<1>1. /\ p \in pending /\ p \notin active
      /\ pending' = pending \ {p}
      /\ active' = active \cup {p}
      /\ \A j \in active : KeyOf[j] # KeyOf[p]
  BY DEF StartRepair, TakeKey, Start
<1>2. PICK s \in Free(p) : scene' = [scene EXCEPT ![p] = s]
  BY DEF StartRepair
<1>3. /\ s \in Scenes /\ PipeOf[s] = p /\ status[s] = "none" /\ s \notin trees
      /\ \A q \in Pipelines : scene[q] # s
  BY DEF Free
<1>4. UNCHANGED <<status, value, task, late, trees, refs, cleaners, stranded, restarts>>
  BY DEF StartRepair, rowVars, sceneVars
<1>5. /\ at' = [at EXCEPT ![p] = "setup"]
      /\ at' \in [Jobs -> Phases]
      /\ \A j \in Jobs : at'[j] = IF j = p THEN "setup" ELSE at[j]
  BY JobFacts DEF StartRepair, IInv, TypeOK, Phases
<1>6. /\ scene' \in [Pipelines -> Scenes \cup {NoScene}]
      /\ \A q \in Pipelines : scene'[q] = IF q = p THEN s ELSE scene[q]
  BY <1>2, <1>3 DEF IInv, TypeOK
<1>7. TypeOK'
  BY <1>1, <1>4, <1>5, <1>6, JobFacts DEF IInv, TypeOK
<1>8. Placed' /\ Serial'
  BY <1>1, <1>5, JobFacts DEF IInv, Placed, Serial
<1>9. Named'
  BY <1>1, <1>3, <1>4, <1>5, <1>6, JobFacts DEF IInv, Named
<1>10. Removed'
  BY <1>3, <1>4, <1>5, <1>6, JobFacts DEF IInv, Removed
<1>11. Decided' /\ Spent' /\ Spared'
  BY <1>1, <1>4, JobFacts DEF IInv, Decided, Spent, Spared
<1>12. scene[p] = NoScene
  BY <1>1 DEF IInv, Named
<1>13. SceneOwned'
  <2>. SUFFICES ASSUME NEW t \in trees
       PROVE  \/ \E j \in active' : SceneOf(j)' = t
              \/ t \in Awaiting' \cup pending' \cup stranded'
              \/ \E c \in cleaners' :
                    \/ t = c.now /\ c.step = "tree"
                    \/ t \in c.left /\ ~c.voids
    BY <1>4 DEF SceneOwned
  <2>1. t \in Scenes /\ t # p
    BY JobFacts DEF IInv, TypeOK
  <2>2. ASSUME NEW j \in active, SceneOf(j) = t
        PROVE  j \in active' /\ SceneOf(j)' = t
    <3>1. j \in Jobs /\ j # p
      BY <1>1 DEF IInv, TypeOK
    <3>2. CASE j \in Scenes
      BY <1>1, <2>2, <3>2 DEF SceneOf
    <3>3. CASE j \notin Scenes
      BY <1>1, <1>6, <2>2, <3>1, <3>3, JobsAssumption DEF SceneOf
    <3>. QED
      BY <3>2, <3>3
  <2>. QED
    BY <1>1, <1>4, <2>1, <2>2 DEF IInv, SceneOwned, Awaiting
<1>14. StaleOnlyIfLate'
  BY <1>1, <1>4 DEF IInv, StaleOnlyIfLate, Overtaking, Awaiting, Voids
<1>. QED
  BY <1>7, <1>8, <1>9, <1>10, <1>11, <1>13, <1>14 DEF IInv

LEMMA StartResumeKeeps ==
  ASSUME IInv, NEW s \in Scenes, StartResume(s)
  PROVE  IInv'
<1>1. /\ s \in pending /\ s \notin active
      /\ pending' = pending \ {s}
      /\ active' = active \cup {s}
      /\ \A j \in active : KeyOf[j] # KeyOf[s]
  BY DEF StartResume, TakeKey, Start
<1>2. UNCHANGED <<scene, status, value, task, late, trees, refs, cleaners, stranded, restarts>>
  BY DEF StartResume, rowVars, sceneVars
<1>3. /\ at' \in [Jobs -> Phases]
      /\ \A j \in Jobs : at'[j] = IF j = s THEN "setup" ELSE at[j]
  BY JobFacts DEF StartResume, IInv, TypeOK, Phases
<1>4. TypeOK'
  BY <1>1, <1>2, <1>3, JobFacts DEF IInv, TypeOK
<1>5. Placed' /\ Serial'
  BY <1>1, <1>3, JobFacts DEF IInv, Placed, Serial
<1>6. Named' /\ Removed'
  BY <1>1, <1>2, <1>3, JobFacts DEF IInv, Named, Removed
<1>7. Decided' /\ Spent' /\ Spared'
  BY <1>1, <1>2 DEF IInv, Decided, Spent, Spared
<1>8. SceneOwned'
  BY <1>1, <1>2 DEF IInv, SceneOwned, SceneOf, Awaiting
<1>9. StaleOnlyIfLate'
  BY <1>1, <1>2 DEF IInv, StaleOnlyIfLate, Overtaking, Awaiting, Voids
<1>. QED
  BY <1>4, <1>5, <1>6, <1>7, <1>8, <1>9 DEF IInv

\* A worker that moves on to a phase in which it still may have its worktree.
LEMMA OnlyMovingKeeps ==
  ASSUME IInv, NEW j \in Jobs, NEW from \in SUBSET (Phases \ {"idle", "over", "notify"}),
         NEW to \in {"agent", "dirty"}, MoveTo(j, from, to),
         UNCHANGED <<execVars, scene, rowVars, sceneVars, cleaners, stranded, restarts>>
  PROVE  IInv'
<1>1. /\ at' \in [Jobs -> Phases]
      /\ \A k \in Jobs : at'[k] = IF k = j THEN to ELSE at[k]
  BY MoveToType DEF IInv, Phases
<1>2. j \in active /\ at[j] \in from
  BY DEF MoveTo
<1>3. UNCHANGED <<pending, active, scene, status, value, task, late, trees, refs,
                  cleaners, stranded, restarts>>
  BY DEF execVars, rowVars, sceneVars
<1>4. TypeOK'
  BY <1>1, <1>3 DEF IInv, TypeOK
<1>5. Placed' /\ Serial'
  BY <1>1, <1>2, <1>3 DEF IInv, Placed, Serial
<1>6. Removed'
  BY <1>1, <1>3, JobFacts DEF IInv, Removed
<1>7. Decided' /\ Spent' /\ Spared' /\ SceneOwned'
  BY <1>3 DEF IInv, Decided, Spent, Spared, SceneOwned, SceneOf, Awaiting
<1>8. StaleOnlyIfLate'
  BY <1>3 DEF IInv, StaleOnlyIfLate, Overtaking, Awaiting, Voids
<1>9. Named'
  BY <1>1, <1>2, <1>3, JobFacts DEF IInv, Named, Phases
<1>. QED
  BY <1>4, <1>5, <1>6, <1>7, <1>8, <1>9 DEF IInv

LEMMA ResumeSpawnedKeeps ==
  ASSUME IInv, NEW s \in Jobs, ResumeSpawned(s)
  PROVE  IInv'
<1>1. MoveTo(s, {"setup"}, "agent")
  BY DEF ResumeSpawned
<1>2. {"setup"} \in SUBSET (Phases \ {"idle", "over", "notify"})
  BY DEF Phases
<1>. QED
  BY <1>1, <1>2, OnlyMovingKeeps DEF ResumeSpawned

LEMMA WorkerEndsKeeps ==
  ASSUME IInv, NEW j \in Jobs, WorkerEnds(j)
  PROVE  IInv'
<1>1. MoveTo(j, {"setup", "agent"}, "dirty")
  BY DEF WorkerEnds, AfterWorker
<1>2. {"setup", "agent"} \in SUBSET (Phases \ {"idle", "over", "notify"})
  BY DEF Phases
<1>. QED
  BY <1>1, <1>2, OnlyMovingKeeps DEF WorkerEnds

LEMMA WorktreeAddedKeeps ==
  ASSUME IInv, NEW p \in Pipelines, WorktreeAdded(p)
  PROVE  IInv'
<1>1. MoveTo(p, {"setup"}, "agent") /\ AddTree(scene[p])
  BY DEF WorktreeAdded
<1>2. /\ at' \in [Jobs -> Phases]
      /\ \A k \in Jobs : at'[k] = IF k = p THEN "agent" ELSE at[k]
  BY <1>1, MoveToType, JobFacts DEF IInv, Phases
<1>3. p \in active /\ at[p] = "setup"
  BY <1>1 DEF MoveTo
<1>4. scene[p] \in Scenes /\ PipeOf[scene[p]] = p /\ status[scene[p]] = "none"
  BY <1>3 DEF IInv, Named, TypeOK
<1>5. UNCHANGED <<pending, active, scene, status, value, task, late, cleaners, restarts>>
  BY DEF WorktreeAdded, execVars, rowVars
<1>6. /\ trees' \subseteq trees \cup {scene[p]}
      /\ stranded' = stranded \cap trees'
      /\ refs' \subseteq Branches
  BY <1>1, <1>4, JobFacts DEF AddTree, OnBranch, IInv, TypeOK
<1>7. TypeOK'
  BY <1>2, <1>4, <1>5, <1>6 DEF IInv, TypeOK
<1>8. Placed' /\ Serial'
  BY <1>2, <1>3, <1>5 DEF IInv, Placed, Serial
<1>9. Named'
  BY <1>2, <1>3, <1>5, JobFacts DEF IInv, Named
<1>10. \A q \in Pipelines : q # p => scene[q] # scene[p]
  BY <1>3, <1>4, JobFacts DEF IInv, Named
<1>11. \A s \in Scenes : at[s] \in {"headless", "notify"} => s # scene[p]
  <2>. SUFFICES ASSUME NEW s \in Scenes, at[s] \in {"headless", "notify"}
       PROVE  s # scene[p]
    OBVIOUS
  <2>1. s \in active
    BY JobFacts DEF IInv, Placed
  <2>. QED
    BY <1>4, <2>1 DEF IInv, Decided
<1>12. Removed'
  BY <1>2, <1>5, <1>6, <1>10, <1>11, JobFacts DEF IInv, Removed
<1>13. Decided' /\ Spent' /\ Spared'
  BY <1>5 DEF IInv, Decided, Spent, Spared
<1>14. SceneOwned'
  <2>. SUFFICES ASSUME NEW t \in trees'
       PROVE  \/ \E j \in active' : SceneOf(j)' = t
              \/ t \in Awaiting' \cup pending' \cup stranded'
              \/ \E c \in cleaners' :
                    \/ t = c.now /\ c.step = "tree"
                    \/ t \in c.left /\ ~c.voids
    BY DEF SceneOwned
  <2>1. CASE t = scene[p]
    BY <1>3, <1>5, <2>1, JobFacts DEF SceneOf
  <2>2. CASE t # scene[p]
    BY <1>5, <1>6, <2>2 DEF IInv, SceneOwned, SceneOf, Awaiting
  <2>. QED
    BY <2>1, <2>2
<1>15. StaleOnlyIfLate'
  BY <1>5 DEF IInv, StaleOnlyIfLate, Overtaking, Awaiting, Voids
<1>. QED
  BY <1>7, <1>8, <1>9, <1>12, <1>13, <1>14, <1>15 DEF IInv

\* realWorktree gives up half way: some worktrees on the branch may be gone.
LEMMA WorktreeBlockedKeeps ==
  ASSUME IInv, NEW p \in Pipelines, WorktreeBlocked(p)
  PROVE  IInv'
<1>1. /\ at' \in [Jobs -> Phases]
      /\ \A k \in Jobs : at'[k] = IF k = p THEN "dirty" ELSE at[k]
      /\ p \in active /\ at[p] = "setup"
  BY MoveToType, JobFacts DEF WorktreeBlocked, AfterWorker, MoveTo, IInv, Phases
<1>2. UNCHANGED <<pending, active, scene, status, value, task, late, cleaners, restarts>>
  BY DEF WorktreeBlocked, execVars, rowVars
<1>3. PICK gone \in SUBSET OnBranch(BranchOf[p]) :
        trees' = trees \ gone /\ stranded' = stranded \ gone
  BY DEF WorktreeBlocked, HalfAddTree
<1>4. refs' \subseteq Branches
  BY JobFacts DEF WorktreeBlocked, HalfAddTree, IInv, TypeOK
<1>5. TypeOK'
  BY <1>1, <1>2, <1>3, <1>4 DEF IInv, TypeOK
<1>6. Placed' /\ Serial'
  BY <1>1, <1>2 DEF IInv, Placed, Serial
<1>7. Named' /\ Removed'
  BY <1>1, <1>2, <1>3, JobFacts DEF IInv, Named, Removed
<1>8. Decided' /\ Spent' /\ Spared'
  BY <1>2 DEF IInv, Decided, Spent, Spared
<1>9. SceneOwned'
  BY <1>2, <1>3 DEF IInv, SceneOwned, SceneOf, Awaiting
<1>10. StaleOnlyIfLate'
  BY <1>2 DEF IInv, StaleOnlyIfLate, Overtaking, Awaiting, Voids
<1>. QED
  BY <1>5, <1>6, <1>7, <1>8, <1>9, <1>10 DEF IInv

\* A run that removes its worktree.
LEMMA TreeGoesKeeps ==
  ASSUME IInv, NEW j \in Jobs, NEW from \in SUBSET {"setup", "dirty"},
         NEW to \in {"headless", "notify"}, MoveTo(j, from, to), RemoveTree(SceneOf(j)),
         UNCHANGED <<execVars, scene, rowVars, cleaners, restarts>>
  PROVE  IInv'
<1>1. /\ at' \in [Jobs -> Phases]
      /\ \A k \in Jobs : at'[k] = IF k = j THEN to ELSE at[k]
  BY MoveToType DEF IInv, Phases
<1>2. j \in active /\ at[j] \in {"setup", "dirty"}
  BY DEF MoveTo
<1>3. UNCHANGED <<pending, active, scene, status, value, task, late, cleaners, restarts>>
  BY DEF execVars, rowVars
<1>4. /\ trees' \subseteq trees
      /\ SceneOf(j) \notin trees' \ stranded'
      /\ stranded \ {SceneOf(j)} \subseteq stranded'
      /\ trees' \subseteq Scenes /\ stranded' \subseteq Scenes
      /\ refs' \subseteq Branches
  BY RemoveTreeFacts DEF IInv
<1>5. TypeOK'
  BY <1>1, <1>3, <1>4 DEF IInv, TypeOK
<1>6. Placed' /\ Serial'
  BY <1>1, <1>2, <1>3 DEF IInv, Placed, Serial
<1>7. Named'
  BY <1>1, <1>2, <1>3, JobFacts DEF IInv, Named
<1>8. SceneOf(j) = IF j \in Scenes THEN j ELSE scene[j]
  BY DEF SceneOf
<1>9. Removed'
  BY <1>1, <1>3, <1>4, <1>8, JobFacts DEF IInv, Removed
<1>10. Decided' /\ Spent' /\ Spared'
  BY <1>3 DEF IInv, Decided, Spent, Spared
<1>11. SceneOwned'
  <2>. SUFFICES ASSUME NEW t \in trees', t \notin stranded'
       PROVE  \/ \E k \in active : SceneOf(k) = t
              \/ t \in Awaiting \cup pending
              \/ \E c \in cleaners :
                    \/ t = c.now /\ c.step = "tree"
                    \/ t \in c.left /\ ~c.voids
    BY <1>3 DEF SceneOwned, SceneOf, Awaiting
  <2>1. t \in trees /\ t \notin stranded
    BY <1>4
  <2>. QED
    BY <2>1 DEF IInv, SceneOwned
<1>12. StaleOnlyIfLate'
  BY <1>3 DEF IInv, StaleOnlyIfLate, Overtaking, Awaiting, Voids
<1>. QED
  BY <1>5, <1>6, <1>7, <1>9, <1>10, <1>11, <1>12 DEF IInv

LEMMA ConfigFailsKeeps ==
  ASSUME IInv, NEW j \in Jobs, ConfigFails(j)
  PROVE  IInv'
  BY TreeGoesKeeps DEF ConfigFails

LEMMA WorkerTreeRemovedKeeps ==
  ASSUME IInv, NEW j \in Jobs, WorkerTreeRemoved(j)
  PROVE  IInv'
  BY TreeGoesKeeps DEF WorkerTreeRemoved

LEMMA WorkerRefDeletedKeeps ==
  ASSUME IInv, NEW j \in Jobs, WorkerRefDeleted(j)
  PROVE  IInv'
<1>1. MoveTo(j, {"headless"}, "notify") /\ DeleteRef(SceneOf(j))
  BY DEF WorkerRefDeleted
<1>2. /\ at' \in [Jobs -> Phases]
      /\ \A k \in Jobs : at'[k] = IF k = j THEN "notify" ELSE at[k]
  BY <1>1, MoveToType DEF IInv, Phases
<1>3. j \in active /\ at[j] = "headless"
  BY <1>1 DEF MoveTo
<1>4. UNCHANGED <<pending, active, scene, status, value, task, late, trees, stranded,
                  cleaners, restarts>>
  BY <1>1 DEF WorkerRefDeleted, DeleteRef, execVars, rowVars
<1>5. TypeOK'
  BY <1>1, <1>2, <1>4 DEF IInv, TypeOK, DeleteRef
<1>6. Placed' /\ Serial'
  BY <1>2, <1>3, <1>4 DEF IInv, Placed, Serial
<1>7. Named' /\ Removed'
  BY <1>2, <1>3, <1>4, JobFacts DEF IInv, Named, Removed
<1>8. Decided' /\ Spent' /\ Spared' /\ SceneOwned'
  BY <1>4 DEF IInv, Decided, Spent, Spared, SceneOwned, SceneOf, Awaiting
<1>9. StaleOnlyIfLate'
  BY <1>4 DEF IInv, StaleOnlyIfLate, Overtaking, Awaiting, Voids
<1>. QED
  BY <1>5, <1>6, <1>7, <1>8, <1>9 DEF IInv

LEMMA EscalatesKeeps ==
  ASSUME IInv, NEW p \in Pipelines, Escalates(p)
  PROVE  IInv'
<1>. DEFINE s == scene[p]
<1>1. /\ MoveTo(p, {"agent"}, "notify")
      /\ scene' = [scene EXCEPT ![p] = NoScene]
      /\ UNCHANGED <<pending, active, value, task, trees, refs, cleaners, restarts>>
  BY DEF Escalates, execVars, sceneVars
<1>2. \/ /\ status' = [status EXCEPT ![s] = "awaiting"]
         /\ late' = IF Overtaking(s) = {} THEN late ELSE late \cup {s}
         /\ UNCHANGED stranded
      \/ /\ stranded' = stranded \cup ({s} \cap trees)
         /\ UNCHANGED <<status, late>>
  BY DEF Escalates
<1>3. /\ at' \in [Jobs -> Phases]
      /\ \A k \in Jobs : at'[k] = IF k = p THEN "notify" ELSE at[k]
  BY <1>1, MoveToType, JobFacts DEF IInv, Phases
<1>4. p \in active /\ at[p] = "agent"
  BY <1>1 DEF MoveTo
<1>5. s \in Scenes /\ PipeOf[s] = p /\ status[s] = "none"
  BY <1>4 DEF IInv, Named, TypeOK
<1>6. /\ scene' \in [Pipelines -> Scenes \cup {NoScene}]
      /\ \A q \in Pipelines : scene'[q] = IF q = p THEN NoScene ELSE scene[q]
  BY <1>1 DEF IInv, TypeOK
<1>7. /\ status' \in [Scenes -> Statuses]
      /\ \A t \in Scenes : t # s => status'[t] = status[t]
      /\ status'[s] \in {"none", "awaiting"}
      /\ late' \subseteq Scenes /\ stranded' \subseteq Scenes
      /\ late \subseteq late' /\ stranded \subseteq stranded'
  BY <1>2, <1>5 DEF IInv, TypeOK, Statuses
<1>8. TypeOK'
  BY <1>1, <1>3, <1>6, <1>7 DEF IInv, TypeOK
<1>9. Placed' /\ Serial'
  BY <1>1, <1>3, <1>4 DEF IInv, Placed, Serial
<1>10. \A q \in Pipelines : q # p => scene[q] # s
  BY <1>5, JobFacts DEF IInv, Named
<1>11. Named'
  BY <1>1, <1>3, <1>6, <1>7, <1>10, JobFacts DEF IInv, Named, TypeOK
<1>12. NoScene \notin trees
  BY JobsAssumption DEF IInv, TypeOK
<1>13. Removed'
  BY <1>1, <1>3, <1>6, <1>7, <1>12, JobFacts DEF IInv, Removed
<1>14. s \notin pending \cup active
  BY <1>5 DEF IInv, Decided
<1>15. Decided'
  BY <1>1, <1>7, <1>14 DEF IInv, Decided
<1>16. Spent'
  <2>. SUFFICES ASSUME NEW c \in cleaners
       PROVE  /\ status'[c.now] \in Final
              /\ \A t \in c.left : status'[t] # "none"
              /\ ~c.voids => \A t \in c.left : status'[t] \in Final
    BY <1>1 DEF Spent
  <2>1. c.now \in Scenes /\ c.left \subseteq Scenes
    BY DEF IInv, TypeOK, Cleaner
  <2>2. c.now # s /\ s \notin c.left
    BY <1>5 DEF IInv, Spent, Final
  <2>. QED
    BY <1>7, <2>1, <2>2 DEF IInv, Spent
<1>17. Spared'
  BY <1>1 DEF IInv, Spared
<1>18. SceneOwned'
  <2>. SUFFICES ASSUME NEW t \in trees
       PROVE  \/ \E j \in active : SceneOf(j)' = t
              \/ t \in Awaiting' \cup pending \cup stranded'
              \/ \E c \in cleaners :
                    \/ t = c.now /\ c.step = "tree"
                    \/ t \in c.left /\ ~c.voids
    BY <1>1 DEF SceneOwned
  <2>1. t \in Scenes
    BY DEF IInv, TypeOK
  <2>2. CASE t = s
    BY <1>2, <1>5, <2>2 DEF Awaiting, IInv, TypeOK
  <2>3. CASE t # s
    <3>1. ASSUME NEW j \in active, SceneOf(j) = t
          PROVE  SceneOf(j)' = t
      <4>1. j \in Jobs /\ SceneOf(j)' = IF j \in Scenes THEN j ELSE scene'[j]
        BY DEF IInv, TypeOK, SceneOf
      <4>2. j # p
        BY <2>3, <3>1, JobFacts DEF SceneOf
      <4>. QED
        BY <1>6, <3>1, <4>1, <4>2, JobsAssumption DEF SceneOf
    <3>2. t \in Awaiting => t \in Awaiting'
      BY <1>7, <2>1, <2>3 DEF Awaiting
    <3>. QED
      BY <1>7, <3>1, <3>2 DEF IInv, SceneOwned
  <2>. QED
    BY <2>2, <2>3
<1>19. StaleOnlyIfLate'
  <2>. SUFFICES ASSUME NEW t \in Awaiting', Overtaking(t)' # {}
       PROVE  t \in late'
    BY DEF StaleOnlyIfLate
  <2>1. t \in Scenes /\ Overtaking(t)' = Overtaking(t)
    BY <1>1 DEF Overtaking, Awaiting, Voids
  <2>2. CASE t = s
    BY <1>2, <1>5, <2>1, <2>2 DEF Awaiting
  <2>3. CASE t # s
    BY <1>7, <2>1, <2>3 DEF Awaiting, IInv, StaleOnlyIfLate
  <2>. QED
    BY <2>2, <2>3
<1>. QED
  BY <1>8, <1>9, <1>11, <1>13, <1>15, <1>16, <1>17, <1>18, <1>19 DEF IInv

LEMMA LeavesKeeps ==
  ASSUME IInv, NEW j \in Jobs, Leaves(j)
  PROVE  IInv'
<1>1. PICK to \in {"idle", "over"} :
        /\ at[j] \in {"setup", "notify"} /\ (at[j] = "setup" => j \in Pipelines)
        /\ j \in active
        /\ at' = [at EXCEPT ![j] = to]
  BY DEF Leaves, MoveTo
<1>2. /\ pending' = pending
      /\ active' = active \ {j}
      /\ UNCHANGED <<status, value, task, late, trees, refs, cleaners, stranded, restarts>>
  BY DEF Leaves, Finish, rowVars, sceneVars
<1>3. /\ scene' \in [Pipelines -> Scenes \cup {NoScene}]
      /\ \A q \in Pipelines : scene'[q] = IF q = j THEN NoScene ELSE scene[q]
  BY DEF Leaves, IInv, TypeOK
<1>4. /\ at' \in [Jobs -> Phases]
      /\ \A k \in Jobs : at'[k] = IF k = j THEN to ELSE at[k]
  BY <1>1 DEF IInv, TypeOK, Phases
<1>5. TypeOK'
  BY <1>2, <1>3, <1>4 DEF IInv, TypeOK
<1>6. Placed' /\ Serial'
  BY <1>2, <1>4 DEF IInv, Placed, Serial
<1>7. Named'
  BY <1>2, <1>3, <1>4, JobFacts DEF IInv, Named
<1>8. NoScene \notin trees
  BY JobsAssumption DEF IInv, TypeOK
<1>9. Removed'
  BY <1>2, <1>3, <1>4, <1>8, JobFacts DEF IInv, Removed
<1>10. Decided' /\ Spent' /\ Spared'
  BY <1>2 DEF IInv, Decided, Spent, Spared
<1>11. SceneOf(j) \notin trees \ stranded
  BY <1>1, JobsAssumption DEF IInv, Removed, SceneOf
<1>12. SceneOwned'
  <2>. SUFFICES ASSUME NEW t \in trees
       PROVE  \/ \E k \in active' : SceneOf(k)' = t
              \/ t \in Awaiting \cup pending \cup stranded
              \/ \E c \in cleaners :
                    \/ t = c.now /\ c.step = "tree"
                    \/ t \in c.left /\ ~c.voids
    BY <1>2 DEF SceneOwned, Awaiting
  <2>1. ASSUME NEW k \in active, SceneOf(k) = t, t \notin stranded
        PROVE  k \in active' /\ SceneOf(k)' = t
    <3>1. k # j /\ k \in Jobs
      BY <1>11, <2>1 DEF IInv, TypeOK
    <3>. QED
      BY <1>2, <1>3, <2>1, <3>1, JobsAssumption DEF SceneOf
  <2>. QED
    BY <2>1 DEF IInv, SceneOwned
<1>13. StaleOnlyIfLate'
  BY <1>2 DEF IInv, StaleOnlyIfLate, Overtaking, Awaiting, Voids
<1>. QED
  BY <1>5, <1>6, <1>7, <1>9, <1>10, <1>12, <1>13 DEF IInv

-----------------------------------------------------------------------------
(* Humans and handlers.                                                     *)

LEMMA HealResumeKeeps ==
  ASSUME IInv, NEW s \in Scenes, NEW v \in {"test", "widen"}, HealResume(s, v)
  PROVE  IInv'
<1>1. /\ status[s] = "awaiting"
      /\ pending' = pending \cup {s}
      /\ UNCHANGED <<active, at, scene, trees, refs, cleaners, stranded, restarts>>
  BY DEF HealResume, Admit, Awaiting, sceneVars
<1>2. /\ status' \in [Scenes -> Statuses]
      /\ \A t \in Scenes : status'[t] = IF t = s THEN "resumed" ELSE status[t]
      /\ late' \subseteq Scenes
      /\ \A t \in Scenes : t \in late' <=> t \in late /\ t # s
  BY SetStatusType DEF HealResume, IInv, Statuses
<1>3. value' \in [Scenes -> Values] /\ task' \in [Scenes -> {"none", "test", "widen"}]
  BY DEF HealResume, Carried, IInv, TypeOK, Values
<1>4. TypeOK'
  BY <1>1, <1>2, <1>3, JobFacts DEF IInv, TypeOK
<1>5. Placed' /\ Serial' /\ Removed'
  <2>1. s \notin active
    BY <1>1 DEF IInv, Decided
  <2>. QED
    BY <1>1, <2>1 DEF IInv, Placed, Serial, Removed
<1>6. Named'
  BY <1>1, <1>2, JobFacts DEF IInv, Named, TypeOK
<1>7. Decided'
  BY <1>1, <1>2 DEF IInv, Decided
<1>8. ASSUME NEW c \in cleaners
      PROVE  /\ c.now \in Scenes /\ c.left \subseteq Scenes
             /\ c.now # s
             /\ s \in c.left => c.voids
  BY <1>1 DEF IInv, TypeOK, Cleaner, Spent, Final
<1>9. Spent'
  BY <1>1, <1>2, <1>8 DEF IInv, Spent, Final
<1>10. Spared'
  BY <1>1, <1>8 DEF IInv, Spared
<1>11. SceneOwned'
  <2>. SUFFICES ASSUME NEW t \in trees
       PROVE  \/ \E j \in active : SceneOf(j) = t
              \/ t \in Awaiting' \cup pending' \cup stranded
              \/ \E c \in cleaners :
                    \/ t = c.now /\ c.step = "tree"
                    \/ t \in c.left /\ ~c.voids
    BY <1>1 DEF SceneOwned, SceneOf
  <2>1. t \in Awaiting => t \in Awaiting' \cup pending'
    BY <1>1, <1>2 DEF Awaiting
  <2>. QED
    BY <1>1, <2>1 DEF IInv, SceneOwned
<1>12. StaleOnlyIfLate'
  <2>. SUFFICES ASSUME NEW t \in Awaiting', Overtaking(t)' # {}
       PROVE  t \in late'
    BY DEF StaleOnlyIfLate
  <2>1. t \in Awaiting /\ t # s
    BY <1>2 DEF Awaiting
  <2>2. Overtaking(t)' = Overtaking(t)
    BY <1>1, JobFacts DEF Overtaking, Voids
  <2>. QED
    BY <1>2, <2>1, <2>2 DEF IInv, StaleOnlyIfLate, Awaiting
<1>. QED
  BY <1>4, <1>5, <1>6, <1>7, <1>9, <1>10, <1>11, <1>12 DEF IInv

LEMMA RestartKeeps ==
  ASSUME IInv, Restart
  PROVE  IInv'
<1>1. /\ pending' = {} /\ active' = {} /\ cleaners' = {}
      /\ scene' = [p \in Pipelines |-> NoScene]
      /\ at' = [j \in Jobs |-> IF at[j] = "over" THEN "over" ELSE "idle"]
      /\ trees' \subseteq trees /\ refs' \subseteq refs
      /\ stranded' = trees' \ Awaiting
      /\ UNCHANGED <<status, value, task, late>>
  BY DEF Restart, sceneVars, rowVars
<1>2. restarts' \in 0 .. MaxRestarts
  BY BoundAssumption DEF Restart, IInv, TypeOK
<1>3. TypeOK'
  BY <1>1, <1>2 DEF IInv, TypeOK, Phases
<1>4. Placed' /\ Serial' /\ Decided' /\ Spent' /\ Spared'
  BY <1>1 DEF Placed, Serial, Decided, Spent, Spared
<1>5. Named' /\ Removed'
  BY <1>1, JobsAssumption, JobFacts DEF Named, Removed, IInv, TypeOK
<1>6. SceneOwned'
  BY <1>1 DEF SceneOwned, Awaiting
<1>7. StaleOnlyIfLate'
  BY <1>1 DEF StaleOnlyIfLate, Overtaking
<1>. QED
  BY <1>3, <1>4, <1>5, <1>6, <1>7 DEF IInv

LEMMA CleanerTreeKeeps ==
  ASSUME IInv, NEW c \in cleaners, CleanerTree(c)
  PROVE  IInv'
<1>. DEFINE d == [c EXCEPT !.step = "ref"]
<1>1. /\ c \in Cleaner
      /\ cleaners' = (cleaners \ {c}) \cup {d}
      /\ UNCHANGED <<pending, active, at, scene, status, value, task, late, restarts>>
  BY DEF CleanerTree, execVars, rowVars, IInv, TypeOK
<1>2. /\ d \in Cleaner
      /\ d.now = c.now /\ d.left = c.left /\ d.voids = c.voids /\ d.step = "ref"
  BY <1>1 DEF Cleaner
<1>3. /\ trees' \subseteq trees
      /\ c.now \notin trees' \ stranded'
      /\ stranded \ {c.now} \subseteq stranded'
      /\ trees' \subseteq Scenes /\ stranded' \subseteq Scenes
      /\ refs' \subseteq Branches
  BY RemoveTreeFacts DEF CleanerTree, IInv
<1>4. TypeOK'
  BY <1>1, <1>2, <1>3 DEF IInv, TypeOK
<1>5. Placed' /\ Serial' /\ Named' /\ Decided'
  BY <1>1 DEF IInv, Placed, Serial, Named, Decided
<1>6. Removed'
  BY <1>1, <1>3 DEF IInv, Removed
<1>7. Spent'
  BY <1>1, <1>2 DEF IInv, Spent
<1>8. Spared'
  BY <1>1, <1>2 DEF IInv, Spared
<1>9. SceneOwned'
  <2>. SUFFICES ASSUME NEW t \in trees, t # c.now
       PROVE  \/ \E j \in active : SceneOf(j) = t
              \/ t \in Awaiting \cup pending \cup stranded'
              \/ \E e \in cleaners' : Owns(e, t)
    BY <1>1, <1>3 DEF SceneOwned, SceneOf, Awaiting, Owns
  <2>1. t \in stranded => t \in stranded'
    BY <1>3
  <2>2. ASSUME NEW e \in cleaners, Owns(e, t)
        PROVE  \E f \in cleaners' : Owns(f, t)
    <3>1. CASE e = c
      BY <1>1, <1>2, <2>2, <3>1 DEF Owns
    <3>2. CASE e # c
      BY <1>1, <2>2, <3>2
    <3>. QED
      BY <3>1, <3>2
  <2>. QED
    BY <2>1, <2>2 DEF IInv, SceneOwned, Owns
<1>10. StaleOnlyIfLate'
  BY <1>1 DEF IInv, StaleOnlyIfLate, Overtaking, Awaiting, Voids
<1>. QED
  BY <1>4, <1>5, <1>6, <1>7, <1>8, <1>9, <1>10 DEF IInv

\* The handlers "new" take over from the handlers "done", which have come to
\* the end of a scene, and the rows ss are voided on the way.
HandsOver(done, ss, new) ==
    /\ cleaners' = (cleaners \ done) \cup new
    /\ SetStatus(ss, "void")
    /\ \A s \in ss : status[s] # "none" /\ \E c \in new : s = c.now /\ c.step = "tree"
    /\ \A c \in new :
          /\ c.now \in ss \/ status[c.now] \in Final
          /\ \A s \in c.left : status[s] # "none"
          /\ ~c.voids => /\ \A s \in c.left : status[s] \in Final
                         /\ \A s \in pending \cup active : s # c.now /\ s \notin c.left
    /\ \A c \in done :
          /\ c.step = "ref"
          /\ ~c.voids => \A s \in c.left : \E n \in new : Owns(n, s)
    /\ trees' = trees /\ stranded' = stranded /\ refs' \subseteq Branches
    /\ UNCHANGED <<pending, active, at, scene, value, task, restarts>>

LEMMA HandsOverKeeps ==
  ASSUME IInv,
         NEW done \in SUBSET cleaners, NEW ss \in SUBSET Scenes, NEW new \in SUBSET Cleaner,
         HandsOver(done, ss, new)
  PROVE  IInv'
<1>1. /\ cleaners' = (cleaners \ done) \cup new
      /\ trees' = trees /\ stranded' = stranded /\ refs' \subseteq Branches
      /\ UNCHANGED <<pending, active, at, scene, value, task, restarts>>
  BY DEF HandsOver
<1>n. \A c \in new :
          /\ c.now \in ss \/ status[c.now] \in Final
          /\ \A s \in c.left : status[s] # "none"
          /\ ~c.voids => /\ \A s \in c.left : status[s] \in Final
                         /\ \A s \in pending \cup active : s # c.now /\ s \notin c.left
  BY DEF HandsOver
<1>s. \A s \in ss : status[s] # "none" /\ \E c \in new : s = c.now /\ c.step = "tree"
  BY DEF HandsOver
<1>d. \A c \in done :
          /\ c.step = "ref"
          /\ ~c.voids => \A s \in c.left : \E n \in new : Owns(n, s)
  BY DEF HandsOver
<1>2. /\ status' \in [Scenes -> Statuses]
      /\ \A s \in Scenes : status'[s] = IF s \in ss THEN "void" ELSE status[s]
      /\ late' \subseteq Scenes
      /\ \A s \in Scenes : s \in late' <=> s \in late /\ s \notin ss
  BY SetStatusType DEF IInv, Statuses, HandsOver
<1>3. TypeOK'
  BY <1>1, <1>2 DEF IInv, TypeOK
<1>4. Placed' /\ Serial' /\ Removed'
  BY <1>1 DEF IInv, Placed, Serial, Removed
<1>5. Named'
  BY <1>1, <1>2, <1>s, JobFacts DEF IInv, Named, TypeOK
<1>6. Decided'
  BY <1>1, <1>2 DEF IInv, Decided
<1>7. Spent'
  <2>. SUFFICES ASSUME NEW c \in cleaners'
       PROVE  /\ status'[c.now] \in Final
              /\ \A s \in c.left : status'[s] # "none"
              /\ ~c.voids => \A s \in c.left : status'[s] \in Final
    BY DEF Spent
  <2>1. c.now \in Scenes /\ c.left \subseteq Scenes
    BY <1>1 DEF IInv, TypeOK, Cleaner
  <2>2. CASE c \in new
    BY <1>2, <1>n, <2>1, <2>2 DEF Final
  <2>3. CASE c \in cleaners
    BY <1>2, <2>1, <2>3 DEF IInv, Spent, Final
  <2>. QED
    BY <1>1, <2>2, <2>3
<1>8. Spared'
  <2>. SUFFICES ASSUME NEW s \in (pending \cup active) \cap Scenes, NEW c \in cleaners',
                       s = c.now \/ s \in c.left
       PROVE  c.voids
    BY <1>1 DEF Spared
  <2>1. CASE c \in cleaners
    BY <2>1 DEF IInv, Spared
  <2>2. CASE c \in new
    BY <1>n, <2>2
  <2>. QED
    BY <1>1, <2>1, <2>2
<1>9. SceneOwned'
  <2>. SUFFICES ASSUME NEW t \in trees
       PROVE  \/ \E j \in active : SceneOf(j) = t
              \/ t \in Awaiting' \cup pending \cup stranded
              \/ \E e \in cleaners' : Owns(e, t)
    BY <1>1 DEF SceneOwned, SceneOf, Owns
  <2>1. t \in Scenes
    BY DEF IInv, TypeOK
  <2>2. CASE t \in ss
    BY <1>1, <1>s, <2>2 DEF Owns
  <2>3. t \notin ss /\ t \in Awaiting => t \in Awaiting'
    BY <1>2, <2>1 DEF Awaiting
  <2>4. ASSUME NEW e \in cleaners, Owns(e, t)
        PROVE  \E f \in cleaners' : Owns(f, t)
    <3>1. CASE e \in done
      BY <1>1, <1>d, <2>4, <3>1 DEF Owns
    <3>2. CASE e \notin done
      BY <1>1, <2>4, <3>2
    <3>. QED
      BY <3>1, <3>2
  <2>. QED
    BY <2>2, <2>3, <2>4 DEF IInv, SceneOwned, Owns
<1>10. StaleOnlyIfLate'
  <2>. SUFFICES ASSUME NEW t \in Awaiting', Overtaking(t)' # {}
       PROVE  t \in late'
    BY DEF StaleOnlyIfLate
  <2>1. t \in Awaiting /\ t \notin ss
    BY <1>2 DEF Awaiting
  <2>2. Overtaking(t)' = Overtaking(t)
    BY <1>1 DEF Overtaking, Voids
  <2>. QED
    BY <1>2, <2>1, <2>2 DEF IInv, StaleOnlyIfLate, Awaiting
<1>. QED
  BY <1>3, <1>4, <1>5, <1>6, <1>7, <1>8, <1>9, <1>10 DEF IInv

LEMMA MrTerminalKeeps ==
  ASSUME IInv, NEW m \in Mrs, MrTerminal(m)
  PROVE  IInv'
<1>. DEFINE listed == {s \in Awaiting : MrOf[PipeOf[s]] = m}
<1>1. PICK s \in listed :
        /\ SetStatus({s}, "void")
        /\ cleaners' = cleaners \cup {Cleaning(s, listed \ {s}, TRUE)}
        /\ UNCHANGED <<execVars, at, scene, value, task, sceneVars, stranded, restarts>>
  BY DEF MrTerminal
<1>2. listed \subseteq Scenes /\ \A t \in listed : status[t] = "awaiting"
  BY DEF Awaiting
<1>. DEFINE new == Cleaning(s, listed \ {s}, TRUE)
<1>3. new.now = s /\ new.left = listed \ {s} /\ new.step = "tree" /\ new.voids = TRUE
  BY DEF Cleaning
<1>4. {new} \in SUBSET Cleaner /\ {s} \in SUBSET Scenes /\ {} \in SUBSET cleaners
  BY <1>2, CleaningType
<1>5. cleaners' = (cleaners \ {}) \cup {new}
  BY <1>1
<1>6. refs' \subseteq Branches
  BY <1>1 DEF sceneVars, IInv, TypeOK
<1>. HIDE DEF new, listed
<1>7. HandsOver({}, {s}, {new})
  BY <1>1, <1>2, <1>3, <1>5, <1>6 DEF HandsOver, execVars, sceneVars
<1>. QED
  BY <1>4, <1>7, HandsOverKeeps

LEMMA CleanerRefKeeps ==
  ASSUME IInv, NEW c \in cleaners, CleanerRef(c)
  PROVE  IInv'
<1>1. /\ c.step = "ref"
      /\ DeleteRef(c.now)
      /\ UNCHANGED <<execVars, at, scene, value, task, restarts>>
  BY DEF CleanerRef
<1>2. /\ trees' = trees /\ stranded' = stranded /\ refs' \subseteq Branches
      /\ UNCHANGED <<pending, active, at, scene, value, task, restarts>>
  BY <1>1 DEF DeleteRef, execVars, IInv, TypeOK
<1>3. c \in Cleaner /\ c.left \subseteq Scenes /\ c.voids \in BOOLEAN
  BY DEF IInv, TypeOK, Cleaner
<1>4. /\ \A s \in c.left : status[s] # "none"
      /\ ~c.voids => /\ \A s \in c.left : status[s] \in Final
                     /\ \A s \in pending \cup active : s \notin c.left
  BY <1>3 DEF IInv, Spent, Spared
<1>5. ASSUME UNCHANGED <<status, late>>
      PROVE  SetStatus({}, "void")
  BY <1>5 DEF SetStatus, IInv, TypeOK
<1>6. CASE /\ c.left = {} \/ c.voids
           /\ cleaners' = cleaners \ {c}
           /\ UNCHANGED <<status, late>>
  <2>1. HandsOver({c}, {}, {})
    BY <1>1, <1>2, <1>5, <1>6 DEF HandsOver
  <2>. QED
    BY <2>1, HandsOverKeeps
<1>7. ASSUME NEW s \in c.left, NEW ss \in SUBSET {s},
             c.voids <=> ss # {},
             SetStatus(ss, "void"),
             cleaners' = (cleaners \ {c}) \cup {Cleaning(s, c.left \ {s}, c.voids)}
      PROVE  IInv'
  <2>. DEFINE new == Cleaning(s, c.left \ {s}, c.voids)
  <2>1. new.now = s /\ new.left = c.left \ {s} /\ new.step = "tree" /\ new.voids = c.voids
    BY DEF Cleaning
  <2>2. {new} \in SUBSET Cleaner /\ ss \in SUBSET Scenes
    BY <1>3, CleaningType
  <2>3. cleaners' = (cleaners \ {c}) \cup {new}
    BY <1>7
  <2>. HIDE DEF new
  <2>4. \A t \in ss : status[t] # "none" /\ \E d \in {new} : t = d.now /\ d.step = "tree"
    BY <1>4, <2>1
  <2>5. /\ new.now \in ss \/ status[new.now] \in Final
        /\ \A t \in new.left : status[t] # "none"
        /\ ~new.voids => /\ \A t \in new.left : status[t] \in Final
                         /\ \A t \in pending \cup active : t # new.now /\ t \notin new.left
    BY <1>4, <1>7, <2>1
  <2>6. ~c.voids => \A t \in c.left : Owns(new, t)
    BY <2>1 DEF Owns
  <2>7. HandsOver({c}, ss, {new})
    BY <1>1, <1>2, <1>7, <2>3, <2>4, <2>5, <2>6 DEF HandsOver
  <2>. QED
    BY <2>2, <2>7, HandsOverKeeps
<1>8. ASSUME NEW s \in c.left,
             ~c.voids,
             cleaners' = (cleaners \ {c}) \cup {Cleaning(s, c.left \ {s}, FALSE)},
             UNCHANGED <<status, late>>
      PROVE  IInv'
  <2>1. cleaners' = (cleaners \ {c}) \cup {Cleaning(s, c.left \ {s}, c.voids)}
    BY <1>3, <1>8
  <2>. QED
    BY <1>5, <1>7, <1>8, <2>1
<1>9. ASSUME NEW s \in c.left,
             c.voids,
             cleaners' = (cleaners \ {c}) \cup {Cleaning(s, c.left \ {s}, TRUE)},
             SetStatus({s}, "void")
      PROVE  IInv'
  <2>1. cleaners' = (cleaners \ {c}) \cup {Cleaning(s, c.left \ {s}, c.voids)}
    BY <1>3, <1>9
  <2>. QED
    BY <1>7, <1>9, <2>1
<1>. QED
  BY <1>6, <1>8, <1>9 DEF CleanerRef, NextRow

-----------------------------------------------------------------------------
(* The theorems.                                                            *)

LEMMA InitIInv == Init => IInv
<1>. SUFFICES ASSUME Init
     PROVE  IInv
  OBVIOUS
<1>1. TypeOK
  BY BoundAssumption DEF Init, ExecInit, TypeOK, Phases, Statuses, Values
<1>2. Placed /\ Serial /\ Decided /\ Spent /\ SceneOwned /\ Spared
  BY DEF Init, ExecInit, Placed, Serial, Decided, Spent, SceneOwned, Spared
<1>3. Named /\ Removed
  BY JobFacts DEF Init, Named, Removed
<1>4. StaleOnlyIfLate
  BY DEF Init, ExecInit, StaleOnlyIfLate, Overtaking
<1>. QED
  BY <1>1, <1>2, <1>3, <1>4 DEF IInv

LEMMA StutterKeeps ==
  ASSUME IInv, UNCHANGED vars
  PROVE  IInv'
<1>1. UNCHANGED <<pending, active, at, scene, status, value, task, trees, refs,
                  cleaners, late, stranded, restarts>>
  BY DEF vars
<1>2. TypeOK' /\ Placed' /\ Serial' /\ Named' /\ Removed'
  BY <1>1 DEF IInv, TypeOK, Placed, Serial, Named, Removed
<1>3. Decided' /\ Spent' /\ SceneOwned' /\ Spared'
  BY <1>1 DEF IInv, Decided, Spent, SceneOwned, SceneOf, Awaiting, Spared
<1>4. StaleOnlyIfLate'
  BY <1>1 DEF IInv, StaleOnlyIfLate, Overtaking, Awaiting, Voids
<1>. QED
  BY <1>2, <1>3, <1>4 DEF IInv

LEMMA NextKeeps ==
  ASSUME IInv, [Next]_vars
  PROVE  IInv'
<1>1. ASSUME NEW p \in Pipelines, Webhook(p) \/ SkippedWebhook(p) \/ RepairStep(p)
      PROVE  IInv'
  BY <1>1, WebhookKeeps, SkippedWebhookKeeps, StartRepairKeeps, WorktreeAddedKeeps,
     WorktreeBlockedKeeps, EscalatesKeeps DEF RepairStep, RealWorktree
<1>2. ASSUME NEW j \in Jobs, RunStep(j)
      PROVE  IInv'
  BY <1>2, ResumeSpawnedKeeps, ConfigFailsKeeps, WorkerEndsKeeps, WorkerTreeRemovedKeeps,
     WorkerRefDeletedKeeps, LeavesKeeps DEF RunStep
<1>3. ASSUME NEW s \in Scenes,
             \/ StartResume(s)
             \/ HealClose(s)
             \/ \E v \in {"test", "widen"} : HealResume(s, v)
      PROVE  IInv'
  BY <1>3, StartResumeKeeps, HealCloseKeeps, HealResumeKeeps
<1>4. CASE Sweep
  BY <1>4, SweepKeeps
<1>5. ASSUME NEW m \in Mrs, MrTerminal(m)
      PROVE  IInv'
  BY <1>5, MrTerminalKeeps
<1>6. ASSUME NEW c \in cleaners, CleanerStep(c)
      PROVE  IInv'
  BY <1>6, CleanerTreeKeeps, CleanerRefKeeps DEF CleanerStep
<1>7. CASE Restart
  BY <1>7, RestartKeeps
<1>8. CASE UNCHANGED vars
  BY <1>8, StutterKeeps
<1>. QED
  BY <1>1, <1>2, <1>3, <1>4, <1>5, <1>6, <1>7, <1>8 DEF Next

\* The strengthened invariant holds in every reachable state.
THEOREM Invariance == Spec => []IInv
<1>1. Init => IInv
  BY InitIInv
<1>2. IInv /\ [Next]_vars => IInv'
  BY NextKeeps
<1>. QED
  BY <1>1, <1>2, PTL DEF Spec

\* Every variable keeps its type (the fields of the scheduler, of the store
\* and of the handlers).
THEOREM TypeCorrect == Spec => []TypeOK
<1>1. IInv => TypeOK
  BY DEF IInv
<1>. QED
  BY <1>1, Invariance, PTL

\* Every worktree of the shared clone has somebody who will come to it, or was
\* stranded by a removal that failed, by a restart or by a row that could not be
\* written: no end of a run, no /heal, no TTL, no webhook and no end of a merge
\* request forgets one without having tried.
THEOREM ScenesHaveOwners == Spec => []SceneOwned
<1>1. IInv => SceneOwned
  BY DEF IInv
<1>. QED
  BY <1>1, Invariance, PTL

\* A decision is stale only when it was registered after the pipeline that
\* makes it so had come (scheduler.ts registers when the run is over).
THEOREM StaleDecisionsAreLate == Spec => []StaleOnlyIfLate
<1>1. IInv => StaleOnlyIfLate
  BY DEF IInv
<1>. QED
  BY <1>1, Invariance, PTL

-----------------------------------------------------------------------------
(* Who may take a worktree.                                                 *)

\* The steps that remove worktrees: those of removeWorktreesOnBranch, those of
\* cleanupScene, and a shutdown.
LEMMA TreesGoBy ==
  ASSUME IInv, [Next]_vars, NEW s \in trees, s \notin trees'
  PROVE  \/ \E p \in active \cap Pipelines :
               /\ RealWorktree(p) /\ at[p] = "setup"
               /\ BranchOf[p] = SceneBranch(s)
         \/ \E j \in active : s = SceneOf(j) /\ at[j] \in {"setup", "dirty"}
         \/ \E c \in cleaners : CleanerTree(c) /\ s = c.now
         \/ Restart
<1>1. ASSUME NEW p \in Pipelines, WorktreeAdded(p) \/ WorktreeBlocked(p)
      PROVE  /\ p \in active /\ at[p] = "setup" /\ RealWorktree(p)
             /\ BranchOf[p] = SceneBranch(s)
  <2>1. p \in active /\ at[p] = "setup" /\ RealWorktree(p)
    BY <1>1 DEF WorktreeAdded, WorktreeBlocked, MoveTo, RealWorktree
  <2>2. PipeOf[scene[p]] = p
    BY <2>1 DEF IInv, Named
  <2>3. s \in OnBranch(BranchOf[p])
    BY <1>1, <2>2 DEF WorktreeAdded, WorktreeBlocked, AddTree, HalfAddTree, SceneBranch
  <2>. QED
    BY <2>1, <2>3 DEF OnBranch
<1>2. ASSUME NEW j \in Jobs, RunStep(j)
      PROVE  j \in active /\ s = SceneOf(j) /\ at[j] \in {"setup", "dirty"}
  BY <1>2 DEF RunStep, ResumeSpawned, ConfigFails, WorkerEnds, WorkerTreeRemoved,
     WorkerRefDeleted, Leaves, MoveTo, RemoveTree, DeleteRef, sceneVars
<1>3. ASSUME NEW c \in cleaners, CleanerStep(c)
      PROVE  CleanerTree(c) /\ s = c.now
  BY <1>3 DEF CleanerStep, CleanerTree, CleanerRef, RemoveTree, DeleteRef
<1>4. ASSUME NEW p \in Pipelines,
             Webhook(p) \/ SkippedWebhook(p) \/ StartRepair(p) \/ Escalates(p)
      PROVE  FALSE
  BY <1>4 DEF Webhook, SkippedWebhook, StartRepair, Escalates, sceneVars
<1>5. ASSUME NEW t \in Scenes,
             \/ StartResume(t)
             \/ HealClose(t)
             \/ \E v \in {"test", "widen"} : HealResume(t, v)
      PROVE  FALSE
  BY <1>5 DEF StartResume, HealClose, HealResume, sceneVars
<1>6. CASE Sweep \/ (\E m \in Mrs : MrTerminal(m)) \/ UNCHANGED vars
  BY <1>6 DEF Sweep, MrTerminal, sceneVars, vars
<1>. QED
  BY <1>1, <1>2, <1>3, <1>4, <1>5, <1>6 DEF Next, RepairStep, RealWorktree

\* Two jobs at work have two scenes.
LEMMA ScenesAreApart ==
  ASSUME IInv, NEW i \in active, NEW j \in active,
         at[i] # "notify", at[j] # "notify", SceneOf(i) = SceneOf(j)
  PROVE  i = j
<1>1. \A k \in active : k \in Jobs /\ at[k] \notin {"idle", "over"} /\ at[k] \in Phases
  BY DEF IInv, TypeOK, Placed
<1>2. \A k \in active \cap Pipelines :
        at[k] # "notify" => /\ scene[k] \in Scenes /\ PipeOf[scene[k]] = k
                            /\ status[scene[k]] = "none"
  BY <1>1, JobFacts DEF IInv, Named, TypeOK, Phases
<1>3. \A k \in active \cap Scenes : status[k] # "none"
  BY DEF IInv, Decided
<1>4. \A k \in active : k \in Scenes \/ k \in Pipelines
  BY <1>1, JobsAssumption
<1>5. CASE i \in Scenes
  BY <1>2, <1>3, <1>4, <1>5, JobFacts DEF SceneOf
<1>6. CASE j \in Scenes
  BY <1>2, <1>3, <1>4, <1>6, JobFacts DEF SceneOf
<1>7. CASE i \notin Scenes /\ j \notin Scenes
  BY <1>2, <1>4, <1>7 DEF SceneOf
<1>. QED
  BY <1>5, <1>6, <1>7

\* Nobody removes the worktree under a worker that is at work in it but a run of
\* another key on the same branch, the handler of onMrTerminal, and a restart:
\* what serialises the runs of one key keeps them out of each other's worktrees,
\* and no TTL, webhook or /heal cleans one that is in use.
THEOREM WorkersKeepTheirTrees == Spec => WorkerKeepsItsTree
<1>1. ASSUME IInv, [Next]_vars, NEW j \in active,
             at[j] = "agent", SceneOf(j) \in trees \ trees'
      PROVE  \/ \E q \in active \cap Pipelines :
                   /\ RealWorktree(q)
                   /\ BranchOf[q] = SceneBranch(SceneOf(j))
                   /\ KeyOf[q] # KeyOf[j]
             \/ TakenByTerminal(SceneOf(j))
             \/ Restart
  <2>1. ASSUME NEW q \in active \cap Pipelines, at[q] = "setup"
        PROVE  KeyOf[q] # KeyOf[j]
    BY <1>1, <2>1 DEF IInv, Serial
  <2>2. ASSUME NEW i \in active, SceneOf(j) = SceneOf(i), at[i] \in {"setup", "dirty"}
        PROVE  FALSE
    BY <1>1, <2>2, ScenesAreApart
  <2>3. ASSUME NEW c \in cleaners, SceneOf(j) = c.now
        PROVE  c.voids
    <3>1. c.now \in Scenes /\ status[c.now] # "none"
      BY <1>1 DEF IInv, TypeOK, Cleaner, Spent, Final
    <3>2. j \in Jobs /\ (j \in Pipelines => status[scene[j]] = "none")
      BY <1>1, JobFacts DEF IInv, TypeOK, Named
    <3>3. j \in Scenes
      BY <2>3, <3>1, <3>2, JobsAssumption DEF SceneOf
    <3>. QED
      BY <1>1, <2>3, <3>3 DEF IInv, Spared, SceneOf
  <2>. QED
    BY <1>1, <2>1, <2>2, <2>3, TreesGoBy DEF TakenByTerminal
<1>2. IInv /\ [Next]_vars =>
        [\A j \in active :
            at[j] = "agent" /\ SceneOf(j) \in trees \ trees' =>
                \/ \E q \in active \cap Pipelines :
                      /\ RealWorktree(q)
                      /\ BranchOf[q] = SceneBranch(SceneOf(j))
                      /\ KeyOf[q] # KeyOf[j]
                \/ TakenByTerminal(SceneOf(j))
                \/ Restart]_vars
  BY <1>1
<1>. QED
  BY <1>2, Invariance, PTL DEF Spec, WorkerKeepsItsTree

\* While a resume waits nobody removes its worktree but a run that makes its own
\* on the branch, the handler of onMrTerminal, and a restart.
THEOREM ResumesKeepTheirScene == Spec => ResumeKeepsScene
<1>1. ASSUME IInv, [Next]_vars, NEW s \in pending \cap trees, s \notin trees'
      PROVE  \/ \E q \in active \cap Pipelines :
                   RealWorktree(q) /\ BranchOf[q] = SceneBranch(s)
             \/ TakenByTerminal(s)
             \/ Restart
  <2>1. s \in Scenes /\ s \in pending /\ status[s] # "none"
    BY <1>1 DEF IInv, TypeOK, Decided
  <2>2. ASSUME NEW i \in active, s = SceneOf(i), at[i] \in {"setup", "dirty"}
        PROVE  i = s
    <3>1. i \in Jobs /\ (i \in Pipelines => status[scene[i]] = "none")
      BY <1>1, <2>2, JobFacts DEF IInv, TypeOK, Named
    <3>. QED
      BY <2>1, <2>2, <3>1, JobsAssumption DEF SceneOf
  <2>3. ASSUME NEW c \in cleaners, s = c.now
        PROVE  c.voids
    BY <1>1, <2>1, <2>3 DEF IInv, Spared
  <2>4. ~\E i \in active : s = SceneOf(i) /\ at[i] \in {"setup", "dirty"}
    BY <1>1, <2>2 DEF IInv, Placed
  <2>. QED
    BY <1>1, <2>3, <2>4, TreesGoBy DEF TakenByTerminal
<1>2. IInv /\ [Next]_vars =>
        [\A s \in pending \cap trees :
            s \notin trees' =>
                \/ \E q \in active \cap Pipelines :
                      RealWorktree(q) /\ BranchOf[q] = SceneBranch(s)
                \/ TakenByTerminal(s)
                \/ Restart]_vars
  BY <1>1
<1>. QED
  BY <1>2, Invariance, PTL DEF Spec, ResumeKeepsScene

=============================================================================
