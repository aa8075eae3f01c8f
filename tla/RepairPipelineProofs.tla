------------------------ MODULE RepairPipelineProofs ------------------------
(***************************************************************************)
(* The safety properties of RepairPipeline hold for every choice of paths,  *)
(* classes and limits.  The invariant carries, with the types, what each    *)
(* stage has already established: a run under way has no outcome and has    *)
(* told nobody (Undecided), a stage inside repairFixed has a live worktree  *)
(* (TreeInv), the loop has a retry left (AttemptInv), what the stages after *)
(* the gates carry has passed them (GateInv).                               *)
(***************************************************************************)
EXTENDS RepairPipeline, TLAPS

Running == Stages \ {"notify", "record", "write", "exited", "thrown", "settled"}

\* The stages whose patch the gates have admitted.
Admitted == {"fresh", "find", "push", "open", "monitor", "ci-log"}

Undecided ==
    /\ stage \in Running => outcome.kind = "none" /\ outcome.decidable = FALSE
    /\ outcome.decidable => outcome.kind = "escalated"
    /\ stage \in Running \cup {"notify"} => told = "none"
    /\ stage # "settled" => verdict = "none" /\ retained = FALSE

AttemptInv == stage \in Running => attempt < RetryLimit

\* Before the first poll the worker has seen no pipeline.
SeenInv ==
    stage \in Running \ {"monitor", "ci-log", "continue", "recheck"} => seen = NoPipeline

TreeInv ==
    /\ stage \in Running \ {"spawn", "log", "tree", "diff"} => tree = "live"
    /\ stage = "diff" => tree = "live"
    /\ stage = "spawn" /\ mode = "resume" => tree = "live"
    /\ outcome.decidable /\ stage \in {"notify", "record", "write", "exited"}
           => tree = "live"
    /\ stage \in {"log", "tree", "diff"} => mode = "repair"
    /\ stage = "resume-diff" => mode = "resume"

GateInv ==
    /\ stage \in Admitted => Admissible
    /\ outcome.kind = "mr" => Admissible

RedInv == outcome.kind = "mr" => seen.status \notin {"failed", "pending"}

ToldInv ==
    /\ told = "success" => outcome.kind = "mr"
    /\ told = "failure" => outcome.kind = "failed"
    /\ stage \in {"record", "write", "exited"} /\ outcome.kind = "mr" => told = "success"
    /\ verdict \in {"none", "crashed", outcome.kind}
    /\ verdict = "mr" => told = "success"

SceneInv == retained => tree = "live"

SessionInv ==
    /\ mode = "repair" /\ ~fixed => session # "open"
    /\ stage \in {"write", "exited"} /\ fixed => session = "closed"

IInv ==
    /\ TypeOK
    /\ Undecided
    /\ AttemptInv
    /\ SeenInv
    /\ TreeInv
    /\ GateInv
    /\ RedInv
    /\ ToldInv
    /\ SceneInv
    /\ SessionInv

-----------------------------------------------------------------------------

LEMMA WidenableBoolean == Widenable \in BOOLEAN
BY DEF Widenable

LEMMA InitInv == Init => IInv
<1> SUFFICES ASSUME Init PROVE IInv
  OBVIOUS
<1>1. NoPipeline \in Pipelines /\ ci \in Pipelines
  BY SMT DEF Init, NoPipeline, Pipelines, Statuses
<1>2. edits \in SUBSET AgentPaths /\ far \in SUBSET AgentPaths /\ spill \in SUBSET SpillFiles
  BY SMT DEF Init, SpillFiles
<1>3. approved \in SUBSET TestOrDoc
  BY SMT DEF Init
<1>4. mrEvent \in BOOLEAN /\ lint \in BOOLEAN /\ fixed \in BOOLEAN /\ superseded \in BOOLEAN
      /\ retained \in BOOLEAN
  BY Zenon DEF Init
<1>5. TypeOK
  BY <1>1, <1>2, <1>3, <1>4, LimitAssumption, SMT DEF Init, TypeOK, Stages, NoOutcome,
     Reasons, Outcomes
<1>6. Undecided /\ AttemptInv /\ SeenInv /\ TreeInv /\ RedInv /\ ToldInv /\ SceneInv /\ SessionInv
  BY LimitAssumption, SMT DEF Init, Undecided, AttemptInv, SeenInv, TreeInv, RedInv, ToldInv,
     SceneInv, SessionInv, NoOutcome, NoPipeline, Running, Stages
<1>7. GateInv
  BY SMT DEF Init, GateInv, Admitted, NoOutcome
<1> QED
  BY <1>5, <1>6, <1>7 DEF IInv

\* What may be published depends on the task and the edits alone.
LEMMA AdmissibleSame ==
  ASSUME UNCHANGED <<task, edits, far>>
  PROVE  Admissible' <=> Admissible
BY DEF task, Admissible, DiffFiles

\* A patch the gates let through is one that may be published.
LEMMA GatesAdmit ==
  ASSUME ~PathViolation, ~LineViolation
  PROVE  Admissible
<1> SUFFICES ASSUME NEW p \in edits
             PROVE  /\ p \notin BuildConfig
                    /\ DiffFiles # {} => p \in MrFiles \cup approved
                    /\ DiffFiles = {} => p \notin Production
                    /\ lint /\ p \in Production => p \notin far
  BY DEF Admissible
<1>1. p \in PatchPaths
  BY DEF PatchPaths
<1>2. p \notin BuildConfig /\ (DiffFiles = {} => p \notin Production)
      /\ (DiffFiles # {} => p \in DiffFiles)
  BY <1>1 DEF PathViolation
<1>3. DiffFiles \subseteq MrFiles \cup approved
  BY DEF DiffFiles
<1>4. lint /\ p \in Production => p \notin far
  BY <1>1 DEF LineViolation
<1> QED
  BY <1>2, <1>3, <1>4

\* No pipeline the loop accepts is red or running.
LEMMA AcceptedStatus ==
  ASSUME NEW p \in Pipelines, StatusOf(p) \in {"success", "unknown"}
  PROVE  p.status \notin {"failed", "pending"}
BY DEF StatusOf, Pipelines, Statuses

LEMMA SpawnInv == IInv /\ Spawn => IInv'
<1> SUFFICES ASSUME IInv, Spawn PROVE IInv'
  OBVIOUS
<1> USE DEF IInv
<1>1. TypeOK'
  BY LimitAssumption, SMT DEF TypeOK, Spawn, task, work, loop, gitlab, report, Running,
     AttemptInv, NoPipeline, Outcomes, Reasons, Stages, Pipelines, Statuses, SpillFiles
<1>2. Undecided' /\ AttemptInv' /\ SeenInv'
      /\ TreeInv' /\ RedInv' /\ ToldInv' /\ SceneInv' /\ SessionInv'
  BY LimitAssumption, SMT DEF TypeOK, Spawn, task, work, loop, gitlab, report, Undecided,
     AttemptInv, SeenInv, TreeInv, RedInv, ToldInv, SceneInv, SessionInv, Running, Stages
<1>3. Admissible' <=> Admissible
  BY AdmissibleSame DEF Spawn, task, work
<1>4. GateInv'
  BY <1>3, SMT DEF GateInv, Admitted, Spawn, task, work, loop, gitlab, report, ToldInv
<1> QED
  BY <1>1, <1>2, <1>4

LEMMA FetchLogInv == IInv /\ FetchLog => IInv'
<1> SUFFICES ASSUME IInv, FetchLog PROVE IInv'
  OBVIOUS
<1> USE DEF IInv
<1>a. outcome' \in Outcomes
  <2>1. CASE Finish("failed", FALSE, "log")
    BY <2>1, WidenableBoolean, SMT DEF TypeOK, Finish, Outcomes, Reasons
  <2>2. CASE Finish("escalated", FALSE, "class5")
    BY <2>2, WidenableBoolean, SMT DEF TypeOK, Finish, Outcomes, Reasons
  <2>3. CASE UNCHANGED outcome
    BY <2>3, WidenableBoolean, SMT DEF TypeOK, Finish, Outcomes, Reasons
  <2> QED
    BY <2>1, <2>2, <2>3 DEF FetchLog
<1>b. stage' \in Stages
  BY SMT DEF TypeOK, FetchLog, Finish, Stages
<1>c. edits' \in SUBSET AgentPaths /\ far' \in SUBSET AgentPaths /\ spill' \in SUBSET SpillFiles
  BY PathAssumption, SMT DEF TypeOK, FetchLog, Finish, work, SpillFiles
<1>1. TypeOK'
  BY <1>a, <1>b, <1>c, LimitAssumption, SMT DEF TypeOK, FetchLog, Finish, task, work, loop,
     gitlab, report, Running, AttemptInv, NoPipeline, Stages, Pipelines, Statuses, SpillFiles
<1>2. Undecided' /\ AttemptInv' /\ SeenInv'
      /\ TreeInv' /\ RedInv' /\ ToldInv' /\ SceneInv' /\ SessionInv'
  BY LimitAssumption, SMT DEF TypeOK, FetchLog, Finish, task, work, loop, gitlab, report,
     Undecided, AttemptInv, SeenInv, TreeInv, RedInv, ToldInv, SceneInv, SessionInv, Running,
     Stages
<1>3. Admissible' <=> Admissible
  BY AdmissibleSame DEF FetchLog, Finish, task, work
<1>4. GateInv'
  BY <1>3, SMT DEF GateInv, Admitted, FetchLog, Finish, task, work, loop, gitlab, report, ToldInv
<1> QED
  BY <1>1, <1>2, <1>4

LEMMA CreateTreeInv == IInv /\ CreateTree => IInv'
<1> SUFFICES ASSUME IInv, CreateTree PROVE IInv'
  OBVIOUS
<1> USE DEF IInv
<1>a. outcome' \in Outcomes
  <2>1. CASE Finish("failed", FALSE, "worktree")
    BY <2>1, WidenableBoolean, SMT DEF TypeOK, Finish, Outcomes, Reasons
  <2>2. CASE UNCHANGED outcome
    BY <2>2, WidenableBoolean, SMT DEF TypeOK, Finish, Outcomes, Reasons
  <2> QED
    BY <2>1, <2>2 DEF CreateTree
<1>b. stage' \in Stages
  BY SMT DEF TypeOK, CreateTree, Finish, Stages
<1>c. edits' \in SUBSET AgentPaths /\ far' \in SUBSET AgentPaths /\ spill' \in SUBSET SpillFiles
  BY PathAssumption, SMT DEF TypeOK, CreateTree, Finish, work, SpillFiles
<1>1. TypeOK'
  BY <1>a, <1>b, <1>c, LimitAssumption, SMT DEF TypeOK, CreateTree, Finish, task, work, loop,
     gitlab, report, Running, AttemptInv, NoPipeline, Stages, Pipelines, Statuses, SpillFiles
<1>2. Undecided' /\ AttemptInv' /\ SeenInv'
      /\ TreeInv' /\ RedInv' /\ ToldInv' /\ SceneInv' /\ SessionInv'
  BY LimitAssumption, SMT DEF TypeOK, CreateTree, Finish, task, work, loop, gitlab, report,
     Undecided, AttemptInv, SeenInv, TreeInv, RedInv, ToldInv, SceneInv, SessionInv, Running,
     Stages
<1>3. Admissible' <=> Admissible
  BY AdmissibleSame DEF CreateTree, Finish, task, work
<1>4. GateInv'
  BY <1>3, SMT DEF GateInv, Admitted, CreateTree, Finish, task, work, loop, gitlab, report,
     ToldInv
<1> QED
  BY <1>1, <1>2, <1>4

LEMMA PrepareRunInv == IInv /\ PrepareRun => IInv'
<1> SUFFICES ASSUME IInv, PrepareRun PROVE IInv'
  OBVIOUS
<1> USE DEF IInv
<1>a. outcome' \in Outcomes
  BY DEF TypeOK, PrepareRun
<1>b. stage' \in Stages
  BY SMT DEF TypeOK, PrepareRun, Stages
<1>c. edits' \in SUBSET AgentPaths /\ far' \in SUBSET AgentPaths /\ spill' \in SUBSET SpillFiles
  BY PathAssumption, SMT DEF TypeOK, PrepareRun, work, SpillFiles
<1>1. TypeOK'
  BY <1>a, <1>b, <1>c, LimitAssumption, SMT DEF TypeOK, PrepareRun, task, work, loop, gitlab,
     report, Running, AttemptInv, NoPipeline, Stages, Pipelines, Statuses, SpillFiles
<1>2. Undecided' /\ AttemptInv' /\ SeenInv'
      /\ TreeInv' /\ RedInv' /\ ToldInv' /\ SceneInv' /\ SessionInv'
  BY LimitAssumption, SMT DEF TypeOK, PrepareRun, task, work, loop, gitlab, report, Undecided,
     AttemptInv, SeenInv, TreeInv, RedInv, ToldInv, SceneInv, SessionInv, Running, Stages
<1>4. GateInv'
  BY AdmissibleSame, SMT DEF GateInv, Admitted, PrepareRun, Undecided, Running, Stages,
     TypeOK, task, work
<1> QED
  BY <1>1, <1>2, <1>4

LEMMA FetchDiffFailsInv == IInv /\ FetchDiffFails => IInv'
<1> SUFFICES ASSUME IInv, FetchDiffFails PROVE IInv'
  OBVIOUS
<1> USE DEF IInv
<1>1. TypeOK'
  BY LimitAssumption, SMT DEF TypeOK, FetchDiffFails, Throws, SessionAtExit, task, work, loop,
     gitlab, report, Running, AttemptInv, NoPipeline, Outcomes, Reasons, Stages, Pipelines,
     Statuses, SpillFiles
<1>2. Undecided' /\ AttemptInv' /\ SeenInv'
      /\ TreeInv' /\ RedInv' /\ ToldInv' /\ SceneInv' /\ SessionInv'
  BY LimitAssumption, SMT DEF TypeOK, FetchDiffFails, Throws, SessionAtExit, task, work, loop,
     gitlab, report, Undecided, AttemptInv, SeenInv, TreeInv, RedInv, ToldInv, SceneInv,
     SessionInv, Running, Stages
<1>3. Admissible' <=> Admissible
  BY AdmissibleSame DEF FetchDiffFails, Throws, SessionAtExit, task, work
<1>4. GateInv'
  BY <1>3, SMT DEF GateInv, Admitted, FetchDiffFails, Throws, SessionAtExit, task, work, loop,
     gitlab, report, ToldInv
<1> QED
  BY <1>1, <1>2, <1>4

LEMMA AgentFixesInv == IInv /\ AgentFixes => IInv'
<1> SUFFICES ASSUME IInv, AgentFixes PROVE IInv'
  OBVIOUS
<1> USE DEF IInv
<1>a. outcome' \in Outcomes
  BY DEF TypeOK, AgentFixes
<1>b. stage' \in Stages
  BY SMT DEF TypeOK, AgentFixes, AgentEdits, Stages
<1>c. edits' \in SUBSET AgentPaths /\ far' \in SUBSET AgentPaths /\ spill' \in SUBSET SpillFiles
  BY PathAssumption, SMT DEF TypeOK, AgentFixes, AgentEdits, work, SpillFiles
<1>d. fixed' \in BOOLEAN
  BY Zenon DEF TypeOK, AgentFixes
<1>1. TypeOK'
  BY <1>a, <1>b, <1>c, <1>d, LimitAssumption, SMT DEF TypeOK, AgentFixes, AgentEdits, task,
     work, loop, gitlab, report, Running, AttemptInv, NoPipeline, Stages, Pipelines, Statuses,
     SpillFiles
<1>2. Undecided' /\ AttemptInv' /\ SeenInv'
      /\ TreeInv' /\ RedInv' /\ ToldInv' /\ SceneInv' /\ SessionInv'
  BY LimitAssumption, SMT DEF TypeOK, AgentFixes, AgentEdits, task, work, loop, gitlab,
     report, Undecided, AttemptInv, SeenInv, TreeInv, RedInv, ToldInv, SceneInv, SessionInv,
     Running, Stages
<1>4. GateInv'
  BY AdmissibleSame, SMT DEF GateInv, Admitted, AgentFixes, AgentEdits, Undecided, Running,
     Stages, TypeOK, task, work
<1> QED
  BY <1>1, <1>2, <1>4

LEMMA AgentEscalatesInv == IInv /\ AgentEscalates => IInv'
<1> SUFFICES ASSUME IInv, AgentEscalates PROVE IInv'
  OBVIOUS
<1> USE DEF IInv
<1>1. TypeOK'
  BY LimitAssumption, SMT DEF TypeOK, AgentEscalates, Finish, SessionHandedOver, task, work,
     loop, gitlab, report, Running, AttemptInv, NoPipeline, Outcomes, Reasons, Stages,
     Pipelines, Statuses, SpillFiles
<1>2. Undecided' /\ AttemptInv' /\ SeenInv'
      /\ TreeInv' /\ RedInv' /\ ToldInv' /\ SceneInv' /\ SessionInv'
  BY LimitAssumption, SMT DEF TypeOK, AgentEscalates, Finish, SessionHandedOver, task, work,
     loop, gitlab, report, Undecided, AttemptInv, SeenInv, TreeInv, RedInv, ToldInv, SceneInv,
     SessionInv, Running, Stages
<1>3. Admissible' <=> Admissible
  BY AdmissibleSame DEF AgentEscalates, Finish, SessionHandedOver, task, work
<1>4. GateInv'
  BY <1>3, SMT DEF GateInv, Admitted, AgentEscalates, Finish, SessionHandedOver, task, work,
     loop, gitlab, report, ToldInv
<1> QED
  BY <1>1, <1>2, <1>4

LEMMA AgentThrowsInv == IInv /\ AgentThrows => IInv'
<1> SUFFICES ASSUME IInv, AgentThrows PROVE IInv'
  OBVIOUS
<1> USE DEF IInv
<1>1. TypeOK'
  BY LimitAssumption, SMT DEF TypeOK, AgentThrows, Finish, SessionHandedOver, task, work,
     loop, gitlab, report, Running, AttemptInv, NoPipeline, Outcomes, Reasons, Stages,
     Pipelines, Statuses, SpillFiles
<1>2. Undecided' /\ AttemptInv' /\ SeenInv'
      /\ TreeInv' /\ RedInv' /\ ToldInv' /\ SceneInv' /\ SessionInv'
  BY LimitAssumption, SMT DEF TypeOK, AgentThrows, Finish, SessionHandedOver, task, work,
     loop, gitlab, report, Undecided, AttemptInv, SeenInv, TreeInv, RedInv, ToldInv, SceneInv,
     SessionInv, Running, Stages
<1>3. Admissible' <=> Admissible
  BY AdmissibleSame DEF AgentThrows, Finish, SessionHandedOver, task, work
<1>4. GateInv'
  BY <1>3, SMT DEF GateInv, Admitted, AgentThrows, Finish, SessionHandedOver, task, work,
     loop, gitlab, report, ToldInv
<1> QED
  BY <1>1, <1>2, <1>4

LEMMA ResumeDiffInv == IInv /\ ResumeDiff => IInv'
<1> SUFFICES ASSUME IInv, ResumeDiff PROVE IInv'
  OBVIOUS
<1> USE DEF IInv
<1>1. TypeOK'
  BY LimitAssumption, SMT DEF TypeOK, ResumeDiff, task, work, loop, gitlab, report, Running,
     AttemptInv, NoPipeline, Outcomes, Reasons, Stages, Pipelines, Statuses, SpillFiles
<1>2. Undecided' /\ AttemptInv' /\ SeenInv'
      /\ TreeInv' /\ RedInv' /\ ToldInv' /\ SceneInv' /\ SessionInv'
  BY LimitAssumption, SMT DEF TypeOK, ResumeDiff, task, work, loop, gitlab, report, Undecided,
     AttemptInv, SeenInv, TreeInv, RedInv, ToldInv, SceneInv, SessionInv, Running, Stages
<1>3. Admissible' <=> Admissible
  BY AdmissibleSame DEF ResumeDiff, task, work
<1>4. GateInv'
  BY <1>3, SMT DEF GateInv, Admitted, ResumeDiff, task, work, loop, gitlab, report, ToldInv
<1> QED
  BY <1>1, <1>2, <1>4

LEMMA ResumeDiffFailsInv == IInv /\ ResumeDiffFails => IInv'
<1> SUFFICES ASSUME IInv, ResumeDiffFails PROVE IInv'
  OBVIOUS
<1> USE DEF IInv
<1>1. TypeOK'
  BY LimitAssumption, SMT DEF TypeOK, ResumeDiffFails, Throws, SessionAtExit, task, work,
     loop, gitlab, report, Running, AttemptInv, NoPipeline, Outcomes, Reasons, Stages,
     Pipelines, Statuses, SpillFiles
<1>2. Undecided' /\ AttemptInv' /\ SeenInv'
      /\ TreeInv' /\ RedInv' /\ ToldInv' /\ SceneInv' /\ SessionInv'
  BY LimitAssumption, SMT DEF TypeOK, ResumeDiffFails, Throws, SessionAtExit, task, work,
     loop, gitlab, report, Undecided, AttemptInv, SeenInv, TreeInv, RedInv, ToldInv, SceneInv,
     SessionInv, Running, Stages
<1>3. Admissible' <=> Admissible
  BY AdmissibleSame DEF ResumeDiffFails, Throws, SessionAtExit, task, work
<1>4. GateInv'
  BY <1>3, SMT DEF GateInv, Admitted, ResumeDiffFails, Throws, SessionAtExit, task, work,
     loop, gitlab, report, ToldInv
<1> QED
  BY <1>1, <1>2, <1>4

LEMMA ExtractInv == IInv /\ Extract => IInv'
<1> SUFFICES ASSUME IInv, Extract PROVE IInv'
  OBVIOUS
<1> USE DEF IInv
<1>a. outcome' \in Outcomes
  <2>1. CASE Finish("escalated", FALSE, "empty")
    BY <2>1, WidenableBoolean, SMT DEF TypeOK, Finish, Outcomes, Reasons
  <2>2. CASE Finish("escalated", Widenable, "path")
    BY <2>2, WidenableBoolean, SMT DEF TypeOK, Finish, Outcomes, Reasons
  <2>3. CASE Finish("escalated", FALSE, "line")
    BY <2>3, WidenableBoolean, SMT DEF TypeOK, Finish, Outcomes, Reasons
  <2>4. CASE UNCHANGED outcome
    BY <2>4, WidenableBoolean, SMT DEF TypeOK, Finish, Outcomes, Reasons
  <2> QED
    BY <2>1, <2>2, <2>3, <2>4 DEF Extract
<1>b. stage' \in Stages
  BY SMT DEF TypeOK, Extract, Finish, Stages
<1>c. edits' \in SUBSET AgentPaths /\ far' \in SUBSET AgentPaths /\ spill' \in SUBSET SpillFiles
  BY PathAssumption, SMT DEF TypeOK, Extract, Finish, work, SpillFiles
<1>1. TypeOK'
  BY <1>a, <1>b, <1>c, LimitAssumption, SMT DEF TypeOK, Extract, Finish, task, work, loop,
     gitlab, report, Running, AttemptInv, NoPipeline, Stages, Pipelines, Statuses, SpillFiles
<1>2. Undecided' /\ AttemptInv' /\ SeenInv'
      /\ TreeInv' /\ RedInv' /\ ToldInv' /\ SceneInv' /\ SessionInv'
  BY LimitAssumption, SMT DEF TypeOK, Extract, Finish, task, work, loop, gitlab, report,
     Undecided, AttemptInv, SeenInv, TreeInv, RedInv, ToldInv, SceneInv, SessionInv, Running,
     Stages
<1>3. Admissible' <=> Admissible
  BY AdmissibleSame DEF Extract, Finish, task, work
<1>4. GateInv'
  BY <1>3, GatesAdmit, SMT DEF GateInv, Admitted, Extract, Finish, Undecided, Running, Stages
<1> QED
  BY <1>1, <1>2, <1>4

LEMMA ExtractFailsInv == IInv /\ ExtractFails => IInv'
<1> SUFFICES ASSUME IInv, ExtractFails PROVE IInv'
  OBVIOUS
<1> USE DEF IInv
<1>1. TypeOK'
  BY LimitAssumption, SMT DEF TypeOK, ExtractFails, Throws, SessionAtExit, task, work, loop,
     gitlab, report, Running, AttemptInv, NoPipeline, Outcomes, Reasons, Stages, Pipelines,
     Statuses, SpillFiles
<1>2. Undecided' /\ AttemptInv' /\ SeenInv'
      /\ TreeInv' /\ RedInv' /\ ToldInv' /\ SceneInv' /\ SessionInv'
  BY LimitAssumption, SMT DEF TypeOK, ExtractFails, Throws, SessionAtExit, task, work, loop,
     gitlab, report, Undecided, AttemptInv, SeenInv, TreeInv, RedInv, ToldInv, SceneInv,
     SessionInv, Running, Stages
<1>3. Admissible' <=> Admissible
  BY AdmissibleSame DEF ExtractFails, Throws, SessionAtExit, task, work
<1>4. GateInv'
  BY <1>3, SMT DEF GateInv, Admitted, ExtractFails, Throws, SessionAtExit, task, work, loop,
     gitlab, report, ToldInv
<1> QED
  BY <1>1, <1>2, <1>4

LEMMA CheckFreshInv == IInv /\ CheckFresh => IInv'
<1> SUFFICES ASSUME IInv, CheckFresh PROVE IInv'
  OBVIOUS
<1> USE DEF IInv
<1>a. outcome' \in Outcomes
  <2>1. CASE Finish("failed", FALSE, "superseded")
    BY <2>1, WidenableBoolean, SMT DEF TypeOK, Finish, Outcomes, Reasons
  <2>2. CASE UNCHANGED outcome
    BY <2>2, WidenableBoolean, SMT DEF TypeOK, Finish, Outcomes, Reasons
  <2> QED
    BY <2>1, <2>2 DEF CheckFresh
<1>b. stage' \in Stages
  BY SMT DEF TypeOK, CheckFresh, Finish, Stages
<1>c. edits' \in SUBSET AgentPaths /\ far' \in SUBSET AgentPaths /\ spill' \in SUBSET SpillFiles
  BY PathAssumption, SMT DEF TypeOK, CheckFresh, Finish, work, SpillFiles
<1>1. TypeOK'
  BY <1>a, <1>b, <1>c, LimitAssumption, SMT DEF TypeOK, CheckFresh, Finish, task, work, loop,
     gitlab, report, Running, AttemptInv, NoPipeline, Stages, Pipelines, Statuses, SpillFiles
<1>2. Undecided' /\ AttemptInv' /\ SeenInv'
      /\ TreeInv' /\ RedInv' /\ ToldInv' /\ SceneInv' /\ SessionInv'
  BY LimitAssumption, SMT DEF TypeOK, CheckFresh, Finish, task, work, loop, gitlab, report,
     Undecided, AttemptInv, SeenInv, TreeInv, RedInv, ToldInv, SceneInv, SessionInv, Running,
     Stages
<1>3. Admissible' <=> Admissible
  BY AdmissibleSame DEF CheckFresh, Finish, task, work
<1>4. GateInv'
  BY <1>3, SMT DEF GateInv, Admitted, CheckFresh, Finish, task, work, loop, gitlab, report,
     ToldInv
<1> QED
  BY <1>1, <1>2, <1>4

LEMMA FindMrInv == IInv /\ FindMr => IInv'
<1> SUFFICES ASSUME IInv, FindMr PROVE IInv'
  OBVIOUS
<1> USE DEF IInv
<1>1. TypeOK'
  BY LimitAssumption, SMT DEF TypeOK, FindMr, task, work, loop, gitlab, report, Running,
     AttemptInv, NoPipeline, Outcomes, Reasons, Stages, Pipelines, Statuses, SpillFiles
<1>2. Undecided' /\ AttemptInv' /\ SeenInv'
      /\ TreeInv' /\ RedInv' /\ ToldInv' /\ SceneInv' /\ SessionInv'
  BY LimitAssumption, SMT DEF TypeOK, FindMr, task, work, loop, gitlab, report, Undecided,
     AttemptInv, SeenInv, TreeInv, RedInv, ToldInv, SceneInv, SessionInv, Running, Stages
<1>3. Admissible' <=> Admissible
  BY AdmissibleSame DEF FindMr, task, work
<1>4. GateInv'
  BY <1>3, SMT DEF GateInv, Admitted, FindMr, task, work, loop, gitlab, report, ToldInv
<1> QED
  BY <1>1, <1>2, <1>4

LEMMA PushBranchInv == IInv /\ PushBranch => IInv'
<1> SUFFICES ASSUME IInv, PushBranch PROVE IInv'
  OBVIOUS
<1> USE DEF IInv
<1>1. TypeOK'
  BY LimitAssumption, SMT DEF TypeOK, PushBranch, task, work, loop, gitlab, report, Running,
     AttemptInv, NoPipeline, Outcomes, Reasons, Stages, Pipelines, Statuses, SpillFiles
<1>2. Undecided' /\ AttemptInv' /\ SeenInv'
      /\ TreeInv' /\ RedInv' /\ ToldInv' /\ SceneInv' /\ SessionInv'
  BY LimitAssumption, SMT DEF TypeOK, PushBranch, task, work, loop, gitlab, report, Undecided,
     AttemptInv, SeenInv, TreeInv, RedInv, ToldInv, SceneInv, SessionInv, Running, Stages
<1>3. Admissible' <=> Admissible
  BY AdmissibleSame DEF PushBranch, task, work
<1>4. GateInv'
  BY <1>3, SMT DEF GateInv, Admitted, PushBranch, task, work, loop, gitlab, report, ToldInv
<1> QED
  BY <1>1, <1>2, <1>4

LEMMA OpenMrInv == IInv /\ OpenMr => IInv'
<1> SUFFICES ASSUME IInv, OpenMr PROVE IInv'
  OBVIOUS
<1> USE DEF IInv
<1>a. outcome' \in Outcomes
  <2>1. CASE Finish("escalated", FALSE, "no-url")
    BY <2>1, WidenableBoolean, SMT DEF TypeOK, Finish, Outcomes, Reasons
  <2>2. CASE Finish("mr", FALSE, "unmonitored")
    BY <2>2, WidenableBoolean, SMT DEF TypeOK, Finish, Outcomes, Reasons
  <2>3. CASE UNCHANGED outcome
    BY <2>3, WidenableBoolean, SMT DEF TypeOK, Finish, Outcomes, Reasons
  <2> QED
    BY <2>1, <2>2, <2>3 DEF OpenMr
<1>b. stage' \in Stages
  BY SMT DEF TypeOK, OpenMr, Finish, Stages
<1>c. edits' \in SUBSET AgentPaths /\ far' \in SUBSET AgentPaths /\ spill' \in SUBSET SpillFiles
  BY PathAssumption, SMT DEF TypeOK, OpenMr, Finish, work, SpillFiles
<1>1. TypeOK'
  BY <1>a, <1>b, <1>c, LimitAssumption, SMT DEF TypeOK, OpenMr, Finish, task, work, loop,
     gitlab, report, Running, AttemptInv, NoPipeline, Stages, Pipelines, Statuses, SpillFiles
<1>2a. Undecided'
  BY LimitAssumption, SMT DEF TypeOK, OpenMr, Finish, NoPipeline, task, work, loop, gitlab,
     report, Undecided, Running, Stages
<1>2b. AttemptInv'
  BY LimitAssumption, SMT DEF TypeOK, OpenMr, Finish, NoPipeline, task, work, loop, gitlab,
     report, AttemptInv, Running, Stages
<1>2c. SeenInv'
  BY LimitAssumption, SMT DEF TypeOK, OpenMr, Finish, NoPipeline, task, work, loop, gitlab,
     report, SeenInv, Running, Stages
<1>2d. TreeInv'
  BY LimitAssumption, SMT DEF TypeOK, OpenMr, Finish, NoPipeline, task, work, loop, gitlab,
     report, TreeInv, Undecided, Running, Stages
<1>2e. RedInv'
  BY LimitAssumption, SMT DEF TypeOK, OpenMr, Finish, NoPipeline, task, work, loop, gitlab,
     report, RedInv, Undecided, SeenInv, NoPipeline, StatusOf, Running, Stages
<1>2f. ToldInv'
  BY LimitAssumption, SMT DEF TypeOK, OpenMr, Finish, NoPipeline, task, work, loop, gitlab,
     report, ToldInv, Undecided, Running, Stages
<1>2g. SceneInv'
  BY LimitAssumption, SMT DEF TypeOK, OpenMr, Finish, NoPipeline, task, work, loop, gitlab,
     report, SceneInv, Undecided, TreeInv, Running, Stages
<1>2h. SessionInv'
  BY LimitAssumption, SMT DEF TypeOK, OpenMr, Finish, NoPipeline, task, work, loop, gitlab,
     report, SessionInv, Running, Stages
<1>2. Undecided' /\ AttemptInv' /\ SeenInv'
      /\ TreeInv' /\ RedInv' /\ ToldInv' /\ SceneInv' /\ SessionInv'
  BY <1>2a, <1>2b, <1>2c, <1>2d, <1>2e, <1>2f, <1>2g, <1>2h
<1>3. Admissible' <=> Admissible
  BY AdmissibleSame DEF OpenMr, Finish, task, work
<1>4. GateInv'
  BY <1>3, SMT DEF GateInv, Admitted, OpenMr, Finish, task, work, loop, gitlab, report, ToldInv
<1> QED
  BY <1>1, <1>2, <1>4

LEMMA ResolveFailsInv == IInv /\ ResolveFails => IInv'
<1> SUFFICES ASSUME IInv, ResolveFails PROVE IInv'
  OBVIOUS
<1> USE DEF IInv
<1>1. TypeOK'
  BY LimitAssumption, SMT DEF TypeOK, ResolveFails, Finish, task, work, loop, gitlab, report,
     Running, AttemptInv, NoPipeline, Outcomes, Reasons, Stages, Pipelines, Statuses,
     SpillFiles
<1>2. Undecided' /\ AttemptInv' /\ SeenInv'
      /\ TreeInv' /\ RedInv' /\ ToldInv' /\ SceneInv' /\ SessionInv'
  BY LimitAssumption, SMT DEF TypeOK, ResolveFails, Finish, task, work, loop, gitlab, report,
     Undecided, AttemptInv, SeenInv, TreeInv, RedInv, ToldInv, SceneInv, SessionInv, Running,
     Stages
<1>3. Admissible' <=> Admissible
  BY AdmissibleSame DEF ResolveFails, Finish, task, work
<1>4. GateInv'
  BY <1>3, SMT DEF GateInv, Admitted, ResolveFails, Finish, task, work, loop, gitlab, report,
     ToldInv
<1> QED
  BY <1>1, <1>2, <1>4

LEMMA PollInv == IInv /\ Poll => IInv'
<1> SUFFICES ASSUME IInv, Poll PROVE IInv'
  OBVIOUS
<1> USE DEF IInv
<1>a. outcome' \in Outcomes
  <2>1. CASE Finish("mr", FALSE, "green")
    BY <2>1, WidenableBoolean, SMT DEF TypeOK, Finish, Outcomes, Reasons
  <2>2. CASE Finish("escalated", FALSE, "red")
    BY <2>2, WidenableBoolean, SMT DEF TypeOK, Finish, Outcomes, Reasons
  <2>3. CASE UNCHANGED outcome
    BY <2>3, WidenableBoolean, SMT DEF TypeOK, Finish, Outcomes, Reasons
  <2> QED
    BY <2>1, <2>2, <2>3 DEF Poll, LoopEnds, PollsAfterPending
<1>b. stage' \in Stages
  BY SMT DEF TypeOK, Poll, Finish, LoopEnds, PollsAfterPending, Stages
<1>c. edits' \in SUBSET AgentPaths /\ far' \in SUBSET AgentPaths /\ spill' \in SUBSET SpillFiles
  BY PathAssumption, SMT DEF TypeOK, Poll, Finish, LoopEnds, PollsAfterPending, work, SpillFiles
<1>1. TypeOK'
  BY <1>a, <1>b, <1>c, LimitAssumption, SMT DEF TypeOK, Poll, Finish, LoopEnds,
     PollsAfterPending, task, work, loop, gitlab, report, Running, AttemptInv, NoPipeline,
     Stages, SpillFiles
<1>2a. Undecided'
  BY LimitAssumption, SMT DEF TypeOK, Poll, Finish, LoopEnds, PollsAfterPending, task, work,
     loop, gitlab, report, Undecided, Running, Stages
<1>2b. AttemptInv'
  BY LimitAssumption, SMT DEF TypeOK, Poll, Finish, LoopEnds, PollsAfterPending, task, work,
     loop, gitlab, report, AttemptInv, Running, Stages
<1>2c. SeenInv'
  BY LimitAssumption, SMT DEF TypeOK, Poll, Finish, LoopEnds, PollsAfterPending, task, work,
     loop, gitlab, report, SeenInv, Running, Stages
<1>2d. TreeInv'
  BY LimitAssumption, SMT DEF TypeOK, Poll, Finish, LoopEnds, PollsAfterPending, task, work,
     loop, gitlab, report, TreeInv, Undecided, Running, Stages
<1>2e. RedInv'
  BY LimitAssumption, SMT DEF TypeOK, Poll, Finish, LoopEnds, PollsAfterPending, task, work,
     loop, gitlab, report, RedInv, Undecided, SeenInv, NoPipeline, StatusOf, Running, Stages
<1>2f. ToldInv'
  BY LimitAssumption, SMT DEF TypeOK, Poll, Finish, LoopEnds, PollsAfterPending, task, work,
     loop, gitlab, report, ToldInv, Undecided, Running, Stages
<1>2g. SceneInv'
  BY LimitAssumption, SMT DEF TypeOK, Poll, Finish, LoopEnds, PollsAfterPending, task, work,
     loop, gitlab, report, SceneInv, Undecided, TreeInv, Running, Stages
<1>2h. SessionInv'
  BY LimitAssumption, SMT DEF TypeOK, Poll, Finish, LoopEnds, PollsAfterPending, task, work,
     loop, gitlab, report, SessionInv, Running, Stages
<1>2. Undecided' /\ AttemptInv' /\ SeenInv'
      /\ TreeInv' /\ RedInv' /\ ToldInv' /\ SceneInv' /\ SessionInv'
  BY <1>2a, <1>2b, <1>2c, <1>2d, <1>2e, <1>2f, <1>2g, <1>2h
<1>3. Admissible' <=> Admissible
  BY AdmissibleSame DEF Poll, Finish, LoopEnds, PollsAfterPending, task, work
<1>4. GateInv'
  BY <1>3, SMT DEF GateInv, Admitted, Poll, Finish, LoopEnds, PollsAfterPending, task, work,
     loop, gitlab, report, ToldInv
<1> QED
  BY <1>1, <1>2, <1>4

LEMMA PollFailsInv == IInv /\ PollFails => IInv'
<1> SUFFICES ASSUME IInv, PollFails PROVE IInv'
  OBVIOUS
<1> USE DEF IInv
<1>1. TypeOK'
  BY LimitAssumption, SMT DEF TypeOK, PollFails, Throws, SessionAtExit, task, work, loop,
     gitlab, report, Running, AttemptInv, NoPipeline, Outcomes, Reasons, Stages, Pipelines,
     Statuses, SpillFiles
<1>2. Undecided' /\ AttemptInv' /\ SeenInv'
      /\ TreeInv' /\ RedInv' /\ ToldInv' /\ SceneInv' /\ SessionInv'
  BY LimitAssumption, SMT DEF TypeOK, PollFails, Throws, SessionAtExit, task, work, loop,
     gitlab, report, Undecided, AttemptInv, SeenInv, TreeInv, RedInv, ToldInv, SceneInv,
     SessionInv, Running, Stages
<1>3. Admissible' <=> Admissible
  BY AdmissibleSame DEF PollFails, Throws, SessionAtExit, task, work
<1>4. GateInv'
  BY <1>3, SMT DEF GateInv, Admitted, PollFails, Throws, SessionAtExit, task, work, loop,
     gitlab, report, ToldInv
<1> QED
  BY <1>1, <1>2, <1>4

LEMMA FetchRetryLogInv == IInv /\ FetchRetryLog => IInv'
<1> SUFFICES ASSUME IInv, FetchRetryLog PROVE IInv'
  OBVIOUS
<1> USE DEF IInv
<1>1. TypeOK'
  BY LimitAssumption, SMT DEF TypeOK, FetchRetryLog, task, work, loop, gitlab, report,
     Running, AttemptInv, NoPipeline, Outcomes, Reasons, Stages, Pipelines, Statuses,
     SpillFiles
<1>2. Undecided' /\ AttemptInv' /\ SeenInv'
      /\ TreeInv' /\ RedInv' /\ ToldInv' /\ SceneInv' /\ SessionInv'
  BY LimitAssumption, SMT DEF TypeOK, FetchRetryLog, task, work, loop, gitlab, report,
     Undecided, AttemptInv, SeenInv, TreeInv, RedInv, ToldInv, SceneInv, SessionInv, Running,
     Stages
<1>3. Admissible' <=> Admissible
  BY AdmissibleSame DEF FetchRetryLog, task, work
<1>4. GateInv'
  BY <1>3, SMT DEF GateInv, Admitted, FetchRetryLog, task, work, loop, gitlab, report, ToldInv
<1> QED
  BY <1>1, <1>2, <1>4

LEMMA AgentContinuesInv == IInv /\ AgentContinues => IInv'
<1> SUFFICES ASSUME IInv, AgentContinues PROVE IInv'
  OBVIOUS
<1> USE DEF IInv
<1>a. outcome' \in Outcomes
  <2>1. CASE Finish("escalated", FALSE, "again")
    BY <2>1, WidenableBoolean, SMT DEF TypeOK, Finish, Outcomes, Reasons
  <2>2. CASE UNCHANGED outcome
    BY <2>2, WidenableBoolean, SMT DEF TypeOK, Finish, Outcomes, Reasons
  <2> QED
    BY <2>1, <2>2 DEF AgentContinues, AgentEdits
<1>b. stage' \in Stages
  BY SMT DEF TypeOK, AgentContinues, Finish, AgentEdits, Stages
<1>c. edits' \in SUBSET AgentPaths /\ far' \in SUBSET AgentPaths /\ spill' \in SUBSET SpillFiles
  BY PathAssumption, SMT DEF TypeOK, AgentContinues, Finish, AgentEdits, work, SpillFiles
<1>1. TypeOK'
  BY <1>a, <1>b, <1>c, LimitAssumption, SMT DEF TypeOK, AgentContinues, Finish, AgentEdits,
     task, work, loop, gitlab, report, Running, AttemptInv, NoPipeline, Stages, Pipelines,
     Statuses, SpillFiles
<1>2. Undecided' /\ AttemptInv' /\ SeenInv'
      /\ TreeInv' /\ RedInv' /\ ToldInv' /\ SceneInv' /\ SessionInv'
  BY LimitAssumption, SMT DEF TypeOK, AgentContinues, Finish, AgentEdits, task, work, loop,
     gitlab, report, Undecided, AttemptInv, SeenInv, TreeInv, RedInv, ToldInv, SceneInv,
     SessionInv, Running, Stages
<1>4. GateInv'
  BY AdmissibleSame, SMT DEF GateInv, Admitted, AgentContinues, Finish, AgentEdits, Undecided,
     Running, Stages, TypeOK, task, work
<1> QED
  BY <1>1, <1>2, <1>4

LEMMA RecheckInv == IInv /\ Recheck => IInv'
<1> SUFFICES ASSUME IInv, Recheck PROVE IInv'
  OBVIOUS
<1> USE DEF IInv
<1>a. outcome' \in Outcomes
  <2>1. CASE Finish("mr", FALSE, "green")
    BY <2>1, WidenableBoolean, SMT DEF TypeOK, Finish, Outcomes, Reasons
  <2>2. CASE Finish("escalated", FALSE, "red")
    BY <2>2, WidenableBoolean, SMT DEF TypeOK, Finish, Outcomes, Reasons
  <2>3. CASE Finish("escalated", FALSE, "empty")
    BY <2>3, WidenableBoolean, SMT DEF TypeOK, Finish, Outcomes, Reasons
  <2>4. CASE Finish("escalated", FALSE, "path")
    BY <2>4, WidenableBoolean, SMT DEF TypeOK, Finish, Outcomes, Reasons
  <2>5. CASE Finish("escalated", FALSE, "line")
    BY <2>5, WidenableBoolean, SMT DEF TypeOK, Finish, Outcomes, Reasons
  <2>6. CASE UNCHANGED outcome
    BY <2>6, WidenableBoolean, SMT DEF TypeOK, Finish, Outcomes, Reasons
  <2> QED
    BY <2>1, <2>2, <2>3, <2>4, <2>5, <2>6 DEF Recheck, LoopEnds, RetryReason
<1>b. stage' \in Stages
  BY SMT DEF TypeOK, Recheck, Finish, LoopEnds, RetryReason, Stages
<1>c. edits' \in SUBSET AgentPaths /\ far' \in SUBSET AgentPaths /\ spill' \in SUBSET SpillFiles
  BY PathAssumption, SMT DEF TypeOK, Recheck, Finish, LoopEnds, RetryReason, work, SpillFiles
<1>1. TypeOK'
  BY <1>a, <1>b, <1>c, LimitAssumption, SMT DEF TypeOK, Recheck, Finish, LoopEnds,
     RetryReason, task, work, loop, gitlab, report, Running, AttemptInv, NoPipeline, Stages,
     SpillFiles
<1>2a. Undecided'
  BY LimitAssumption, SMT DEF TypeOK, Recheck, Finish, LoopEnds, RetryReason, task, work,
     loop, gitlab, report, Undecided, Running, Stages
<1>2b. AttemptInv'
  BY LimitAssumption, SMT DEF TypeOK, Recheck, Finish, LoopEnds, RetryReason, task, work,
     loop, gitlab, report, AttemptInv, Running, Stages
<1>2c. SeenInv'
  BY LimitAssumption, SMT DEF TypeOK, Recheck, Finish, LoopEnds, RetryReason, task, work,
     loop, gitlab, report, SeenInv, Running, Stages
<1>2d. TreeInv'
  BY LimitAssumption, SMT DEF TypeOK, Recheck, Finish, LoopEnds, RetryReason, task, work,
     loop, gitlab, report, TreeInv, Undecided, Running, Stages
<1>2e. RedInv'
  BY LimitAssumption, SMT DEF TypeOK, Recheck, Finish, LoopEnds, RetryReason, task, work,
     loop, gitlab, report, RedInv, Undecided, SeenInv, NoPipeline, StatusOf, Running, Stages
<1>2f. ToldInv'
  BY LimitAssumption, SMT DEF TypeOK, Recheck, Finish, LoopEnds, RetryReason, task, work,
     loop, gitlab, report, ToldInv, Undecided, Running, Stages
<1>2g. SceneInv'
  BY LimitAssumption, SMT DEF TypeOK, Recheck, Finish, LoopEnds, RetryReason, task, work,
     loop, gitlab, report, SceneInv, Undecided, TreeInv, Running, Stages
<1>2h. SessionInv'
  BY LimitAssumption, SMT DEF TypeOK, Recheck, Finish, LoopEnds, RetryReason, task, work,
     loop, gitlab, report, SessionInv, Running, Stages
<1>2. Undecided' /\ AttemptInv' /\ SeenInv'
      /\ TreeInv' /\ RedInv' /\ ToldInv' /\ SceneInv' /\ SessionInv'
  BY <1>2a, <1>2b, <1>2c, <1>2d, <1>2e, <1>2f, <1>2g, <1>2h
<1>3. Admissible' <=> Admissible
  BY AdmissibleSame DEF Recheck, Finish, LoopEnds, RetryReason, task, work
<1>4. GateInv'
  BY <1>3, GatesAdmit, SMT DEF GateInv, Admitted, Recheck, Finish, LoopEnds, RetryReason,
     RetryAdmitted, Undecided, Running, Stages
<1> QED
  BY <1>1, <1>2, <1>4

LEMMA NotifyInv == IInv /\ Notify => IInv'
<1> SUFFICES ASSUME IInv, Notify PROVE IInv'
  OBVIOUS
<1> USE DEF IInv
<1>1. TypeOK'
  BY LimitAssumption, SMT DEF TypeOK, Notify, SessionAtExit, AfterRejection, task, work, loop,
     gitlab, report, Running, AttemptInv, NoPipeline, Outcomes, Reasons, Stages, Pipelines,
     Statuses, SpillFiles
<1>2. Undecided' /\ AttemptInv' /\ SeenInv'
      /\ TreeInv' /\ RedInv' /\ ToldInv' /\ SceneInv' /\ SessionInv'
  BY LimitAssumption, SMT DEF TypeOK, Notify, SessionAtExit, AfterRejection, task, work, loop,
     gitlab, report, Undecided, AttemptInv, SeenInv, TreeInv, RedInv, ToldInv, SceneInv,
     SessionInv, Running, Stages
<1>3. Admissible' <=> Admissible
  BY AdmissibleSame DEF Notify, SessionAtExit, AfterRejection, task, work
<1>4. GateInv'
  BY <1>3, SMT DEF GateInv, Admitted, Notify, SessionAtExit, AfterRejection, task, work, loop,
     gitlab, report, ToldInv
<1> QED
  BY <1>1, <1>2, <1>4

LEMMA RecordAndRemoveInv == IInv /\ RecordAndRemove => IInv'
<1> SUFFICES ASSUME IInv, RecordAndRemove PROVE IInv'
  OBVIOUS
<1> USE DEF IInv
<1>1. TypeOK'
  BY LimitAssumption, SMT DEF TypeOK, RecordAndRemove, SessionAtExit, Removal, SceneDropped,
     task, work, loop, gitlab, report, Running, AttemptInv, NoPipeline, Outcomes, Reasons,
     Stages, Pipelines, Statuses, SpillFiles
<1>2. Undecided' /\ AttemptInv' /\ SeenInv'
      /\ TreeInv' /\ RedInv' /\ ToldInv' /\ SceneInv' /\ SessionInv'
  BY LimitAssumption, SMT DEF TypeOK, RecordAndRemove, SessionAtExit, Removal, SceneDropped,
     task, work, loop, gitlab, report, Undecided, AttemptInv, SeenInv, TreeInv, RedInv,
     ToldInv, SceneInv, SessionInv, Running, Stages
<1>3. Admissible' <=> Admissible
  BY AdmissibleSame DEF RecordAndRemove, SessionAtExit, Removal, SceneDropped, task, work
<1>4. GateInv'
  BY <1>3, SMT DEF GateInv, Admitted, RecordAndRemove, SessionAtExit, Removal, SceneDropped,
     task, work, loop, gitlab, report, ToldInv
<1> QED
  BY <1>1, <1>2, <1>4

LEMMA WriteResultInv == IInv /\ WriteResult => IInv'
<1> SUFFICES ASSUME IInv, WriteResult PROVE IInv'
  OBVIOUS
<1> USE DEF IInv
<1>1. TypeOK'
  BY LimitAssumption, SMT DEF TypeOK, WriteResult, task, work, loop, gitlab, report, Running,
     AttemptInv, NoPipeline, Outcomes, Reasons, Stages, Pipelines, Statuses, SpillFiles
<1>2. Undecided' /\ AttemptInv' /\ SeenInv'
      /\ TreeInv' /\ RedInv' /\ ToldInv' /\ SceneInv' /\ SessionInv'
  BY LimitAssumption, SMT DEF TypeOK, WriteResult, task, work, loop, gitlab, report,
     Undecided, AttemptInv, SeenInv, TreeInv, RedInv, ToldInv, SceneInv, SessionInv, Running,
     Stages
<1>3. Admissible' <=> Admissible
  BY AdmissibleSame DEF WriteResult, task, work
<1>4. GateInv'
  BY <1>3, SMT DEF GateInv, Admitted, WriteResult, task, work, loop, gitlab, report, ToldInv
<1> QED
  BY <1>1, <1>2, <1>4

LEMMA KilledInv == IInv /\ Killed => IInv'
<1> SUFFICES ASSUME IInv, Killed PROVE IInv'
  OBVIOUS
<1> USE DEF IInv
<1>1. TypeOK'
  BY LimitAssumption, SMT DEF TypeOK, Killed, task, work, loop, gitlab, report, Running,
     AttemptInv, NoPipeline, Outcomes, Reasons, Stages, Pipelines, Statuses, SpillFiles
<1>2. Undecided' /\ AttemptInv' /\ SeenInv'
      /\ TreeInv' /\ RedInv' /\ ToldInv' /\ SceneInv' /\ SessionInv'
  BY LimitAssumption, SMT DEF TypeOK, Killed, task, work, loop, gitlab, report, Undecided,
     AttemptInv, SeenInv, TreeInv, RedInv, ToldInv, SceneInv, SessionInv, Running, Stages
<1>3. Admissible' <=> Admissible
  BY AdmissibleSame DEF Killed, task, work
<1>4. GateInv'
  BY <1>3, SMT DEF GateInv, Admitted, Killed, task, work, loop, gitlab, report, ToldInv
<1> QED
  BY <1>1, <1>2, <1>4

LEMMA CollectInv == IInv /\ Collect => IInv'
<1> SUFFICES ASSUME IInv, Collect PROVE IInv'
  OBVIOUS
<1> USE DEF IInv
<1>1. TypeOK'
  BY LimitAssumption, SMT DEF TypeOK, Collect, Retains, Removal, task, work, loop, gitlab,
     report, Running, AttemptInv, NoPipeline, Outcomes, Reasons, Stages, Pipelines, Statuses,
     SpillFiles
<1>2a. Undecided'
  BY LimitAssumption, SMT DEF TypeOK, Collect, Retains, Removal, task, work, loop, gitlab,
     report, Undecided, Running, Stages
<1>2b. AttemptInv'
  BY LimitAssumption, SMT DEF TypeOK, Collect, Retains, Removal, task, work, loop, gitlab,
     report, AttemptInv, Running, Stages
<1>2c. SeenInv'
  BY LimitAssumption, SMT DEF TypeOK, Collect, Retains, Removal, task, work, loop, gitlab,
     report, SeenInv, Running, Stages
<1>2d. TreeInv'
  BY LimitAssumption, SMT DEF TypeOK, Collect, Retains, Removal, task, work, loop, gitlab,
     report, TreeInv, Undecided, Running, Stages
<1>2e. RedInv'
  BY LimitAssumption, SMT DEF TypeOK, Collect, Retains, Removal, task, work, loop, gitlab,
     report, RedInv, Undecided, SeenInv, NoPipeline, StatusOf, Running, Stages
<1>2f. ToldInv'
  BY LimitAssumption, SMT DEF TypeOK, Collect, Retains, Removal, task, work, loop, gitlab,
     report, ToldInv, Undecided, Running, Stages
<1>2g. SceneInv'
  <2>1. CASE Retains
    BY <2>1 DEF Collect, Retains, SceneInv, TreeInv
  <2>2. CASE ~Retains
    BY <2>2 DEF Collect, SceneInv
  <2> QED
    BY <2>1, <2>2
<1>2h. SessionInv'
  BY LimitAssumption, SMT DEF TypeOK, Collect, Retains, Removal, task, work, loop, gitlab,
     report, SessionInv, Running, Stages
<1>2. Undecided' /\ AttemptInv' /\ SeenInv'
      /\ TreeInv' /\ RedInv' /\ ToldInv' /\ SceneInv' /\ SessionInv'
  BY <1>2a, <1>2b, <1>2c, <1>2d, <1>2e, <1>2f, <1>2g, <1>2h
<1>3. Admissible' <=> Admissible
  BY AdmissibleSame DEF Collect, Retains, Removal, task, work
<1>4. GateInv'
  BY <1>3, SMT DEF GateInv, Admitted, Collect, Retains, Removal, task, work, loop, gitlab,
     report, ToldInv
<1> QED
  BY <1>1, <1>2, <1>4

LEMMA DeveloperPushesInv == IInv /\ DeveloperPushes => IInv'
<1> SUFFICES ASSUME IInv, DeveloperPushes PROVE IInv'
  OBVIOUS
<1> USE DEF IInv
<1>1. TypeOK'
  BY LimitAssumption, SMT DEF TypeOK, DeveloperPushes, worker, task, work, loop, gitlab,
     report, Running, AttemptInv, NoPipeline, Outcomes, Reasons, Stages, Pipelines, Statuses,
     SpillFiles
<1>2. Undecided' /\ AttemptInv' /\ SeenInv'
      /\ TreeInv' /\ RedInv' /\ ToldInv' /\ SceneInv' /\ SessionInv'
  BY LimitAssumption, SMT DEF TypeOK, DeveloperPushes, worker, task, work, loop, gitlab,
     report, Undecided, AttemptInv, SeenInv, TreeInv, RedInv, ToldInv, SceneInv, SessionInv,
     Running, Stages
<1>3. Admissible' <=> Admissible
  BY AdmissibleSame DEF DeveloperPushes, worker, task, work
<1>4. GateInv'
  BY <1>3, SMT DEF GateInv, Admitted, DeveloperPushes, worker, task, work, loop, gitlab,
     report, ToldInv
<1> QED
  BY <1>1, <1>2, <1>4

LEMMA AgentPublishesInv == IInv /\ AgentPublishes => IInv'
<1> SUFFICES ASSUME IInv, AgentPublishes PROVE IInv'
  OBVIOUS
<1> USE DEF IInv
<1>1. TypeOK'
  BY LimitAssumption, SMT DEF TypeOK, AgentPublishes, worker, task, work, loop, gitlab,
     report, Running, AttemptInv, NoPipeline, Outcomes, Reasons, Stages, Pipelines, Statuses,
     SpillFiles
<1>2. Undecided' /\ AttemptInv' /\ SeenInv'
      /\ TreeInv' /\ RedInv' /\ ToldInv' /\ SceneInv' /\ SessionInv'
  BY LimitAssumption, SMT DEF TypeOK, AgentPublishes, worker, task, work, loop, gitlab,
     report, Undecided, AttemptInv, SeenInv, TreeInv, RedInv, ToldInv, SceneInv, SessionInv,
     Running, Stages
<1>3. Admissible' <=> Admissible
  BY AdmissibleSame DEF AgentPublishes, worker, task, work
<1>4. GateInv'
  BY <1>3, SMT DEF GateInv, Admitted, AgentPublishes, worker, task, work, loop, gitlab,
     report, ToldInv
<1> QED
  BY <1>1, <1>2, <1>4

LEMMA MrEndsInv == IInv /\ MrEnds => IInv'
<1> SUFFICES ASSUME IInv, MrEnds PROVE IInv'
  OBVIOUS
<1> USE DEF IInv
<1>1. TypeOK'
  BY LimitAssumption, SMT DEF TypeOK, MrEnds, worker, task, work, loop, gitlab, report,
     Running, AttemptInv, NoPipeline, Outcomes, Reasons, Stages, Pipelines, Statuses,
     SpillFiles
<1>2. Undecided' /\ AttemptInv' /\ SeenInv'
      /\ TreeInv' /\ RedInv' /\ ToldInv' /\ SceneInv' /\ SessionInv'
  BY LimitAssumption, SMT DEF TypeOK, MrEnds, worker, task, work, loop, gitlab, report,
     Undecided, AttemptInv, SeenInv, TreeInv, RedInv, ToldInv, SceneInv, SessionInv, Running,
     Stages
<1>3. Admissible' <=> Admissible
  BY AdmissibleSame DEF MrEnds, worker, task, work
<1>4. GateInv'
  BY <1>3, SMT DEF GateInv, Admitted, MrEnds, worker, task, work, loop, gitlab, report, ToldInv
<1> QED
  BY <1>1, <1>2, <1>4

LEMMA CiStartsInv == IInv /\ CiStarts => IInv'
<1> SUFFICES ASSUME IInv, CiStarts PROVE IInv'
  OBVIOUS
<1> USE DEF IInv
<1>1. TypeOK'
  BY LimitAssumption, SMT DEF TypeOK, CiStarts, worker, task, work, loop, gitlab, report,
     Running, AttemptInv, NoPipeline, Outcomes, Reasons, Stages, Pipelines, Statuses,
     SpillFiles
<1>2. Undecided' /\ AttemptInv' /\ SeenInv'
      /\ TreeInv' /\ RedInv' /\ ToldInv' /\ SceneInv' /\ SessionInv'
  BY LimitAssumption, SMT DEF TypeOK, CiStarts, worker, task, work, loop, gitlab, report,
     Undecided, AttemptInv, SeenInv, TreeInv, RedInv, ToldInv, SceneInv, SessionInv, Running,
     Stages
<1>3. Admissible' <=> Admissible
  BY AdmissibleSame DEF CiStarts, worker, task, work
<1>4. GateInv'
  BY <1>3, SMT DEF GateInv, Admitted, CiStarts, worker, task, work, loop, gitlab, report, ToldInv
<1> QED
  BY <1>1, <1>2, <1>4

LEMMA CiEndsInv == IInv /\ CiEnds => IInv'
<1> SUFFICES ASSUME IInv, CiEnds PROVE IInv'
  OBVIOUS
<1> USE DEF IInv
<1>1. TypeOK'
  BY LimitAssumption, SMT DEF TypeOK, CiEnds, worker, task, work, loop, gitlab, report,
     Running, AttemptInv, NoPipeline, Outcomes, Reasons, Stages, Pipelines, Statuses,
     SpillFiles
<1>2. Undecided' /\ AttemptInv' /\ SeenInv'
      /\ TreeInv' /\ RedInv' /\ ToldInv' /\ SceneInv' /\ SessionInv'
  BY LimitAssumption, SMT DEF TypeOK, CiEnds, worker, task, work, loop, gitlab, report,
     Undecided, AttemptInv, SeenInv, TreeInv, RedInv, ToldInv, SceneInv, SessionInv, Running,
     Stages
<1>3. Admissible' <=> Admissible
  BY AdmissibleSame DEF CiEnds, worker, task, work
<1>4. GateInv'
  BY <1>3, SMT DEF GateInv, Admitted, CiEnds, worker, task, work, loop, gitlab, report, ToldInv
<1> QED
  BY <1>1, <1>2, <1>4

\* Each step preserves the invariant.
LEMMA StepInv == IInv /\ [Next]_vars => IInv'
<1> SUFFICES ASSUME IInv, [Next]_vars PROVE IInv'
  OBVIOUS
<1>1. CASE Steps
  BY <1>1, SpawnInv, FetchLogInv, CreateTreeInv, PrepareRunInv, AgentFixesInv,
     AgentEscalatesInv, AgentThrowsInv, ResumeDiffInv, ExtractInv, CheckFreshInv, FindMrInv,
     PushBranchInv, OpenMrInv, PollInv, FetchRetryLogInv, AgentContinuesInv, RecheckInv,
     NotifyInv, RecordAndRemoveInv, WriteResultInv, CollectInv DEF Steps
<1>2. CASE Failures
  BY <1>2, FetchDiffFailsInv, ResumeDiffFailsInv, ExtractFailsInv, ResolveFailsInv, PollFailsInv
     DEF Failures
<1>3. CASE Environment
  BY <1>3, DeveloperPushesInv, AgentPublishesInv, MrEndsInv, CiStartsInv, CiEndsInv
     DEF Environment
<1>4. CASE UNCHANGED vars
  <2>1. TypeOK'
    BY <1>4 DEF IInv, TypeOK, vars, task, work, loop, gitlab, report
  <2>2. Undecided' /\ AttemptInv' /\ SeenInv'
        /\ TreeInv' /\ RedInv' /\ ToldInv' /\ SceneInv' /\ SessionInv'
    BY <1>4 DEF IInv, Undecided, AttemptInv, SeenInv, TreeInv, RedInv, ToldInv, SceneInv,
       SessionInv, vars, task, work, loop, gitlab, report
  <2>3. GateInv'
    BY <1>4, AdmissibleSame DEF IInv, GateInv, vars, task, work
  <2> QED
    BY <2>1, <2>2, <2>3 DEF IInv
<1> QED
  BY <1>1, <1>2, <1>3, <1>4, KilledInv DEF Next

THEOREM Invariance == Spec => []IInv
BY InitInv, StepInv, PTL DEF Spec

\* Every variable keeps its type, the retry and poll counters their limits.
THEOREM TypeCorrect == Spec => []TypeOK
<1>1. IInv => TypeOK
  BY DEF IInv
<1> QED
  BY <1>1, Invariance, PTL

\* Whatever the bot pushes, monitors or announces has passed the gates as it
\* stands in the worktree, for every set of paths and every limit.
THEOREM PublishedGated == Spec => []PublishedIsGated
<1>1. IInv => PublishedIsGated
  BY DEF IInv, GateInv, Admitted, PublishedIsGated
<1> QED
  BY <1>1, Invariance, PTL

\* No limit on retries or polls lets a red merge request be announced.
THEOREM RedUnannounced == Spec => []RedIsNeverAnnounced
<1>1. IInv => RedIsNeverAnnounced
  BY DEF IInv, RedInv, RedIsNeverAnnounced
<1> QED
  BY <1>1, Invariance, PTL

\* The manager's verdict and the worker's notices agree in every run.
THEOREM NoticesAgreeAlways == Spec => []NoticesAgree
<1>1. IInv => NoticesAgree
  BY SMT DEF IInv, ToldInv, NoticesAgree, TypeOK
<1> QED
  BY <1>1, Invariance, PTL

\* A scene kept for a decision still has its worktree.
THEOREM DecisionsHaveScenes == Spec => []DecisionHasScene
<1>1. IInv => DecisionHasScene
  BY DEF IInv, SceneInv, DecisionHasScene
<1> QED
  BY <1>1, Invariance, PTL

\* A run that came to its outcome after a fix has closed its agent session.
THEOREM SessionsClosed == Spec => []FixedRunsCloseTheirSession
<1>1. IInv => FixedRunsCloseTheirSession
  BY SMT DEF IInv, SessionInv, FixedRunsCloseTheirSession
<1> QED
  BY <1>1, Invariance, PTL

=============================================================================
