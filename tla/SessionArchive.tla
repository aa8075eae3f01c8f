--------------------------- MODULE SessionArchive ---------------------------
(***************************************************************************)
(* What a repair leaves for the next one of the same merge request: the    *)
(* archived session with its meta file (pipeline/mr-session-store.ts), and *)
(* the repair branch, whose changes are replayed into the next worktree    *)
(* (worktree.ts replayRepairChanges, called from run-repair.ts).           *)
(*                                                                         *)
(* Every worker is a process of its own.  The scheduler runs one per merge *)
(* request, but the archives of all merge requests share a directory and   *)
(* no lock, so that every file operation below is a step of its own:       *)
(* another worker's save or eviction, or the removal when a merge request  *)
(* ends, may come in between.  Every operation on the files may fail; the  *)
(* error is swallowed and the repair goes on.                              *)
(*                                                                         *)
(* The developers' commits of a merge request are the numbers 1, 2, ...;   *)
(* a tree is the set of commits it contains, and a repair adds the element *)
(* Fix.  A run works on the commit of its pipeline, which need not be the  *)
(* latest, and a resume on the one of its scene.  The archive of a         *)
(* decision that is invalidated is not an action: it copies a directory as *)
(* if it were a file (decision/lifecycle.ts:143), which always fails.      *)
(***************************************************************************)
EXTENDS Naturals, FiniteSets, Sequences, SequencesExt

CONSTANTS
    MRs,       \* merge requests
    Cap,       \* MR_SESSION_MAX_ENTRIES
    Commits    \* bound: how many commits each merge request gets

ASSUME CapAssumption == Cap \in Nat
ASSUME CommitsAssumption == Commits \in [MRs -> Nat \ {0}]

VARIABLES
    head,       \* head[m]: the latest commit of the merge request
    ended,      \* ended[m]: "open", "removing" its archive, or "ended"
    archive,    \* the merge requests with a session file, oldest mtime first
    meta,       \* meta[m]: the sha in its meta file, 0 = no file
    branch,     \* branch[m]: the tree of the pushed repair branch, {} = none
    scene,      \* scene[m]: the worktree that an escalated run has left
    worker,     \* worker[m]: the worker of the merge request
    fork,       \* history: the commit that branch was made from, 0 = none
    strayed,    \* history: merge requests whose archive has passed their branch
    unevicted   \* history: some save was not followed by a complete eviction

files == <<archive, meta>>
git   == <<head, branch, scene, fork>>
vars  == <<ended, files, git, worker, strayed, unevicted>>

Shas == UNION {0 .. Commits[m] : m \in MRs}

\* A tree holds commits and, as element 0, what a repair changed.
Fix     == 0
Tree(n) == 1 .. n
Trees   == SUBSET Shas

\* stored: findMrSession found a session, base the sha of its meta ("" = 0);
\* session: there is a jsonl in the worker's own directory;
\* tree: what the agent starts from; pushed: the branch was; victims and orphans:
\* session files and meta files the eviction is still to remove.
Idle == [phase |-> "idle", commit |-> 0, stored |-> FALSE, base |-> 0,
         session |-> FALSE, tree |-> {}, pushed |-> FALSE, victims |-> {}, orphans |-> {}]

Phases == {"idle", "find", "readMeta", "copy", "replay", "work", "resume", "save",
           "writeMeta", "list", "evict", "evictMeta"}

Worker == [phase : Phases, commit : Shas, stored : BOOLEAN, base : Shas, session : BOOLEAN,
           tree : Trees, pushed : BOOLEAN, victims : SUBSET MRs, orphans : SUBSET MRs]

NoScene == [commit |-> 0, tree |-> {}]
Scene   == [commit : Shas, tree : Trees]

Init ==
    /\ head = [m \in MRs |-> 1]
    /\ ended = [m \in MRs |-> "open"]
    /\ archive = <<>> /\ meta = [m \in MRs |-> 0]
    /\ branch = [m \in MRs |-> {}] /\ fork = [m \in MRs |-> 0]
    /\ scene = [m \in MRs |-> NoScene]
    /\ worker = [m \in MRs |-> Idle]
    /\ strayed = {}
    /\ unevicted = FALSE

At(m, phase) == worker[m].phase = phase

\* A step of m's worker to its next phase; one that ends forgets everything.
Goes(m, phase) == worker' = [worker EXCEPT ![m].phase = phase]
Ends(m)        == worker' = [worker EXCEPT ![m] = Idle]

Archived == ToSet(archive)

\* A file is listed once.
Without(s, m) ==
    IF m \in ToSet(s) THEN RemoveAt(s, CHOOSE i \in DOMAIN s : s[i] = m) ELSE s

-----------------------------------------------------------------------------
(* The replay.                                                             *)

\* git diff base..tip.  An empty base is HEAD, the commit of the worktree.
BaseTree(m) == Tree(IF worker[m].base = 0 THEN worker[m].commit ELSE worker[m].base)

Adds(m)    == branch[m] \ BaseTree(m)
Removes(m) == BaseTree(m) \ branch[m]

\* Skipped: no pushed branch.
Replayable(m) == worker[m].stored /\ branch[m] # {}

-----------------------------------------------------------------------------
(* Faulty variants of the operators below, each a plausible slip: the meta   *)
(* file names the latest commit, one archive too many is kept, and a saved  *)
(* file is listed twice.                                                    *)

LatestSha(m)   == head[m]
KeepsOneMore   == IF Len(archive) <= Cap + 1 THEN {}
                  ELSE ToSet(SubSeq(archive, 1, Len(archive) - Cap - 1))
SavedTwice(m)  == Append(archive, m)

-----------------------------------------------------------------------------
\* git apply of the diff to the worktree at the event's commit.
Replayed(m) == (Tree(worker[m].commit) \ Removes(m)) \cup Adds(m)

\* evictMrSessions: entries.slice(cap) of the session files, newest first.
Victims ==
    IF Len(archive) <= Cap THEN {}
    ELSE ToSet(SubSeq(archive, 1, Len(archive) - Cap))

\* The sha in the meta file is that of the run's event.
MetaSha(m) == worker[m].commit

\* A removed file is no longer listed, a saved one is the newest.
Unlisted(m) == Without(archive, m)
Saved(m)    == Append(Without(archive, m), m)

-----------------------------------------------------------------------------
(* The developers and the end of a merge request.                          *)

Push(m) ==
    /\ ended[m] = "open" /\ head[m] < Commits[m]
    /\ head' = [head EXCEPT ![m] = @ + 1]
    /\ UNCHANGED <<ended, files, branch, scene, fork, worker, strayed, unevicted>>

\* onMrTerminal of main.ts: removeMrSession in the main process, whatever a
\* worker of the merge request is doing.
End(m) ==
    /\ ended[m] = "open"
    /\ ended' = [ended EXCEPT ![m] = "removing"]
    /\ archive' = Unlisted(m)
    /\ UNCHANGED <<git, strayed, meta, worker, unevicted>>

EndMeta(m) ==
    /\ ended[m] = "removing"
    /\ ended' = [ended EXCEPT ![m] = "ended"]
    /\ meta' = [meta EXCEPT ![m] = 0]
    /\ UNCHANGED <<git, strayed, archive, worker, unevicted>>

-----------------------------------------------------------------------------
(* A worker.                                                               *)

\* A pipeline failed, of the latest commit or of an older one (run again, or
\* overtaken).  The gate for merge requests that ended fails open, so the merge
\* request may have ended.  The new worktree takes the place of a retained one,
\* which is on the same branch.
Start(m) ==
    /\ At(m, "idle")
    /\ \E c \in 1 .. head[m] :
          worker' = [worker EXCEPT ![m] = [Idle EXCEPT !.phase = "find", !.commit = c]]
    /\ scene' = [scene EXCEPT ![m] = NoScene]
    /\ UNCHANGED <<head, branch, fork, ended, files, strayed, unevicted>>

\* A human resumes the retained scene: its worktree at its commit, and its session.
Resume(m) ==
    /\ At(m, "idle")
    /\ scene[m] # NoScene
    /\ worker' = [worker EXCEPT ![m] =
                     [Idle EXCEPT !.phase = "resume", !.commit = scene[m].commit,
                                  !.session = TRUE, !.tree = scene[m].tree]]
    /\ scene' = [scene EXCEPT ![m] = NoScene]
    /\ UNCHANGED <<head, branch, fork, ended, files, strayed, unevicted>>

\* The base of the replay passes the branch, in one of three ways.  A run that
\* pushed nothing archives a newer commit than the branch was made from; one that
\* pushed an older commit than the archived one does not archive it; or the
\* archive has lost its meta file, for a run on a newer commit than the branch.
StraysBySaving(m) ==
    ~worker[m].pushed /\ branch[m] # {} /\ worker[m].commit > fork[m]

StraysByNotSaving(m) ==
    worker[m].pushed /\ meta[m] > worker[m].commit

StraysWithoutMeta(m) ==
    meta[m] = 0 /\ branch[m] # {} /\ worker[m].commit > fork[m]

Note(m, strays) == strayed' = IF strays THEN strayed \cup {m} ELSE strayed

\* findMrSession, the session file.
Find(m) ==
    /\ At(m, "find")
    /\ Goes(m, IF m \in Archived THEN "readMeta" ELSE "work")
    /\ UNCHANGED <<git, strayed, ended, files, unevicted>>

\* findMrSession, the meta file.  Without one the modification time of the
\* session file is read, which throws if that file is gone by now; an
\* unreadable archive is none.
ReadMeta(m) ==
    /\ At(m, "readMeta")
    /\ \/ /\ meta[m] # 0 \/ m \in Archived
          /\ worker' = [worker EXCEPT ![m].phase = "copy", ![m].stored = TRUE,
                                      ![m].base = meta[m]]
          /\ Note(m, StraysWithoutMeta(m))
       \/ Goes(m, "work") /\ UNCHANGED strayed
    /\ UNCHANGED <<git, ended, files, unevicted>>

\* The copy into the worker.  If it fails the session is a fresh one, but the
\* stored meta is still used for the replay.
Copy(m) ==
    /\ At(m, "copy")
    /\ \/ /\ m \in Archived
          /\ worker' = [worker EXCEPT ![m].phase = "replay", ![m].session = TRUE]
       \/ Goes(m, "replay")
    /\ UNCHANGED <<git, strayed, ended, files, unevicted>>

\* replayRepairChanges: applied, or given up with the worktree restored.
Replay(m) ==
    /\ At(m, "replay")
    /\ \E tree \in {Tree(worker[m].commit)}
                      \cup (IF Replayable(m) THEN {Replayed(m)} ELSE {}) :
          worker' = [worker EXCEPT ![m] =
                        [Idle EXCEPT !.phase = "work", !.commit = worker[m].commit,
                                     !.session = worker[m].session, !.tree = tree]]
    /\ UNCHANGED <<git, strayed, ended, files, unevicted>>

\* The repair: it pushes its branch, or ends without (escalated, superseded,
\* rejected, failed); a repair that escalates may leave its scene, a resume does
\* not.  There is a session to save if one was opened, or else the copy of the
\* archived one.
Work(m) ==
    \E pushes, opened, retained \in BOOLEAN :
        /\ worker[m].phase \in {"work", "resume"}
        /\ pushes => opened
        /\ retained => opened /\ ~pushes /\ At(m, "work")
        /\ LET w    == worker[m]
               tree == IF w.tree = {} THEN Tree(w.commit) ELSE w.tree
           IN  /\ branch' = IF pushes
                            THEN [branch EXCEPT ![m] = tree \cup {Fix}]
                            ELSE branch
               /\ fork' = IF pushes THEN [fork EXCEPT ![m] = w.commit] ELSE fork
               /\ scene' = IF retained
                           THEN [scene EXCEPT ![m] = [commit |-> w.commit, tree |-> tree]]
                           ELSE scene
               /\ worker' = [worker EXCEPT ![m] =
                     IF opened \/ w.session
                     THEN [Idle EXCEPT !.phase = "save", !.commit = w.commit,
                                       !.pushed = pushes]
                     ELSE Idle]
        /\ UNCHANGED <<head, ended, files, strayed, unevicted>>

\* saveMrSession: the session file, then the meta file.  Whichever fails ends
\* the save, and with it the eviction.
Save(m) ==
    /\ At(m, "save")
    /\ \/ /\ archive' = Saved(m)
          /\ Goes(m, "writeMeta")
          /\ UNCHANGED strayed
       \/ UNCHANGED archive /\ Ends(m) /\ Note(m, StraysByNotSaving(m))
    /\ UNCHANGED <<git, ended, meta, unevicted>>

WriteMeta(m) ==
    /\ At(m, "writeMeta")
    /\ \/ /\ meta' = [meta EXCEPT ![m] = MetaSha(m)]
          /\ worker' = [worker EXCEPT ![m] = [Idle EXCEPT !.phase = "list"]]
          /\ Note(m, StraysBySaving(m))
          /\ UNCHANGED unevicted
       \/ /\ Ends(m)
          /\ Note(m, StraysByNotSaving(m))
          /\ unevicted' = TRUE
          /\ UNCHANGED meta
    /\ UNCHANGED <<git, ended, archive>>

\* The listing; it is given up if a file goes away before its time is read.
List(m) ==
    /\ At(m, "list")
    /\ \/ /\ worker' = [worker EXCEPT ![m].victims = Victims,
                            ![m].phase = IF Victims = {} THEN "idle" ELSE "evict"]
          /\ unevicted' = FALSE
       \/ Ends(m) /\ unevicted' = TRUE
    /\ UNCHANGED <<git, strayed, ended, files>>

\* The removals, file by file, of what was listed.
Evict(m) ==
    \E v \in worker[m].victims :
        /\ At(m, "evict")
        /\ archive' = Unlisted(v)
        /\ worker' = [worker EXCEPT ![m].phase = "evictMeta", ![m].victims = @ \ {v},
                                    ![m].orphans = {v}]
        /\ UNCHANGED <<git, strayed, ended, meta, unevicted>>

EvictMeta(m) ==
    /\ At(m, "evictMeta")
    /\ meta' = [v \in MRs |-> IF v \in worker[m].orphans THEN 0 ELSE meta[v]]
    /\ worker' = [worker EXCEPT ![m].orphans = {},
                      ![m].phase = IF worker[m].victims = {} THEN "idle" ELSE "evict"]
    /\ UNCHANGED <<git, strayed, ended, archive, unevicted>>

\* The time limit of a worker: it is killed wherever it is.  Killed before it
\* saves it leaves the files as one whose save fails at once.
Saving == {"writeMeta", "list", "evict", "evictMeta"}

Kill(m) ==
    /\ worker[m].phase \in Saving
    /\ Ends(m)
    /\ Note(m, StraysByNotSaving(m))
    /\ unevicted' = TRUE
    /\ UNCHANGED <<git, ended, files>>

-----------------------------------------------------------------------------
Steps(m) == \/ Find(m) \/ ReadMeta(m) \/ Copy(m) \/ Replay(m) \/ Work(m)
            \/ Save(m) \/ WriteMeta(m) \/ List(m) \/ Evict(m) \/ EvictMeta(m)

Next == \E m \in MRs : \/ Push(m) \/ End(m) \/ EndMeta(m)
                        \/ Start(m) \/ Resume(m) \/ Steps(m) \/ Kill(m)

Spec == Init /\ [][Next]_vars

-----------------------------------------------------------------------------
TypeOK ==
    /\ head \in [MRs -> Shas] /\ ended \in [MRs -> {"open", "removing", "ended"}]
    /\ archive \in Seq(MRs) /\ IsInjective(archive) /\ meta \in [MRs -> Shas]
    /\ branch \in [MRs -> Trees] /\ fork \in [MRs -> Shas]
    /\ scene \in [MRs -> Scene] /\ worker \in [MRs -> Worker]
    /\ strayed \subseteq MRs /\ unevicted \in BOOLEAN

\* At most Cap sessions are archived once nobody is saving, whatever the
\* order in which workers copied, listed and removed.  Only a save that
\* failed, or was killed, half way may leave more, until the next one.
CapHolds ==
    (\A m \in MRs : worker[m].phase \notin Saving) /\ ~unevicted =>
        Cardinality(Archived) <= Cap

\* A replay takes no commit of the developers back as long as the archive has not
\* passed the branch, however runs of older commits, resumes, failed saves,
\* evictions and conflicts follow each other, and whatever earlier replays have
\* put on the branch.
ReplayKeepsUnlessStrayed ==
    \A m \in MRs \ strayed :
        At(m, "replay") /\ Replayable(m) =>
            Tree(worker[m].commit) \subseteq Replayed(m)

\* worktree.ts: only the changes of the previous repair are replayed.  So the
\* replayed tree holds every commit of the merge request, at least when the
\* archive has its meta file.
ReplayKeepsTheCommits ==
    \A m \in MRs :
        At(m, "replay") /\ Replayable(m) /\ worker[m].base # 0 =>
            Tree(worker[m].commit) \subseteq Replayed(m)

=============================================================================
