------------------------ MODULE SessionArchiveProofs ------------------------
(***************************************************************************)
(* The cap of the archive and the replay, for every set of merge requests, *)
(* every cap and every number of commits.                                  *)
(***************************************************************************)
EXTENDS SessionArchive, FiniteSetTheorems, SequenceTheorems, TLAPS

\* What some worker is still to remove.
Doomed == UNION {worker[m].victims : m \in MRs}

\* Only an eviction has victims.
VictimsAreEvicted ==
    \A m \in MRs : worker[m].victims # {} => worker[m].phase \in {"evict", "evictMeta"}

\* What nobody is to remove fits the cap, unless a listing is to come or was missed.
RestFits ==
    \/ unevicted
    \/ \E m \in MRs : worker[m].phase \in {"writeMeta", "list"}
    \/ IsFiniteSet(Archived \ Doomed) /\ Cardinality(Archived \ Doomed) <= Cap

IInv == TypeOK /\ VictimsAreEvicted /\ RestFits

-----------------------------------------------------------------------------
(* Sequences without repetitions, and what the operators make of them.      *)

LEMMA WithoutRemoves ==
  ASSUME NEW s \in Seq(MRs), IsInjective(s), NEW m
  PROVE  /\ Without(s, m) \in Seq(MRs) /\ IsInjective(Without(s, m))
         /\ ToSet(Without(s, m)) = ToSet(s) \ {m}
  <1>1. CASE m \notin ToSet(s)
    BY <1>1 DEF Without
  <1>2. CASE m \in ToSet(s)
    <2> DEFINE i == CHOOSE j \in DOMAIN s : s[j] = m
               r == Without(s, m)
    <2>1. i \in DOMAIN s /\ s[i] = m
      BY <1>2 DEF ToSet
    <2>2. i \in 1 .. Len(s) /\ Len(s) \in Nat
      BY <2>1
    <2>3. r = SubSeq(s, 1, i - 1) \o SubSeq(s, i + 1, Len(s))
      BY <1>2 DEF Without, RemoveAt
    <2> HIDE DEF i, r
    <2>4. /\ r \in Seq(MRs) /\ Len(r) = Len(s) - 1
          /\ \A j \in 1 .. Len(r) : r[j] = IF j < i THEN s[j] ELSE s[j + 1]
      <3> DEFINE front == SubSeq(s, 1, i - 1)
                 back  == SubSeq(s, i + 1, Len(s))
      <3>1. /\ front \in Seq(MRs) /\ Len(front) = i - 1
            /\ \A j \in 1 .. i - 1 : front[j] = s[j]
        BY <2>2
      <3>2. /\ back \in Seq(MRs) /\ Len(back) = Len(s) - i
            /\ \A j \in 1 .. Len(s) - i : back[j] = s[j + i]
        BY <2>2
      <3>3. r = front \o back
        BY <2>3
      <3> HIDE DEF front, back
      <3>4. r \in Seq(MRs) /\ Len(r) = Len(s) - 1
        <4>1. r \in Seq(MRs) /\ Len(r) = Len(front) + Len(back)
          BY <3>1, <3>2, <3>3, ConcatProperties
        <4> QED BY <4>1, <3>1, <3>2, <2>2
      <3>5. ASSUME NEW j \in 1 .. Len(r)
            PROVE  r[j] = IF j < i THEN s[j] ELSE s[j + 1]
        <4>1. CASE j < i
          BY <4>1, <3>1, <3>2, <3>3, <3>4, <2>2
        <4>2. CASE ~(j < i)
          <5>1. r[j] = back[j - (i - 1)]
            BY <4>2, <3>1, <3>2, <3>3, <3>4, <2>2
          <5>2. j - (i - 1) \in 1 .. Len(s) - i /\ j - (i - 1) + i = j + 1
            BY <4>2, <3>4, <2>2
          <5> QED BY <5>1, <5>2, <3>2, <4>2
        <4> QED BY <4>1, <4>2
      <3> QED BY <3>4, <3>5
    <2>5. IsInjective(r)
      <3>1. DOMAIN r = 1 .. Len(r) /\ DOMAIN s = 1 .. Len(s)
        BY <2>4
      <3>2. ASSUME NEW j \in 1 .. Len(r), NEW k \in 1 .. Len(r), r[j] = r[k]
            PROVE  j = k
        <4> DEFINE at(l) == IF l < i THEN l ELSE l + 1
        <4>1. at(j) \in 1 .. Len(s) /\ at(k) \in 1 .. Len(s)
          BY <2>2, <2>4
        <4>2. s[at(j)] = s[at(k)]
          BY <2>4, <3>2
        <4>3. at(j) = at(k)
          BY <4>1, <4>2, <3>1 DEF IsInjective
        <4> QED BY <4>3, <2>2
      <3> QED BY <3>1, <3>2 DEF IsInjective
    <2>6. ToSet(r) \subseteq ToSet(s) \ {m}
      BY <2>1, <2>2, <2>4 DEF IsInjective, ToSet
    <2>7. ASSUME NEW x \in ToSet(s), x # m
          PROVE  x \in ToSet(r)
      <3>1. PICK j \in 1 .. Len(s) : s[j] = x
        BY DEF ToSet
      <3>2. CASE j < i
        BY <3>1, <3>2, <2>2, <2>4 DEF ToSet
      <3>3. CASE j > i
        <4>1. j - 1 \in 1 .. Len(r) /\ r[j - 1] = s[j]
          BY <3>3, <2>2, <2>4
        <4> QED BY <4>1, <3>1, <2>4 DEF ToSet
      <3> QED BY <3>1, <3>2, <3>3, <2>1, <2>2, <2>7
    <2> QED BY <2>4, <2>5, <2>6, <2>7 DEF r
  <1> QED BY <1>1, <1>2

LEMMA SavedAppends ==
  ASSUME NEW m \in MRs, archive \in Seq(MRs), IsInjective(archive)
  PROVE  Saved(m) \in Seq(MRs) /\ IsInjective(Saved(m))
  <1> DEFINE r == Without(archive, m)
  <1>1. r \in Seq(MRs) /\ IsInjective(r) /\ m \notin ToSet(r)
    BY WithoutRemoves
  <1>2. Saved(m) = Append(r, m)
    BY DEF Saved
  <1> HIDE DEF r
  <1> QED BY <1>1, <1>2 DEF IsInjective, ToSet

\* What is listed and not to be evicted fits the cap.
LEMMA KeptFit ==
  ASSUME archive \in Seq(MRs)
  PROVE  /\ Victims \subseteq MRs
         /\ IsFiniteSet(Archived \ Victims) /\ Cardinality(Archived \ Victims) <= Cap
  <1>c. Cap \in Nat /\ Len(archive) \in Nat
    BY CapAssumption
  <1>a. Archived \subseteq MRs
    BY DEF Archived, ToSet
  <1> DEFINE first == IF Len(archive) <= Cap THEN 1 ELSE Len(archive) - Cap + 1
             kept == first .. Len(archive)
             S == {archive[i] : i \in kept}
  <1>1. first \in Nat /\ kept \subseteq DOMAIN archive
    BY <1>c
  <1>2. IsFiniteSet(kept) /\ Cardinality(kept) <= Cap /\ Cardinality(kept) \in Nat
    <2>1. Len(archive) - first + 1 <= Cap /\ first \in Int /\ Len(archive) \in Int
      BY <1>c
    <2> HIDE DEF first
    <2>2. /\ IsFiniteSet(kept)
          /\ Cardinality(kept) = IF first > Len(archive) THEN 0 ELSE Len(archive) - first + 1
      BY <2>1, FS_Interval
    <2> HIDE DEF kept
    <2> QED BY <2>1, <2>2, <1>c
  <1>3. IsFiniteSet(S) /\ Cardinality(S) <= Cardinality(kept)
    <2>1. [i \in kept |-> archive[i]] \in Surjection(kept, S)
      BY DEF Surjection
    <2> QED BY <2>1, <1>2, FS_Surjection
  <1>4. Victims \subseteq MRs /\ Archived \ Victims \subseteq S
    <2>1. CASE Len(archive) <= Cap
      BY <2>1 DEF Victims, Archived, ToSet
    <2>2. CASE ~(Len(archive) <= Cap)
      <3> DEFINE old == SubSeq(archive, 1, Len(archive) - Cap)
      <3>1. Victims = ToSet(old)
        BY <2>2 DEF Victims
      <3>2. /\ old \in Seq(MRs) /\ Len(old) = Len(archive) - Cap
            /\ \A i \in 1 .. Len(archive) - Cap : old[i] = archive[i]
        BY <2>2, <1>c
      <3> HIDE DEF old
      <3>3. Victims \subseteq MRs
        BY <3>1, <3>2 DEF ToSet
      <3>4. ASSUME NEW x \in Archived \ Victims
            PROVE  x \in S
        <4>1. PICK i \in 1 .. Len(archive) : archive[i] = x
          BY DEF Archived, ToSet
        <4>2. i > Len(archive) - Cap
          BY <4>1, <3>1, <3>2, <1>c DEF ToSet
        <4> QED BY <4>1, <4>2, <2>2, <1>c
      <3> QED BY <3>3, <3>4
    <2> QED BY <2>1, <2>2
  <1>5. IsFiniteSet(Archived \ Victims) /\ Cardinality(Archived \ Victims) <= Cardinality(S)
    BY <1>3, <1>4, FS_Subset
  <1>6. Cardinality(S) \in Nat /\ Cardinality(Archived \ Victims) \in Nat
    BY <1>3, <1>5, FS_CardinalityType
  <1> HIDE DEF S, kept
  <1> QED BY <1>2, <1>3, <1>4, <1>5, <1>6, <1>c

-----------------------------------------------------------------------------
(* Steps of a worker.                                                       *)

\* What a worker that is replaced by r means for the table of workers.
LEMMA WorkerStep ==
  ASSUME TypeOK, NEW m \in MRs, NEW r \in Worker, worker' = [worker EXCEPT ![m] = r]
  PROVE  /\ worker' \in [MRs -> Worker]
         /\ \A x \in MRs : worker'[x] = IF x = m THEN r ELSE worker[x]
         /\ r.victims = worker[m].victims => Doomed' = Doomed
  BY DEF TypeOK, Doomed

\* The archive does not outgrow the cap by a step that adds no file, dooms
\* none less, and ends no listing.
LEMMA RestStays ==
  ASSUME RestFits, Cap \in Nat,
         unevicted => unevicted',
         \A x \in MRs : worker[x].phase \in {"writeMeta", "list"} =>
             worker'[x].phase \in {"writeMeta", "list"} \/ unevicted',
         Archived' \ Doomed' \subseteq Archived \ Doomed
  PROVE  RestFits'
  <1>1. CASE unevicted
    BY <1>1 DEF RestFits
  <1>2. CASE \E m \in MRs : worker[m].phase \in {"writeMeta", "list"}
    BY <1>2 DEF RestFits
  <1>3. CASE IsFiniteSet(Archived \ Doomed) /\ Cardinality(Archived \ Doomed) <= Cap
    <2> DEFINE old == Archived \ Doomed
               new == Archived' \ Doomed'
    <2> HIDE DEF old, new
    <2>1. new \in SUBSET old /\ IsFiniteSet(old) /\ Cardinality(old) <= Cap
      BY <1>3 DEF old, new
    <2>2. IsFiniteSet(new) /\ Cardinality(new) <= Cardinality(old)
      BY <2>1, FS_Subset
    <2>3. Cardinality(new) \in Nat /\ Cardinality(old) \in Nat
      BY <2>1, <2>2, FS_CardinalityType
    <2>4. IsFiniteSet(new) /\ Cardinality(new) <= Cap
      BY <2>1, <2>2, <2>3
    <2> QED BY <2>4 DEF RestFits, new
  <1> QED BY <1>1, <1>2, <1>3 DEF RestFits

\* A worker that has nothing to list or evict, before and after its step.
LEMMA QuietStep ==
  ASSUME IInv, NEW m \in MRs, NEW r \in Worker, worker' = [worker EXCEPT ![m] = r],
         worker[m].phase \notin Saving, r.victims = {},
         archive' = archive, unevicted' = unevicted
  PROVE  worker' \in [MRs -> Worker] /\ VictimsAreEvicted' /\ RestFits'
  <1>0. TypeOK /\ VictimsAreEvicted /\ RestFits /\ Cap \in Nat
    BY CapAssumption DEF IInv
  <1>1. worker[m].victims = {}
    BY <1>0 DEF VictimsAreEvicted, Saving
  <1>2. /\ worker' \in [MRs -> Worker]
        /\ \A x \in MRs : worker'[x] = IF x = m THEN r ELSE worker[x]
        /\ Doomed' = Doomed
    BY <1>0, <1>1, WorkerStep
  <1>3. VictimsAreEvicted'
    BY <1>0, <1>2 DEF VictimsAreEvicted
  <1>4. Archived' = Archived
    BY DEF Archived
  <1>5. RestFits'
    BY <1>0, <1>2, <1>4, RestStays DEF Saving
  <1> QED BY <1>2, <1>3, <1>5

LEMMA IdleIsWorker ==
  ASSUME NEW m \in MRs
  PROVE  Idle \in Worker /\ NoScene \in Scene /\ 0 \in Shas
  BY CommitsAssumption DEF Idle, Worker, NoScene, Scene, Phases, Shas, Trees

LEMMA TreeIsTree ==
  ASSUME NEW n \in Shas
  PROVE  Tree(n) \in Trees /\ n \in Nat
  BY CommitsAssumption DEF Tree, Trees, Shas

LEMMA EarlierCommits ==
  ASSUME NEW n \in Shas, NEW c \in 1 .. n
  PROVE  c \in Shas
  BY CommitsAssumption DEF Shas

-----------------------------------------------------------------------------
(* One lemma per action.                                                    *)

LEMMA InitEstablishes ==
  ASSUME Init
  PROVE  IInv
  <1>1. \A m \in MRs : /\ 1 \in Shas /\ 0 \in Shas /\ Idle \in Worker
                     /\ NoScene \in Scene
    BY IdleIsWorker, CommitsAssumption DEF Shas
  <1>2. archive = << >> /\ Archived = {}
    BY DEF Init, Archived, ToSet
  <1>3. TypeOK
    <2>1. archive \in Seq(MRs) /\ IsInjective(archive)
      BY <1>2 DEF IsInjective
    <2>2. head \in [MRs -> Shas] /\ meta \in [MRs -> Shas] /\ fork \in [MRs -> Shas]
      BY <1>1 DEF Init
    <2>3. /\ branch \in [MRs -> Trees] /\ worker \in [MRs -> Worker]
          /\ scene \in [MRs -> Scene]
      BY <1>1 DEF Init, Trees
    <2> QED BY <2>1, <2>2, <2>3 DEF Init, TypeOK
  <1>4. VictimsAreEvicted
    BY DEF Init, VictimsAreEvicted, Idle
  <1>5. IsFiniteSet(Archived \ Doomed) /\ Cardinality(Archived \ Doomed) <= Cap
    BY <1>2, FS_EmptySet, CapAssumption
  <1> QED BY <1>3, <1>4, <1>5 DEF IInv, RestFits

\* The developers, and the end of a merge request.
LEMMA OutsideKeeps ==
  ASSUME IInv, NEW m \in MRs, Push(m) \/ End(m) \/ EndMeta(m)
  PROVE  IInv'
  <1>0. TypeOK /\ VictimsAreEvicted /\ RestFits /\ Cap \in Nat
    BY CapAssumption DEF IInv
  <1>1. UNCHANGED <<worker, branch, scene, fork, strayed, unevicted>>
    BY DEF Push, End, EndMeta, git
  <1>2. /\ archive' \in Seq(MRs) /\ IsInjective(archive')
        /\ Archived' \subseteq Archived
    <2>1. archive' = archive \/ archive' = Without(archive, m)
      BY DEF Push, End, EndMeta, files, Unlisted
    <2> QED BY <2>1, <1>0, WithoutRemoves DEF TypeOK, Archived
  <1>3. TypeOK'
    <2>1. head[m] \in Nat /\ Commits[m] \in Nat /\ 0 \in Shas
      BY <1>0, TreeIsTree, IdleIsWorker, CommitsAssumption DEF TypeOK
    <2>2. CASE Push(m)
      <3>1. head[m] + 1 \in Shas
        BY <2>1, <2>2 DEF Push, Shas
      <3> QED BY <3>1, <2>2, <1>0, <1>1, <1>2 DEF Push, TypeOK, files
    <2>3. CASE End(m)
      BY <2>3, <1>0, <1>1, <1>2 DEF End, TypeOK, git
    <2>4. CASE EndMeta(m)
      BY <2>1, <2>4, <1>0, <1>1, <1>2 DEF EndMeta, TypeOK, git
    <2> QED BY <2>2, <2>3, <2>4
  <1>4. VictimsAreEvicted'
    BY <1>0, <1>1 DEF VictimsAreEvicted
  <1>5. RestFits'
    <2>1. Doomed' = Doomed
      BY <1>1 DEF Doomed
    <2> QED BY <2>1, <1>0, <1>1, <1>2, RestStays
  <1> QED BY <1>3, <1>4, <1>5 DEF IInv

\* Up to the replay.
LEMMA ReadingKeeps ==
  ASSUME IInv, NEW m \in MRs,
         Start(m) \/ Resume(m) \/ Find(m) \/ ReadMeta(m) \/ Copy(m)
  PROVE  IInv'
  <1>0. TypeOK
    BY DEF IInv
  <1>1. PICK r : /\ worker' = [worker EXCEPT ![m] = r]
                 /\ r \in Worker /\ r.victims = {}
                 /\ worker[m].phase \notin Saving
    <2>0. /\ worker \in [MRs -> Worker] /\ worker[m] \in Worker
          /\ Idle \in Worker /\ meta[m] \in Shas /\ scene[m] \in Scene
      BY <1>0, IdleIsWorker DEF TypeOK
    <2>v. worker[m].phase \notin Saving => worker[m].victims = {}
      BY DEF IInv, VictimsAreEvicted, Saving
    <2>1. CASE Start(m)
      <3>0. PICK c \in 1 .. head[m] :
              worker' = [worker EXCEPT ![m] = [Idle EXCEPT !.phase = "find", !.commit = c]]
        BY <2>1 DEF Start
      <3>c. c \in Shas
        BY <1>0, EarlierCommits DEF TypeOK
      <3> DEFINE r == [Idle EXCEPT !.phase = "find", !.commit = c]
      <3>1. r \in Worker /\ r.victims = {}
        BY <2>0, <3>c DEF Worker, Phases, Idle
      <3>2. worker' = [worker EXCEPT ![m] = r] /\ worker[m].phase \notin Saving
        BY <2>1, <3>0 DEF Start, At, Saving
      <3> HIDE DEF r
      <3> QED BY <3>1, <3>2
    <2>r. CASE Resume(m)
      <3> DEFINE r == [Idle EXCEPT !.phase = "resume", !.commit = scene[m].commit,
                                   !.session = TRUE, !.tree = scene[m].tree]
      <3>1. r \in Worker /\ r.victims = {}
        BY <2>0 DEF Worker, Scene, Phases, Idle
      <3>2. worker' = [worker EXCEPT ![m] = r] /\ worker[m].phase \notin Saving
        BY <2>r DEF Resume, At, Saving
      <3> HIDE DEF r
      <3> QED BY <3>1, <3>2
    <2>2. CASE Find(m)
      <3>1. PICK p \in Phases : worker' = [worker EXCEPT ![m] = [worker[m] EXCEPT !.phase = p]]
        BY <2>2, <2>0 DEF Find, Goes, Phases
      <3> DEFINE r == [worker[m] EXCEPT !.phase = p]
      <3>2. worker[m].phase \notin Saving
        BY <2>2 DEF Find, At, Saving
      <3>3. r \in Worker /\ r.victims = {}
        BY <3>2, <2>0, <2>v DEF Worker
      <3>4. worker' = [worker EXCEPT ![m] = r]
        BY <3>1
      <3> HIDE DEF r
      <3> QED BY <3>2, <3>3, <3>4
    <2>3. CASE ReadMeta(m)
      <3>1. PICK p \in Phases, stored \in BOOLEAN, base \in Shas :
              worker' = [worker EXCEPT ![m] = [worker[m] EXCEPT !.phase = p,
                              !.stored = stored, !.base = base]]
        <4>1. CASE worker' = [worker EXCEPT ![m].phase = "copy", ![m].stored = TRUE,
                                            ![m].base = meta[m]]
          <5>1. worker' = [worker EXCEPT ![m] = [worker[m] EXCEPT !.phase = "copy",
                              !.stored = TRUE, !.base = meta[m]]]
            BY <4>1, <2>0
          <5> QED BY <5>1, <2>0 DEF Phases
        <4>2. CASE Goes(m, "work")
          <5>1. worker' = [worker EXCEPT ![m] = [worker[m] EXCEPT !.phase = "work",
                              !.stored = worker[m].stored, !.base = worker[m].base]]
            BY <4>2, <2>0 DEF Goes, Worker
          <5>2. worker[m].stored \in BOOLEAN /\ worker[m].base \in Shas
            BY <2>0 DEF Worker
          <5> QED BY <5>1, <5>2 DEF Phases
        <4> QED BY <4>1, <4>2, <2>3 DEF ReadMeta
      <3> DEFINE r == [worker[m] EXCEPT !.phase = p, !.stored = stored, !.base = base]
      <3>2. worker[m].phase \notin Saving
        BY <2>3 DEF ReadMeta, At, Saving
      <3>3. r \in Worker /\ r.victims = {}
        BY <3>2, <2>0, <2>v DEF Worker
      <3>4. worker' = [worker EXCEPT ![m] = r]
        BY <3>1
      <3> HIDE DEF r
      <3> QED BY <3>2, <3>3, <3>4
    <2>4. CASE Copy(m)
      <3>1. PICK session \in BOOLEAN :
              worker' = [worker EXCEPT ![m] = [worker[m] EXCEPT !.phase = "replay",
                              !.session = session]]
        <4>1. CASE worker' = [worker EXCEPT ![m].phase = "replay", ![m].session = TRUE]
          BY <4>1, <2>0
        <4>2. CASE Goes(m, "replay")
          <5>1. worker' = [worker EXCEPT ![m] = [worker[m] EXCEPT !.phase = "replay",
                              !.session = worker[m].session]]
            BY <4>2, <2>0 DEF Goes, Worker
          <5>2. worker[m].session \in BOOLEAN
            BY <2>0 DEF Worker
          <5> QED BY <5>1, <5>2
        <4> QED BY <4>1, <4>2, <2>4 DEF Copy
      <3> DEFINE r == [worker[m] EXCEPT !.phase = "replay", !.session = session]
      <3>2. worker[m].phase \notin Saving
        BY <2>4 DEF Copy, At, Saving
      <3>3. r \in Worker /\ r.victims = {}
        BY <3>2, <2>0, <2>v DEF Worker, Phases
      <3>4. worker' = [worker EXCEPT ![m] = r]
        BY <3>1
      <3> HIDE DEF r
      <3> QED BY <3>2, <3>3, <3>4
    <2> QED BY <2>1, <2>r, <2>2, <2>3, <2>4
  <1>2. UNCHANGED <<head, branch, fork, ended, files, unevicted>>
    BY DEF Start, Resume, Find, ReadMeta, Copy, git
  <1>s. scene' \in [MRs -> Scene] /\ strayed' \subseteq MRs
    <2>1. scene' = scene \/ scene' = [scene EXCEPT ![m] = NoScene]
      BY DEF Start, Resume, Find, ReadMeta, Copy, git
    <2>2. strayed' = strayed \/ strayed' = strayed \cup {m}
      BY DEF Start, Resume, Find, ReadMeta, Copy, Note
    <2> QED BY <2>1, <2>2, <1>0, IdleIsWorker DEF TypeOK
  <1>3. worker' \in [MRs -> Worker] /\ VictimsAreEvicted' /\ RestFits'
    BY <1>1, <1>2, QuietStep DEF files
  <1>4. TypeOK'
    BY <1>0, <1>2, <1>s, <1>3 DEF TypeOK, files
  <1> QED BY <1>3, <1>4 DEF IInv

LEMMA ReplayKeeps ==
  ASSUME IInv, NEW m \in MRs, Replay(m)
  PROVE  IInv'
  <1>0. TypeOK /\ worker[m] \in Worker /\ Idle \in Worker
    BY IdleIsWorker DEF IInv, TypeOK
  <1>1. Tree(worker[m].commit) \in Trees /\ branch[m] \in Trees
    BY <1>0, TreeIsTree DEF TypeOK, Worker
  <1>2. Replayed(m) \in Trees
    BY <1>1 DEF Replayed, Adds, Trees
  <1>3. PICK tree \in Trees :
          worker' = [worker EXCEPT ![m] =
                        [Idle EXCEPT !.phase = "work", !.commit = worker[m].commit,
                                     !.session = worker[m].session, !.tree = tree]]
    BY <1>1, <1>2 DEF Replay
  <1> DEFINE r == [Idle EXCEPT !.phase = "work", !.commit = worker[m].commit,
                               !.session = worker[m].session, !.tree = tree]
  <1>4. r \in Worker /\ r.victims = {}
    BY <1>0 DEF Worker, Phases, Idle
  <1>5. UNCHANGED <<git, strayed, ended, files, unevicted>> /\ worker[m].phase \notin Saving
    BY DEF Replay, At, Saving
  <1> HIDE DEF r
  <1>6. worker' \in [MRs -> Worker] /\ VictimsAreEvicted' /\ RestFits'
    BY <1>3, <1>4, <1>5, QuietStep DEF files, r
  <1>7. TypeOK'
    BY <1>0, <1>5, <1>6 DEF TypeOK, git, files
  <1> QED BY <1>6, <1>7 DEF IInv

\* What the agent starts from, and Work with its choices made.
StartTree(m) == IF worker[m].tree = {} THEN Tree(worker[m].commit) ELSE worker[m].tree

WorkOf(m, pushes, opened, retained) ==
    /\ worker[m].phase \in {"work", "resume"}
    /\ branch' = IF pushes THEN [branch EXCEPT ![m] = StartTree(m) \cup {Fix}] ELSE branch
    /\ fork' = IF pushes THEN [fork EXCEPT ![m] = worker[m].commit] ELSE fork
    /\ scene' = IF retained
                THEN [scene EXCEPT ![m] = [commit |-> worker[m].commit, tree |-> StartTree(m)]]
                ELSE scene
    /\ worker' = [worker EXCEPT ![m] =
          IF opened \/ worker[m].session
          THEN [Idle EXCEPT !.phase = "save", !.commit = worker[m].commit, !.pushed = pushes]
          ELSE Idle]
    /\ pushes => opened
    /\ UNCHANGED <<head, ended, files, strayed, unevicted>>

LEMMA WorkIsOneOf ==
  ASSUME NEW m \in MRs, Work(m)
  PROVE  \E pushes, opened, retained \in BOOLEAN : WorkOf(m, pushes, opened, retained)
  BY DEF Work, WorkOf, StartTree

LEMMA WorkKeeps ==
  ASSUME IInv, NEW m \in MRs, Work(m)
  PROVE  IInv'
  <1>0. TypeOK /\ worker[m] \in Worker /\ Idle \in Worker /\ 0 \in Shas
    BY IdleIsWorker DEF IInv, TypeOK
  <1>1. PICK pushes \in BOOLEAN, opened \in BOOLEAN, retained \in BOOLEAN :
          WorkOf(m, pushes, opened, retained)
    BY WorkIsOneOf
  <1> DEFINE tree == StartTree(m)
             r == IF opened \/ worker[m].session
                  THEN [Idle EXCEPT !.phase = "save", !.commit = worker[m].commit,
                                    !.pushed = pushes]
                  ELSE Idle
  <1>2. tree \in Trees /\ worker[m].commit \in Shas
    BY <1>0, TreeIsTree DEF Worker, StartTree
  <1>3. branch' \in [MRs -> Trees]
    <2>1. tree \cup {Fix} \in Trees
      BY <1>0, <1>2 DEF Trees, Fix
    <2>2. branch' = [branch EXCEPT ![m] = tree \cup {Fix}] \/ branch' = branch
      BY <1>1 DEF WorkOf
    <2> HIDE DEF tree
    <2> QED BY <2>1, <2>2, <1>0 DEF TypeOK
  <1>4. fork' \in [MRs -> Shas]
    BY <1>0, <1>1, <1>2 DEF TypeOK, WorkOf
  <1>s. scene' \in [MRs -> Scene]
    <2>1. [commit |-> worker[m].commit, tree |-> tree] \in Scene
      BY <1>2 DEF Scene
    <2>2. \/ scene' = [scene EXCEPT ![m] = [commit |-> worker[m].commit, tree |-> tree]]
          \/ scene' = scene
      BY <1>1 DEF WorkOf
    <2> HIDE DEF tree
    <2> QED BY <2>1, <2>2, <1>0 DEF TypeOK
  <1>5. r \in Worker /\ r.victims = {}
    BY <1>0, <1>2 DEF Worker, Phases, Idle
  <1>6. worker' = [worker EXCEPT ![m] = r] /\ worker[m].phase \notin Saving
    BY <1>1 DEF WorkOf, Saving
  <1>u. UNCHANGED <<head, ended, files, strayed, unevicted>>
    BY <1>1 DEF WorkOf
  <1> HIDE DEF r, tree
  <1>7. worker' \in [MRs -> Worker] /\ VictimsAreEvicted' /\ RestFits'
    BY <1>5, <1>6, <1>u, QuietStep DEF files
  <1>8. TypeOK'
    BY <1>0, <1>u, <1>3, <1>4, <1>s, <1>7 DEF TypeOK, files
  <1> QED BY <1>7, <1>8 DEF IInv

LEMMA SaveKeeps ==
  ASSUME IInv, NEW m \in MRs, Save(m)
  PROVE  IInv'
  <1>0. /\ TypeOK /\ VictimsAreEvicted /\ worker[m] \in Worker /\ Idle \in Worker
        /\ worker[m].phase = "save"
    BY IdleIsWorker DEF IInv, TypeOK, Save, At
  <1>1. worker[m].victims = {}
    BY <1>0 DEF VictimsAreEvicted
  <1>2. UNCHANGED <<git, ended, meta, unevicted>>
    BY DEF Save
  <1>s. strayed' \subseteq MRs
    BY <1>0 DEF Save, Note, TypeOK
  <1>3. CASE archive' = Saved(m) /\ Goes(m, "writeMeta")
    <2> DEFINE r == [worker[m] EXCEPT !.phase = "writeMeta"]
    <2>1. r \in Worker /\ r.victims = {} /\ r.phase = "writeMeta"
      BY <1>0, <1>1 DEF Worker, Phases
    <2>2. worker' = [worker EXCEPT ![m] = r]
      BY <1>0, <1>3 DEF Goes, TypeOK
    <2> HIDE DEF r
    <2>3. /\ worker' \in [MRs -> Worker]
          /\ \A x \in MRs : worker'[x] = IF x = m THEN r ELSE worker[x]
      BY <1>0, <2>1, <2>2, WorkerStep
    <2>4. archive' \in Seq(MRs) /\ IsInjective(archive')
      BY <1>0, <1>3, SavedAppends DEF TypeOK
    <2>5. TypeOK'
      BY <1>0, <1>2, <1>s, <2>3, <2>4 DEF TypeOK, git
    <2>6. VictimsAreEvicted'
      BY <1>0, <2>1, <2>3 DEF VictimsAreEvicted
    <2>7. RestFits'
      BY <2>1, <2>3 DEF RestFits
    <2> QED BY <2>5, <2>6, <2>7 DEF IInv
  <1>4. CASE UNCHANGED archive /\ Ends(m)
    <2>1. worker' = [worker EXCEPT ![m] = Idle] /\ Idle.victims = {} /\ worker[m].phase \notin Saving
      BY <1>0, <1>4 DEF Ends, Idle, Saving
    <2>2. worker' \in [MRs -> Worker] /\ VictimsAreEvicted' /\ RestFits'
      BY <1>0, <1>2, <1>4, <2>1, QuietStep
    <2>3. TypeOK'
      BY <1>0, <1>2, <1>s, <1>4, <2>2 DEF TypeOK, git
    <2> QED BY <2>2, <2>3 DEF IInv
  <1> QED BY <1>3, <1>4 DEF Save

\* A worker that gives up: its eviction is missed.
LEMMA GivingUpKeeps ==
  ASSUME IInv, NEW m \in MRs, Ends(m), unevicted' = TRUE, strayed' \subseteq MRs,
         UNCHANGED <<git, ended, files>>
  PROVE  IInv'
  <1>0. TypeOK /\ VictimsAreEvicted /\ Idle \in Worker /\ Idle.victims = {}
    BY IdleIsWorker DEF IInv, Idle
  <1>1. worker' = [worker EXCEPT ![m] = Idle]
    BY DEF Ends
  <1>2. /\ worker' \in [MRs -> Worker]
        /\ \A x \in MRs : worker'[x] = IF x = m THEN Idle ELSE worker[x]
    BY <1>0, <1>1, WorkerStep
  <1>3. TypeOK'
    BY <1>0, <1>2 DEF TypeOK, git, files
  <1>4. VictimsAreEvicted'
    BY <1>0, <1>2 DEF VictimsAreEvicted
  <1> QED BY <1>3, <1>4 DEF IInv, RestFits

LEMMA WriteMetaKeeps ==
  ASSUME IInv, NEW m \in MRs, WriteMeta(m)
  PROVE  IInv'
  <1>0. TypeOK /\ VictimsAreEvicted /\ Idle \in Worker
    BY IdleIsWorker DEF IInv
  <1>1. UNCHANGED <<git, ended, archive>> /\ strayed' \subseteq MRs
    BY <1>0 DEF WriteMeta, Note, TypeOK
  <1>2. CASE /\ meta' = [meta EXCEPT ![m] = MetaSha(m)]
             /\ worker' = [worker EXCEPT ![m] = [Idle EXCEPT !.phase = "list"]]
             /\ UNCHANGED unevicted
    <2> DEFINE r == [Idle EXCEPT !.phase = "list"]
    <2>1. r \in Worker /\ r.victims = {} /\ r.phase = "list" /\ MetaSha(m) \in Shas
      BY <1>0 DEF Worker, Phases, Idle, TypeOK, MetaSha
    <2>2. worker' = [worker EXCEPT ![m] = r]
      BY <1>2
    <2> HIDE DEF r
    <2>3. /\ worker' \in [MRs -> Worker]
          /\ \A x \in MRs : worker'[x] = IF x = m THEN r ELSE worker[x]
      BY <1>0, <2>1, <2>2, WorkerStep
    <2>4. TypeOK'
      BY <1>0, <1>1, <1>2, <2>1, <2>3 DEF TypeOK, git
    <2>5. VictimsAreEvicted'
      BY <1>0, <2>1, <2>3 DEF VictimsAreEvicted
    <2>6. RestFits'
      BY <2>1, <2>3 DEF RestFits
    <2> QED BY <2>4, <2>5, <2>6 DEF IInv
  <1>3. CASE Ends(m) /\ unevicted' = TRUE /\ UNCHANGED meta
    BY <1>1, <1>3, GivingUpKeeps DEF files
  <1> QED BY <1>2, <1>3 DEF WriteMeta

\* A listing sees every file that is there, whoever wrote it.
LEMMA ListKeeps ==
  ASSUME IInv, NEW m \in MRs, List(m)
  PROVE  IInv'
  <1>0. TypeOK /\ VictimsAreEvicted /\ worker[m] \in Worker /\ worker[m].phase = "list"
    BY DEF IInv, List, At, TypeOK
  <1>1. UNCHANGED <<git, strayed, ended, files>> /\ strayed' \subseteq MRs
    BY <1>0 DEF List, TypeOK
  <1>2. CASE /\ worker' = [worker EXCEPT ![m].victims = Victims,
                              ![m].phase = IF Victims = {} THEN "idle" ELSE "evict"]
             /\ unevicted' = FALSE
    <2>1. /\ Victims \subseteq MRs
          /\ IsFiniteSet(Archived \ Victims) /\ Cardinality(Archived \ Victims) <= Cap
      BY <1>0, KeptFit DEF TypeOK
    <2> DEFINE r == [worker[m] EXCEPT !.victims = Victims,
                        !.phase = IF Victims = {} THEN "idle" ELSE "evict"]
    <2>2. r \in Worker /\ r.victims = Victims /\ (r.victims # {} => r.phase = "evict")
      BY <1>0, <2>1 DEF Worker, Phases
    <2>3. worker' = [worker EXCEPT ![m] = r]
      BY <1>0, <1>2 DEF TypeOK
    <2> HIDE DEF r
    <2>4. /\ worker' \in [MRs -> Worker]
          /\ \A x \in MRs : worker'[x] = IF x = m THEN r ELSE worker[x]
      BY <1>0, <2>2, <2>3, WorkerStep
    <2>5. TypeOK'
      BY <1>0, <1>1, <1>2, <2>4 DEF TypeOK, git, files
    <2>6. VictimsAreEvicted'
      BY <1>0, <2>2, <2>4 DEF VictimsAreEvicted
    <2>7. Victims \subseteq Doomed' /\ Archived' = Archived
      BY <1>1, <2>2, <2>4 DEF Doomed, Archived, files
    <2>8. IsFiniteSet((Archived \ Doomed)') /\ Cardinality((Archived \ Doomed)') <= Cap
      <3> DEFINE old == Archived \ Victims
                 new == (Archived \ Doomed)'
      <3>1. new \in SUBSET old
        BY <2>7
      <3> HIDE DEF old, new
      <3>2. IsFiniteSet(old) /\ Cardinality(old) <= Cap /\ Cap \in Nat
        BY <2>1, CapAssumption DEF old
      <3>3. IsFiniteSet(new) /\ Cardinality(new) <= Cardinality(old)
        BY <3>1, <3>2, FS_Subset
      <3>4. Cardinality(new) \in Nat /\ Cardinality(old) \in Nat
        BY <3>2, <3>3, FS_CardinalityType
      <3>5. IsFiniteSet(new) /\ Cardinality(new) <= Cap
        BY <3>2, <3>3, <3>4
      <3> QED BY <3>5 DEF new
    <2>9. RestFits'
      BY <2>8 DEF RestFits
    <2> QED BY <2>5, <2>6, <2>9 DEF IInv
  <1>3. CASE Ends(m) /\ unevicted' = TRUE
    BY <1>1, <1>3, GivingUpKeeps
  <1> QED BY <1>2, <1>3 DEF List

LEMMA EvictKeeps ==
  ASSUME IInv, NEW m \in MRs, Evict(m)
  PROVE  IInv'
  <1>0. TypeOK /\ VictimsAreEvicted /\ RestFits /\ Cap \in Nat /\ worker[m] \in Worker
    BY CapAssumption DEF IInv, TypeOK
  <1>1. PICK v \in worker[m].victims :
          /\ At(m, "evict")
          /\ archive' = Unlisted(v)
          /\ worker' = [worker EXCEPT ![m].phase = "evictMeta", ![m].victims = @ \ {v},
                                      ![m].orphans = {v}]
          /\ UNCHANGED <<git, strayed, ended, meta, unevicted>>
    BY DEF Evict
  <1> DEFINE r == [worker[m] EXCEPT !.phase = "evictMeta", !.victims = @ \ {v}, !.orphans = {v}]
  <1>2. /\ r \in Worker /\ r.phase = "evictMeta"
        /\ r.victims = worker[m].victims \ {v} /\ v \in MRs
    BY <1>0 DEF Worker, Phases
  <1>3. worker' = [worker EXCEPT ![m] = r]
    BY <1>0, <1>1 DEF TypeOK
  <1> HIDE DEF r
  <1>4. /\ worker' \in [MRs -> Worker]
        /\ \A x \in MRs : worker'[x] = IF x = m THEN r ELSE worker[x]
    BY <1>0, <1>2, <1>3, WorkerStep
  <1>5. archive' \in Seq(MRs) /\ IsInjective(archive') /\ Archived' = Archived \ {v}
    BY <1>0, <1>1, WithoutRemoves DEF TypeOK, Unlisted, Archived
  <1>6. TypeOK'
    BY <1>0, <1>1, <1>4, <1>5 DEF TypeOK, git
  <1>7. VictimsAreEvicted'
    BY <1>0, <1>2, <1>4 DEF VictimsAreEvicted
  <1>8. Doomed \ {v} \subseteq Doomed'
    BY <1>2, <1>4 DEF Doomed
  <1>9. RestFits'
    <2>1. Archived' \ Doomed' \subseteq Archived \ Doomed
      BY <1>5, <1>8
    <2>2. /\ unevicted' = unevicted
          /\ worker[m].phase = "evict"
      BY <1>1 DEF At
    <2> QED BY <2>1, <2>2, <1>0, <1>4, RestStays
  <1> QED BY <1>6, <1>7, <1>9 DEF IInv

LEMMA EvictMetaKeeps ==
  ASSUME IInv, NEW m \in MRs, EvictMeta(m)
  PROVE  IInv'
  <1>0. /\ TypeOK /\ VictimsAreEvicted /\ RestFits /\ Cap \in Nat /\ worker[m] \in Worker
        /\ worker[m].phase = "evictMeta" /\ 0 \in Shas
    BY CapAssumption, IdleIsWorker DEF IInv, TypeOK, EvictMeta, At
  <1> DEFINE r == [worker[m] EXCEPT !.orphans = {},
                      !.phase = IF worker[m].victims = {} THEN "idle" ELSE "evict"]
  <1>1. /\ r \in Worker /\ r.victims = worker[m].victims
        /\ r.victims # {} => r.phase = "evict"
    BY <1>0 DEF Worker, Phases
  <1>2. worker' = [worker EXCEPT ![m] = r]
    BY <1>0 DEF EvictMeta, TypeOK
  <1> HIDE DEF r
  <1>3. /\ worker' \in [MRs -> Worker] /\ Doomed' = Doomed
        /\ \A x \in MRs : worker'[x] = IF x = m THEN r ELSE worker[x]
    BY <1>0, <1>1, <1>2, WorkerStep
  <1>4. UNCHANGED <<git, strayed, ended, archive, unevicted>> /\ meta' \in [MRs -> Shas]
    BY <1>0 DEF EvictMeta, TypeOK
  <1>5. TypeOK'
    BY <1>0, <1>3, <1>4 DEF TypeOK, git
  <1>6. VictimsAreEvicted'
    BY <1>0, <1>1, <1>3 DEF VictimsAreEvicted
  <1>7. RestFits'
    <2>1. Archived' = Archived
      BY <1>4 DEF Archived
    <2> QED BY <2>1, <1>0, <1>3, <1>4, RestStays
  <1> QED BY <1>5, <1>6, <1>7 DEF IInv

LEMMA StepKeeps ==
  ASSUME IInv, [Next]_vars
  PROVE  IInv'
  <1>1. CASE UNCHANGED vars
    <2>1. UNCHANGED <<head, ended, archive, meta, branch, scene, worker, fork, strayed, unevicted>>
      BY <1>1 DEF vars, files, git
    <2> QED BY <2>1 DEF IInv, TypeOK, VictimsAreEvicted, RestFits, Doomed, Archived
  <1>2. CASE Next
    <2>1. PICK m \in MRs : \/ Push(m) \/ End(m) \/ EndMeta(m)
                           \/ Start(m) \/ Resume(m) \/ Steps(m) \/ Kill(m)
      BY <1>2 DEF Next
    <2>2. CASE Kill(m)
      <3>1. strayed' \subseteq MRs
        BY <2>2 DEF Kill, Note, IInv, TypeOK
      <3> QED BY <2>2, <3>1, GivingUpKeeps DEF Kill
    <2>3. CASE Steps(m)
      BY <2>3, ReadingKeeps, ReplayKeeps, WorkKeeps, SaveKeeps, WriteMetaKeeps, ListKeeps,
         EvictKeeps, EvictMetaKeeps DEF Steps
    <2> QED BY <2>1, <2>2, <2>3, OutsideKeeps, ReadingKeeps
  <1> QED BY <1>1, <1>2

-----------------------------------------------------------------------------
(* The types and the cap.                                                  *)

LEMMA Invariant == Spec => []IInv
  BY InitEstablishes, StepKeeps, PTL DEF Spec

\* The types of the files, of the branches and of what every worker holds.
THEOREM TypeCorrect == Spec => []TypeOK
  <1>1. IInv => TypeOK
    BY DEF IInv
  <1> QED BY <1>1, Invariant, PTL

\* Workers of different merge requests list and remove in any order, and the
\* main process removes at any time: once all are done, and no save was cut
\* short since the last listing, the directory is within the cap.
THEOREM CapTheorem == Spec => []CapHolds
  <1>1. IInv => CapHolds
    <2> SUFFICES ASSUME IInv, \A m \in MRs : worker[m].phase \notin Saving, ~unevicted
                 PROVE  Cardinality(Archived) <= Cap
      BY DEF CapHolds
    <2>1. \A m \in MRs : worker[m].victims = {}
      BY DEF IInv, VictimsAreEvicted, Saving
    <2>2. Archived \ Doomed = Archived
      BY <2>1 DEF Doomed
    <2> QED BY <2>2 DEF IInv, RestFits, Saving
  <1> QED BY <1>1, Invariant, PTL

-----------------------------------------------------------------------------
(* What the replay rests on: as long as the archive has not passed the      *)
(* branch, a pushed branch holds the commits it was made from, and so does  *)
(* everything a worker or a scene keeps; the base is none of the newer ones.*)

\* The commit git diffs the branch from.
BaseOf(m) == IF worker[m].base = 0 THEN worker[m].commit ELSE worker[m].base

TreesAreWhole(m) ==
    /\ Tree(scene[m].commit) \subseteq scene[m].tree
    /\ worker[m].tree # {} => Tree(worker[m].commit) \subseteq worker[m].tree
    /\ branch[m] # {} => Tree(fork[m]) \subseteq branch[m]

PushedIsSaved(m) ==
    worker[m].pushed =>
        worker[m].phase \in {"save", "writeMeta"} /\ worker[m].commit = fork[m]

MetaIsBehind(m) ==
    branch[m] # {} /\ ~worker[m].pushed => meta[m] <= fork[m]

BaseIsBehind(m) ==
    worker[m].phase \in {"copy", "replay"} /\ worker[m].stored /\ branch[m] # {} =>
        BaseOf(m) <= fork[m]

Behind(m) == /\ TreesAreWhole(m) /\ PushedIsSaved(m) /\ MetaIsBehind(m) /\ BaseIsBehind(m)

Unstrayed == \A m \in MRs \ strayed : Behind(m)

\* A replay from a base that is not newer than the branch's commit.
LEMMA ReplayFromBehind ==
  ASSUME TypeOK, NEW m \in MRs, Behind(m), At(m, "replay"), Replayable(m)
  PROVE  Tree(worker[m].commit) \subseteq Replayed(m)
  <1>1. BaseOf(m) <= fork[m] /\ Tree(fork[m]) \subseteq branch[m]
    BY DEF Behind, BaseIsBehind, TreesAreWhole, At, Replayable
  <1>2. fork[m] \in Nat /\ BaseOf(m) \in Nat
    BY TreeIsTree DEF TypeOK, Worker, BaseOf
  <1>3. BaseTree(m) = Tree(BaseOf(m))
    BY DEF BaseTree, BaseOf
  <1>4. Tree(BaseOf(m)) \subseteq Tree(fork[m])
    BY <1>1, <1>2 DEF Tree
  <1>5. Removes(m) = {}
    BY <1>1, <1>3, <1>4 DEF Removes
  <1> QED BY <1>5 DEF Replayed

\* The numbers that are compared, and a worker whose step leaves its own files.
LEMMA Numbers ==
  ASSUME TypeOK, NEW m \in MRs
  PROVE  /\ worker[m] \in Worker /\ worker[m].commit \in Nat /\ worker[m].base \in Nat
         /\ meta[m] \in Nat /\ fork[m] \in Nat /\ 0 \in Nat
         /\ worker[m].pushed \in BOOLEAN /\ worker[m].stored \in BOOLEAN
  <1>1. worker[m] \in Worker /\ meta[m] \in Shas /\ fork[m] \in Shas
    BY DEF TypeOK
  <1>2. worker[m].commit \in Shas /\ worker[m].base \in Shas
    BY <1>1 DEF Worker
  <1> QED BY <1>1, <1>2, TreeIsTree DEF Worker

\* A worker's step concerns its own merge request; the removal of a meta file
\* concerns others, and puts their archives behind everything.
LEMMA OthersStay ==
  ASSUME TypeOK, Unstrayed, NEW m \in MRs, NEW x \in MRs \ strayed', x # m,
         strayed \subseteq strayed',
         branch'[x] = branch[x], fork'[x] = fork[x], scene'[x] = scene[x],
         worker'[x] = worker[x], meta'[x] = meta[x] \/ meta'[x] = 0
  PROVE  Behind(x)'
  <1>1. Behind(x) /\ x \in MRs
    BY DEF Unstrayed
  <1>2. fork[x] \in Nat
    BY Numbers
  <1>3. TreesAreWhole(x)' /\ PushedIsSaved(x)' /\ BaseIsBehind(x)'
    BY <1>1 DEF Behind, TreesAreWhole, PushedIsSaved, BaseIsBehind, BaseOf
  <1>4. MetaIsBehind(x)'
    BY <1>1, <1>2 DEF Behind, MetaIsBehind
  <1> QED BY <1>3, <1>4 DEF Behind

\* The developers, and the end of a merge request.
LEMMA OutsideStaysBehind ==
  ASSUME TypeOK, Unstrayed, NEW m \in MRs, Push(m) \/ End(m) \/ EndMeta(m)
  PROVE  Unstrayed'
  <1>1. UNCHANGED <<worker, branch, scene, fork, strayed>>
    BY DEF Push, End, EndMeta, git
  <1>2. \A x \in MRs : meta'[x] = meta[x] \/ meta'[x] = 0
    BY DEF Push, End, EndMeta, files, TypeOK
  <1>3. ASSUME NEW x \in MRs \ strayed
        PROVE  Behind(x)'
    <2>1. Behind(x) /\ fork[x] \in Nat
      BY Numbers DEF Unstrayed
    <2>2. TreesAreWhole(x)' /\ PushedIsSaved(x)' /\ BaseIsBehind(x)'
      BY <1>1, <2>1 DEF Behind, TreesAreWhole, PushedIsSaved, BaseIsBehind, BaseOf
    <2>3. MetaIsBehind(x)'
      BY <1>1, <1>2, <2>1 DEF Behind, MetaIsBehind
    <2> QED BY <2>2, <2>3 DEF Behind
  <1> QED BY <1>1, <1>3 DEF Unstrayed

\* So only what the step makes of the worker's own merge request matters.
LEMMA OwnStep ==
  ASSUME TypeOK, Unstrayed, NEW m \in MRs, NEW r, worker' = [worker EXCEPT ![m] = r],
         strayed \subseteq strayed',
         \A x \in MRs \ {m} : /\ branch'[x] = branch[x] /\ fork'[x] = fork[x]
                              /\ scene'[x] = scene[x]
                              /\ meta'[x] = meta[x] \/ meta'[x] = 0,
         m \notin strayed' => Behind(m)'
  PROVE  Unstrayed'
  <1>1. ASSUME NEW x \in MRs \ strayed', x # m
        PROVE  Behind(x)'
    <2>1. worker'[x] = worker[x]
      BY <1>1 DEF TypeOK
    <2> QED BY <1>1, <2>1, OthersStay
  <1>2. ASSUME NEW x \in MRs \ strayed'
        PROVE  Behind(x)'
    <2>1. CASE x = m
      BY <2>1
    <2>2. CASE x # m
      BY <2>2, <1>1
    <2> QED BY <2>1, <2>2
  <1> QED BY <1>2 DEF Unstrayed

\* A worker in its new state r that has not pushed: what its own files need.
LEMMA OwnFilesBehind ==
  ASSUME TypeOK, NEW m \in MRs, NEW r, worker' = [worker EXCEPT ![m] = r],
         UNCHANGED <<branch, fork>>,
         TreesAreWhole(m), ~r.pushed,
         scene'[m] = scene[m] \/ scene'[m] = NoScene,
         r.tree # {} => Tree(r.commit) \subseteq r.tree,
         branch[m] # {} => meta'[m] <= fork[m],
         r.phase \in {"copy", "replay"} /\ r.stored /\ branch[m] # {} =>
             (IF r.base = 0 THEN r.commit ELSE r.base) <= fork[m]
  PROVE  Behind(m)'
  <1>1. worker'[m] = r
    BY DEF TypeOK
  <1>2. Tree(scene[m].commit)' \subseteq scene[m].tree'
    BY DEF TreesAreWhole, NoScene, Tree
  <1>3. TreesAreWhole(m)'
    BY <1>1, <1>2 DEF TreesAreWhole
  <1>4. PushedIsSaved(m)' /\ MetaIsBehind(m)'
    BY <1>1 DEF PushedIsSaved, MetaIsBehind
  <1>5. BaseIsBehind(m)'
    BY <1>1 DEF BaseIsBehind, BaseOf
  <1> QED BY <1>3, <1>4, <1>5 DEF Behind

\* The parts of Behind, for a worker of which the phase is known.
LEMMA NowBehind ==
  ASSUME Unstrayed, NEW m \in MRs, m \notin strayed
  PROVE  /\ TreesAreWhole(m) /\ PushedIsSaved(m) /\ MetaIsBehind(m) /\ BaseIsBehind(m)
         /\ worker[m].phase \notin {"save", "writeMeta"} =>
                ~worker[m].pushed /\ (branch[m] # {} => meta[m] <= fork[m])
  BY DEF Unstrayed, Behind, PushedIsSaved, MetaIsBehind

LEMMA StartStaysBehind ==
  ASSUME TypeOK, Unstrayed, NEW m \in MRs, Start(m) \/ Resume(m)
  PROVE  Unstrayed'
  <1>1. PICK r : /\ worker' = [worker EXCEPT ![m] = r]
                 /\ ~r.pushed /\ r.phase \in {"find", "resume"}
                 /\ r.tree # {} => r.commit = scene[m].commit /\ r.tree = scene[m].tree
    <2>1. CASE Start(m)
      <3>1. PICK c \in 1 .. head[m] :
              worker' = [worker EXCEPT ![m] = [Idle EXCEPT !.phase = "find", !.commit = c]]
        BY <2>1 DEF Start
      <3> DEFINE r == [Idle EXCEPT !.phase = "find", !.commit = c]
      <3>2. ~r.pushed /\ r.phase = "find" /\ r.tree = {}
        BY DEF Idle
      <3>3. worker' = [worker EXCEPT ![m] = r]
        BY <3>1
      <3> HIDE DEF r
      <3> QED BY <3>2, <3>3
    <2>2. CASE Resume(m)
      <3> DEFINE r == [Idle EXCEPT !.phase = "resume", !.commit = scene[m].commit,
                                   !.session = TRUE, !.tree = scene[m].tree]
      <3>1. /\ ~r.pushed /\ r.phase = "resume"
            /\ r.commit = scene[m].commit /\ r.tree = scene[m].tree
        BY DEF Idle
      <3>2. worker' = [worker EXCEPT ![m] = r]
        BY <2>2 DEF Resume
      <3> HIDE DEF r
      <3> QED BY <3>1, <3>2
    <2> QED BY <2>1, <2>2
  <1>2. UNCHANGED <<branch, fork, meta, strayed>> /\ scene' = [scene EXCEPT ![m] = NoScene]
        /\ worker[m].phase = "idle"
    BY DEF Start, Resume, files, At
  <1>3. scene'[m] = NoScene /\ \A x \in MRs \ {m} : scene'[x] = scene[x]
    BY <1>2 DEF TypeOK
  <1>4. ASSUME m \notin strayed
        PROVE  Behind(m)'
    <2>1. TreesAreWhole(m) /\ (branch[m] # {} => meta'[m] <= fork[m])
      BY <1>2, <1>4, NowBehind
    <2>2. r.tree # {} => Tree(r.commit) \subseteq r.tree
      BY <1>1, <2>1 DEF TreesAreWhole
    <2>3. r.phase \notin {"copy", "replay"}
      BY <1>1
    <2> QED BY <1>1, <1>2, <1>3, <2>1, <2>2, <2>3, OwnFilesBehind
  <1> QED BY <1>1, <1>2, <1>3, <1>4, OwnStep

LEMMA ReadingStaysBehind ==
  ASSUME TypeOK, Unstrayed, NEW m \in MRs, Find(m) \/ ReadMeta(m) \/ Copy(m)
  PROVE  Unstrayed'
  <1>0. worker[m] \in Worker /\ worker \in [MRs -> Worker]
    BY DEF TypeOK
  <1>1. PICK r : /\ worker' = [worker EXCEPT ![m] = r]
                 /\ r.pushed = worker[m].pushed /\ r.tree = worker[m].tree
                 /\ r.commit = worker[m].commit
                 /\ r.phase \in {"copy", "replay"} /\ r.stored =>
                        \/ ReadMeta(m) /\ r.base = meta[m] /\ strayed' =
                                 IF StraysWithoutMeta(m) THEN strayed \cup {m} ELSE strayed
                        \/ /\ Copy(m) /\ r.base = worker[m].base
                           /\ worker[m].stored /\ worker[m].phase = "copy"
    <2>1. CASE Find(m)
      <3>1. PICK p \in {"readMeta", "work"} :
              worker' = [worker EXCEPT ![m] = [worker[m] EXCEPT !.phase = p]]
        BY <2>1, <1>0 DEF Find, Goes
      <3> DEFINE r == [worker[m] EXCEPT !.phase = p]
      <3>2. /\ r.pushed = worker[m].pushed /\ r.tree = worker[m].tree
            /\ r.commit = worker[m].commit /\ r.phase \in {"readMeta", "work"}
        BY <1>0 DEF Worker
      <3>3. worker' = [worker EXCEPT ![m] = r]
        BY <3>1
      <3> HIDE DEF r
      <3> QED BY <3>2, <3>3
    <2>2. CASE ReadMeta(m)
      <3>1. CASE /\ worker' = [worker EXCEPT ![m].phase = "copy", ![m].stored = TRUE,
                                             ![m].base = meta[m]]
                 /\ Note(m, StraysWithoutMeta(m))
        <4>1. worker' = [worker EXCEPT ![m] = [worker[m] EXCEPT !.phase = "copy",
                            !.stored = TRUE, !.base = meta[m]]]
          BY <3>1, <1>0
        <4> DEFINE r == [worker[m] EXCEPT !.phase = "copy", !.stored = TRUE, !.base = meta[m]]
        <4>2. /\ r.pushed = worker[m].pushed /\ r.tree = worker[m].tree
              /\ r.commit = worker[m].commit /\ r.base = meta[m]
          BY <1>0 DEF Worker
        <4>3. worker' = [worker EXCEPT ![m] = r]
          BY <4>1
        <4> HIDE DEF r
        <4> QED BY <4>2, <4>3, <3>1, <2>2 DEF Note
      <3>2. CASE Goes(m, "work")
        <4>1. worker' = [worker EXCEPT ![m] = [worker[m] EXCEPT !.phase = "work"]]
          BY <3>2, <1>0 DEF Goes
        <4> DEFINE r == [worker[m] EXCEPT !.phase = "work"]
        <4>2. /\ r.pushed = worker[m].pushed /\ r.tree = worker[m].tree
              /\ r.commit = worker[m].commit /\ r.phase = "work"
          BY <1>0 DEF Worker
        <4>3. worker' = [worker EXCEPT ![m] = r]
          BY <4>1
        <4> HIDE DEF r
        <4> QED BY <4>2, <4>3
      <3> QED BY <3>1, <3>2, <2>2 DEF ReadMeta
    <2>3. CASE Copy(m)
      <3>1. PICK session : worker' = [worker EXCEPT ![m] =
                               [worker[m] EXCEPT !.phase = "replay", !.session = session]]
        <4>1. CASE worker' = [worker EXCEPT ![m].phase = "replay", ![m].session = TRUE]
          BY <4>1, <1>0
        <4>2. CASE Goes(m, "replay")
          <5>1. worker' = [worker EXCEPT ![m] = [worker[m] EXCEPT !.phase = "replay",
                              !.session = worker[m].session]]
            BY <4>2, <1>0 DEF Goes, Worker
          <5> QED BY <5>1
        <4> QED BY <4>1, <4>2, <2>3 DEF Copy
      <3>2. worker[m].phase = "copy"
        BY <2>3 DEF Copy, At
      <3> DEFINE r == [worker[m] EXCEPT !.phase = "replay", !.session = session]
      <3>3. /\ r.pushed = worker[m].pushed /\ r.tree = worker[m].tree
            /\ r.commit = worker[m].commit /\ r.base = worker[m].base
            /\ r.stored = worker[m].stored
        BY <1>0 DEF Worker
      <3>4. worker' = [worker EXCEPT ![m] = r]
        BY <3>1
      <3> HIDE DEF r
      <3> QED BY <3>2, <3>3, <3>4, <2>3
    <2> QED BY <2>1, <2>2, <2>3
  <1>2. /\ UNCHANGED <<branch, fork, scene, meta>> /\ strayed \subseteq strayed'
        /\ worker[m].phase \in {"find", "readMeta", "copy"}
    BY DEF Find, ReadMeta, Copy, Note, files, git, At
  <1>3. ASSUME m \notin strayed'
        PROVE  Behind(m)'
    <2>1. /\ m \notin strayed /\ TreesAreWhole(m) /\ BaseIsBehind(m)
          /\ ~worker[m].pushed /\ (branch[m] # {} => meta[m] <= fork[m])
      BY <1>2, <1>3, NowBehind
    <2>2. ASSUME r.phase \in {"copy", "replay"}, r.stored, branch[m] # {}
          PROVE  (IF r.base = 0 THEN r.commit ELSE r.base) <= fork[m]
      <3>1. CASE ReadMeta(m) /\ r.base = meta[m] /\ ~StraysWithoutMeta(m)
        BY <3>1, <2>1, <2>2, <1>1, Numbers DEF StraysWithoutMeta
      <3>2. CASE r.base = worker[m].base /\ worker[m].stored /\ worker[m].phase = "copy"
        BY <3>2, <2>1, <2>2, <1>1 DEF BaseIsBehind, BaseOf
      <3> QED BY <3>1, <3>2, <2>2, <1>1, <1>3
    <2> QED BY <1>1, <1>2, <2>1, <2>2, OwnFilesBehind DEF TreesAreWhole
  <1> QED BY <1>1, <1>2, <1>3, OwnStep

\* What is replayed is whole, and so is what is given up.
LEMMA ReplayStaysBehind ==
  ASSUME TypeOK, Unstrayed, NEW m \in MRs, Replay(m)
  PROVE  Unstrayed'
  <1>1. PICK tree \in {Tree(worker[m].commit)}
                         \cup (IF Replayable(m) THEN {Replayed(m)} ELSE {}) :
          worker' = [worker EXCEPT ![m] =
                        [Idle EXCEPT !.phase = "work", !.commit = worker[m].commit,
                                     !.session = worker[m].session, !.tree = tree]]
    BY DEF Replay
  <1> DEFINE r == [Idle EXCEPT !.phase = "work", !.commit = worker[m].commit,
                               !.session = worker[m].session, !.tree = tree]
  <1>2. /\ r.phase = "work" /\ ~r.pushed /\ r.tree = tree /\ r.commit = worker[m].commit
        /\ worker' = [worker EXCEPT ![m] = r]
    BY <1>1 DEF Idle
  <1> HIDE DEF r
  <1>3. UNCHANGED <<branch, fork, scene, meta, strayed>> /\ At(m, "replay")
    BY DEF Replay, files, git
  <1>4. ASSUME m \notin strayed
        PROVE  Behind(m)'
    <2>1. TreesAreWhole(m) /\ (branch[m] # {} => meta[m] <= fork[m]) /\ Behind(m)
      BY <1>3, <1>4, NowBehind DEF At, Unstrayed
    <2>2. Tree(worker[m].commit) \subseteq tree
      BY <1>1, <1>3, <2>1, ReplayFromBehind
    <2>3. r.phase \notin {"copy", "replay"}
      BY <1>2
    <2> QED BY <1>2, <1>3, <2>1, <2>2, <2>3, OwnFilesBehind
  <1> QED BY <1>2, <1>3, <1>4, OwnStep

\* A repair starts from a whole tree, so that what it pushes or leaves is whole.
LEMMA WorkStaysBehind ==
  ASSUME TypeOK, Unstrayed, NEW m \in MRs, Work(m)
  PROVE  Unstrayed'
  <1>0. PICK pushes \in BOOLEAN, opened \in BOOLEAN, retained \in BOOLEAN :
          WorkOf(m, pushes, opened, retained)
    BY WorkIsOneOf
  <1> DEFINE r == IF opened \/ worker[m].session
                  THEN [Idle EXCEPT !.phase = "save", !.commit = worker[m].commit,
                                    !.pushed = pushes]
                  ELSE Idle
             tree == StartTree(m)
  <1>1. worker' = [worker EXCEPT ![m] = r]
    BY <1>0 DEF WorkOf
  <1>2. /\ r.tree = {} /\ r.phase \in {"save", "idle"}
        /\ r.pushed => r.phase = "save" /\ r.commit = worker[m].commit
        /\ r.pushed = pushes
    BY <1>0 DEF WorkOf, Idle
  <1> HIDE DEF r, tree
  <1>3. /\ UNCHANGED <<meta, strayed>> /\ worker[m].phase \in {"work", "resume"}
        /\ branch' = IF pushes THEN [branch EXCEPT ![m] = tree \cup {Fix}] ELSE branch
        /\ fork' = IF pushes THEN [fork EXCEPT ![m] = worker[m].commit] ELSE fork
        /\ scene' = IF retained
                    THEN [scene EXCEPT ![m] = [commit |-> worker[m].commit, tree |-> tree]]
                    ELSE scene
    BY <1>0 DEF WorkOf, files, tree
  <1>4. /\ \A x \in MRs \ {m} : branch'[x] = branch[x] /\ fork'[x] = fork[x]
                                /\ scene'[x] = scene[x] /\ meta'[x] = meta[x]
        /\ worker'[m] = r
        /\ pushes => branch'[m] = tree \cup {Fix} /\ fork'[m] = worker[m].commit
        /\ retained => scene'[m] = [commit |-> worker[m].commit, tree |-> tree]
    BY <1>1, <1>3 DEF TypeOK
  <1>5. ASSUME m \notin strayed
        PROVE  Behind(m)'
    <2>1. TreesAreWhole(m) /\ (branch[m] # {} => meta[m] <= fork[m])
      BY <1>3, <1>5, NowBehind
    <2>2. Tree(worker[m].commit) \subseteq tree
      BY <2>1 DEF TreesAreWhole, StartTree, tree
    <2>3. Tree(scene[m].commit)' \subseteq scene[m].tree'
      BY <1>3, <1>4, <2>1, <2>2 DEF TreesAreWhole
    <2>4. branch[m]' # {} => Tree(fork[m])' \subseteq branch[m]'
      <3>1. CASE pushes
        BY <3>1, <1>4, <2>2
      <3>2. CASE ~pushes
        BY <3>2, <1>3, <2>1 DEF TreesAreWhole
      <3> QED BY <3>1, <3>2
    <2>5. TreesAreWhole(m)'
      BY <1>2, <1>4, <2>3, <2>4 DEF TreesAreWhole
    <2>6. PushedIsSaved(m)'
      BY <1>2, <1>4 DEF PushedIsSaved
    <2>7. MetaIsBehind(m)'
      BY <1>2, <1>3, <1>4, <2>1 DEF MetaIsBehind
    <2>8. BaseIsBehind(m)'
      BY <1>2, <1>4 DEF BaseIsBehind
    <2> QED BY <2>5, <2>6, <2>7, <2>8 DEF Behind
  <1> QED BY <1>1, <1>3, <1>4, <1>5, OwnStep

\* The archive is not renewed: it has passed the branch now, or it has not.
LEMMA UnsavedStaysBehind ==
  ASSUME TypeOK, Unstrayed, NEW m \in MRs, Ends(m), Note(m, StraysByNotSaving(m)),
         UNCHANGED <<branch, fork, scene, meta>>
  PROVE  Unstrayed'
  <1>1. worker' = [worker EXCEPT ![m] = Idle] /\ strayed \subseteq strayed'
    BY DEF Ends, Note
  <1>2. ~Idle.pushed /\ Idle.tree = {} /\ Idle.phase = "idle"
    BY DEF Idle
  <1>3. ASSUME m \notin strayed'
        PROVE  Behind(m)'
    <2>1. /\ m \notin strayed /\ ~StraysByNotSaving(m)
          /\ TreesAreWhole(m) /\ PushedIsSaved(m) /\ MetaIsBehind(m)
      BY <1>3, NowBehind DEF Note
    <2>2. branch[m] # {} => meta[m] <= fork[m]
      BY <2>1, Numbers DEF StraysByNotSaving, PushedIsSaved, MetaIsBehind
    <2> QED BY <1>1, <1>2, <2>1, <2>2, OwnFilesBehind
  <1> QED BY <1>1, <1>3, OwnStep

LEMMA SaveStaysBehind ==
  ASSUME TypeOK, Unstrayed, NEW m \in MRs, Save(m)
  PROVE  Unstrayed'
  <1>0. worker[m] \in Worker /\ worker[m].phase = "save"
    BY DEF TypeOK, Save, At
  <1>1. UNCHANGED <<branch, fork, scene, meta>>
    BY DEF Save, git
  <1>2. CASE Goes(m, "writeMeta") /\ UNCHANGED strayed
    <2> DEFINE r == [worker[m] EXCEPT !.phase = "writeMeta"]
    <2>1. worker' = [worker EXCEPT ![m] = r]
      BY <1>0, <1>2 DEF Goes, TypeOK
    <2>2. /\ r.phase = "writeMeta" /\ r.pushed = worker[m].pushed
          /\ r.tree = worker[m].tree /\ r.commit = worker[m].commit
      BY <1>0 DEF Worker
    <2> HIDE DEF r
    <2>3. worker'[m] = r
      BY <2>1 DEF TypeOK
    <2>4. m \notin strayed => Behind(m)'
      BY <1>1, <2>2, <2>3, NowBehind
      DEF Behind, TreesAreWhole, PushedIsSaved, MetaIsBehind, BaseIsBehind
    <2> QED BY <1>1, <1>2, <2>1, <2>4, OwnStep
  <1>3. CASE Ends(m) /\ Note(m, StraysByNotSaving(m))
    BY <1>1, <1>3, UnsavedStaysBehind
  <1> QED BY <1>2, <1>3 DEF Save

\* The meta file: of a run that pushed it names the branch's commit, of another
\* one no newer commit, or the archive has passed the branch.
LEMMA WriteMetaStaysBehind ==
  ASSUME TypeOK, Unstrayed, NEW m \in MRs, WriteMeta(m)
  PROVE  Unstrayed'
  <1>1. UNCHANGED <<branch, fork, scene>>
    BY DEF WriteMeta, git
  <1>2. CASE /\ meta' = [meta EXCEPT ![m] = MetaSha(m)]
             /\ worker' = [worker EXCEPT ![m] = [Idle EXCEPT !.phase = "list"]]
             /\ Note(m, StraysBySaving(m))
    <2> DEFINE r == [Idle EXCEPT !.phase = "list"]
    <2>1. /\ worker' = [worker EXCEPT ![m] = r] /\ strayed \subseteq strayed'
          /\ r.phase = "list" /\ ~r.pushed /\ r.tree = {}
      BY <1>2 DEF Idle, Note
    <2> HIDE DEF r
    <2>2. meta'[m] = worker[m].commit /\ \A x \in MRs \ {m} : meta'[x] = meta[x]
      BY <1>2 DEF TypeOK, MetaSha
    <2>3. ASSUME m \notin strayed'
          PROVE  Behind(m)'
      <3>1. /\ m \notin strayed /\ ~StraysBySaving(m)
            /\ TreesAreWhole(m) /\ PushedIsSaved(m)
        BY <1>2, <2>3, NowBehind DEF Note
      <3>2. branch[m] # {} => meta'[m] <= fork[m]
        BY <2>2, <3>1, Numbers DEF StraysBySaving, PushedIsSaved
      <3> QED BY <1>1, <2>1, <3>1, <3>2, OwnFilesBehind
    <2> QED BY <1>1, <2>1, <2>2, <2>3, OwnStep
  <1>3. CASE Ends(m) /\ Note(m, StraysByNotSaving(m)) /\ UNCHANGED meta
    BY <1>1, <1>3, UnsavedStaysBehind
  <1> QED BY <1>2, <1>3 DEF WriteMeta

\* The listing and the removals, which take meta files away.
LEMMA EvictingStaysBehind ==
  ASSUME TypeOK, Unstrayed, NEW m \in MRs, List(m) \/ Evict(m) \/ EvictMeta(m)
  PROVE  Unstrayed'
  <1>0. worker[m] \in Worker /\ worker[m].phase \in {"list", "evict", "evictMeta"}
    BY DEF TypeOK, List, Evict, EvictMeta, At
  <1>1. PICK r : /\ worker' = [worker EXCEPT ![m] = r]
                 /\ r.phase \in {"idle", "evict", "evictMeta"}
                 /\ r.pushed => worker[m].pushed
                 /\ r.tree # {} => r.tree = worker[m].tree /\ r.commit = worker[m].commit
    <2>1. CASE Ends(m)
      <3>1. /\ Idle.phase = "idle" /\ ~Idle.pushed /\ Idle.tree = {}
            /\ worker' = [worker EXCEPT ![m] = Idle]
        BY <2>1 DEF Ends, Idle
      <3> QED BY <3>1
    <2>2. CASE List(m) /\ ~Ends(m)
      <3> DEFINE r == [worker[m] EXCEPT !.victims = Victims,
                          !.phase = IF Victims = {} THEN "idle" ELSE "evict"]
      <3>1. /\ r.phase \in {"idle", "evict"} /\ r.pushed = worker[m].pushed
            /\ r.tree = worker[m].tree /\ r.commit = worker[m].commit
        BY <1>0 DEF Worker
      <3>2. worker' = [worker EXCEPT ![m] = r]
        BY <2>2, <1>0 DEF List, TypeOK
      <3> HIDE DEF r
      <3> QED BY <3>1, <3>2
    <2>3. CASE Evict(m)
      <3>1. PICK v : worker' = [worker EXCEPT ![m].phase = "evictMeta",
                                     ![m].victims = @ \ {v}, ![m].orphans = {v}]
        BY <2>3 DEF Evict
      <3> DEFINE r == [worker[m] EXCEPT !.phase = "evictMeta", !.victims = @ \ {v},
                                        !.orphans = {v}]
      <3>2. /\ r.phase = "evictMeta" /\ r.pushed = worker[m].pushed
            /\ r.tree = worker[m].tree /\ r.commit = worker[m].commit
        BY <1>0 DEF Worker
      <3>3. worker' = [worker EXCEPT ![m] = r]
        BY <3>1, <1>0 DEF TypeOK
      <3> HIDE DEF r
      <3> QED BY <3>2, <3>3
    <2>4. CASE EvictMeta(m)
      <3> DEFINE r == [worker[m] EXCEPT !.orphans = {},
                          !.phase = IF worker[m].victims = {} THEN "idle" ELSE "evict"]
      <3>1. /\ r.phase \in {"idle", "evict"} /\ r.pushed = worker[m].pushed
            /\ r.tree = worker[m].tree /\ r.commit = worker[m].commit
        BY <1>0 DEF Worker
      <3>2. worker' = [worker EXCEPT ![m] = r]
        BY <2>4, <1>0 DEF EvictMeta, TypeOK
      <3> HIDE DEF r
      <3> QED BY <3>1, <3>2
    <2> QED BY <2>1, <2>2, <2>3, <2>4
  <1>2. UNCHANGED <<branch, fork, scene, strayed>>
    BY DEF List, Evict, EvictMeta, git
  <1>3. \A x \in MRs : meta'[x] = meta[x] \/ meta'[x] = 0
    BY DEF List, Evict, EvictMeta, files, TypeOK
  <1>4. ASSUME m \notin strayed
        PROVE  Behind(m)'
    <2>1. /\ TreesAreWhole(m) /\ ~worker[m].pushed
          /\ branch[m] # {} => meta[m] <= fork[m]
      BY <1>0, <1>4, NowBehind
    <2>2. branch[m] # {} => meta'[m] <= fork[m]
      BY <1>3, <2>1, Numbers
    <2>3. ~r.pushed /\ (r.tree # {} => Tree(r.commit) \subseteq r.tree)
      BY <1>1, <2>1 DEF TreesAreWhole, Idle
    <2>4. r.phase \notin {"copy", "replay"}
      BY <1>1
    <2> QED BY <1>1, <1>2, <2>1, <2>2, <2>3, <2>4, OwnFilesBehind
  <1> QED BY <1>1, <1>2, <1>3, <1>4, OwnStep

LEMMA StepStaysBehind ==
  ASSUME TypeOK, Unstrayed, [Next]_vars
  PROVE  Unstrayed'
  <1>1. CASE UNCHANGED vars
    <2>1. UNCHANGED <<meta, branch, scene, worker, fork, strayed>>
      BY <1>1 DEF vars, files, git
    <2> QED BY <2>1 DEF Unstrayed, Behind, TreesAreWhole, PushedIsSaved, MetaIsBehind,
                        BaseIsBehind, BaseOf
  <1>2. CASE Next
    <2>1. PICK m \in MRs : \/ Push(m) \/ End(m) \/ EndMeta(m)
                           \/ Start(m) \/ Resume(m) \/ Steps(m) \/ Kill(m)
      BY <1>2 DEF Next
    <2>2. CASE Kill(m)
      BY <2>2, UnsavedStaysBehind DEF Kill, git, files
    <2>3. CASE Steps(m)
      BY <2>3, ReadingStaysBehind, ReplayStaysBehind, WorkStaysBehind, SaveStaysBehind,
         WriteMetaStaysBehind, EvictingStaysBehind DEF Steps
    <2> QED BY <2>1, <2>2, <2>3, OutsideStaysBehind, StartStaysBehind
  <1> QED BY <1>1, <1>2

\* However the runs and resumes of a merge request follow each other, and
\* whatever is evicted, removed or fails meanwhile: as long as the archive has
\* not passed the branch, no replay takes a commit of the developers back.
THEOREM ReplaysKeepCommits == Spec => []ReplayKeepsUnlessStrayed
  <1>1. Init => Unstrayed
    BY IdleIsWorker DEF Init, Unstrayed, Behind, TreesAreWhole, PushedIsSaved, MetaIsBehind,
                        BaseIsBehind, Idle, NoScene, Tree
  <1>2. TypeOK /\ Unstrayed => ReplayKeepsUnlessStrayed
    BY ReplayFromBehind DEF Unstrayed, ReplayKeepsUnlessStrayed
  <1>3. Spec => []Unstrayed
    BY <1>1, StepStaysBehind, TypeCorrect, PTL DEF Spec
  <1> QED BY <1>2, <1>3, TypeCorrect, PTL

=============================================================================
