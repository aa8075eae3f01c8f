------------------------------- MODULE Gates -------------------------------
(***************************************************************************)
(* The scope gates of a repair: how pipeline/run-repair.ts reads the diff   *)
(* of the merge request and the agent's patch, and what it then admits;     *)
(* with the violations agent/ci-repair-definition.ts marks as repairable    *)
(* from the same reading.                                                   *)
(*                                                                          *)
(* A diff is written line by line by glab or git (external) and every line  *)
(* goes to the three readers at once: parseDiffFiles, parseDiffHunkRanges   *)
(* and buildDiffIndex.  What really changed is kept beside their state, in  *)
(* mr and patch.  First the diff of the merge request is read, then that of *)
(* the patch, then the gates decide.                                        *)
(*                                                                          *)
(* A path is the sequence of its segments, so that a prefix of it, a suffix *)
(* and a directory in its middle are what they are in the code's regular    *)
(* expressions.  Context lines are left out: no reader looks at them.  A    *)
(* changed line whose text starts with "-- " or "++ " cannot be told from a *)
(* file header by the readers; Text holds what such lines go on with.       *)
(***************************************************************************)
EXTENDS Integers, Sequences, SequencesExt, FiniteSets

CONSTANTS
    Segments,      \* the names that files and directories may have
    MrChanges,     \* the file changes a merge request may make
    PatchChanges,  \* those the agent may make
    MaxFiles,      \* bound: files in one diff
    Violations,    \* places checkstyle may report: [path, line]
    Text,          \* texts of changed lines that look like headers, as paths
    Tolerance      \* HUNK_SCOPE_TOLERANCE

\* /dev/null and a null path, neither of them a path of a repository.
NoName  == ""
DevNull == <<NoName, "dev", "null">>
NoPath  == << >>
Paths   == Seq(Segments) \ {NoPath}

\* A hunk has its first line on the new side, the lines removed and added, and
\* the context around them; a change its hunks and its path on the old and on
\* the new side, DevNull where the file does not exist.
HunkSet   == [at : Nat, removed : Nat, added : Nat, context : Nat]
ChangeSet == [old : Paths \cup {DevNull}, new : Paths \cup {DevNull}, hunks : Seq(HunkSet)]

NewLines(h) == h.added + h.context

\* Nothing is left of a file that is gone.
IsChange(c) ==
    /\ c \in ChangeSet
    /\ c.old # DevNull \/ c.new # DevNull
    /\ c.new = DevNull => \A i \in DOMAIN c.hunks : NewLines(c.hunks[i]) = 0

ASSUME GatesAssumption ==
    /\ {"a", "b"} \subseteq Segments /\ NoName \notin Segments
    /\ \A c \in MrChanges \cup PatchChanges : IsChange(c)
    /\ Violations \subseteq [path : Paths, line : Nat]
    /\ Text \subseteq Paths \cup {DevNull}
    /\ Tolerance \in Nat
    /\ MaxFiles \in Nat

VARIABLES
    stages,   \* failedStages of the event, once it is looked at
    style,    \* who writes the current diff: git, or glab without headers
    writing,  \* the change being written, and the line due next
    mr,       \* truth: the changes of the merge request
    patch,    \* truth: the changes of the agent
    misled,   \* readers a changed line that looks like a header has misled
    files,    \* files and minusPath of parseDiffFiles
    hunks,    \* result, curPath, minusPath and minusDevNull of parseDiffHunkRanges
    index,    \* entries, cur, minusPath and minusDevNull of buildDiffIndex
    phase,    \* the diff being read, or that the gates have decided
    mrFiles,  \* diffFiles
    mrHunks,  \* mrHunks
    verdict   \* what repairFixed makes of the patch

readers == <<files, hunks, index>>
vars == <<stages, style, writing, mr, patch, misled, readers, phase, mrFiles, mrHunks, verdict>>

Nothing  == [change |-> << >>, due |-> "file", removed |-> 0, added |-> 0]
NoFiles  == [found |-> {}, minus |-> NoPath]
NoHunks  == [ranges |-> << >>, cur |-> NoPath, minus |-> NoPath, null |-> FALSE]
NoIndex  == [entries |-> << >>, open |-> FALSE, minus |-> NoPath, null |-> FALSE]

Init ==
    /\ stages = {}
    /\ style \in {"git", "glab"}
    /\ writing = Nothing
    /\ mr = << >>
    /\ patch = << >>
    /\ misled = {}
    /\ files = NoFiles
    /\ hunks = NoHunks
    /\ index = NoIndex
    /\ phase = "mr"
    /\ mrFiles = {}
    /\ mrHunks = << >>
    /\ verdict = "none"

-----------------------------------------------------------------------------
(***************************************************************************)
(* What the readers make of a name.                                        *)
(***************************************************************************)

Prefixed(side, path) == IF path = DevNull THEN DevNull ELSE <<side>> \o path

HasPrefix(side, name) == Len(name) > 1 /\ Head(name) = side

Entry(path, new, gone) == [path |-> path, adds |-> 0, dels |-> 0, added |-> new, deleted |-> gone]

\* a/ and b/ are the prefixes of git only if both sides carry them.
Symmetric(minus, name) ==
    /\ HasPrefix("b", name)
    /\ HasPrefix("a", minus)
    /\ Tail(minus) = Tail(name)

-----------------------------------------------------------------------------
(***************************************************************************)
(* Faulty variants of the readers, each a plausible slip.                  *)
(***************************************************************************)

\* A deletion closes the entry it should open.
IndexPlusClosed(name) ==
    IF name = DevNull
    THEN [index EXCEPT !.open = FALSE]
    ELSE [index EXCEPT !.entries = Append(@, Entry(name, index.null, FALSE)), !.open = TRUE]

\* The prefix comes off only where both sides carry one.
NewSideOfEdits(minus, null, name) == IF Symmetric(minus, name) THEN Tail(name) ELSE name

\* The null side of a deletion is listed like a file.
FilesPlusNull(name) == [found |-> files.found \cup {name}, minus |-> NoPath]

-----------------------------------------------------------------------------
(***************************************************************************)
(* The readers.  Of the patch the program uses parseDiffHunkRanges only.   *)
(***************************************************************************)

\* The path of a +++ line: a new file has nothing to be symmetric with.
NewSide(minus, null, name) ==
    IF Symmetric(minus, name) \/ (null /\ HasPrefix("b", name))
    THEN Tail(name)
    ELSE name

\* diff --git a/... b/...
ReadGit(path) ==
    /\ files' = [found |-> files.found \cup {path}, minus |-> NoPath]
    /\ hunks' = [hunks EXCEPT !.cur = path, !.minus = NoPath, !.null = FALSE]
    /\ index' = [entries |-> Append(index.entries, Entry(path, FALSE, FALSE)),
                 open |-> TRUE, minus |-> NoPath, null |-> FALSE]

\* --- name
ReadMinus(name) ==
    LET minus == IF name = DevNull THEN NoPath ELSE name
    IN  /\ files' = [files EXCEPT !.minus = minus]
        /\ hunks' = [hunks EXCEPT !.minus = minus, !.null = (name = DevNull)]
        /\ index' = [index EXCEPT !.minus = minus, !.null = (name = DevNull)]

FilesPlus(name) ==
    IF name = DevNull
    THEN files
    ELSE [found |-> files.found \cup
                        {IF Symmetric(files.minus, name) THEN Tail(name) ELSE name},
          minus |-> NoPath]

HunksPlus(name) ==
    [hunks EXCEPT !.cur = IF name = DevNull
                          THEN hunks.minus
                          ELSE NewSide(hunks.minus, hunks.null, name)]

\* A deletion is entered under the name of the line before it.
IndexPlus(name) ==
    IF name # DevNull
    THEN [index EXCEPT !.entries =
                           Append(@, Entry(NewSide(index.minus, index.null, name), index.null, FALSE)),
                       !.open = TRUE]
    ELSE IF index.minus # NoPath
    THEN [index EXCEPT !.entries = Append(@, Entry(index.minus, FALSE, TRUE)), !.open = TRUE]
    ELSE [index EXCEPT !.open = FALSE]

\* +++ name
ReadPlus(name) ==
    /\ files' = FilesPlus(name)
    /\ hunks' = HunksPlus(name)
    /\ index' = IndexPlus(name)

\* addRange: what has no line on the new side has no range.
Ranged(ranges, path, start, count) ==
    IF path = NoPath \/ count = 0
    THEN ranges
    ELSE Append(ranges, [file |-> path, from |-> start, to |-> start + count - 1])

\* @@ -a,b +start,count @@
ReadHunk(start, count) ==
    /\ hunks' = [hunks EXCEPT !.ranges = Ranged(@, hunks.cur, start, count)]
    /\ UNCHANGED <<files, index>>

\* A line that starts with + or - counts for the entry the index is at.
ReadChanged(field) ==
    /\ index' = IF index.open
                THEN [index EXCEPT !.entries[Len(index.entries)][field] = @ + 1]
                ELSE index
    /\ UNCHANGED <<files, hunks>>

-----------------------------------------------------------------------------
(***************************************************************************)
(* The writer: git, or glab for the merge request.                          *)
(***************************************************************************)

Change == writing.change[1]

Side(side, path) == IF style = "git" THEN Prefixed(side, path) ELSE path

\* The name git puts in the header of a file that is new or gone.
HeaderName(c) == IF c.new = DevNull THEN c.old ELSE c.new

Written == writing.due = "hunk" /\ writing.removed + writing.added = 0

\* git writes no more than a header for a file that is only renamed, or empty.
Renamed == writing.due = "minus" /\ Change.old # Change.new /\ Change.hunks = << >>

BetweenFiles ==
    \/ writing.due = "file"
    \/ (Written \/ Renamed) /\ Change.hunks = << >>

\* A diff has a file once.
Sides(c) == {c.old, c.new} \ {DevNull}

NewTo(changes, c) == \A i \in DOMAIN changes : Sides(changes[i]) \cap Sides(c) = {}

\* The agent starts from the merge request: it finds what that has left, and
\* what it adds is not there yet.
Possible(c) ==
    \A i \in DOMAIN mr :
       /\ c.old # c.new => mr[i].new # c.new
       /\ mr[i].new # mr[i].old => mr[i].old # c.old

File(c) ==
    /\ BetweenFiles
    /\ \/ phase = "mr" /\ Len(mr) < MaxFiles /\ c \in MrChanges /\ NewTo(mr, c)
          /\ mr' = Append(mr, c) /\ UNCHANGED patch
       \/ phase = "patch" /\ Len(patch) < MaxFiles /\ c \in PatchChanges /\ NewTo(patch, c) /\ Possible(c)
          /\ patch' = Append(patch, c) /\ UNCHANGED mr
    /\ IF style = "git"
       THEN /\ ReadGit(HeaderName(c))
            /\ writing' = [Nothing EXCEPT !.change = <<c>>, !.due = "minus"]
       ELSE /\ ReadMinus(c.old)
            /\ writing' = [Nothing EXCEPT !.change = <<c>>, !.due = "plus"]
    /\ UNCHANGED <<stages, style, misled, phase, mrFiles, mrHunks, verdict>>

Minus ==
    /\ writing.due = "minus"
    /\ ~Renamed
    /\ ReadMinus(Side("a", Change.old))
    /\ writing' = [writing EXCEPT !.due = "plus"]
    /\ UNCHANGED <<stages, style, mr, patch, misled, phase, mrFiles, mrHunks, verdict>>

Plus ==
    /\ writing.due = "plus"
    /\ ReadPlus(Side("b", Change.new))
    /\ writing' = [writing EXCEPT !.due = "hunk"]
    /\ UNCHANGED <<stages, style, mr, patch, misled, phase, mrFiles, mrHunks, verdict>>

Hunk ==
    /\ Written
    /\ Change.hunks # << >>
    /\ LET h == Head(Change.hunks)
       IN  /\ ReadHunk(h.at, NewLines(h))
           /\ writing' = [change  |-> <<[Change EXCEPT !.hunks = Tail(@)]>>,
                          due     |-> "hunk",
                          removed |-> h.removed,
                          added   |-> h.added]
    /\ UNCHANGED <<stages, style, mr, patch, misled, phase, mrFiles, mrHunks, verdict>>

\* git writes what a hunk removes before what it adds.
Removed ==
    /\ writing.due = "hunk" /\ writing.removed > 0
    /\ writing' = [writing EXCEPT !.removed = @ - 1]
    /\ \/ ReadChanged("dels") /\ UNCHANGED misled
       \/ \E t \in Text : ReadMinus(t) /\ misled' = misled \cup {"index"}
    /\ UNCHANGED <<stages, style, mr, patch, phase, mrFiles, mrHunks, verdict>>

Added ==
    /\ writing.due = "hunk" /\ writing.removed = 0 /\ writing.added > 0
    /\ writing' = [writing EXCEPT !.added = @ - 1]
    /\ \/ ReadChanged("adds") /\ UNCHANGED misled
       \/ \E t \in Text : ReadPlus(t) /\ misled' = {"index", "paths"}
    /\ UNCHANGED <<stages, style, mr, patch, phase, mrFiles, mrHunks, verdict>>

EndMr ==
    /\ phase = "mr"
    /\ BetweenFiles
    /\ phase' = "patch"
    /\ style' = "git"
    /\ writing' = Nothing
    /\ mrFiles' = files.found
    /\ mrHunks' = hunks.ranges
    /\ files' = NoFiles
    /\ hunks' = NoHunks
    /\ index' = NoIndex
    /\ misled' = misled \ {"index"}
    /\ UNCHANGED <<stages, mr, patch, verdict>>

-----------------------------------------------------------------------------
(***************************************************************************)
(* Kinds of path.                                                          *)
(***************************************************************************)

IsEnd(s, t) == Len(s) <= Len(t) /\ SubSeq(t, Len(t) - Len(s) + 1, Len(t)) = s

Inside(p, names) == \E i \in 1 .. Len(p) - 1 : p[i] \in names

BuildFiles == {"pom.xml", "build.gradle", "build.gradle.kts", "settings.gradle",
               "settings.gradle.kts", "Dockerfile", ".gitlab-ci.yml"}

\* Which file names end in .md, .adoc or .rst is spelled out for those in use.
DocFiles == {"README.md", "guide.adoc", "guide.rst"}

IsForbiddenConfig(p) == Last(p) \in BuildFiles

IsProductionPath(p) ==
    /\ Len(p) > 1
    /\ p[1] = "src"
    /\ \/ p[2] = "main" /\ Len(p) > 2
       \/ ~Inside(Tail(p), {"test", "it"})

IsWidenEligiblePath(p) ==
    \/ \E i \in 1 .. Len(p) - 2 : p[i] = "src" /\ p[i + 1] \in {"test", "it"}
    \/ Inside(p, {"doc", "docs"})
    \/ Last(p) \in DocFiles

\* validatePatchPaths: the paths that keep a patch from passing.
PathOffences(paths, diffFiles) ==
    {p \in paths : \/ IsForbiddenConfig(p)
                   \/ diffFiles = {} /\ IsProductionPath(p)
                   \/ diffFiles # {} /\ p \notin diffFiles}

OutsideDiffPaths(paths, diffFiles) == IF diffFiles = {} THEN {} ELSE paths \ diffFiles

-----------------------------------------------------------------------------
(***************************************************************************)
(* Faulty variants of the gates, each a plausible slip.                    *)
(***************************************************************************)

\* A build file does not stand in the way of widening.
WidenableBesidesBuild(paths, diffFiles) ==
    LET oos == OutsideDiffPaths(paths, diffFiles)
    IN  IF \E p \in oos : ~IsWidenEligiblePath(p) /\ ~IsForbiddenConfig(p) THEN {} ELSE oos

\* Only what lies beyond a hunk is held against a patch.
NearOrBefore(a, b, c, d) == a <= d + Tolerance

\* The tolerance of the offer is one line more than that of the gate.
IsLineInWiderScope(name, line, ranges) ==
    \E i \in DOMAIN ranges :
       /\ IsEnd(ranges[i].file, name)
       /\ line >= ranges[i].from - Tolerance - 1
       /\ line <= ranges[i].to + Tolerance

-----------------------------------------------------------------------------
(***************************************************************************)
(* The gates.                                                              *)
(***************************************************************************)

\* widenableG3Paths, with no path for null.
WidenableG3Paths(paths, diffFiles) ==
    LET oos == OutsideDiffPaths(paths, diffFiles)
    IN  IF \E p \in paths : IsForbiddenConfig(p) \/ (p \in oos /\ ~IsWidenEligiblePath(p))
        THEN {}
        ELSE oos

\* Two ranges are near if they overlap once one is widened by the tolerance.
Near(a, b, c, d) == a <= d + Tolerance /\ b >= c - Tolerance

NearRange(r, ranges) ==
    \E i \in DOMAIN ranges :
       /\ ranges[i].file = r.file
       /\ Near(r.from, r.to, ranges[i].from, ranges[i].to)

ValidatePatchLineScope(patchRanges, ranges) ==
    \A i \in DOMAIN patchRanges :
       IsProductionPath(patchRanges[i].file) => NearRange(patchRanges[i], ranges)

IsStaticAnalysisStage(names) ==
    names \cap {"lint", "checkstyle", "spotbugs", "static-analysis", "pmd"} # {}

\* git diff --name-only names a renamed file by its new side.
PatchPaths == {HeaderName(patch[i]) : i \in DOMAIN patch}

\* repairFixed from the empty patch to the line gate.
Judgement(failed) ==
    IF patch = << >> THEN "empty"
    ELSE IF PathOffences(PatchPaths, mrFiles) # {}
    THEN IF WidenableG3Paths(PatchPaths, mrFiles) # {} THEN "widen" ELSE "dead end"
    ELSE IF IsStaticAnalysisStage(failed) /\ ~ValidatePatchLineScope(hunks.ranges, mrHunks)
    THEN "line scope"
    ELSE "admitted"

Judge ==
    /\ phase = "patch"
    /\ BetweenFiles
    /\ phase' = "decided"
    /\ \E failed \in {{}, {"test"}, {"checkstyle"}} :
          /\ stages' = failed
          /\ verdict' = Judgement(failed)
    /\ UNCHANGED <<style, writing, mr, patch, misled, readers, mrFiles, mrHunks>>

\* resolveDiffPath: the path itself, or the first of which one is the end of
\* the other, here in whole segments; checkstyle reports a path that starts
\* with the project's directories.
ResolveDiffPath(name, ranges) ==
    LET fits == {i \in DOMAIN ranges : IsEnd(ranges[i].file, name) \/ IsEnd(name, ranges[i].file)}
        same == {i \in fits : ranges[i].file = name}
    IN  IF same # {} THEN name
        ELSE IF fits = {} THEN NoPath
        ELSE ranges[CHOOSE i \in fits : \A j \in fits : i <= j].file

IsLineInMrDiffScope(name, line, ranges) ==
    LET path == ResolveDiffPath(name, ranges)
    IN  \E i \in DOMAIN ranges :
           /\ ranges[i].file = path
           /\ line >= ranges[i].from - Tolerance
           /\ line <= ranges[i].to + Tolerance

Next ==
    \/ \E c \in MrChanges \cup PatchChanges : File(c)
    \/ Minus
    \/ Plus
    \/ Hunk
    \/ Removed
    \/ Added
    \/ EndMr
    \/ Judge

Spec == Init /\ [][Next]_vars

-----------------------------------------------------------------------------
(***************************************************************************)
(* Properties.                                                              *)
(***************************************************************************)

RangeSet == {r \in [file : Paths, from : Nat, to : Nat] : r.from <= r.to}
EntrySet == [path : Paths, adds : Nat, dels : Nat, added : BOOLEAN, deleted : BOOLEAN]

TypeOK ==
    /\ stages \subseteq {"test", "checkstyle"}
    /\ style \in {"git", "glab"}
    /\ writing \in [change : Seq(ChangeSet), due : {"file", "minus", "plus", "hunk"},
                    removed : Nat, added : Nat]
    /\ writing.due # "file" => writing.change # << >>
    /\ mr \in Seq(MrChanges) /\ patch \in Seq(PatchChanges)
    /\ misled \subseteq {"index", "paths"}
    /\ files \in [found : SUBSET Paths, minus : Paths \cup {NoPath}]
    /\ hunks \in [ranges : Seq(RangeSet), cur : Paths \cup {NoPath},
                  minus : Paths \cup {NoPath}, null : BOOLEAN]
    /\ index \in [entries : Seq(EntrySet), open : BOOLEAN,
                  minus : Paths \cup {NoPath}, null : BOOLEAN]
    /\ index.open => index.entries # << >>
    /\ phase \in {"mr", "patch", "decided"}
    /\ mrFiles \subseteq Paths /\ mrHunks \in Seq(RangeSet)
    /\ verdict \in {"none", "empty", "widen", "dead end", "line scope", "admitted"}

\* The diff that is being read, as it really is.
Truth == IF phase = "mr" THEN mr ELSE patch

RangeOf(h) == [from |-> h.at, to |-> h.at + NewLines(h) - 1]

TrueRanges(c) == {RangeOf(c.hunks[i]) : i \in {j \in DOMAIN c.hunks : NewLines(c.hunks[j]) > 0}}

RangesFound(ranges, path) ==
    {[from |-> ranges[i].from, to |-> ranges[i].to] :
        i \in {j \in DOMAIN ranges : ranges[j].file = path}}

\* A rename is told apart by its two paths; git prefixes them differently, so
\* that the readers do not take the prefixes off.
Rename(c) == c.old # c.new /\ c.old # DevNull /\ c.new # DevNull

\* git puts a/ and b/ before its paths, glab does not, and the readers tell one
\* from the other by the first segment alone: they misread a file that is new,
\* gone or moved in a directory a or b at the top of the repository, and mix up
\* one that is edited there with one that git has moved elsewhere.  What follows
\* of the readers is meant for diffs without such files.
PlainPaths ==
    \A c \in MrChanges \cup PatchChanges : \A p \in Sides(c) :
        Len(p) > 1 => Head(p) \notin {"a", "b"}

\* Every hunk is recorded under the file it belongs to, with the lines of the
\* new side, whatever was read before it, however the writer prefixes paths
\* and marks new and deleted files, up to the first added line that looks
\* like a header; the renames of git are the exception.
RangesExact ==
    BetweenFiles /\ phase # "decided" /\ "paths" \notin misled =>
        \A i \in DOMAIN Truth :
            LET c == Truth[i]
            IN  \/ style = "git" /\ Rename(c)
                \/ c.new = DevNull
                \/ RangesFound(hunks.ranges, c.new) = TrueRanges(c)

\* How many lines some hunks remove or add.
Count(hs, field) == Cardinality(UNION {{j} \X (1 .. hs[j][field]) : j \in DOMAIN hs})

\* The names an entry of the index may have for a change.
NamesOf(c) == Sides(c) \cup {Side("a", c.old), Side("b", c.new)}

EntriesOf(c) == {e \in DOMAIN index.entries : index.entries[e].path \in NamesOf(c)}

\* The index the agent orients by lists every file once with its lines: where
\* git's header and path lines each open an entry, the other stays empty.
IndexExact ==
    BetweenFiles /\ phase = "mr" /\ misled = {} =>
        \A i \in DOMAIN mr :
            \E e \in EntriesOf(mr[i]) :
               /\ index.entries[e].adds = Count(mr[i].hunks, "added")
               /\ index.entries[e].dels = Count(mr[i].hunks, "removed")
               /\ \A f \in EntriesOf(mr[i]) \ {e} :
                     index.entries[f].adds = 0 /\ index.entries[f].dels = 0

\* What the program reads from a diff is what the writer changed: the ranges
\* that the line gate compares and the counts that the agent orients by.
ReadersExact == RangesExact /\ IndexExact

\* The lines of a hunk before it is applied: those of the patch are numbered
\* like those the merge request leaves.
OldAt(c, j) ==
    LET before == SubSeq(c.hunks, 1, j - 1)
    IN  c.hunks[j].at - Count(before, "added") + Count(before, "removed")

OldLines(c, j) == OldAt(c, j) .. OldAt(c, j) + c.hunks[j].removed + c.hunks[j].context - 1

NewSideLines(h) == h.at .. h.at + NewLines(h) - 1

\* Some of the lines are near the lines the merge request has changed.
InScope(path, lines) ==
    \E k \in DOMAIN mr :
       /\ mr[k].new = path
       /\ \E n \in DOMAIN mr[k].hunks :
             \E l \in lines, m \in NewSideLines(mr[k].hunks[n]) :
                l <= m + Tolerance /\ m <= l + Tolerance

\* A patch for a failed static analysis that passes both gates leaves every
\* production file it edits within a few lines of what the merge request
\* itself changed there: the merge request changed that file, and each hunk,
\* while the patch has not yet changed the numbers of the lines, has a line
\* near one of the merge request's hunks.
AdmittedStaysInScope ==
    verdict = "admitted" /\ IsStaticAnalysisStage(stages) /\ "paths" \notin misled =>
        \A i \in DOMAIN patch :
            LET c == patch[i]
            IN  c.old = c.new /\ IsProductionPath(c.new) =>
                  \A j \in DOMAIN c.hunks :
                     NewLines(c.hunks[j]) > 0 /\ OldAt(c, j) = c.hunks[j].at
                        => InScope(c.new, NewSideLines(c.hunks[j]))

\* And no patch is turned down for its lines without a reason: some hunk of a
\* production file is not near the merge request's, as the patch numbers its
\* lines, or it is in a file that has been renamed; validatePatchLineScope does
\* not find the names under which the renames of git are recorded.
RejectedLeavesScope ==
    verdict = "line scope" /\ "paths" \notin misled =>
        \E i \in DOMAIN patch :
            LET c == patch[i]
            IN  \E j \in DOMAIN c.hunks :
                   /\ NewLines(c.hunks[j]) > 0
                   /\ \/ Rename(c)
                      \/ /\ IsProductionPath(c.new)
                         /\ \/ \E k \in DOMAIN mr : mr[k].new = c.new /\ Rename(mr[k])
                            \/ ~InScope(c.new, NewSideLines(c.hunks[j]))

\* What the line gate compares is what it is meant to compare.
LineGateExact == AdmittedStaysInScope /\ RejectedLeavesScope

\* What a decision may widen is all that stood in the way: once the paths it
\* names are added to the files of the diff, the same patch passes the path
\* gate, and nothing it adds is a build file.
WideningUnblocks ==
    verdict = "widen" =>
        LET oos == WidenableG3Paths(PatchPaths, mrFiles)
        IN  /\ PathOffences(PatchPaths, mrFiles \cup oos) = {}
            /\ \A p \in oos : ~IsForbiddenConfig(p)

\* A violation the prompt calls repairable can be repaired: the line gate
\* admits an edit of that very line, unless another file of the merge request
\* has a path of which one is the end of the other.
OfferedIsAdmitted ==
    phase # "mr" =>
        \A v \in Violations :
            LET reported == <<"group", "project">> \o v.path
                line == [file |-> v.path, from |-> v.line, to |-> v.line]
            IN  /\ IsLineInMrDiffScope(reported, v.line, mrHunks)
                /\ \A i \in DOMAIN mrHunks :
                      IsEnd(mrHunks[i].file, reported) \/ IsEnd(reported, mrHunks[i].file)
                         => mrHunks[i].file = v.path
                => ValidatePatchLineScope(<<line>>, mrHunks)

\* The prompt offers the violations near the merge request's hunks, "only fix
\* the entries with inScope=true": a patch that edits production code near
\* those hunks only is not turned down for its lines.
EditsInScopePass ==
    verdict = "line scope" /\ "paths" \notin misled =>
        ~\A i \in DOMAIN patch :
            LET c == patch[i]
            IN  c.old = c.new /\ (IsProductionPath(c.new) =>
                  \A j \in DOMAIN c.hunks : InScope(c.new, OldLines(c, j)))

=============================================================================
