---------------------------- MODULE GatesProofs ----------------------------
(***************************************************************************)
(* What the readers and the gates do, for every set of changes and every    *)
(* tolerance: the readers read what was written, widening removes all that  *)
(* stands in the way of a patch, an admitted patch stays near the merge     *)
(* request's hunks, and what the prompt offers the line gate admits.        *)
(***************************************************************************)
EXTENDS Gates, FiniteSetTheorems, SequenceTheorems, TLAPS

-----------------------------------------------------------------------------
(***************************************************************************)
(* Paths.                                                                   *)
(***************************************************************************)
PathOrNone == Paths \cup {NoPath}

LEMMA NullIsNoPath == DevNull \notin Paths /\ NoPath \notin Paths
<1>1. DevNull[1] = NoName /\ Len(DevNull) = 3
  BY DEF DevNull
<1>2. \A p \in Seq(Segments) : Len(p) > 0 => p[1] \in Segments
  BY SMT
<1>3. NoName \notin Segments
  BY GatesAssumption
<1>. QED
  BY <1>1, <1>2, <1>3, SMT DEF Paths

LEMMA PathIsSeq ==
    ASSUME NEW p \in Paths
    PROVE  p \in Seq(Segments) /\ Len(p) \in Nat /\ Len(p) > 0
BY SMT DEF Paths, NoPath

LEMMA SeqIsPath ==
    ASSUME NEW p \in Seq(Segments), Len(p) > 0
    PROVE  p \in Paths
BY SMT DEF Paths, NoPath

LEMMA TailIsPath ==
    ASSUME NEW p \in Paths, Len(p) > 1
    PROVE  Tail(p) \in Paths
<1>1. p \in Seq(Segments)
  BY PathIsSeq
<1>2. Tail(p) \in Seq(Segments) /\ Len(Tail(p)) > 0
  BY <1>1, SMT
<1>. QED
  BY <1>2, SeqIsPath

LEMMA PrefixedIsPath ==
    ASSUME NEW side \in {"a", "b"}, NEW p \in Paths
    PROVE  /\ <<side>> \o p \in Paths
           /\ Len(<<side>> \o p) > 1
           /\ Head(<<side>> \o p) = side
           /\ Tail(<<side>> \o p) = p
<1>1. p \in Seq(Segments) /\ Len(p) > 0
  BY PathIsSeq
<1>2. side \in Segments
  BY GatesAssumption
<1>3. Len(<<side>> \o p) > 1 /\ Head(<<side>> \o p) = side /\ Tail(<<side>> \o p) = p
  BY <1>1, SMT
<1>4. <<side>> \o p \in Seq(Segments)
  BY <1>1, <1>2, SMT
<1>5. Len(<<side>> \o p) > 0
  BY <1>1, SMT
<1>. QED
  BY <1>3, <1>4, <1>5, SeqIsPath

LEMMA PrefixedType ==
    ASSUME NEW side \in {"a", "b"}, NEW p \in Paths \cup {DevNull}
    PROVE  /\ Prefixed(side, p) \in Paths \cup {DevNull}
           /\ Prefixed(side, p) = DevNull <=> p = DevNull
<1>1. CASE p = DevNull
  BY <1>1 DEF Prefixed
<1>2. CASE p # DevNull
  <2>1. p \in Paths /\ Prefixed(side, p) = <<side>> \o p
    BY <1>2 DEF Prefixed
  <2>2. Prefixed(side, p) \in Paths
    BY <2>1, PrefixedIsPath
  <2>. QED
    BY <1>2, <2>2, NullIsNoPath
<1>. QED
  BY <1>1, <1>2

LEMMA SideType ==
    ASSUME NEW side \in {"a", "b"}, NEW p \in Paths \cup {DevNull}
    PROVE  /\ Side(side, p) \in Paths \cup {DevNull}
           /\ Side(side, p) = DevNull <=> p = DevNull
BY PrefixedType DEF Side

LEMMA NewSideType ==
    ASSUME NEW minus, NEW null, NEW name \in Paths
    PROVE  NewSide(minus, null, name) \in Paths
<1>1. CASE HasPrefix("b", name)
  BY <1>1, TailIsPath DEF NewSide, HasPrefix
<1>2. CASE ~HasPrefix("b", name)
  BY <1>2 DEF NewSide, Symmetric
<1>. QED
  BY <1>1, <1>2

LEMMA FilesPlusFound ==
    ASSUME NEW name \in Paths
    PROVE  (IF Symmetric(files.minus, name) THEN Tail(name) ELSE name) \in Paths
<1>1. CASE Symmetric(files.minus, name)
  BY <1>1, TailIsPath DEF Symmetric, HasPrefix
<1>. QED
  BY <1>1

-----------------------------------------------------------------------------
(***************************************************************************)
(* Types.                                                                   *)
(***************************************************************************)
LEMMA ChangeType ==
    ASSUME NEW c \in MrChanges \cup PatchChanges
    PROVE  /\ IsChange(c) /\ c \in ChangeSet
           /\ c.old \in Paths \cup {DevNull} /\ c.new \in Paths \cup {DevNull}
           /\ c.old # DevNull \/ c.new # DevNull
           /\ HeaderName(c) \in Paths
<1>1. IsChange(c)
  BY GatesAssumption
<1>2. c \in ChangeSet /\ (c.old # DevNull \/ c.new # DevNull)
  BY <1>1 DEF IsChange
<1>3. c.old \in Paths \cup {DevNull} /\ c.new \in Paths \cup {DevNull}
  BY <1>2 DEF ChangeSet
<1>. QED
  BY <1>1, <1>2, <1>3 DEF HeaderName

LEMMA CurrentType ==
    ASSUME TypeOK, writing.due # "file"
    PROVE  /\ writing.change \in Seq(ChangeSet) /\ Len(writing.change) > 0
           /\ Change \in ChangeSet
           /\ Change.old \in Paths \cup {DevNull} /\ Change.new \in Paths \cup {DevNull}
           /\ Change.hunks \in Seq(HunkSet)
<1>1. writing.change \in Seq(ChangeSet) /\ writing.change # << >>
  BY DEF TypeOK
<1>2. Len(writing.change) > 0
  BY <1>1, SMT
<1>3. Change \in ChangeSet
  BY <1>1, <1>2, SMT DEF Change
<1>. QED
  BY <1>1, <1>2, <1>3 DEF ChangeSet

\* The types of what the three readers keep.
ReadersOK ==
    /\ files \in [found : SUBSET Paths, minus : PathOrNone]
    /\ hunks \in [ranges : Seq(RangeSet), cur : PathOrNone, minus : PathOrNone, null : BOOLEAN]
    /\ index \in [entries : Seq(EntrySet), open : BOOLEAN, minus : PathOrNone, null : BOOLEAN]
    /\ index.open => index.entries # << >>

LEMMA ReadersTyped == TypeOK => ReadersOK
BY DEF TypeOK, ReadersOK, PathOrNone

LEMMA EntryType ==
    ASSUME NEW p \in Paths, NEW new \in BOOLEAN, NEW gone \in BOOLEAN
    PROVE  Entry(p, new, gone) \in EntrySet
BY DEF Entry, EntrySet

LEMMA AppendEntry ==
    ASSUME NEW es \in Seq(EntrySet), NEW e \in EntrySet
    PROVE  Append(es, e) \in Seq(EntrySet) /\ Append(es, e) # << >>
BY AppendProperties, Zenon

LEMMA AppendRange ==
    ASSUME NEW rs \in Seq(RangeSet), NEW r \in RangeSet
    PROVE  Append(rs, r) \in Seq(RangeSet)
BY AppendProperties, Zenon

LEMMA ExceptEntry ==
    ASSUME NEW es \in Seq(EntrySet), NEW n \in 1 .. Len(es), NEW e \in EntrySet
    PROVE  [es EXCEPT ![n] = e] \in Seq(EntrySet) /\ Len([es EXCEPT ![n] = e]) = Len(es)
<1>. DEFINE f == [es EXCEPT ![n] = e]
<1>1. DOMAIN es = 1 .. Len(es) /\ Len(es) \in Nat /\ \A i \in 1 .. Len(es) : es[i] \in EntrySet
  BY LenProperties, ElementOfSeq
<1>2. DOMAIN f = 1 .. Len(es) /\ \A i \in 1 .. Len(es) : f[i] \in EntrySet
  BY <1>1
<1>3. f \in [1 .. Len(es) -> EntrySet]
  BY <1>1, <1>2
<1>. QED
  BY <1>1, <1>3, SMT

LEMMA GitTypes ==
    ASSUME ReadersOK, NEW p \in Paths, ReadGit(p)
    PROVE  ReadersOK'
<1>1. files' \in [found : SUBSET Paths, minus : PathOrNone]
  <2>1. files.found \cup {p} \in SUBSET Paths
    BY DEF ReadersOK
  <2>. QED
    BY <2>1 DEF ReadGit, PathOrNone
<1>2. hunks' \in [ranges : Seq(RangeSet), cur : PathOrNone, minus : PathOrNone, null : BOOLEAN]
  BY DEF ReadersOK, ReadGit, PathOrNone
<1>3. index.entries \in Seq(EntrySet) /\ Entry(p, FALSE, FALSE) \in EntrySet
  BY EntryType DEF ReadersOK
<1>4. Append(index.entries, Entry(p, FALSE, FALSE)) \in Seq(EntrySet)
      /\ Append(index.entries, Entry(p, FALSE, FALSE)) # << >>
  BY <1>3, AppendEntry
<1>5. index' \in [entries : Seq(EntrySet), open : BOOLEAN, minus : PathOrNone, null : BOOLEAN]
      /\ index'.entries # << >>
  BY <1>4 DEF ReadGit, PathOrNone
<1>. QED
  BY <1>1, <1>2, <1>5 DEF ReadersOK

LEMMA MinusTypes ==
    ASSUME ReadersOK, NEW name \in Paths \cup {DevNull}, ReadMinus(name)
    PROVE  ReadersOK'
<1>. DEFINE minus == IF name = DevNull THEN NoPath ELSE name
            null  == name = DevNull
<1>1. minus \in PathOrNone
  BY DEF PathOrNone
<1>2. null \in BOOLEAN
  OBVIOUS
<1>3. /\ files' = [files EXCEPT !.minus = minus]
      /\ hunks' = [hunks EXCEPT !.minus = minus, !.null = null]
      /\ index' = [index EXCEPT !.minus = minus, !.null = null]
  BY DEF ReadMinus
<1>. HIDE DEF minus, null
<1>4. files' \in [found : SUBSET Paths, minus : PathOrNone]
  BY <1>1, <1>3 DEF ReadersOK
<1>5. hunks' \in [ranges : Seq(RangeSet), cur : PathOrNone, minus : PathOrNone, null : BOOLEAN]
  BY <1>1, <1>2, <1>3 DEF ReadersOK
<1>6. /\ index' \in [entries : Seq(EntrySet), open : BOOLEAN, minus : PathOrNone, null : BOOLEAN]
      /\ index'.entries = index.entries /\ index'.open = index.open
  BY <1>1, <1>2, <1>3 DEF ReadersOK
<1>. QED
  BY <1>4, <1>5, <1>6 DEF ReadersOK

LEMMA PlusTypes ==
    ASSUME ReadersOK, NEW name \in Paths \cup {DevNull}, ReadPlus(name)
    PROVE  ReadersOK'
<1>1. CASE name = DevNull
  <2>1. files' = files
    BY <1>1 DEF ReadPlus, FilesPlus
  <2>2. hunks' = [hunks EXCEPT !.cur = hunks.minus]
    BY <1>1 DEF ReadPlus, HunksPlus
  <2>3. hunks' \in [ranges : Seq(RangeSet), cur : PathOrNone, minus : PathOrNone, null : BOOLEAN]
    BY <2>2 DEF ReadersOK
  <2>4. index' \in [entries : Seq(EntrySet), open : BOOLEAN, minus : PathOrNone, null : BOOLEAN]
        /\ (index'.open => index'.entries # << >>)
    <3>1. CASE index.minus # NoPath
      <4>. DEFINE e == Entry(index.minus, FALSE, TRUE)
                  es == Append(index.entries, e)
      <4>1. index' = [index EXCEPT !.entries = es, !.open = TRUE]
        BY <1>1, <3>1 DEF ReadPlus, IndexPlus
      <4>2. index.minus \in Paths /\ index.entries \in Seq(EntrySet)
        BY <3>1 DEF ReadersOK, PathOrNone
      <4>3. e \in EntrySet
        BY <4>2, EntryType
      <4>. HIDE DEF e
      <4>4. es \in Seq(EntrySet) /\ es # << >>
        BY <4>2, <4>3, AppendEntry
      <4>. HIDE DEF es
      <4>. QED
        BY <4>1, <4>4 DEF ReadersOK
    <3>2. CASE index.minus = NoPath
      <4>1. index' = [index EXCEPT !.open = FALSE]
        BY <1>1, <3>2 DEF ReadPlus, IndexPlus
      <4>. QED
        BY <4>1 DEF ReadersOK
    <3>. QED
      BY <3>1, <3>2
  <2>. QED
    BY <2>1, <2>3, <2>4 DEF ReadersOK
<1>2. CASE name # DevNull
  <2>1. name \in Paths
    BY <1>2
  <2>2. files' \in [found : SUBSET Paths, minus : PathOrNone]
    <3>. DEFINE p == IF Symmetric(files.minus, name) THEN Tail(name) ELSE name
    <3>1. p \in Paths
      BY <2>1, FilesPlusFound
    <3>2. files' = [found |-> files.found \cup {p}, minus |-> NoPath]
      BY <1>2 DEF ReadPlus, FilesPlus
    <3>. HIDE DEF p
    <3>3. files.found \cup {p} \in SUBSET Paths
      BY <3>1 DEF ReadersOK
    <3>. QED
      BY <3>2, <3>3 DEF PathOrNone
  <2>3. hunks' \in [ranges : Seq(RangeSet), cur : PathOrNone, minus : PathOrNone, null : BOOLEAN]
    <3>. DEFINE p == NewSide(hunks.minus, hunks.null, name)
    <3>1. p \in PathOrNone
      BY <2>1, NewSideType DEF PathOrNone
    <3>2. hunks' = [hunks EXCEPT !.cur = p]
      BY <1>2 DEF ReadPlus, HunksPlus
    <3>. HIDE DEF p
    <3>. QED
      BY <3>1, <3>2 DEF ReadersOK
  <2>4. index' \in [entries : Seq(EntrySet), open : BOOLEAN, minus : PathOrNone, null : BOOLEAN]
        /\ index'.entries # << >>
    <3>. DEFINE p  == NewSide(index.minus, index.null, name)
                e  == Entry(p, index.null, FALSE)
                es == Append(index.entries, e)
    <3>1. p \in Paths
      BY <2>1, NewSideType
    <3>2. index' = [index EXCEPT !.entries = es, !.open = TRUE]
      BY <1>2 DEF ReadPlus, IndexPlus
    <3>3. index.null \in BOOLEAN /\ index.entries \in Seq(EntrySet)
      BY DEF ReadersOK
    <3>. HIDE DEF p
    <3>4. e \in EntrySet
      BY <3>1, <3>3, EntryType
    <3>. HIDE DEF e
    <3>5. es \in Seq(EntrySet) /\ es # << >>
      BY <3>3, <3>4, AppendEntry
    <3>. HIDE DEF es
    <3>. QED
      BY <3>2, <3>5 DEF ReadersOK
  <2>. QED
    BY <2>2, <2>3, <2>4 DEF ReadersOK
<1>. QED
  BY <1>1, <1>2

LEMMA HunkTypes ==
    ASSUME ReadersOK, NEW start \in Nat, NEW count \in Nat, ReadHunk(start, count)
    PROVE  ReadersOK'
<1>. DEFINE rs == Ranged(hunks.ranges, hunks.cur, start, count)
<1>1. hunks' = [hunks EXCEPT !.ranges = rs] /\ UNCHANGED <<files, index>>
  BY DEF ReadHunk
<1>2. hunks.ranges \in Seq(RangeSet) /\ hunks.cur \in PathOrNone
  BY DEF ReadersOK
<1>3. rs \in Seq(RangeSet)
  <2>1. CASE hunks.cur = NoPath \/ count = 0
    BY <1>2, <2>1 DEF Ranged
  <2>2. CASE hunks.cur # NoPath /\ count # 0
    <3>. DEFINE r == [file |-> hunks.cur, from |-> start, to |-> start + count - 1]
    <3>1. hunks.cur \in Paths
      BY <1>2, <2>2 DEF PathOrNone
    <3>2. start + count - 1 \in Nat /\ start <= start + count - 1
      BY <2>2, SMT
    <3>3. r \in RangeSet
      BY <3>1, <3>2 DEF RangeSet
    <3>4. rs = Append(hunks.ranges, r)
      BY <2>2 DEF Ranged
    <3>. HIDE DEF r
    <3>. QED
      BY <1>2, <3>3, <3>4, AppendRange
  <2>. QED
    BY <2>1, <2>2
<1>. HIDE DEF rs
<1>. QED
  BY <1>1, <1>3 DEF ReadersOK

LEMMA ChangedTypes ==
    ASSUME ReadersOK, NEW field \in {"adds", "dels"}, ReadChanged(field)
    PROVE  ReadersOK'
<1>. DEFINE n == Len(index.entries)
            e == [index.entries[n] EXCEPT ![field] = @ + 1]
            es == [index.entries EXCEPT ![n] = e]
<1>1. UNCHANGED <<files, hunks>>
  BY DEF ReadChanged
<1>2. CASE ~index.open
  <2>1. index' = index
    BY <1>2 DEF ReadChanged
  <2>. QED
    BY <1>1, <2>1 DEF ReadersOK
<1>3. CASE index.open
  <2>1. index.entries \in Seq(EntrySet) /\ index.entries # << >>
    BY <1>3 DEF ReadersOK
  <2>2. index' = [index EXCEPT !.entries[Len(index.entries)][field] = @ + 1]
    BY <1>3, Zenon DEF ReadChanged
  <2>3. index' = [index EXCEPT !.entries = es]
    BY <2>2
  <2>4. n \in 1 .. Len(index.entries)
    BY <2>1, SMT
  <2>5. index.entries[n] \in EntrySet
    BY <2>1, <2>4, ElementOfSeq, Zenon
  <2>6. e \in EntrySet
    BY <2>5 DEF EntrySet
  <2>. HIDE DEF e
  <2>7. es \in Seq(EntrySet) /\ Len(es) = Len(index.entries)
    BY <2>1, <2>4, <2>6, ExceptEntry
  <2>8. es # << >>
    BY <2>4, <2>7, SMT
  <2>. HIDE DEF es
  <2>. QED
    BY <1>1, <2>3, <2>7, <2>8 DEF ReadersOK
<1>. QED
  BY <1>2, <1>3

\* The types of everything else.
RestOK ==
    /\ stages \subseteq {"test", "checkstyle"}
    /\ style \in {"git", "glab"}
    /\ writing \in [change : Seq(ChangeSet), due : {"file", "minus", "plus", "hunk"},
                    removed : Nat, added : Nat]
    /\ writing.due # "file" => writing.change # << >>
    /\ mr \in Seq(MrChanges) /\ patch \in Seq(PatchChanges)
    /\ misled \subseteq {"index", "paths"}
    /\ phase \in {"mr", "patch", "decided"}
    /\ mrFiles \subseteq Paths /\ mrHunks \in Seq(RangeSet)
    /\ verdict \in {"none", "empty", "widen", "dead end", "line scope", "admitted"}

LEMMA TypeParts == TypeOK <=> ReadersOK /\ RestOK
BY DEF TypeOK, ReadersOK, RestOK, PathOrNone

LEMMA TypeInit == Init => TypeOK
<1>. SUFFICES ASSUME Init PROVE TypeOK
  OBVIOUS
<1>1. ReadersOK
  BY SMT DEF Init, ReadersOK, NoFiles, NoHunks, NoIndex, PathOrNone
<1>2. writing \in [change : Seq(ChangeSet), due : {"file", "minus", "plus", "hunk"},
                   removed : Nat, added : Nat] /\ writing.due = "file"
  BY SMT DEF Init, Nothing
<1>3. mr \in Seq(MrChanges) /\ patch \in Seq(PatchChanges) /\ mrHunks \in Seq(RangeSet)
  BY SMT DEF Init
<1>4. RestOK
  BY <1>2, <1>3 DEF Init, RestOK
<1>. QED
  BY <1>1, <1>4 DEF TypeOK, ReadersOK, RestOK, PathOrNone

LEMMA TypeFile ==
    ASSUME TypeOK, NEW c \in MrChanges \cup PatchChanges, File(c)
    PROVE  TypeOK'
<1>1. ReadersOK /\ RestOK
  BY TypeParts
<1>2. c \in ChangeSet /\ c.old \in Paths \cup {DevNull} /\ HeaderName(c) \in Paths
  BY ChangeType
<1>3. ReadersOK'
  <2>1. ReadGit(HeaderName(c)) \/ ReadMinus(c.old)
    BY DEF File
  <2>. QED
    BY <1>1, <1>2, <2>1, GitTypes, MinusTypes
<1>4. \E due \in {"minus", "plus"} :
          writing' = [change |-> <<c>>, due |-> due, removed |-> 0, added |-> 0]
  BY DEF File, Nothing
<1>5. <<c>> \in Seq(ChangeSet) /\ <<c>> # << >>
  BY <1>2, SMT
<1>6. writing' \in [change : Seq(ChangeSet), due : {"file", "minus", "plus", "hunk"},
                    removed : Nat, added : Nat] /\ writing'.change # << >>
  BY <1>4, <1>5
<1>7. mr' \in Seq(MrChanges) /\ patch' \in Seq(PatchChanges)
  <2>1. \/ c \in MrChanges /\ mr' = Append(mr, c) /\ UNCHANGED patch
        \/ c \in PatchChanges /\ patch' = Append(patch, c) /\ UNCHANGED mr
    BY DEF File
  <2>2. mr \in Seq(MrChanges) /\ patch \in Seq(PatchChanges)
    BY <1>1 DEF RestOK
  <2>3. c \in MrChanges => Append(mr, c) \in Seq(MrChanges)
    BY <2>2, AppendProperties, Zenon
  <2>4. c \in PatchChanges => Append(patch, c) \in Seq(PatchChanges)
    BY <2>2, AppendProperties, Zenon
  <2>. QED
    BY <2>1, <2>2, <2>3, <2>4, Zenon
<1>8. UNCHANGED <<stages, style, misled, phase, mrFiles, mrHunks, verdict>>
  BY DEF File
<1>9. RestOK'
  BY <1>1, <1>6, <1>7, <1>8 DEF RestOK
<1>. QED
  BY <1>3, <1>9 DEF TypeOK, ReadersOK, RestOK, PathOrNone

LEMMA TypeMinus == ASSUME TypeOK, Minus PROVE TypeOK'
<1>1. ReadersOK /\ RestOK /\ writing.due = "minus"
  BY TypeParts DEF Minus
<1>2. Side("a", Change.old) \in Paths \cup {DevNull}
  BY <1>1, CurrentType, SideType
<1>3. ReadersOK'
  BY <1>1, <1>2, MinusTypes DEF Minus
<1>4. /\ writing' = [writing EXCEPT !.due = "plus"]
      /\ UNCHANGED <<stages, style, mr, patch, misled, phase, mrFiles, mrHunks, verdict>>
  BY DEF Minus
<1>5. RestOK'
  BY <1>1, <1>4 DEF RestOK
<1>. QED
  BY <1>3, <1>5 DEF TypeOK, ReadersOK, RestOK, PathOrNone

LEMMA TypePlus == ASSUME TypeOK, Plus PROVE TypeOK'
<1>1. ReadersOK /\ RestOK /\ writing.due = "plus"
  BY TypeParts DEF Plus
<1>2. Side("b", Change.new) \in Paths \cup {DevNull}
  BY <1>1, CurrentType, SideType
<1>3. ReadersOK'
  BY <1>1, <1>2, PlusTypes DEF Plus
<1>4. /\ writing' = [writing EXCEPT !.due = "hunk"]
      /\ UNCHANGED <<stages, style, mr, patch, misled, phase, mrFiles, mrHunks, verdict>>
  BY DEF Plus
<1>5. RestOK'
  BY <1>1, <1>4 DEF RestOK
<1>. QED
  BY <1>3, <1>5 DEF TypeOK, ReadersOK, RestOK, PathOrNone

LEMMA HunkType ==
    ASSUME NEW h \in HunkSet
    PROVE  /\ h.at \in Nat /\ h.removed \in Nat /\ h.added \in Nat /\ h.context \in Nat
           /\ NewLines(h) \in Nat
BY DEF HunkSet, NewLines

\* What is left of a change when its first hunk is written.
LEMMA RestType ==
    ASSUME NEW c \in ChangeSet, c.hunks # << >>
    PROVE  /\ Head(c.hunks) \in HunkSet
           /\ Tail(c.hunks) \in Seq(HunkSet)
           /\ [c EXCEPT !.hunks = Tail(@)] \in ChangeSet
           /\ [c EXCEPT !.hunks = Tail(@)].old = c.old
           /\ [c EXCEPT !.hunks = Tail(@)].new = c.new
           /\ [c EXCEPT !.hunks = Tail(@)].hunks = Tail(c.hunks)
<1>1. c.hunks \in Seq(HunkSet)
  BY DEF ChangeSet
<1>2. Head(c.hunks) \in HunkSet /\ Tail(c.hunks) \in Seq(HunkSet)
  BY <1>1, HeadTailProperties, Zenon
<1>3. [c EXCEPT !.hunks = Tail(c.hunks)] \in ChangeSet
  BY <1>2 DEF ChangeSet
<1>. QED
  BY <1>2, <1>3 DEF ChangeSet

LEMMA TypeHunk == ASSUME TypeOK, Hunk PROVE TypeOK'
<1>. DEFINE h == Head(Change.hunks)
            rest == [Change EXCEPT !.hunks = Tail(@)]
<1>1. ReadersOK /\ RestOK /\ writing.due = "hunk" /\ Change.hunks # << >>
  BY TypeParts DEF Hunk, Written
<1>2. Change \in ChangeSet
  BY <1>1, CurrentType
<1>3. h \in HunkSet /\ rest \in ChangeSet
  BY <1>1, <1>2, RestType
<1>4. /\ ReadHunk(h.at, NewLines(h))
      /\ writing' = [change |-> <<rest>>, due |-> "hunk", removed |-> h.removed, added |-> h.added]
      /\ UNCHANGED <<stages, style, mr, patch, misled, phase, mrFiles, mrHunks, verdict>>
  BY DEF Hunk
<1>. HIDE DEF h, rest
<1>5. h.at \in Nat /\ h.removed \in Nat /\ h.added \in Nat /\ NewLines(h) \in Nat
  BY <1>3, HunkType
<1>6. ReadersOK'
  BY <1>1, <1>4, <1>5, HunkTypes
<1>7. <<rest>> \in Seq(ChangeSet) /\ <<rest>> # << >>
  BY <1>3, SMT
<1>8. writing' \in [change : Seq(ChangeSet), due : {"file", "minus", "plus", "hunk"},
                    removed : Nat, added : Nat] /\ writing'.change # << >>
  BY <1>4, <1>5, <1>7
<1>9. RestOK'
  BY <1>1, <1>4, <1>8 DEF RestOK
<1>. QED
  BY <1>6, <1>9 DEF TypeOK, ReadersOK, RestOK, PathOrNone

LEMMA TextType ==
    ASSUME NEW t \in Text
    PROVE  t \in Paths \cup {DevNull}
BY GatesAssumption

LEMMA TypeRemoved == ASSUME TypeOK, Removed PROVE TypeOK'
<1>1. ReadersOK /\ RestOK /\ writing.due = "hunk" /\ writing.removed > 0
  BY TypeParts DEF Removed
<1>2. /\ \/ ReadChanged("dels") /\ UNCHANGED misled
         \/ \E t \in Text : ReadMinus(t) /\ misled' = misled \cup {"index"}
      /\ writing' = [writing EXCEPT !.removed = @ - 1]
      /\ UNCHANGED <<stages, style, mr, patch, phase, mrFiles, mrHunks, verdict>>
  BY DEF Removed
<1>3. ReadersOK'
  <2>1. CASE ReadChanged("dels")
    BY <1>1, <2>1, ChangedTypes
  <2>2. ASSUME NEW t \in Text, ReadMinus(t) PROVE ReadersOK'
    BY <1>1, <2>2, TextType, MinusTypes
  <2>. QED
    BY <1>2, <2>1, <2>2
<1>4. writing.removed - 1 \in Nat
  <2>1. writing.removed \in Nat
    BY <1>1 DEF RestOK
  <2>. QED
    BY <1>1, <2>1, SMT
<1>5. writing' \in [change : Seq(ChangeSet), due : {"file", "minus", "plus", "hunk"},
                    removed : Nat, added : Nat] /\ writing'.change # << >>
  BY <1>1, <1>2, <1>4 DEF RestOK
<1>6. misled' \subseteq {"index", "paths"}
  BY <1>1, <1>2 DEF RestOK
<1>7. RestOK'
  BY <1>1, <1>2, <1>5, <1>6 DEF RestOK
<1>. QED
  BY <1>3, <1>7 DEF TypeOK, ReadersOK, RestOK, PathOrNone

LEMMA TypeAdded == ASSUME TypeOK, Added PROVE TypeOK'
<1>1. ReadersOK /\ RestOK /\ writing.due = "hunk" /\ writing.added > 0
  BY TypeParts DEF Added
<1>2. /\ \/ ReadChanged("adds") /\ UNCHANGED misled
         \/ \E t \in Text : ReadPlus(t) /\ misled' = {"index", "paths"}
      /\ writing' = [writing EXCEPT !.added = @ - 1]
      /\ UNCHANGED <<stages, style, mr, patch, phase, mrFiles, mrHunks, verdict>>
  BY DEF Added
<1>3. ReadersOK'
  <2>1. CASE ReadChanged("adds")
    BY <1>1, <2>1, ChangedTypes
  <2>2. ASSUME NEW t \in Text, ReadPlus(t) PROVE ReadersOK'
    BY <1>1, <2>2, TextType, PlusTypes
  <2>. QED
    BY <1>2, <2>1, <2>2
<1>4. writing.added - 1 \in Nat
  <2>1. writing.added \in Nat
    BY <1>1 DEF RestOK
  <2>. QED
    BY <1>1, <2>1, SMT
<1>5. writing' \in [change : Seq(ChangeSet), due : {"file", "minus", "plus", "hunk"},
                    removed : Nat, added : Nat] /\ writing'.change # << >>
  BY <1>1, <1>2, <1>4 DEF RestOK
<1>6. misled' \subseteq {"index", "paths"}
  BY <1>1, <1>2 DEF RestOK
<1>7. RestOK'
  BY <1>1, <1>2, <1>5, <1>6 DEF RestOK
<1>. QED
  BY <1>3, <1>7 DEF TypeOK, ReadersOK, RestOK, PathOrNone

LEMMA TypeEndMr == ASSUME TypeOK, EndMr PROVE TypeOK'
<1>1. ReadersOK /\ RestOK
  BY TypeParts
<1>2. files' = NoFiles /\ hunks' = NoHunks /\ index' = NoIndex /\ writing' = Nothing
  BY DEF EndMr
<1>3. ReadersOK'
  BY <1>2, SMT DEF ReadersOK, NoFiles, NoHunks, NoIndex, PathOrNone
<1>4. writing' \in [change : Seq(ChangeSet), due : {"file", "minus", "plus", "hunk"},
                    removed : Nat, added : Nat] /\ writing'.due = "file"
  BY <1>2, SMT DEF Nothing
<1>5. mrFiles' \subseteq Paths /\ mrHunks' \in Seq(RangeSet)
  BY <1>1 DEF EndMr, ReadersOK
<1>6. /\ style' = "git" /\ phase' = "patch" /\ misled' = misled \ {"index"}
      /\ UNCHANGED <<stages, mr, patch, verdict>>
  BY DEF EndMr
<1>7. RestOK'
  BY <1>1, <1>4, <1>5, <1>6 DEF RestOK
<1>. QED
  BY <1>3, <1>7 DEF TypeOK, ReadersOK, RestOK, PathOrNone

LEMMA JudgementType ==
    ASSUME NEW failed
    PROVE  Judgement(failed) \in {"empty", "widen", "dead end", "line scope", "admitted"}
BY DEF Judgement

LEMMA TypeJudge == ASSUME TypeOK, Judge PROVE TypeOK'
<1>1. ReadersOK /\ RestOK
  BY TypeParts
<1>2. /\ phase' = "decided"
      /\ UNCHANGED <<style, writing, mr, patch, misled, files, hunks, index, mrFiles, mrHunks>>
  BY DEF Judge, readers
<1>3. PICK failed \in {{}, {"test"}, {"checkstyle"}} :
          stages' = failed /\ verdict' = Judgement(failed)
  BY DEF Judge
<1>4. stages' \subseteq {"test", "checkstyle"}
  BY <1>3
<1>5. verdict' \in {"none", "empty", "widen", "dead end", "line scope", "admitted"}
  BY <1>3, JudgementType
<1>6. ReadersOK'
  BY <1>1, <1>2 DEF ReadersOK
<1>7. RestOK'
  BY <1>1, <1>2, <1>4, <1>5 DEF RestOK
<1>. QED
  BY <1>6, <1>7 DEF TypeOK, ReadersOK, RestOK, PathOrNone

LEMMA StepTypes == TypeOK /\ [Next]_vars => TypeOK'
<1>. SUFFICES ASSUME TypeOK, [Next]_vars PROVE TypeOK'
  OBVIOUS
<1>1. CASE UNCHANGED vars
  <2>1. ReadersOK /\ RestOK
    BY TypeParts
  <2>2. UNCHANGED <<files, hunks, index>>
        /\ UNCHANGED <<stages, style, writing, mr, patch, misled, phase, mrFiles, mrHunks, verdict>>
    BY <1>1 DEF vars, readers
  <2>3. ReadersOK'
    BY <2>1, <2>2 DEF ReadersOK
  <2>4. RestOK'
    BY <2>1, <2>2 DEF RestOK
  <2>. QED
    BY <2>3, <2>4 DEF TypeOK, ReadersOK, RestOK, PathOrNone
<1>. QED
  BY <1>1, TypeFile, TypeMinus, TypePlus, TypeHunk, TypeRemoved, TypeAdded, TypeEndMr, TypeJudge
     DEF Next

\* Whatever is read, the readers name files of a repository only, never the
\* null side of a change, their ranges have a line, and the index counts only
\* for an entry it has.  (parseDiffFiles, parseDiffHunkRanges, buildDiffIndex.)
THEOREM TypeCorrect == Spec => []TypeOK
BY TypeInit, StepTypes, PTL DEF Spec

-----------------------------------------------------------------------------
(***************************************************************************)
(* The ranges: what parseDiffHunkRanges is at, and what it has and misses.  *)
(***************************************************************************)

\* The name parseDiffHunkRanges files the hunks of a change under.
Recorded(s, c) ==
    IF s = "git"
    THEN IF c.new = DevNull THEN <<"a">> \o c.old
         ELSE IF Rename(c) THEN <<"b">> \o c.new
         ELSE c.new
    ELSE IF c.new = DevNull THEN c.old ELSE c.new

RangeFor(s, c, h) == [file |-> Recorded(s, c), from |-> h.at, to |-> h.at + NewLines(h) - 1]

\* A range was read from a hunk of one of the changes.
ReadFrom(r, s, changes) ==
    \E k \in DOMAIN changes : \E n \in DOMAIN changes[k].hunks :
        /\ NewLines(changes[k].hunks[n]) > 0
        /\ r = RangeFor(s, changes[k], changes[k].hunks[n])

\* A hunk of the change being written is still to come.
Due(h) == writing.due # "file" /\ \E m \in DOMAIN Change.hunks : Change.hunks[m] = h

Disjoint(changes) ==
    \A i, j \in DOMAIN changes : i # j => Sides(changes[i]) \cap Sides(changes[j]) = {}

MinusOf(c) == IF c.old = DevNull THEN NoPath ELSE Side("a", c.old)

\* What is being written is the end of the last change of the diff.
WritingInv ==
    /\ Disjoint(mr) /\ Disjoint(patch)
    /\ phase = "mr" => patch = << >>
    /\ phase # "mr" => style = "git"
    /\ writing.due # "file" =>
          /\ Truth # << >>
          /\ Change.old = Last(Truth).old /\ Change.new = Last(Truth).new
          /\ \A m \in DOMAIN Change.hunks :
                \E n \in DOMAIN Last(Truth).hunks : Last(Truth).hunks[n] = Change.hunks[m]
    /\ writing.due \in {"minus", "plus"} =>
          Change.hunks = Last(Truth).hunks /\ writing.removed = 0 /\ writing.added = 0
    /\ writing.due = "minus" => style = "git"

\* parseDiffHunkRanges is at the file being written.
HeaderInv ==
    /\ writing.due = "plus" =>
          hunks.minus = MinusOf(Change) /\ hunks.null = (Change.old = DevNull)
    /\ writing.due = "hunk" => hunks.cur = Recorded(style, Change)

\* A hunk with lines on the new side has its range, or is to come.
Accounted(k, n) ==
    NewLines(Truth[k].hunks[n]) > 0 =>
        \/ \E i \in DOMAIN hunks.ranges :
              hunks.ranges[i] = RangeFor(style, Truth[k], Truth[k].hunks[n])
        \/ k = Len(Truth) /\ Due(Truth[k].hunks[n])

\* Every range is that of a hunk, and every hunk has its range or is to come.
RangesInv ==
    /\ \A i \in DOMAIN hunks.ranges : ReadFrom(hunks.ranges[i], style, Truth)
    /\ \A k \in DOMAIN Truth : \A n \in DOMAIN Truth[k].hunks : Accounted(k, n)

\* A file of the merge request that is not renamed is found by its own name.
Ranges(k) ==
    ~Rename(mr[k]) /\ mr[k].new # DevNull =>
        \A n \in DOMAIN mr[k].hunks :
            NewLines(mr[k].hunks[n]) > 0 =>
                \E i \in DOMAIN mrHunks :
                   /\ mrHunks[i].file = mr[k].new
                   /\ mrHunks[i].from = mr[k].hunks[n].at
                   /\ mrHunks[i].to = mr[k].hunks[n].at + NewLines(mr[k].hunks[n]) - 1

MrInv ==
    phase # "mr" =>
        /\ \A i \in DOMAIN mrHunks : \E s \in {"git", "glab"} : ReadFrom(mrHunks[i], s, mr)
        /\ \A k \in DOMAIN mr : Ranges(k)

\* Nothing is read after the verdict.
VerdictInv ==
    /\ phase = "decided" => BetweenFiles
    /\ verdict # "none" => phase = "decided"
    /\ verdict = "admitted" /\ IsStaticAnalysisStage(stages) =>
           ValidatePatchLineScope(hunks.ranges, mrHunks)
    /\ verdict = "line scope" => ~ValidatePatchLineScope(hunks.ranges, mrHunks)

\* The ranges are right up to the first added line that looks like a header.
ReadInv ==
    /\ WritingInv
    /\ "paths" \notin misled => HeaderInv /\ RangesInv /\ MrInv

-----------------------------------------------------------------------------
(***************************************************************************)
(* The two path lines of a change.                                          *)
(***************************************************************************)
Plain(c) == \A p \in Sides(c) : Len(p) > 1 => Head(p) \notin {"a", "b"}

\* A repository's own path carries no prefix.
LEMMA PlainHasNoPrefix ==
    ASSUME NEW c, Plain(c), NEW p \in Sides(c), NEW side \in {"a", "b"}
    PROVE  ~HasPrefix(side, p) /\ \A q \in Paths : p # <<side>> \o q
<1>1. ~HasPrefix(side, p)
  BY DEF HasPrefix, Plain
<1>2. \A q \in Paths : HasPrefix(side, <<side>> \o q)
  BY PrefixedIsPath DEF HasPrefix
<1>. QED
  BY <1>1, <1>2

\* At its +++ line the readers find the name of a change from its --- line.
LEMMA PlusName ==
    ASSUME NEW c \in ChangeSet, c.old # DevNull \/ c.new # DevNull, Plain(c), RestOK
    PROVE  /\ c.new # DevNull =>
                NewSide(MinusOf(c), c.old = DevNull, Side("b", c.new)) = Recorded(style, c)
           /\ c.new = DevNull => MinusOf(c) = Recorded(style, c)
           /\ Recorded(style, c) \in Paths
<1>. DEFINE name == Side("b", c.new)
            minus == MinusOf(c)
<1>1. c.old \in Paths \cup {DevNull} /\ c.new \in Paths \cup {DevNull} /\ style \in {"git", "glab"}
  BY DEF ChangeSet, RestOK
<1>2. CASE style = "git" /\ c.new # DevNull /\ c.old # DevNull
  <2>1. c.old \in Paths /\ c.new \in Paths /\ name = <<"b">> \o c.new /\ minus = <<"a">> \o c.old
    BY <1>1, <1>2 DEF Side, Prefixed, MinusOf
  <2>2. /\ HasPrefix("b", name) /\ Tail(name) = c.new
        /\ HasPrefix("a", minus) /\ Tail(minus) = c.old
        /\ name \in Paths
    BY <2>1, PrefixedIsPath DEF HasPrefix
  <2>3. CASE c.old = c.new
    <3>1. NewSide(minus, c.old = DevNull, name) = c.new
      BY <2>2, <2>3 DEF NewSide, Symmetric
    <3>2. Recorded(style, c) = c.new
      BY <1>2, <2>3 DEF Recorded, Rename
    <3>. QED
      BY <1>2, <2>1, <3>1, <3>2
  <2>4. CASE c.old # c.new
    <3>1. NewSide(minus, c.old = DevNull, name) = name
      BY <1>2, <2>2, <2>4 DEF NewSide, Symmetric
    <3>2. Recorded(style, c) = name
      BY <1>2, <2>1, <2>4 DEF Recorded, Rename
    <3>. QED
      BY <1>2, <2>2, <3>1, <3>2
  <2>. QED
    BY <2>3, <2>4
<1>3. CASE style = "git" /\ c.new # DevNull /\ c.old = DevNull
  <2>1. c.new \in Paths /\ name = <<"b">> \o c.new
    BY <1>1, <1>3 DEF Side, Prefixed
  <2>2. HasPrefix("b", name) /\ Tail(name) = c.new
    BY <2>1, PrefixedIsPath DEF HasPrefix
  <2>3. NewSide(minus, c.old = DevNull, name) = c.new
    BY <1>3, <2>2 DEF NewSide
  <2>4. Recorded(style, c) = c.new
    BY <1>3 DEF Recorded, Rename
  <2>. QED
    BY <1>3, <2>1, <2>3, <2>4
<1>4. CASE style = "git" /\ c.new = DevNull
  <2>1. c.old \in Paths /\ minus = <<"a">> \o c.old /\ Recorded(style, c) = <<"a">> \o c.old
    BY <1>1, <1>4 DEF Side, Prefixed, MinusOf, Recorded
  <2>. QED
    BY <1>4, <2>1, PrefixedIsPath
<1>5. CASE style # "git" /\ c.new # DevNull
  <2>1. c.new \in Paths /\ name = c.new /\ c.new \in Sides(c)
    BY <1>1, <1>5 DEF Side, Sides
  <2>2. ~HasPrefix("b", name)
    BY <2>1, PlainHasNoPrefix
  <2>3. NewSide(minus, c.old = DevNull, name) = c.new
    BY <2>1, <2>2 DEF NewSide, Symmetric
  <2>. QED
    BY <1>5, <2>1, <2>3 DEF Recorded
<1>6. CASE style # "git" /\ c.new = DevNull
  <2>1. c.old \in Paths /\ minus = c.old /\ Recorded(style, c) = c.old
    BY <1>1, <1>6 DEF Side, MinusOf, Recorded
  <2>. QED
    BY <1>6, <2>1
<1>. QED
  BY <1>1, <1>2, <1>3, <1>4, <1>5, <1>6

-----------------------------------------------------------------------------
(***************************************************************************)
(* The changes of a diff.                                                   *)
(***************************************************************************)
Changes == MrChanges \cup PatchChanges

LEMMA TruthType ==
    ASSUME TypeOK
    PROVE  mr \in Seq(Changes) /\ patch \in Seq(Changes) /\ Truth \in Seq(Changes)
<1>1. mr \in Seq(MrChanges) /\ patch \in Seq(PatchChanges)
  BY DEF TypeOK
<1>2. mr \in Seq(Changes) /\ patch \in Seq(Changes)
  BY <1>1, SeqMonotonic DEF Changes
<1>. QED
  BY <1>2 DEF Truth

LEMMA SeqFacts ==
    ASSUME NEW S, NEW s \in Seq(S)
    PROVE  /\ Len(s) \in Nat /\ DOMAIN s = 1 .. Len(s)
           /\ \A i \in DOMAIN s : s[i] \in S
           /\ s # << >> => Len(s) \in DOMAIN s /\ Last(s) = s[Len(s)] /\ Last(s) \in S
<1>1. Len(s) \in Nat /\ DOMAIN s = 1 .. Len(s) /\ \A i \in DOMAIN s : s[i] \in S
  BY LenProperties, ElementOfSeq
<1>2. s # << >> => Len(s) \in DOMAIN s
  BY <1>1, SMT
<1>. QED
  BY <1>1, <1>2 DEF Last

LEMMA AppendFacts ==
    ASSUME NEW S, NEW s \in Seq(S), NEW e \in S
    PROVE  /\ Append(s, e) \in Seq(S) /\ Append(s, e) # << >>
           /\ Len(Append(s, e)) = Len(s) + 1
           /\ DOMAIN Append(s, e) = DOMAIN s \cup {Len(s) + 1}
           /\ Len(s) + 1 \notin DOMAIN s
           /\ \A i \in DOMAIN s : Append(s, e)[i] = s[i]
           /\ Append(s, e)[Len(s) + 1] = e
           /\ Last(Append(s, e)) = e
<1>0. /\ Append(s, e) \in Seq(S) /\ Append(s, e) # << >>
      /\ Len(Append(s, e)) = Len(s) + 1
  BY AppendProperties, Zenon
<1>1. /\ Append(s, e) \in Seq(S) /\ Append(s, e) # << >>
      /\ Len(Append(s, e)) = Len(s) + 1
      /\ \A i \in 1 .. Len(s) : Append(s, e)[i] = s[i]
      /\ Append(s, e)[Len(s) + 1] = e
  BY <1>0, SMT
<1>2. Len(s) \in Nat /\ DOMAIN s = 1 .. Len(s)
  BY LenProperties, Zenon
<1>3. DOMAIN Append(s, e) = 1 .. Len(s) + 1
  BY <1>1, LenProperties, Zenon
<1>4. 1 .. Len(s) + 1 = 1 .. Len(s) \cup {Len(s) + 1} /\ Len(s) + 1 \notin 1 .. Len(s)
  BY <1>2, SMT
<1>5. DOMAIN Append(s, e) = DOMAIN s \cup {Len(s) + 1} /\ Len(s) + 1 \notin DOMAIN s
  BY <1>2, <1>3, <1>4, Zenon
<1>6. Last(Append(s, e)) = e
  BY <1>1, Zenon DEF Last
<1>7. \A i \in DOMAIN s : Append(s, e)[i] = s[i]
  BY <1>1, <1>2, Zenon
<1>. QED
  BY <1>1, <1>5, <1>6, <1>7, SMT

\* The change being written, with what is left of its hunks.
LEMMA CurrentFacts ==
    ASSUME TypeOK, WritingInv, writing.due # "file", PlainPaths
    PROVE  /\ Truth \in Seq(Changes) /\ Len(Truth) \in DOMAIN Truth
           /\ Last(Truth) = Truth[Len(Truth)] /\ Last(Truth) \in Changes
           /\ Change \in ChangeSet
           /\ Change.old = Last(Truth).old /\ Change.new = Last(Truth).new
           /\ Change.old # DevNull \/ Change.new # DevNull
           /\ Plain(Change)
           /\ Recorded(style, Change) = Recorded(style, Last(Truth))
<1>1. Truth \in Seq(Changes) /\ Truth # << >>
  BY TruthType DEF WritingInv
<1>2. Len(Truth) \in DOMAIN Truth /\ Last(Truth) = Truth[Len(Truth)] /\ Last(Truth) \in Changes
  BY <1>1, SeqFacts
<1>3. Change \in ChangeSet
  BY CurrentType
<1>4. Change.old = Last(Truth).old /\ Change.new = Last(Truth).new
  BY DEF WritingInv
<1>5. Change.old # DevNull \/ Change.new # DevNull
  BY <1>2, <1>4, ChangeType DEF Changes
<1>6. Plain(Last(Truth))
  BY <1>2 DEF Plain, PlainPaths, Changes
<1>7. Sides(Change) = Sides(Last(Truth))
  BY <1>4 DEF Sides
<1>8. Plain(Change)
  BY <1>6, <1>7 DEF Plain
<1>9. Recorded(style, Change) = Recorded(style, Last(Truth))
  BY <1>4 DEF Recorded, Rename
<1>. QED
  BY <1>1, <1>2, <1>3, <1>4, <1>5, <1>8, <1>9

LEMMA DisjointAppend ==
    ASSUME NEW changes \in Seq(Changes), NEW c \in Changes, Disjoint(changes), NewTo(changes, c)
    PROVE  Disjoint(Append(changes, c))
<1>. DEFINE new == Append(changes, c)
<1>1. /\ DOMAIN new = DOMAIN changes \cup {Len(changes) + 1}
      /\ \A i \in DOMAIN changes : new[i] = changes[i]
      /\ new[Len(changes) + 1] = c
  BY AppendFacts
<1>2. \A i \in DOMAIN changes : Sides(changes[i]) \cap Sides(c) = {}
  BY DEF NewTo
<1>. HIDE DEF new
<1>. SUFFICES ASSUME NEW i \in DOMAIN new, NEW j \in DOMAIN new, i # j
              PROVE  Sides(new[i]) \cap Sides(new[j]) = {}
  BY DEF Disjoint, new
<1>3. CASE i \in DOMAIN changes /\ j \in DOMAIN changes
  BY <1>1, <1>3 DEF Disjoint
<1>4. CASE i \in DOMAIN changes /\ j = Len(changes) + 1
  BY <1>1, <1>2, <1>4
<1>5. CASE j \in DOMAIN changes /\ i = Len(changes) + 1
  BY <1>1, <1>2, <1>5
<1>. QED
  BY <1>1, <1>3, <1>4, <1>5

LEMMA ReadFromAppend ==
    ASSUME NEW changes \in Seq(Changes), NEW c \in Changes, NEW s, NEW r, ReadFrom(r, s, changes)
    PROVE  ReadFrom(r, s, Append(changes, c))
<1>. DEFINE new == Append(changes, c)
<1>1. DOMAIN changes \subseteq DOMAIN new /\ \A i \in DOMAIN changes : new[i] = changes[i]
  BY AppendFacts
<1>. HIDE DEF new
<1>2. ReadFrom(r, s, new)
  BY <1>1 DEF ReadFrom
<1>. QED
  BY <1>2 DEF new

\* What is written of a diff between two files is written whole.
LEMMA NothingDue ==
    ASSUME BetweenFiles, NEW h
    PROVE  ~Due(h)
BY DEF BetweenFiles, Due

-----------------------------------------------------------------------------
(***************************************************************************)
(* The ranges: one lemma for each action.                                   *)
(***************************************************************************)
LEMMA ReadInit == Init => ReadInv
<1>. SUFFICES ASSUME Init PROVE ReadInv
  OBVIOUS
<1>1. mr = << >> /\ patch = << >> /\ phase = "mr" /\ writing.due = "file" /\ hunks.ranges = << >>
  BY DEF Init, Nothing, NoHunks
<1>2. WritingInv
  BY <1>1 DEF WritingInv, Disjoint
<1>3. HeaderInv /\ RangesInv /\ MrInv
  BY <1>1 DEF HeaderInv, RangesInv, MrInv, Truth
<1>. QED
  BY <1>2, <1>3 DEF ReadInv

\* What a new file leaves as it was, and what it begins.
LEMMA FileFacts ==
    ASSUME TypeOK, WritingInv, NEW c \in Changes, File(c)
    PROVE  /\ Truth \in Seq(Changes) /\ NewTo(Truth, c) /\ Truth' = Append(Truth, c)
           /\ phase' = phase /\ style' = style /\ phase # "decided"
           /\ Disjoint(mr)' /\ Disjoint(patch)' /\ (phase = "mr" => patch' = << >>)
           /\ hunks'.ranges = hunks.ranges
           /\ writing'.due \in {"minus", "plus"}
           /\ writing'.removed = 0 /\ writing'.added = 0
           /\ Change' = c
           /\ writing'.due = "minus" => style = "git"
           /\ writing'.due = "plus" => style = "glab" /\ ReadMinus(c.old)
<1>1. Truth \in Seq(Changes) /\ mr \in Seq(Changes) /\ patch \in Seq(Changes)
  BY TruthType
<1>2. phase' = phase /\ style' = style
  BY DEF File
<1>3. \/ /\ phase = "mr" /\ NewTo(mr, c) /\ mr' = Append(mr, c) /\ patch' = patch
      \/ /\ phase = "patch" /\ NewTo(patch, c) /\ patch' = Append(patch, c) /\ mr' = mr
  BY DEF File
<1>4. NewTo(Truth, c) /\ Truth' = Append(Truth, c) /\ phase # "decided"
  BY <1>2, <1>3 DEF Truth
<1>5. Disjoint(mr)' /\ Disjoint(patch)'
  <2>1. Disjoint(mr) /\ Disjoint(patch)
    BY DEF WritingInv
  <2>2. NewTo(mr, c) => Disjoint(Append(mr, c))
    BY <1>1, <2>1, DisjointAppend
  <2>3. NewTo(patch, c) => Disjoint(Append(patch, c))
    BY <1>1, <2>1, DisjointAppend
  <2>4. CASE phase = "mr"
    <3>1. mr' = Append(mr, c) /\ patch' = patch /\ NewTo(mr, c)
      BY <1>3, <2>4
    <3>. QED
      BY <2>1, <2>2, <3>1 DEF Disjoint
  <2>5. CASE phase # "mr"
    <3>1. patch' = Append(patch, c) /\ mr' = mr /\ NewTo(patch, c)
      BY <1>3, <2>5
    <3>. QED
      BY <2>1, <2>3, <3>1 DEF Disjoint
  <2>. QED
    BY <2>4, <2>5
<1>6. phase = "mr" => patch' = << >>
  BY <1>3 DEF WritingInv
<1>7. /\ hunks'.ranges = hunks.ranges
      /\ \/ /\ style = "git"
            /\ writing' = [change |-> <<c>>, due |-> "minus", removed |-> 0, added |-> 0]
         \/ /\ style = "glab" /\ ReadMinus(c.old)
            /\ writing' = [change |-> <<c>>, due |-> "plus", removed |-> 0, added |-> 0]
  <2>1. CASE style = "git"
    <3>1. ReadGit(HeaderName(c)) /\ writing' = [Nothing EXCEPT !.change = <<c>>, !.due = "minus"]
      BY <2>1 DEF File
    <3>. QED
      BY <2>1, <3>1 DEF ReadGit, TypeOK, Nothing
  <2>2. CASE style # "git"
    <3>1. ReadMinus(c.old) /\ writing' = [Nothing EXCEPT !.change = <<c>>, !.due = "plus"]
      BY <2>2 DEF File
    <3>. QED
      BY <2>2, <3>1 DEF ReadMinus, TypeOK, Nothing
  <2>. QED
    BY <2>1, <2>2
<1>8. Change' = c
  BY <1>7 DEF Change
<1>. QED
  BY <1>1, <1>2, <1>4, <1>5, <1>6, <1>7, <1>8

LEMMA ReadFile ==
    ASSUME TypeOK, ReadInv, PlainPaths, NEW c \in Changes, File(c)
    PROVE  ReadInv'
<1>1. WritingInv
  BY DEF ReadInv
<1>2. /\ Truth \in Seq(Changes) /\ Truth' = Append(Truth, c)
      /\ phase' = phase /\ style' = style
      /\ Disjoint(mr)' /\ Disjoint(patch)' /\ (phase = "mr" => patch' = << >>)
      /\ hunks'.ranges = hunks.ranges
      /\ writing'.due \in {"minus", "plus"}
      /\ writing'.removed = 0 /\ writing'.added = 0
      /\ Change' = c
      /\ writing'.due = "minus" => style = "git"
      /\ writing'.due = "plus" => style = "glab" /\ ReadMinus(c.old)
  BY <1>1, FileFacts
<1>3. /\ Truth' # << >> /\ Len(Truth') = Len(Truth) + 1 /\ Last(Truth') = c
      /\ DOMAIN Truth' = DOMAIN Truth \cup {Len(Truth) + 1} /\ Len(Truth) + 1 \notin DOMAIN Truth
      /\ \A i \in DOMAIN Truth : Truth'[i] = Truth[i]
      /\ Truth'[Len(Truth) + 1] = c
  BY <1>2, AppendFacts
<1>4. WritingInv'
  BY <1>1, <1>2, <1>3 DEF WritingInv
<1>5. ASSUME HeaderInv, RangesInv, MrInv, "paths" \notin misled
      PROVE  HeaderInv' /\ RangesInv' /\ MrInv'
  <2>1. HeaderInv'
    <3>1. ReadMinus(c.old) /\ style = "glab" => hunks'.minus = (MinusOf(c))'
                              /\ hunks'.null = (c.old = DevNull)
      BY <1>2 DEF ReadMinus, MinusOf, Side, TypeOK
    <3>. QED
      BY <1>2, <3>1 DEF HeaderInv
  <2>2. \A i \in DOMAIN hunks'.ranges : ReadFrom(hunks'.ranges[i], style', Truth')
    <3>1. \A i \in DOMAIN hunks.ranges : ReadFrom(hunks.ranges[i], style, Truth)
      BY <1>5 DEF RangesInv
    <3>. QED
      BY <1>2, <3>1, ReadFromAppend
  <2>3. ASSUME NEW k \in DOMAIN Truth', NEW n \in DOMAIN Truth'[k].hunks
        PROVE  Accounted(k, n)'
    <3>1. CASE k \in DOMAIN Truth
      <4>1. Truth'[k] = Truth[k]
        BY <1>3, <3>1
      <4>2. ~Due(Truth[k].hunks[n])
        BY NothingDue DEF File
      <4>3. Accounted(k, n)
        BY <1>5, <2>3, <3>1, <4>1 DEF RangesInv
      <4>. QED
        BY <1>2, <4>1, <4>2, <4>3 DEF Accounted
    <3>2. CASE k = Len(Truth) + 1
      <4>1. Truth'[k] = c
        BY <1>3, <3>2
      <4>2. n \in DOMAIN Change'.hunks /\ Change'.hunks[n] = Truth'[k].hunks[n]
        BY <1>2, <2>3, <4>1
      <4>. QED
        BY <1>2, <1>3, <3>2, <4>2 DEF Accounted, Due
    <3>. QED
      BY <1>3, <3>1, <3>2
  <2>4. RangesInv'
    BY <2>2, <2>3 DEF RangesInv
  <2>5. MrInv'
    <3>1. CASE phase = "mr"
      BY <1>2, <3>1 DEF MrInv, Ranges
    <3>2. CASE phase # "mr"
      <4>1. mr' = mr /\ mrHunks' = mrHunks
        BY <3>2 DEF File
      <4>. QED
        BY <1>2, <1>5, <4>1 DEF MrInv, Ranges
    <3>. QED
      BY <3>1, <3>2
  <2>. QED
    BY <2>1, <2>4, <2>5
<1>6. misled' = misled
  BY DEF File
<1>. QED
  BY <1>4, <1>5, <1>6 DEF ReadInv

\* A step that reads no file header and no hunk header keeps the ranges.
LEMMA SameRanges ==
    ASSUME TypeOK, RangesInv, MrInv, writing.due # "file", writing'.due # "file",
           writing'.change = writing.change, hunks'.ranges = hunks.ranges,
           UNCHANGED <<style, mr, patch, phase, mrHunks>>
    PROVE  RangesInv' /\ MrInv'
<1>1. Truth' = Truth /\ Change' = Change
  BY DEF Truth, Change
<1>2. ASSUME NEW k, NEW n PROVE Accounted(k, n) => Accounted(k, n)'
  BY <1>1 DEF Accounted, Due
<1>3. RangesInv'
  <2>1. \A i \in DOMAIN hunks'.ranges : ReadFrom(hunks'.ranges[i], style', Truth')
    BY <1>1 DEF RangesInv
  <2>2. \A k \in DOMAIN Truth : \A n \in DOMAIN Truth[k].hunks : Accounted(k, n)'
    BY <1>2 DEF RangesInv
  <2>. QED
    BY <1>1, <2>1, <2>2 DEF RangesInv
<1>4. MrInv'
  BY DEF MrInv, Ranges
<1>. QED
  BY <1>3, <1>4

LEMMA SameChange ==
    ASSUME TypeOK, WritingInv, writing.due # "file", writing'.due \in {"plus", "hunk"},
           writing'.change = writing.change,
           writing'.due = "plus" => writing.due = "minus" /\ writing'.removed = writing.removed
                                    /\ writing'.added = writing.added,
           UNCHANGED <<style, mr, patch, phase>>
    PROVE  WritingInv'
<1>1. Truth' = Truth /\ Change' = Change
  BY DEF Truth, Change
<1>2. Disjoint(mr)' /\ Disjoint(patch)'
  BY DEF WritingInv, Disjoint
<1>. QED
  BY <1>1, <1>2 DEF WritingInv

LEMMA ReadMinusStep == ASSUME TypeOK, ReadInv, PlainPaths, Minus PROVE ReadInv'
<1>1. /\ writing.due = "minus" /\ ReadMinus(Side("a", Change.old))
      /\ writing' = [writing EXCEPT !.due = "plus"]
      /\ UNCHANGED <<stages, style, mr, patch, misled, phase, mrFiles, mrHunks, verdict>>
  BY DEF Minus
<1>2. /\ writing'.due = "plus" /\ writing'.change = writing.change
      /\ writing'.removed = writing.removed /\ writing'.added = writing.added
  BY <1>1 DEF TypeOK
<1>3. WritingInv'
  BY <1>1, <1>2, SameChange DEF ReadInv
<1>4. hunks'.ranges = hunks.ranges
  BY <1>1 DEF ReadMinus, TypeOK
<1>5. HeaderInv'
  <2>1. Change.old \in Paths \cup {DevNull}
    BY <1>1, CurrentType
  <2>2. Side("a", Change.old) = DevNull <=> Change.old = DevNull
    BY <2>1, SideType
  <2>3. hunks'.minus = MinusOf(Change) /\ hunks'.null = (Change.old = DevNull)
    BY <1>1, <2>2 DEF ReadMinus, MinusOf, TypeOK
  <2>4. Change' = Change
    BY <1>2 DEF Change
  <2>5. MinusOf(Change)' = MinusOf(Change)
    BY <1>1, <2>4 DEF MinusOf, Side
  <2>. QED
    BY <1>2, <2>3, <2>4, <2>5 DEF HeaderInv
<1>6. RangesInv /\ MrInv => RangesInv' /\ MrInv'
  BY <1>1, <1>2, <1>4, SameRanges
<1>. QED
  BY <1>1, <1>3, <1>5, <1>6 DEF ReadInv

LEMMA ReadPlusStep == ASSUME TypeOK, ReadInv, PlainPaths, Plus PROVE ReadInv'
<1>1. /\ writing.due = "plus" /\ ReadPlus(Side("b", Change.new))
      /\ writing' = [writing EXCEPT !.due = "hunk"]
      /\ UNCHANGED <<stages, style, mr, patch, misled, phase, mrFiles, mrHunks, verdict>>
  BY DEF Plus
<1>2. writing'.due = "hunk" /\ writing'.change = writing.change
  BY <1>1 DEF TypeOK
<1>3. WritingInv'
  BY <1>1, <1>2, SameChange DEF ReadInv
<1>4. hunks'.ranges = hunks.ranges /\ hunks' = HunksPlus(Side("b", Change.new))
  BY <1>1 DEF ReadPlus, HunksPlus, TypeOK
<1>5. ASSUME HeaderInv PROVE HeaderInv'
  <2>. DEFINE name == Side("b", Change.new)
  <2>1. /\ Change \in ChangeSet /\ (Change.old # DevNull \/ Change.new # DevNull) /\ Plain(Change)
    BY <1>1, CurrentFacts DEF ReadInv
  <2>2. RestOK
    BY TypeParts
  <2>3. /\ Change.new # DevNull =>
             NewSide(MinusOf(Change), Change.old = DevNull, name) = Recorded(style, Change)
        /\ Change.new = DevNull => MinusOf(Change) = Recorded(style, Change)
    BY <2>1, <2>2, PlusName
  <2>4. name = DevNull <=> Change.new = DevNull
    BY <2>1, SideType DEF ChangeSet
  <2>5. hunks.minus = MinusOf(Change) /\ hunks.null = (Change.old = DevNull)
    BY <1>1, <1>5 DEF HeaderInv
  <2>6. hunks'.cur = IF name = DevNull THEN hunks.minus ELSE NewSide(hunks.minus, hunks.null, name)
    BY <1>4 DEF HunksPlus, TypeOK
  <2>. HIDE DEF name
  <2>7. hunks'.cur = Recorded(style, Change)
    BY <2>3, <2>4, <2>5, <2>6
  <2>8. Change' = Change
    BY <1>2 DEF Change
  <2>. QED
    BY <1>1, <1>2, <2>7, <2>8 DEF HeaderInv
<1>6. RangesInv /\ MrInv => RangesInv' /\ MrInv'
  BY <1>1, <1>2, <1>4, SameRanges
<1>. QED
  BY <1>1, <1>3, <1>5, <1>6 DEF ReadInv

LEMMA ReadRemovedStep == ASSUME TypeOK, ReadInv, Removed PROVE ReadInv'
<1>1. /\ writing.due = "hunk"
      /\ writing' = [writing EXCEPT !.removed = @ - 1]
      /\ \/ ReadChanged("dels") /\ UNCHANGED misled
         \/ \E t \in Text : ReadMinus(t) /\ misled' = misled \cup {"index"}
      /\ UNCHANGED <<stages, style, mr, patch, phase, mrFiles, mrHunks, verdict>>
  BY DEF Removed
<1>2. writing'.due = "hunk" /\ writing'.change = writing.change
  BY <1>1 DEF TypeOK
<1>3. WritingInv'
  BY <1>1, <1>2, SameChange DEF ReadInv
<1>4. hunks'.ranges = hunks.ranges /\ hunks'.cur = hunks.cur
  BY <1>1 DEF ReadChanged, ReadMinus, TypeOK
<1>5. "paths" \notin misled' => "paths" \notin misled
  BY <1>1
<1>6. HeaderInv => HeaderInv'
  <2>1. Change' = Change
    BY <1>2 DEF Change
  <2>. QED
    BY <1>1, <1>2, <1>4, <2>1 DEF HeaderInv
<1>7. RangesInv /\ MrInv => RangesInv' /\ MrInv'
  BY <1>1, <1>2, <1>4, SameRanges
<1>. QED
  BY <1>3, <1>5, <1>6, <1>7 DEF ReadInv

LEMMA ReadAddedStep == ASSUME TypeOK, ReadInv, Added PROVE ReadInv'
<1>1. /\ writing.due = "hunk"
      /\ writing' = [writing EXCEPT !.added = @ - 1]
      /\ \/ ReadChanged("adds") /\ UNCHANGED misled
         \/ \E t \in Text : ReadPlus(t) /\ misled' = {"index", "paths"}
      /\ UNCHANGED <<stages, style, mr, patch, phase, mrFiles, mrHunks, verdict>>
  BY DEF Added
<1>2. writing'.due = "hunk" /\ writing'.change = writing.change
  BY <1>1 DEF TypeOK
<1>3. WritingInv'
  BY <1>1, <1>2, SameChange DEF ReadInv
<1>4. CASE "paths" \in misled'
  BY <1>3, <1>4 DEF ReadInv
<1>5. CASE "paths" \notin misled'
  <2>1. UNCHANGED <<hunks, misled>>
    BY <1>1, <1>5 DEF ReadChanged
  <2>2. HeaderInv => HeaderInv'
    <3>1. Change' = Change
      BY <1>2 DEF Change
    <3>. QED
      BY <1>1, <1>2, <2>1, <3>1 DEF HeaderInv
  <2>3. RangesInv /\ MrInv => RangesInv' /\ MrInv'
    BY <1>1, <1>2, <2>1, SameRanges
  <2>. QED
    BY <1>3, <2>1, <2>2, <2>3 DEF ReadInv
<1>. QED
  BY <1>4, <1>5

LEMMA ReadEndMr == ASSUME TypeOK, ReadInv, EndMr PROVE ReadInv'
<1>1. /\ phase = "mr" /\ phase' = "patch" /\ style' = "git"
      /\ writing'.due = "file" /\ hunks'.ranges = << >> /\ mrHunks' = hunks.ranges
      /\ misled' = misled \ {"index"} /\ UNCHANGED <<mr, patch>>
  BY DEF EndMr, Nothing, NoHunks
<1>2. WritingInv
  BY DEF ReadInv
<1>3. Truth = mr /\ Truth' = << >>
  BY <1>1, <1>2 DEF Truth, WritingInv
<1>4. WritingInv'
  BY <1>1, <1>2 DEF WritingInv, Disjoint
<1>5. HeaderInv' /\ RangesInv'
  BY <1>1, <1>3 DEF HeaderInv, RangesInv
<1>6. RangesInv => MrInv'
  <2>. SUFFICES ASSUME RangesInv PROVE MrInv'
    OBVIOUS
  <2>1. ASSUME NEW i \in DOMAIN mrHunks'
        PROVE  \E s \in {"git", "glab"} : ReadFrom(mrHunks'[i], s, mr')
    <3>1. ReadFrom(hunks.ranges[i], style, mr)
      BY <1>1, <1>3, <2>1 DEF RangesInv
    <3>2. style \in {"git", "glab"}
      BY DEF TypeOK
    <3>. QED
      BY <1>1, <3>1, <3>2
  <2>2. ASSUME NEW k \in DOMAIN mr, ~Rename(mr[k]), mr[k].new # DevNull,
               NEW n \in DOMAIN mr[k].hunks, NewLines(mr[k].hunks[n]) > 0
        PROVE  \E i \in DOMAIN hunks.ranges :
                  /\ hunks.ranges[i].file = mr[k].new
                  /\ hunks.ranges[i].from = mr[k].hunks[n].at
                  /\ hunks.ranges[i].to = mr[k].hunks[n].at + NewLines(mr[k].hunks[n]) - 1
    <3>1. Accounted(k, n) /\ ~Due(mr[k].hunks[n])
      BY <1>3, <2>2, NothingDue DEF RangesInv, EndMr
    <3>2. PICK i \in DOMAIN hunks.ranges : hunks.ranges[i] = RangeFor(style, mr[k], mr[k].hunks[n])
      BY <1>3, <2>2, <3>1 DEF Accounted
    <3>3. Recorded(style, mr[k]) = mr[k].new
      BY <2>2 DEF Recorded
    <3>. QED
      BY <3>2, <3>3 DEF RangeFor
  <2>3. \A k \in DOMAIN mr' : Ranges(k)'
    BY <1>1, <2>2 DEF Ranges
  <2>. QED
    BY <2>1, <2>3 DEF MrInv
<1>7. "paths" \notin misled' => "paths" \notin misled
  BY <1>1
<1>. QED
  BY <1>4, <1>5, <1>6, <1>7 DEF ReadInv

LEMMA ReadJudge == ASSUME TypeOK, ReadInv, Judge PROVE ReadInv'
<1>1. /\ phase = "patch" /\ phase' = "decided"
      /\ UNCHANGED <<style, writing, mr, patch, misled, hunks, mrHunks>>
  BY DEF Judge, readers
<1>2. Truth' = Truth /\ Change' = Change
  BY <1>1 DEF Truth, Change
<1>3. WritingInv'
  BY <1>1, <1>2 DEF ReadInv, WritingInv, Disjoint
<1>4. HeaderInv => HeaderInv'
  <2>1. MinusOf(Change)' = MinusOf(Change)
    BY <1>1, <1>2 DEF MinusOf, Side
  <2>. QED
    BY <1>1, <1>2, <2>1 DEF HeaderInv
<1>5. ASSUME NEW k, NEW n PROVE Accounted(k, n) => Accounted(k, n)'
  BY <1>1, <1>2 DEF Accounted, Due
<1>6. RangesInv => RangesInv'
  BY <1>1, <1>2, <1>5 DEF RangesInv
<1>7. MrInv => MrInv'
  BY <1>1 DEF MrInv, Ranges
<1>. QED
  BY <1>1, <1>3, <1>4, <1>6, <1>7 DEF ReadInv

\* The hunk that is written next is one of the change's, and gets its range.
LEMMA HunkFacts ==
    ASSUME TypeOK, WritingInv, PlainPaths, Hunk
    PROVE  /\ Change.hunks \in Seq(HunkSet) /\ Head(Change.hunks) \in HunkSet
           /\ writing.due = "hunk" /\ writing'.due = "hunk"
           /\ Change'.old = Change.old /\ Change'.new = Change.new
           /\ \A h : (\E m \in DOMAIN Change'.hunks : Change'.hunks[m] = h)
                        => \E m \in DOMAIN Change.hunks : Change.hunks[m] = h
           /\ \A h : (\E m \in DOMAIN Change.hunks : Change.hunks[m] = h)
                        => h = Head(Change.hunks) \/ \E m \in DOMAIN Change'.hunks : Change'.hunks[m] = h
           /\ \E n \in DOMAIN Last(Truth).hunks : Last(Truth).hunks[n] = Head(Change.hunks)
<1>. DEFINE hs == Change.hunks
            h == Head(hs)
            rest == [Change EXCEPT !.hunks = Tail(@)]
<1>1. /\ writing.due = "hunk" /\ hs # << >>
      /\ writing' = [change |-> <<rest>>, due |-> "hunk", removed |-> h.removed, added |-> h.added]
  BY DEF Hunk, Written
<1>2. Change \in ChangeSet /\ hs \in Seq(HunkSet)
  BY <1>1, CurrentType
<1>3. /\ h \in HunkSet /\ rest.old = Change.old /\ rest.new = Change.new /\ rest.hunks = Tail(hs)
  BY <1>1, <1>2, RestType
<1>4. Change' = rest
  BY <1>1 DEF Change
<1>5. Change'.hunks = Tail(hs)
  BY <1>3, <1>4
<1>6. /\ \A m \in DOMAIN Tail(hs) : m + 1 \in DOMAIN hs /\ Tail(hs)[m] = hs[m + 1]
      /\ \A m \in DOMAIN hs : hs[m] = h \/ (m - 1 \in DOMAIN Tail(hs) /\ Tail(hs)[m - 1] = hs[m])
      /\ 1 \in DOMAIN hs /\ hs[1] = h
  BY <1>1, <1>2, SMT
<1>7. \A m \in DOMAIN hs : \E n \in DOMAIN Last(Truth).hunks : Last(Truth).hunks[n] = hs[m]
  BY <1>1 DEF WritingInv
<1>8. writing'.due = "hunk" /\ Change'.old = Change.old /\ Change'.new = Change.new
  BY <1>1, <1>3, <1>4
<1>9. \A g : (\E m \in DOMAIN Change'.hunks : Change'.hunks[m] = g)
                => \E m \in DOMAIN hs : hs[m] = g
  BY <1>5, <1>6
<1>10. \A g : (\E m \in DOMAIN hs : hs[m] = g)
                => g = h \/ \E m \in DOMAIN Change'.hunks : Change'.hunks[m] = g
  BY <1>5, <1>6
<1>11. \E n \in DOMAIN Last(Truth).hunks : Last(Truth).hunks[n] = h
  BY <1>6, <1>7
<1>. HIDE DEF hs, h
<1>. QED
  BY <1>1, <1>2, <1>3, <1>8, <1>9, <1>10, <1>11 DEF hs, h

LEMMA ReadHunkStep == ASSUME TypeOK, ReadInv, PlainPaths, Hunk PROVE ReadInv'
<1>. DEFINE h == Head(Change.hunks)
            r == RangeFor(style, Last(Truth), h)
<1>1. WritingInv
  BY DEF ReadInv
<1>2. /\ Change.hunks \in Seq(HunkSet) /\ h \in HunkSet
      /\ writing.due = "hunk" /\ writing'.due = "hunk"
      /\ Change'.old = Change.old /\ Change'.new = Change.new
      /\ \A g : (\E m \in DOMAIN Change'.hunks : Change'.hunks[m] = g)
                   => \E m \in DOMAIN Change.hunks : Change.hunks[m] = g
      /\ \A g : (\E m \in DOMAIN Change.hunks : Change.hunks[m] = g)
                   => g = h \/ \E m \in DOMAIN Change'.hunks : Change'.hunks[m] = g
      /\ \E n \in DOMAIN Last(Truth).hunks : Last(Truth).hunks[n] = h
  BY <1>1, HunkFacts
<1>3. /\ hunks' = [hunks EXCEPT !.ranges = Ranged(hunks.ranges, hunks.cur, h.at, NewLines(h))]
      /\ UNCHANGED <<style, mr, patch, misled, phase, mrHunks>>
  BY DEF Hunk, ReadHunk
<1>4. /\ Truth \in Seq(Changes) /\ Len(Truth) \in DOMAIN Truth
      /\ Last(Truth) = Truth[Len(Truth)] /\ Last(Truth) \in Changes
      /\ Recorded(style, Change) = Recorded(style, Last(Truth))
  BY <1>1, <1>2, CurrentFacts
<1>5. Truth' = Truth
  BY <1>3 DEF Truth
<1>6. WritingInv'
  <2>1. Disjoint(mr)' /\ Disjoint(patch)'
    BY <1>1, <1>3 DEF WritingInv, Disjoint
  <2>2. /\ Truth # << >> /\ Change.old = Last(Truth).old /\ Change.new = Last(Truth).new
        /\ \A m \in DOMAIN Change.hunks :
              \E n \in DOMAIN Last(Truth).hunks : Last(Truth).hunks[n] = Change.hunks[m]
    BY <1>1, <1>2 DEF WritingInv
  <2>3. \A m \in DOMAIN Change'.hunks :
            \E n \in DOMAIN Last(Truth).hunks : Last(Truth).hunks[n] = Change'.hunks[m]
    BY <1>2, <2>2
  <2>. HIDE DEF h
  <2>. QED
    BY <1>1, <1>2, <1>3, <1>5, <2>1, <2>2, <2>3 DEF WritingInv
<1>7. ASSUME HeaderInv, RangesInv, MrInv
      PROVE  HeaderInv' /\ RangesInv' /\ MrInv'
  <2>1. hunks.cur = Recorded(style, Last(Truth))
    BY <1>2, <1>4, <1>7 DEF HeaderInv
  <2>2. hunks'.cur = hunks.cur
    BY <1>3 DEF TypeOK
  <2>3. Recorded(style, Change)' = Recorded(style, Change)
    BY <1>2, <1>3 DEF Recorded, Rename
  <2>4. HeaderInv'
    BY <1>2, <1>4, <2>1, <2>2, <2>3 DEF HeaderInv
  <2>5. hunks.cur # NoPath
    <3>1. Last(Truth) \in ChangeSet /\ (Last(Truth).old # DevNull \/ Last(Truth).new # DevNull)
      BY <1>4, ChangeType DEF Changes
    <3>2. Plain(Last(Truth))
      BY <1>4 DEF Plain, PlainPaths, Changes
    <3>3. Recorded(style, Last(Truth)) \in Paths
      BY <3>1, <3>2, PlusName, TypeParts
    <3>. QED
      BY <2>1, <3>3, NullIsNoPath
  <2>6. NewLines(h) \in Nat /\ h.at \in Nat
    BY <1>2, HunkType
  <2>7. \/ NewLines(h) = 0 /\ hunks'.ranges = hunks.ranges
        \/ NewLines(h) > 0 /\ hunks'.ranges = Append(hunks.ranges, r)
    <3>1. hunks'.ranges = Ranged(hunks.ranges, hunks.cur, h.at, NewLines(h))
      BY <1>3 DEF TypeOK
    <3>2. NewLines(h) = 0 \/ NewLines(h) > 0
      BY <2>6, SMT
    <3>. QED
      BY <2>1, <2>5, <3>1, <3>2 DEF Ranged, RangeFor
  <2>8. /\ DOMAIN hunks.ranges \subseteq DOMAIN hunks'.ranges
        /\ \A i \in DOMAIN hunks.ranges : hunks'.ranges[i] = hunks.ranges[i]
        /\ \A i \in DOMAIN hunks'.ranges :
              i \in DOMAIN hunks.ranges \/ (NewLines(h) > 0 /\ hunks'.ranges[i] = r)
        /\ NewLines(h) > 0 => \E i \in DOMAIN hunks'.ranges : hunks'.ranges[i] = r
    <3>1. CASE NewLines(h) = 0 /\ hunks'.ranges = hunks.ranges
      BY <3>1
    <3>2. CASE NewLines(h) > 0 /\ hunks'.ranges = Append(hunks.ranges, r)
      <4>. DEFINE rs == Append(hunks.ranges, r)
      <4>1. hunks.ranges \in Seq(RangeSet \cup {r}) /\ r \in RangeSet \cup {r}
        <5>1. hunks.ranges \in Seq(RangeSet)
          BY DEF TypeOK
        <5>. HIDE DEF r
        <5>. QED
          BY <5>1, SeqMonotonic, SMT
      <4>. HIDE DEF r
      <4>2. /\ DOMAIN rs = DOMAIN hunks.ranges \cup {Len(hunks.ranges) + 1}
            /\ \A i \in DOMAIN hunks.ranges : rs[i] = hunks.ranges[i]
            /\ rs[Len(hunks.ranges) + 1] = r
        BY <4>1, AppendFacts
      <4>3. hunks'.ranges = rs
        BY <3>2
      <4>. HIDE DEF rs
      <4>. QED
        BY <3>2, <4>2, <4>3
    <3>. QED
      BY <2>7, <3>1, <3>2
  <2>9. NewLines(h) > 0 => ReadFrom(r, style, Truth)
    BY <1>2, <1>4 DEF ReadFrom
  <2>10. ASSUME NEW k \in DOMAIN Truth, NEW n \in DOMAIN Truth[k].hunks
         PROVE  Accounted(k, n)'
    <3>. DEFINE g == Truth[k].hunks[n]
                q == RangeFor(style, Truth[k], g)
    <3>1. Accounted(k, n)
      BY <1>7, <2>10 DEF RangesInv
    <3>2. SUFFICES ASSUME NewLines(g) > 0
                   PROVE  \/ \E i \in DOMAIN hunks'.ranges : hunks'.ranges[i] = q
                          \/ k = Len(Truth) /\ Due(g)'
      <4>1. Accounted(k, n)' <=>
              (NewLines(g) > 0 =>
                \/ \E i \in DOMAIN hunks'.ranges : hunks'.ranges[i] = q
                \/ k = Len(Truth) /\ writing'.due # "file" /\ \E m \in DOMAIN Change'.hunks : Change'.hunks[m] = g)
        BY <1>3, <1>5 DEF Accounted, Due
      <4>2. Due(g)' <=> writing'.due # "file" /\ \E m \in DOMAIN Change'.hunks : Change'.hunks[m] = g
        BY <1>3, <1>5 DEF Due
      <4>. HIDE DEF g, q
      <4>. QED
        BY <4>1, <4>2
    <3>3. CASE \E i \in DOMAIN hunks.ranges : hunks.ranges[i] = q
      <4>. HIDE DEF q
      <4>. QED
        BY <2>8, <3>3
    <3>4. CASE k = Len(Truth) /\ Due(g) /\ g = h
      <4>1. q = r
        BY <1>4, <3>4
      <4>2. NewLines(h) > 0
        BY <3>2, <3>4
      <4>. HIDE DEF q, r
      <4>. QED
        BY <2>8, <4>1, <4>2
    <3>5. CASE k = Len(Truth) /\ Due(g) /\ g # h
      <4>1. \E m \in DOMAIN Change.hunks : Change.hunks[m] = g
        BY <3>5 DEF Due
      <4>2. \E m \in DOMAIN Change'.hunks : Change'.hunks[m] = g
        BY <1>2, <3>5, <4>1
      <4>3. Due(g)' <=> writing'.due # "file" /\ \E m \in DOMAIN Change'.hunks : Change'.hunks[m] = g
        BY <1>3, <1>5 DEF Due
      <4>. HIDE DEF g
      <4>. QED
        BY <1>2, <3>5, <4>2, <4>3
    <3>. QED
      BY <3>1, <3>2, <3>3, <3>4, <3>5 DEF Accounted
  <2>11. RangesInv'
    <3>1. \A i \in DOMAIN hunks'.ranges : ReadFrom(hunks'.ranges[i], style, Truth)
      <4>. SUFFICES ASSUME NEW i \in DOMAIN hunks'.ranges
                    PROVE  ReadFrom(hunks'.ranges[i], style, Truth)
        OBVIOUS
      <4>1. CASE i \in DOMAIN hunks.ranges
        <5>1. ReadFrom(hunks.ranges[i], style, Truth)
          BY <1>7, <4>1 DEF RangesInv
        <5>. QED
          BY <2>8, <4>1, <5>1
      <4>. HIDE DEF r, h
      <4>2. CASE NewLines(h) > 0 /\ hunks'.ranges[i] = r
        BY <2>9, <4>2
      <4>. QED
        BY <2>8, <4>1, <4>2
    <3>. QED
      BY <1>3, <1>5, <2>10, <3>1 DEF RangesInv
  <2>12. MrInv'
    BY <1>3, <1>7 DEF MrInv, Ranges
  <2>. QED
    BY <2>4, <2>11, <2>12
<1>. QED
  BY <1>3, <1>6, <1>7 DEF ReadInv

LEMMA ReadStep ==
    ASSUME PlainPaths, TypeOK, ReadInv, [Next]_vars
    PROVE  ReadInv'
<1>1. CASE UNCHANGED vars
  <2>1. UNCHANGED <<style, writing, mr, patch, misled, hunks, phase, mrHunks>>
    BY <1>1 DEF vars, readers
  <2>2. Truth' = Truth /\ Change' = Change
    BY <2>1 DEF Truth, Change
  <2>3. WritingInv'
    BY <2>1, <2>2 DEF ReadInv, WritingInv, Disjoint
  <2>4. HeaderInv => HeaderInv'
    <3>1. MinusOf(Change)' = MinusOf(Change)
      BY <2>1, <2>2 DEF MinusOf, Side
    <3>. QED
      BY <2>1, <2>2, <3>1 DEF HeaderInv
  <2>5. ASSUME NEW k, NEW n PROVE Accounted(k, n) => Accounted(k, n)'
    BY <2>1, <2>2 DEF Accounted, Due
  <2>6. RangesInv => RangesInv'
    BY <2>1, <2>2, <2>5 DEF RangesInv
  <2>7. MrInv => MrInv'
    BY <2>1 DEF MrInv, Ranges
  <2>. QED
    BY <2>1, <2>3, <2>4, <2>6, <2>7 DEF ReadInv
<1>. QED
  BY <1>1, ReadFile, ReadMinusStep, ReadPlusStep, ReadHunkStep, ReadRemovedStep, ReadAddedStep,
     ReadEndMr, ReadJudge DEF Next, Changes

-----------------------------------------------------------------------------
(***************************************************************************)
(* The line gate compares the ends of two ranges; this is the same as       *)
(* asking for a line of each within the tolerance of the other.  (Near,     *)
(* validatePatchLineScope.)                                                 *)
(***************************************************************************)
THEOREM NearMeansNearLines ==
    ASSUME NEW a \in Int, NEW b \in Int, NEW c \in Int, NEW d \in Int, a <= b, c <= d
    PROVE  Near(a, b, c, d) <=>
               \E l \in a .. b, m \in c .. d : l <= m + Tolerance /\ m <= l + Tolerance
<1>1. Tolerance \in Int /\ 0 <= Tolerance
  BY GatesAssumption, SMT
<1>2. ASSUME NEW l \in a .. b, NEW m \in c .. d, l <= m + Tolerance, m <= l + Tolerance
      PROVE  Near(a, b, c, d)
  BY <1>1, <1>2, SMT DEF Near
<1>3. ASSUME Near(a, b, c, d)
      PROVE  \E l \in a .. b, m \in c .. d : l <= m + Tolerance /\ m <= l + Tolerance
  <2>1. a <= d + Tolerance /\ c <= b + Tolerance
    BY <1>1, <1>3, SMT DEF Near
  <2>2. CASE b < c
    <3>1. b \in a .. b /\ c \in c .. d
      BY SMT
    <3>2. b <= c + Tolerance /\ c <= b + Tolerance
      BY <1>1, <2>1, <2>2, SMT
    <3>. QED
      BY <3>1, <3>2
  <2>3. CASE d < a
    <3>1. a \in a .. b /\ d \in c .. d
      BY SMT
    <3>2. a <= d + Tolerance /\ d <= a + Tolerance
      BY <1>1, <2>1, <2>3, SMT
    <3>. QED
      BY <3>1, <3>2
  <2>4. CASE c <= b /\ a <= d
    <3>1. CASE a <= c
      <4>1. c \in a .. b /\ c \in c .. d
        BY <2>4, <3>1, SMT
      <4>2. c <= c + Tolerance
        BY <1>1, SMT
      <4>. QED
        BY <4>1, <4>2
    <3>2. CASE c < a
      <4>1. a \in a .. b /\ a \in c .. d
        BY <2>4, <3>2, SMT
      <4>2. a <= a + Tolerance
        BY <1>1, SMT
      <4>. QED
        BY <4>1, <4>2
    <3>. QED
      BY <3>1, <3>2, SMT
  <2>. QED
    BY <2>2, <2>3, <2>4, SMT
<1>. QED
  BY <1>2, <1>3

-----------------------------------------------------------------------------
(***************************************************************************)
(* The verdict.                                                             *)
(***************************************************************************)
LEMMA NothingWritten ==
    ASSUME TypeOK, BetweenFiles
    PROVE  ~Minus /\ ~Plus /\ ~Hunk /\ ~Removed /\ ~Added
<1>1. writing.removed \in Nat /\ writing.added \in Nat
  BY DEF TypeOK
<1>2. \/ writing.due = "file"
      \/ writing.due = "hunk" /\ writing.removed + writing.added = 0 /\ Change.hunks = << >>
      \/ writing.due = "minus" /\ Renamed
  BY DEF BetweenFiles, Written, Renamed
<1>3. ~Minus /\ ~Plus /\ ~Hunk
  BY <1>2 DEF Minus, Plus, Hunk, Written
<1>4. ~Removed /\ ~Added
  BY <1>1, <1>2, SMT DEF Removed, Added
<1>. QED
  BY <1>3, <1>4

LEMMA JudgementInScope ==
    ASSUME NEW failed
    PROVE  /\ Judgement(failed) = "admitted" /\ IsStaticAnalysisStage(failed)
                => ValidatePatchLineScope(hunks.ranges, mrHunks)
           /\ Judgement(failed) = "line scope" => ~ValidatePatchLineScope(hunks.ranges, mrHunks)
BY DEF Judgement

LEMMA VerdictStep ==
    ASSUME TypeOK, VerdictInv, [Next]_vars
    PROVE  VerdictInv'
<1>1. CASE phase = "decided"
  <2>1. UNCHANGED vars
    BY <1>1, NothingWritten DEF VerdictInv, Next, File, EndMr, Judge
  <2>2. UNCHANGED <<phase, verdict, stages, writing, hunks, mrHunks>>
    BY <2>1 DEF vars, readers
  <2>3. BetweenFiles' = BetweenFiles
    BY <2>2 DEF BetweenFiles, Written, Renamed, Change
  <2>4. ValidatePatchLineScope(hunks.ranges, mrHunks)' = ValidatePatchLineScope(hunks.ranges, mrHunks)
    BY <2>2 DEF ValidatePatchLineScope, NearRange
  <2>5. IsStaticAnalysisStage(stages)' = IsStaticAnalysisStage(stages)
    BY <2>2
  <2>. QED
    BY <2>2, <2>3, <2>4, <2>5 DEF VerdictInv
<1>2. CASE phase # "decided" /\ ~Judge
  <2>1. verdict = "none"
    BY <1>2 DEF VerdictInv
  <2>2. UNCHANGED verdict /\ phase' # "decided"
    BY <1>2 DEF Next, File, Minus, Plus, Hunk, Removed, Added, EndMr, vars
  <2>. QED
    BY <2>1, <2>2 DEF VerdictInv
<1>3. CASE Judge
  <2>1. BetweenFiles /\ phase' = "decided" /\ UNCHANGED <<writing, hunks, mrHunks>>
    BY <1>3 DEF Judge, readers
  <2>2. PICK failed : stages' = failed /\ verdict' = Judgement(failed)
    BY <1>3 DEF Judge
  <2>3. BetweenFiles' = BetweenFiles
    BY <2>1 DEF BetweenFiles, Written, Renamed, Change
  <2>4. /\ verdict' = "admitted" /\ IsStaticAnalysisStage(failed)
             => ValidatePatchLineScope(hunks.ranges, mrHunks)
        /\ verdict' = "line scope" => ~ValidatePatchLineScope(hunks.ranges, mrHunks)
    BY <2>2, JudgementInScope
  <2>5. ValidatePatchLineScope(hunks.ranges, mrHunks)' = ValidatePatchLineScope(hunks.ranges, mrHunks)
    BY <2>1 DEF ValidatePatchLineScope, NearRange
  <2>6. IsStaticAnalysisStage(stages)' = IsStaticAnalysisStage(failed)
    BY <2>2
  <2>. QED
    BY <2>1, <2>2, <2>3, <2>4, <2>5, <2>6 DEF VerdictInv
<1>. QED
  BY <1>1, <1>2, <1>3

LEMMA VerdictInit == Init => VerdictInv
BY DEF Init, VerdictInv

\* The name a change is recorded under is one of its own, or carries a prefix
\* of git's; a plain path carries none.
LEMMA RecordedBelongs ==
    ASSUME NEW c \in Changes, NEW s, NEW d, Plain(d), Recorded(s, c) \in Sides(d)
    PROVE  /\ Recorded(s, c) \in Sides(c)
           /\ c.new # DevNull => Recorded(s, c) = c.new
<1>1. c.old \in Paths \cup {DevNull} /\ c.new \in Paths \cup {DevNull}
      /\ (c.old # DevNull \/ c.new # DevNull)
  BY ChangeType DEF Changes
<1>2. \A side \in {"a", "b"}, q \in Paths : Recorded(s, c) # <<side>> \o q
  BY PlainHasNoPrefix
<1>3. "a" \in {"a", "b"} /\ "b" \in {"a", "b"}
  OBVIOUS
<1>4. CASE c.new = DevNull
  <2>1. c.old \in Paths /\ c.old \in Sides(c)
    BY <1>1, <1>4 DEF Sides
  <2>2. Recorded(s, c) = <<"a">> \o c.old \/ Recorded(s, c) = c.old
    BY <1>4 DEF Recorded
  <2>. QED
    BY <1>2, <1>3, <1>4, <2>1, <2>2
<1>5. CASE c.new # DevNull
  <2>1. c.new \in Paths /\ c.new \in Sides(c)
    BY <1>1, <1>5 DEF Sides
  <2>2. Recorded(s, c) = <<"b">> \o c.new \/ Recorded(s, c) = c.new
    BY <1>5 DEF Recorded
  <2>. QED
    BY <1>2, <1>3, <2>1, <2>2
<1>. QED
  BY <1>4, <1>5

\* Between two files the ranges are those of the changes.
LEMMA ReadInvIsExact ==
    ASSUME PlainPaths, TypeOK, ReadInv
    PROVE  RangesExact
<1>. SUFFICES ASSUME BetweenFiles, "paths" \notin misled, NEW i \in DOMAIN Truth,
                     ~(style = "git" /\ Rename(Truth[i])), Truth[i].new # DevNull
              PROVE  RangesFound(hunks.ranges, Truth[i].new) = TrueRanges(Truth[i])
  BY DEF RangesExact
<1>. DEFINE c == Truth[i]
<1>1. Truth \in Seq(Changes) /\ (\A k \in DOMAIN Truth : Truth[k] \in Changes)
  BY TruthType, SeqFacts
<1>2. RangesInv /\ Disjoint(Truth)
  BY DEF ReadInv, WritingInv, Truth
<1>3. Recorded(style, c) = c.new
  BY DEF Recorded
<1>4. c.new \in Sides(c) /\ Plain(c)
  BY <1>1 DEF Sides, Plain, PlainPaths, Changes
<1>5. ASSUME NEW j \in DOMAIN hunks.ranges, hunks.ranges[j].file = c.new
      PROVE  [from |-> hunks.ranges[j].from, to |-> hunks.ranges[j].to] \in TrueRanges(c)
  <2>0. PICK k \in DOMAIN Truth :
            \E n \in DOMAIN Truth[k].hunks :
               /\ NewLines(Truth[k].hunks[n]) > 0
               /\ hunks.ranges[j] = RangeFor(style, Truth[k], Truth[k].hunks[n])
    BY <1>2 DEF RangesInv, ReadFrom
  <2>1. PICK n \in DOMAIN Truth[k].hunks :
            /\ NewLines(Truth[k].hunks[n]) > 0
            /\ hunks.ranges[j] = RangeFor(style, Truth[k], Truth[k].hunks[n])
    BY <2>0
  <2>2. Recorded(style, Truth[k]) = c.new
    BY <1>5, <2>1 DEF RangeFor
  <2>3. Recorded(style, Truth[k]) \in Sides(Truth[k])
    BY <1>1, <1>4, <2>2, RecordedBelongs
  <2>4. k = i
    BY <1>2, <1>4, <2>2, <2>3 DEF Disjoint
  <2>5. [from |-> hunks.ranges[j].from, to |-> hunks.ranges[j].to] = RangeOf(c.hunks[n])
    BY <2>1, <2>4 DEF RangeFor, RangeOf
  <2>. QED
    BY <2>1, <2>4, <2>5 DEF TrueRanges
<1>6. ASSUME NEW n \in DOMAIN c.hunks, NewLines(c.hunks[n]) > 0
      PROVE  RangeOf(c.hunks[n]) \in RangesFound(hunks.ranges, c.new)
  <2>1. Accounted(i, n) /\ ~Due(c.hunks[n])
    BY <1>2, <1>6, NothingDue DEF RangesInv
  <2>2. PICK j \in DOMAIN hunks.ranges : hunks.ranges[j] = RangeFor(style, c, c.hunks[n])
    BY <1>6, <2>1 DEF Accounted
  <2>3. hunks.ranges[j].file = c.new
        /\ [from |-> hunks.ranges[j].from, to |-> hunks.ranges[j].to] = RangeOf(c.hunks[n])
    BY <1>3, <2>2 DEF RangeFor, RangeOf
  <2>. QED
    BY <2>3 DEF RangesFound
<1>. HIDE DEF c
<1>7. RangesFound(hunks.ranges, c.new) \subseteq TrueRanges(c)
  BY <1>5 DEF RangesFound
<1>8. TrueRanges(c) \subseteq RangesFound(hunks.ranges, c.new)
  BY <1>6 DEF TrueRanges
<1>. QED
  BY <1>7, <1>8 DEF c

\* Only a file that is there has lines on the new side.
LEMMA HunksOfAFile ==
    ASSUME NEW c \in Changes, NEW n \in DOMAIN c.hunks
    PROVE  c.hunks[n] \in HunkSet /\ (NewLines(c.hunks[n]) > 0 => c.new # DevNull)
<1>1. IsChange(c) /\ c \in ChangeSet
  BY ChangeType DEF Changes
<1>2. c.hunks \in Seq(HunkSet)
  BY <1>1 DEF ChangeSet
<1>3. c.hunks[n] \in HunkSet
  BY <1>2, SeqFacts
<1>4. NewLines(c.hunks[n]) \in Nat
  BY <1>3, HunkType
<1>5. c.new = DevNull => NewLines(c.hunks[n]) = 0
  BY <1>1 DEF IsChange
<1>. QED
  BY <1>3, <1>4, <1>5, SMT

LEMMA ReadInvKeepsScope ==
    ASSUME PlainPaths, TypeOK, ReadInv, VerdictInv
    PROVE  AdmittedStaysInScope
<1>. SUFFICES ASSUME verdict = "admitted", IsStaticAnalysisStage(stages), "paths" \notin misled,
                     NEW i \in DOMAIN patch, patch[i].old = patch[i].new,
                     IsProductionPath(patch[i].new), NEW j \in DOMAIN patch[i].hunks,
                     NewLines(patch[i].hunks[j]) > 0
              PROVE  InScope(patch[i].new, NewSideLines(patch[i].hunks[j]))
  BY DEF AdmittedStaysInScope
<1>. DEFINE c == patch[i]
            h == c.hunks[j]
<1>1. /\ phase = "decided" /\ BetweenFiles
      /\ ValidatePatchLineScope(hunks.ranges, mrHunks)
  BY DEF VerdictInv
<1>2. Truth = patch /\ style = "git" /\ RangesInv /\ MrInv
  BY <1>1 DEF Truth, ReadInv, WritingInv
<1>3. /\ \A k \in DOMAIN mr : mr[k] \in Changes
      /\ c \in Changes
  BY TruthType, SeqFacts
<1>4. c.new \in Sides(c) /\ Plain(c) /\ h \in HunkSet /\ Recorded(style, c) = c.new
  <2>1. c.new # DevNull /\ c \in ChangeSet
    BY <1>3, ChangeType DEF Changes
  <2>2. c.hunks \in Seq(HunkSet)
    BY <2>1 DEF ChangeSet
  <2>3. h \in HunkSet
    BY <2>2, SeqFacts
  <2>. QED
    BY <1>3, <2>1, <2>3 DEF Sides, Plain, PlainPaths, Changes, Recorded, Rename
<1>5. PICK x \in DOMAIN hunks.ranges : hunks.ranges[x] = RangeFor(style, c, h)
  <2>1. Accounted(i, j) /\ ~Due(h)
    BY <1>1, <1>2, NothingDue DEF RangesInv
  <2>. QED
    BY <1>2, <2>1 DEF Accounted
<1>6. /\ hunks.ranges[x].file = c.new /\ hunks.ranges[x].from = h.at
      /\ hunks.ranges[x].to = h.at + NewLines(h) - 1
  BY <1>4, <1>5 DEF RangeFor
<1>7. PICK y \in DOMAIN mrHunks :
          /\ mrHunks[y].file = c.new
          /\ Near(h.at, h.at + NewLines(h) - 1, mrHunks[y].from, mrHunks[y].to)
  <2>1. NearRange(hunks.ranges[x], mrHunks)
    BY <1>1, <1>6 DEF ValidatePatchLineScope
  <2>. QED
    BY <1>6, <2>1 DEF NearRange
<1>12. PICK s \in {"git", "glab"}, k \in DOMAIN mr :
          \E n \in DOMAIN mr[k].hunks :
             /\ NewLines(mr[k].hunks[n]) > 0
             /\ mrHunks[y] = RangeFor(s, mr[k], mr[k].hunks[n])
  BY <1>1, <1>2 DEF MrInv, ReadFrom
<1>8. PICK n \in DOMAIN mr[k].hunks :
          /\ NewLines(mr[k].hunks[n]) > 0
          /\ mrHunks[y] = RangeFor(s, mr[k], mr[k].hunks[n])
  BY <1>12
<1>. DEFINE d == mr[k]
            g == d.hunks[n]
<1>9. d.new = c.new /\ g \in HunkSet
  <2>1. d \in Changes /\ IsChange(d) /\ d \in ChangeSet
    BY <1>3, ChangeType DEF Changes
  <2>2. d.hunks \in Seq(HunkSet)
    BY <2>1 DEF ChangeSet
  <2>3. g \in HunkSet
    BY <2>2, SeqFacts
  <2>4. d.new # DevNull
    <3>1. NewLines(g) \in Nat /\ NewLines(g) > 0
      BY <1>8, <2>3, HunkType
    <3>2. d.new = DevNull => NewLines(g) = 0
      BY <2>1 DEF IsChange
    <3>. QED
      BY <3>1, <3>2, SMT
  <2>5. Recorded(s, d) = c.new
    BY <1>7, <1>8 DEF RangeFor
  <2>6. Recorded(s, d) = d.new
    BY <1>4, <2>1, <2>4, <2>5, RecordedBelongs
  <2>. QED
    BY <2>3, <2>5, <2>6
<1>10. mrHunks[y].from = g.at /\ mrHunks[y].to = g.at + NewLines(g) - 1
  BY <1>8 DEF RangeFor
<1>11. \E l \in NewSideLines(h), m \in NewSideLines(g) : l <= m + Tolerance /\ m <= l + Tolerance
  <2>1. /\ h.at \in Nat /\ g.at \in Nat /\ NewLines(h) \in Nat /\ NewLines(g) \in Nat
        /\ NewLines(h) > 0 /\ NewLines(g) > 0
    BY <1>4, <1>8, <1>9, HunkType
  <2>2. /\ h.at \in Int /\ h.at + NewLines(h) - 1 \in Int /\ h.at <= h.at + NewLines(h) - 1
        /\ g.at \in Int /\ g.at + NewLines(g) - 1 \in Int /\ g.at <= g.at + NewLines(g) - 1
    BY <2>1, SMT
  <2>3. Near(h.at, h.at + NewLines(h) - 1, g.at, g.at + NewLines(g) - 1)
    BY <1>7, <1>10
  <2>. HIDE DEF h, g
  <2>. QED
    BY <2>2, <2>3, NearMeansNearLines DEF NewSideLines
<1>. QED
  BY <1>9, <1>11 DEF InScope

LEMMA LinesOfARange ==
    ASSUME NEW a \in Nat, NEW n \in Nat, NEW l \in a .. a + n - 1
    PROVE  n > 0 /\ a \in Int /\ a + n - 1 \in Int /\ a <= a + n - 1
OBVIOUS

\* The reason a patch is turned down for.
Reason ==
    \E i \in DOMAIN patch : \E j \in DOMAIN patch[i].hunks :
       /\ NewLines(patch[i].hunks[j]) > 0
       /\ \/ Rename(patch[i])
          \/ /\ IsProductionPath(patch[i].new)
             /\ \/ \E k \in DOMAIN mr : mr[k].new = patch[i].new /\ Rename(mr[k])
                \/ ~InScope(patch[i].new, NewSideLines(patch[i].hunks[j]))

LEMMA RejectionHasReason ==
    ASSUME TypeOK, ReadInv, "paths" \notin misled,
           phase = "decided", ~ValidatePatchLineScope(hunks.ranges, mrHunks)
    PROVE  Reason
<1>1. Truth = patch /\ style = "git" /\ RangesInv /\ MrInv
  BY DEF Truth, ReadInv, WritingInv
<1>2. PICK x \in DOMAIN hunks.ranges :
          IsProductionPath(hunks.ranges[x].file) /\ ~NearRange(hunks.ranges[x], mrHunks)
  BY DEF ValidatePatchLineScope
<1>3. PICK i \in DOMAIN patch : \E n \in DOMAIN patch[i].hunks :
          /\ NewLines(patch[i].hunks[n]) > 0
          /\ hunks.ranges[x] = RangeFor(style, patch[i], patch[i].hunks[n])
  <2>1. ReadFrom(hunks.ranges[x], style, patch)
    BY <1>1 DEF RangesInv
  <2>. QED
    BY <2>1 DEF ReadFrom
<1>4. PICK j \in DOMAIN patch[i].hunks :
          /\ NewLines(patch[i].hunks[j]) > 0
          /\ hunks.ranges[x] = RangeFor(style, patch[i], patch[i].hunks[j])
  BY <1>3
<1>. DEFINE c == patch[i]
            h == c.hunks[j]
<1>5. CASE Rename(c)
  BY <1>4, <1>5 DEF Reason
<1>6. CASE ~Rename(c)
  <2>1. c \in Changes /\ \A k \in DOMAIN mr : mr[k] \in Changes
    BY TruthType, SeqFacts
  <2>2. h \in HunkSet /\ c.new # DevNull
    BY <1>4, <2>1, HunksOfAFile
  <2>3. /\ hunks.ranges[x].file = c.new /\ hunks.ranges[x].from = h.at
        /\ hunks.ranges[x].to = h.at + NewLines(h) - 1
    <3>1. Recorded(style, c) = c.new
      BY <1>6, <2>2 DEF Recorded
    <3>. QED
      BY <1>4, <2>2, <3>1 DEF RangeFor
  <2>. SUFFICES ASSUME ~Reason PROVE FALSE
    OBVIOUS
  <2>4. /\ InScope(c.new, NewSideLines(h))
        /\ \A k \in DOMAIN mr : mr[k].new = c.new => ~Rename(mr[k])
    <3>1. IsProductionPath(c.new)
      BY <1>2, <2>3
    <3>. QED
      BY <1>4, <3>1 DEF Reason
  <2>5. PICK k \in DOMAIN mr :
            /\ mr[k].new = c.new
            /\ \E n \in DOMAIN mr[k].hunks :
                  \E l \in NewSideLines(h), m \in NewSideLines(mr[k].hunks[n]) :
                     l <= m + Tolerance /\ m <= l + Tolerance
    BY <2>4 DEF InScope
  <2>6. PICK n \in DOMAIN mr[k].hunks :
            \E l \in NewSideLines(h), m \in NewSideLines(mr[k].hunks[n]) :
                l <= m + Tolerance /\ m <= l + Tolerance
    BY <2>5
  <2>7. PICK l \in NewSideLines(h), m \in NewSideLines(mr[k].hunks[n]) :
            l <= m + Tolerance /\ m <= l + Tolerance
    BY <2>6
  <2>. DEFINE d == mr[k]
              g == d.hunks[n]
  <2>8. g \in HunkSet
    BY <2>1, HunksOfAFile
  <2>9. /\ h.at \in Nat /\ g.at \in Nat /\ NewLines(h) \in Nat /\ NewLines(g) \in Nat
        /\ NewLines(h) > 0
    BY <1>4, <2>2, <2>8, HunkType
  <2>10. m \in g.at .. g.at + NewLines(g) - 1 /\ l \in h.at .. h.at + NewLines(h) - 1
    BY DEF NewSideLines
  <2>. HIDE DEF h, g
  <2>11. /\ NewLines(g) > 0
        /\ h.at \in Int /\ h.at + NewLines(h) - 1 \in Int /\ h.at <= h.at + NewLines(h) - 1
        /\ g.at \in Int /\ g.at + NewLines(g) - 1 \in Int /\ g.at <= g.at + NewLines(g) - 1
    BY <2>9, <2>10, LinesOfARange
  <2>12. Near(h.at, h.at + NewLines(h) - 1, g.at, g.at + NewLines(g) - 1)
    BY <2>7, <2>10, <2>11, NearMeansNearLines
  <2>13. PICK y \in DOMAIN mrHunks :
            /\ mrHunks[y].file = c.new /\ mrHunks[y].from = g.at
            /\ mrHunks[y].to = g.at + NewLines(g) - 1
    <3>1. Ranges(k)
      BY <1>1 DEF MrInv
    <3>. QED
      BY <2>2, <2>4, <2>5, <2>11, <3>1 DEF Ranges, g
  <2>14. NearRange(hunks.ranges[x], mrHunks)
    BY <2>3, <2>12, <2>13 DEF NearRange
  <2>. QED
    BY <1>2, <2>14
<1>. QED
  BY <1>5, <1>6

LEMMA ReadInvGivesReason ==
    ASSUME TypeOK, ReadInv, VerdictInv
    PROVE  RejectedLeavesScope
<1>1. phase = "decided" /\ "paths" \notin misled /\ ~ValidatePatchLineScope(hunks.ranges, mrHunks)
         => Reason
  BY RejectionHasReason
<1>2. verdict = "line scope" => phase = "decided" /\ ~ValidatePatchLineScope(hunks.ranges, mrHunks)
  BY Zenon DEF VerdictInv
<1>. QED
  BY <1>1, <1>2, Zenon DEF RejectedLeavesScope, Reason

\* What is offered to the agent as repairable the line gate admits.
LEMMA LeastIndex ==
    ASSUME NEW S \in SUBSET Nat, S # {}
    PROVE  (CHOOSE i \in S : \A j \in S : i <= j) \in S
<1>1. PICK n \in S : \A m \in S : <<m, n>> \notin OpToRel(<, Nat)
  BY WFMin, NatLessThanWellFounded, Zenon
<1>2. \A m \in S : n <= m
  <2>1. n \in Nat /\ \A m \in S : m \in Nat /\ ~(m < n)
    BY <1>1 DEF OpToRel
  <2>. QED
    BY <2>1, SMT
<1>. QED
  BY <1>2

LEMMA ResolvedIsIt ==
    ASSUME NEW ranges \in Seq(RangeSet), NEW name, NEW path,
           \A i \in DOMAIN ranges :
              IsEnd(ranges[i].file, name) \/ IsEnd(name, ranges[i].file) => ranges[i].file = path
    PROVE  ResolveDiffPath(name, ranges) \in {path, NoPath}
<1>. DEFINE fits == {i \in DOMAIN ranges : IsEnd(ranges[i].file, name) \/ IsEnd(name, ranges[i].file)}
            same == {i \in fits : ranges[i].file = name}
            first == CHOOSE i \in fits : \A j \in fits : i <= j
<1>1. \A i \in fits : ranges[i].file = path
  OBVIOUS
<1>2. fits \in SUBSET Nat
  BY SeqFacts
<1>3. fits # {} => first \in fits
  <2>. HIDE DEF fits
  <2>. QED
    BY <1>2, LeastIndex
<1>4. ResolveDiffPath(name, ranges) = IF same # {} THEN name
                                       ELSE IF fits = {} THEN NoPath
                                       ELSE ranges[first].file
  BY DEF ResolveDiffPath
<1>5. same # {} => name = path
  BY <1>1
<1>. HIDE DEF fits, same, first
<1>. QED
  BY <1>1, <1>3, <1>4, <1>5

LEMMA TypeOffers == TypeOK => OfferedIsAdmitted
<1>. SUFFICES ASSUME TypeOK, NEW v \in Violations, NEW reported,
                     IsLineInMrDiffScope(reported, v.line, mrHunks),
                     \A i \in DOMAIN mrHunks :
                        IsEnd(mrHunks[i].file, reported) \/ IsEnd(reported, mrHunks[i].file)
                            => mrHunks[i].file = v.path
              PROVE  ValidatePatchLineScope(<<[file |-> v.path, from |-> v.line, to |-> v.line]>>, mrHunks)
  BY DEF OfferedIsAdmitted
<1>. DEFINE line == [file |-> v.path, from |-> v.line, to |-> v.line]
<1>1. mrHunks \in Seq(RangeSet) /\ \A i \in DOMAIN mrHunks : mrHunks[i] \in RangeSet
  BY SeqFacts DEF TypeOK
<1>2. PICK i \in DOMAIN mrHunks :
          /\ mrHunks[i].file = ResolveDiffPath(reported, mrHunks)
          /\ v.line >= mrHunks[i].from - Tolerance
          /\ v.line <= mrHunks[i].to + Tolerance
  BY DEF IsLineInMrDiffScope
<1>3. mrHunks[i].file = v.path
  <2>1. ResolveDiffPath(reported, mrHunks) \in {v.path, NoPath}
    BY <1>1, ResolvedIsIt
  <2>2. mrHunks[i].file \in Paths
    BY <1>1 DEF RangeSet
  <2>. QED
    BY <1>2, <2>1, <2>2, NullIsNoPath
<1>4. NearRange(line, mrHunks)
  BY <1>2, <1>3 DEF NearRange, Near
<1>. QED
  BY <1>4 DEF ValidatePatchLineScope

-----------------------------------------------------------------------------
(***************************************************************************)
(* How many lines some hunks remove or add.                                 *)
(***************************************************************************)
Cells(hs, field) == UNION {{j} \X (1 .. hs[j][field]) : j \in DOMAIN hs}

LEMMA CellsOf ==
    ASSUME NEW hs, NEW field, NEW p
    PROVE  p \in Cells(hs, field) <=> \E j \in DOMAIN hs : \E x \in 1 .. hs[j][field] : p = <<j, x>>
BY DEF Cells

LEMMA LinesOf ==
    ASSUME NEW hs \in Seq(HunkSet), NEW field \in {"added", "removed"}, NEW j \in DOMAIN hs
    PROVE  hs[j][field] \in Nat
<1>1. hs[j] \in HunkSet
  BY SeqFacts
<1>. QED
  BY <1>1 DEF HunkSet

LEMMA CellsFinite ==
    ASSUME NEW hs \in Seq(HunkSet), NEW field \in {"added", "removed"}
    PROVE  IsFiniteSet(Cells(hs, field))
<1>. DEFINE rows == {{j} \X (1 .. hs[j][field]) : j \in DOMAIN hs}
            row  == [j \in DOMAIN hs |-> {j} \X (1 .. hs[j][field])]
<1>1. IsFiniteSet(DOMAIN hs)
  <2>1. Len(hs) \in Nat /\ DOMAIN hs = 1 .. Len(hs)
    BY SeqFacts
  <2>2. 1 \in Int /\ Len(hs) \in Int
    BY <2>1, SMT
  <2>. QED
    BY <2>1, <2>2, FS_Interval
<1>2. row \in Surjection(DOMAIN hs, rows)
  BY DEF Surjection
<1>3. IsFiniteSet(rows)
  <2>. HIDE DEF rows, row
  <2>. QED
    BY <1>1, <1>2, FS_Surjection
<1>4. ASSUME NEW j \in DOMAIN hs PROVE IsFiniteSet({j} \X (1 .. hs[j][field]))
  <2>1. hs[j][field] \in Int /\ 1 \in Int
    BY LinesOf
  <2>2. IsFiniteSet(1 .. hs[j][field])
    BY <2>1, FS_Interval
  <2>3. IsFiniteSet({j})
    BY FS_Singleton
  <2>. QED
    BY <2>2, <2>3, FS_Product
<1>5. \A T \in rows : IsFiniteSet(T)
  BY <1>4
<1>6. Cells(hs, field) = UNION rows
  BY DEF Cells
<1>. HIDE DEF rows
<1>. QED
  BY <1>3, <1>5, <1>6, FS_UNION

LEMMA CountIsCells ==
    ASSUME NEW hs, NEW field
    PROVE  Count(hs, field) = Cardinality(Cells(hs, field))
BY DEF Count, Cells

LEMMA CountNone ==
    ASSUME NEW field
    PROVE  Count(<< >>, field) = 0
<1>1. Cells(<< >>, field) = {}
  BY DEF Cells
<1>. QED
  BY <1>1, CountIsCells, FS_EmptySet

\* The lines of the hunks are those of the first and those of the rest.
LEMMA CountHead ==
    ASSUME NEW hs \in Seq(HunkSet), hs # << >>, NEW field \in {"added", "removed"}
    PROVE  /\ Count(hs, field) = Head(hs)[field] + Count(Tail(hs), field)
           /\ Count(Tail(hs), field) \in Nat /\ Head(hs)[field] \in Nat
<1>. DEFINE ts    == Tail(hs)
            first == {1} \X (1 .. Head(hs)[field])
            more  == {p \in Cells(hs, field) : p[1] # 1}
            shift == [p \in Cells(ts, field) |-> <<p[1] + 1, p[2]>>]
<1>1. /\ ts \in Seq(HunkSet) /\ 1 \in DOMAIN hs /\ hs[1] = Head(hs)
      /\ \A j \in DOMAIN ts : j \in Nat /\ j # 0 /\ j + 1 \in DOMAIN hs /\ ts[j] = hs[j + 1]
      /\ \A j \in DOMAIN hs : j \in Nat /\ (j # 1 => j - 1 \in DOMAIN ts /\ ts[j - 1] = hs[j])
  BY SMT
<1>. HIDE DEF ts
<1>2. Head(hs)[field] \in Nat
  BY <1>1, LinesOf
<1>3. Cells(hs, field) = first \cup more /\ first \cap more = {}
  <2>1. \A p \in Cells(hs, field) : p \in first \/ p \in more
    <3>. SUFFICES ASSUME NEW p \in Cells(hs, field), p[1] = 1 PROVE p \in first
      OBVIOUS
    <3>1. PICK j \in DOMAIN hs : \E x \in 1 .. hs[j][field] : p = <<j, x>>
      BY CellsOf
    <3>2. PICK x \in 1 .. hs[j][field] : p = <<j, x>>
      BY <3>1
    <3>3. j = 1
      BY <3>2
    <3>. QED
      BY <1>1, <3>2, <3>3
  <2>2. \A p \in first : p \in Cells(hs, field) /\ p[1] = 1
    <3>. SUFFICES ASSUME NEW x \in 1 .. Head(hs)[field]
                  PROVE  <<1, x>> \in Cells(hs, field)
      OBVIOUS
    <3>. QED
      BY <1>1, CellsOf
  <2>. QED
    BY <2>1, <2>2
<1>4. shift \in Bijection(Cells(ts, field), more)
  <2>1. \A p \in Cells(ts, field) :
            /\ p = <<p[1], p[2]>> /\ p[1] \in DOMAIN ts
            /\ p[2] \in 1 .. ts[p[1]][field]
    <3>. SUFFICES ASSUME NEW p \in Cells(ts, field)
                  PROVE  /\ p = <<p[1], p[2]>> /\ p[1] \in DOMAIN ts
                         /\ p[2] \in 1 .. ts[p[1]][field]
      OBVIOUS
    <3>1. PICK j \in DOMAIN ts : \E x \in 1 .. ts[j][field] : p = <<j, x>>
      BY CellsOf
    <3>2. PICK x \in 1 .. ts[j][field] : p = <<j, x>>
      BY <3>1
    <3>. QED
      BY <3>2
  <2>2. shift \in [Cells(ts, field) -> more]
    <3>. SUFFICES ASSUME NEW p \in Cells(ts, field)
                  PROVE  <<p[1] + 1, p[2]>> \in more
      OBVIOUS
    <3>1. /\ p[1] \in Nat /\ p[1] # 0 /\ p[1] + 1 \in DOMAIN hs
          /\ p[2] \in 1 .. hs[p[1] + 1][field]
      BY <1>1, <2>1
    <3>2. <<p[1] + 1, p[2]>> \in Cells(hs, field)
      BY <3>1, CellsOf
    <3>3. <<p[1] + 1, p[2]>>[1] # 1
      BY <3>1, SMT
    <3>. QED
      BY <3>2, <3>3
  <2>3. IsInjective(shift)
    <3>. SUFFICES ASSUME NEW p \in Cells(ts, field), NEW q \in Cells(ts, field),
                         <<p[1] + 1, p[2]>> = <<q[1] + 1, q[2]>>
                  PROVE  p = q
      BY DEF IsInjective
    <3>1. p[1] \in Nat /\ q[1] \in Nat
      BY <1>1, <2>1
    <3>2. p[1] + 1 = q[1] + 1 /\ p[2] = q[2]
      OBVIOUS
    <3>3. p[1] = q[1]
      BY <3>1, <3>2, SMT
    <3>4. p = <<p[1], p[2]>> /\ q = <<q[1], q[2]>>
      BY <2>1
    <3>. QED
      BY <3>2, <3>3, <3>4
  <2>4. \A p \in more : \E q \in Cells(ts, field) : shift[q] = p
    <3>. SUFFICES ASSUME NEW p \in more
                  PROVE  \E q \in Cells(ts, field) : <<q[1] + 1, q[2]>> = p
      OBVIOUS
    <3>1. PICK j \in DOMAIN hs : \E x \in 1 .. hs[j][field] : p = <<j, x>>
      BY CellsOf
    <3>2. PICK x \in 1 .. hs[j][field] : p = <<j, x>>
      BY <3>1
    <3>3. j # 1
      BY <3>2
    <3>4. j \in Nat /\ j - 1 \in DOMAIN ts /\ ts[j - 1] = hs[j]
      BY <1>1, <3>3
    <3>5. <<j - 1, x>> \in Cells(ts, field)
      BY <3>2, <3>4, CellsOf
    <3>6. <<j - 1, x>>[1] + 1 = j /\ <<j - 1, x>>[2] = x
      BY <3>4, SMT
    <3>. QED
      BY <3>2, <3>5, <3>6
  <2>. HIDE DEF shift, more
  <2>. QED
    BY <2>2, <2>3, <2>4 DEF Bijection, Injection, Surjection
<1>5. IsFiniteSet(Cells(ts, field))
  BY <1>1, CellsFinite
<1>. HIDE DEF shift
<1>6. IsFiniteSet(more) /\ Cardinality(more) = Cardinality(Cells(ts, field))
  <2>1. ExistsBijection(Cells(ts, field), more)
    BY <1>4 DEF ExistsBijection
  <2>. HIDE DEF more
  <2>. QED
    BY <1>5, <2>1, FS_Bijection
<1>7. IsFiniteSet(first) /\ Cardinality(first) = Head(hs)[field]
  <2>1. IsFiniteSet(1 .. Head(hs)[field]) /\ Cardinality(1 .. Head(hs)[field]) = Head(hs)[field]
    <3>. DEFINE n == Head(hs)[field]
    <3>1. n \in Nat /\ n \in Int /\ 1 \in Int
      BY <1>2
    <3>. HIDE DEF n
    <3>2. IsFiniteSet(1 .. n) /\ Cardinality(1 .. n) = IF 1 > n THEN 0 ELSE n - 1 + 1
      BY <3>1, FS_Interval
    <3>3. IsFiniteSet(1 .. n) /\ Cardinality(1 .. n) = n
      BY <3>1, <3>2, SMT
    <3>. QED
      BY <3>3 DEF n
  <2>2. IsFiniteSet({1}) /\ Cardinality({1}) = 1
    BY FS_Singleton
  <2>3. /\ IsFiniteSet({1} \X (1 .. Head(hs)[field]))
        /\ Cardinality({1} \X (1 .. Head(hs)[field]))
             = Cardinality({1}) * Cardinality(1 .. Head(hs)[field])
    BY <2>1, <2>2, FS_Product
  <2>. QED
    BY <1>2, <2>1, <2>2, <2>3
<1>8. Cardinality(Cells(ts, field)) \in Nat
  BY <1>5, FS_CardinalityType
<1>. HIDE DEF first, more
<1>9. Cardinality(first \cup more) = Cardinality(first) + Cardinality(more) - Cardinality({})
  BY <1>3, <1>6, <1>7, FS_Union
<1>10. Cardinality(Cells(hs, field)) = Head(hs)[field] + Cardinality(Cells(ts, field))
  <2>1. Cardinality({}) = 0
    BY FS_EmptySet
  <2>. QED
    BY <1>2, <1>3, <1>6, <1>7, <1>8, <1>9, <2>1
<1>. QED
  BY <1>2, <1>8, <1>10, CountIsCells DEF ts

LEMMA CountType ==
    ASSUME NEW hs \in Seq(HunkSet), NEW field \in {"added", "removed"}
    PROVE  Count(hs, field) \in Nat
BY CellsFinite, CountIsCells, FS_CardinalityType

-----------------------------------------------------------------------------
(***************************************************************************)
(* The index.  The entries of a file are those with one of its names: where *)
(* git's header and path lines each open an entry, the last one counts.     *)
(***************************************************************************)
Names(k) == NamesOf(mr[k])
Ours(k)  == EntriesOf(mr[k])

Empty(e) == index.entries[e].adds = 0 /\ index.entries[e].dels = 0

HasLinesOf(e, k) ==
    /\ index.entries[e].adds = Count(mr[k].hunks, "added")
    /\ index.entries[e].dels = Count(mr[k].hunks, "removed")

Listed(k) == \E e \in Ours(k) : HasLinesOf(e, k) /\ \A f \in Ours(k) \ {e} : Empty(f)

\* What the entry has, and what is still to come for it.
Counting(e, k) ==
    /\ index.entries[e].adds + writing.added + Count(Change.hunks, "added")
          = Count(mr[k].hunks, "added")
    /\ index.entries[e].dels + writing.removed + Count(Change.hunks, "removed")
          = Count(mr[k].hunks, "removed")

\* The file being written, from its header to the last of its hunks.
BeingListed(k) ==
    /\ writing.due \in {"minus", "plus"} => \A e \in Ours(k) : Empty(e)
    /\ writing.due = "minus" => Ours(k) # {}
    /\ writing.due = "plus" =>
          index.minus = MinusOf(Change) /\ index.null = (Change.old = DevNull)
    /\ writing.due = "hunk" =>
          /\ index.open /\ Len(index.entries) \in Ours(k)
          /\ \A f \in Ours(k) \ {Len(index.entries)} : Empty(f)
          /\ Counting(Len(index.entries), k)

EntriesNamed == \A e \in DOMAIN index.entries : \E k \in DOMAIN mr : e \in Ours(k)

IndexInv ==
    phase = "mr" /\ misled = {} =>
        /\ EntriesNamed
        /\ \A k \in DOMAIN mr : (k = Len(mr) /\ writing.due # "file") \/ Listed(k)
        /\ writing.due # "file" => BeingListed(Len(mr))

LEMMA NameOrigin ==
    ASSUME RestOK, NEW c \in Changes, NEW p \in Paths, p \in NamesOf(c)
    PROVE  p \in Sides(c) \/ \E side \in {"a", "b"}, q \in Paths : q \in Sides(c) /\ p = <<side>> \o q
<1>1. c.old \in Paths \cup {DevNull} /\ c.new \in Paths \cup {DevNull} /\ p # DevNull
  BY ChangeType, NullIsNoPath DEF Changes
<1>2. "a" \in {"a", "b"} /\ "b" \in {"a", "b"}
  OBVIOUS
<1>3. CASE p = Side("a", c.old)
  <2>1. CASE style = "git"
    <3>1. c.old # DevNull /\ p = <<"a">> \o c.old
      BY <1>1, <1>3, <2>1 DEF Side, Prefixed
    <3>. QED
      BY <1>1, <1>2, <3>1 DEF Sides
  <2>2. CASE style # "git"
    BY <1>1, <1>3, <2>2 DEF Side, Sides
  <2>. QED
    BY <2>1, <2>2
<1>4. CASE p = Side("b", c.new)
  <2>1. CASE style = "git"
    <3>1. c.new # DevNull /\ p = <<"b">> \o c.new
      BY <1>1, <1>4, <2>1 DEF Side, Prefixed
    <3>. QED
      BY <1>1, <1>2, <3>1 DEF Sides
  <2>2. CASE style # "git"
    BY <1>1, <1>4, <2>2 DEF Side, Sides
  <2>. QED
    BY <2>1, <2>2
<1>. QED
  BY <1>3, <1>4 DEF NamesOf

\* Two files of a diff share no name, prefixed or not.
LEMMA NamesApart ==
    ASSUME RestOK, NEW c \in Changes, NEW d \in Changes, Plain(c), Plain(d),
           Sides(c) \cap Sides(d) = {}, NEW p \in Paths, p \in NamesOf(c)
    PROVE  p \notin NamesOf(d)
<1>. SUFFICES ASSUME p \in NamesOf(d) PROVE FALSE
  OBVIOUS
<1>1. p \in Sides(c) \/ \E side \in {"a", "b"}, q \in Paths : q \in Sides(c) /\ p = <<side>> \o q
  BY NameOrigin
<1>2. p \in Sides(d) \/ \E side \in {"a", "b"}, q \in Paths : q \in Sides(d) /\ p = <<side>> \o q
  BY NameOrigin
<1>3. CASE p \in Sides(c)
  <2>1. \A side \in {"a", "b"}, q \in Paths : p # <<side>> \o q
    BY <1>3, PlainHasNoPrefix
  <2>. QED
    BY <1>2, <1>3, <2>1
<1>4. CASE p \in Sides(d)
  <2>1. \A side \in {"a", "b"}, q \in Paths : p # <<side>> \o q
    BY <1>4, PlainHasNoPrefix
  <2>. QED
    BY <1>1, <1>4, <2>1
<1>5. ASSUME NEW s \in {"a", "b"}, NEW q \in Paths, q \in Sides(c), p = <<s>> \o q,
             NEW t \in {"a", "b"}, NEW r \in Paths, r \in Sides(d), p = <<t>> \o r
      PROVE  FALSE
  <2>1. Tail(p) = q /\ Tail(p) = r
    BY <1>5, PrefixedIsPath
  <2>. QED
    BY <1>5, <2>1
<1>. QED
  BY <1>1, <1>2, <1>3, <1>4, <1>5

LEMMA RecordedIsName ==
    ASSUME RestOK, NEW c \in Changes
    PROVE  Recorded(style, c) \in NamesOf(c) /\ HeaderName(c) \in NamesOf(c)
<1>1. c.old # DevNull \/ c.new # DevNull
  BY ChangeType DEF Changes
<1>2. HeaderName(c) \in Sides(c)
  BY <1>1 DEF HeaderName, Sides
<1>3. \/ Recorded(style, c) \in Sides(c)
      \/ Recorded(style, c) = Side("a", c.old) \/ Recorded(style, c) = Side("b", c.new)
  BY <1>1 DEF Recorded, Sides, Side, Prefixed
<1>. QED
  BY <1>2, <1>3 DEF NamesOf

\* The files of the merge request, and what a step does not change of them.
LEMMA MrFacts ==
    ASSUME TypeOK, WritingInv, PlainPaths
    PROVE  /\ RestOK /\ mr \in Seq(Changes) /\ index.entries \in Seq(EntrySet)
           /\ \A k \in DOMAIN mr : mr[k] \in Changes /\ Plain(mr[k])
           /\ \A e \in DOMAIN index.entries : index.entries[e].path \in Paths
           /\ \A j, k \in DOMAIN mr : j # k => Ours(j) \cap Ours(k) = {}
<1>1. RestOK /\ mr \in Seq(Changes) /\ index.entries \in Seq(EntrySet)
  BY TypeParts, TruthType DEF TypeOK
<1>2. \A k \in DOMAIN mr : mr[k] \in Changes
  BY <1>1, SeqFacts
<1>3. \A k \in DOMAIN mr : Plain(mr[k])
  BY <1>2 DEF Plain, PlainPaths, Changes
<1>4. \A e \in DOMAIN index.entries : index.entries[e] \in EntrySet
  BY <1>1, SeqFacts
<1>5. \A e \in DOMAIN index.entries : index.entries[e].path \in Paths
  BY <1>4 DEF EntrySet
<1>6. ASSUME NEW j \in DOMAIN mr, NEW k \in DOMAIN mr, j # k, NEW e \in Ours(j), e \in Ours(k)
      PROVE  FALSE
  <2>1. Sides(mr[j]) \cap Sides(mr[k]) = {}
    BY <1>6 DEF WritingInv, Disjoint
  <2>2. /\ index.entries[e].path \in NamesOf(mr[j]) /\ index.entries[e].path \in NamesOf(mr[k])
        /\ index.entries[e].path \in Paths
    BY <1>5, <1>6 DEF Ours, EntriesOf
  <2>. QED
    BY <1>1, <1>2, <1>3, <2>1, <2>2, NamesApart
<1>. QED
  BY <1>1, <1>2, <1>3, <1>5, <1>6

LEMMA SameNames ==
    ASSUME NEW k, UNCHANGED style, mr'[k] = mr[k]
    PROVE  Names(k)' = Names(k)
BY DEF Names, NamesOf, Sides, Side, Prefixed

LEMMA OursIs ==
    ASSUME NEW k
    PROVE  /\ Ours(k) = {e \in DOMAIN index.entries : index.entries[e].path \in Names(k)}
           /\ Ours(k)' = {e \in DOMAIN index'.entries : index'.entries[e].path \in Names(k)'}
BY DEF Ours, EntriesOf, Names

\* A file whose entries stay as they are is listed as before.
LEMMA ListedKept ==
    ASSUME NEW k, Listed(k), mr'[k] = mr[k], Ours(k)' = Ours(k),
           \A e \in Ours(k) : index'.entries[e] = index.entries[e]
    PROVE  Listed(k)'
<1>1. PICK e \in Ours(k) : HasLinesOf(e, k) /\ \A f \in Ours(k) \ {e} : Empty(f)
  BY DEF Listed
<1>2. HasLinesOf(e, k)'
  BY <1>1 DEF HasLinesOf
<1>3. \A f \in Ours(k) \ {e} : Empty(f)'
  BY <1>1 DEF Empty
<1>. QED
  BY <1>1, <1>2, <1>3 DEF Listed

LEMMA OursSame ==
    ASSUME NEW k, UNCHANGED style, mr'[k] = mr[k], index'.entries = index.entries
    PROVE  Ours(k)' = Ours(k)
<1>1. Names(k)' = Names(k)
  BY SameNames
<1>. QED
  BY <1>1, OursIs

LEMMA OursAppend ==
    ASSUME index.entries \in Seq(EntrySet), NEW x \in EntrySet,
           index'.entries = Append(index.entries, x),
           NEW k, UNCHANGED style, mr'[k] = mr[k]
    PROVE  /\ x.path \in Names(k) => Ours(k)' = Ours(k) \cup {Len(index.entries) + 1}
           /\ x.path \notin Names(k) => Ours(k)' = Ours(k)
           /\ \A e \in Ours(k) : index'.entries[e] = index.entries[e]
<1>1. /\ DOMAIN index'.entries = DOMAIN index.entries \cup {Len(index.entries) + 1}
      /\ Len(index.entries) + 1 \notin DOMAIN index.entries
      /\ \A i \in DOMAIN index.entries : index'.entries[i] = index.entries[i]
      /\ index'.entries[Len(index.entries) + 1] = x
  BY AppendFacts
<1>2. Names(k)' = Names(k)
  BY SameNames
<1>3. /\ Ours(k) = {e \in DOMAIN index.entries : index.entries[e].path \in Names(k)}
      /\ Ours(k)' = {e \in DOMAIN index'.entries : index'.entries[e].path \in Names(k)'}
  BY OursIs
<1>. QED
  BY <1>1, <1>2, <1>3

-----------------------------------------------------------------------------
(***************************************************************************)
(* The index: one lemma for each action.                                    *)
(***************************************************************************)

\* Between two files every file is listed.
LEMMA AllListed ==
    ASSUME TypeOK, WritingInv, PlainPaths, IndexInv, BetweenFiles, phase = "mr", misled = {}
    PROVE  \A k \in DOMAIN mr : Listed(k)
<1>. SUFFICES ASSUME writing.due # "file" PROVE Listed(Len(mr))
  BY DEF IndexInv
<1>. DEFINE k == Len(mr)
            n == Len(index.entries)
<1>1. BeingListed(k)
  BY DEF IndexInv
<1>2. Truth = mr
  BY DEF Truth
<1>3. Change.hunks = << >>
  BY DEF BetweenFiles
<1>4. CASE writing.due = "hunk"
  <2>1. n \in Ours(k) /\ (\A f \in Ours(k) \ {n} : Empty(f)) /\ Counting(n, k)
    BY <1>1, <1>4 DEF BeingListed
  <2>2. writing.removed = 0 /\ writing.added = 0
    <3>1. writing.removed + writing.added = 0
      BY <1>4 DEF BetweenFiles, Written, Renamed
    <3>2. writing.removed \in Nat /\ writing.added \in Nat
      BY DEF TypeOK
    <3>. QED
      BY <3>1, <3>2, SMT
  <2>3. index.entries[n].adds \in Nat /\ index.entries[n].dels \in Nat
    <3>1. n \in DOMAIN index.entries
      BY <2>1, OursIs
    <3>2. index.entries[n] \in EntrySet
      BY <3>1, MrFacts, SeqFacts
    <3>. QED
      BY <3>2 DEF EntrySet
  <2>4. Count(Change.hunks, "added") = 0 /\ Count(Change.hunks, "removed") = 0
    BY <1>3, CountNone
  <2>5. HasLinesOf(n, k)
    BY <2>1, <2>2, <2>3, <2>4 DEF Counting, HasLinesOf
  <2>. HIDE DEF n, k
  <2>6. Listed(k)
    BY <2>1, <2>5 DEF Listed
  <2>. QED
    BY <2>6 DEF k
<1>5. CASE writing.due # "hunk"
  <2>1. writing.due = "minus"
    BY <1>5 DEF BetweenFiles, Written, Renamed
  <2>2. Ours(k) # {} /\ \A e \in Ours(k) : Empty(e)
    BY <1>1, <2>1 DEF BeingListed
  <2>3. mr[k].hunks = << >>
    <3>1. Change.hunks = Last(mr).hunks /\ mr # << >>
      BY <1>2, <2>1 DEF WritingInv
    <3>2. Last(mr) = mr[k]
      BY <3>1, MrFacts, SeqFacts
    <3>. QED
      BY <1>3, <3>1, <3>2
  <2>4. Count(mr[k].hunks, "added") = 0 /\ Count(mr[k].hunks, "removed") = 0
    BY <2>3, CountNone
  <2>5. \A e \in Ours(k) : HasLinesOf(e, k)
    BY <2>2, <2>4 DEF HasLinesOf, Empty
  <2>. HIDE DEF k
  <2>6. Listed(k)
    BY <2>2, <2>5 DEF Listed
  <2>. QED
    BY <2>6 DEF k
<1>. QED
  BY <1>4, <1>5

LEMMA IndexFile ==
    ASSUME TypeOK, WritingInv, PlainPaths, IndexInv, NEW c \in Changes, File(c),
           phase' = "mr", misled' = {}
    PROVE  IndexInv'
<1>0. PICK k : k = Len(mr) + 1
  OBVIOUS
<1>1. /\ phase = "mr" /\ misled = {} /\ BetweenFiles /\ UNCHANGED style
      /\ mr' = Append(mr, c) /\ NewTo(mr, c)
  BY DEF File
<1>2. /\ RestOK /\ mr \in Seq(Changes) /\ index.entries \in Seq(EntrySet)
      /\ \A j \in DOMAIN mr : mr[j] \in Changes /\ Plain(mr[j])
      /\ \A e \in DOMAIN index.entries : index.entries[e].path \in Paths
  BY MrFacts
<1>3. /\ Len(mr') = k /\ DOMAIN mr' = DOMAIN mr \cup {k} /\ k \notin DOMAIN mr
      /\ \A j \in DOMAIN mr : mr'[j] = mr[j]
      /\ mr'[k] = c
  BY <1>0, <1>1, <1>2, AppendFacts
<1>4. \A j \in DOMAIN mr : Listed(j)
  BY <1>1, AllListed
<1>5. EntriesNamed
  BY <1>1 DEF IndexInv
<1>6. Plain(c)
  BY DEF Plain, PlainPaths, Changes
<1>7. /\ Change' = c /\ writing'.due \in {"minus", "plus"}
      /\ writing'.due = "minus" => style = "git"
      /\ writing'.due = "plus" => style = "glab" /\ ReadMinus(c.old)
  BY FileFacts
<1>8. Names(k)' = NamesOf(c)
  BY <1>1, <1>3 DEF Names, NamesOf, Sides, Side, Prefixed
<1>9. \A e \in DOMAIN index.entries : index.entries[e].path \notin NamesOf(c)
  <2>. SUFFICES ASSUME NEW e \in DOMAIN index.entries PROVE index.entries[e].path \notin NamesOf(c)
    OBVIOUS
  <2>1. PICK j \in DOMAIN mr : e \in Ours(j)
    BY <1>5 DEF EntriesNamed
  <2>2. index.entries[e].path \in NamesOf(mr[j]) /\ index.entries[e].path \in Paths
    BY <1>2, <2>1 DEF Ours, EntriesOf
  <2>3. Sides(mr[j]) \cap Sides(c) = {}
    BY <1>1 DEF NewTo
  <2>. QED
    BY <1>2, <1>6, <2>2, <2>3, NamesApart
<1>10. Ours(k)' = {e \in DOMAIN index'.entries : index'.entries[e].path \in NamesOf(c)}
  BY <1>8, OursIs
<1>11. CASE style = "git"
  <2>. DEFINE x == Entry(HeaderName(c), FALSE, FALSE)
  <2>0. PICK n : n = Len(index.entries) + 1
    OBVIOUS
  <2>1. index'.entries = Append(index.entries, x) /\ writing'.due = "minus"
    <3>1. ReadGit(HeaderName(c)) /\ writing' = [Nothing EXCEPT !.change = <<c>>, !.due = "minus"]
      BY <1>11 DEF File
    <3>. QED
      BY <3>1 DEF ReadGit, Nothing
  <2>2. x \in EntrySet /\ x.path = HeaderName(c) /\ x.adds = 0 /\ x.dels = 0
    <3>1. HeaderName(c) \in Paths
      BY ChangeType DEF Changes
    <3>2. x \in EntrySet
      BY <3>1, EntryType
    <3>. QED
      BY <3>2 DEF Entry
  <2>3. x.path \in NamesOf(c) /\ x.path \in Paths
    BY <1>2, <2>2, RecordedIsName, ChangeType DEF Changes
  <2>. HIDE DEF x
  <2>4. /\ DOMAIN index'.entries = DOMAIN index.entries \cup {n}
        /\ \A i \in DOMAIN index.entries : index'.entries[i] = index.entries[i]
        /\ index'.entries[n] = x
    BY <1>2, <2>0, <2>1, <2>2, AppendFacts
  <2>5. ASSUME NEW j \in DOMAIN mr PROVE Ours(j)' = Ours(j) /\ Listed(j)'
    <3>1. x.path \notin Names(j)
      <4>1. Sides(c) \cap Sides(mr[j]) = {}
        BY <1>1 DEF NewTo
      <4>. QED
        BY <1>2, <1>6, <2>3, <4>1, NamesApart DEF Names
    <3>2. Ours(j)' = Ours(j) /\ \A e \in Ours(j) : index'.entries[e] = index.entries[e]
      BY <1>1, <1>2, <1>3, <2>1, <2>2, <3>1, OursAppend
    <3>. QED
      BY <1>3, <1>4, <3>2, ListedKept
  <2>6. Ours(k)' = {n}
    BY <1>9, <1>10, <2>3, <2>4
  <2>7. \A e \in DOMAIN index'.entries : \E j \in DOMAIN mr' : e \in Ours(j)'
    BY <1>3, <1>5, <2>4, <2>5, <2>6 DEF EntriesNamed
  <2>8. EntriesNamed'
    BY <2>7 DEF EntriesNamed
  <2>9. Empty(n)'
    BY <2>2, <2>4 DEF Empty
  <2>10. BeingListed(k)'
    BY <2>1, <2>6, <2>9 DEF BeingListed
  <2>. QED
    BY <1>3, <2>1, <2>5, <2>8, <2>10 DEF IndexInv
<1>12. CASE style # "git"
  <2>1. ReadMinus(c.old) /\ writing'.due = "plus"
    BY <1>7, <1>12
  <2>2. index'.entries = index.entries
    BY <2>1 DEF ReadMinus, TypeOK
  <2>3. ASSUME NEW j \in DOMAIN mr PROVE Ours(j)' = Ours(j) /\ Listed(j)'
    <3>1. Ours(j)' = Ours(j)
      BY <1>1, <1>3, <2>2, OursSame
    <3>. QED
      BY <1>3, <1>4, <2>2, <3>1, ListedKept
  <2>4. Ours(k)' = {}
    BY <1>9, <1>10, <2>2
  <2>5. \A e \in DOMAIN index'.entries : \E j \in DOMAIN mr' : e \in Ours(j)'
    BY <1>3, <1>5, <2>2, <2>3 DEF EntriesNamed
  <2>6. EntriesNamed'
    BY <2>5 DEF EntriesNamed
  <2>7. index'.minus = (IF c.old = DevNull THEN NoPath ELSE c.old) /\ index'.null = (c.old = DevNull)
    BY <2>1 DEF ReadMinus, TypeOK
  <2>8. MinusOf(Change)' = IF c.old = DevNull THEN NoPath ELSE c.old
    BY <1>1, <1>7, <1>12 DEF MinusOf, Side
  <2>9. BeingListed(k)'
    BY <1>7, <2>1, <2>4, <2>7, <2>8 DEF BeingListed
  <2>. QED
    BY <1>3, <2>1, <2>3, <2>6, <2>9 DEF IndexInv
<1>. QED
  BY <1>11, <1>12

\* A step within a file keeps the other files' entries.
LEMMA OthersKept ==
    ASSUME TypeOK, WritingInv, PlainPaths, IndexInv, phase = "mr", misled = {},
           writing.due # "file", writing'.due # "file", UNCHANGED <<mr, style>>,
           NEW k, k = Len(mr),
           \A j \in DOMAIN mr :
              /\ j # k => Ours(j)' = Ours(j)
              /\ j # k => \A e \in Ours(j) : index'.entries[e] = index.entries[e],
           DOMAIN index'.entries = DOMAIN index.entries \cup Ours(k)',
           Ours(k) \subseteq Ours(k)',
           BeingListed(k)'
    PROVE  IndexInv'
<1>1. k \in DOMAIN mr
  <2>1. Truth = mr /\ mr # << >>
    BY DEF Truth, WritingInv
  <2>. QED
    BY <2>1, MrFacts, SeqFacts
<1>2. EntriesNamed /\ \A j \in DOMAIN mr : j = k \/ Listed(j)
  BY DEF IndexInv
<1>3. \A e \in DOMAIN index'.entries : \E j \in DOMAIN mr : e \in Ours(j)'
  BY <1>1, <1>2 DEF EntriesNamed
<1>4. EntriesNamed'
  BY <1>3 DEF EntriesNamed
<1>5. \A j \in DOMAIN mr : j = k \/ Listed(j)'
  BY <1>2, ListedKept
<1>6. Len(mr)' = k
  OBVIOUS
<1>7. \A j \in DOMAIN mr' : j = Len(mr)' \/ Listed(j)'
  BY <1>5, <1>6
<1>8. BeingListed(Len(mr))'
  BY <1>6
<1>. QED
  BY <1>4, <1>7, <1>8 DEF IndexInv

LEMMA IndexMinusStep ==
    ASSUME TypeOK, WritingInv, PlainPaths, IndexInv, Minus, phase' = "mr", misled' = {}
    PROVE  IndexInv'
<1>0. PICK k : k = Len(mr)
  OBVIOUS
<1>1. /\ writing.due = "minus" /\ ReadMinus(Side("a", Change.old))
      /\ writing' = [writing EXCEPT !.due = "plus"]
      /\ UNCHANGED <<style, mr, misled, phase>>
  BY DEF Minus
<1>2. writing'.due = "plus" /\ writing'.change = writing.change
  BY <1>1 DEF TypeOK
<1>3. index'.entries = index.entries
  BY <1>1 DEF ReadMinus, TypeOK
<1>4. \A j : Ours(j)' = Ours(j)
  BY <1>1, <1>3, OursSame
<1>5. BeingListed(k)
  BY <1>0, <1>1 DEF IndexInv
<1>6. Change' = Change
  BY <1>2 DEF Change
<1>7. index'.minus = MinusOf(Change) /\ index'.null = (Change.old = DevNull)
  <2>1. Change.old \in Paths \cup {DevNull}
    BY <1>1, CurrentType
  <2>2. Side("a", Change.old) = DevNull <=> Change.old = DevNull
    BY <2>1, SideType
  <2>. QED
    BY <1>1, <2>2 DEF ReadMinus, MinusOf, TypeOK
<1>8. MinusOf(Change)' = MinusOf(Change)
  BY <1>1, <1>6 DEF MinusOf, Side
<1>9. \A e \in Ours(k) : Empty(e)'
  BY <1>1, <1>3, <1>5 DEF BeingListed, Empty
<1>10. BeingListed(k)'
  BY <1>1, <1>2, <1>4, <1>6, <1>7, <1>8, <1>9 DEF BeingListed
<1>11. Ours(k) \subseteq DOMAIN index.entries
  BY OursIs
<1>. QED
  BY <1>0, <1>1, <1>2, <1>3, <1>4, <1>10, <1>11, OthersKept

LEMMA IndexPlusStep ==
    ASSUME TypeOK, WritingInv, PlainPaths, IndexInv, Plus, phase' = "mr", misled' = {}
    PROVE  IndexInv'
<1>0. PICK k, n : k = Len(mr) /\ n = Len(index.entries) + 1
  OBVIOUS
<1>. DEFINE name == Side("b", Change.new)
<1>1. /\ writing.due = "plus" /\ ReadPlus(Side("b", Change.new))
      /\ writing' = [writing EXCEPT !.due = "hunk"]
      /\ UNCHANGED <<style, mr, misled, phase>>
  BY DEF Plus
<1>2. /\ writing'.due = "hunk" /\ writing'.change = writing.change
      /\ writing'.added = writing.added /\ writing'.removed = writing.removed
  BY <1>1 DEF TypeOK
<1>3. Truth = mr /\ Change' = Change
  BY <1>1, <1>2 DEF Truth, Change
<1>4. /\ RestOK /\ mr \in Seq(Changes) /\ index.entries \in Seq(EntrySet)
      /\ \A i, j \in DOMAIN mr : i # j => Ours(i) \cap Ours(j) = {}
      /\ \A j \in DOMAIN mr : mr[j] \in Changes /\ Plain(mr[j])
  BY MrFacts
<1>5. /\ k \in DOMAIN mr /\ Last(mr) = mr[k]
      /\ Change \in ChangeSet /\ (Change.old # DevNull \/ Change.new # DevNull) /\ Plain(Change)
      /\ Recorded(style, Change) = Recorded(style, mr[k])
  BY <1>0, <1>1, <1>3, CurrentFacts
<1>6. /\ Change.hunks = mr[k].hunks /\ writing.removed = 0 /\ writing.added = 0
  BY <1>0, <1>1, <1>3, <1>5 DEF WritingInv
<1>7. BeingListed(k)
  BY <1>0, <1>1 DEF IndexInv
<1>8. PICK new \in BOOLEAN, gone \in BOOLEAN :
          /\ index'.entries = Append(index.entries, Entry(Recorded(style, mr[k]), new, gone))
          /\ index'.open = TRUE
  <2>1. /\ Change.new # DevNull =>
               NewSide(MinusOf(Change), Change.old = DevNull, name) = Recorded(style, Change)
        /\ Change.new = DevNull => MinusOf(Change) = Recorded(style, Change)
        /\ Recorded(style, Change) \in Paths
    BY <1>4, <1>5, PlusName
  <2>2. name = DevNull <=> Change.new = DevNull
    BY <1>5, SideType DEF ChangeSet
  <2>3. index.minus = MinusOf(Change) /\ index.null = (Change.old = DevNull) /\ index.null \in BOOLEAN
    BY <1>1, <1>7 DEF BeingListed
  <2>4. index' = IndexPlus(name)
    BY <1>1 DEF ReadPlus
  <2>. HIDE DEF name
  <2>5. CASE name # DevNull
    <3>1. index' = [index EXCEPT !.entries = Append(@, Entry(Recorded(style, mr[k]), index.null, FALSE)),
                                 !.open = TRUE]
      BY <1>5, <2>1, <2>2, <2>3, <2>4, <2>5 DEF IndexPlus
    <3>2. /\ index'.entries = Append(index.entries, Entry(Recorded(style, mr[k]), index.null, FALSE))
          /\ index'.open = TRUE
      BY <3>1 DEF TypeOK
    <3>. QED
      BY <2>3, <3>2
  <2>6. CASE name = DevNull
    <3>1. index.minus # NoPath /\ index.minus = Recorded(style, mr[k])
      BY <1>5, <2>1, <2>2, <2>3, <2>6, NullIsNoPath
    <3>2. index' = [index EXCEPT !.entries = Append(@, Entry(Recorded(style, mr[k]), FALSE, TRUE)),
                                 !.open = TRUE]
      BY <2>4, <2>6, <3>1 DEF IndexPlus
    <3>3. /\ index'.entries = Append(index.entries, Entry(Recorded(style, mr[k]), FALSE, TRUE))
          /\ index'.open = TRUE
      BY <3>2 DEF TypeOK
    <3>. QED
      BY <3>3
  <2>. QED
    BY <2>5, <2>6
<1>. DEFINE x == Entry(Recorded(style, mr[k]), new, gone)
<1>9. x \in EntrySet /\ x.path = Recorded(style, mr[k]) /\ x.adds = 0 /\ x.dels = 0
  <2>1. Recorded(style, mr[k]) \in Paths
    BY <1>4, <1>5, PlusName
  <2>2. x \in EntrySet
    BY <2>1, EntryType
  <2>. QED
    BY <2>2 DEF Entry
<1>10. x.path \in Names(k) /\ x.path \in Paths
  BY <1>4, <1>5, <1>9, RecordedIsName DEF Names, EntrySet
<1>. HIDE DEF x
<1>11. index'.entries = Append(index.entries, x)
  BY <1>8 DEF x
<1>12. /\ Len(index'.entries) = n /\ DOMAIN index'.entries = DOMAIN index.entries \cup {n}
       /\ n \notin DOMAIN index.entries
       /\ \A i \in DOMAIN index.entries : index'.entries[i] = index.entries[i]
       /\ index'.entries[n] = x
  BY <1>0, <1>4, <1>9, <1>11, AppendFacts
<1>13. ASSUME NEW j \in DOMAIN mr, j # k
       PROVE  Ours(j)' = Ours(j) /\ \A e \in Ours(j) : index'.entries[e] = index.entries[e]
  <2>1. x.path \notin Names(j)
    <3>1. Sides(mr[k]) \cap Sides(mr[j]) = {}
      BY <1>5, <1>13 DEF WritingInv, Disjoint
    <3>. QED
      BY <1>4, <1>5, <1>10, <1>13, <3>1, NamesApart DEF Names
  <2>. QED
    BY <1>1, <1>4, <1>9, <1>11, <2>1, OursAppend
<1>14. Ours(k)' = Ours(k) \cup {n} /\ \A e \in Ours(k) : index'.entries[e] = index.entries[e]
  BY <1>0, <1>1, <1>4, <1>9, <1>10, <1>11, OursAppend
<1>15. Ours(k) \subseteq DOMAIN index.entries
  BY OursIs
<1>16. BeingListed(k)'
  <2>1. \A f \in Ours(k) : Empty(f)'
    BY <1>1, <1>7, <1>14 DEF BeingListed, Empty
  <2>2. Counting(n, k)'
    <3>1. Count(Change.hunks, "added")' = Count(mr[k].hunks, "added")
          /\ Count(Change.hunks, "removed")' = Count(mr[k].hunks, "removed")
      BY <1>3, <1>6
    <3>2. Count(mr[k].hunks, "added") \in Nat /\ Count(mr[k].hunks, "removed") \in Nat
      <4>1. mr[k].hunks \in Seq(HunkSet)
        BY <1>5, <1>6 DEF ChangeSet
      <4>2. "added" \in {"added", "removed"} /\ "removed" \in {"added", "removed"}
        OBVIOUS
      <4>. QED
        BY <4>1, <4>2, CountType
    <3>3. Count(mr[k].hunks, "added")' = Count(mr[k].hunks, "added")
          /\ Count(mr[k].hunks, "removed")' = Count(mr[k].hunks, "removed")
      BY <1>1
    <3>4. index'.entries[n].adds = 0 /\ index'.entries[n].dels = 0
          /\ writing'.added = 0 /\ writing'.removed = 0
      BY <1>2, <1>6, <1>9, <1>12
    <3>. QED
      BY <3>1, <3>2, <3>3, <3>4 DEF Counting
  <2>3. Len(index.entries)' = n /\ index'.open
    BY <1>8, <1>12
  <2>4. n \in Ours(k)' /\ \A f \in Ours(k)' \ {n} : Empty(f)'
    BY <1>14, <2>1
  <2>. QED
    BY <1>1, <1>2, <2>2, <2>3, <2>4 DEF BeingListed
<1>17. DOMAIN index'.entries = DOMAIN index.entries \cup Ours(k)' /\ Ours(k) \subseteq Ours(k)'
  BY <1>12, <1>14, <1>15
<1>18. writing.due # "file" /\ writing'.due # "file" /\ phase = "mr" /\ misled = {}
  BY <1>1, <1>2
<1>. QED
  BY <1>0, <1>1, <1>13, <1>16, <1>17, <1>18, OthersKept

LEMMA IndexHunkStep ==
    ASSUME TypeOK, WritingInv, PlainPaths, IndexInv, Hunk, phase' = "mr", misled' = {}
    PROVE  IndexInv'
<1>0. PICK k, n : k = Len(mr) /\ n = Len(index.entries)
  OBVIOUS
<1>. DEFINE hs == Change.hunks
            h == Head(hs)
<1>1. /\ writing.due = "hunk" /\ writing.removed + writing.added = 0 /\ hs # << >>
      /\ writing' = [change |-> <<[Change EXCEPT !.hunks = Tail(@)]>>, due |-> "hunk",
                     removed |-> h.removed, added |-> h.added]
      /\ UNCHANGED <<index, style, mr, misled, phase>>
  BY DEF Hunk, Written, ReadHunk
<1>2. writing'.due = "hunk" /\ writing'.removed = h.removed /\ writing'.added = h.added
  BY <1>1
<1>3. Change \in ChangeSet /\ hs \in Seq(HunkSet)
  BY <1>1, CurrentType
<1>4. Change'.hunks = Tail(hs)
  BY <1>1, <1>3, RestType DEF Change
<1>5. writing.removed = 0 /\ writing.added = 0
  <2>1. writing.removed \in Nat /\ writing.added \in Nat
    BY DEF TypeOK
  <2>. QED
    BY <1>1, <2>1, SMT
<1>6. BeingListed(k)
  BY <1>0, <1>1 DEF IndexInv
<1>7. n \in Ours(k) /\ (\A f \in Ours(k) \ {n} : Empty(f)) /\ Counting(n, k)
  BY <1>0, <1>1, <1>6 DEF BeingListed
<1>8. \A j : Ours(j)' = Ours(j)
  BY <1>1, OursSame
<1>9. Counting(n, k)'
  <2>1. /\ Count(hs, "added") = h.added + Count(Tail(hs), "added")
        /\ Count(hs, "removed") = h.removed + Count(Tail(hs), "removed")
        /\ Count(Tail(hs), "added") \in Nat /\ Count(Tail(hs), "removed") \in Nat
        /\ h.added \in Nat /\ h.removed \in Nat
    BY <1>1, <1>3, CountHead
  <2>2. index.entries[n].adds \in Nat /\ index.entries[n].dels \in Nat
    <3>1. n \in DOMAIN index.entries
      BY <1>7, OursIs
    <3>2. index.entries[n] \in EntrySet
      BY <3>1, MrFacts, SeqFacts
    <3>. QED
      BY <3>2 DEF EntrySet
  <2>3. /\ index.entries[n].adds + writing.added + Count(hs, "added") = Count(mr[k].hunks, "added")
        /\ index.entries[n].dels + writing.removed + Count(hs, "removed") = Count(mr[k].hunks, "removed")
    BY <1>7 DEF Counting
  <2>4. /\ index.entries[n].adds + h.added + Count(Tail(hs), "added") = Count(mr[k].hunks, "added")
        /\ index.entries[n].dels + h.removed + Count(Tail(hs), "removed") = Count(mr[k].hunks, "removed")
    <3>. HIDE DEF h, hs
    <3>. QED
      BY <1>5, <2>1, <2>2, <2>3, SMT
  <2>5. /\ Count(Change.hunks, "added")' = Count(Tail(hs), "added")
        /\ Count(Change.hunks, "removed")' = Count(Tail(hs), "removed")
    BY <1>4
  <2>6. /\ Count(mr[k].hunks, "added")' = Count(mr[k].hunks, "added")
        /\ Count(mr[k].hunks, "removed")' = Count(mr[k].hunks, "removed")
        /\ index'.entries[n] = index.entries[n]
    BY <1>1
  <2>. HIDE DEF h, hs
  <2>7. /\ index'.entries[n].adds + writing'.added + Count(Change.hunks, "added")' = Count(mr[k].hunks, "added")'
        /\ index'.entries[n].dels + writing'.removed + Count(Change.hunks, "removed")' = Count(mr[k].hunks, "removed")'
    BY <1>1, <1>2, <2>4, <2>5, <2>6
  <2>. QED
    BY <1>1, <2>7 DEF Counting
<1>10. \A f \in Ours(k) \ {n} : Empty(f)'
  BY <1>1, <1>7 DEF Empty
<1>11. index'.open
  BY <1>1, <1>6 DEF BeingListed
<1>12. BeingListed(k)'
  BY <1>0, <1>1, <1>2, <1>7, <1>8, <1>9, <1>10, <1>11 DEF BeingListed
<1>13. Ours(k) \subseteq DOMAIN index.entries
  BY OursIs
<1>. QED
  BY <1>0, <1>1, <1>2, <1>8, <1>12, <1>13, OthersKept

\* A changed line is one more for the entry the index is at, and changes no name.
LEMMA ChangedFacts ==
    ASSUME ReadersOK, index.open, NEW field \in {"adds", "dels"}, ReadChanged(field),
           NEW n, n = Len(index.entries)
    PROVE  /\ DOMAIN index'.entries = DOMAIN index.entries /\ Len(index'.entries) = n
           /\ index'.open /\ n \in DOMAIN index.entries
           /\ \A e \in DOMAIN index.entries :
                 /\ index'.entries[e].path = index.entries[e].path
                 /\ e # n => index'.entries[e] = index.entries[e]
           /\ index.entries[n].adds \in Nat /\ index.entries[n].dels \in Nat
           /\ field = "adds" => /\ index'.entries[n].adds = index.entries[n].adds + 1
                                /\ index'.entries[n].dels = index.entries[n].dels
           /\ field = "dels" => /\ index'.entries[n].dels = index.entries[n].dels + 1
                                /\ index'.entries[n].adds = index.entries[n].adds
<1>. DEFINE x == [index.entries[n] EXCEPT ![field] = @ + 1]
            es == [index.entries EXCEPT ![n] = x]
<1>1. index.entries \in Seq(EntrySet) /\ index.entries # << >>
  BY DEF ReadersOK
<1>2. /\ n \in DOMAIN index.entries /\ index.entries[n] \in EntrySet
      /\ n \in 1 .. Len(index.entries) /\ DOMAIN index.entries = 1 .. Len(index.entries)
  BY <1>1, SeqFacts
<1>3. index' = [index EXCEPT !.entries[Len(index.entries)][field] = @ + 1]
  BY Zenon DEF ReadChanged
<1>4. index' = [index EXCEPT !.entries = es]
  BY <1>3
<1>5. /\ x \in EntrySet /\ x.path = index.entries[n].path
      /\ field = "adds" => x.adds = index.entries[n].adds + 1 /\ x.dels = index.entries[n].dels
      /\ field = "dels" => x.dels = index.entries[n].dels + 1 /\ x.adds = index.entries[n].adds
      /\ index.entries[n].adds \in Nat /\ index.entries[n].dels \in Nat
  BY <1>2 DEF EntrySet
<1>. HIDE DEF x
<1>6. Len(es) = Len(index.entries)
  BY <1>1, <1>2, <1>5, ExceptEntry
<1>7. /\ DOMAIN es = DOMAIN index.entries /\ es[n] = x
      /\ \A e \in DOMAIN index.entries : e # n => es[e] = index.entries[e]
  BY <1>2
<1>. HIDE DEF es
<1>8. index'.entries = es /\ index'.open
  BY <1>4 DEF ReadersOK
<1>9. \A e \in DOMAIN index.entries : es[e].path = index.entries[e].path
  BY <1>5, <1>7
<1>. QED
  BY <1>2, <1>5, <1>6, <1>7, <1>8, <1>9

\* Of a hunk the lines counted and those to come stay the same together.
LEMMA IndexLineStep ==
    ASSUME TypeOK, WritingInv, PlainPaths, IndexInv, phase = "mr", misled = {},
           writing.due = "hunk", writing'.due = "hunk", writing'.change = writing.change,
           UNCHANGED <<style, mr, misled, phase>>,
           NEW field \in {"adds", "dels"}, ReadChanged(field),
           field = "adds" => writing'.added = writing.added - 1 /\ writing'.removed = writing.removed,
           field = "dels" => writing'.removed = writing.removed - 1 /\ writing'.added = writing.added
    PROVE  IndexInv'
<1>1. PICK k, n : k = Len(mr) /\ n = Len(index.entries)
  OBVIOUS
<1>2. BeingListed(k)
  BY <1>1 DEF IndexInv
<1>3. /\ index.open /\ n \in Ours(k)
      /\ \A f \in Ours(k) \ {n} : Empty(f)
      /\ Counting(n, k)
  BY <1>1, <1>2 DEF BeingListed
<1>4. /\ DOMAIN index'.entries = DOMAIN index.entries /\ Len(index'.entries) = n
      /\ index'.open /\ n \in DOMAIN index.entries
      /\ \A e \in DOMAIN index.entries :
            /\ index'.entries[e].path = index.entries[e].path
            /\ e # n => index'.entries[e] = index.entries[e]
      /\ index.entries[n].adds \in Nat /\ index.entries[n].dels \in Nat
      /\ field = "adds" => /\ index'.entries[n].adds = index.entries[n].adds + 1
                           /\ index'.entries[n].dels = index.entries[n].dels
      /\ field = "dels" => /\ index'.entries[n].dels = index.entries[n].dels + 1
                           /\ index'.entries[n].adds = index.entries[n].adds
  BY <1>1, <1>3, ReadersTyped, ChangedFacts
<1>5. \A j : Ours(j)' = Ours(j) /\ Ours(j) \subseteq DOMAIN index.entries
  <2>. SUFFICES ASSUME NEW j PROVE Ours(j)' = Ours(j) /\ Ours(j) \subseteq DOMAIN index.entries
    OBVIOUS
  <2>1. Names(j)' = Names(j)
    BY SameNames
  <2>2. /\ Ours(j) = {e \in DOMAIN index.entries : index.entries[e].path \in Names(j)}
        /\ Ours(j)' = {e \in DOMAIN index'.entries : index'.entries[e].path \in Names(j)'}
    BY OursIs
  <2>. QED
    BY <1>4, <2>1, <2>2
<1>6. k \in DOMAIN mr
  <2>1. Truth = mr /\ mr # << >>
    BY DEF Truth, WritingInv
  <2>. QED
    BY <1>1, <2>1, MrFacts, SeqFacts
<1>7. \A j \in DOMAIN mr : j # k => \A e \in Ours(j) : index'.entries[e] = index.entries[e]
  <2>1. \A j \in DOMAIN mr : j # k => n \notin Ours(j)
    BY <1>3, <1>6, MrFacts
  <2>. QED
    BY <1>4, <1>5, <2>1
<1>8. Change' = Change
  BY DEF Change
<1>9. Counting(n, k)'
  <2>1. /\ index.entries[n].adds + writing.added + Count(Change.hunks, "added") = Count(mr[k].hunks, "added")
        /\ index.entries[n].dels + writing.removed + Count(Change.hunks, "removed")
              = Count(mr[k].hunks, "removed")
    BY <1>3 DEF Counting
  <2>2. Count(Change.hunks, "added") \in Nat /\ Count(Change.hunks, "removed") \in Nat
    BY CurrentType, CountType
  <2>3. writing.added \in Nat /\ writing.removed \in Nat
    BY DEF TypeOK
  <2>6. index.entries[n].adds \in Nat /\ index.entries[n].dels \in Nat
    BY <1>4
  <2>7. \A a, w \in Nat : (a + 1) + (w - 1) = a + w
    BY SMT
  <2>4. /\ index'.entries[n].adds + writing'.added = index.entries[n].adds + writing.added
        /\ index'.entries[n].dels + writing'.removed = index.entries[n].dels + writing.removed
    <3>1. CASE field = "adds"
      <4>1. /\ index'.entries[n].adds = index.entries[n].adds + 1
            /\ index'.entries[n].dels = index.entries[n].dels
            /\ writing'.added = writing.added - 1 /\ writing'.removed = writing.removed
        BY <1>4, <3>1
      <4>. QED
        BY <2>3, <2>6, <2>7, <4>1, Zenon
    <3>2. CASE field = "dels"
      <4>1. /\ index'.entries[n].dels = index.entries[n].dels + 1
            /\ index'.entries[n].adds = index.entries[n].adds
            /\ writing'.removed = writing.removed - 1 /\ writing'.added = writing.added
        BY <1>4, <3>2
      <4>. QED
        BY <2>3, <2>6, <2>7, <4>1, Zenon
    <3>. QED
      BY <3>1, <3>2
  <2>5. /\ Count(Change.hunks, "added")' = Count(Change.hunks, "added")
        /\ Count(Change.hunks, "removed")' = Count(Change.hunks, "removed")
        /\ Count(mr[k].hunks, "added")' = Count(mr[k].hunks, "added")
        /\ Count(mr[k].hunks, "removed")' = Count(mr[k].hunks, "removed")
    BY <1>8
  <2>. QED
    BY <2>1, <2>4, <2>5 DEF Counting
<1>10. \A f \in Ours(k) \ {n} : Empty(f)'
  BY <1>3, <1>4, <1>5 DEF Empty
<1>11. BeingListed(k)'
  BY <1>3, <1>4, <1>5, <1>9, <1>10 DEF BeingListed
<1>12. /\ DOMAIN index'.entries = DOMAIN index.entries \cup Ours(k)'
       /\ Ours(k) \subseteq Ours(k)'
       /\ \A j \in DOMAIN mr : j # k => Ours(j)' = Ours(j)
  BY <1>4, <1>5
<1>. QED
  BY <1>1, <1>7, <1>11, <1>12, OthersKept

LEMMA IndexRemovedStep ==
    ASSUME TypeOK, WritingInv, PlainPaths, IndexInv, Removed, phase' = "mr", misled' = {}
    PROVE  IndexInv'
<1>1. /\ writing.due = "hunk" /\ writing' = [writing EXCEPT !.removed = @ - 1]
      /\ ReadChanged("dels") /\ UNCHANGED <<style, mr, misled, phase>>
  BY DEF Removed
<1>2. /\ writing'.due = "hunk" /\ writing'.change = writing.change
      /\ writing'.removed = writing.removed - 1 /\ writing'.added = writing.added
  BY <1>1 DEF TypeOK
<1>3. phase = "mr" /\ misled = {} /\ "dels" \in {"adds", "dels"} /\ "dels" # "adds"
  BY <1>1
<1>. QED
  BY <1>1, <1>2, <1>3, IndexLineStep

LEMMA IndexAddedStep ==
    ASSUME TypeOK, WritingInv, PlainPaths, IndexInv, Added, phase' = "mr", misled' = {}
    PROVE  IndexInv'
<1>1. /\ writing.due = "hunk" /\ writing' = [writing EXCEPT !.added = @ - 1]
      /\ ReadChanged("adds") /\ UNCHANGED <<style, mr, misled, phase>>
  BY DEF Added
<1>2. /\ writing'.due = "hunk" /\ writing'.change = writing.change
      /\ writing'.added = writing.added - 1 /\ writing'.removed = writing.removed
  BY <1>1 DEF TypeOK
<1>3. phase = "mr" /\ misled = {} /\ "adds" \in {"adds", "dels"} /\ "dels" # "adds"
  BY <1>1
<1>. QED
  BY <1>1, <1>2, <1>3, IndexLineStep

LEMMA IndexInit == Init => IndexInv
<1>. SUFFICES ASSUME Init PROVE IndexInv
  OBVIOUS
<1>1. mr = << >> /\ writing.due = "file" /\ index.entries = << >>
  BY DEF Init, Nothing, NoIndex
<1>. QED
  BY <1>1 DEF IndexInv, EntriesNamed

LEMMA IndexStep ==
    ASSUME PlainPaths, TypeOK, ReadInv, IndexInv, [Next]_vars
    PROVE  IndexInv'
<1>. SUFFICES ASSUME phase' = "mr", misled' = {} PROVE IndexInv'
  BY DEF IndexInv
<1>1. WritingInv
  BY DEF ReadInv
<1>2. CASE UNCHANGED vars
  <2>1. UNCHANGED <<phase, misled, index, mr, writing, style>>
    BY <1>2 DEF vars, readers
  <2>2. EntriesNamed => EntriesNamed'
    BY <2>1, OursSame DEF EntriesNamed
  <2>3. \A k : Listed(k) => Listed(k)'
    BY <2>1, OursSame, ListedKept
  <2>4. \A k : BeingListed(k) => BeingListed(k)'
    <3>. SUFFICES ASSUME NEW k, BeingListed(k) PROVE BeingListed(k)'
      OBVIOUS
    <3>1. Ours(k)' = Ours(k) /\ Change' = Change
      BY <2>1, OursSame DEF Change
    <3>2. MinusOf(Change)' = MinusOf(Change)
      BY <2>1, <3>1 DEF MinusOf, Side
    <3>3. Counting(Len(index.entries), k) => Counting(Len(index.entries), k)'
      BY <2>1, <3>1 DEF Counting
    <3>4. \A e : Empty(e)' <=> Empty(e)
      BY <2>1 DEF Empty
    <3>. QED
      BY <2>1, <3>1, <3>2, <3>3, <3>4 DEF BeingListed
  <2>5. \A k \in DOMAIN mr' : (k = Len(mr') /\ writing'.due # "file") \/ Listed(k)'
    BY <2>1, <2>3 DEF IndexInv
  <2>6. writing'.due # "file" => BeingListed(Len(mr))'
    <3>1. PICK k : k = Len(mr)
      OBVIOUS
    <3>2. writing.due # "file" => BeingListed(k)
      BY <2>1, <3>1 DEF IndexInv
    <3>3. k = Len(mr)'
      BY <2>1, <3>1
    <3>. QED
      BY <2>1, <2>4, <3>2, <3>3
  <2>. QED
    BY <2>1, <2>2, <2>5, <2>6 DEF IndexInv
<1>3. ~EndMr /\ ~Judge
  BY DEF EndMr, Judge
<1>. QED
  BY <1>1, <1>2, <1>3, IndexFile, IndexMinusStep, IndexPlusStep, IndexHunkStep, IndexRemovedStep,
     IndexAddedStep DEF Next, Changes

LEMMA IndexInvIsExact ==
    ASSUME PlainPaths, TypeOK, ReadInv, IndexInv
    PROVE  IndexExact
<1>. SUFFICES ASSUME BetweenFiles, phase = "mr", misled = {} PROVE \A k \in DOMAIN mr : Listed(k)
  BY DEF IndexExact, Listed, Ours, HasLinesOf, Empty
<1>. QED
  BY AllListed DEF ReadInv

-----------------------------------------------------------------------------
(***************************************************************************)
(* widenableG3Paths returns paths only if nothing else is in the way.       *)
(***************************************************************************)
LEMMA WidenableIsAllThatOffends ==
    ASSUME NEW paths, NEW diffFiles, WidenableG3Paths(paths, diffFiles) # {}
    PROVE  LET oos == WidenableG3Paths(paths, diffFiles)
           IN  /\ PathOffences(paths, diffFiles \cup oos) = {}
               /\ \A p \in oos : ~IsForbiddenConfig(p)
<1>. DEFINE oos == OutsideDiffPaths(paths, diffFiles)
<1>1. WidenableG3Paths(paths, diffFiles) = oos /\ \A p \in paths : ~IsForbiddenConfig(p)
  BY Zenon DEF WidenableG3Paths
<1>2. diffFiles # {} /\ oos = paths \ diffFiles
  BY <1>1, Zenon DEF OutsideDiffPaths
<1>3. diffFiles \cup oos # {} /\ \A p \in paths : p \in diffFiles \cup oos
  BY <1>2
<1>4. PathOffences(paths, diffFiles \cup oos) = {}
  BY <1>1, <1>3 DEF PathOffences
<1>5. \A p \in oos : ~IsForbiddenConfig(p)
  BY <1>1, <1>2
<1>. QED
  BY <1>1, <1>4, <1>5

\* What was widenable when the gates decided stays so: after the verdict no
\* diff is read.
WidenInv ==
    /\ verdict # "none" => phase = "decided"
    /\ verdict = "widen" => WidenableG3Paths(PatchPaths, mrFiles) # {}

LEMMA JudgementWidens ==
    ASSUME NEW failed, Judgement(failed) = "widen"
    PROVE  WidenableG3Paths(PatchPaths, mrFiles) # {}
BY DEF Judgement

LEMMA StepWidenInv == WidenInv /\ [Next]_vars => WidenInv'
<1>. SUFFICES ASSUME WidenInv, [Next]_vars PROVE WidenInv'
  OBVIOUS
<1>. USE DEF WidenInv
<1>1. ASSUME NEW c \in MrChanges \cup PatchChanges, File(c) PROVE WidenInv'
  <2>1. phase # "decided" /\ UNCHANGED <<phase, verdict>>
    BY <1>1 DEF File
  <2>. QED
    BY <2>1
<1>2. CASE EndMr
  <2>1. phase = "mr" /\ phase' = "patch" /\ UNCHANGED verdict
    BY <1>2 DEF EndMr
  <2>. QED
    BY <2>1
<1>3. CASE Judge
  <2>1. phase' = "decided" /\ UNCHANGED <<patch, mrFiles>>
    BY <1>3 DEF Judge
  <2>2. PICK failed : verdict' = Judgement(failed)
    BY <1>3 DEF Judge
  <2>3. PatchPaths' = PatchPaths
    BY <2>1 DEF PatchPaths
  <2>4. verdict' = "widen" => WidenableG3Paths(PatchPaths, mrFiles) # {}
    BY <2>2, JudgementWidens
  <2>5. WidenableG3Paths(PatchPaths, mrFiles)' = WidenableG3Paths(PatchPaths, mrFiles)
    BY <2>1, <2>3 DEF WidenableG3Paths, OutsideDiffPaths
  <2>. QED
    BY <2>1, <2>4, <2>5
<1>4. CASE UNCHANGED <<phase, verdict, patch, mrFiles>>
  <2>1. PatchPaths' = PatchPaths
    BY <1>4 DEF PatchPaths
  <2>2. WidenableG3Paths(PatchPaths, mrFiles)' = WidenableG3Paths(PatchPaths, mrFiles)
    BY <1>4, <2>1 DEF WidenableG3Paths, OutsideDiffPaths
  <2>. QED
    BY <1>4, <2>2
<1>5. Minus \/ Plus \/ Hunk \/ Removed \/ Added => UNCHANGED <<phase, verdict, patch, mrFiles>>
  BY DEF Minus, Plus, Hunk, Removed, Added
<1>6. UNCHANGED vars => UNCHANGED <<phase, verdict, patch, mrFiles>>
  BY DEF vars
<1>. QED
  BY <1>1, <1>2, <1>3, <1>4, <1>5, <1>6 DEF Next

\* /heal <id> widen: the decision names every path that kept the patch from
\* passing, and no build file.  (widenableG3Paths, validatePatchPaths.)
THEOREM WideningUnblocksAlways == Spec => []WideningUnblocks
<1>1. Init => WidenInv
  BY DEF Init, WidenInv
<1>2. WidenInv => WideningUnblocks
  BY WidenableIsAllThatOffends DEF WidenInv, WideningUnblocks
<1>. QED
  BY <1>1, <1>2, StepWidenInv, PTL DEF Spec

-----------------------------------------------------------------------------
(***************************************************************************)
(* What always holds.                                                       *)
(***************************************************************************)

\* A violation that the prompt marks as repairable passes the line gate where
\* it is, whatever was read: the offer and the gate use one tolerance.
\* (resolveDiffPath, isLineInMrDiffScope, validatePatchLineScope.)
THEOREM OfferedIsAdmittedAlways == Spec => []OfferedIsAdmitted
BY TypeCorrect, TypeOffers, PTL

\* parseDiffHunkRanges finds the ranges of every diff and buildDiffIndex the
\* lines of every file of the merge request, up to a changed line that looks
\* like a header, of git's diffs and of glab's, whatever files they change, if
\* none of these lies in a directory a or b at the top of the repository.
THEOREM ReadersExactAlways ==
    ASSUME PlainPaths
    PROVE  Spec => []ReadersExact
<1>1. Init => ReadInv /\ IndexInv
  BY ReadInit, IndexInit
<1>2. TypeOK /\ ReadInv /\ IndexInv /\ [Next]_vars => ReadInv' /\ IndexInv'
  BY ReadStep, IndexStep
<1>3. TypeOK /\ ReadInv /\ IndexInv => ReadersExact
  BY ReadInvIsExact, IndexInvIsExact DEF ReadersExact
<1>. QED
  BY <1>1, <1>2, <1>3, TypeCorrect, PTL DEF Spec

\* What the two gates admit for a failed static analysis edits production
\* files near the merge request's hunks only, though both sides of the
\* comparison are what the program has read from two diffs; and what the line
\* gate turns down has a hunk elsewhere, or in a file that was renamed.  Where a
\* file has the prefix of a diff in its own name, a range goes to another file.
\* (validatePatchLineScope, parseDiffHunkRanges.)
THEOREM LineGateIsExact ==
    ASSUME PlainPaths
    PROVE  Spec => []LineGateExact
<1>1. Init => ReadInv /\ VerdictInv
  BY ReadInit, VerdictInit
<1>2. TypeOK /\ ReadInv /\ VerdictInv /\ [Next]_vars => ReadInv' /\ VerdictInv'
  BY ReadStep, VerdictStep
<1>3. TypeOK /\ ReadInv /\ VerdictInv => LineGateExact
  BY ReadInvKeepsScope, ReadInvGivesReason DEF LineGateExact
<1>. QED
  BY <1>1, <1>2, <1>3, TypeCorrect, PTL DEF Spec

=============================================================================
