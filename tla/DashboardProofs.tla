-------------------------- MODULE DashboardProofs --------------------------
(***************************************************************************)
(* The registry and the pages that follow it, for every set of workers and *)
(* browsers and every bound.                                               *)
(***************************************************************************)
EXTENDS Dashboard, SequenceTheorems, TLAPS

Parts    == [stage : Stages \cup {Same}, turn : (0 .. TurnLimit) \cup {SameTurn}]
Messages == [type : {"stage_enter", "turn_start"}, part : Parts]
                \cup [type : {"stage_exit"}, part : {NoPart}]
Events   == [type : {"worker_progress"}, worker : Workers, part : Parts]
                \cup [type : {"worker_started", "worker_done"}, worker : Workers, part : {NoPart}]
                \cup [type : {"snapshot"}, table : Tables]

\* The events take one table to another: h is what the page shows in between.
Reaches(from, events, to) ==
    \E h \in Seq(Tables) :
        /\ Len(h) = Len(events) + 1
        /\ h[1] = from /\ h[Len(events) + 1] = to
        /\ \A i \in 1 .. Len(events) : h[i + 1] = Shown(h[i], events[i])

Typed ==
    /\ TypeOK
    /\ channel \in [Workers -> Seq(Messages)]
    /\ net \in [Clients -> Seq(Events)]
    /\ view \in [Clients -> Tables]

\* A process belongs to a run, stages to a repair, and messages to a process.
RunsOwnTheirChild ==
    \A w \in Workers :
        /\ run[w] = "none" <=> child[w].ended = "no"
        /\ run[w] = "none" => channel[w] = << >>
        /\ child[w].stage # NoStage => run[w] = "repair"
        /\ \A i \in 1 .. Len(channel[w]) : channel[w][i].type = "stage_exit" => run[w] = "repair"

\* A page that is away has nothing on its way, and is empty unless it keeps.
AwayIsQuiet ==
    \A c \in Clients \ online :
        /\ net[c] = << >>
        /\ c \notin kept => view[c] = NoTable

\* What is on its way brings a page to what the registry holds.
OnTheWay == \A c \in online \ kept : Reaches(view[c], net[c], Public(workers))

IInv == /\ Typed /\ snapshot = workers /\ RegistryIsExact
        /\ RunsOwnTheirChild /\ AwayIsQuiet /\ OnTheWay

-----------------------------------------------------------------------------
(* Tables.                                                                  *)

LEMMA IsTable ==
  ASSUME NEW t
  PROVE  t \in Tables <=> \E ws \in SUBSET Workers : t \in [ws -> Entry]
  BY DEF Tables

LEMMA TableParts ==
  ASSUME NEW t \in Tables
  PROVE  DOMAIN t \subseteq Workers /\ t \in [DOMAIN t -> Entry]
  BY DEF Tables

LEMMA FreshIsEntry ==
  ASSUME NEW b \in BOOLEAN
  PROVE  Fresh(b) \in Entry /\ NoTable \in Tables /\ DOMAIN NoTable = {}
  <1>1. Fresh(b) \in Entry
    BY DashboardAssumption DEF Fresh, Entry
  <1>2. NoTable \in [{} -> Entry] /\ {} \in SUBSET Workers
    BY DEF NoTable
  <1> QED BY <1>1, <1>2, IsTable

LEMMA FreshIsPublic ==
  ASSUME NEW b \in BOOLEAN
  PROVE  Fresh(FALSE) = [Fresh(b) EXCEPT !.cwd = FALSE]
  <1>1. \A f, g : Fresh(f) = [Fresh(g) EXCEPT !.cwd = f]
    BY DEF Fresh
  <1> QED BY <1>1

LEMMA UpdateIsEntry ==
  ASSUME NEW e \in Entry, NEW part \in Parts
  PROVE  Update(e, part) \in Entry /\ Update(e, part).cwd = e.cwd /\ Update(e, NoPart) = e
  <1>1. Update(e, part) \in Entry /\ Update(e, part).cwd = e.cwd
    BY DEF Update, Entry, Parts
  <1>2. Update(e, NoPart) = e
    BY DEF Update, Entry, NoPart
  <1> QED BY <1>1, <1>2

LEMMA WithIsTable ==
  ASSUME NEW t \in Tables, NEW w \in Workers, NEW e \in Entry
  PROVE  /\ With(t, w, e) \in Tables
         /\ DOMAIN With(t, w, e) = DOMAIN t \cup {w}
         /\ \A x \in DOMAIN t \cup {w} : With(t, w, e)[x] = IF x = w THEN e ELSE t[x]
  <1>1. With(t, w, e) \in [DOMAIN t \cup {w} -> Entry] /\ DOMAIN t \cup {w} \in SUBSET Workers
    BY TableParts DEF With
  <1>2. With(t, w, e) \in Tables
    BY <1>1, IsTable
  <1> QED BY <1>1, <1>2 DEF With

LEMMA WithoutIsTable ==
  ASSUME NEW t \in Tables, NEW w \in Workers
  PROVE  /\ Without(t, w) \in Tables
         /\ DOMAIN Without(t, w) = DOMAIN t \ {w}
         /\ \A x \in DOMAIN t \ {w} : Without(t, w)[x] = t[x]
  <1>1. Without(t, w) \in [DOMAIN t \ {w} -> Entry] /\ DOMAIN t \ {w} \in SUBSET Workers
    BY TableParts DEF Without
  <1>2. Without(t, w) \in Tables
    BY <1>1, IsTable
  <1> QED BY <1>1, <1>2 DEF Without

LEMMA KnownIsEntry ==
  ASSUME NEW t \in Tables, NEW w \in Workers
  PROVE  Known(t, w) \in Entry
  BY TableParts, FreshIsEntry DEF Known

LEMMA UpsertedIsTable ==
  ASSUME NEW t \in Tables, NEW w \in Workers, NEW part \in Parts
  PROVE  /\ Upserted(t, w, part) \in Tables
         /\ DOMAIN Upserted(t, w, part) = DOMAIN t \cup {w}
         /\ \A x \in DOMAIN t \cup {w} :
               Upserted(t, w, part)[x] = IF x = w THEN Update(Known(t, w), part) ELSE t[x]
  <1>1. Update(Known(t, w), part) \in Entry
    BY KnownIsEntry, UpdateIsEntry
  <1> QED BY <1>1, WithIsTable DEF Upserted

LEMMA PublicIsTable ==
  ASSUME NEW t \in Tables
  PROVE  /\ Public(t) \in Tables
         /\ DOMAIN Public(t) = DOMAIN t
         /\ \A x \in DOMAIN t : Public(t)[x] = [t[x] EXCEPT !.cwd = FALSE]
  <1>1. Public(t) \in [DOMAIN t -> Entry] /\ DOMAIN t \in SUBSET Workers
    BY TableParts DEF Public, Entry
  <1>2. Public(t) \in Tables
    BY <1>1, IsTable
  <1> QED BY <1>1, <1>2 DEF Public

\* Two tables are equal if their entries are.
LEMMA SameTables ==
  ASSUME NEW t \in Tables, NEW u \in Tables, DOMAIN t = DOMAIN u,
         \A x \in DOMAIN t : t[x] = u[x]
  PROVE  t = u
  BY TableParts

LEMMA NoPartIsPart == NoPart \in Parts
  BY DEF NoPart, Parts

LEMMA ShownIsTable ==
  ASSUME NEW t \in Tables, NEW e \in Events
  PROVE  Shown(t, e) \in Tables
  <1>1. CASE e.type = "snapshot"
    <2>1. e.table \in Tables
      BY <1>1 DEF Events
    <2> DEFINE ws == DOMAIN t \cup DOMAIN e.table
               u  == [w \in ws |-> IF w \in DOMAIN t THEN t[w] ELSE Public(e.table)[w]]
    <2>2. ws \in SUBSET Workers
      BY <2>1, TableParts
    <2>3. ASSUME NEW w \in ws PROVE u[w] \in Entry
      <3>1. Public(e.table) \in Tables /\ DOMAIN Public(e.table) = DOMAIN e.table
        BY <2>1, PublicIsTable
      <3>2. w \notin DOMAIN t => Public(e.table)[w] \in Entry
        BY <3>1, TableParts
      <3>3. w \in DOMAIN t => t[w] \in Entry
        BY TableParts
      <3> QED BY <3>2, <3>3
    <2>4. u \in [ws -> Entry]
      BY <2>3
    <2>5. Shown(t, e) = u
      BY <1>1 DEF Shown
    <2> HIDE DEF u, ws
    <2> QED BY <2>2, <2>4, <2>5, IsTable
  <1>2. CASE e.type = "worker_progress"
    <2>1. e.worker \in Workers /\ e.part \in Parts
      BY <1>2 DEF Events
    <2>2. Shown(t, e) = Upserted(t, e.worker, e.part)
      BY <1>2 DEF Shown
    <2>3. \A w \in Workers, part \in Parts : Upserted(t, w, part) \in Tables
      BY UpsertedIsTable
    <2> QED BY <2>1, <2>2, <2>3
  <1>3. CASE e.type = "worker_started"
    <2>1. e.worker \in Workers
      BY <1>3 DEF Events
    <2>2. Shown(t, e) = With(t, e.worker, Fresh(FALSE))
      BY <1>3 DEF Shown
    <2>3. \A w \in Workers : With(t, w, Fresh(FALSE)) \in Tables
      <3>1. Fresh(FALSE) \in Entry
        BY FreshIsEntry
      <3> QED BY <3>1, WithIsTable
    <2> QED BY <2>1, <2>2, <2>3
  <1>4. CASE e.type = "worker_done"
    <2>1. e.worker \in Workers
      BY <1>4 DEF Events
    <2>2. Shown(t, e) = Without(t, e.worker)
      BY <1>4 DEF Shown
    <2> QED BY <2>1, <2>2, WithoutIsTable
  <1> QED BY <1>1, <1>2, <1>3, <1>4 DEF Events

-----------------------------------------------------------------------------
(* What an event does to a page is what it stands for in the registry.      *)

LEMMA PublicWith ==
  ASSUME NEW t \in Tables, NEW w \in Workers, NEW e \in Entry
  PROVE  With(Public(t), w, [e EXCEPT !.cwd = FALSE]) = Public(With(t, w, e))
  <1>1. DOMAIN Public(t) = DOMAIN t /\ DOMAIN With(t, w, e) = DOMAIN t \cup {w}
    BY DEF Public, With
  <1>2. Public(With(t, w, e)) = [x \in DOMAIN t \cup {w} |-> [With(t, w, e)[x] EXCEPT !.cwd = FALSE]]
    BY <1>1 DEF Public
  <1>3. With(Public(t), w, [e EXCEPT !.cwd = FALSE])
           = [x \in DOMAIN t \cup {w} |-> IF x = w THEN [e EXCEPT !.cwd = FALSE] ELSE Public(t)[x]]
    BY <1>1 DEF With
  <1>4. ASSUME NEW x \in DOMAIN t \cup {w}
        PROVE  (IF x = w THEN [e EXCEPT !.cwd = FALSE] ELSE Public(t)[x])
                   = [With(t, w, e)[x] EXCEPT !.cwd = FALSE]
    <2>1. CASE x = w
      BY <2>1 DEF With
    <2>2. CASE x # w
      <3>1. Public(t)[x] = [t[x] EXCEPT !.cwd = FALSE] /\ With(t, w, e)[x] = t[x]
        BY <2>2 DEF Public, With
      <3> QED BY <3>1, <2>2
    <2> QED BY <2>1, <2>2
  <1> QED BY <1>2, <1>3, <1>4

LEMMA PublicWithout ==
  ASSUME NEW t \in Tables, NEW w \in Workers
  PROVE  Without(Public(t), w) = Public(Without(t, w))
  <1>1. DOMAIN Public(t) = DOMAIN t /\ DOMAIN Without(t, w) = DOMAIN t \ {w}
    BY DEF Public, Without
  <1>2. Public(Without(t, w)) = [x \in DOMAIN t \ {w} |-> [Without(t, w)[x] EXCEPT !.cwd = FALSE]]
    BY <1>1 DEF Public
  <1>3. Without(Public(t), w) = [x \in DOMAIN t \ {w} |-> Public(t)[x]]
    BY <1>1 DEF Without
  <1>4. ASSUME NEW x \in DOMAIN t \ {w}
        PROVE  Public(t)[x] = [Without(t, w)[x] EXCEPT !.cwd = FALSE]
    BY DEF Public, Without
  <1> QED BY <1>2, <1>3, <1>4

LEMMA ShowsStarted ==
  ASSUME NEW t \in Tables, NEW w \in Workers
  PROVE  Shown(Public(t), Event("worker_started", w, NoPart)) = Public(With(t, w, Fresh(TRUE)))
  <1>1. Fresh(TRUE) \in Entry /\ Fresh(FALSE) = [Fresh(TRUE) EXCEPT !.cwd = FALSE]
    BY FreshIsEntry, FreshIsPublic
  <1>2. Shown(Public(t), Event("worker_started", w, NoPart)) = With(Public(t), w, Fresh(FALSE))
    BY DEF Shown, Event
  <1> QED BY <1>1, <1>2, PublicWith

LEMMA ShowsDone ==
  ASSUME NEW t \in Tables, NEW w \in Workers
  PROVE  Shown(Public(t), Event("worker_done", w, NoPart)) = Public(Without(t, w))
  BY PublicWithout DEF Shown, Event

LEMMA ShowsProgress ==
  ASSUME NEW t \in Tables, NEW w \in Workers, NEW part \in Parts
  PROVE  Shown(Public(t), Event("worker_progress", w, part)) = Public(Upserted(t, w, part))
  <1> DEFINE old == Known(t, w)
             new == Update(old, part)
  <1>1. old \in Entry
    BY KnownIsEntry
  <1>2. Known(Public(t), w) = [old EXCEPT !.cwd = FALSE]
    <2>1. DOMAIN Public(t) = DOMAIN t
      BY DEF Public
    <2>2. CASE w \in DOMAIN t
      <3>1. Public(t)[w] = [t[w] EXCEPT !.cwd = FALSE]
        BY <2>2 DEF Public
      <3> QED BY <2>1, <2>2, <3>1 DEF Known
    <2>3. CASE w \notin DOMAIN t
      <3>1. Known(Public(t), w) = Fresh(FALSE) /\ old = Fresh(FALSE)
        BY <2>1, <2>3 DEF Known
      <3> QED BY <3>1, FreshIsPublic
    <2> QED BY <2>2, <2>3
  <1>3. Shown(Public(t), Event("worker_progress", w, part))
           = With(Public(t), w, Update(Known(Public(t), w), part))
    BY DEF Shown, Event, Upserted
  <1>4. Upserted(t, w, part) = With(t, w, new)
    BY DEF Upserted
  <1> HIDE DEF old
  <1>5. Update([old EXCEPT !.cwd = FALSE], part) = [new EXCEPT !.cwd = FALSE]
    BY <1>1 DEF Update, Entry
  <1>6. new \in Entry
    BY <1>1, UpdateIsEntry
  <1> HIDE DEF new
  <1>7. With(Public(t), w, [new EXCEPT !.cwd = FALSE]) = Public(With(t, w, new))
    BY <1>6, PublicWith
  <1> QED BY <1>2, <1>3, <1>4, <1>5, <1>7

\* Of a worker that is known, an event without a part shows nothing new.
LEMMA ShowsExit ==
  ASSUME NEW t \in Tables, NEW w \in DOMAIN t
  PROVE  Upserted(t, w, NoPart) = t
  <1>1. w \in Workers /\ t[w] \in Entry
    BY TableParts
  <1>2. Update(Known(t, w), NoPart) = t[w]
    BY <1>1, NoPartIsPart, UpdateIsEntry DEF Known
  <1>3. Upserted(t, w, NoPart) = [x \in DOMAIN t |-> IF x = w THEN t[w] ELSE t[x]]
    BY <1>2 DEF Upserted, With
  <1>4. t = [x \in DOMAIN t |-> t[x]]
    BY TableParts
  <1> QED BY <1>3, <1>4

\* An empty page takes a snapshot over.
LEMMA ShowsSnapshot ==
  ASSUME NEW t \in Tables
  PROVE  Shown(NoTable, [type |-> "snapshot", table |-> t]) = Public(t)
  <1> DEFINE e == [type |-> "snapshot", table |-> t]
             a == Shown(NoTable, e)
  <1>1. DOMAIN NoTable = {} /\ NoTable \in Tables /\ e \in Events
    BY FreshIsEntry DEF Events
  <1>2. a \in Tables /\ Public(t) \in Tables /\ DOMAIN Public(t) = DOMAIN t
    BY <1>1, ShownIsTable, PublicIsTable
  <1>3. a = [w \in DOMAIN NoTable \cup DOMAIN t |->
                IF w \in DOMAIN NoTable THEN NoTable[w] ELSE Public(t)[w]]
    BY DEF Shown
  <1>4. DOMAIN a = DOMAIN t /\ \A x \in DOMAIN t : a[x] = Public(t)[x]
    BY <1>1, <1>3
  <1> HIDE DEF a
  <1>5. a = Public(t)
    BY <1>2, <1>4, SameTables
  <1> QED BY <1>5 DEF a

-----------------------------------------------------------------------------
(* Events on their way.                                                     *)

LEMMA ReachesNothing ==
  ASSUME NEW t \in Tables, NEW u
  PROVE  Reaches(t, << >>, u) <=> t = u
  <1>1. ASSUME Reaches(t, << >>, u) PROVE t = u
    BY <1>1 DEF Reaches
  <1>2. ASSUME t = u PROVE Reaches(t, << >>, u)
    <2> DEFINE h == <<t>>
    <2>1. h \in Seq(Tables) /\ Len(h) = 1 /\ h[1] = t
      OBVIOUS
    <2> HIDE DEF h
    <2>2. /\ Len(h) = Len(<< >>) + 1
          /\ h[1] = t /\ h[Len(<< >>) + 1] = u
          /\ \A i \in 1 .. Len(<< >>) : h[i + 1] = Shown(h[i], << >>[i])
      BY <2>1, <1>2
    <2> QED BY <2>1, <2>2 DEF Reaches
  <1> QED BY <1>1, <1>2

\* An event that is sent after the others.
LEMMA ReachesSent ==
  ASSUME NEW t \in Tables, NEW es \in Seq(Events), NEW u \in Tables, Reaches(t, es, u),
         NEW e \in Events
  PROVE  Reaches(t, Append(es, e), Shown(u, e))
  <1> DEFINE n == Len(es)
             fs == Append(es, e)
             v  == Shown(u, e)
  <1>1. v \in Tables
    BY ShownIsTable
  <1>2. PICK h \in Seq(Tables) : /\ Len(h) = n + 1
                                 /\ h[1] = t /\ h[n + 1] = u
                                 /\ \A i \in 1 .. n : h[i + 1] = Shown(h[i], es[i])
    BY DEF Reaches
  <1>3. n \in Nat /\ Len(fs) = n + 1 /\ fs[n + 1] = e /\ \A i \in 1 .. n : fs[i] = es[i]
    BY AppendProperties
  <1> HIDE DEF v, fs, n
  <1> DEFINE g == Append(h, v)
  <1>4. /\ g \in Seq(Tables) /\ Len(g) = n + 2 /\ g[n + 2] = v
        /\ \A i \in 1 .. n + 1 : g[i] = h[i]
    BY <1>1, <1>2, <1>3, AppendProperties
  <1> HIDE DEF g
  <1>5. g[1] = t /\ g[Len(fs) + 1] = v /\ Len(g) = Len(fs) + 1
    BY <1>2, <1>3, <1>4
  <1>6. ASSUME NEW i \in 1 .. Len(fs) PROVE g[i + 1] = Shown(g[i], fs[i])
    <2>1. CASE i \in 1 .. n
      <3>1. g[i + 1] = h[i + 1] /\ g[i] = h[i]
        BY <2>1, <1>3, <1>4
      <3> QED BY <3>1, <2>1, <1>2, <1>3
    <2>2. CASE i = n + 1
      <3>1. g[i + 1] = v /\ g[i] = u /\ fs[i] = e
        BY <2>2, <1>2, <1>3, <1>4
      <3> QED BY <3>1 DEF v
    <2> QED BY <2>1, <2>2, <1>3
  <1> QED BY <1>4, <1>5, <1>6 DEF Reaches, fs, v

\* The first of the events is read.
LEMMA ReachesRead ==
  ASSUME NEW t \in Tables, NEW es \in Seq(Events), es # << >>, NEW u, Reaches(t, es, u)
  PROVE  Reaches(Shown(t, Head(es)), Tail(es), u)
  <1> DEFINE n == Len(es)
             fs == Tail(es)
  <1>1. PICK h \in Seq(Tables) : /\ Len(h) = n + 1
                                 /\ h[1] = t /\ h[n + 1] = u
                                 /\ \A i \in 1 .. n : h[i + 1] = Shown(h[i], es[i])
    BY DEF Reaches
  <1>2. /\ n \in Nat \ {0} /\ Len(fs) = n - 1 /\ Head(es) = es[1]
        /\ \A i \in 1 .. n - 1 : fs[i] = es[i + 1]
    BY HeadTailProperties
  <1> HIDE DEF fs, n
  <1> DEFINE g == Tail(h)
  <1>3. /\ g \in Seq(Tables) /\ Len(g) = n
        /\ \A i \in 1 .. n : g[i] = h[i + 1]
    <2>1. h # << >>
      BY <1>1, <1>2
    <2> QED BY <2>1, <1>1, <1>2, HeadTailProperties
  <1> HIDE DEF g
  <1>4. g[1] = Shown(t, Head(es)) /\ g[Len(fs) + 1] = u /\ Len(g) = Len(fs) + 1
    <2>1. g[1] = h[2] /\ g[n] = h[n + 1] /\ h[2] = Shown(h[1], es[1])
      BY <1>1, <1>2, <1>3
    <2> QED BY <2>1, <1>1, <1>2, <1>3
  <1>5. ASSUME NEW i \in 1 .. Len(fs) PROVE g[i + 1] = Shown(g[i], fs[i])
    <2>1. i \in 1 .. n /\ i + 1 \in 1 .. n
      BY <1>2
    <2>2. g[i + 1] = h[(i + 1) + 1] /\ g[i] = h[i + 1] /\ fs[i] = es[i + 1]
      BY <2>1, <1>2, <1>3
    <2> QED BY <2>1, <2>2, <1>1
  <1> QED BY <1>3, <1>4, <1>5 DEF Reaches, fs

\* A snapshot sent to an empty page.
LEMMA ReachesSnapshot ==
  ASSUME NEW t \in Tables
  PROVE  /\ [type |-> "snapshot", table |-> t] \in Events
         /\ Reaches(NoTable, <<[type |-> "snapshot", table |-> t]>>, Public(t))
  <1> DEFINE e == [type |-> "snapshot", table |-> t]
  <1>1. e \in Events
    BY DEF Events
  <1>2. NoTable \in Tables
    BY FreshIsEntry
  <1>3. Reaches(NoTable, << >>, NoTable)
    BY <1>2, ReachesNothing
  <1>4. Append(<< >>, e) = <<e>> /\ << >> \in Seq(Events)
    OBVIOUS
  <1>5. Shown(NoTable, e) = Public(t)
    BY ShowsSnapshot
  <1> HIDE DEF e
  <1>6. Reaches(NoTable, Append(<< >>, e), Shown(NoTable, e))
    BY <1>1, <1>2, <1>3, <1>4, ReachesSent
  <1> QED BY <1>1, <1>4, <1>5, <1>6 DEF e

-----------------------------------------------------------------------------
(* Steps.                                                                   *)

LEMMA InitEstablishes ==
  ASSUME Init
  PROVE  IInv
  <1>1. NoTable \in Tables /\ DOMAIN NoTable = {}
    BY FreshIsEntry
  <1>2. TypeOK
    <2>1. NoChild \in [stage : Stages \cup {NoStage}, turn : 0 .. TurnLimit,
                       ended : {"no", "running", "result", "crash"}]
      BY DashboardAssumption DEF NoChild
    <2>2. Len(<< >>) <= ChannelLimit /\ Len(<< >>) <= NetLimit
      BY DashboardAssumption
    <2> QED BY <1>1, <2>1, <2>2 DEF Init, TypeOK
  <1>3. Typed
    BY <1>1, <1>2 DEF Init, Typed
  <1>4. RegistryIsExact
    BY <1>1 DEF Init, RegistryIsExact
  <1>5. RunsOwnTheirChild
    <2>1. \A w \in Workers : /\ run[w] = "none" /\ channel[w] = << >> /\ child[w].ended = "no"
                             /\ child[w].stage = NoStage
      BY DEF Init, NoChild
    <2>2. Len(<< >>) = 0
      OBVIOUS
    <2> SUFFICES ASSUME NEW w \in Workers
                 PROVE  /\ run[w] = "none" <=> child[w].ended = "no"
                        /\ run[w] = "none" => channel[w] = << >>
                        /\ child[w].stage # NoStage => run[w] = "repair"
                        /\ \A i \in 1 .. Len(channel[w]) :
                              channel[w][i].type = "stage_exit" => run[w] = "repair"
      BY DEF RunsOwnTheirChild
    <2>3. 1 .. Len(channel[w]) = {}
      BY <2>1, <2>2
    <2> QED BY <2>1, <2>3
  <1>6. AwayIsQuiet /\ OnTheWay /\ snapshot = workers
    BY DEF Init, AwayIsQuiet, OnTheWay
  <1> QED BY <1>3, <1>4, <1>5, <1>6 DEF IInv

\* An event that shows a page what the registry has become.
LEMMA EmitKeeps ==
  ASSUME IInv, NEW e \in Events, Emit(e), Room, NetLimit \in Nat,
         workers' \in Tables, Shown(Public(workers), e) = Public(workers'),
         online' = online, view' = view, kept' = kept
  PROVE  /\ net' \in [Clients -> Seq(Events)]
         /\ \A c \in Clients : Len(net'[c]) <= NetLimit
         /\ AwayIsQuiet' /\ OnTheWay'
  <1>0. /\ net \in [Clients -> Seq(Events)] /\ view \in [Clients -> Tables]
        /\ \A c \in Clients : Len(net[c]) <= NetLimit
        /\ online \subseteq Clients /\ workers \in Tables
    BY DEF IInv, Typed, TypeOK
  <1>1. \A c \in Clients : net'[c] = IF c \in online THEN Append(net[c], e) ELSE net[c]
    BY <1>0 DEF Emit
  <1>2. \A c \in Clients : /\ Append(net[c], e) \in Seq(Events)
                           /\ Len(Append(net[c], e)) = Len(net[c]) + 1
    BY <1>0, AppendProperties
  <1>3. net' \in [Clients -> Seq(Events)]
    BY <1>0, <1>2 DEF Emit
  <1>4. \A c \in Clients : Len(net'[c]) <= NetLimit
    <2> SUFFICES ASSUME NEW c \in Clients PROVE Len(net'[c]) <= NetLimit
      OBVIOUS
    <2>1. Len(net[c]) \in Nat
      BY <1>0
    <2>2. CASE c \in online
      <3>1. Len(net[c]) < NetLimit
        BY <2>2 DEF Room
      <3>2. Len(net'[c]) = Len(net[c]) + 1
        BY <2>2, <1>1, <1>2
      <3> QED BY <3>1, <3>2, <2>1
    <2>3. CASE c \notin online
      BY <2>3, <1>0, <1>1
    <2> QED BY <2>2, <2>3
  <1>5. AwayIsQuiet'
    BY <1>1 DEF IInv, AwayIsQuiet
  <1>6. OnTheWay'
    <2> SUFFICES ASSUME NEW c \in online \ kept
                 PROVE  Reaches(view[c], Append(net[c], e), Public(workers'))
      BY <1>0, <1>1 DEF OnTheWay
    <2>1. Reaches(view[c], net[c], Public(workers))
      BY DEF IInv, OnTheWay
    <2>2. Public(workers) \in Tables
      BY <1>0, PublicIsTable
    <2>3. view[c] \in Tables /\ net[c] \in Seq(Events)
      BY <1>0
    <2> QED BY <2>1, <2>2, <2>3, ReachesSent
  <1> QED BY <1>3, <1>4, <1>5, <1>6

\* A step that the browsers see nothing of.
LEMMA UnseenKeeps ==
  ASSUME IInv, UNCHANGED <<hubVars, clientVars>>
  PROVE  /\ AwayIsQuiet' /\ OnTheWay' /\ snapshot' = workers'
         /\ net' \in [Clients -> Seq(Events)] /\ view' \in [Clients -> Tables]
         /\ workers' \in Tables /\ snapshot' \in Tables
         /\ \A c \in Clients : Len(net'[c]) <= NetLimit /\ view'[c] \in Tables
         /\ online' \subseteq Clients /\ kept' \subseteq Clients
  <1>1. /\ workers' = workers /\ snapshot' = snapshot /\ net' = net
        /\ online' = online /\ view' = view /\ kept' = kept
    BY DEF hubVars, clientVars
  <1>2. AwayIsQuiet'
    BY <1>1 DEF IInv, AwayIsQuiet
  <1>3. OnTheWay'
    BY <1>1 DEF IInv, OnTheWay
  <1> QED BY <1>1, <1>2, <1>3 DEF IInv, Typed, TypeOK

-----------------------------------------------------------------------------
(* One lemma per action.                                                    *)

LEMMA ChildTypes ==
  ASSUME TypeOK, NEW w \in Workers
  PROVE  /\ child[w].stage \in Stages \cup {NoStage} /\ child[w].turn \in 0 .. TurnLimit
         /\ child[w].ended \in {"no", "running", "result", "crash"}
         /\ run[w] \in {"none", "repair", "resume"}
         /\ \A e \in {"no", "running", "result", "crash"} :
               [NoChild EXCEPT !.ended = e] = [stage |-> NoStage, turn |-> 0, ended |-> e]
         /\ \A e \in {"no", "running", "result", "crash"} :
               [NoChild EXCEPT !.ended = e] \in
                   [stage : Stages \cup {NoStage}, turn : 0 .. TurnLimit,
                    ended : {"no", "running", "result", "crash"}]
  BY DashboardAssumption DEF TypeOK, NoChild

LEMMA StartRepairKeeps ==
  ASSUME IInv, NEW w \in Workers, StartRepair(w)
  PROVE  IInv'
  <1> USE DashboardAssumption
  <1>0. Typed /\ TypeOK /\ workers \in Tables /\ snapshot = workers
    BY DEF IInv, Typed, TypeOK
  <1> DEFINE e == Event("worker_started", w, NoPart)
  <1>1. e \in Events
    BY DEF Event, Events
  <1>2. /\ workers' = With(workers, w, Fresh(TRUE)) /\ snapshot' = workers'
        /\ Emit(e) /\ Room /\ UNCHANGED <<channel, online, view, kept>>
        /\ run' = [run EXCEPT ![w] = "repair"]
        /\ child' = [child EXCEPT ![w] = [NoChild EXCEPT !.ended = "running"]]
        /\ undone' = undone \ {w} /\ run[w] = "none"
    BY DEF StartRepair, SetWorkers, Registered
  <1>3. Fresh(TRUE) \in Entry /\ Fresh(TRUE).cwd
    BY FreshIsEntry DEF Fresh
  <1>4. /\ workers' \in Tables /\ DOMAIN workers' = DOMAIN workers \cup {w}
        /\ \A x \in DOMAIN workers \cup {w} :
              workers'[x] = IF x = w THEN Fresh(TRUE) ELSE workers[x]
    <2> DEFINE f == Fresh(TRUE)
    <2>1. f \in Entry
      BY <1>3
    <2>2. workers' = With(workers, w, f)
      BY <1>2
    <2> HIDE DEF f
    <2>0. workers \in Tables
      BY <1>0
    <2> DEFINE u == With(workers, w, f)
    <2>3. u \in Tables /\ DOMAIN u = DOMAIN workers \cup {w}
      BY <2>0, <2>1, WithIsTable
    <2>4. \A x \in DOMAIN workers \cup {w} : u[x] = IF x = w THEN f ELSE workers[x]
      BY DEF With
    <2> HIDE DEF u
    <2>5. workers' = u
      BY <2>2 DEF u
    <2> QED BY <2>3, <2>4, <2>5 DEF f
  <1>5. Shown(Public(workers), e) = Public(workers')
    BY <1>0, <1>2, ShowsStarted
  <1> HIDE DEF e
  <1>6. /\ net' \in [Clients -> Seq(Events)]
        /\ \A c \in Clients : Len(net'[c]) <= NetLimit
        /\ AwayIsQuiet' /\ OnTheWay'
    BY <1>1, <1>2, <1>4, <1>5, EmitKeeps
  <1>7. TypeOK'
    <2>1. run' \in [Workers -> {"none", "repair", "resume"}] /\ undone' \subseteq Workers
      BY <1>0, <1>2 DEF TypeOK
    <2>2. child' \in [Workers -> [stage : Stages \cup {NoStage}, turn : 0 .. TurnLimit,
                              ended : {"no", "running", "result", "crash"}]]
      BY <1>0, <1>2, ChildTypes DEF TypeOK
    <2> QED BY <2>1, <2>2, <1>0, <1>2, <1>4, <1>6 DEF TypeOK
  <1>8. Typed'
    BY <1>0, <1>2, <1>6, <1>7 DEF Typed
  <1>9. RegistryIsExact'
    <2>1. \A x \in Workers : run'[x] = IF x = w THEN "repair" ELSE run[x]
      BY <1>0, <1>2 DEF TypeOK
    <2> SUFFICES ASSUME NEW x \in Workers
                 PROVE  /\ run'[x] = "repair" => x \in DOMAIN workers' /\ workers'[x].cwd
                        /\ run'[x] = "none" /\ x \in DOMAIN workers' => x \in undone'
      BY DEF RegistryIsExact
    <2>2. CASE x = w
      <3>1. workers'[x] = Fresh(TRUE) /\ x \in DOMAIN workers' /\ run'[x] = "repair"
        BY <2>1, <2>2, <1>4
      <3> QED BY <3>1, <1>3
    <2>3. CASE x # w
      <3>1. /\ run'[x] = run[x] /\ (x \in undone => x \in undone')
            /\ x \in DOMAIN workers' <=> x \in DOMAIN workers
        BY <2>1, <2>3, <1>2, <1>4
      <3>2. x \in DOMAIN workers => workers'[x] = workers[x]
        BY <2>3, <1>4
      <3>3. /\ run[x] = "repair" => x \in DOMAIN workers /\ workers[x].cwd
            /\ run[x] = "none" /\ x \in DOMAIN workers => x \in undone
        BY DEF IInv, RegistryIsExact
      <3>4. run'[x] = "repair" => x \in DOMAIN workers' /\ workers'[x].cwd
        BY <3>1, <3>2, <3>3
      <3> QED BY <3>1, <3>3, <3>4
    <2> QED BY <2>2, <2>3
  <1>10. RunsOwnTheirChild'
    <2> SUFFICES ASSUME NEW x \in Workers
                 PROVE  /\ run'[x] = "none" <=> child'[x].ended = "no"
                        /\ run'[x] = "none" => channel'[x] = << >>
                        /\ child'[x].stage # NoStage => run'[x] = "repair"
                        /\ \A i \in 1 .. Len(channel'[x]) :
                              channel'[x][i].type = "stage_exit" => run'[x] = "repair"
      BY DEF RunsOwnTheirChild
    <2>1. CASE x = w
      <3>1. run'[x] = "repair" /\ child'[x] = [stage |-> NoStage, turn |-> 0, ended |-> "running"]
        BY <2>1, <1>0, <1>2, ChildTypes DEF TypeOK
      <3> QED BY <3>1
    <2>2. CASE x # w
      <3>1. run'[x] = run[x] /\ child'[x] = child[x] /\ channel'[x] = channel[x]
        BY <2>2, <1>0, <1>2 DEF TypeOK
      <3> QED BY <3>1 DEF IInv, RunsOwnTheirChild
    <2> QED BY <2>1, <2>2
  <1> QED BY <1>2, <1>6, <1>8, <1>9, <1>10 DEF IInv

LEMMA StartResumeKeeps ==
  ASSUME IInv, NEW w \in Workers, StartResume(w)
  PROVE  IInv'
  <1>0. Typed /\ TypeOK
    BY DEF IInv, Typed
  <1>1. /\ run' = [run EXCEPT ![w] = "resume"] /\ run[w] = "none"
        /\ child' = [child EXCEPT ![w] = [NoChild EXCEPT !.ended = "running"]]
        /\ UNCHANGED <<channel, undone>> /\ UNCHANGED <<hubVars, clientVars>>
    BY DEF StartResume
  <1>2. /\ AwayIsQuiet' /\ OnTheWay' /\ snapshot' = workers'
        /\ net' \in [Clients -> Seq(Events)] /\ view' \in [Clients -> Tables]
        /\ workers' \in Tables /\ snapshot' \in Tables
        /\ \A c \in Clients : Len(net'[c]) <= NetLimit /\ view'[c] \in Tables
        /\ online' \subseteq Clients /\ kept' \subseteq Clients
    BY <1>1, UnseenKeeps
  <1>3. TypeOK'
    <2>1. run' \in [Workers -> {"none", "repair", "resume"}] /\ undone' \subseteq Workers
      BY <1>0, <1>1 DEF TypeOK
    <2>2. child' \in [Workers -> [stage : Stages \cup {NoStage}, turn : 0 .. TurnLimit,
                              ended : {"no", "running", "result", "crash"}]]
      BY <1>0, <1>1, ChildTypes DEF TypeOK
    <2> QED BY <2>1, <2>2, <1>0, <1>1, <1>2 DEF TypeOK
  <1>4. Typed'
    BY <1>0, <1>1, <1>2, <1>3 DEF Typed
  <1>5. RegistryIsExact'
    <2>1. \A x \in Workers : run'[x] = IF x = w THEN "resume" ELSE run[x]
      BY <1>0, <1>1 DEF TypeOK
    <2> QED BY <2>1, <1>1 DEF IInv, RegistryIsExact, hubVars
  <1>6. RunsOwnTheirChild'
    <2> SUFFICES ASSUME NEW x \in Workers
                 PROVE  /\ run'[x] = "none" <=> child'[x].ended = "no"
                        /\ run'[x] = "none" => channel'[x] = << >>
                        /\ child'[x].stage # NoStage => run'[x] = "repair"
                        /\ \A i \in 1 .. Len(channel'[x]) :
                              channel'[x][i].type = "stage_exit" => run'[x] = "repair"
      BY DEF RunsOwnTheirChild
    <2>1. CASE x = w
      <3>1. run'[x] = "resume" /\ child'[x] = [stage |-> NoStage, turn |-> 0, ended |-> "running"]
        BY <2>1, <1>0, <1>1, ChildTypes DEF TypeOK
      <3>2. 1 .. Len(channel'[x]) = {}
        BY <2>1, <1>1 DEF IInv, RunsOwnTheirChild
      <3> QED BY <3>1, <3>2
    <2>2. CASE x # w
      <3>1. run'[x] = run[x] /\ child'[x] = child[x] /\ channel'[x] = channel[x]
        BY <2>2, <1>0, <1>1 DEF TypeOK
      <3> QED BY <3>1 DEF IInv, RunsOwnTheirChild
    <2> QED BY <2>1, <2>2
  <1> QED BY <1>2, <1>4, <1>5, <1>6 DEF IInv

\* A message that the process of a run sends.
LEMMA SendKeeps ==
  ASSUME IInv, NEW w \in Workers, NEW m \in Messages, Send(w, m), NEW s, NEW turn,
         child' = [child EXCEPT ![w] = [stage |-> s, turn |-> turn, ended |-> "running"]],
         s \in Stages \cup {NoStage}, turn \in 0 .. TurnLimit,
         s # NoStage => run[w] = "repair",
         m.type = "stage_exit" => run[w] = "repair",
         UNCHANGED <<run, undone>>, UNCHANGED <<hubVars, clientVars>>
  PROVE  IInv'
  <1> USE DashboardAssumption
  <1>0. Typed /\ TypeOK /\ channel \in [Workers -> Seq(Messages)]
    BY DEF IInv, Typed
  <1>1. /\ AwayIsQuiet' /\ OnTheWay' /\ snapshot' = workers'
        /\ net' \in [Clients -> Seq(Events)] /\ view' \in [Clients -> Tables]
        /\ workers' \in Tables /\ snapshot' \in Tables
        /\ \A c \in Clients : Len(net'[c]) <= NetLimit /\ view'[c] \in Tables
        /\ online' \subseteq Clients /\ kept' \subseteq Clients
    BY UnseenKeeps
  <1> DEFINE longer == Append(channel[w], m)
  <1>2. /\ longer \in Seq(Messages) /\ Len(longer) = Len(channel[w]) + 1
        /\ \A i \in 1 .. Len(channel[w]) : longer[i] = channel[w][i]
        /\ longer[Len(channel[w]) + 1] = m
    BY <1>0, AppendProperties
  <1>3. /\ channel' = [channel EXCEPT ![w] = longer] /\ child[w].ended = "running"
        /\ Len(channel[w]) < ChannelLimit /\ Len(channel[w]) \in Nat
    BY <1>0 DEF Send
  <1> HIDE DEF longer
  <1>4. TypeOK'
    <2>1. child' \in [Workers -> [stage : Stages \cup {NoStage}, turn : 0 .. TurnLimit,
                              ended : {"no", "running", "result", "crash"}]]
      BY <1>0 DEF TypeOK
    <2>2. ASSUME NEW x \in Workers PROVE Len(channel'[x]) <= ChannelLimit
      <3>1. CASE x = w
        BY <3>1, <1>0, <1>2, <1>3
      <3>2. CASE x # w
        BY <3>2, <1>0, <1>3 DEF TypeOK
      <3> QED BY <3>1, <3>2
    <2> QED BY <2>1, <2>2, <1>0, <1>1 DEF TypeOK
  <1>5. Typed'
    BY <1>0, <1>1, <1>2, <1>3, <1>4 DEF Typed
  <1>6. RegistryIsExact'
    BY DEF IInv, RegistryIsExact, hubVars
  <1>7. RunsOwnTheirChild'
    <2> SUFFICES ASSUME NEW x \in Workers
                 PROVE  /\ run'[x] = "none" <=> child'[x].ended = "no"
                        /\ run'[x] = "none" => channel'[x] = << >>
                        /\ child'[x].stage # NoStage => run'[x] = "repair"
                        /\ \A i \in 1 .. Len(channel'[x]) :
                              channel'[x][i].type = "stage_exit" => run'[x] = "repair"
      BY DEF RunsOwnTheirChild
    <2>1. CASE x = w
      <3>1. /\ child'[x] = [stage |-> s, turn |-> turn, ended |-> "running"]
            /\ channel'[x] = longer /\ run'[x] = run[w]
        BY <2>1, <1>0, <1>3 DEF TypeOK
      <3>2. run[w] # "none"
        BY <1>3 DEF IInv, RunsOwnTheirChild
      <3>3. \A i \in 1 .. Len(channel[w]) : channel[w][i].type = "stage_exit" => run[w] = "repair"
        BY DEF IInv, RunsOwnTheirChild
      <3>4. ASSUME NEW i \in 1 .. Len(longer), longer[i].type = "stage_exit"
            PROVE  run[w] = "repair"
        <4>1. CASE i = Len(channel[w]) + 1
          BY <4>1, <3>4, <1>2
        <4>2. CASE i # Len(channel[w]) + 1
          <5>1. i \in 1 .. Len(channel[w])
            BY <4>2, <1>2, <1>3
          <5> QED BY <5>1, <3>3, <3>4, <1>2
        <4> QED BY <4>1, <4>2
      <3> QED BY <3>1, <3>2, <3>4
    <2>2. CASE x # w
      <3>1. run'[x] = run[x] /\ child'[x] = child[x] /\ channel'[x] = channel[x]
        BY <2>2, <1>0, <1>3 DEF TypeOK
      <3> QED BY <3>1 DEF IInv, RunsOwnTheirChild
    <2> QED BY <2>1, <2>2
  <1> QED BY <1>1, <1>5, <1>6, <1>7 DEF IInv

LEMMA ChildRecord ==
  ASSUME TypeOK, NEW w \in Workers, child[w].ended = "running"
  PROVE  /\ \A s : [child EXCEPT ![w].stage = s]
                = [child EXCEPT ![w] = [stage |-> s, turn |-> child[w].turn, ended |-> "running"]]
         /\ \A t : [child EXCEPT ![w].turn = t]
                = [child EXCEPT ![w] = [stage |-> child[w].stage, turn |-> t, ended |-> "running"]]
  <1>1. child[w] \in [stage : Stages \cup {NoStage}, turn : 0 .. TurnLimit,
                      ended : {"no", "running", "result", "crash"}]
    BY DEF TypeOK
  <1>2. /\ \A s : [child[w] EXCEPT !.stage = s]
                     = [stage |-> s, turn |-> child[w].turn, ended |-> "running"]
        /\ \A t : [child[w] EXCEPT !.turn = t]
                     = [stage |-> child[w].stage, turn |-> t, ended |-> "running"]
    BY <1>1
  <1> QED BY <1>2

LEMMA WorkingKeeps ==
  ASSUME IInv, NEW w \in Workers, EntersStage(w) \/ LeavesStage(w) \/ TakesTurn(w)
  PROVE  IInv'
  <1> USE DashboardAssumption
  <1>0. /\ TypeOK /\ child[w] = [stage |-> child[w].stage, turn |-> child[w].turn,
                                 ended |-> child[w].ended]
        /\ child[w].stage \in Stages \cup {NoStage} /\ child[w].turn \in 0 .. TurnLimit
        /\ child[w].stage # NoStage => run[w] = "repair"
    BY DEF IInv, Typed, TypeOK, RunsOwnTheirChild
  <1>1. CASE EntersStage(w)
    <2>1. PICK s \in Stages :
            /\ run[w] = "repair"
            /\ Send(w, Message("stage_enter", s, SameTurn))
            /\ child' = [child EXCEPT ![w].stage = s]
            /\ UNCHANGED <<run, undone>> /\ UNCHANGED <<hubVars, clientVars>>
      BY <1>1 DEF EntersStage
    <2>2. Message("stage_enter", s, SameTurn) \in Messages
          /\ Message("stage_enter", s, SameTurn).type # "stage_exit"
      BY DEF Message, Messages, Parts
    <2>3. child[w].ended = "running"
      BY <2>1 DEF Send
    <2>4. child' = [child EXCEPT ![w] = [stage |-> s, turn |-> child[w].turn,
                                         ended |-> "running"]]
      BY <2>1, <2>3, <1>0, ChildRecord
    <2> QED BY <2>1, <2>2, <2>4, <1>0, SendKeeps
  <1>2. CASE LeavesStage(w)
    <2>1. /\ child[w].stage # NoStage
          /\ Send(w, Message("stage_exit", Same, SameTurn))
          /\ child' = [child EXCEPT ![w].stage = NoStage]
          /\ UNCHANGED <<run, undone>> /\ UNCHANGED <<hubVars, clientVars>>
      BY <1>2 DEF LeavesStage
    <2>2. Message("stage_exit", Same, SameTurn) \in Messages
      BY DEF Message, Messages, NoPart
    <2>3. child[w].ended = "running"
      BY <2>1 DEF Send
    <2>4. child' = [child EXCEPT ![w] = [stage |-> NoStage, turn |-> child[w].turn,
                                         ended |-> "running"]]
      BY <2>1, <2>3, <1>0, ChildRecord
    <2> QED BY <2>1, <2>2, <2>4, <1>0, SendKeeps
  <1>3. CASE TakesTurn(w)
    <2>1. PICK turn \in 1 .. TurnLimit :
            /\ Send(w, Message("turn_start", Same, turn))
            /\ child' = [child EXCEPT ![w].turn = turn]
            /\ UNCHANGED <<run, undone>> /\ UNCHANGED <<hubVars, clientVars>>
      BY <1>3 DEF TakesTurn
    <2>2. /\ Message("turn_start", Same, turn) \in Messages /\ turn \in 0 .. TurnLimit
          /\ Message("turn_start", Same, turn).type # "stage_exit"
      BY DEF Message, Messages, Parts
    <2>3. child[w].ended = "running"
      BY <2>1 DEF Send
    <2>4. child' = [child EXCEPT ![w] = [stage |-> child[w].stage, turn |-> turn,
                                         ended |-> "running"]]
      BY <2>1, <2>3, <1>0, ChildRecord
    <2> QED BY <2>1, <2>2, <2>4, <1>0, SendKeeps
  <1> QED BY <1>1, <1>2, <1>3

LEMMA DispatchKeeps ==
  ASSUME IInv, NEW w \in Workers, Dispatch(w)
  PROVE  IInv'
  <1> USE DashboardAssumption
  <1>0. /\ Typed /\ TypeOK /\ workers \in Tables /\ snapshot = workers
        /\ channel \in [Workers -> Seq(Messages)]
    BY DEF IInv, Typed, TypeOK
  <1> DEFINE m == Head(channel[w])
             rest == Tail(channel[w])
             e == Event("worker_progress", w, m.part)
  <1>1. /\ channel[w] # << >> /\ Room /\ Emit(e)
        /\ channel' = [channel EXCEPT ![w] = rest]
        /\ UNCHANGED <<run, child, online, view, kept, undone>>
        /\ IF m.type = "stage_exit" THEN UNCHANGED hubVars
           ELSE SetWorkers(Upserted(workers, w, m.part))
    BY DEF Dispatch
  <1>2. /\ m \in Messages /\ m = channel[w][1] /\ rest \in Seq(Messages)
        /\ Len(channel[w]) \in Nat \ {0} /\ Len(rest) = Len(channel[w]) - 1
        /\ \A i \in 1 .. Len(rest) : rest[i] = channel[w][i + 1]
    <2>1. channel[w] \in Seq(Messages)
      BY <1>0
    <2> QED BY <2>1, <1>1, HeadTailProperties
  <1>3. m.part \in Parts /\ (m.type = "stage_exit" => m.part = NoPart)
    BY <1>2, NoPartIsPart DEF Messages
  <1>4. run[w] # "none" /\ (m.type = "stage_exit" => run[w] = "repair")
    <2>1. 1 \in 1 .. Len(channel[w])
      BY <1>2
    <2> QED BY <2>1, <1>1, <1>2 DEF IInv, RunsOwnTheirChild
  <1>5. workers' = Upserted(workers, w, m.part) /\ snapshot' = workers'
    <2>1. CASE m.type = "stage_exit"
      <3>1. w \in DOMAIN workers
        BY <2>1, <1>4 DEF IInv, RegistryIsExact
      <3>2. Upserted(workers, w, m.part) = workers
        BY <3>1, <2>1, <1>0, <1>3, ShowsExit
      <3> QED BY <3>2, <2>1, <1>0, <1>1 DEF hubVars
    <2>2. CASE m.type # "stage_exit"
      BY <2>2, <1>1 DEF SetWorkers
    <2> QED BY <2>1, <2>2
  <1>6. e \in Events
    BY <1>3 DEF Event, Events
  <1>7. Shown(Public(workers), e) = Public(workers')
    BY <1>0, <1>3, <1>5, ShowsProgress
  <1> HIDE DEF e, m, rest
  <1>8. /\ workers' \in Tables /\ DOMAIN workers' = DOMAIN workers \cup {w}
        /\ \A x \in DOMAIN workers \cup {w} :
              workers'[x] = IF x = w THEN Update(Known(workers, w), m.part) ELSE workers[x]
    <2> DEFINE p == m.part
    <2>1. p \in Parts
      BY <1>3
    <2>2. workers' = Upserted(workers, w, p)
      BY <1>5
    <2> HIDE DEF p
    <2>0. workers \in Tables
      BY <1>0
    <2> DEFINE u == Upserted(workers, w, p)
    <2>3. u \in Tables /\ DOMAIN u = DOMAIN workers \cup {w}
      BY <2>0, <2>1, UpsertedIsTable
    <2>4. \A x \in DOMAIN workers \cup {w} :
             u[x] = IF x = w THEN Update(Known(workers, w), p) ELSE workers[x]
      BY DEF Upserted, With
    <2> HIDE DEF u
    <2>5. workers' = u
      BY <2>2 DEF u
    <2> QED BY <2>3, <2>4, <2>5 DEF p
  <1>9. /\ net' \in [Clients -> Seq(Events)]
        /\ \A c \in Clients : Len(net'[c]) <= NetLimit
        /\ AwayIsQuiet' /\ OnTheWay'
    BY <1>1, <1>6, <1>7, <1>8, EmitKeeps
  <1>10. TypeOK'
    <2>1. ASSUME NEW x \in Workers PROVE Len(channel'[x]) <= ChannelLimit
      <3>1. CASE x = w
        <4>1. channel'[x] = rest /\ Len(channel[w]) <= ChannelLimit
          BY <3>1, <1>0, <1>1 DEF TypeOK
        <4> QED BY <4>1, <1>2
      <3>2. CASE x # w
        BY <3>2, <1>0, <1>1 DEF TypeOK
      <3> QED BY <3>1, <3>2
    <2> QED BY <2>1, <1>0, <1>1, <1>5, <1>8, <1>9 DEF TypeOK
  <1>11. Typed'
    BY <1>0, <1>1, <1>2, <1>9, <1>10 DEF Typed
  <1>12. RegistryIsExact'
    <2> SUFFICES ASSUME NEW x \in Workers
                 PROVE  /\ run'[x] = "repair" => x \in DOMAIN workers' /\ workers'[x].cwd
                        /\ run'[x] = "none" /\ x \in DOMAIN workers' => x \in undone'
      BY DEF RegistryIsExact
    <2>1. /\ run[x] = "repair" => x \in DOMAIN workers /\ workers[x].cwd
          /\ run[x] = "none" /\ x \in DOMAIN workers => x \in undone
      BY DEF IInv, RegistryIsExact
    <2>2. run'[x] = run[x] /\ undone' = undone
      BY <1>1
    <2>3. CASE x = w
      <3>1. ASSUME run[w] = "repair" PROVE workers'[w].cwd
        <4>1. workers[w] \in Entry /\ Known(workers, w) = workers[w] /\ workers[w].cwd
              /\ w \in DOMAIN workers
          BY <3>1, <2>1, <2>3, <1>0, TableParts DEF Known
        <4>2. Update(workers[w], m.part).cwd = workers[w].cwd
          BY <4>1, <1>3, UpdateIsEntry
        <4>3. workers'[w] = Update(workers[w], m.part)
          BY <4>1, <1>8
        <4> QED BY <4>1, <4>2, <4>3
      <3>2. x \in DOMAIN workers' /\ run[x] # "none"
        BY <2>3, <1>4, <1>8
      <3> QED BY <3>1, <3>2, <2>2, <2>3
    <2>4. CASE x # w
      <3>1. x \in DOMAIN workers' <=> x \in DOMAIN workers
        BY <2>4, <1>8
      <3>2. x \in DOMAIN workers => workers'[x] = workers[x]
        BY <2>4, <1>8
      <3>3. run'[x] = "repair" => x \in DOMAIN workers' /\ workers'[x].cwd
        BY <3>1, <3>2, <2>1, <2>2
      <3> QED BY <3>1, <3>3, <2>1, <2>2
    <2> QED BY <2>3, <2>4
  <1>13. RunsOwnTheirChild'
    <2> SUFFICES ASSUME NEW x \in Workers
                 PROVE  /\ run'[x] = "none" <=> child'[x].ended = "no"
                        /\ run'[x] = "none" => channel'[x] = << >>
                        /\ child'[x].stage # NoStage => run'[x] = "repair"
                        /\ \A i \in 1 .. Len(channel'[x]) :
                              channel'[x][i].type = "stage_exit" => run'[x] = "repair"
      BY DEF RunsOwnTheirChild
    <2>1. /\ run[x] = "none" <=> child[x].ended = "no"
          /\ run[x] = "none" => channel[x] = << >>
          /\ child[x].stage # NoStage => run[x] = "repair"
          /\ \A i \in 1 .. Len(channel[x]) :
                channel[x][i].type = "stage_exit" => run[x] = "repair"
      BY DEF IInv, RunsOwnTheirChild
    <2>2. CASE x = w
      <3>1. channel'[x] = rest
        BY <2>2, <1>0, <1>1
      <3>2. ASSUME NEW i \in 1 .. Len(rest), rest[i].type = "stage_exit"
            PROVE  run[x] = "repair"
        <4>1. i + 1 \in 1 .. Len(channel[w]) /\ rest[i] = channel[w][i + 1]
          BY <1>2
        <4> QED BY <4>1, <3>2, <2>1, <2>2
      <3> QED BY <3>1, <3>2, <2>1, <2>2, <1>1, <1>4
    <2>3. CASE x # w
      <3>1. channel'[x] = channel[x]
        BY <2>3, <1>0, <1>1
      <3> QED BY <3>1, <2>1, <1>1
    <2> QED BY <2>2, <2>3
  <1> QED BY <1>5, <1>9, <1>11, <1>12, <1>13 DEF IInv

LEMMA ProcessEndsKeeps ==
  ASSUME IInv, NEW w \in Workers, ProcessEnds(w)
  PROVE  IInv'
  <1>0. Typed /\ TypeOK
    BY DEF IInv, Typed
  <1>1. PICK how \in {"result", "crash"} :
          /\ child[w].ended = "running"
          /\ child' = [child EXCEPT ![w] = [NoChild EXCEPT !.ended = how]]
          /\ UNCHANGED <<run, channel, undone>> /\ UNCHANGED <<hubVars, clientVars>>
    BY DEF ProcessEnds
  <1>2. /\ AwayIsQuiet' /\ OnTheWay' /\ snapshot' = workers'
        /\ net' \in [Clients -> Seq(Events)] /\ view' \in [Clients -> Tables]
        /\ workers' \in Tables /\ snapshot' \in Tables
        /\ \A c \in Clients : Len(net'[c]) <= NetLimit /\ view'[c] \in Tables
        /\ online' \subseteq Clients /\ kept' \subseteq Clients
    BY <1>1, UnseenKeeps
  <1>3. TypeOK'
    <2>1. child' \in [Workers -> [stage : Stages \cup {NoStage}, turn : 0 .. TurnLimit,
                              ended : {"no", "running", "result", "crash"}]]
      BY <1>0, <1>1, ChildTypes DEF TypeOK
    <2> QED BY <2>1, <1>0, <1>1, <1>2 DEF TypeOK
  <1>4. Typed'
    BY <1>0, <1>1, <1>2, <1>3 DEF Typed
  <1>5. RegistryIsExact'
    BY <1>1 DEF IInv, RegistryIsExact, hubVars
  <1>6. RunsOwnTheirChild'
    <2> SUFFICES ASSUME NEW x \in Workers
                 PROVE  /\ run'[x] = "none" <=> child'[x].ended = "no"
                        /\ run'[x] = "none" => channel'[x] = << >>
                        /\ child'[x].stage # NoStage => run'[x] = "repair"
                        /\ \A i \in 1 .. Len(channel'[x]) :
                              channel'[x][i].type = "stage_exit" => run'[x] = "repair"
      BY DEF RunsOwnTheirChild
    <2>0. /\ run[x] = "none" <=> child[x].ended = "no"
          /\ run[x] = "none" => channel[x] = << >>
          /\ child[x].stage # NoStage => run[x] = "repair"
          /\ \A i \in 1 .. Len(channel[x]) :
                channel[x][i].type = "stage_exit" => run[x] = "repair"
      BY DEF IInv, RunsOwnTheirChild
    <2>1. CASE x = w
      <3>1. child'[x] = [stage |-> NoStage, turn |-> 0, ended |-> how] /\ run[x] # "none"
        BY <2>0, <2>1, <1>0, <1>1, ChildTypes DEF TypeOK
      <3> QED BY <3>1, <2>0, <1>1
    <2>2. CASE x # w
      BY <2>0, <2>2, <1>0, <1>1 DEF TypeOK
    <2> QED BY <2>1, <2>2
  <1> QED BY <1>2, <1>4, <1>5, <1>6 DEF IInv

LEMMA RunEndsKeeps ==
  ASSUME IInv, NEW w \in Workers, RunEnds(w)
  PROVE  IInv'
  <1> USE DashboardAssumption
  <1>0. Typed /\ TypeOK /\ workers \in Tables /\ snapshot = workers
    BY DEF IInv, Typed, TypeOK
  <1>1. /\ channel[w] = << >>
        /\ run' = [run EXCEPT ![w] = "none"]
        /\ child' = [child EXCEPT ![w] = NoChild]
        /\ UNCHANGED <<channel, online, view, kept>>
    BY DEF RunEnds
  <1> DEFINE Done == run[w] = "repair" /\ child[w].ended = "result"
  <1>2. /\ AwayIsQuiet' /\ OnTheWay' /\ snapshot' = workers'
        /\ net' \in [Clients -> Seq(Events)] /\ workers' \in Tables
        /\ \A c \in Clients : Len(net'[c]) <= NetLimit
        /\ undone' \subseteq Workers /\ undone \subseteq undone'
        /\ w \notin DOMAIN workers' \/ w \in undone'
        /\ DOMAIN workers' \subseteq DOMAIN workers
        /\ \A x \in DOMAIN workers \ {w} : x \in DOMAIN workers' /\ workers'[x] = workers[x]
    <2>1. CASE Done
      <3> DEFINE e == Event("worker_done", w, NoPart)
      <3>1. Room /\ Emit(e) /\ undone' = undone
            /\ workers' = Without(workers, w) /\ snapshot' = workers'
        BY <2>1 DEF RunEnds, SetWorkers
      <3>2. e \in Events
        BY DEF Event, Events
      <3>3. /\ workers' \in Tables /\ DOMAIN workers' = DOMAIN workers \ {w}
            /\ \A x \in DOMAIN workers \ {w} : workers'[x] = workers[x]
        BY <3>1, <1>0, WithoutIsTable
      <3>4. Shown(Public(workers), e) = Public(workers')
        BY <3>1, <1>0, ShowsDone
      <3> HIDE DEF e
      <3>5. /\ net' \in [Clients -> Seq(Events)]
            /\ \A c \in Clients : Len(net'[c]) <= NetLimit
            /\ AwayIsQuiet' /\ OnTheWay'
        BY <3>1, <3>2, <3>3, <3>4, <1>1, EmitKeeps
      <3>6. undone' \subseteq Workers
        BY <3>1, <1>0 DEF TypeOK
      <3> QED BY <3>1, <3>3, <3>5, <3>6
    <2>2. CASE ~Done
      <3>1. undone' = undone \cup {w} /\ UNCHANGED <<hubVars, net>>
        BY <2>2 DEF RunEnds
      <3>2. UNCHANGED <<hubVars, clientVars>> /\ workers' = workers
        BY <3>1, <1>1 DEF hubVars, clientVars
      <3>3. /\ AwayIsQuiet' /\ OnTheWay' /\ snapshot' = workers'
            /\ net' \in [Clients -> Seq(Events)] /\ workers' \in Tables
            /\ \A c \in Clients : Len(net'[c]) <= NetLimit
        BY <3>2, UnseenKeeps
      <3>4. undone' \subseteq Workers
        BY <3>1, <1>0 DEF TypeOK
      <3> QED BY <3>1, <3>2, <3>3, <3>4
    <2> QED BY <2>1, <2>2
  <1>3. NoChild \in [stage : Stages \cup {NoStage}, turn : 0 .. TurnLimit,
                     ended : {"no", "running", "result", "crash"}]
        /\ NoChild.ended = "no" /\ NoChild.stage = NoStage
    BY DEF NoChild
  <1>4. TypeOK'
    <2>1. run' \in [Workers -> {"none", "repair", "resume"}]
      BY <1>0, <1>1 DEF TypeOK
    <2>2. child' \in [Workers -> [stage : Stages \cup {NoStage}, turn : 0 .. TurnLimit,
                              ended : {"no", "running", "result", "crash"}]]
      BY <1>0, <1>1, <1>3 DEF TypeOK
    <2> QED BY <2>1, <2>2, <1>0, <1>1, <1>2 DEF TypeOK
  <1>5. Typed'
    BY <1>0, <1>1, <1>2, <1>4 DEF Typed
  <1>6. RegistryIsExact'
    <2> SUFFICES ASSUME NEW x \in Workers
                 PROVE  /\ run'[x] = "repair" => x \in DOMAIN workers' /\ workers'[x].cwd
                        /\ run'[x] = "none" /\ x \in DOMAIN workers' => x \in undone'
      BY DEF RegistryIsExact
    <2>1. /\ run[x] = "repair" => x \in DOMAIN workers /\ workers[x].cwd
          /\ run[x] = "none" /\ x \in DOMAIN workers => x \in undone
      BY DEF IInv, RegistryIsExact
    <2>2. CASE x = w
      <3>1. run'[x] = "none"
        BY <2>2, <1>0, <1>1 DEF TypeOK
      <3> QED BY <3>1, <2>2, <1>2
    <2>3. CASE x # w
      <3>1. run'[x] = run[x]
        BY <2>3, <1>0, <1>1 DEF TypeOK
      <3>2. x \in DOMAIN workers => x \in DOMAIN workers' /\ workers'[x] = workers[x]
        BY <2>3, <1>2
      <3>3. run'[x] = "repair" => x \in DOMAIN workers' /\ workers'[x].cwd
        BY <3>1, <3>2, <2>1
      <3>4. run'[x] = "none" /\ x \in DOMAIN workers' => x \in undone'
        BY <3>1, <2>1, <1>2
      <3> QED BY <3>3, <3>4
    <2> QED BY <2>2, <2>3
  <1>7. RunsOwnTheirChild'
    <2> SUFFICES ASSUME NEW x \in Workers
                 PROVE  /\ run'[x] = "none" <=> child'[x].ended = "no"
                        /\ run'[x] = "none" => channel'[x] = << >>
                        /\ child'[x].stage # NoStage => run'[x] = "repair"
                        /\ \A i \in 1 .. Len(channel'[x]) :
                              channel'[x][i].type = "stage_exit" => run'[x] = "repair"
      BY DEF RunsOwnTheirChild
    <2>1. CASE x = w
      <3>1. run'[x] = "none" /\ child'[x] = NoChild /\ channel'[x] = << >>
        BY <2>1, <1>0, <1>1 DEF TypeOK
      <3>2. 1 .. Len(channel'[x]) = {}
        BY <3>1
      <3> QED BY <3>1, <3>2, <1>3
    <2>2. CASE x # w
      <3>1. run'[x] = run[x] /\ child'[x] = child[x] /\ channel'[x] = channel[x]
        BY <2>2, <1>0, <1>1 DEF TypeOK
      <3> QED BY <3>1 DEF IInv, RunsOwnTheirChild
    <2> QED BY <2>1, <2>2
  <1> QED BY <1>2, <1>5, <1>6, <1>7 DEF IInv

LEMMA RestartKeeps ==
  ASSUME IInv, Restart
  PROVE  IInv'
  <1> USE DashboardAssumption
  <1>0. Typed /\ TypeOK /\ net \in [Clients -> Seq(Events)] /\ view \in [Clients -> Tables]
    BY DEF IInv, Typed
  <1>1. /\ run' = [w \in Workers |-> "none"]
        /\ child' = [w \in Workers |-> NoChild]
        /\ channel' = [w \in Workers |-> << >>]
        /\ workers' = NoTable /\ snapshot' = NoTable
        /\ net' = [c \in Clients |-> << >>] /\ online' = {} /\ undone' = {} /\ view' = view
        /\ kept' = kept \cup {c \in online : view[c] # NoTable \/ net[c] # << >>}
    BY DEF Restart, SetWorkers
  <1>2. NoTable \in Tables /\ DOMAIN NoTable = {}
    BY FreshIsEntry
  <1>3. TypeOK'
    <2>1. NoChild \in [stage : Stages \cup {NoStage}, turn : 0 .. TurnLimit,
                       ended : {"no", "running", "result", "crash"}]
      BY DEF NoChild
    <2>2. Len(<< >>) <= ChannelLimit /\ Len(<< >>) <= NetLimit
      OBVIOUS
    <2>3. online' \subseteq Clients /\ kept' \subseteq Clients /\ undone' \subseteq Workers
      BY <1>0, <1>1 DEF TypeOK
    <2> QED BY <2>1, <2>2, <2>3, <1>0, <1>1, <1>2 DEF TypeOK
  <1>4. Typed'
    BY <1>0, <1>1, <1>3 DEF Typed
  <1>5. RegistryIsExact'
    BY <1>1, <1>2 DEF RegistryIsExact
  <1>6. RunsOwnTheirChild'
    <2> SUFFICES ASSUME NEW x \in Workers
                 PROVE  /\ run'[x] = "none" <=> child'[x].ended = "no"
                        /\ run'[x] = "none" => channel'[x] = << >>
                        /\ child'[x].stage # NoStage => run'[x] = "repair"
                        /\ \A i \in 1 .. Len(channel'[x]) :
                              channel'[x][i].type = "stage_exit" => run'[x] = "repair"
      BY DEF RunsOwnTheirChild
    <2>1. /\ run'[x] = "none" /\ channel'[x] = << >> /\ child'[x].ended = "no"
          /\ child'[x].stage = NoStage
      BY <1>1 DEF NoChild
    <2>2. 1 .. Len(channel'[x]) = {}
      BY <2>1
    <2> QED BY <2>1, <2>2
  <1>7. AwayIsQuiet'
    <2> SUFFICES ASSUME NEW c \in Clients
                 PROVE  net'[c] = << >> /\ (c \notin kept' => view'[c] = NoTable)
      BY DEF AwayIsQuiet
    <2>1. c \notin online /\ c \notin kept => view[c] = NoTable
      BY DEF IInv, AwayIsQuiet
    <2> QED BY <2>1, <1>1
  <1>8. OnTheWay' /\ snapshot' = workers'
    BY <1>1 DEF OnTheWay
  <1> QED BY <1>4, <1>5, <1>6, <1>7, <1>8 DEF IInv

\* What a browser does leaves the scheduler and the hub alone.
LEMMA BrowserKeeps ==
  ASSUME IInv, UNCHANGED <<run, child, channel, undone>>, UNCHANGED hubVars,
         net' \in [Clients -> Seq(Events)], view' \in [Clients -> Tables],
         \A c \in Clients : Len(net'[c]) <= NetLimit,
         online' \subseteq Clients, kept' \subseteq Clients
  PROVE  Typed' /\ snapshot' = workers' /\ RegistryIsExact' /\ RunsOwnTheirChild'
  <1>1. TypeOK'
    BY DEF IInv, Typed, TypeOK, hubVars
  <1>2. Typed' /\ snapshot' = workers'
    BY <1>1 DEF IInv, Typed, hubVars
  <1>3. RegistryIsExact'
    BY DEF IInv, RegistryIsExact, hubVars
  <1>4. RunsOwnTheirChild'
    BY DEF IInv, RunsOwnTheirChild
  <1> QED BY <1>2, <1>3, <1>4

LEMMA LoadKeeps ==
  ASSUME IInv, NEW c \in Clients, Load(c)
  PROVE  IInv'
  <1>0. /\ Typed /\ TypeOK /\ net \in [Clients -> Seq(Events)] /\ view \in [Clients -> Tables]
        /\ NoTable \in Tables
    BY FreshIsEntry DEF IInv, Typed
  <1>1. /\ c \notin online /\ view' = [view EXCEPT ![c] = NoTable] /\ kept' = kept \ {c}
        /\ UNCHANGED <<run, child, channel, undone>> /\ UNCHANGED hubVars
        /\ net' = net /\ online' = online
    BY DEF Load
  <1>2. Typed' /\ snapshot' = workers' /\ RegistryIsExact' /\ RunsOwnTheirChild'
    <2>1. net' \in [Clients -> Seq(Events)] /\ view' \in [Clients -> Tables]
      BY <1>0, <1>1
    <2>2. \A d \in Clients : Len(net'[d]) <= NetLimit
      BY <1>0, <1>1 DEF TypeOK
    <2>3. online' \subseteq Clients /\ kept' \subseteq Clients
      BY <1>0, <1>1 DEF TypeOK
    <2> QED BY <2>1, <2>2, <2>3, <1>1, BrowserKeeps
  <1>3. AwayIsQuiet'
    BY <1>0, <1>1 DEF IInv, AwayIsQuiet
  <1>4. OnTheWay'
    <2> SUFFICES ASSUME NEW d \in online \ kept' PROVE Reaches(view'[d], net[d], Public(workers))
      BY <1>1 DEF OnTheWay, hubVars
    <2>1. d # c /\ d \in online \ kept /\ view'[d] = view[d]
      BY <1>0, <1>1 DEF TypeOK
    <2> QED BY <2>1 DEF IInv, OnTheWay
  <1> QED BY <1>2, <1>3, <1>4 DEF IInv

LEMMA ConnectKeeps ==
  ASSUME IInv, NEW c \in Clients, Connect(c)
  PROVE  IInv'
  <1> USE DashboardAssumption
  <1>0. /\ Typed /\ TypeOK /\ net \in [Clients -> Seq(Events)] /\ view \in [Clients -> Tables]
        /\ workers \in Tables /\ snapshot = workers
    BY DEF IInv, Typed, TypeOK
  <1> DEFINE e == [type |-> "snapshot", table |-> workers]
  <1>1. /\ c \notin online /\ online' = online \cup {c} /\ net' = [net EXCEPT ![c] = <<e>>]
        /\ UNCHANGED <<run, child, channel, undone>> /\ UNCHANGED hubVars
        /\ view' = view /\ kept' = kept
    BY <1>0 DEF Connect
  <1>2. e \in Events /\ Reaches(NoTable, <<e>>, Public(workers))
    BY <1>0, ReachesSnapshot
  <1>3. Len(<<e>>) = 1
    OBVIOUS
  <1> HIDE DEF e
  <1>4. Typed' /\ snapshot' = workers' /\ RegistryIsExact' /\ RunsOwnTheirChild'
    <2>1. net' \in [Clients -> Seq(Events)] /\ view' \in [Clients -> Tables]
      BY <1>0, <1>1, <1>2
    <2>2. \A d \in Clients : Len(net'[d]) <= NetLimit
      BY <1>0, <1>1, <1>3 DEF TypeOK
    <2>3. online' \subseteq Clients /\ kept' \subseteq Clients
      BY <1>0, <1>1 DEF TypeOK
    <2> QED BY <2>1, <2>2, <2>3, <1>1, BrowserKeeps
  <1>5. AwayIsQuiet'
    BY <1>0, <1>1 DEF IInv, AwayIsQuiet
  <1>6. OnTheWay'
    <2> SUFFICES ASSUME NEW d \in (online \cup {c}) \ kept
                 PROVE  Reaches(view[d], net'[d], Public(workers))
      BY <1>1 DEF OnTheWay, hubVars
    <2>1. CASE d = c
      <3>1. view[c] = NoTable
        BY <2>1, <1>1 DEF IInv, AwayIsQuiet
      <3>2. net'[c] = <<e>>
        BY <1>0, <1>1
      <3> QED BY <3>1, <3>2, <2>1, <1>2
    <2>2. CASE d # c
      <3>1. d \in online \ kept /\ net'[d] = net[d]
        BY <2>2, <1>0, <1>1 DEF TypeOK
      <3> QED BY <3>1 DEF IInv, OnTheWay
    <2> QED BY <2>1, <2>2
  <1> QED BY <1>4, <1>5, <1>6 DEF IInv

LEMMA LoseKeeps ==
  ASSUME IInv, NEW c \in Clients, Lose(c)
  PROVE  IInv'
  <1> USE DashboardAssumption
  <1>0. Typed /\ TypeOK /\ net \in [Clients -> Seq(Events)] /\ view \in [Clients -> Tables]
    BY DEF IInv, Typed
  <1>1. /\ online' = online \ {c} /\ net' = [net EXCEPT ![c] = << >>] /\ kept' = kept \cup {c}
        /\ UNCHANGED <<run, child, channel, undone>> /\ UNCHANGED hubVars /\ view' = view
    BY DEF Lose
  <1>2. Typed' /\ snapshot' = workers' /\ RegistryIsExact' /\ RunsOwnTheirChild'
    <2>1. net' \in [Clients -> Seq(Events)] /\ view' \in [Clients -> Tables]
      BY <1>0, <1>1
    <2>2. \A d \in Clients : Len(net'[d]) <= NetLimit
      <3>1. Len(<< >>) <= NetLimit
        OBVIOUS
      <3> QED BY <3>1, <1>0, <1>1 DEF TypeOK
    <2>3. online' \subseteq Clients /\ kept' \subseteq Clients
      BY <1>0, <1>1 DEF TypeOK
    <2> QED BY <2>1, <2>2, <2>3, <1>1, BrowserKeeps
  <1>3. AwayIsQuiet'
    BY <1>0, <1>1 DEF IInv, AwayIsQuiet
  <1>4. OnTheWay'
    <2> SUFFICES ASSUME NEW d \in (online \ {c}) \ (kept \cup {c})
                 PROVE  Reaches(view[d], net'[d], Public(workers))
      BY <1>1 DEF OnTheWay, hubVars
    <2>1. net'[d] = net[d]
      BY <1>0, <1>1 DEF TypeOK
    <2> QED BY <2>1 DEF IInv, OnTheWay
  <1> QED BY <1>2, <1>3, <1>4 DEF IInv

LEMMA ReadKeeps ==
  ASSUME IInv, NEW c \in Clients, Read(c)
  PROVE  IInv'
  <1> USE DashboardAssumption
  <1>0. Typed /\ TypeOK /\ net \in [Clients -> Seq(Events)] /\ view \in [Clients -> Tables]
    BY DEF IInv, Typed
  <1> DEFINE shown == Shown(view[c], Head(net[c]))
             rest  == Tail(net[c])
  <1>1. /\ net[c] # << >> /\ view' = [view EXCEPT ![c] = shown] /\ net' = [net EXCEPT ![c] = rest]
        /\ UNCHANGED <<run, child, channel, undone>> /\ UNCHANGED hubVars
        /\ online' = online /\ kept' = kept
    BY DEF Read
  <1>2. net[c] \in Seq(Events) /\ view[c] \in Tables
    BY <1>0
  <1>3. /\ Head(net[c]) \in Events /\ rest \in Seq(Events)
        /\ Len(rest) = Len(net[c]) - 1 /\ Len(net[c]) \in Nat
    BY <1>1, <1>2, HeadTailProperties
  <1>4. shown \in Tables
    BY <1>2, <1>3, ShownIsTable
  <1>5. c \in online
    BY <1>1 DEF IInv, AwayIsQuiet
  <1>6. ASSUME c \notin kept
        PROVE  Reaches(shown, rest, Public(workers))
    <2>1. Reaches(view[c], net[c], Public(workers))
      BY <1>5, <1>6 DEF IInv, OnTheWay
    <2> QED BY <2>1, <1>1, <1>2, ReachesRead
  <1> HIDE DEF shown, rest
  <1>7. Typed' /\ snapshot' = workers' /\ RegistryIsExact' /\ RunsOwnTheirChild'
    <2>1. net' \in [Clients -> Seq(Events)] /\ view' \in [Clients -> Tables]
      BY <1>0, <1>1, <1>3, <1>4
    <2>2. ASSUME NEW d \in Clients PROVE Len(net'[d]) <= NetLimit
      <3>1. CASE d = c
        <4>1. net'[d] = rest /\ Len(net[c]) <= NetLimit
          BY <3>1, <1>0, <1>1 DEF TypeOK
        <4> QED BY <4>1, <1>3
      <3>2. CASE d # c
        BY <3>2, <1>0, <1>1 DEF TypeOK
      <3> QED BY <3>1, <3>2
    <2>3. online' \subseteq Clients /\ kept' \subseteq Clients
      BY <1>0, <1>1 DEF TypeOK
    <2> QED BY <2>1, <2>2, <2>3, <1>1, BrowserKeeps
  <1>8. AwayIsQuiet'
    <2> SUFFICES ASSUME NEW d \in Clients \ online
                 PROVE  net'[d] = << >> /\ (d \notin kept => view'[d] = NoTable)
      BY <1>1 DEF AwayIsQuiet
    <2>1. d # c /\ net'[d] = net[d] /\ view'[d] = view[d]
      BY <1>0, <1>1, <1>5
    <2> QED BY <2>1 DEF IInv, AwayIsQuiet
  <1>9. OnTheWay'
    <2> SUFFICES ASSUME NEW d \in online \ kept
                 PROVE  Reaches(view'[d], net'[d], Public(workers))
      BY <1>1 DEF OnTheWay, hubVars
    <2>1. CASE d = c
      <3>1. view'[d] = shown /\ net'[d] = rest
        BY <2>1, <1>0, <1>1
      <3> QED BY <3>1, <2>1, <1>6
    <2>2. CASE d # c
      <3>1. view'[d] = view[d] /\ net'[d] = net[d]
        BY <2>2, <1>0, <1>1 DEF TypeOK
      <3> QED BY <3>1 DEF IInv, OnTheWay
    <2> QED BY <2>1, <2>2
  <1> QED BY <1>7, <1>8, <1>9 DEF IInv

LEMMA StepKeeps ==
  ASSUME IInv, [Next]_vars
  PROVE  IInv'
  <1>1. CASE UNCHANGED vars
    <2>1. /\ UNCHANGED <<run, child, channel, undone>> /\ UNCHANGED hubVars
          /\ UNCHANGED <<hubVars, clientVars>>
      BY <1>1 DEF vars
    <2>2. /\ AwayIsQuiet' /\ OnTheWay' /\ snapshot' = workers'
          /\ net' \in [Clients -> Seq(Events)] /\ view' \in [Clients -> Tables]
          /\ \A c \in Clients : Len(net'[c]) <= NetLimit
          /\ online' \subseteq Clients /\ kept' \subseteq Clients
      BY <2>1, UnseenKeeps
    <2> QED BY <2>1, <2>2, BrowserKeeps DEF IInv
  <1>2. CASE \E w \in Workers :
                \/ StartRepair(w) \/ StartResume(w)
                \/ EntersStage(w) \/ LeavesStage(w) \/ TakesTurn(w)
                \/ Dispatch(w)
                \/ ProcessEnds(w) \/ RunEnds(w)
    BY <1>2, StartRepairKeeps, StartResumeKeeps, WorkingKeeps, DispatchKeeps,
       ProcessEndsKeeps, RunEndsKeeps
  <1>3. CASE Restart
    BY <1>3, RestartKeeps
  <1>4. CASE \E c \in Clients : Load(c) \/ Connect(c) \/ Lose(c) \/ Read(c)
    BY <1>4, LoadKeeps, ConnectKeeps, LoseKeeps, ReadKeeps
  <1> QED BY <1>1, <1>2, <1>3, <1>4 DEF Next

-----------------------------------------------------------------------------
(* The theorems.                                                            *)

LEMMA Invariant == Spec => []IInv
  BY InitEstablishes, StepKeeps, PTL DEF Spec

\* The types of the registry, of every page and of what is on its way.
THEOREM TypeCorrect == Spec => []TypeOK
  <1>1. IInv => TypeOK
    BY DEF IInv, Typed
  <1> QED BY <1>1, Invariant, PTL

\* The registry lists every repair with its directory, and without a run only
\* what a crash or a resume left.
THEOREM RegistryTheorem == Spec => []RegistryIsExact
  <1>1. IInv => RegistryIsExact
    BY DEF IInv
  <1> QED BY <1>1, Invariant, PTL

\* A page that was connected since it was loaded shows the registry once it
\* has read what is on its way, because a snapshot and the events after it
\* lead to every later registry.
THEOREM ViewTheorem == Spec => []ViewFollows
  <1>1. IInv => ViewFollows
    <2> SUFFICES ASSUME IInv, NEW c \in online \ kept, net[c] = << >>
                 PROVE  view[c] = Public(workers)
      BY DEF ViewFollows
    <2>1. Reaches(view[c], << >>, Public(workers)) /\ view[c] \in Tables
      BY DEF IInv, OnTheWay, Typed, TypeOK
    <2> QED BY <2>1, ReachesNothing
  <1> QED BY <1>1, Invariant, PTL

=============================================================================
