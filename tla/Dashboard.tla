----------------------------- MODULE Dashboard -----------------------------
(***************************************************************************)
(* Who is at work, as the dashboard shows it: the registry of workers and   *)
(* the snapshot of dashboard/event-hub.ts, fed by the scheduler's lifecycle *)
(* events and by the messages of the worker processes                       *)
(* (dashboard/ipc-dispatch.ts), and the browser's copy in the hook          *)
(* useEventSource, fed by server-sent events that are lost while it is not  *)
(* connected.                                                               *)
(*                                                                          *)
(* A worker is known by its project and pipeline, so that a repair, the     *)
(* resume of its scene and a repair after a redelivered webhook are one     *)
(* worker to the dashboard; the scheduler runs them one after the other.    *)
(* Tokens and tool calls are kept like the turn and are left out.           *)
(***************************************************************************)
EXTENDS Integers, Sequences

CONSTANTS
    Workers,    \* worker ids
    Clients,    \* browsers
    Stages,     \* what stage_enter names
    TurnLimit,  \* bound: turns of one run
    ChannelLimit, NetLimit  \* bounds: messages and events on their way

NoStage == "none"
\* A field that a progress message does not have.
Same == "same"
SameTurn == -1

ASSUME DashboardAssumption ==
    /\ Stages \subseteq STRING /\ NoStage \notin Stages /\ Same \notin Stages
    /\ TurnLimit \in Nat /\ ChannelLimit \in Nat /\ NetLimit \in Nat \ {0}

\* An entry of the registry, of a snapshot and of a browser's table.  Only
\* worker_started knows the directory of a worker; browsers keep none.
Entry == [stage : Stages \cup {NoStage}, turn : 0 .. TurnLimit, cwd : BOOLEAN]
Tables == UNION {[ws -> Entry] : ws \in SUBSET Workers}
NoTable == [w \in {} |-> [stage |-> NoStage, turn |-> 0, cwd |-> FALSE]]

VARIABLES
    run,       \* what the scheduler awaits for a worker id
    child,     \* its process: what it reports from, its turn, its end
    channel,   \* IPC messages on their way to the main process
    workers,   \* EventHub.workers
    snapshot,  \* workers in EventHub.snapshot
    net,       \* events on their way to a connected browser
    online,    \* EventHub.clients
    view,      \* the browser's workers
    kept,      \* history: browsers that kept a view while they were away
    undone     \* history: workers whose last run ended without worker_done

hubVars    == <<workers, snapshot>>
clientVars == <<net, online, view, kept>>
vars == <<run, child, channel, hubVars, clientVars, undone>>

NoChild == [stage |-> NoStage, turn |-> 0, ended |-> "no"]

Init ==
    /\ run = [w \in Workers |-> "none"]
    /\ child = [w \in Workers |-> NoChild]
    /\ channel = [w \in Workers |-> << >>]
    /\ workers = NoTable
    /\ snapshot = NoTable
    /\ net = [c \in Clients |-> << >>]
    /\ online = {}
    /\ view = [c \in Clients |-> NoTable]
    /\ kept = {}
    /\ undone = {}

-----------------------------------------------------------------------------
(***************************************************************************)
(* Tables.                                                                  *)
(***************************************************************************)

With(table, w, entry) ==
    [x \in DOMAIN table \cup {w} |-> IF x = w THEN entry ELSE table[x]]

Without(table, w) == [x \in DOMAIN table \ {w} |-> table[x]]

Fresh(cwd) == [stage |-> NoStage, turn |-> 0, cwd |-> cwd]

Update(entry, part) ==
    [entry EXCEPT !.stage = IF part.stage = Same THEN @ ELSE part.stage,
                  !.turn  = IF part.turn = SameTurn THEN @ ELSE part.turn]

Known(table, w) == IF w \in DOMAIN table THEN table[w] ELSE Fresh(FALSE)

\* What a browser takes from a table.
Public(table) == [w \in DOMAIN table |-> [table[w] EXCEPT !.cwd = FALSE]]

(***************************************************************************)
(* Faulty variants of the operators below, each a plausible slip.           *)
(***************************************************************************)

UpsertedBare(table, w, part) == With(table, w, part)
RegisteredOnce(w) == IF w \in DOMAIN workers THEN workers ELSE With(workers, w, Fresh(TRUE))
ShownOverSnapshot(table, event) ==
    CASE event.type = "snapshot" -> table
      [] event.type = "worker_started"  -> With(table, event.worker, Fresh(FALSE))
      [] event.type = "worker_progress" ->
            With(table, event.worker, Update(Known(table, event.worker), event.part))
      [] event.type = "worker_done"     -> Without(table, event.worker)

-----------------------------------------------------------------------------
(***************************************************************************)
(* The hub.                                                                 *)
(***************************************************************************)

\* workerProgress: an unknown worker is entered.
Upserted(table, w, part) == With(table, w, Update(Known(table, w), part))

\* workerStarted: what was known of the id is replaced.
Registered(w) == With(workers, w, Fresh(TRUE))

Event(type, w, part) == [type |-> type, worker |-> w, part |-> part]
NoPart == [stage |-> Same, turn |-> SameTurn]

\* emit: an event is written to every connected browser.
Emit(event) == net' = [c \in Clients |-> IF c \in online THEN Append(net[c], event) ELSE net[c]]

Room == \A c \in online : Len(net[c]) < NetLimit

\* The registry and the snapshot change together.
SetWorkers(table) == workers' = table /\ snapshot' = table

-----------------------------------------------------------------------------
(***************************************************************************)
(* The scheduler and the worker processes.                                  *)
(***************************************************************************)

\* runOne: worker_started, then the worker manager spawns the process.
StartRepair(w) ==
    /\ run[w] = "none"
    /\ Room
    /\ run' = [run EXCEPT ![w] = "repair"]
    /\ child' = [child EXCEPT ![w] = [NoChild EXCEPT !.ended = "running"]]
    /\ SetWorkers(Registered(w))
    /\ Emit(Event("worker_started", w, NoPart))
    /\ undone' = undone \ {w}
    /\ UNCHANGED <<channel, online, view, kept>>

\* runResumeSerialized tells the dashboard nothing.
StartResume(w) ==
    /\ run[w] = "none"
    /\ run' = [run EXCEPT ![w] = "resume"]
    /\ child' = [child EXCEPT ![w] = [NoChild EXCEPT !.ended = "running"]]
    /\ UNCHANGED <<channel, hubVars, clientVars, undone>>

Send(w, message) ==
    /\ child[w].ended = "running"
    /\ Len(channel[w]) < ChannelLimit
    /\ channel' = [channel EXCEPT ![w] = Append(@, message)]

Message(type, stage, turn) == [type |-> type, part |-> [stage |-> stage, turn |-> turn]]

\* Only runRepair enters and leaves stages.
EntersStage(w) ==
    \E s \in Stages :
        /\ run[w] = "repair" /\ child[w].stage = NoStage
        /\ Send(w, Message("stage_enter", s, SameTurn))
        /\ child' = [child EXCEPT ![w].stage = s]
        /\ UNCHANGED <<run, hubVars, clientVars, undone>>

LeavesStage(w) ==
    /\ child[w].stage # NoStage
    /\ Send(w, Message("stage_exit", Same, SameTurn))
    /\ child' = [child EXCEPT ![w].stage = NoStage]
    /\ UNCHANGED <<run, hubVars, clientVars, undone>>

\* turn_start and turn_end name the same turn; each prompt counts from one.
TakesTurn(w) ==
    \E turn \in {1, child[w].turn + 1} \cap 1 .. TurnLimit :
        /\ Send(w, Message("turn_start", Same, turn))
        /\ child' = [child EXCEPT ![w].turn = turn]
        /\ UNCHANGED <<run, hubVars, clientVars, undone>>

\* IPC_DISPATCH: stage_exit is passed on and leaves the registry alone.
Dispatch(w) ==
    /\ channel[w] # << >>
    /\ Room
    /\ channel' = [channel EXCEPT ![w] = Tail(@)]
    /\ Emit(Event("worker_progress", w, Head(channel[w]).part))
    /\ IF Head(channel[w]).type = "stage_exit"
       THEN UNCHANGED hubVars
       ELSE SetWorkers(Upserted(workers, w, Head(channel[w]).part))
    /\ UNCHANGED <<run, child, online, view, kept, undone>>

\* The process ends; its close event comes after the last of its messages.
ProcessEnds(w) ==
    \E how \in {"result", "crash"} :
        /\ child[w].ended = "running"
        /\ child' = [child EXCEPT ![w] = [NoChild EXCEPT !.ended = how]]
        /\ UNCHANGED <<run, channel, hubVars, clientVars, undone>>

\* run() resolves or rejects once the scene is cleaned; worker_done is for a
\* repair that came to a result.
RunEnds(w) ==
    /\ child[w].ended \in {"result", "crash"}
    /\ channel[w] = << >>
    /\ run' = [run EXCEPT ![w] = "none"]
    /\ child' = [child EXCEPT ![w] = NoChild]
    /\ IF run[w] = "repair" /\ child[w].ended = "result"
       THEN /\ Room
            /\ SetWorkers(Without(workers, w))
            /\ Emit(Event("worker_done", w, NoPart))
            /\ UNCHANGED undone
       ELSE undone' = undone \cup {w} /\ UNCHANGED <<hubVars, net>>
    /\ UNCHANGED <<channel, online, view, kept>>

\* The bot is restarted: its workers are killed and its connections close.
Restart ==
    /\ run' = [w \in Workers |-> "none"]
    /\ child' = [w \in Workers |-> NoChild]
    /\ channel' = [w \in Workers |-> << >>]
    /\ SetWorkers(NoTable)
    /\ net' = [c \in Clients |-> << >>]
    /\ online' = {}
    /\ kept' = kept \cup {c \in online : view[c] # NoTable \/ net[c] # << >>}
    /\ undone' = {}
    /\ UNCHANGED view

-----------------------------------------------------------------------------
(***************************************************************************)
(* The browser.                                                             *)
(***************************************************************************)

\* The page is loaded: an empty view.
Load(c) ==
    /\ c \notin online
    /\ view' = [view EXCEPT ![c] = NoTable]
    /\ kept' = kept \ {c}
    /\ UNCHANGED <<run, child, channel, hubVars, net, online, undone>>

\* addClient: the snapshot is the first event of a connection.
Connect(c) ==
    /\ c \notin online
    /\ online' = online \cup {c}
    /\ net' = [net EXCEPT ![c] = <<[type |-> "snapshot", table |-> snapshot]>>]
    /\ UNCHANGED <<run, child, channel, hubVars, view, kept, undone>>

\* The connection is lost with all that is on its way; EventSource will
\* connect again and the page keeps what it shows.
Lose(c) ==
    /\ c \in online
    /\ online' = online \ {c}
    /\ net' = [net EXCEPT ![c] = << >>]
    /\ kept' = kept \cup {c}
    /\ UNCHANGED <<run, child, channel, hubVars, view, undone>>

\* What a page makes of an event.  A snapshot adds the workers the page does
\* not have and changes nothing else.
Shown(table, event) ==
    CASE event.type = "snapshot" ->
            [w \in DOMAIN table \cup DOMAIN event.table |->
                IF w \in DOMAIN table THEN table[w] ELSE Public(event.table)[w]]
      [] event.type = "worker_started"  -> With(table, event.worker, Fresh(FALSE))
      [] event.type = "worker_progress" -> Upserted(table, event.worker, event.part)
      [] event.type = "worker_done"     -> Without(table, event.worker)

Read(c) ==
    /\ net[c] # << >>
    /\ view' = [view EXCEPT ![c] = Shown(@, Head(net[c]))]
    /\ net' = [net EXCEPT ![c] = Tail(@)]
    /\ UNCHANGED <<run, child, channel, hubVars, online, kept, undone>>

Next ==
    \/ \E w \in Workers :
          \/ StartRepair(w) \/ StartResume(w)
          \/ EntersStage(w) \/ LeavesStage(w) \/ TakesTurn(w)
          \/ Dispatch(w)
          \/ ProcessEnds(w) \/ RunEnds(w)
    \/ Restart
    \/ \E c \in Clients : Load(c) \/ Connect(c) \/ Lose(c) \/ Read(c)

Spec == Init /\ [][Next]_vars

-----------------------------------------------------------------------------
(***************************************************************************)
(* Properties.                                                              *)
(***************************************************************************)

TypeOK ==
    /\ run \in [Workers -> {"none", "repair", "resume"}]
    /\ child \in [Workers -> [stage : Stages \cup {NoStage}, turn : 0 .. TurnLimit,
                              ended : {"no", "running", "result", "crash"}]]
    /\ \A w \in Workers : Len(channel[w]) <= ChannelLimit
    /\ workers \in Tables /\ snapshot \in Tables
    /\ \A c \in Clients : Len(net[c]) <= NetLimit /\ view[c] \in Tables
    /\ online \subseteq Clients /\ kept \subseteq Clients /\ undone \subseteq Workers

\* "The authoritative registry": a repair is listed from its start to its end,
\* with the directory the log endpoint reads from, whatever resumes and crashes
\* of the same id left behind; and what is listed without a run is exactly what
\* crashes and resumes leave.
RegistryIsExact ==
    \A w \in Workers :
        /\ run[w] = "repair" => w \in DOMAIN workers /\ workers[w].cwd
        /\ run[w] = "none" /\ w \in DOMAIN workers => w \in undone

\* A page that has been connected since it was loaded shows, once it has read
\* its events, what the registry holds: no event between its snapshot and its
\* next one is missed or counted twice, whenever it connects.
ViewFollows ==
    \A c \in online \ kept :
        net[c] = << >> => view[c] = Public(workers)

=============================================================================
