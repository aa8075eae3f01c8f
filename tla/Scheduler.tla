----------------------------- MODULE Scheduler -----------------------------
(***************************************************************************)
(* The Scheduler of agent-runtime/scheduler.ts: webhook events are queued   *)
(* (at most one per key, the newest arrival replacing the one that waits),  *)
(* pump() starts them under a per-key lock and a global cap, runOne() takes *)
(* each through the green and merge-request gates, the worker and the       *)
(* notification, and resumes of retained scenes wait on a FIFO chain per    *)
(* key and poll for the same lock and the same cap.                         *)
(*                                                                          *)
(* JavaScript runs each handler to completion.  pump() is a loop without an *)
(* await: the flag pumping is up from the call that enters it to its last   *)
(* iteration, and no other action is enabled meanwhile, so every handler    *)
(* is atomic together with the pump it ends with.                           *)
(*                                                                          *)
(* The steer bookkeeping that enqueue and the release also touch            *)
(* (pendingSteerByKey) is never read by what is modelled here: see Steer.   *)
(***************************************************************************)
EXTENDS Integers, Sequences, FiniteSets

CONSTANTS
    Pipelines,      \* failed pipelines, the subject of repairs
    Resumes,        \* decided scenes to be resumed, each once
    Keys,           \* policy.serialKey values
    KeyOf,          \* the key of each pipeline and of each resume
    MrEvents,       \* the pipelines of a merge request (mrIid != null)
    Excluded,       \* the pipelines whose failed stages are all skip stages
    MaxParallel,    \* policy.maxParallel
    MaxWorkers,     \* deps.maxWorkers
    CrashThreshold, \* deps.workerCrashThreshold
    QuietWindow,    \* CIHEAL_QUIET_WINDOW_MS > 0
    Nobody          \* runningEventByKey.get of a key without a runner

Jobs == Pipelines \cup Resumes

ASSUME JobsAssumption ==
    /\ IsFiniteSet(Pipelines)
    /\ IsFiniteSet(Resumes)
    /\ Pipelines \cap Resumes = {}
    /\ Nobody \notin Jobs

ASSUME EventAssumption ==
    /\ KeyOf \in [Jobs -> Keys]
    /\ MrEvents \subseteq Pipelines
    /\ Excluded \subseteq Pipelines

ASSUME ConfigAssumption ==
    /\ MaxParallel \in Int
    /\ MaxWorkers \in Int
    /\ CrashThreshold \in Nat \ {0}
    /\ QuietWindow \in BOOLEAN

VARIABLES
    queue,       \* waiting pipelines, in order of arrival
    inflight,    \* pipelines a repeated webhook is dropped for
    activeKeys,  \* keys that are taken
    runner,      \* runningByKey, runningEventByKey: the job on each key
    running,     \* slots in use
    stage,       \* where each job stands
    chain,       \* resumeChains: per key, the resumes not yet finished
    crashCount,  \* consecutive worker crashes
    fresh,       \* keys still inside the window of lastEnqueueAtByKey
    timer,       \* quietTimer is set
    pumping      \* the event loop is inside pump()

vars == <<queue, inflight, activeKeys, runner, running, stage, chain,
          crashCount, fresh, timer, pumping>>

\* Math.max(1, Math.min(maxParallel, maxWorkers))
EffectiveCap ==
    LET asked == IF MaxParallel <= MaxWorkers THEN MaxParallel ELSE MaxWorkers
    IN  IF asked >= 1 THEN asked ELSE 1

\* The stages of a job that pump() or a resume has put on a key.  "settled" is
\* a repair whose runOne has returned while its release is still to run.
Working == {"green", "terminal", "worker", "notify"}
Holding == Working \cup {"settled"}
Stages  == Holding \cup {"absent", "chained", "over"}

Occupying == {j \in Jobs : stage[j] \in Holding}
Queued    == {queue[i] : i \in DOMAIN queue}

TypeOK ==
    /\ queue \in Seq(Pipelines)
    /\ inflight \subseteq Pipelines
    /\ activeKeys \subseteq Keys
    /\ runner \in [Keys -> Jobs \cup {Nobody}]
    /\ running \in Nat
    /\ stage \in [Jobs -> Stages]
    /\ chain \in [Keys -> Seq(Resumes)]
    /\ crashCount \in 0 .. CrashThreshold - 1
    /\ fresh \subseteq Keys
    /\ timer \in BOOLEAN
    /\ pumping \in BOOLEAN

Init ==
    /\ queue = <<>>
    /\ inflight = {}
    /\ activeKeys = {}
    /\ runner = [k \in Keys |-> Nobody]
    /\ running = 0
    /\ stage = [j \in Jobs |-> "absent"]
    /\ chain = [k \in Keys |-> <<>>]
    /\ crashCount = 0
    /\ fresh = {}
    /\ timer = FALSE
    /\ pumping = FALSE

-----------------------------------------------------------------------------
(* Faulty variants of the operators below, each a plausible slip in the     *)
(* code; they show which property notices it.                               *)

HasSlotOffByOne == running <= EffectiveCap
KeyFreeIgnored(k) == TRUE
AfterCrashNoReset == crashCount + 1
CoalescedKeepsOld(old, new) == inflight \cup {new}
EnterPumpForgotten == pumping' = FALSE
RearmedNever == timer
WithoutNothing(i) == queue
VacateKeepsKey(j, last) ==
    /\ runner' = [runner EXCEPT ![KeyOf[j]] = Nobody]
    /\ running' = running - 1
    /\ stage' = [stage EXCEPT ![j] = last]
    /\ pumping' = TRUE
    /\ UNCHANGED activeKeys

-----------------------------------------------------------------------------
(* Keys and slots, shared by repairs and resumes.                           *)

HasSlot == running < EffectiveCap

KeyFree(k) == k \notin activeKeys

QuietElapsed(k) == k \notin fresh

EnterPump == pumping' = TRUE

Occupy(j, first) ==
    /\ activeKeys' = activeKeys \cup {KeyOf[j]}
    /\ runner' = [runner EXCEPT ![KeyOf[j]] = j]
    /\ running' = running + 1
    /\ stage' = [stage EXCEPT ![j] = first]

Vacate(j, last) ==
    /\ activeKeys' = activeKeys \ {KeyOf[j]}
    /\ runner' = [runner EXCEPT ![KeyOf[j]] = Nobody]
    /\ running' = running - 1
    /\ stage' = [stage EXCEPT ![j] = last]
    /\ EnterPump

-----------------------------------------------------------------------------
(* enqueue: a pipeline already in flight and an excluded one change nothing. *)

Coalesced(old, new) == (inflight \ {old}) \cup {new}

SameKey(p) == {i \in DOMAIN queue : KeyOf[queue[i]] = KeyOf[p]}

Enqueue(p) ==
    /\ ~pumping
    /\ p \notin inflight
    /\ p \notin Excluded
    /\ fresh' = IF QuietWindow THEN fresh \cup {KeyOf[p]} ELSE fresh
    /\ \/ /\ SameKey(p) = {}
          /\ inflight' = inflight \cup {p}
          /\ queue' = Append(queue, p)
       \/ \E i \in SameKey(p) :
             /\ \A other \in SameKey(p) : i <= other
             /\ inflight' = Coalesced(queue[i], p)
             /\ queue' = [queue EXCEPT ![i] = p]
    /\ EnterPump
    /\ UNCHANGED <<activeKeys, runner, running, stage, chain, crashCount, timer>>

-----------------------------------------------------------------------------
(* pump: one iteration of the loop, and its end.                            *)

Startable(i) == KeyFree(KeyOf[queue[i]]) /\ QuietElapsed(KeyOf[queue[i]])

\* runOne runs up to its first await within the same iteration.
FirstStage(p) == IF p \in MrEvents THEN "green" ELSE "worker"

Without(i) ==
    [j \in 1 .. Len(queue) - 1 |-> IF j < i THEN queue[j] ELSE queue[j + 1]]

PumpStart ==
    /\ pumping
    /\ HasSlot
    /\ \E i \in DOMAIN queue :
          /\ Startable(i)
          /\ \A earlier \in 1 .. i - 1 : ~Startable(earlier)
          /\ queue' = Without(i)
          /\ fresh' = fresh \ {KeyOf[queue[i]]}
          /\ Occupy(queue[i], FirstStage(queue[i]))
    /\ UNCHANGED <<inflight, chain, crashCount, timer, pumping>>

\* scheduleQuietRepump: only an item whose key is free asks for the timer.
Rearmed ==
    \/ timer
    \/ QuietWindow /\ \E i \in DOMAIN queue : KeyFree(KeyOf[queue[i]])

PumpEnd ==
    /\ pumping
    /\ ~ (HasSlot /\ \E i \in DOMAIN queue : Startable(i))
    /\ timer' = Rearmed
    /\ pumping' = FALSE
    /\ UNCHANGED <<queue, inflight, activeKeys, runner, running, stage, chain,
                   crashCount, fresh>>

\* Time: a key's window passes, whatever the process is doing, and the timer calls
\* pump (never exactly when the window ends, and possibly for a window that was
\* extended meanwhile).
WindowPasses(k) ==
    /\ k \in fresh
    /\ fresh' = fresh \ {k}
    /\ UNCHANGED <<queue, inflight, activeKeys, runner, running, stage, chain,
                   crashCount, timer, pumping>>

TimerFires ==
    /\ ~pumping
    /\ timer
    /\ timer' = FALSE
    /\ EnterPump
    /\ UNCHANGED <<queue, inflight, activeKeys, runner, running, stage, chain,
                   crashCount, fresh>>

-----------------------------------------------------------------------------
(* runOne, from await to await.                                             *)

MoveTo(p, from, to) ==
    /\ ~pumping
    /\ stage[p] = from
    /\ stage' = [stage EXCEPT ![p] = to]
    /\ UNCHANGED <<queue, activeKeys, runner, running, chain, fresh, timer, pumping>>

\* The checker's answer; an error counts as "not green", "not terminal".
GreenChecked(p) ==
    /\ \/ MoveTo(p, "green", "notify")
       \/ MoveTo(p, "green", "terminal")
    /\ UNCHANGED <<inflight, crashCount>>

TerminalChecked(p) ==
    /\ \/ MoveTo(p, "terminal", "notify")
       \/ MoveTo(p, "terminal", "worker")
    /\ UNCHANGED <<inflight, crashCount>>

\* runOne's finally clause.
Settled(p) == inflight \ {p}

\* The alert resets the count, so that one alert is sent per threshold.
AfterCrash == IF crashCount + 1 >= CrashThreshold THEN 0 ELSE crashCount + 1

WorkerEscalates(p) ==
    /\ MoveTo(p, "worker", "notify")
    /\ crashCount' = 0
    /\ UNCHANGED inflight

WorkerReturns(p) ==
    /\ MoveTo(p, "worker", "settled")
    /\ crashCount' = 0
    /\ inflight' = Settled(p)

WorkerCrashes(p) ==
    /\ MoveTo(p, "worker", "settled")
    /\ crashCount' = AfterCrash
    /\ inflight' = Settled(p)

\* A skip notice or an escalation is out (a failure to send is only logged).
Notified(p) ==
    /\ MoveTo(p, "notify", "settled")
    /\ inflight' = Settled(p)
    /\ UNCHANGED crashCount

\* The callback chained behind runOne.
Release(p) ==
    /\ ~pumping
    /\ stage[p] = "settled"
    /\ Vacate(p, "absent")
    /\ UNCHANGED <<queue, inflight, chain, crashCount, fresh, timer>>

-----------------------------------------------------------------------------
(* Resumes.                                                                 *)

EnqueueResume(r) ==
    /\ ~pumping
    /\ stage[r] = "absent"
    /\ chain' = [chain EXCEPT ![KeyOf[r]] = Append(@, r)]
    /\ stage' = [stage EXCEPT ![r] = "chained"]
    /\ UNCHANGED <<queue, inflight, activeKeys, runner, running, crashCount,
                   fresh, timer, pumping>>

\* The poll of runResumeSerialized that finds the key free and a slot left;
\* only the head of a chain polls.
StartResume(k) ==
    /\ ~pumping
    /\ chain[k] # <<>>
    /\ stage[Head(chain[k])] = "chained"
    /\ KeyFree(k)
    /\ HasSlot
    /\ Occupy(Head(chain[k]), "worker")
    /\ UNCHANGED <<queue, inflight, chain, crashCount, fresh, timer, pumping>>

Unchained(k) == [chain EXCEPT ![k] = Tail(@)]

EndResume(r, from) ==
    /\ ~pumping
    /\ stage[r] = from
    /\ chain' = Unchained(KeyOf[r])
    /\ Vacate(r, "over")
    /\ UNCHANGED <<queue, inflight, crashCount, fresh, timer>>

\* A resume that repaired, failed or crashed ends here; crashes of resumes are
\* logged and not counted.
ResumeReturns(r) == EndResume(r, "worker")

ResumeEscalates(r) ==
    /\ MoveTo(r, "worker", "notify")
    /\ UNCHANGED <<inflight, crashCount>>

ResumeNotified(r) == EndResume(r, "notify")

-----------------------------------------------------------------------------
Pump == PumpStart \/ PumpEnd

RepairStep(p) ==
    \/ GreenChecked(p)
    \/ TerminalChecked(p)
    \/ WorkerEscalates(p)
    \/ WorkerReturns(p)
    \/ WorkerCrashes(p)
    \/ Notified(p)
    \/ Release(p)

ResumeStep(r) ==
    \/ ResumeReturns(r)
    \/ ResumeEscalates(r)
    \/ ResumeNotified(r)

Next ==
    \/ PumpStart
    \/ PumpEnd
    \/ TimerFires
    \/ \E k \in Keys : WindowPasses(k) \/ StartResume(k)
    \/ \E p \in Pipelines : Enqueue(p) \/ RepairStep(p)
    \/ \E r \in Resumes : EnqueueResume(r) \/ ResumeStep(r)

Spec == Init /\ [][Next]_vars

\* Handlers that have started finish, awaits are answered (checkers, workers
\* and notifiers have timeouts), timers fire, polls repeat.  Webhooks and human
\* decisions are under no obligation to arrive.  The continuation of an await
\* stays ready until it runs: only pump() can be in its way, for an instant, and
\* however often that is the event loop gets to it, hence the strong fairness.
\* A poll has no such right: it looks every 10 ms and may find the slot taken.
Fairness ==
    /\ WF_vars(Pump)
    /\ WF_vars(TimerFires)
    /\ \A k \in Keys : WF_vars(WindowPasses(k)) /\ WF_vars(StartResume(k))
    /\ \A p \in Pipelines : SF_vars(RepairStep(p))
    /\ \A r \in Resumes : SF_vars(ResumeStep(r))

FairSpec == Spec /\ Fairness

-----------------------------------------------------------------------------
(* Safety.                                                                  *)

\* Two jobs of one key never hold it together, whether they are repairs that
\* pump() started or resumes that polled ("items sharing a serialKey NEVER run
\* concurrently"), and whoever looks a key up finds the job that holds it: the
\* steer of a running worker is addressed by that lookup.
SerialPerKey ==
    /\ \A a, b \in Occupying : KeyOf[a] = KeyOf[b] => a = b
    /\ \A k \in Keys :
          IF \E j \in Occupying : KeyOf[j] = k
          THEN k \in activeKeys /\ runner[k] \in Occupying /\ KeyOf[runner[k]] = k
          ELSE k \notin activeKeys /\ runner[k] = Nobody

\* The counter that both ways of starting a worker compare with the cap is the
\* number of jobs that hold a slot, and never exceeds the cap: it is raised and
\* lowered in four places, two of them callbacks.
SlotAccounting ==
    /\ running = Cardinality(Occupying)
    /\ running <= EffectiveCap

\* A webhook is dropped as a duplicate exactly when its pipeline waits or is
\* being worked on: no crash, skip or coalescing leaves a pipeline behind that
\* would be refused for ever, and none is forgotten while it is being repaired.
InflightExact ==
    inflight = Queued \cup {p \in Pipelines : stage[p] \in Working}

\* The queue never holds two pipelines of one key.
OneQueuedPerKey ==
    \A i, j \in DOMAIN queue : KeyOf[queue[i]] = KeyOf[queue[j]] => i = j

\* Outside pump(), no waiting pipeline could start: its key is taken, or the
\* cap is reached, or its window is open or just passed and then the timer that
\* will call pump() again is set.  Each handler that could make one startable
\* must have called pump() or left the timer running.
NoLostWakeup ==
    ~pumping /\ HasSlot =>
        \A i \in DOMAIN queue :
            KeyFree(KeyOf[queue[i]]) => QuietWindow /\ timer

\* The scheduler implements SerialExecutor.
Exec == INSTANCE SerialExecutor
            WITH Cap <- EffectiveCap,
                 pending <- Queued \cup {r \in Resumes : stage[r] = "chained"},
                 active <- Occupying

ImplementsExecutor == Exec!ExecSpec

-----------------------------------------------------------------------------
(* Liveness.                                                                *)

\* A pipeline that was accepted is at some time no longer in flight: repaired,
\* skipped, crashed, or replaced by a newer one of its key, so that a later webhook
\* for it is accepted.  Pushes that never pause for the length of the window keep
\* their key from being repaired, and still no pipeline stays.
AcceptedEventuallySettled ==
    \A p \in Pipelines : p \in inflight ~> p \notin inflight

\* A resume gets its turn once webhooks stop filling the queue: its poll can
\* lose every race against pump(), which runs first whenever a slot is freed.
ResumeEventuallyEnds ==
    \A r \in Resumes :
        <>[](queue = <<>>) => (stage[r] = "chained" ~> stage[r] = "over")

=============================================================================
