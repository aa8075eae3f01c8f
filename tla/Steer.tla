------------------------------- MODULE Steer -------------------------------
(***************************************************************************)
(* Steering a running worker when its merge request gets a newer pipeline:  *)
(* maybeSteerRunningWorker and its books in agent-runtime/scheduler.ts, the *)
(* control channel of worker/manager.ts, and in the worker process          *)
(* control-listener.ts and steer-session.ts, which put the news into the    *)
(* live agent session.                                                      *)
(*                                                                          *)
(* One serial key: everything here is stored per key or per event.  An      *)
(* event is a failed pipeline of the merge request, with the commit it ran  *)
(* on.  Nothing orders them: a pipeline may be delivered again, or run      *)
(* again after a newer one, and nobody compares commits.  Deliveries are    *)
(* numbered.  Repairs and resumes hold the key and are steered alike.       *)
(*                                                                          *)
(* Two processes run concurrently, joined by a FIFO channel each way.  In   *)
(* each, code between two awaits is one action.  maybeSteerRunningWorker    *)
(* awaits the changed files and the green check before it reads the pending *)
(* steer; deliverSupersedeSteer awaits the session's clearQueue and steer,  *)
(* and the listener does not wait for one delivery before the next.  The    *)
(* SDK's session is external; agent/stub-session.ts says what the code      *)
(* takes it to do.                                                          *)
(***************************************************************************)
EXTENDS Integers, Sequences, Functions

CONSTANTS
    Events,        \* failed pipelines of the key
    None,          \* no event, no message
    MaxDeliveries  \* bound: webhooks that are no duplicates

Deliveries == 1 .. MaxDeliveries

\* SupersedePayload: old is the event of the run that the message is for, new
\* the event that is said to supersede it; "at" numbers the delivery.
Message == [at : Deliveries, old : Events, new : Events]

ASSUME NoneAssumption == None \notin Events /\ None \notin Message
ASSUME BoundAssumption == MaxDeliveries \in Nat

VARIABLES
    arrived,     \* deliveries so far
    waiting,     \* the event of the key in the queue
    runner,      \* runningEventByKey
    resuming,    \* the runner is a resume
    calls,       \* where each maybeSteerRunningWorker stands, with its payload
    pending,     \* the new event of pendingSteerByKey
    child,       \* the worker process of the runner
    controls,    \* supersede messages on their way to the child
    acks,        \* steer_delivered messages on their way back
    session,     \* the child's agent session
    stash,       \* pendingSupersedePayload
    undelivered, \* pendingUndelivered
    delivering,  \* which await each deliverSupersedeSteer is in
    steering,    \* the session's steering queue
    shown,       \* what the agent has been told, in order
    latest       \* history: the last control message the child has handled

mainVars   == <<arrived, waiting, runner, resuming, calls, pending>>
workerVars == <<session, stash, undelivered, delivering, steering, shown, latest>>
vars       == <<mainVars, child, controls, acks, workerVars>>

Call     == [msg : Message, step : {"lookup", "retrying"}]
Delivery == [msg : Message, step : {"clearing", "steering"}]

TypeOK ==
    /\ arrived \in 0 .. MaxDeliveries
    /\ waiting \in Events \cup {None}
    /\ runner \in Events \cup {None}
    /\ resuming \in BOOLEAN
    /\ calls \subseteq Call
    /\ pending \in Events \cup {None}
    /\ child \in {"none", "live", "exited"}
    /\ controls \in Seq(Message)
    /\ acks \in Nat
    /\ session \in {"unopened", "open", "closed"}
    /\ stash \in Message \cup {None}
    /\ undelivered \in BOOLEAN
    /\ delivering \subseteq Delivery
    /\ steering \in Seq(Message)
    /\ shown \in Seq(Message)
    /\ latest \in Message \cup {None}

Init ==
    /\ arrived = 0
    /\ waiting = None
    /\ runner = None
    /\ resuming = FALSE
    /\ calls = {}
    /\ pending = None
    /\ child = "none"
    /\ controls = <<>>
    /\ acks = 0
    /\ session = "unopened"
    /\ stash = None
    /\ undelivered = FALSE
    /\ delivering = {}
    /\ steering = <<>>
    /\ shown = <<>>
    /\ latest = None

-----------------------------------------------------------------------------
(* Faulty variants of the operators below, each a plausible slip in the     *)
(* code; they show which property notices it.                               *)

ReachableByKey(m) == child = "live"
StashTakenForGranted == TRUE
LostForgotten == pending
ClearedLate(m) == <<m>>

-----------------------------------------------------------------------------
(* The main process: enqueue, the run of an event, its release.             *)

\* The dedup set of the key; a resume is not in it.
Inflight == {waiting} \cup (IF resuming THEN {} ELSE {runner})

\* enqueue: the event takes the waiting event's place; if the key is held,
\* maybeSteerRunningWorker reads the running event and awaits its lookups.
Arrive(e) ==
    /\ arrived < MaxDeliveries
    /\ e \notin Inflight
    /\ arrived' = arrived + 1
    /\ waiting' = e
    /\ IF runner = None
       THEN UNCHANGED calls
       ELSE calls' = calls \cup
              {[msg |-> [at |-> arrived', old |-> runner, new |-> e], step |-> "lookup"]}
    /\ UNCHANGED <<runner, resuming, pending, child, controls, acks, workerVars>>

\* pump takes the waiting event once a slot is free and the window is over.
Start ==
    /\ runner = None
    /\ waiting # None
    /\ runner' = waiting
    /\ waiting' = None
    /\ resuming' = FALSE
    /\ UNCHANGED <<arrived, calls, pending, child, controls, acks, workerVars>>

\* runResumeSerialized takes the key for the event of a retained scene, which
\* an earlier run has left, maybe one of before the last restart.
Resume(e) ==
    /\ runner = None
    /\ runner' = e
    /\ resuming' = TRUE
    /\ UNCHANGED <<arrived, waiting, calls, pending, child, controls, acks, workerVars>>

\* runChild.  Before it are the gates and the preparation of the directory.
Spawn ==
    /\ runner # None
    /\ child = "none"
    /\ child' = "live"
    /\ UNCHANGED <<mainVars, controls, acks, workerVars>>

\* The child ends by itself, crashes or is killed on its timeout.
Exit ==
    /\ child = "live"
    /\ child' = "exited"
    /\ UNCHANGED <<mainVars, controls, acks, workerVars>>

\* What onSteerLost leaves of the pending steer; it emits steer_lost for it.
AfterLost == None

\* The next child starts with the initial values of its module variables.
WorkerForgotten ==
    /\ session' = "unopened"
    /\ stash' = None
    /\ undelivered' = FALSE
    /\ delivering' = {}
    /\ steering' = <<>>
    /\ shown' = <<>>
    /\ latest' = None

\* The run settles, skipped by a gate or after "close", which Node emits once
\* the channel back is drained.  The release audits the pending steer as lost;
\* the child's memory and what it never read go with it.
Release ==
    /\ runner # None
    /\ child \in {"none", "exited"}
    /\ acks = 0
    /\ pending' = AfterLost
    /\ runner' = None
    /\ resuming' = FALSE
    /\ child' = "none"
    /\ controls' = <<>>
    /\ WorkerForgotten
    /\ UNCHANGED <<arrived, waiting, calls, acks>>

-----------------------------------------------------------------------------
(* The main process: maybeSteerRunningWorker after its awaits.              *)

\* sendControl finds the child by the event of the run that the call has read.
Reachable(m) == child = "live" /\ m.old = runner

\* One attempt of sendSupersedeControl.
Attempt(c) ==
    IF Reachable(c.msg)
    THEN /\ controls' = Append(controls, c.msg)
         /\ calls' = calls \ {c}
    ELSE /\ calls' = (calls \ {c}) \cup {[c EXCEPT !.step = "retrying"]}
         /\ UNCHANGED controls

\* The lookups have answered: the pending steer is set, or the one that is
\* still undelivered takes the new payload, and the first attempt follows.
LookedUp(c) ==
    /\ c.step = "lookup"
    /\ pending' = c.msg.new
    /\ Attempt(c)
    /\ UNCHANGED <<arrived, waiting, runner, resuming, child, acks, workerVars>>

\* A later attempt, 50 ms after the one before.
Retry(c) ==
    /\ c.step = "retrying"
    /\ Attempt(c)
    /\ UNCHANGED <<arrived, waiting, runner, resuming, pending, child, acks, workerVars>>

\* The twentieth attempt has failed; the pending steer stays.
GiveUp(c) ==
    /\ c.step = "retrying"
    /\ ~Reachable(c.msg)
    /\ calls' = calls \ {c}
    /\ UNCHANGED <<arrived, waiting, runner, resuming, pending, child, controls,
                   acks, workerVars>>

\* onSteerDelivered: the message names no event; whatever is pending is meant.
OnSteerDelivered ==
    /\ acks > 0
    /\ acks' = acks - 1
    /\ pending' = None
    /\ UNCHANGED <<arrived, waiting, runner, resuming, calls, child, controls,
                   workerVars>>

-----------------------------------------------------------------------------
(* The worker process.                                                      *)

\* markSteerDelivered, which the subscription calls on a queue update that
\* shows no steer while one is outstanding.
QueueUpdate(queue) ==
    IF undelivered /\ queue = <<>>
    THEN undelivered' = FALSE /\ acks' = acks + 1
    ELSE UNCHANGED <<undelivered, acks>>

InAwait(m, step) == delivering' = delivering \cup {[msg |-> m, step |-> step]}

\* deliverSupersedeSteer up to its first await: a steer that is outstanding is
\* cleared from the queue, otherwise the new one is queued at once.  The
\* update of the clearing reaches the subscription like any other.
Deliver(m) ==
    IF undelivered
    THEN /\ steering' = <<>>
         /\ QueueUpdate(<<>>)
         /\ InAwait(m, "clearing")
    ELSE /\ steering' = Append(steering, m)
         /\ InAwait(m, "steering")
         /\ UNCHANGED <<undelivered, acks>>

\* mergePendingSupersede: of two payloads the first one's old event stays.
Merged(m) == IF stash = None THEN m ELSE [m EXCEPT !.old = stash.old]

\* handleWorkerControlMessage, applySupersedeSteer
HandleControl ==
    /\ child = "live"
    /\ controls # <<>>
    /\ controls' = Tail(controls)
    /\ latest' = Head(controls)
    /\ IF session = "open"
       THEN Deliver(Head(controls)) /\ UNCHANGED stash
       ELSE /\ stash' = Merged(Head(controls))
            /\ UNCHANGED <<undelivered, acks, delivering, steering>>
    /\ UNCHANGED <<mainVars, child, session, shown>>

StashWaits == stash # None

\* registerSteerSession, once the session factory has returned; a worker opens
\* one session.
OpenSession ==
    /\ child = "live"
    /\ session = "unopened"
    /\ session' = "open"
    /\ stash' = None
    /\ IF StashWaits
       THEN /\ steering' = Append(steering, stash)
            /\ InAwait(stash, "steering")
       ELSE UNCHANGED <<delivering, steering>>
    /\ UNCHANGED <<mainVars, child, controls, acks, undelivered, shown, latest>>

\* The new steer follows whatever was queued while clearQueue was awaited.
Requeued(m) == Append(steering, m)

\* deliverSupersedeSteer goes on after clearQueue.
Cleared(d) ==
    /\ child = "live"
    /\ d.step = "clearing"
    /\ steering' = Requeued(d.msg)
    /\ delivering' = (delivering \ {d}) \cup {[d EXCEPT !.step = "steering"]}
    /\ UNCHANGED <<mainVars, child, controls, acks, session, stash,
                   undelivered, shown, latest>>

\* deliverSupersedeSteer goes on after steer.
Steered(d) ==
    /\ child = "live"
    /\ d.step = "steering"
    /\ undelivered' = TRUE
    /\ delivering' = delivering \ {d}
    /\ UNCHANGED <<mainVars, child, controls, acks, session, stash,
                   steering, shown, latest>>

\* Between two turns of the agent the session takes one steer off its queue.
TurnBoundary ==
    /\ child = "live"
    /\ session = "open"
    /\ steering # <<>>
    /\ shown' = Append(shown, Head(steering))
    /\ steering' = Tail(steering)
    /\ QueueUpdate(Tail(steering))
    /\ UNCHANGED <<mainVars, child, controls, session, stash, delivering, latest>>

\* clearSteerSession and dispose.  A delivery caught in an await ends without
\* effect: nobody reads the queue or the flag of a session that is gone.
CloseSession ==
    /\ child = "live"
    /\ session = "open"
    /\ session' = "closed"
    /\ stash' = None
    /\ undelivered' = FALSE
    /\ delivering' = {}
    /\ steering' = <<>>
    /\ UNCHANGED <<mainVars, child, controls, acks, shown, latest>>

-----------------------------------------------------------------------------

CallStep(c) == LookedUp(c) \/ Retry(c) \/ GiveUp(c)
Worker      == HandleControl \/ OpenSession \/ TurnBoundary \/ CloseSession

Next ==
    \/ Start \/ Spawn \/ Exit \/ Release \/ OnSteerDelivered
    \/ Worker
    \/ \E e \in Events : Arrive(e) \/ Resume(e)
    \/ \E c \in calls : CallStep(c)
    \/ \E d \in delivering : Cleared(d) \/ Steered(d)

\* Messages arrive, and a child ends by itself or is killed on its timeout.
\* Nothing is assumed of lookups, of attempts and of the agent's turns.
Fairness ==
    /\ WF_vars(Spawn) /\ WF_vars(Exit) /\ WF_vars(Release)
    /\ WF_vars(OnSteerDelivered)

Spec == Init /\ [][Next]_vars /\ Fairness

-----------------------------------------------------------------------------
(* Properties                                                               *)

\* The agent is only told that the commit of its own run is superseded, however
\* long the lookups take and whatever run holds the key when they answer.  (By
\* what, is another matter: by any event that came while a run of its pipeline
\* held the key, an older commit or, during a resume, its own included.)
SteersMeetTheirRun == \A i \in DOMAIN shown : shown[i].old = runner

\* The last control message a child has handled is never lost while its session
\* lives: it waits for the session, is in an await of its delivery, is queued,
\* or has been shown, whatever deliveries it overtakes or is overtaken by.
LatestSurvives ==
    latest # None =>
        /\ session = "unopened" => stash = latest
        /\ session = "open" =>
             \/ latest \in Range(steering) \cup Range(shown)
             \/ [msg |-> latest, step |-> "clearing"] \in delivering

\* A steer that is pending while the key is held does not stay pending.
PendingEventuallyAudited ==
    (pending # None /\ runner # None) ~> (pending = None)

=============================================================================
