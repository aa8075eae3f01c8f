---------------------------- MODULE SteerProofs ----------------------------
(***************************************************************************)
(* The safety properties of Steer for any number of pipelines and          *)
(* deliveries.                                                              *)
(***************************************************************************)
EXTENDS Steer, TLAPS

\* Without a runner there is no child, and no child means no memory of one.
Clean ==
    /\ runner = None => child = "none"
    /\ child = "none" =>
         /\ session = "unopened"
         /\ stash = None
         /\ delivering = {}
         /\ controls = <<>> /\ steering = <<>> /\ shown = <<>>
         /\ latest = None

\* Whatever the child has been sent names its own run as the one superseded,
\* wherever it is: in the channel, in the stash, in an await, queued or shown.
\* (Calls on their way are free: a late one may name a run that is over.)
Own ==
    /\ \A m \in Range(controls) \cup Range(steering) \cup Range(shown) : m.old = runner
    /\ stash # None => stash.old = runner
    /\ \A d \in delivering : d.msg.old = runner

\* The inductive invariant.
IInv == TypeOK /\ Clean /\ Own /\ LatestSurvives

-----------------------------------------------------------------------------
(* Sequences and their elements.                                            *)

LEMMA RangeOfEmpty == Range(<<>>) = {}
  BY DEF Range

LEMMA RangeOfAppend ==
  ASSUME NEW S, NEW s \in Seq(S), NEW e \in S
  PROVE  Append(s, e) \in Seq(S) /\ Range(Append(s, e)) = Range(s) \cup {e}
<1>1. Append(s, e) \in Seq(S)
  OBVIOUS
<1>2. ASSUME NEW x \in Range(Append(s, e)) PROVE x \in Range(s) \cup {e}
  BY <1>2 DEF Range
<1>3. ASSUME NEW x \in Range(s) PROVE x \in Range(Append(s, e))
  <2>1. PICK i \in DOMAIN s : x = s[i]
    BY <1>3 DEF Range
  <2>2. i \in DOMAIN Append(s, e) /\ Append(s, e)[i] = s[i]
    OBVIOUS
  <2>. QED
    BY <2>1, <2>2 DEF Range
<1>4. e \in Range(Append(s, e))
  <2>1. Len(s) + 1 \in DOMAIN Append(s, e) /\ Append(s, e)[Len(s) + 1] = e
    OBVIOUS
  <2>. QED
    BY <2>1 DEF Range
<1>. QED
  BY <1>1, <1>2, <1>3, <1>4

LEMMA RangeOfTail ==
  ASSUME NEW S, NEW s \in Seq(S), s # <<>>
  PROVE  /\ Head(s) \in S /\ Tail(s) \in Seq(S)
         /\ Range(s) = {Head(s)} \cup Range(Tail(s))
<1>1. Head(s) \in S /\ Tail(s) \in Seq(S)
  OBVIOUS
<1>2. ASSUME NEW x \in Range(s) PROVE x \in {Head(s)} \cup Range(Tail(s))
  <2>1. PICK i \in DOMAIN s : x = s[i]
    BY <1>2 DEF Range
  <2>2. CASE i = 1
    BY <2>1, <2>2
  <2>3. CASE i # 1
    <3>1. i - 1 \in DOMAIN Tail(s) /\ Tail(s)[i - 1] = s[i]
      BY <2>3
    <3>. QED
      BY <2>1, <3>1 DEF Range
  <2>. QED
    BY <2>2, <2>3
<1>3. Head(s) \in Range(s)
  <2>1. 1 \in DOMAIN s /\ Head(s) = s[1]
    OBVIOUS
  <2>. QED
    BY <2>1 DEF Range
<1>4. ASSUME NEW x \in Range(Tail(s)) PROVE x \in Range(s)
  <2>1. PICK i \in DOMAIN Tail(s) : x = Tail(s)[i]
    BY <1>4 DEF Range
  <2>2. i + 1 \in DOMAIN s /\ Tail(s)[i] = s[i + 1]
    OBVIOUS
  <2>. QED
    BY <2>1, <2>2 DEF Range
<1>. QED
  BY <1>1, <1>2, <1>3, <1>4

LEMMA EmptySequence == <<>> \in Seq(Message)
  OBVIOUS

LEMMA DeliveryType ==
  ASSUME NEW m \in Message, NEW step \in {"clearing", "steering"}
  PROVE  [msg |-> m, step |-> step] \in Delivery
  BY DEF Delivery

-----------------------------------------------------------------------------
(* The main process.                                                        *)

LEMMA InitEstablishes == Init => IInv
<1>. SUFFICES ASSUME Init PROVE IInv
  OBVIOUS
<1>1. TypeOK
  <2>1. arrived \in 0 .. MaxDeliveries
    BY BoundAssumption DEF Init
  <2>2. undelivered \in BOOLEAN /\ resuming \in BOOLEAN
    BY Zenon DEF Init
  <2>3. controls \in Seq(Message) /\ steering \in Seq(Message) /\ shown \in Seq(Message)
    BY EmptySequence DEF Init
  <2>. QED
    BY <2>1, <2>2, <2>3 DEF Init, TypeOK
<1>2. Clean /\ LatestSurvives
  BY DEF Init, Clean, LatestSurvives
<1>3. Own
  BY RangeOfEmpty DEF Init, Own
<1>. QED
  BY <1>1, <1>2, <1>3 DEF IInv

LEMMA ArriveKeeps == ASSUME NEW e \in Events PROVE IInv /\ Arrive(e) => IInv'
<1>. SUFFICES ASSUME IInv, Arrive(e) PROVE IInv'
  OBVIOUS
<1>1. arrived' \in 0 .. MaxDeliveries /\ arrived' \in Deliveries
  BY BoundAssumption DEF IInv, TypeOK, Arrive, Deliveries
<1>2. calls' \subseteq Call
  <2>1. CASE runner = None
    BY <2>1 DEF IInv, TypeOK, Arrive
  <2>2. CASE runner # None
    <3>1. [at |-> arrived', old |-> runner, new |-> e] \in Message
      BY <1>1, <2>2 DEF IInv, TypeOK, Message
    <3>. QED
      BY <2>2, <3>1 DEF IInv, TypeOK, Arrive, Call
  <2>. QED
    BY <2>1, <2>2
<1>3. TypeOK'
  BY <1>1, <1>2 DEF IInv, TypeOK, Arrive, workerVars
<1>4. Clean' /\ Own' /\ LatestSurvives'
  BY DEF IInv, Arrive, Clean, Own, LatestSurvives, workerVars
<1>. QED
  BY <1>3, <1>4 DEF IInv

\* A key is taken while no child has any memory.
LEMMA TakingKeeps ==
  ASSUME IInv, runner = None, NEW e \in Events, runner' = e,
         UNCHANGED <<child, controls, workerVars>>
  PROVE  Clean' /\ Own' /\ LatestSurvives'
<1>1. child = "none" /\ Clean'
  BY NoneAssumption DEF IInv, Clean, workerVars
<1>2. Own'
  BY <1>1, RangeOfEmpty DEF IInv, Clean, Own, workerVars
<1>3. LatestSurvives'
  BY DEF IInv, LatestSurvives, workerVars
<1>. QED
  BY <1>1, <1>2, <1>3

LEMMA StartKeeps == IInv /\ Start => IInv'
<1>. SUFFICES ASSUME IInv, Start PROVE IInv'
  OBVIOUS
<1>1. waiting \in Events
  BY DEF IInv, TypeOK, Start
<1>2. resuming' \in BOOLEAN
  BY Zenon DEF Start
<1>3. TypeOK'
  BY <1>1, <1>2 DEF IInv, TypeOK, Start, workerVars
<1>4. Clean' /\ Own' /\ LatestSurvives'
  BY <1>1, TakingKeeps DEF Start
<1>. QED
  BY <1>3, <1>4 DEF IInv

LEMMA ResumeKeeps == ASSUME NEW e \in Events PROVE IInv /\ Resume(e) => IInv'
<1>. SUFFICES ASSUME IInv, Resume(e) PROVE IInv'
  OBVIOUS
<1>1. resuming' \in BOOLEAN
  BY Zenon DEF Resume
<1>2. TypeOK'
  BY <1>1 DEF IInv, TypeOK, Resume, workerVars
<1>3. Clean' /\ Own' /\ LatestSurvives'
  BY TakingKeeps DEF Resume
<1>. QED
  BY <1>2, <1>3 DEF IInv

LEMMA SpawnKeeps == IInv /\ (Spawn \/ Exit) => IInv'
<1>. SUFFICES ASSUME IInv, Spawn \/ Exit PROVE IInv'
  OBVIOUS
<1>. USE DEF Spawn, Exit, mainVars, workerVars
<1>1. TypeOK'
  BY DEF IInv, TypeOK
<1>2. Clean' /\ Own' /\ LatestSurvives'
  BY DEF IInv, Clean, Own, LatestSurvives
<1>. QED
  BY <1>1, <1>2 DEF IInv

LEMMA ReleaseKeeps == IInv /\ Release => IInv'
<1>. SUFFICES ASSUME IInv, Release PROVE IInv'
  OBVIOUS
<1>. USE DEF Release, WorkerForgotten
<1>1. TypeOK'
  <2>1. undelivered' \in BOOLEAN /\ resuming' \in BOOLEAN
    BY Zenon
  <2>2. controls' \in Seq(Message) /\ steering' \in Seq(Message) /\ shown' \in Seq(Message)
    BY EmptySequence
  <2>. QED
    BY <2>1, <2>2 DEF IInv, TypeOK, AfterLost
<1>2. Clean' /\ LatestSurvives'
  BY DEF Clean, LatestSurvives
<1>3. Own'
  BY RangeOfEmpty DEF Own
<1>. QED
  BY <1>1, <1>2, <1>3 DEF IInv

\* A control message only goes to a child of the run that it names.
LEMMA AttemptKeeps ==
  ASSUME IInv, NEW c \in calls, Attempt(c),
         UNCHANGED <<runner, child, workerVars>>
  PROVE  /\ controls' \in Seq(Message)
         /\ calls' \subseteq Call
         /\ Clean' /\ Own' /\ LatestSurvives'
<1>1. c \in Call /\ c.msg \in Message
  BY DEF IInv, TypeOK, Call
<1>2. CASE Reachable(c.msg)
  <2>1. child = "live" /\ c.msg.old = runner
    BY <1>2 DEF Reachable
  <2>2. controls' \in Seq(Message) /\ Range(controls') = Range(controls) \cup {c.msg}
    <3>1. controls \in Seq(Message) /\ controls' = Append(controls, c.msg)
      BY <1>2 DEF Attempt, IInv, TypeOK
    <3>. QED
      BY <1>1, <3>1, RangeOfAppend
  <2>3. calls' \subseteq Call
    BY <1>2 DEF Attempt, IInv, TypeOK
  <2>4. Clean' /\ LatestSurvives'
    BY <2>1 DEF IInv, Clean, LatestSurvives, workerVars
  <2>5. Own'
    BY <2>1, <2>2 DEF IInv, Own, workerVars
  <2>. QED
    BY <2>2, <2>3, <2>4, <2>5
<1>3. CASE ~Reachable(c.msg)
  <2>1. calls' = (calls \ {c}) \cup {[c EXCEPT !.step = "retrying"]} /\ UNCHANGED controls
    BY <1>3 DEF Attempt
  <2>2. [c EXCEPT !.step = "retrying"] \in Call
    BY <1>1 DEF Call
  <2>3. calls' \subseteq Call
    BY <2>1, <2>2 DEF IInv, TypeOK
  <2>. QED
    BY <2>1, <2>3 DEF IInv, TypeOK, Clean, Own, LatestSurvives, workerVars
<1>. QED
  BY <1>2, <1>3

LEMMA CallKeeps == ASSUME NEW c \in calls PROVE IInv /\ CallStep(c) => IInv'
<1>1. ASSUME IInv, LookedUp(c) PROVE IInv'
  <2>1. /\ controls' \in Seq(Message) /\ calls' \subseteq Call
        /\ Clean' /\ Own' /\ LatestSurvives'
    BY <1>1, AttemptKeeps DEF LookedUp
  <2>2. c.msg.new \in Events
    BY <1>1 DEF IInv, TypeOK, Call, Message
  <2>3. TypeOK'
    BY <1>1, <2>1, <2>2 DEF LookedUp, IInv, TypeOK, workerVars
  <2>. QED
    BY <2>1, <2>3 DEF IInv
<1>2. ASSUME IInv, Retry(c) PROVE IInv'
  <2>1. /\ controls' \in Seq(Message) /\ calls' \subseteq Call
        /\ Clean' /\ Own' /\ LatestSurvives'
    BY <1>2, AttemptKeeps DEF Retry
  <2>2. TypeOK'
    BY <1>2, <2>1 DEF Retry, IInv, TypeOK, workerVars
  <2>. QED
    BY <2>1, <2>2 DEF IInv
<1>3. ASSUME IInv, GiveUp(c) PROVE IInv'
  <2>1. TypeOK'
    BY <1>3 DEF GiveUp, IInv, TypeOK, workerVars
  <2>2. Clean' /\ Own' /\ LatestSurvives'
    BY <1>3 DEF GiveUp, IInv, Clean, Own, LatestSurvives, workerVars
  <2>. QED
    BY <2>1, <2>2 DEF IInv
<1>. QED
  BY <1>1, <1>2, <1>3 DEF CallStep

LEMMA OnSteerDeliveredKeeps == IInv /\ OnSteerDelivered => IInv'
<1>. SUFFICES ASSUME IInv, OnSteerDelivered PROVE IInv'
  OBVIOUS
<1>. USE DEF OnSteerDelivered, workerVars
<1>1. TypeOK'
  BY DEF IInv, TypeOK
<1>2. Clean' /\ Own' /\ LatestSurvives'
  BY DEF IInv, Clean, Own, LatestSurvives
<1>. QED
  BY <1>1, <1>2 DEF IInv

-----------------------------------------------------------------------------
(* The worker process.                                                      *)

\* What a live child does leaves the main process as it is.
LEMMA ChildKeeps ==
  ASSUME IInv, child = "live", UNCHANGED <<mainVars, child>>
  PROVE  Clean'
  BY DEF IInv, Clean, mainVars

LEMMA HandleControlKeeps == IInv /\ HandleControl => IInv'
<1>. SUFFICES ASSUME IInv, HandleControl PROVE IInv'
  OBVIOUS
<1>. DEFINE m == Head(controls)
<1>0. UNCHANGED <<mainVars, child, session, shown>> /\ child = "live" /\ latest' = m
  BY DEF HandleControl
<1>1. /\ m \in Message /\ controls' \in Seq(Message)
      /\ m \in Range(controls) /\ Range(controls') \subseteq Range(controls)
  <2>1. controls \in Seq(Message) /\ controls # <<>> /\ controls' = Tail(controls)
    BY DEF HandleControl, IInv, TypeOK
  <2>. QED
    BY <2>1, RangeOfTail
<1>2. m.old = runner /\ m # None
  BY <1>1, NoneAssumption DEF IInv, Own
<1>3. Clean'
  BY <1>0, ChildKeeps
<1>4. CASE session = "open" /\ undelivered
  <2>1. /\ steering' = <<>> /\ undelivered' = FALSE /\ acks' = acks + 1
        /\ delivering' = delivering \cup {[msg |-> m, step |-> "clearing"]}
        /\ UNCHANGED stash
    BY <1>4 DEF HandleControl, Deliver, QueueUpdate, InAwait
  <2>2. TypeOK'
    <3>1. undelivered' \in BOOLEAN
      BY <2>1, Zenon
    <3>2. delivering' \subseteq Delivery
      BY <1>1, <2>1, DeliveryType DEF IInv, TypeOK
    <3>3. steering' \in Seq(Message)
      BY <2>1, EmptySequence
    <3>. QED
      BY <1>0, <1>1, <2>1, <3>1, <3>2, <3>3 DEF IInv, TypeOK, mainVars
  <2>3. Own'
    BY <1>0, <1>1, <1>2, <2>1, RangeOfEmpty DEF IInv, Own, mainVars
  <2>4. LatestSurvives'
    BY <1>0, <1>4, <2>1 DEF LatestSurvives
  <2>. QED
    BY <1>3, <2>2, <2>3, <2>4 DEF IInv
<1>5. CASE session = "open" /\ ~undelivered
  <2>1. /\ steering' = Append(steering, m)
        /\ delivering' = delivering \cup {[msg |-> m, step |-> "steering"]}
        /\ UNCHANGED <<stash, undelivered, acks>>
    BY <1>5 DEF HandleControl, Deliver, InAwait
  <2>2. steering' \in Seq(Message) /\ Range(steering') = Range(steering) \cup {m}
    <3>1. steering \in Seq(Message)
      BY DEF IInv, TypeOK
    <3>. QED
      BY <1>1, <2>1, <3>1, RangeOfAppend
  <2>3. TypeOK'
    <3>1. delivering' \subseteq Delivery
      BY <1>1, <2>1, DeliveryType DEF IInv, TypeOK
    <3>. QED
      BY <1>0, <1>1, <2>1, <2>2, <3>1 DEF IInv, TypeOK, mainVars
  <2>4. Own'
    BY <1>0, <1>1, <1>2, <2>1, <2>2 DEF IInv, Own, mainVars
  <2>5. LatestSurvives'
    BY <1>0, <1>5, <2>1, <2>2 DEF LatestSurvives
  <2>. QED
    BY <1>3, <2>3, <2>4, <2>5 DEF IInv
<1>6. CASE session # "open"
  <2>1. stash' = Merged(m) /\ UNCHANGED <<undelivered, acks, delivering, steering>>
    BY <1>6 DEF HandleControl
  <2>2. Merged(m) = m
    <3>1. CASE stash = None
      BY <3>1 DEF Merged
    <3>2. CASE stash # None
      <4>1. stash.old = m.old
        BY <1>2, <3>2 DEF IInv, Own
      <4>2. [m EXCEPT !.old = m.old] = m
        BY <1>1 DEF Message
      <4>. QED
        BY <3>2, <4>1, <4>2 DEF Merged
    <3>. QED
      BY <3>1, <3>2
  <2>3. TypeOK'
    BY <1>0, <1>1, <2>1, <2>2 DEF IInv, TypeOK, mainVars
  <2>4. Own'
    BY <1>0, <1>1, <1>2, <2>1, <2>2 DEF IInv, Own, mainVars
  <2>5. LatestSurvives'
    BY <1>0, <1>6, <2>1, <2>2 DEF LatestSurvives
  <2>. QED
    BY <1>3, <2>3, <2>4, <2>5 DEF IInv
<1>. QED
  BY <1>4, <1>5, <1>6

LEMMA OpenSessionKeeps == IInv /\ OpenSession => IInv'
<1>. SUFFICES ASSUME IInv, OpenSession PROVE IInv'
  OBVIOUS
<1>0. /\ UNCHANGED <<mainVars, child, controls, acks, undelivered, shown, latest>>
      /\ child = "live" /\ session = "unopened" /\ session' = "open"
      /\ stash' = None
  BY DEF OpenSession
<1>1. Clean'
  BY <1>0, ChildKeeps
<1>3. CASE stash # None
  <2>1. /\ stash \in Message
        /\ steering' = Append(steering, stash)
        /\ delivering' = delivering \cup {[msg |-> stash, step |-> "steering"]}
    BY <1>3 DEF OpenSession, StashWaits, InAwait, IInv, TypeOK
  <2>2. steering' \in Seq(Message) /\ Range(steering') = Range(steering) \cup {stash}
    <3>1. steering \in Seq(Message)
      BY DEF IInv, TypeOK
    <3>. QED
      BY <2>1, <3>1, RangeOfAppend
  <2>3. TypeOK'
    <3>1. delivering' \subseteq Delivery
      BY <2>1, DeliveryType DEF IInv, TypeOK
    <3>. QED
      BY <1>0, <2>2, <3>1 DEF IInv, TypeOK, mainVars
  <2>4. Own'
    BY <1>0, <1>3, <2>1, <2>2 DEF IInv, TypeOK, Own, mainVars
  <2>5. LatestSurvives'
    BY <1>0, <2>2 DEF IInv, LatestSurvives
  <2>. QED
    BY <1>1, <2>3, <2>4, <2>5 DEF IInv
<1>4. CASE stash = None
  <2>1. UNCHANGED <<delivering, steering>>
    BY <1>4 DEF OpenSession, StashWaits
  <2>2. TypeOK'
    BY <1>0, <2>1 DEF IInv, TypeOK, mainVars
  <2>3. Own' /\ LatestSurvives'
    BY <1>0, <1>4, <2>1 DEF IInv, Own, LatestSurvives, mainVars
  <2>. QED
    BY <1>1, <2>2, <2>3 DEF IInv
<1>. QED
  BY <1>3, <1>4

LEMMA ClearedKeeps == ASSUME NEW d \in delivering PROVE IInv /\ Cleared(d) => IInv'
<1>. SUFFICES ASSUME IInv, Cleared(d) PROVE IInv'
  OBVIOUS
<1>0. /\ UNCHANGED <<mainVars, child, controls, acks, session, stash,
                     undelivered, shown, latest>>
      /\ child = "live" /\ d.step = "clearing"
      /\ delivering' = (delivering \ {d}) \cup {[d EXCEPT !.step = "steering"]}
  BY DEF Cleared
<1>1. Clean'
  BY <1>0, ChildKeeps
<1>2. /\ d \in Delivery /\ d.msg \in Message /\ d.msg.old = runner
      /\ [d EXCEPT !.step = "steering"] \in Delivery
      /\ [d EXCEPT !.step = "steering"].msg = d.msg
  BY DEF IInv, TypeOK, Own, Delivery
<1>3. steering' \in Seq(Message) /\ Range(steering') = Range(steering) \cup {d.msg}
  <2>1. steering \in Seq(Message) /\ steering' = Append(steering, d.msg)
    BY DEF Cleared, Requeued, IInv, TypeOK
  <2>. QED
    BY <1>2, <2>1, RangeOfAppend
<1>4. TypeOK'
  BY <1>0, <1>2, <1>3 DEF IInv, TypeOK, mainVars
<1>5. Own'
  BY <1>0, <1>2, <1>3 DEF IInv, Own, mainVars
<1>6. LatestSurvives'
  BY <1>0, <1>3 DEF IInv, LatestSurvives
<1>. QED
  BY <1>1, <1>4, <1>5, <1>6 DEF IInv

LEMMA SteeredKeeps == ASSUME NEW d \in delivering PROVE IInv /\ Steered(d) => IInv'
<1>. SUFFICES ASSUME IInv, Steered(d) PROVE IInv'
  OBVIOUS
<1>0. /\ UNCHANGED <<mainVars, child, controls, acks, session, stash,
                     steering, shown, latest>>
      /\ child = "live" /\ d.step = "steering" /\ undelivered' = TRUE
      /\ delivering' = delivering \ {d}
  BY DEF Steered
<1>1. Clean'
  BY <1>0, ChildKeeps
<1>2. undelivered' \in BOOLEAN
  BY <1>0, Zenon
<1>3. TypeOK'
  BY <1>0, <1>2 DEF IInv, TypeOK, mainVars
<1>4. Own'
  BY <1>0 DEF IInv, Own, mainVars
<1>5. LatestSurvives'
  BY <1>0 DEF IInv, LatestSurvives
<1>. QED
  BY <1>1, <1>3, <1>4, <1>5 DEF IInv

LEMMA TurnBoundaryKeeps == IInv /\ TurnBoundary => IInv'
<1>. SUFFICES ASSUME IInv, TurnBoundary PROVE IInv'
  OBVIOUS
<1>0. /\ UNCHANGED <<mainVars, child, controls, session, stash,
                     delivering, latest>>
      /\ child = "live"
  BY DEF TurnBoundary
<1>1. Clean'
  BY <1>0, ChildKeeps
<1>2. /\ steering' \in Seq(Message) /\ shown' \in Seq(Message)
      /\ Range(steering') \subseteq Range(steering)
      /\ Range(steering') \cup Range(shown') = Range(steering) \cup Range(shown)
  <2>1. /\ steering \in Seq(Message) /\ shown \in Seq(Message) /\ steering # <<>>
        /\ steering' = Tail(steering) /\ shown' = Append(shown, Head(steering))
    BY DEF TurnBoundary, IInv, TypeOK
  <2>2. /\ Head(steering) \in Message /\ steering' \in Seq(Message)
        /\ Range(steering) = {Head(steering)} \cup Range(steering')
    BY <2>1, RangeOfTail
  <2>3. shown' \in Seq(Message) /\ Range(shown') = Range(shown) \cup {Head(steering)}
    BY <2>1, <2>2, RangeOfAppend
  <2>. QED
    BY <2>2, <2>3
<1>3. undelivered' \in BOOLEAN /\ acks' \in Nat
  <2>1. CASE undelivered /\ Tail(steering) = <<>>
    <3>1. undelivered' = FALSE /\ acks' = acks + 1
      BY <2>1 DEF TurnBoundary, QueueUpdate
    <3>2. acks' \in Nat
      BY <3>1 DEF IInv, TypeOK
    <3>. QED
      BY <3>1, <3>2, Zenon
  <2>2. CASE ~(undelivered /\ Tail(steering) = <<>>)
    BY <2>2 DEF TurnBoundary, QueueUpdate, IInv, TypeOK
  <2>. QED
    BY <2>1, <2>2
<1>4. TypeOK'
  BY <1>0, <1>2, <1>3 DEF IInv, TypeOK, mainVars
<1>5. Own'
  BY <1>0, <1>2 DEF IInv, Own, mainVars
<1>6. LatestSurvives'
  BY <1>0, <1>2 DEF IInv, LatestSurvives
<1>. QED
  BY <1>1, <1>4, <1>5, <1>6 DEF IInv

LEMMA CloseSessionKeeps == IInv /\ CloseSession => IInv'
<1>. SUFFICES ASSUME IInv, CloseSession PROVE IInv'
  OBVIOUS
<1>. USE DEF CloseSession
<1>1. Clean'
  BY ChildKeeps
<1>2. undelivered' \in BOOLEAN
  BY Zenon
<1>3. steering' \in Seq(Message)
  BY EmptySequence
<1>4. TypeOK'
  BY <1>2, <1>3 DEF IInv, TypeOK, mainVars
<1>5. Own'
  BY RangeOfEmpty DEF IInv, Own, mainVars
<1>6. LatestSurvives'
  BY DEF LatestSurvives
<1>. QED
  BY <1>1, <1>4, <1>5, <1>6 DEF IInv

-----------------------------------------------------------------------------
(* Theorems.                                                                *)

\* IInv is inductive for every number of pipelines and deliveries.
THEOREM Invariance == Spec => []IInv
<1>1. Init => IInv
  BY InitEstablishes
<1>2. IInv /\ [Next]_vars => IInv'
  <2>. SUFFICES ASSUME IInv, [Next]_vars PROVE IInv'
    OBVIOUS
  <2>1. CASE Start \/ Spawn \/ Exit \/ Release \/ OnSteerDelivered
    BY <2>1, StartKeeps, SpawnKeeps, ReleaseKeeps, OnSteerDeliveredKeeps
  <2>2. CASE Worker
    BY <2>2, HandleControlKeeps, OpenSessionKeeps, TurnBoundaryKeeps,
       CloseSessionKeeps DEF Worker
  <2>3. ASSUME NEW e \in Events, Arrive(e) \/ Resume(e) PROVE IInv'
    BY <2>3, ArriveKeeps, ResumeKeeps
  <2>4. ASSUME NEW c \in calls, CallStep(c) PROVE IInv'
    BY <2>4, CallKeeps
  <2>5. ASSUME NEW d \in delivering, Cleared(d) \/ Steered(d) PROVE IInv'
    BY <2>5, ClearedKeeps, SteeredKeeps
  <2>6. CASE UNCHANGED vars
    <3>. USE <2>6 DEF vars, mainVars, workerVars
    <3>1. TypeOK'
      BY DEF IInv, TypeOK
    <3>2. Clean' /\ Own' /\ LatestSurvives'
      BY DEF IInv, Clean, Own, LatestSurvives
    <3>. QED
      BY <3>1, <3>2 DEF IInv
  <2>. QED
    BY <2>1, <2>2, <2>3, <2>4, <2>5, <2>6 DEF Next
<1>. QED
  BY <1>1, <1>2, PTL DEF Spec

\* Every variable of the two processes keeps its type.
THEOREM TypeCorrect == Spec => []TypeOK
<1>1. IInv => TypeOK
  BY DEF IInv
<1>. QED
  BY <1>1, Invariance, PTL

\* A lookup that answers late never steers another run's agent: what an agent is
\* told is superseded is the pipeline it works for, in whatever order pipelines
\* are delivered and however often.
THEOREM AgentsHearOfTheirRun == Spec => []SteersMeetTheirRun
<1>1. IInv => SteersMeetTheirRun
  BY DEF IInv, Own, SteersMeetTheirRun, Range
<1>. QED
  BY <1>1, Invariance, PTL

\* However deliveries interleave, the last control a child has handled is not
\* lost while its session lives.
THEOREM LatestControlSurvives == Spec => []LatestSurvives
<1>1. IInv => LatestSurvives
  BY DEF IInv
<1>. QED
  BY <1>1, Invariance, PTL

=============================================================================
