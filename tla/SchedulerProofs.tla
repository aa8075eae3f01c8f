-------------------------- MODULE SchedulerProofs --------------------------
(***************************************************************************)
(* The safety properties of Scheduler for every set of pipelines, resumes   *)
(* and keys and every cap, and that Scheduler implements SerialExecutor.    *)
(***************************************************************************)
EXTENDS Scheduler, FiniteSetTheorems, TLAPS

\* A waiting pipeline is not being worked on.
QueuedIdle == \A p \in Queued : stage[p] \notin Working

\* Every chain holds resumes of its own key.
ChainsKeyed == \A k \in Keys : \A i \in DOMAIN chain[k] : KeyOf[chain[k][i]] = k

\* Without a configured window no key is ever inside one.
WindowsConfigured == fresh # {} => QuietWindow

\* The inductive invariant.
IInv ==
    /\ TypeOK
    /\ SerialPerKey
    /\ SlotAccounting
    /\ InflightExact
    /\ OneQueuedPerKey
    /\ QueuedIdle
    /\ ChainsKeyed
    /\ WindowsConfigured

-----------------------------------------------------------------------------
(* Keys and slots.                                                          *)

LEMMA CapIsPositive == EffectiveCap \in Nat /\ EffectiveCap >= 1
  BY ConfigAssumption DEF EffectiveCap

LEMMA JobsFinite == IsFiniteSet(Jobs)
  BY JobsAssumption, FS_Union DEF Jobs

LEMMA OccupyingFinite == IsFiniteSet(Occupying) /\ Cardinality(Occupying) \in Nat
<1>1. Occupying \in SUBSET Jobs
  BY DEF Occupying
<1>. QED
  BY <1>1, JobsFinite, FS_Subset, FS_CardinalityType

\* Taking a free key and a free slot keeps keys and slots consistent.
LEMMA OccupyKeeps ==
  ASSUME TypeOK, SerialPerKey, SlotAccounting,
         NEW j \in Jobs, NEW first \in Holding,
         KeyFree(KeyOf[j]), HasSlot, Occupy(j, first)
  PROVE  /\ Occupying' = Occupying \cup {j}
         /\ j \notin Occupying
         /\ SerialPerKey' /\ SlotAccounting'
         /\ activeKeys' \subseteq Keys
         /\ runner' \in [Keys -> Jobs \cup {Nobody}]
         /\ running' \in Nat
         /\ stage' \in [Jobs -> Stages]
<1>. DEFINE k == KeyOf[j]
<1>k. k \in Keys
  BY EventAssumption
<1>1. stage' = [stage EXCEPT ![j] = first] /\ stage' \in [Jobs -> Stages]
  BY DEF Occupy, TypeOK, Stages
<1>2. Occupying' = Occupying \cup {j}
  BY <1>1 DEF Occupying, TypeOK
<1>3. \A other \in Occupying : KeyOf[other] # k
  BY <1>k DEF SerialPerKey, KeyFree
<1>4. j \notin Occupying
  BY <1>3
<1>5. /\ activeKeys' = activeKeys \cup {k}
      /\ runner' = [runner EXCEPT ![k] = j]
      /\ running' = running + 1
  BY DEF Occupy
<1>6. \A a, b \in Occupying' : KeyOf[a] = KeyOf[b] => a = b
  BY <1>2, <1>3 DEF SerialPerKey
<1>7. ASSUME NEW l \in Keys
      PROVE  IF \E o \in Occupying' : KeyOf[o] = l
             THEN l \in activeKeys' /\ runner'[l] \in Occupying' /\ KeyOf[runner'[l]] = l
             ELSE l \notin activeKeys' /\ runner'[l] = Nobody
  <2>1. CASE l = k
    BY <2>1, <1>2, <1>5, <1>k DEF TypeOK
  <2>2. CASE l # k
    <3>1. (\E o \in Occupying' : KeyOf[o] = l) <=> (\E o \in Occupying : KeyOf[o] = l)
      BY <2>2, <1>2
    <3>2. runner'[l] = runner[l] /\ (l \in activeKeys' <=> l \in activeKeys)
      BY <2>2, <1>5 DEF TypeOK
    <3>. QED
      BY <3>1, <3>2, <1>2 DEF SerialPerKey
  <2>. QED
    BY <2>1, <2>2
<1>8. SerialPerKey'
  BY <1>6, <1>7 DEF SerialPerKey
<1>9. Cardinality(Occupying') = Cardinality(Occupying) + 1
  BY <1>2, <1>4, OccupyingFinite, FS_AddElement
<1>10. SlotAccounting'
  BY <1>9, <1>5, CapIsPositive, OccupyingFinite
     DEF SlotAccounting, HasSlot, EffectiveCap
<1>. QED
  BY <1>1, <1>2, <1>4, <1>5, <1>8, <1>10, <1>k DEF TypeOK

\* Giving back a key and a slot that are held.
LEMMA VacateKeeps ==
  ASSUME TypeOK, SerialPerKey, SlotAccounting,
         NEW j \in Occupying, NEW last \in Stages \ Holding,
         Vacate(j, last)
  PROVE  /\ Occupying' = Occupying \ {j}
         /\ SerialPerKey' /\ SlotAccounting'
         /\ activeKeys' \subseteq Keys
         /\ runner' \in [Keys -> Jobs \cup {Nobody}]
         /\ running' \in Nat
         /\ stage' \in [Jobs -> Stages]
<1>. DEFINE k == KeyOf[j]
<1>j. j \in Jobs
  BY DEF Occupying
<1>k. k \in Keys
  BY <1>j, EventAssumption
<1>1. stage' = [stage EXCEPT ![j] = last] /\ stage' \in [Jobs -> Stages]
  BY DEF Vacate, TypeOK
<1>2. Occupying' = Occupying \ {j}
  BY <1>1 DEF Occupying, TypeOK
<1>3. /\ activeKeys' = activeKeys \ {k}
      /\ runner' = [runner EXCEPT ![k] = Nobody]
      /\ running' = running - 1
  BY DEF Vacate
<1>4. \A other \in Occupying' : KeyOf[other] # k
  BY <1>2 DEF SerialPerKey
<1>5. \A a, b \in Occupying' : KeyOf[a] = KeyOf[b] => a = b
  BY <1>2 DEF SerialPerKey
<1>6. ASSUME NEW l \in Keys
      PROVE  IF \E o \in Occupying' : KeyOf[o] = l
             THEN l \in activeKeys' /\ runner'[l] \in Occupying' /\ KeyOf[runner'[l]] = l
             ELSE l \notin activeKeys' /\ runner'[l] = Nobody
  <2>1. CASE l = k
    BY <2>1, <1>3, <1>4, <1>k DEF TypeOK
  <2>2. CASE l # k
    <3>1. (\E o \in Occupying' : KeyOf[o] = l) <=> (\E o \in Occupying : KeyOf[o] = l)
      BY <2>2, <1>2
    <3>2. runner'[l] = runner[l] /\ (l \in activeKeys' <=> l \in activeKeys)
      BY <2>2, <1>3 DEF TypeOK
    <3>3. runner[l] \in Occupying /\ KeyOf[runner[l]] = l => runner[l] \in Occupying'
      BY <2>2, <1>2
    <3>. QED
      BY <3>1, <3>2, <3>3 DEF SerialPerKey
  <2>. QED
    BY <2>1, <2>2
<1>7. SerialPerKey'
  BY <1>5, <1>6 DEF SerialPerKey
<1>8. Cardinality(Occupying') = Cardinality(Occupying) - 1
  BY <1>2, OccupyingFinite, FS_RemoveElement
<1>9. Cardinality(Occupying') \in Nat
  <2>1. IsFiniteSet(Occupying')
    BY <1>2, OccupyingFinite, FS_RemoveElement
  <2>. QED
    BY <2>1, FS_CardinalityType
<1>10. SlotAccounting' /\ running' \in Nat
  BY <1>3, <1>8, <1>9, OccupyingFinite, CapIsPositive DEF SlotAccounting, EffectiveCap
<1>. QED
  BY <1>1, <1>2, <1>3, <1>7, <1>10, <1>k DEF TypeOK

\* A step that moves a job within the stages that hold a key, or within those
\* that do not, leaves keys and slots alone.
LEMMA SameOccupantsKeep ==
  ASSUME SerialPerKey, SlotAccounting, Occupying' = Occupying,
         UNCHANGED <<activeKeys, runner, running>>
  PROVE  SerialPerKey' /\ SlotAccounting'
  BY DEF SerialPerKey, SlotAccounting, EffectiveCap

-----------------------------------------------------------------------------
(* The queue.                                                               *)

LEMMA WithoutProperties ==
  ASSUME queue \in Seq(Pipelines), OneQueuedPerKey, NEW i \in DOMAIN queue,
         queue' = Without(i)
  PROVE  /\ queue' \in Seq(Pipelines)
         /\ Queued' = Queued \ {queue[i]}
         /\ OneQueuedPerKey'
<1>. DEFINE n == Len(queue)
            Old(j) == IF j < i THEN j ELSE j + 1
<1>1. n \in Nat /\ DOMAIN queue = 1 .. n /\ i \in 1 .. n
  OBVIOUS
<1>2. queue' = [j \in 1 .. n - 1 |-> queue[Old(j)]]
  BY DEF Without
<1>3. \A j \in 1 .. n - 1 : Old(j) \in 1 .. n /\ Old(j) # i
  BY <1>1
<1>4. queue' \in Seq(Pipelines) /\ Len(queue') = n - 1 /\ DOMAIN queue' = 1 .. n - 1
  <2>1. \A j \in 1 .. n - 1 : queue[Old(j)] \in Pipelines
    BY <1>1, <1>3
  <2>2. n - 1 \in Nat
    BY <1>1
  <2>. QED
    BY <1>2, <2>1, <2>2
<1>5. \A j \in 1 .. n - 1 : queue'[j] = queue[Old(j)]
  BY <1>2
<1>6. \A m \in 1 .. n : m # i => \E j \in 1 .. n - 1 : Old(j) = m
  <2>. SUFFICES ASSUME NEW m \in 1 .. n, m # i
                PROVE  \E j \in 1 .. n - 1 : Old(j) = m
    OBVIOUS
  <2>1. CASE m < i
    BY <2>1, <1>1
  <2>2. CASE m > i
    <3>1. m - 1 \in 1 .. n - 1 /\ Old(m - 1) = m
      BY <2>2, <1>1
    <3>. QED
      BY <3>1
  <2>. QED
    BY <2>1, <2>2, <1>1
<1>7. \A m \in 1 .. n : queue[m] = queue[i] => m = i
  BY <1>1 DEF OneQueuedPerKey
<1>8. Queued' = Queued \ {queue[i]}
  <2>1. Queued' = {queue[Old(j)] : j \in 1 .. n - 1}
    BY <1>4, <1>5 DEF Queued
  <2>2. ASSUME NEW x \in Queued' PROVE x \in Queued \ {queue[i]}
    BY <2>1, <1>1, <1>3, <1>7 DEF Queued
  <2>3. ASSUME NEW x \in Queued \ {queue[i]} PROVE x \in Queued'
    <3>1. PICK m \in 1 .. n : x = queue[m] /\ m # i
      BY <1>1 DEF Queued
    <3>. QED
      BY <3>1, <1>6, <2>1
  <2>. QED
    BY <2>2, <2>3
<1>9. OneQueuedPerKey'
  <2>1. \A a, b \in 1 .. n - 1 : Old(a) = Old(b) => a = b
    BY <1>1
  <2>2. \A a, b \in 1 .. n - 1 :
            KeyOf[queue[Old(a)]] = KeyOf[queue[Old(b)]] => Old(a) = Old(b)
    BY <1>1, <1>3 DEF OneQueuedPerKey
  <2>. QED
    BY <2>1, <2>2, <1>4, <1>5 DEF OneQueuedPerKey
<1>. QED
  BY <1>4, <1>8, <1>9

LEMMA AppendedProperties ==
  ASSUME queue \in Seq(Pipelines), OneQueuedPerKey, NEW p \in Pipelines,
         SameKey(p) = {}, queue' = Append(queue, p)
  PROVE  /\ queue' \in Seq(Pipelines)
         /\ Queued' = Queued \cup {p}
         /\ OneQueuedPerKey'
<1>. DEFINE n == Len(queue)
<1>1. /\ n \in Nat /\ DOMAIN queue = 1 .. n
      /\ queue' \in Seq(Pipelines) /\ DOMAIN queue' = 1 .. n + 1
      /\ \A j \in 1 .. n : queue'[j] = queue[j]
      /\ queue'[n + 1] = p
  OBVIOUS
<1>2. Queued' = Queued \cup {p}
  BY <1>1 DEF Queued
<1>3. \A j \in 1 .. n : KeyOf[queue[j]] # KeyOf[p]
  BY <1>1 DEF SameKey
<1>4. OneQueuedPerKey'
  <2>. SUFFICES ASSUME NEW a \in 1 .. n + 1, NEW b \in 1 .. n + 1,
                       KeyOf[queue'[a]] = KeyOf[queue'[b]]
                PROVE  a = b
    BY <1>1 DEF OneQueuedPerKey
  <2>1. CASE a \in 1 .. n /\ b \in 1 .. n
    BY <2>1, <1>1 DEF OneQueuedPerKey
  <2>2. CASE a = n + 1 /\ b \in 1 .. n
    BY <2>2, <1>1, <1>3
  <2>3. CASE b = n + 1 /\ a \in 1 .. n
    BY <2>3, <1>1, <1>3
  <2>. QED
    BY <2>1, <2>2, <2>3, <1>1
<1>. QED
  BY <1>1, <1>2, <1>4

LEMMA ReplacedProperties ==
  ASSUME queue \in Seq(Pipelines), OneQueuedPerKey, NEW p \in Pipelines,
         NEW i \in SameKey(p), queue' = [queue EXCEPT ![i] = p]
  PROVE  /\ queue' \in Seq(Pipelines)
         /\ Queued' = (Queued \ {queue[i]}) \cup {p}
         /\ OneQueuedPerKey'
<1>1. i \in DOMAIN queue /\ KeyOf[queue[i]] = KeyOf[p]
  BY DEF SameKey
<1>2. /\ queue' \in Seq(Pipelines) /\ DOMAIN queue' = DOMAIN queue
      /\ \A j \in DOMAIN queue : queue'[j] = IF j = i THEN p ELSE queue[j]
  BY <1>1
<1>3. \A m \in DOMAIN queue : queue[m] = queue[i] => m = i
  BY <1>1 DEF OneQueuedPerKey
<1>4. Queued' = (Queued \ {queue[i]}) \cup {p}
  BY <1>1, <1>2, <1>3 DEF Queued
<1>5. \A j \in DOMAIN queue : KeyOf[queue'[j]] = KeyOf[queue[j]]
  BY <1>1, <1>2
<1>6. OneQueuedPerKey'
  BY <1>2, <1>5 DEF OneQueuedPerKey
<1>. QED
  BY <1>2, <1>4, <1>6

-----------------------------------------------------------------------------
(* The invariant: initially, and one lemma for each kind of step.           *)

LEMMA InitIInv == Init => IInv
<1>. SUFFICES ASSUME Init PROVE IInv
  OBVIOUS
<1>. USE DEF Init
<1>1. TypeOK
  <2>1. queue \in Seq(Pipelines) /\ <<>> \in Seq(Resumes)
    OBVIOUS
  <2>2. chain \in [Keys -> Seq(Resumes)]
    BY <2>1
  <2>3. crashCount \in 0 .. CrashThreshold - 1
    BY ConfigAssumption
  <2>. QED
    BY <2>1, <2>2, <2>3 DEF TypeOK, Stages
<1>2. Occupying = {} /\ Queued = {} /\ \A p \in Pipelines : stage[p] \notin Working
  BY DEF Occupying, Queued, Holding, Working, Jobs
<1>3. SerialPerKey
  BY <1>2 DEF SerialPerKey
<1>4. SlotAccounting
  BY <1>2, FS_EmptySet, CapIsPositive DEF SlotAccounting
<1>5. InflightExact /\ QueuedIdle /\ OneQueuedPerKey
  BY <1>2 DEF InflightExact, QueuedIdle, OneQueuedPerKey
<1>6. ChainsKeyed /\ WindowsConfigured
  BY DEF ChainsKeyed, WindowsConfigured
<1>. QED
  BY <1>1, <1>3, <1>4, <1>5, <1>6 DEF IInv

LEMMA StutterIInv ==
  ASSUME IInv, UNCHANGED vars
  PROVE  IInv'
<1>. USE DEF vars
<1>1. Occupying' = Occupying /\ Queued' = Queued
  BY DEF Occupying, Queued
<1>2. TypeOK'
  BY DEF IInv, TypeOK
<1>3. SerialPerKey' /\ SlotAccounting'
  BY <1>1, SameOccupantsKeep DEF IInv
<1>4. InflightExact' /\ QueuedIdle'
  BY <1>1 DEF IInv, InflightExact, QueuedIdle
<1>5. OneQueuedPerKey' /\ ChainsKeyed' /\ WindowsConfigured'
  BY DEF IInv, OneQueuedPerKey, ChainsKeyed, WindowsConfigured
<1>. QED
  BY <1>2, <1>3, <1>4, <1>5 DEF IInv

LEMMA EnqueueIInv ==
  ASSUME IInv, NEW p \in Pipelines, Enqueue(p)
  PROVE  IInv'
<1>. USE DEF IInv
<1>1. UNCHANGED <<activeKeys, runner, running, stage, chain, crashCount, timer>>
  BY DEF Enqueue
<1>2. Occupying' = Occupying
  BY <1>1 DEF Occupying
<1>3. SerialPerKey' /\ SlotAccounting'
  BY <1>1, <1>2, SameOccupantsKeep
<1>4. ChainsKeyed'
  BY <1>1 DEF ChainsKeyed
<1>k. p \in Jobs /\ KeyOf[p] \in Keys
  BY EventAssumption DEF Jobs
<1>5. fresh' \subseteq Keys /\ WindowsConfigured'
  BY <1>k DEF Enqueue, TypeOK, WindowsConfigured
<1>6. p \notin inflight /\ p \notin Queued /\ stage[p] \notin Working
  BY DEF Enqueue, InflightExact
<1>q. queue \in Seq(Pipelines)
  BY DEF TypeOK
<1>7. CASE SameKey(p) = {}
  <2>1. inflight' = inflight \cup {p} /\ queue' = Append(queue, p)
    BY <1>7 DEF Enqueue
  <2>2. /\ queue' \in Seq(Pipelines) /\ Queued' = Queued \cup {p} /\ OneQueuedPerKey'
    BY <2>1, <1>7, <1>q, AppendedProperties
  <2>3. InflightExact' /\ QueuedIdle'
    BY <2>1, <2>2, <1>1, <1>6 DEF InflightExact, QueuedIdle
  <2>4. TypeOK'
    BY <2>1, <2>2, <1>1, <1>5 DEF TypeOK, Enqueue, EnterPump
  <2>. QED
    BY <2>2, <2>3, <2>4, <1>3, <1>4, <1>5
<1>8. CASE SameKey(p) # {}
  <2>1. PICK i \in SameKey(p) :
            /\ inflight' = (inflight \ {queue[i]}) \cup {p}
            /\ queue' = [queue EXCEPT ![i] = p]
    BY <1>8 DEF Enqueue, Coalesced
  <2>2. /\ queue' \in Seq(Pipelines)
        /\ Queued' = (Queued \ {queue[i]}) \cup {p}
        /\ OneQueuedPerKey'
    BY <2>1, <1>q, ReplacedProperties
  <2>3. queue[i] \in Queued /\ stage[queue[i]] \notin Working
    BY DEF SameKey, Queued, QueuedIdle
  <2>4. InflightExact' /\ QueuedIdle'
    BY <2>1, <2>2, <2>3, <1>1, <1>6 DEF InflightExact, QueuedIdle
  <2>5. TypeOK'
    BY <2>1, <2>2, <1>1, <1>5 DEF TypeOK, Enqueue, EnterPump
  <2>. QED
    BY <2>2, <2>4, <2>5, <1>3, <1>4, <1>5
<1>. QED
  BY <1>7, <1>8

LEMMA PumpStartIInv ==
  ASSUME IInv, PumpStart
  PROVE  IInv'
<1>. USE DEF IInv
<1>1. PICK i \in DOMAIN queue :
          /\ Startable(i)
          /\ queue' = Without(i)
          /\ fresh' = fresh \ {KeyOf[queue[i]]}
          /\ Occupy(queue[i], FirstStage(queue[i]))
  BY DEF PumpStart
<1>. DEFINE p == queue[i]
<1>2. UNCHANGED <<inflight, chain, crashCount, timer, pumping>> /\ HasSlot
  BY DEF PumpStart
<1>3. p \in Pipelines /\ p \in Jobs /\ p \in Queued
  BY DEF TypeOK, Jobs, Queued
<1>4. FirstStage(p) \in Working /\ FirstStage(p) \in Holding
  BY DEF FirstStage, Working, Holding
<1>5. /\ Occupying' = Occupying \cup {p}
      /\ SerialPerKey' /\ SlotAccounting'
      /\ activeKeys' \subseteq Keys
      /\ runner' \in [Keys -> Jobs \cup {Nobody}]
      /\ running' \in Nat
      /\ stage' \in [Jobs -> Stages]
  BY <1>1, <1>2, <1>3, <1>4, OccupyKeeps DEF Startable
<1>6. queue' \in Seq(Pipelines) /\ Queued' = Queued \ {p} /\ OneQueuedPerKey'
  BY <1>1, WithoutProperties DEF TypeOK
<1>7. TypeOK'
  BY <1>1, <1>2, <1>5, <1>6 DEF TypeOK
<1>8. stage' = [stage EXCEPT ![p] = FirstStage(p)]
  BY <1>1 DEF Occupy
<1>9. InflightExact' /\ QueuedIdle'
  <2>1. \A q \in Pipelines :
            stage'[q] \in Working <=> q = p \/ stage[q] \in Working
    BY <1>3, <1>4, <1>8 DEF TypeOK, Jobs
  <2>2. \A q \in Queued : q \in Pipelines
    BY DEF Queued, TypeOK
  <2>. QED
    BY <2>1, <2>2, <1>2, <1>3, <1>6 DEF InflightExact, QueuedIdle
<1>10. ChainsKeyed' /\ WindowsConfigured'
  BY <1>1, <1>2 DEF ChainsKeyed, WindowsConfigured
<1>. QED
  BY <1>5, <1>6, <1>7, <1>9, <1>10

\* A step that leaves queue, inflight, keys, slots and stages alone.
LEMMA QuietStepIInv ==
  ASSUME IInv, fresh' \subseteq fresh, timer' \in BOOLEAN, pumping' \in BOOLEAN,
         UNCHANGED <<queue, inflight, activeKeys, runner, running, stage, chain,
                     crashCount>>
  PROVE  IInv'
<1>. USE DEF IInv
<1>1. Occupying' = Occupying /\ Queued' = Queued
  BY DEF Occupying, Queued
<1>2. TypeOK'
  BY DEF TypeOK
<1>3. SerialPerKey' /\ SlotAccounting'
  BY <1>1, SameOccupantsKeep
<1>4. InflightExact' /\ QueuedIdle'
  BY <1>1 DEF InflightExact, QueuedIdle
<1>5. OneQueuedPerKey' /\ ChainsKeyed' /\ WindowsConfigured'
  BY DEF OneQueuedPerKey, ChainsKeyed, WindowsConfigured
<1>. QED
  BY <1>2, <1>3, <1>4, <1>5

\* runOne and a resume, between two stages that hold the key.
LEMMA MoveIInv ==
  ASSUME IInv, NEW j \in Jobs, NEW from \in Holding, NEW to \in Holding,
         MoveTo(j, from, to),
         crashCount' \in 0 .. CrashThreshold - 1,
         \/ /\ from \in Working /\ to \in Working /\ inflight' = inflight
         \/ /\ from \in Working /\ to = "settled" /\ j \in Pipelines
            /\ inflight' = inflight \ {j}
  PROVE  IInv'
<1>. USE DEF IInv
<1>1. /\ stage[j] = from /\ stage' = [stage EXCEPT ![j] = to]
      /\ UNCHANGED <<queue, activeKeys, runner, running, chain, fresh, timer, pumping>>
  BY DEF MoveTo
<1>2. Occupying' = Occupying /\ Queued' = Queued
  BY <1>1 DEF Occupying, Queued, TypeOK
<1>3. SerialPerKey' /\ SlotAccounting'
  BY <1>1, <1>2, SameOccupantsKeep
<1>4. TypeOK'
  BY <1>1 DEF TypeOK, Stages
<1>5. InflightExact' /\ QueuedIdle'
  <2>1. \A q \in Pipelines : q \in Jobs
    BY DEF Jobs
  <2>2. \A q \in Queued : q \in Pipelines
    BY DEF Queued, TypeOK
  <2>3. from \in Working => j \notin Queued
    BY <1>1 DEF QueuedIdle
  <2>4. "settled" \notin Working
    BY DEF Working
  <2>5. \A q \in Pipelines : q # j => stage'[q] = stage[q]
    BY <1>1, <2>1 DEF TypeOK
  <2>6. stage'[j] = to
    BY <1>1 DEF TypeOK
  <2>. QED
    BY <1>1, <1>2, <2>1, <2>2, <2>3, <2>4, <2>5, <2>6 DEF InflightExact, QueuedIdle
<1>6. OneQueuedPerKey' /\ ChainsKeyed' /\ WindowsConfigured'
  BY <1>1 DEF OneQueuedPerKey, ChainsKeyed, WindowsConfigured
<1>. QED
  BY <1>3, <1>4, <1>5, <1>6

LEMMA ReleaseIInv ==
  ASSUME IInv, NEW p \in Pipelines, Release(p)
  PROVE  IInv'
<1>. USE DEF IInv
<1>1. /\ stage[p] = "settled" /\ Vacate(p, "absent")
      /\ UNCHANGED <<queue, inflight, chain, crashCount, fresh, timer>>
  BY DEF Release
<1>2. p \in Jobs /\ p \in Occupying /\ "absent" \in Stages \ Holding
  BY <1>1 DEF Jobs, Occupying, Holding, Stages, Working
<1>3. /\ SerialPerKey' /\ SlotAccounting'
      /\ activeKeys' \subseteq Keys
      /\ runner' \in [Keys -> Jobs \cup {Nobody}]
      /\ running' \in Nat
      /\ stage' \in [Jobs -> Stages]
  BY <1>1, <1>2, VacateKeeps
<1>4. TypeOK'
  BY <1>1, <1>3 DEF TypeOK, Vacate, EnterPump
<1>5. \A q \in Jobs : stage'[q] \in Working <=> stage[q] \in Working
  BY <1>1, <1>2 DEF Vacate, TypeOK, Working
<1>6. InflightExact' /\ QueuedIdle'
  BY <1>1, <1>5 DEF InflightExact, QueuedIdle, Queued, Jobs, TypeOK
<1>7. OneQueuedPerKey' /\ ChainsKeyed' /\ WindowsConfigured'
  BY <1>1 DEF OneQueuedPerKey, ChainsKeyed, WindowsConfigured
<1>. QED
  BY <1>3, <1>4, <1>6, <1>7

LEMMA EnqueueResumeIInv ==
  ASSUME IInv, NEW r \in Resumes, EnqueueResume(r)
  PROVE  IInv'
<1>. USE DEF IInv
<1>1. /\ stage[r] = "absent"
      /\ chain' = [chain EXCEPT ![KeyOf[r]] = Append(@, r)]
      /\ stage' = [stage EXCEPT ![r] = "chained"]
      /\ UNCHANGED <<queue, inflight, activeKeys, runner, running, crashCount,
                     fresh, timer, pumping>>
  BY DEF EnqueueResume
<1>2. r \in Jobs /\ KeyOf[r] \in Keys /\ r \notin Pipelines
  BY JobsAssumption, EventAssumption DEF Jobs
<1>3. Occupying' = Occupying /\ Queued' = Queued
  BY <1>1, <1>2 DEF Occupying, Queued, TypeOK, Holding, Working
<1>4. SerialPerKey' /\ SlotAccounting'
  BY <1>1, <1>3, SameOccupantsKeep
<1>5. /\ \A l \in Keys : chain'[l] \in Seq(Resumes)
      /\ \A l \in Keys : \A i \in DOMAIN chain'[l] : KeyOf[chain'[l][i]] = l
  <2>. SUFFICES ASSUME NEW l \in Keys
                PROVE  /\ chain'[l] \in Seq(Resumes)
                       /\ \A i \in DOMAIN chain'[l] : KeyOf[chain'[l][i]] = l
    OBVIOUS
  <2>0. chain[l] \in Seq(Resumes)
    BY DEF TypeOK
  <2>1. CASE l = KeyOf[r]
    <3>1. chain'[l] = Append(chain[l], r)
      BY <2>1, <1>1, <1>2 DEF TypeOK
    <3>2. \A i \in DOMAIN chain[l] : KeyOf[chain[l][i]] = l
      BY DEF ChainsKeyed
    <3>. QED
      BY <2>0, <2>1, <3>1, <3>2
  <2>2. CASE l # KeyOf[r]
    <3>1. chain'[l] = chain[l]
      BY <2>2, <1>1 DEF TypeOK
    <3>. QED
      BY <2>0, <3>1 DEF ChainsKeyed
  <2>. QED
    BY <2>1, <2>2
<1>6. TypeOK'
  BY <1>1, <1>2, <1>5 DEF TypeOK, Stages
<1>7. ChainsKeyed'
  BY <1>5 DEF ChainsKeyed
<1>8. InflightExact' /\ QueuedIdle'
  <2>1. \A q \in Pipelines : stage'[q] = stage[q]
    BY <1>1, <1>2 DEF TypeOK, Jobs
  <2>2. \A q \in Queued : q \in Pipelines
    BY DEF Queued, TypeOK
  <2>. QED
    BY <1>1, <1>3, <2>1, <2>2 DEF InflightExact, QueuedIdle
<1>9. OneQueuedPerKey' /\ WindowsConfigured'
  BY <1>1 DEF OneQueuedPerKey, WindowsConfigured
<1>. QED
  BY <1>4, <1>6, <1>7, <1>8, <1>9

\* The head of a nonempty chain is a resume of that key.
LEMMA ChainHead ==
  ASSUME TypeOK, ChainsKeyed, NEW k \in Keys, chain[k] # <<>>
  PROVE  Head(chain[k]) \in Resumes /\ KeyOf[Head(chain[k])] = k
<1>1. chain[k] \in Seq(Resumes)
  BY DEF TypeOK
<1>2. 1 \in DOMAIN chain[k] /\ Head(chain[k]) = chain[k][1]
  BY <1>1
<1>. QED
  BY <1>1, <1>2 DEF ChainsKeyed

LEMMA StartResumeIInv ==
  ASSUME IInv, NEW k \in Keys, StartResume(k)
  PROVE  IInv'
<1>. USE DEF IInv
<1>. DEFINE r == Head(chain[k])
<1>1. /\ chain[k] # <<>> /\ stage[r] = "chained"
      /\ KeyFree(k) /\ HasSlot /\ Occupy(r, "worker")
      /\ UNCHANGED <<queue, inflight, chain, crashCount, fresh, timer, pumping>>
  BY DEF StartResume
<1>2. r \in Resumes /\ KeyOf[r] = k
  BY <1>1, ChainHead
<1>3. r \in Jobs /\ r \notin Pipelines /\ "worker" \in Holding
  BY <1>2, JobsAssumption DEF Jobs, Holding, Working
<1>4. /\ SerialPerKey' /\ SlotAccounting'
      /\ activeKeys' \subseteq Keys
      /\ runner' \in [Keys -> Jobs \cup {Nobody}]
      /\ running' \in Nat
      /\ stage' \in [Jobs -> Stages]
  BY <1>1, <1>2, <1>3, OccupyKeeps
<1>5. TypeOK'
  BY <1>1, <1>4 DEF TypeOK
<1>6. InflightExact' /\ QueuedIdle'
  <2>1. \A q \in Pipelines : stage'[q] = stage[q]
    BY <1>1, <1>3 DEF Occupy, TypeOK, Jobs
  <2>2. Queued' = Queued /\ \A q \in Queued : q \in Pipelines
    BY <1>1 DEF Queued, TypeOK
  <2>. QED
    BY <1>1, <2>1, <2>2 DEF InflightExact, QueuedIdle
<1>7. OneQueuedPerKey' /\ ChainsKeyed' /\ WindowsConfigured'
  BY <1>1 DEF OneQueuedPerKey, ChainsKeyed, WindowsConfigured
<1>. QED
  BY <1>4, <1>5, <1>6, <1>7

LEMMA EndResumeIInv ==
  ASSUME IInv, NEW r \in Resumes, NEW from \in Holding, EndResume(r, from)
  PROVE  IInv'
<1>. USE DEF IInv
<1>1. /\ stage[r] = from
      /\ chain' = [chain EXCEPT ![KeyOf[r]] = Tail(@)]
      /\ Vacate(r, "over")
      /\ UNCHANGED <<queue, inflight, crashCount, fresh, timer>>
  BY DEF EndResume, Unchained
<1>2. r \in Jobs /\ r \notin Pipelines /\ KeyOf[r] \in Keys
  BY JobsAssumption, EventAssumption DEF Jobs
<1>3. r \in Occupying /\ "over" \in Stages \ Holding
  BY <1>1, <1>2 DEF Occupying, Stages, Holding, Working
<1>4. /\ SerialPerKey' /\ SlotAccounting'
      /\ activeKeys' \subseteq Keys
      /\ runner' \in [Keys -> Jobs \cup {Nobody}]
      /\ running' \in Nat
      /\ stage' \in [Jobs -> Stages]
  BY <1>1, <1>3, VacateKeeps
\* The resume that ends is the head of its chain, but all that matters here is
\* that whatever is dropped leaves resumes of the same key.
<1>5. ASSUME NEW l \in Keys
      PROVE  /\ chain'[l] \in Seq(Resumes)
             /\ \A i \in DOMAIN chain'[l] : KeyOf[chain'[l][i]] = l
  <2>0. chain[l] \in Seq(Resumes)
    BY DEF TypeOK
  <2>1. CASE l = KeyOf[r] /\ chain[l] # <<>>
    <3>1. chain'[l] = Tail(chain[l])
      BY <2>1, <1>1, <1>2 DEF TypeOK
    <3>2. /\ Tail(chain[l]) \in Seq(Resumes)
          /\ \A i \in DOMAIN Tail(chain[l]) :
                /\ i + 1 \in DOMAIN chain[l]
                /\ Tail(chain[l])[i] = chain[l][i + 1]
      BY <2>0, <2>1
    <3>. QED
      BY <3>1, <3>2 DEF ChainsKeyed
  <2>2. CASE l # KeyOf[r]
    <3>1. chain'[l] = chain[l]
      BY <2>2, <1>1 DEF TypeOK
    <3>. QED
      BY <2>0, <3>1 DEF ChainsKeyed
  <2>3. CASE l = KeyOf[r] /\ chain[l] = <<>>
    <3>1. chain'[l] = Tail(<<>>)
      BY <2>3, <1>1, <1>2 DEF TypeOK
    <3>. QED
      BY <3>1
  <2>. QED
    BY <2>1, <2>2, <2>3
<1>6. TypeOK'
  BY <1>1, <1>4, <1>5 DEF TypeOK, Vacate, EnterPump
<1>7. ChainsKeyed'
  BY <1>5 DEF ChainsKeyed
<1>8. InflightExact' /\ QueuedIdle'
  <2>1. \A q \in Pipelines : stage'[q] = stage[q]
    BY <1>1, <1>2 DEF Vacate, TypeOK, Jobs
  <2>2. Queued' = Queued /\ \A q \in Queued : q \in Pipelines
    BY <1>1 DEF Queued, TypeOK
  <2>. QED
    BY <1>1, <2>1, <2>2 DEF InflightExact, QueuedIdle
<1>9. OneQueuedPerKey' /\ WindowsConfigured'
  BY <1>1 DEF OneQueuedPerKey, WindowsConfigured
<1>. QED
  BY <1>4, <1>6, <1>7, <1>8, <1>9

LEMMA RepairStepIInv ==
  ASSUME IInv, NEW p \in Pipelines, RepairStep(p)
  PROVE  IInv'
<1>p. p \in Jobs
  BY DEF Jobs
<1>s. /\ {"green", "terminal", "worker", "notify"} \subseteq Working
      /\ {"green", "terminal", "worker", "notify", "settled"} \subseteq Holding
  BY DEF Working, Holding
<1>c. /\ crashCount \in 0 .. CrashThreshold - 1
      /\ 0 \in 0 .. CrashThreshold - 1
      /\ AfterCrash \in 0 .. CrashThreshold - 1
  BY ConfigAssumption DEF IInv, TypeOK, AfterCrash
<1>1. CASE GreenChecked(p)
  BY <1>1, <1>p, <1>s, <1>c, MoveIInv DEF GreenChecked
<1>2. CASE TerminalChecked(p)
  BY <1>2, <1>p, <1>s, <1>c, MoveIInv DEF TerminalChecked
<1>3. CASE WorkerEscalates(p)
  BY <1>3, <1>p, <1>s, <1>c, MoveIInv DEF WorkerEscalates
<1>4. CASE WorkerReturns(p)
  BY <1>4, <1>p, <1>s, <1>c, MoveIInv DEF WorkerReturns, Settled
<1>5. CASE WorkerCrashes(p)
  BY <1>5, <1>p, <1>s, <1>c, MoveIInv DEF WorkerCrashes, Settled
<1>6. CASE Notified(p)
  BY <1>6, <1>p, <1>s, <1>c, MoveIInv DEF Notified, Settled
<1>7. CASE Release(p)
  BY <1>7, ReleaseIInv
<1>. QED
  BY <1>1, <1>2, <1>3, <1>4, <1>5, <1>6, <1>7 DEF RepairStep

LEMMA ResumeStepIInv ==
  ASSUME IInv, NEW r \in Resumes, ResumeStep(r)
  PROVE  IInv'
<1>r. r \in Jobs
  BY DEF Jobs
<1>s. "worker" \in Working /\ "notify" \in Working /\ "worker" \in Holding /\ "notify" \in Holding
  BY DEF Working, Holding
<1>c. crashCount \in 0 .. CrashThreshold - 1
  BY DEF IInv, TypeOK
<1>1. CASE ResumeReturns(r)
  BY <1>1, <1>s, EndResumeIInv DEF ResumeReturns
<1>2. CASE ResumeEscalates(r)
  BY <1>2, <1>r, <1>s, <1>c, MoveIInv DEF ResumeEscalates
<1>3. CASE ResumeNotified(r)
  BY <1>3, <1>s, EndResumeIInv DEF ResumeNotified
<1>. QED
  BY <1>1, <1>2, <1>3 DEF ResumeStep

LEMMA NextIInv ==
  ASSUME IInv, [Next]_vars
  PROVE  IInv'
<1>1. CASE UNCHANGED vars
  BY <1>1, StutterIInv
<1>2. CASE PumpStart
  BY <1>2, PumpStartIInv
<1>3. CASE PumpEnd
  BY <1>3, QuietStepIInv DEF PumpEnd, Rearmed, IInv, TypeOK
<1>4. CASE TimerFires
  BY <1>4, QuietStepIInv DEF TimerFires, EnterPump
<1>5. CASE \E k \in Keys : WindowPasses(k)
  BY <1>5, QuietStepIInv DEF WindowPasses, IInv, TypeOK
<1>6. CASE \E k \in Keys : StartResume(k)
  BY <1>6, StartResumeIInv
<1>7. CASE \E p \in Pipelines : Enqueue(p)
  BY <1>7, EnqueueIInv
<1>8. CASE \E p \in Pipelines : RepairStep(p)
  BY <1>8, RepairStepIInv
<1>9. CASE \E r \in Resumes : EnqueueResume(r)
  BY <1>9, EnqueueResumeIInv
<1>10. CASE \E r \in Resumes : ResumeStep(r)
  BY <1>10, ResumeStepIInv
<1>. QED
  BY <1>1, <1>2, <1>3, <1>4, <1>5, <1>6, <1>7, <1>8, <1>9, <1>10 DEF Next

-----------------------------------------------------------------------------
(* The invariants.                                                          *)

\* The inductive invariant holds in every reachable state.
THEOREM Invariance == Spec => []IInv
<1>1. Init => IInv
  BY InitIInv
<1>2. IInv /\ [Next]_vars => IInv'
  BY NextIInv
<1>. QED
  BY <1>1, <1>2, PTL DEF Spec

\* The variables keep their types, the crash counter among them.
THEOREM TypeCorrect == Spec => []TypeOK
<1>1. IInv => TypeOK
  BY DEF IInv
<1>. QED
  BY <1>1, Invariance, PTL

\* Jobs of one key never overlap, and lookups by key find the job that runs.
THEOREM KeysAreSerial == Spec => []SerialPerKey
<1>1. IInv => SerialPerKey
  BY DEF IInv
<1>. QED
  BY <1>1, Invariance, PTL

\* The slot counter is exact and within the cap, for every cap.
THEOREM SlotsAreExact == Spec => []SlotAccounting
<1>1. IInv => SlotAccounting
  BY DEF IInv
<1>. QED
  BY <1>1, Invariance, PTL

\* The dedup set is exactly what waits or is worked on.
THEOREM DedupIsExact == Spec => []InflightExact
<1>1. IInv => InflightExact
  BY DEF IInv
<1>. QED
  BY <1>1, Invariance, PTL

\* At most one pipeline of a key waits.
THEOREM CoalescingIsComplete == Spec => []OneQueuedPerKey
<1>1. IInv => OneQueuedPerKey
  BY DEF IInv
<1>. QED
  BY <1>1, Invariance, PTL

\* No handler leaves startable work behind without a pump to come.
THEOREM NoWakeupIsLost == Spec => []NoLostWakeup
<1>1. Init => NoLostWakeup
  BY DEF Init, NoLostWakeup
<1>2. ASSUME IInv, NoLostWakeup, [Next]_vars
      PROVE  NoLostWakeup'
  <2>. USE <1>2
  <2>. DEFINE Same == UNCHANGED <<queue, activeKeys, running, timer, pumping>>
  <2>1. ASSUME Same PROVE NoLostWakeup'
    BY <2>1 DEF NoLostWakeup, HasSlot, EffectiveCap, KeyFree
  <2>2. ASSUME pumping' = TRUE PROVE NoLostWakeup'
    BY <2>2 DEF NoLostWakeup
  <2>3. CASE PumpEnd
    <3>1. /\ UNCHANGED <<queue, activeKeys, running>>
          /\ timer' = Rearmed
          /\ ~ (HasSlot /\ \E i \in DOMAIN queue : Startable(i))
      BY <2>3 DEF PumpEnd
    <3>. SUFFICES ASSUME HasSlot', NEW i \in DOMAIN queue', KeyFree(KeyOf[queue[i]])
                  PROVE  QuietWindow /\ timer'
      BY <3>1 DEF NoLostWakeup, KeyFree
    <3>2. HasSlot /\ i \in DOMAIN queue
      BY <3>1 DEF HasSlot, EffectiveCap
    <3>3. fresh # {}
      BY <3>1, <3>2 DEF Startable, QuietElapsed
    <3>4. QuietWindow
      BY <3>3 DEF IInv, WindowsConfigured
    <3>. QED
      BY <3>1, <3>2, <3>4 DEF Rearmed
  <2>4. CASE \E k \in Keys : StartResume(k)
    <3>1. PICK k \in Keys : StartResume(k)
      BY <2>4
    <3>2. /\ UNCHANGED <<queue, timer, pumping>>
          /\ HasSlot /\ running' = running + 1
          /\ activeKeys \subseteq activeKeys'
      BY <3>1 DEF StartResume, Occupy
    <3>. QED
      BY <3>2 DEF NoLostWakeup, KeyFree
  <2>5. CASE UNCHANGED vars
    BY <2>1, <2>5 DEF vars
  <2>6. CASE PumpStart
    BY <2>6 DEF PumpStart, NoLostWakeup
  <2>7. CASE TimerFires
    BY <2>2, <2>7 DEF TimerFires, EnterPump
  <2>8. CASE \E k \in Keys : WindowPasses(k)
    BY <2>1, <2>8 DEF WindowPasses
  <2>9. CASE \E p \in Pipelines : Enqueue(p)
    BY <2>2, <2>9 DEF Enqueue, EnterPump
  <2>10. CASE \E p \in Pipelines : RepairStep(p)
    BY <2>1, <2>2, <2>10
       DEF RepairStep, GreenChecked, TerminalChecked, WorkerEscalates, WorkerReturns,
           WorkerCrashes, Notified, Release, MoveTo, Vacate, EnterPump
  <2>11. CASE \E r \in Resumes : EnqueueResume(r)
    BY <2>1, <2>11 DEF EnqueueResume
  <2>12. CASE \E r \in Resumes : ResumeStep(r)
    BY <2>1, <2>2, <2>12
       DEF ResumeStep, ResumeReturns, ResumeEscalates, ResumeNotified, EndResume,
           MoveTo, Vacate, EnterPump
  <2>. QED
    BY <2>3, <2>4, <2>5, <2>6, <2>7, <2>8, <2>9, <2>10, <2>11, <2>12 DEF Next
<1>. QED
  BY <1>1, <1>2, Invariance, PTL DEF Spec

-----------------------------------------------------------------------------
(* Refinement.                                                              *)

\* The resumes that wait, as the executor sees them.
Chained == {r \in Resumes : stage[r] = "chained"}

LEMMA QueueStepRefines ==
  ASSUME IInv, NEW p \in Pipelines, Enqueue(p)
  PROVE  Exec!ExecNext
<1>. USE DEF IInv
<1>1. UNCHANGED stage /\ queue \in Seq(Pipelines) /\ p \in Jobs
  BY DEF Enqueue, TypeOK, Jobs
<1>2. Occupying' = Occupying /\ Chained' = Chained
  BY <1>1 DEF Occupying, Chained
<1>3. CASE SameKey(p) = {}
  <2>1. queue' = Append(queue, p)
    BY <1>3 DEF Enqueue
  <2>2. Queued' = Queued \cup {p}
    BY <1>1, <1>3, <2>1, AppendedProperties
  <2>3. Exec!Admit(p)
    BY <1>2, <2>2 DEF Exec!Admit, Chained
  <2>. QED
    BY <1>1, <2>3 DEF Exec!ExecNext
<1>4. CASE SameKey(p) # {}
  <2>1. PICK i \in SameKey(p) : queue' = [queue EXCEPT ![i] = p]
    BY <1>4 DEF Enqueue
  <2>2. queue[i] \in Queued /\ queue[i] \in Pipelines /\ KeyOf[queue[i]] = KeyOf[p]
    BY <1>1 DEF SameKey, Queued
  <2>3. Queued' = (Queued \ {queue[i]}) \cup {p}
    BY <1>1, <2>1, ReplacedProperties
  <2>4. queue[i] \notin Chained
    BY <2>2, JobsAssumption DEF Chained
  <2>5. Exec!Replace(queue[i], p)
    BY <1>2, <2>2, <2>3, <2>4 DEF Exec!Replace, Chained
  <2>. QED
    BY <1>1, <2>2, <2>5 DEF Exec!ExecNext, Jobs
<1>. QED
  BY <1>3, <1>4

\* The instance has its own copy of the definition.
LEMMA SameCardinality == \A S : Exec!Cardinality(S) = Cardinality(S)
  BY DEF Cardinality, Exec!Cardinality

\* What the executor asks for before a job may start.
LEMMA FreeKeyIsUnshared ==
  ASSUME SerialPerKey, SlotAccounting, NEW j \in Jobs, KeyFree(KeyOf[j]), HasSlot
  PROVE  /\ \A other \in Occupying : KeyOf[other] # KeyOf[j]
         /\ Cardinality(Occupying) < EffectiveCap
<1>1. KeyOf[j] \in Keys
  BY EventAssumption
<1>. QED
  BY <1>1 DEF SerialPerKey, SlotAccounting, KeyFree, HasSlot

LEMMA PumpStartRefines ==
  ASSUME IInv, PumpStart
  PROVE  Exec!ExecNext
<1>. USE DEF IInv
<1>1. PICK i \in DOMAIN queue :
          /\ Startable(i)
          /\ queue' = Without(i)
          /\ Occupy(queue[i], FirstStage(queue[i]))
  BY DEF PumpStart
<1>p. PICK p \in Pipelines : p = queue[i]
  BY DEF TypeOK
<1>2. p \in Jobs /\ p \in Queued /\ p \notin Resumes
  BY <1>p, JobsAssumption DEF Jobs, Queued
<1>3. KeyFree(KeyOf[p]) /\ HasSlot /\ FirstStage(p) \in Holding
  BY <1>1, <1>p DEF PumpStart, Startable, FirstStage, Holding, Working
<1>o. Occupy(p, FirstStage(p))
  BY <1>1, <1>p DEF Occupy
<1>4. Occupying' = Occupying \cup {p}
  BY <1>o, <1>2, <1>3, OccupyKeeps
<1>5. Queued' = Queued \ {p}
  BY <1>1, <1>p, WithoutProperties DEF TypeOK
<1>6. Chained' = Chained /\ p \notin Chained
  BY <1>o, <1>2 DEF Occupy, Chained, TypeOK, Jobs
<1>7. Exec!Start(p)
  <2>1. /\ \A other \in Occupying : KeyOf[other] # KeyOf[p]
        /\ Cardinality(Occupying) < EffectiveCap
    BY <1>2, <1>3, FreeKeyIsUnshared
  <2>2. (Queued \cup Chained)' = (Queued \cup Chained) \ {p}
    BY <1>5, <1>6
  <2>. QED
    BY <1>2, <1>4, <2>1, <2>2, SameCardinality DEF Exec!Start, Chained
<1>. QED
  BY <1>2, <1>7 DEF Exec!ExecNext

LEMMA StartResumeRefines ==
  ASSUME IInv, NEW k \in Keys, StartResume(k)
  PROVE  Exec!ExecNext
<1>. USE DEF IInv
<1>1. PICK r \in Resumes : r = Head(chain[k]) /\ KeyOf[r] = k
  BY ChainHead DEF StartResume
<1>2. /\ stage[r] = "chained" /\ KeyFree(KeyOf[r]) /\ HasSlot
      /\ Occupy(r, "worker") /\ UNCHANGED queue
  BY <1>1 DEF StartResume, Occupy
<1>3. r \in Jobs /\ "worker" \in Holding
  BY DEF Jobs, Holding, Working
<1>4. Occupying' = Occupying \cup {r}
  BY <1>2, <1>3, OccupyKeeps
<1>5. stage' = [stage EXCEPT ![r] = "worker"] /\ stage \in [Jobs -> Stages]
  BY <1>2 DEF Occupy, TypeOK
<1>6. Chained' = Chained \ {r} /\ r \in Chained
  BY <1>2, <1>5 DEF Chained, Jobs
<1>7. Queued' = Queued /\ r \notin Queued
  BY <1>2, JobsAssumption DEF Queued, TypeOK
<1>8. Exec!Start(r)
  <2>1. /\ \A other \in Occupying : KeyOf[other] # KeyOf[r]
        /\ Cardinality(Occupying) < EffectiveCap
    BY <1>2, <1>3, FreeKeyIsUnshared
  <2>2. (Queued \cup Chained)' = (Queued \cup Chained) \ {r}
    BY <1>6, <1>7
  <2>. QED
    BY <1>4, <1>6, <2>1, <2>2, SameCardinality DEF Exec!Start, Chained
<1>. QED
  BY <1>3, <1>8 DEF Exec!ExecNext

LEMMA VacateRefines ==
  ASSUME IInv, NEW j \in Jobs, stage[j] \in Holding,
         NEW last \in Stages \ (Holding \cup {"chained"}),
         Vacate(j, last), UNCHANGED queue
  PROVE  Exec!ExecNext
<1>. USE DEF IInv
<1>1. j \in Occupying
  BY DEF Occupying
<1>2. Occupying' = Occupying \ {j}
  BY <1>1, VacateKeeps
<1>3. stage' = [stage EXCEPT ![j] = last] /\ stage \in [Jobs -> Stages]
  BY DEF Vacate, TypeOK
<1>4. stage[j] # "chained" /\ last # "chained"
  BY DEF Holding, Working
<1>5. Chained' = Chained
  BY <1>3, <1>4 DEF Chained, Jobs
<1>6. Queued' = Queued
  BY DEF Queued
<1>7. Exec!Finish(j)
  BY <1>1, <1>2, <1>5, <1>6 DEF Exec!Finish, Chained
<1>. QED
  BY <1>7 DEF Exec!ExecNext

LEMMA MoveStutters ==
  ASSUME IInv, NEW j \in Jobs, NEW from \in Holding, NEW to \in Holding,
         MoveTo(j, from, to)
  PROVE  UNCHANGED Exec!execVars
<1>1. /\ stage[j] = from /\ stage' = [stage EXCEPT ![j] = to] /\ UNCHANGED queue
      /\ stage \in [Jobs -> Stages]
  BY DEF MoveTo, IInv, TypeOK
<1>2. Occupying' = Occupying /\ Queued' = Queued
  BY <1>1 DEF Occupying, Queued
<1>3. from # "chained" /\ to # "chained"
  BY DEF Holding, Working
<1>4. Chained' = Chained
  BY <1>1, <1>3 DEF Chained, Jobs
<1>. QED
  BY <1>2, <1>4 DEF Exec!execVars, Chained

LEMMA EnqueueResumeRefines ==
  ASSUME IInv, NEW r \in Resumes, EnqueueResume(r)
  PROVE  Exec!ExecNext
<1>1. /\ stage' = [stage EXCEPT ![r] = "chained"] /\ stage[r] = "absent"
      /\ UNCHANGED queue /\ stage \in [Jobs -> Stages] /\ r \in Jobs
  BY DEF EnqueueResume, IInv, TypeOK, Jobs
<1>2. Occupying' = Occupying /\ Queued' = Queued
  BY <1>1 DEF Occupying, Queued, Holding, Working
<1>3. Chained' = Chained \cup {r}
  BY <1>1 DEF Chained, Jobs
<1>4. Exec!Admit(r)
  BY <1>2, <1>3 DEF Exec!Admit, Chained
<1>. QED
  BY <1>1, <1>4 DEF Exec!ExecNext

LEMMA StepRefines ==
  ASSUME IInv, [Next]_vars
  PROVE  [Exec!ExecNext]_(Exec!execVars)
<1>h. /\ {"green", "terminal", "worker", "notify", "settled"} \subseteq Holding
      /\ "absent" \in Stages \ (Holding \cup {"chained"})
      /\ "over" \in Stages \ (Holding \cup {"chained"})
  BY DEF Stages, Holding, Working
<1>j. Pipelines \subseteq Jobs /\ Resumes \subseteq Jobs
  BY DEF Jobs
<1>0. ASSUME UNCHANGED <<queue, stage>> PROVE UNCHANGED Exec!execVars
  <2>1. Occupying' = Occupying /\ Queued' = Queued
    BY <1>0 DEF Occupying, Queued
  <2>. QED
    BY <1>0, <2>1 DEF Exec!execVars
<1>1. CASE UNCHANGED vars
  BY <1>0, <1>1 DEF vars
<1>2. CASE PumpStart
  BY <1>2, PumpStartRefines
<1>3. CASE PumpEnd
  BY <1>0, <1>3 DEF PumpEnd
<1>4. CASE TimerFires
  BY <1>0, <1>4 DEF TimerFires
<1>5. CASE \E k \in Keys : WindowPasses(k)
  BY <1>0, <1>5 DEF WindowPasses
<1>6. CASE \E k \in Keys : StartResume(k)
  BY <1>6, StartResumeRefines
<1>7. CASE \E p \in Pipelines : Enqueue(p)
  BY <1>7, QueueStepRefines
<1>8. CASE \E p \in Pipelines : RepairStep(p)
  <2>1. PICK p \in Pipelines : RepairStep(p)
    BY <1>8
  <2>2. CASE Release(p)
    BY <2>2, <1>h, <1>j, VacateRefines DEF Release
  <2>3. CASE \/ GreenChecked(p) \/ TerminalChecked(p) \/ WorkerEscalates(p)
             \/ WorkerReturns(p) \/ WorkerCrashes(p) \/ Notified(p)
    BY <2>3, <1>h, <1>j, MoveStutters
       DEF GreenChecked, TerminalChecked, WorkerEscalates, WorkerReturns,
           WorkerCrashes, Notified
  <2>. QED
    BY <2>1, <2>2, <2>3 DEF RepairStep
<1>9. CASE \E r \in Resumes : EnqueueResume(r)
  BY <1>9, EnqueueResumeRefines
<1>10. CASE \E r \in Resumes : ResumeStep(r)
  <2>1. PICK r \in Resumes : ResumeStep(r)
    BY <1>10
  <2>2. CASE ResumeReturns(r) \/ ResumeNotified(r)
    BY <2>2, <1>h, <1>j, VacateRefines DEF ResumeReturns, ResumeNotified, EndResume
  <2>3. CASE ResumeEscalates(r)
    BY <2>3, <1>h, <1>j, MoveStutters DEF ResumeEscalates
  <2>. QED
    BY <2>1, <2>2, <2>3 DEF ResumeStep
<1>. QED
  BY <1>1, <1>2, <1>3, <1>4, <1>5, <1>6, <1>7, <1>8, <1>9, <1>10 DEF Next

\* The scheduler implements the serial executor: queue, coalescing, gates,
\* chains, polls, windows and callbacks together never start a job that its
\* header forbids.
THEOREM Refinement == Spec => ImplementsExecutor
<1>1. Init => Exec!ExecInit
  <2>. SUFFICES ASSUME Init PROVE Exec!ExecInit
    OBVIOUS
  <2>1. Occupying = {} /\ Queued = {} /\ Chained = {}
    BY DEF Init, Occupying, Queued, Chained, Holding, Working, Jobs
  <2>. QED
    BY <2>1 DEF Exec!ExecInit, Chained
<1>2. IInv /\ [Next]_vars => [Exec!ExecNext]_(Exec!execVars)
  BY StepRefines
<1>. QED
  BY <1>1, <1>2, Invariance, PTL DEF Spec, ImplementsExecutor, Exec!ExecSpec

=============================================================================
