--------------------------- MODULE AnalysisProofs ---------------------------
(***************************************************************************)
(* The analysis pipelines for any number of requests and workers, any      *)
(* capacity of the channels and any world: the goroutines of one           *)
(* computation do not panic, no piece of work is lost or scored twice,     *)
(* the answers come in their order, and each of them is right.  For the    *)
(* last, the recursive functions of RouteScores are followed by an         *)
(* induction over a set of numbers.                                        *)
(***************************************************************************)
EXTENDS Analysis, SequenceTheorems, FiniteSetTheorems, WellFoundedInduction, TLAPS

-----------------------------------------------------------------------------
(* Workers send only while they run, and the aggregator's channel is       *)
(* closed only when none of them runs any more, nor can another start.     *)

WorkersInv ==
  /\ scoring = [w \in Worker |-> scoring[w]]
  /\ working \subseteq Worker
  /\ \A w \in Worker : scoring[w] # {} => w \in working
  /\ ~open => working = {}

LEMMA WorkersInit == Init => WorkersInv
BY DEF Init, WorkersInv

LEMMA WorkersStep ==
  ASSUME WorkersInv, [Next]_vars
  PROVE  WorkersInv'
<1>1. CASE UNCHANGED <<workers, open>>
  BY <1>1 DEF WorkersInv, workers
<1>2. CASE Compute
  BY <1>2 DEF Compute, WorkersInv
<1>3. ASSUME NEW w \in Worker, HandOver(w)
      PROVE  WorkersInv'
  BY <1>3 DEF HandOver, WorkersInv, aggregator
<1>4. ASSUME NEW w \in Worker, Deliver(w)
      PROVE  WorkersInv'
  BY <1>4 DEF Deliver, WorkersInv
<1>5. ASSUME NEW w \in Worker, WorkerEnds(w)
      PROVE  WorkersInv'
  BY <1>5 DEF WorkerEnds, WorkersInv, aggregator
<1>6. CASE Close
  BY <1>6 DEF Close, WorkersInv, workers
<1>7. CASE UNCHANGED vars
  BY <1>1, <1>7 DEF vars, aggregator
<1>8. ASSUME NEW r \in Request, Trigger(r) \/ Result(r) \/ GiveUp(r)
      PROVE  WorkersInv'
  BY <1>1, <1>8 DEF Trigger, Result, GiveUp, aggregator
<1>9. CASE Expire \/ Feed \/ FeederEnds \/ Return
  BY <1>1, <1>9 DEF Expire, Feed, FeederEnds, Return, aggregator
<1>10. ASSUME NEW w \in Worker, Carry(w) \/ CarrierEnds(w)
       PROVE  WorkersInv'
  BY <1>1, <1>10 DEF Carry, CarrierEnds, aggregator
<1>11. QED
  BY <1>2, <1>3, <1>4, <1>5, <1>6, <1>7, <1>8, <1>9, <1>10 DEF Next, Goroutines

\* However the goroutines of a computation interleave and whenever its context ends, no worker
\* holds a score to send when the channel is closed: the send would panic.
THEOREM NeverSendsOnClosed == Spec => []NoSendOnClosed
<1>1. WorkersInv => NoSendOnClosed
  BY DEF WorkersInv, NoSendOnClosed
<1>2. QED
  BY <1>1, WorkersInit, WorkersStep, PTL DEF Spec

-----------------------------------------------------------------------------
(* A result nobody took keeps a newer one out, so that what is in the      *)
(* channel is newer than every answer given, and what is being computed    *)
(* is newer than what is in the channel.                                   *)

ResultsInv ==
  /\ jobs \in Nat
  /\ answers \in Seq(Nat)
  /\ ServedInOrder
  /\ \A k \in DOMAIN answers : answers[k] <= jobs /\ (running => answers[k] < jobs)
  /\ resultCh # <<>> =>
       /\ resultCh[1].job \in Nat
       /\ resultCh[1].job <= jobs
       /\ running => resultCh[1].job < jobs
       /\ \A k \in DOMAIN answers : answers[k] < resultCh[1].job

LEMMA ResultsInit == Init => ResultsInv
BY DEF Init, ResultsInv, ServedInOrder

LEMMA ResultsStep ==
  ASSUME ResultsInv, [Next]_vars
  PROVE  ResultsInv'
<1>1. CASE UNCHANGED <<answers, resultCh, jobs, running>>
  BY <1>1 DEF ResultsInv, ServedInOrder
<1>2. ASSUME NEW r \in Request, Result(r)
      PROVE  ResultsInv'
  <2>1. /\ answers' = Append(answers, resultCh[1].job)
        /\ resultCh # <<>> /\ resultCh' = <<>> /\ UNCHANGED <<jobs, running>>
    BY <1>2 DEF Result, job
  <2>2. /\ answers' \in Seq(Nat)
        /\ DOMAIN answers' = 1..(Len(answers) + 1) /\ DOMAIN answers = 1..Len(answers)
        /\ Len(answers) \in Nat
        /\ \A k \in 1..Len(answers) : answers'[k] = answers[k]
        /\ answers'[Len(answers) + 1] = resultCh[1].job
    BY <2>1 DEF ResultsInv
  <2>3. ServedInOrder'
    BY <2>1, <2>2 DEF ResultsInv, ServedInOrder
  <2>4. QED
    BY <2>1, <2>2, <2>3 DEF ResultsInv
<1>3. CASE Compute
  BY <1>3 DEF Compute, requests, ResultsInv, ServedInOrder
<1>4. CASE Return
  <2>1. UNCHANGED <<answers, jobs>> /\ running /\ ~running'
    BY <1>4 DEF Return, requests
  <2>2. \/ resultCh' = resultCh
        \/ resultCh = <<>> /\ resultCh'[1].job = jobs
    BY <1>4 DEF Return
  <2>3. QED
    BY <2>1, <2>2 DEF ResultsInv, ServedInOrder
<1>5. CASE UNCHANGED vars
  BY <1>1, <1>5 DEF vars, requests, channels, job
<1>6. ASSUME NEW r \in Request, Trigger(r) \/ GiveUp(r)
      PROVE  ResultsInv'
  BY <1>1, <1>6 DEF Trigger, GiveUp, job, channels
<1>7. CASE Expire \/ Feed \/ FeederEnds \/ Close
  BY <1>1, <1>7 DEF Expire, Feed, FeederEnds, Close, requests, channels, job
<1>8. ASSUME NEW w \in Worker, Carry(w) \/ CarrierEnds(w) \/ HandOver(w) \/ Deliver(w) \/ WorkerEnds(w)
      PROVE  ResultsInv'
  BY <1>1, <1>8 DEF Carry, CarrierEnds, HandOver, Deliver, WorkerEnds, requests, channels, job
<1>9. QED
  BY <1>2, <1>3, <1>4, <1>5, <1>6, <1>7, <1>8 DEF Next, Goroutines

\* However requests race for results, time out and leave theirs behind, no result is answered
\* twice and none after a newer one.
THEOREM AnswersInOrder == Spec => []ServedInOrder
<1>1. ResultsInv => ServedInOrder
  BY DEF ResultsInv
<1>2. QED
  BY <1>1, ResultsInit, ResultsStep, PTL DEF Spec

-----------------------------------------------------------------------------
(* Types.  What is in workCh is bounded because it is finite; what is      *)
(* queued and what is worked on change in different steps.                 *)

QueueTypes ==
  /\ kind \in {"routes", "intercept"}
  /\ asked \in [Request -> {"no", "waiting", "over"}]
  /\ triggerCh \in Seq(Request) /\ Len(triggerCh) <= TriggerCapacity
  /\ Len(resultCh) <= 1
  /\ running \in BOOLEAN /\ snap \in Worlds /\ expired \in BOOLEAN

WorkTypes ==
  /\ toFeed \subseteq Work /\ feeding \in BOOLEAN
  /\ workCh \subseteq Work /\ IsFiniteSet(workCh) /\ Cardinality(workCh) <= WorkCapacity
  /\ carried \in [Worker -> SUBSET Work] /\ carrying \subseteq Worker
  /\ scoring \in [Worker -> SUBSET Work] /\ working \subseteq Worker
  /\ scored \in Seq(Work) /\ open \in BOOLEAN

LEMMA TypesInit == Init => QueueTypes /\ WorkTypes
<1>1. Init => QueueTypes
  <2>1. <<>> \in Seq(Request) /\ Len(<<>>) = 0
    OBVIOUS
  <2>2. 0 <= TriggerCapacity /\ 0 <= 1
    BY AnalysisAssumption
  <2>3. QED
    BY <2>1, <2>2 DEF Init, QueueTypes
<1>2. Init => IsFiniteSet(workCh) /\ Cardinality(workCh) <= WorkCapacity
  BY FS_EmptySet, AnalysisAssumption DEF Init
<1>3. Init => WorkTypes
  <2>1. <<>> \in Seq(Work)
    OBVIOUS
  <2>2. QED
    BY <1>2, <2>1 DEF Init, WorkTypes
<1>4. QED
  BY <1>1, <1>3

LEMMA QueueTypesStep ==
  ASSUME QueueTypes, [Next]_vars
  PROVE  QueueTypes'
<1>1. CASE UNCHANGED <<kind, asked, triggerCh, resultCh, running, snap, expired>>
  BY <1>1 DEF QueueTypes
<1>2. ASSUME NEW r \in Request, Trigger(r)
      PROVE  QueueTypes'
  <2>1. /\ triggerCh' \in {triggerCh, Append(triggerCh, r)}
        /\ triggerCh' # triggerCh => Len(triggerCh) < TriggerCapacity
        /\ asked' = [asked EXCEPT ![r] = "waiting"]
        /\ UNCHANGED <<kind, resultCh, running, snap, expired>>
    BY <1>2 DEF Trigger, job
  <2>2. triggerCh' \in Seq(Request) /\ Len(triggerCh') <= TriggerCapacity
    BY <2>1, AnalysisAssumption DEF QueueTypes
  <2>3. QED
    BY <2>1, <2>2 DEF QueueTypes
<1>3. ASSUME NEW r \in Request, Result(r) \/ GiveUp(r)
      PROVE  QueueTypes'
  BY <1>3 DEF Result, GiveUp, QueueTypes, channels, job
<1>4. CASE Compute
  <2>1. triggerCh' \in Seq(Request) /\ Len(triggerCh') <= TriggerCapacity
    BY <1>4, AnalysisAssumption DEF Compute, QueueTypes
  <2>2. QED
    BY <1>4, <2>1 DEF Compute, QueueTypes, requests
<1>5. CASE Expire
  BY <1>5 DEF Expire, QueueTypes, requests, channels, job
<1>6. CASE Return
  <2>1. Len(resultCh') <= 1
    BY <1>6 DEF Return, QueueTypes
  <2>2. QED
    BY <1>6, <2>1 DEF Return, QueueTypes, requests
<1>7. CASE UNCHANGED vars
  BY <1>1, <1>7 DEF vars, requests, channels, job
<1>8. CASE Feed \/ FeederEnds \/ Close
  BY <1>1, <1>8 DEF Feed, FeederEnds, Close, requests, channels, job
<1>9. ASSUME NEW w \in Worker, Carry(w) \/ CarrierEnds(w) \/ HandOver(w) \/ Deliver(w) \/ WorkerEnds(w)
      PROVE  QueueTypes'
  BY <1>1, <1>9 DEF Carry, CarrierEnds, HandOver, Deliver, WorkerEnds, requests, channels, job
<1>10. QED
  BY <1>2, <1>3, <1>4, <1>5, <1>6, <1>7, <1>8, <1>9 DEF Next, Goroutines

LEMMA WorkTypesStep ==
  ASSUME WorkTypes, [Next]_vars
  PROVE  WorkTypes'
<1>1. UNCHANGED <<kind, snap>> => Work' = Work
  BY DEF Work
<1>2. CASE UNCHANGED <<kind, snap, feeder, workCh, carriers, workers, aggregator>>
  BY <1>1, <1>2 DEF WorkTypes, feeder, carriers, workers, aggregator
<1>3. CASE Compute
  <2>1. Cardinality(workCh') <= WorkCapacity /\ IsFiniteSet(workCh')
    BY <1>3, FS_EmptySet, AnalysisAssumption DEF Compute
  <2>2. QED
    BY <1>3, <2>1 DEF Compute, WorkTypes
<1>4. CASE Feed
  <2>1. PICK work \in toFeed : toFeed' = toFeed \ {work} /\ workCh' = workCh \cup {work}
    BY <1>4 DEF Feed
  <2>2. IsFiniteSet(workCh) /\ Cardinality(workCh) \in Nat /\ Cardinality(workCh) < WorkCapacity
    BY <1>4, FS_CardinalityType DEF WorkTypes, Feed
  <2>3. /\ IsFiniteSet(workCh')
        /\ Cardinality(workCh') \in {Cardinality(workCh), Cardinality(workCh) + 1}
    <3>1. \A S, x : IsFiniteSet(S) => /\ IsFiniteSet(S \cup {x})
                                     /\ Cardinality(S \cup {x}) \in {Cardinality(S), Cardinality(S) + 1}
      BY FS_AddElement
    <3>2. QED
      BY <2>1, <2>2, <3>1
  <2>4. QED
    BY <1>1, <1>4, <2>1, <2>2, <2>3, AnalysisAssumption DEF Feed, WorkTypes, carriers, workers, aggregator, job
<1>5. CASE FeederEnds \/ Close
  BY <1>1, <1>5 DEF FeederEnds, Close, WorkTypes, carriers, workers, aggregator, feeder, job
<1>6. ASSUME NEW w \in Worker, Carry(w)
      PROVE  WorkTypes'
  <2>1. PICK work \in workCh : carried' = [carried EXCEPT ![w] = {work}] /\ workCh' = workCh \ {work}
    BY <1>6 DEF Carry
  <2>2. IsFiniteSet(workCh) /\ Cardinality(workCh) \in Nat /\ Cardinality(workCh) <= WorkCapacity
    BY FS_CardinalityType DEF WorkTypes
  <2>3. /\ IsFiniteSet(workCh')
        /\ Cardinality(workCh') \in {Cardinality(workCh), Cardinality(workCh) - 1}
    <3>1. \A S, x : IsFiniteSet(S) => /\ IsFiniteSet(S \ {x})
                                     /\ Cardinality(S \ {x}) \in {Cardinality(S), Cardinality(S) - 1}
      BY FS_RemoveElement
    <3>2. QED
      BY <2>1, <2>2, <3>1
  <2>4. QED
    BY <1>1, <1>6, <2>1, <2>2, <2>3, AnalysisAssumption DEF Carry, WorkTypes, workers, aggregator, feeder, job
<1>7. ASSUME NEW w \in Worker, CarrierEnds(w) \/ HandOver(w)
      PROVE  WorkTypes'
  BY <1>1, <1>7 DEF CarrierEnds, HandOver, WorkTypes, workers, aggregator, feeder, job
<1>8. ASSUME NEW w \in Worker, Deliver(w)
      PROVE  WorkTypes'
  <2>1. PICK work \in scoring[w] : scored' = Append(scored, work)
    BY <1>8 DEF Deliver
  <2>2. scored' \in Seq(Work)
    BY <2>1 DEF WorkTypes
  <2>3. QED
    BY <1>1, <1>8, <2>2 DEF Deliver, WorkTypes, carriers, feeder, job
<1>9. ASSUME NEW w \in Worker, WorkerEnds(w)
      PROVE  WorkTypes'
  BY <1>1, <1>9 DEF WorkerEnds, WorkTypes, carriers, aggregator, feeder, job
<1>10. CASE Return
  <2>1. Cardinality(workCh') <= WorkCapacity /\ IsFiniteSet(workCh')
    BY <1>10, FS_EmptySet, AnalysisAssumption DEF Return
  <2>2. scored' \in Seq(Work')
    BY <1>10 DEF Return
  <2>3. QED
    BY <1>1, <1>10, <2>1, <2>2 DEF Return, WorkTypes, workers, job
<1>11. CASE UNCHANGED vars
  BY <1>2, <1>11 DEF vars, job
<1>12. CASE Expire \/ \E r \in Request : Trigger(r) \/ Result(r) \/ GiveUp(r)
  BY <1>2, <1>12 DEF Trigger, Result, GiveUp, Expire, job
<1>13. QED
  BY <1>3, <1>4, <1>5, <1>6, <1>7, <1>8, <1>9, <1>10, <1>11, <1>12 DEF Next, Goroutines

\* The channels keep within their capacities and hold what their readers expect, for any
\* number of requests and workers: a scored route of one job never meets the next one.
THEOREM TypeCorrect == Spec => []TypeOK
<1>1. QueueTypes /\ WorkTypes /\ ResultsInv => TypeOK
  BY DEF QueueTypes, WorkTypes, ResultsInv, TypeOK
<1>2. QED
  BY <1>1, TypesInit, ResultsInit, QueueTypesStep, WorkTypesStep, ResultsStep, PTL DEF Spec

-----------------------------------------------------------------------------
(* Where the work is.  The places a piece of work can be in exclude each   *)
(* other, what holds one piece at a time holds one, and while the context  *)
(* lasts every piece is somewhere.                                         *)

Apart ==
  /\ \A v, w \in Worker : \A a \in carried[v], b \in carried[w] : v = w <=> a = b
  /\ \A v, w \in Worker : \A a \in scoring[v], b \in scoring[w] : v = w <=> a = b
  /\ \A j, k \in 1..Len(scored) : scored[j] = scored[k] => j = k
  /\ toFeed \cap workCh = {}
  /\ \A w \in Worker : (carried[w] \cup scoring[w]) \cap (toFeed \cup workCh) = {}
  /\ \A v, w \in Worker : carried[v] \cap scoring[w] = {}
  /\ \A k \in 1..Len(scored) :
       /\ scored[k] \notin toFeed \cup workCh
       /\ \A w \in Worker : scored[k] \notin carried[w] \cup scoring[w]

Somewhere(work) ==
  \/ work \in toFeed \cup workCh
  \/ \E w \in Worker : work \in carried[w] \cup scoring[w]
  \/ \E k \in 1..Len(scored) : scored[k] = work

OnceInv == running => Apart /\ (~expired => \A work \in Work : Somewhere(work))

LEMMA OnceStep ==
  ASSUME WorkTypes, OnceInv, [Next]_vars
  PROVE  OnceInv'
<1> USE DEF WorkTypes
<1>1. UNCHANGED <<kind, snap>> => Work' = Work
  BY DEF Work
<1>2. CASE UNCHANGED <<kind, snap, running, expired, toFeed, workCh, carried, scoring, scored>>
  BY <1>1, <1>2 DEF OnceInv, Apart, Somewhere
<1>3. CASE Compute
  BY <1>3 DEF Compute, OnceInv, Apart, Somewhere
<1>4. CASE Expire
  BY <1>1, <1>4 DEF Expire, OnceInv, Apart, job, feeder, carriers, workers, aggregator
<1>5. CASE Feed
  <2>1. PICK work \in toFeed : toFeed' = toFeed \ {work} /\ workCh' = workCh \cup {work}
    BY <1>5 DEF Feed
  <2>2. running /\ UNCHANGED <<kind, snap, running, expired, carried, scoring, scored>>
    BY <1>5 DEF Feed, job, carriers, workers, aggregator
  <2>3. Apart'
    BY <2>1, <2>2 DEF OnceInv, Apart
  <2>4. ~expired => \A x \in Work : Somewhere(x)'
    BY <2>1, <2>2 DEF OnceInv, Somewhere
  <2>5. QED
    BY <1>1, <2>2, <2>3, <2>4 DEF OnceInv
<1>6. ASSUME NEW w \in Worker, Carry(w)
      PROVE  OnceInv'
  <2>1. PICK work \in workCh : carried' = [carried EXCEPT ![w] = {work}] /\ workCh' = workCh \ {work}
    BY <1>6 DEF Carry
  <2>2. /\ running /\ carried[w] = {}
        /\ UNCHANGED <<kind, snap, running, expired, toFeed, scoring, scored>>
    BY <1>6 DEF Carry, job, feeder, workers, aggregator
  <2>3. carried'[w] = {work} /\ \A v \in Worker \ {w} : carried'[v] = carried[v]
    BY <2>1
  <2>4. Apart'
    BY <2>1, <2>2, <2>3 DEF OnceInv, Apart
  <2>5. ~expired => \A x \in Work : Somewhere(x)'
    BY <2>1, <2>2, <2>3 DEF OnceInv, Somewhere
  <2>6. QED
    BY <1>1, <2>2, <2>4, <2>5 DEF OnceInv
<1>7. ASSUME NEW w \in Worker, CarrierEnds(w)
      PROVE  OnceInv'
  <2>1. /\ running /\ (expired \/ carried[w] = {})
        /\ UNCHANGED <<kind, snap, running, expired, toFeed, workCh, scoring, scored>>
    BY <1>7 DEF CarrierEnds, job, feeder, workers, aggregator
  <2>2. carried'[w] = {} /\ \A v \in Worker \ {w} : carried'[v] = carried[v]
    BY <1>7 DEF CarrierEnds
  <2>3. Apart'
    BY <2>1, <2>2 DEF OnceInv, Apart
  <2>4. ~expired => \A x \in Work : Somewhere(x)'
    BY <2>1, <2>2 DEF OnceInv, Somewhere
  <2>5. QED
    BY <1>1, <2>1, <2>3, <2>4 DEF OnceInv
<1>8. ASSUME NEW w \in Worker, HandOver(w)
      PROVE  OnceInv'
  <2>1. /\ running /\ scoring[w] = {}
        /\ UNCHANGED <<kind, snap, running, expired, toFeed, workCh, scored>>
    BY <1>8 DEF HandOver, job, feeder, aggregator
  <2>2. /\ carried'[w] = {} /\ \A v \in Worker \ {w} : carried'[v] = carried[v]
        /\ scoring'[w] = carried[w] /\ \A v \in Worker \ {w} : scoring'[v] = scoring[v]
    BY <1>8 DEF HandOver
  <2>3. Apart'
    BY <2>1, <2>2 DEF OnceInv, Apart
  <2>4. ~expired => \A x \in Work : Somewhere(x)'
    BY <2>1, <2>2 DEF OnceInv, Somewhere
  <2>5. QED
    BY <1>1, <2>1, <2>3, <2>4 DEF OnceInv
<1>9. ASSUME NEW w \in Worker, Deliver(w)
      PROVE  OnceInv'
  <2>1. PICK work \in scoring[w] : scored' = Append(scored, work)
    BY <1>9 DEF Deliver
  <2>2. /\ Len(scored') = Len(scored) + 1 /\ Len(scored) \in Nat
        /\ \A k \in 1..Len(scored) : scored'[k] = scored[k]
        /\ scored'[Len(scored) + 1] = work
    BY <2>1
  <2>3. running /\ UNCHANGED <<kind, snap, running, expired, toFeed, workCh, carried>>
    BY <1>9 DEF Deliver, job, feeder, carriers
  <2>4. scoring'[w] = {} /\ \A v \in Worker \ {w} : scoring'[v] = scoring[v]
    BY <1>9 DEF Deliver
  <2>5. Apart /\ \A a \in scoring[w] : a = work
    BY <2>1, <2>3 DEF OnceInv, Apart
  <2>6. Apart'
    <3>1. \A j, k \in 1..Len(scored') : scored'[j] = scored'[k] => j = k
      BY <2>1, <2>2, <2>5 DEF Apart
    <3>2. \A k \in 1..Len(scored') :
            /\ scored'[k] \notin toFeed \cup workCh
            /\ \A v \in Worker : scored'[k] \notin carried[v] \cup scoring'[v]
      BY <2>1, <2>2, <2>4, <2>5 DEF Apart
    <3>3. QED
      BY <2>3, <2>4, <2>5, <3>1, <3>2 DEF Apart
  <2>7. ASSUME NEW x \in Work, Somewhere(x)
        PROVE  Somewhere(x)'
    <3>1. CASE x = work
      BY <2>2, <3>1 DEF Somewhere
    <3>2. CASE x \in toFeed \cup workCh \/ \E k \in 1..Len(scored) : scored[k] = x
      BY <2>2, <2>3, <3>2 DEF Somewhere
    <3>3. CASE x # work /\ \E v \in Worker : x \in carried[v] \cup scoring[v]
      BY <2>3, <2>4, <2>5, <3>3 DEF Somewhere
    <3>4. QED
      BY <2>7, <3>1, <3>2, <3>3 DEF Somewhere
  <2>8. QED
    BY <1>1, <2>3, <2>6, <2>7 DEF OnceInv
<1>10. ASSUME NEW w \in Worker, WorkerEnds(w)
       PROVE  OnceInv'
  <2>1. /\ running /\ (expired \/ scoring[w] = {})
        /\ UNCHANGED <<kind, snap, running, expired, toFeed, workCh, carried, scored>>
    BY <1>10 DEF WorkerEnds, job, feeder, carriers, aggregator
  <2>2. scoring'[w] = {} /\ \A v \in Worker \ {w} : scoring'[v] = scoring[v]
    BY <1>10 DEF WorkerEnds
  <2>3. Apart'
    BY <2>1, <2>2 DEF OnceInv, Apart
  <2>4. ~expired => \A x \in Work : Somewhere(x)'
    BY <2>1, <2>2 DEF OnceInv, Somewhere
  <2>5. QED
    BY <1>1, <2>1, <2>3, <2>4 DEF OnceInv
<1>11. CASE Return
  BY <1>11 DEF Return, OnceInv
<1>12. CASE FeederEnds \/ Close
  BY <1>2, <1>12 DEF FeederEnds, Close, job, feeder, carriers, workers, aggregator
<1>13. CASE UNCHANGED vars
  BY <1>2, <1>13 DEF vars, job, feeder, carriers, workers, aggregator
<1>14. CASE \E r \in Request : Trigger(r) \/ Result(r) \/ GiveUp(r)
  BY <1>2, <1>14 DEF Trigger, Result, GiveUp, job, feeder, carriers, workers, aggregator
<1>15. QED
  BY <1>3, <1>4, <1>5, <1>6, <1>7, <1>8, <1>9, <1>10, <1>11, <1>12, <1>13, <1>14
     DEF Next, Goroutines

\* A set whose elements are all the same has one, or none.
LEMMA AtMostOne ==
  ASSUME NEW S, \A a, b \in S : a = b
  PROVE  Cardinality(S) = IF S = {} THEN 0 ELSE 1
<1>1. CASE S = {}
  BY <1>1, FS_EmptySet
<1>2. CASE S # {}
  <2>1. PICK a : S = {a}
    BY <1>2
  <2>2. QED
    BY <1>2, <2>1, FS_Singleton
<1>3. QED
  BY <1>1, <1>2

\* For any number of workers, capacity and amount of work: no piece is scored twice or by two
\* workers, and none is lost before the context ends.
THEOREM NothingLostOrScoredTwice == Spec => []EachScoredOnce
<1>1. Init => OnceInv
  BY DEF Init, OnceInv
<1>2. WorkTypes /\ OnceInv => EachScoredOnce
  <2> SUFFICES ASSUME WorkTypes, OnceInv, running, NEW work \in Work
               PROVE  Holders(work) <= 1 /\ (~expired => Holders(work) = 1)
    BY DEF EachScoredOnce
  <2> DEFINE C == {w \in Worker : work \in carried[w]}
             S == {w \in Worker : work \in scoring[w]}
             D == {k \in DOMAIN scored : scored[k] = work}
  <2>1. Apart /\ (~expired => Somewhere(work)) /\ DOMAIN scored = 1..Len(scored)
    BY DEF OnceInv, WorkTypes
  <2>2. /\ \A a, b \in C : a = b
        /\ \A a, b \in S : a = b
        /\ \A a, b \in D : a = b
    BY <2>1 DEF Apart
  <2>3. /\ C # {} => S = {} /\ D = {} /\ work \notin toFeed \cup workCh
        /\ S # {} => D = {} /\ work \notin toFeed \cup workCh
        /\ D # {} => work \notin toFeed \cup workCh
        /\ work \in toFeed => work \notin workCh
    BY <2>1 DEF Apart
  <2>4. Somewhere(work) => C # {} \/ S # {} \/ D # {} \/ work \in toFeed \/ work \in workCh
    BY <2>1 DEF Somewhere
  <2>5. Holders(work) = Cardinality(C) + Cardinality(S)
          + (IF work \in toFeed THEN 1 ELSE 0) + (IF work \in workCh THEN 1 ELSE 0) + Cardinality(D)
    BY DEF Holders
  <2> HIDE DEF C, S, D
  <2>6. /\ Cardinality(C) = IF C = {} THEN 0 ELSE 1
        /\ Cardinality(S) = IF S = {} THEN 0 ELSE 1
        /\ Cardinality(D) = IF D = {} THEN 0 ELSE 1
    BY <2>2, AtMostOne
  <2>7. QED
    BY <2>1, <2>3, <2>4, <2>5, <2>6
<1>3. QED
  BY <1>1, <1>2, TypesInit, WorkTypesStep, OnceStep, PTL DEF Spec

-----------------------------------------------------------------------------
(* Induction.  A set of numbers stands for what is shown of each.          *)

LEMMA LeastNumber ==
  ASSUME NEW T \in SUBSET Nat, T # {}
  PROVE  \E n \in T : \A m \in T : n <= m
<1> DEFINE R == OpToRel(<, Nat)
<1>1. IsWellFoundedOn(R, Nat)
  BY NatLessThanWellFounded
<1>2. \A m, n \in Nat : m < n => <<m, n>> \in R
  BY DEF OpToRel
<1> HIDE DEF R
<1>3. PICK n \in T : \A m \in T : ~ (<<m, n>> \in R)
  BY <1>1, WFMin
<1>4. n \in Nat /\ \A m \in T : m \in Nat /\ ~(m < n)
  BY <1>2, <1>3
<1>5. QED
  BY <1>4

\* Induction up to N: what holds of 0, and of k when it holds of k - 1, holds of all.
LEMMA Upwards ==
  ASSUME NEW N \in Nat, NEW S, 0 \in S, \A k \in 1..N : k - 1 \in S => k \in S
  PROVE  \A k \in 0..N : k \in S
<1> DEFINE T == {k \in 0..N : k \notin S}
<1> SUFFICES ASSUME T # {} PROVE FALSE
  OBVIOUS
<1>1. T \in SUBSET Nat
  OBVIOUS
<1>2. PICK n \in T : \A m \in T : n <= m
  BY <1>1, LeastNumber
<1>3. n # 0 /\ n \in 1..N /\ n - 1 \in 0..N /\ n - 1 \notin T
  BY <1>2
<1>4. QED
  BY <1>2, <1>3

\* g is defined by recursion: from b, by the steps, within D.
StaysIn(D, step, N) == \A k \in 1..N : \A x \in D : step[k][x] \in D

Iteration(g, D, b, step, N) ==
  /\ \A k \in 0..N : g[k] \in D
  /\ g[0] = b
  /\ \A k \in 1..N : g[k] = step[k][g[k - 1]]

\* Such a function exists, whatever the steps.
LEMMA Iterates ==
  ASSUME NEW N \in Nat, NEW D, NEW b \in D, NEW step, StaysIn(D, step, N)
  PROVE  \E g : Iteration(g, D, b, step, N)
<1> DEFINE Good(g, n) == /\ \A k \in 0..n : g[k] \in D
                         /\ g[0] = b
                         /\ \A k \in 1..n : g[k] = step[k][g[k - 1]]
           S == {n \in 0..N : \E g : Good(g, n)}
<1>1. 0 \in S
  <2> DEFINE g == [i \in 0..0 |-> b]
  <2>1. Good(g, 0)
    OBVIOUS
  <2> HIDE DEF g, Good
  <2>2. 0 \in 0..N
    OBVIOUS
  <2>3. QED
    BY <2>1, <2>2
<1>2. ASSUME NEW n \in 1..N, n - 1 \in S
      PROVE  n \in S
  <2>1. PICK g : Good(g, n - 1)
    BY <1>2
  <2> DEFINE h == [i \in 0..n |-> IF i = n THEN step[n][g[n - 1]] ELSE g[i]]
  <2>2. step[n][g[n - 1]] \in D
    BY <2>1 DEF StaysIn
  <2>3. (\A i \in 0..(n - 1) : h[i] = g[i]) /\ h[n] = step[n][g[n - 1]]
    OBVIOUS
  <2> HIDE DEF h
  <2>4. h[0] = b /\ \A k \in 0..n : h[k] \in D
    BY <2>1, <2>2, <2>3
  <2>5. ASSUME NEW k \in 1..n
        PROVE  h[k] = step[k][h[k - 1]]
    <3>1. h[k - 1] = g[k - 1]
      BY <2>3
    <3>2. k # n => h[k] = g[k] /\ g[k] = step[k][g[k - 1]]
      BY <2>1, <2>3
    <3>3. QED
      BY <2>3, <3>1, <3>2
  <2>6. Good(h, n)
    BY <2>4, <2>5
  <2> HIDE DEF Good
  <2>7. QED
    BY <2>6
<1> HIDE DEF S
<1>3. \A k \in 0..N : k \in S
  BY <1>1, <1>2, Upwards
<1>4. N \in S
  BY <1>3
<1>5. QED
  BY <1>4 DEF S, Iteration

-----------------------------------------------------------------------------
(* Sums.  FoldFunction takes the elements out of a set one by one.         *)

Taken(s) == CHOOSE x \in s : TRUE

IsSum(iter, f, S) ==
  iter = [s \in SUBSET S |-> IF s = {} THEN 0 ELSE f[Taken(s)] + iter[s \ {Taken(s)}]]

LEMMA SumIsFold ==
  ASSUME NEW f
  PROVE  FoldFunction(+, 0, f) = (CHOOSE iter : IsSum(iter, f, DOMAIN f))[DOMAIN f]
BY DEF FoldFunction, FoldFunctionOnSet, MapThenFoldSet, IsSum, Taken

LEMMA TakenFrom ==
  ASSUME NEW s, IsFiniteSet(s), s # {}
  PROVE  /\ Taken(s) \in s /\ IsFiniteSet(s \ {Taken(s)})
         /\ Cardinality(s) \in Nat \ {0} /\ Cardinality(s \ {Taken(s)}) = Cardinality(s) - 1
<1>1. Taken(s) \in s
  BY DEF Taken
<1>2. Cardinality(s) \in Nat /\ Cardinality(s) # 0
  BY FS_CardinalityType, FS_EmptySet
<1>3. QED
  BY <1>1, <1>2, FS_RemoveElement

LEMMA SumExists ==
  ASSUME NEW f, NEW S, IsFiniteSet(S)
  PROVE  \E iter : IsSum(iter, f, S)
<1> DEFINE N == Cardinality(S)
           Small(k) == {s \in SUBSET S : Cardinality(s) <= k}
           Rest(h, s) == IF s = {} THEN 0 ELSE f[Taken(s)] + h[s \ {Taken(s)}]
           Good(h, k) == h = [s \in Small(k) |-> Rest(h, s)]
           T == {k \in 0..N : \E h : Good(h, k)}
<1>1. N \in Nat /\ \A s \in SUBSET S : IsFiniteSet(s) /\ Cardinality(s) \in Nat /\ Cardinality(s) <= N
  BY FS_CardinalityType, FS_Subset
<1> HIDE DEF N
<1>2. 0 \in T
  <2> DEFINE h == [s \in Small(0) |-> 0]
  <2>1. \A s \in Small(0) : s = {}
    BY <1>1, FS_EmptySet
  <2>2. Good(h, 0)
    BY <2>1
  <2> HIDE DEF h, Good
  <2>3. QED
    BY <1>1, <2>2
<1>3. ASSUME NEW k \in 1..N, k - 1 \in T
      PROVE  k \in T
  <2>1. PICK h : Good(h, k - 1)
    BY <1>3
  <2> DEFINE g == [s \in Small(k) |-> Rest(h, s)]
  <2>2. \A s \in Small(k - 1) : s \in Small(k) /\ g[s] = h[s]
    <3> HIDE DEF Rest
    <3>1. \A s \in Small(k - 1) : h[s] = Rest(h, s)
      BY <2>1
    <3>2. \A s \in Small(k - 1) : s \in Small(k)
      BY <1>1
    <3> HIDE DEF Small
    <3>3. QED
      BY <3>1, <3>2
  <2>3. ASSUME NEW s \in Small(k), s # {}
        PROVE  s \ {Taken(s)} \in Small(k - 1)
    BY <1>1, <2>3, TakenFrom
  <2>4. \A s \in Small(k) : Rest(h, s) = Rest(g, s)
    <3> HIDE DEF g, Small
    <3>1. QED
      BY <2>2, <2>3
  <2>5. Good(g, k)
    <3> HIDE DEF Small
    <3>1. g = [s \in Small(k) |-> Rest(h, s)]
      OBVIOUS
    <3> HIDE DEF g, Rest
    <3>2. QED
      BY <2>4, <3>1
  <2> HIDE DEF Good, g
  <2>6. QED
    BY <2>5
<1> HIDE DEF T
<1>4. \A k \in 0..N : k \in T
  BY <1>1, <1>2, <1>3, Upwards
<1>5. N \in T
  BY <1>1, <1>4
<1>6. PICK h : Good(h, N)
  BY <1>5 DEF T
<1>7. Small(N) = SUBSET S
  BY <1>1
<1>8. IsSum(h, f, S)
  BY <1>6, <1>7 DEF IsSum
<1>9. QED
  BY <1>8

\* A sum of natural numbers is one, and so is the sum over any part.
LEMMA PartialSums ==
  ASSUME NEW S, IsFiniteSet(S), NEW f \in [S -> Nat], NEW iter, IsSum(iter, f, S)
  PROVE  \A s \in SUBSET S : iter[s] \in Nat
<1> DEFINE N == Cardinality(S)
           T == {k \in 0..N : \A s \in SUBSET S : Cardinality(s) = k => iter[s] \in Nat}
<1>1. \A s \in SUBSET S : iter[s] = IF s = {} THEN 0 ELSE f[Taken(s)] + iter[s \ {Taken(s)}]
  BY DEF IsSum
<1>2. N \in Nat /\ \A s \in SUBSET S : IsFiniteSet(s) /\ Cardinality(s) \in 0..N
  BY FS_CardinalityType, FS_Subset
<1> HIDE DEF N
<1>3. 0 \in T
  <2>1. \A s \in SUBSET S : Cardinality(s) = 0 => s = {}
    BY <1>2, FS_EmptySet
  <2>2. iter[{}] = 0
    BY <1>1
  <2>3. QED
    BY <1>2, <2>1, <2>2
<1>4. ASSUME NEW k \in 1..N, k - 1 \in T
      PROVE  k \in T
  <2>1. ASSUME NEW s \in SUBSET S, Cardinality(s) = k
        PROVE  iter[s] \in Nat
    <3>1. s # {}
      BY <1>2, <1>4, <2>1, FS_EmptySet
    <3>2. Taken(s) \in S /\ s \ {Taken(s)} \in SUBSET S /\ Cardinality(s \ {Taken(s)}) = k - 1
      BY <1>2, <2>1, <3>1, TakenFrom
    <3>3. iter[s \ {Taken(s)}] \in Nat /\ f[Taken(s)] \in Nat
      BY <1>4, <3>2
    <3>4. iter[s] = f[Taken(s)] + iter[s \ {Taken(s)}]
      BY <1>1, <3>1
    <3>5. QED
      BY <3>3, <3>4
  <2>2. QED
    BY <2>1
<1> HIDE DEF T
<1>5. \A k \in 0..N : k \in T
  BY <1>2, <1>3, <1>4, Upwards
<1>6. QED
  BY <1>2, <1>5 DEF T

LEMMA SumIsNumber ==
  ASSUME NEW S, IsFiniteSet(S), NEW f \in [S -> Nat]
  PROVE  FoldFunction(+, 0, f) \in Nat
<1> DEFINE iter == CHOOSE iter : IsSum(iter, f, S)
<1>1. IsSum(iter, f, S)
  BY SumExists
<1>2. FoldFunction(+, 0, f) = iter[S]
  BY SumIsFold
<1> HIDE DEF iter
<1>3. iter[S] \in Nat
  BY <1>1, PartialSums
<1>4. QED
  BY <1>2, <1>3

-----------------------------------------------------------------------------
(* The scores are numbers.                                                 *)

IsWay(at, route) ==
  at = [k \in 0..Len(RoutePaths[route]) |->
          IF k = 0 THEN StartRegion ELSE Onward(at[k - 1], RoutePaths[route][k])]

LEMMA PathsOfRoute ==
  ASSUME NEW route \in Route
  PROVE  /\ RoutePaths[route] \in Seq(Path)
         /\ Len(RoutePaths[route]) \in Nat \ {0}
         /\ DOMAIN RoutePaths[route] = 1..Len(RoutePaths[route])
         /\ \A k \in 1..Len(RoutePaths[route]) : RoutePaths[route][k] \in Path
<1>1. RoutePaths[route] \in Seq(Path) /\ RoutePaths[route] # <<>>
  BY MapAssumption
<1>2. QED
  BY <1>1, EmptySeq, LenProperties, ElementOfSeq

LEMMA OnwardType ==
  ASSUME NEW r, NEW p \in Path
  PROVE  Onward(r, p) \in Region
BY MapAssumption DEF Onward

LEMMA RegionsType ==
  ASSUME NEW route \in Route
  PROVE  /\ Regions(route) \in [1..Len(RoutePaths[route]) -> Region]
         /\ Regions(route) \in Seq(Region)
         /\ Len(Regions(route)) = Len(RoutePaths[route])
         /\ DOMAIN Regions(route) = 1..Len(RoutePaths[route])
<1> DEFINE N == Len(RoutePaths[route])
           at == CHOOSE at : IsWay(at, route)
           step == [k \in 1..N |-> [r \in Region |-> Onward(r, RoutePaths[route][k])]]
<1>1. N \in Nat /\ DOMAIN RoutePaths[route] = 1..N /\ \A k \in 1..N : RoutePaths[route][k] \in Path
  BY PathsOfRoute
<1>2. Regions(route) = [k \in 1..N |-> at[k]]
  BY <1>1 DEF Regions, IsWay
<1> HIDE DEF N
<1>3. StaysIn(Region, step, N) /\ StartRegion \in Region
  BY <1>1, OnwardType, MapAssumption DEF StaysIn
<1> HIDE DEF step
<1>4. PICK g : Iteration(g, Region, StartRegion, step, N)
  BY <1>1, <1>3, Iterates
<1>5. IsWay([k \in 0..N |-> g[k]], route)
  <2>1. ASSUME NEW k \in 0..N
        PROVE  g[k] = IF k = 0 THEN StartRegion ELSE Onward(g[k - 1], RoutePaths[route][k])
    <3>1. CASE k = 0
      BY <1>4, <3>1 DEF Iteration
    <3>2. CASE k # 0
      <4>1. k \in 1..N /\ g[k - 1] \in Region
        BY <1>1, <1>4, <3>2 DEF Iteration
      <4>2. QED
        BY <1>4, <3>2, <4>1 DEF step, Iteration
    <3>3. QED
      BY <3>1, <3>2
  <2> DEFINE h == [k \in 0..N |-> g[k]]
  <2>2. \A k \in 0..N : h[k] = IF k = 0 THEN StartRegion ELSE Onward(h[k - 1], RoutePaths[route][k])
    BY <1>1, <2>1
  <2>3. h = [k \in 0..N |-> h[k]]
    OBVIOUS
  <2> HIDE DEF h
  <2>4. IsWay(h, route)
    BY <2>2, <2>3 DEF IsWay, N
  <2>5. QED
    BY <2>4 DEF h
<1>6. IsWay(at, route)
  BY <1>5
<1> HIDE DEF at
<1>7. ASSUME NEW k \in 1..N
      PROVE  at[k] \in Region
  <2>1. at[k] = Onward(at[k - 1], RoutePaths[route][k])
    BY <1>1, <1>6 DEF IsWay, N
  <2>2. QED
    BY <1>1, <2>1, OnwardType
<1>8. [k \in 1..N |-> at[k]] \in [1..N -> Region]
  BY <1>7
<1>9. Regions(route) \in Seq(Region) /\ Len(Regions(route)) = N
  <2>1. Regions(route) \in Seq(Region)
    BY <1>1, <1>2, <1>8, SeqDef
  <2>2. Len(Regions(route)) = N
    BY <1>1, <1>2, <1>8, <2>1, LenProperties
  <2>3. QED
    BY <2>1, <2>2
<1>10. QED
  BY <1>2, <1>8, <1>9 DEF N

LEMMA StatusRiskType == \A s : StatusRisk(s) \in Nat
BY DEF StatusRisk

LEMMA Weighted == \A a, b, c \in Nat : a + 3 * b + c \in Nat /\ a + 2 * b \in Nat
OBVIOUS

LEMMA RiskIsNumber ==
  ASSUME NEW route \in Route, NEW world \in World
  PROVE  RouteRisk(route, world) \in Nat
<1> DEFINE N == Len(RoutePaths[route])
           risk == [k \in DOMAIN RoutePaths[route] |->
                      world.threat[Regions(route)[k]] + 3 * world.surveillance[RoutePaths[route][k]]
                        + StatusRisk(world.status[RoutePaths[route][k]])]
           near == Cardinality(NazgulNear(route, world))
<1>1. N \in Nat /\ DOMAIN RoutePaths[route] = 1..N /\ \A k \in 1..N : RoutePaths[route][k] \in Path
  BY PathsOfRoute
<1>2. \A k \in 1..N : Regions(route)[k] \in Region
  BY RegionsType
<1>3. world.threat \in [Region -> Nat] /\ world.surveillance \in [Path -> Nat]
  BY DEF World
<1>4. risk \in [1..N -> Nat]
  <2>1. ASSUME NEW k \in 1..N
        PROVE  world.threat[Regions(route)[k]] + 3 * world.surveillance[RoutePaths[route][k]]
                 + StatusRisk(world.status[RoutePaths[route][k]]) \in Nat
    <3>1. /\ world.threat[Regions(route)[k]] \in Nat
          /\ world.surveillance[RoutePaths[route][k]] \in Nat
          /\ StatusRisk(world.status[RoutePaths[route][k]]) \in Nat
      BY <1>1, <1>2, <1>3, StatusRiskType
    <3>2. QED
      BY <3>1, Weighted
  <2>2. QED
    BY <1>1, <2>1
<1>5. IsFiniteSet(1..N)
  BY <1>1, FS_Interval
<1>6. near \in Nat
  <2>1. IsFiniteSet(NazgulNear(route, world))
    BY MapAssumption, FS_Subset DEF NazgulNear
  <2>2. QED
    BY <2>1, FS_CardinalityType
<1>7. RouteRisk(route, world) = FoldFunction(+, 0, risk) + 2 * near
  BY DEF RouteRisk
<1> HIDE DEF risk, near, N
<1>8. FoldFunction(+, 0, risk) \in Nat
  BY <1>4, <1>5, SumIsNumber
<1>9. QED
  BY <1>6, <1>7, <1>8, Weighted

-----------------------------------------------------------------------------
(* The ranking of the routes.                                              *)

Score == [route : Route, risk : Nat]

\* How many scores of a list the insertion sort passes.
Passed(score, list) == Cardinality({j \in DOMAIN list : list[j].risk <= score.risk})

LEMMA PassedType ==
  ASSUME NEW list \in Seq(Score), NEW score
  PROVE  Passed(score, list) \in 0..Len(list)
<1> DEFINE M == {j \in DOMAIN list : list[j].risk <= score.risk}
<1>1. Len(list) \in Nat /\ M \in SUBSET (1..Len(list))
  BY LenProperties
<1>2. IsFiniteSet(1..Len(list)) /\ Cardinality(1..Len(list)) = Len(list)
  <2> DEFINE n == Len(list)
  <2>1. n \in Int /\ 1 \in Int /\ n >= 0
    BY <1>1
  <2> HIDE DEF n
  <2>2. IsFiniteSet(1..n) /\ Cardinality(1..n) = IF 1 > n THEN 0 ELSE n - 1 + 1
    BY <2>1, FS_Interval
  <2>3. Cardinality(1..n) = n
    BY <2>1, <2>2
  <2>4. QED
    BY <2>2, <2>3 DEF n
<1> HIDE DEF M
<1>3. Cardinality(M) \in Nat /\ Cardinality(M) <= Len(list)
  BY <1>1, <1>2, FS_Subset, FS_CardinalityType
<1>4. QED
  BY <1>1, <1>3 DEF Passed, M

LEMMA Joined ==
  ASSUME NEW S, NEW s \in Seq(S), NEW t \in Seq(S), NEW m, NEW n, Len(s) = m, Len(t) = n
  PROVE  /\ s \o t \in Seq(S) /\ Len(s \o t) = m + n
         /\ \A i \in 1..(m + n) : (s \o t)[i] = IF i <= m THEN s[i] ELSE t[i - m]
BY ConcatProperties

\* Where the elements of the longer list come from.
LEMMA InsertedAt ==
  ASSUME NEW list \in Seq(Score), NEW score \in Score
  PROVE  LET k == Passed(score, list)
             new == Inserted(score, list)
         IN /\ new \in Seq(Score) /\ Len(new) = Len(list) + 1
            /\ \A i \in 1..k : new[i] = list[i]
            /\ new[k + 1] = score
            /\ \A i \in (k + 2)..(Len(list) + 1) : new[i] = list[i - 1]
<1> DEFINE k == Passed(score, list)
           n == Len(list)
           before == SubSeq(list, 1, k)
           after == SubSeq(list, k + 1, n)
           upto == before \o <<score>>
<1>1. n \in Nat /\ k \in 0..n /\ \A i \in 1..n : list[i] \in Score
  BY PassedType, LenProperties, ElementOfSeq
<1>2. Inserted(score, list) = upto \o after
  BY DEF Inserted, Passed
<1> HIDE DEF k, n
<1>3. before \in Seq(Score) /\ Len(before) = k /\ \A i \in 1..k : before[i] = list[i]
  <2>1. \A i \in 1..k : list[i] \in Score
    BY <1>1
  <2>2. k \in Int /\ 1 \in Int
    BY <1>1
  <2>3. /\ before \in Seq(Score) /\ Len(before) = IF 1 <= k THEN k - 1 + 1 ELSE 0
        /\ \A i \in 1..(k - 1 + 1) : before[i] = list[1 + i - 1]
    BY <2>1, <2>2, SubSeqProperties
  <2>4. k - 1 + 1 = k /\ \A i \in 1..k : 1 + i - 1 = i
    BY <1>1
  <2>5. QED
    BY <1>1, <2>3, <2>4
<1>4. after \in Seq(Score) /\ Len(after) = n - k /\ \A i \in 1..(n - k) : after[i] = list[k + i]
  <2>1. \A i \in (k + 1)..n : list[i] \in Score
    BY <1>1
  <2>2. k + 1 \in Int /\ n \in Int
    BY <1>1
  <2>3. /\ after \in Seq(Score) /\ Len(after) = IF k + 1 <= n THEN n - (k + 1) + 1 ELSE 0
        /\ \A i \in 1..(n - (k + 1) + 1) : after[i] = list[(k + 1) + i - 1]
    BY <2>1, <2>2, SubSeqProperties
  <2>4. n - (k + 1) + 1 = n - k /\ \A i \in 1..(n - k) : (k + 1) + i - 1 = k + i
    BY <1>1
  <2>5. QED
    BY <1>1, <2>3, <2>4
<1> HIDE DEF before, after
<1>5. <<score>> \in Seq(Score) /\ Len(<<score>>) = 1 /\ <<score>>[1] = score
  OBVIOUS
<1>6. /\ upto \in Seq(Score) /\ Len(upto) = k + 1
      /\ \A i \in 1..k : upto[i] = list[i]
      /\ upto[k + 1] = score
  <2> DEFINE one == <<score>>
  <2>1. one \in Seq(Score) /\ Len(one) = 1 /\ one[1] = score
    BY <1>5
  <2> HIDE DEF one
  <2>2. /\ before \o one \in Seq(Score) /\ Len(before \o one) = k + 1
        /\ \A i \in 1..(k + 1) : (before \o one)[i] = IF i <= k THEN before[i] ELSE one[i - k]
    <3>1. /\ before \o one \in Seq(Score) /\ Len(before \o one) = Len(before) + Len(one)
          /\ \A i \in 1..(Len(before) + Len(one)) :
               (before \o one)[i] = IF i <= Len(before) THEN before[i] ELSE one[i - Len(before)]
      BY <1>3, <2>1, ConcatProperties
    <3>2. Len(before) = k /\ Len(one) = 1
      BY <1>3, <2>1
    <3>3. QED
      BY <3>1, <3>2
  <2>3. (k + 1) - k = 1 /\ k + 1 \in 1..(k + 1) /\ ~(k + 1 <= k) /\ \A i \in 1..k : i \in 1..(k + 1) /\ i <= k
    BY <1>1
  <2>4. QED
    BY <1>3, <2>1, <2>2, <2>3 DEF one
<1> HIDE DEF upto
<1>7. /\ upto \o after \in Seq(Score) /\ Len(upto \o after) = (k + 1) + (n - k)
      /\ \A i \in 1..((k + 1) + (n - k)) : (upto \o after)[i] = IF i <= k + 1 THEN upto[i] ELSE after[i - (k + 1)]
  BY <1>4, <1>6, Joined
<1>8. (k + 1) + (n - k) = n + 1
  BY <1>1
<1>9. \A i \in (k + 2)..(n + 1) : (upto \o after)[i] = list[i - 1]
  <2>1. ASSUME NEW i \in (k + 2)..(n + 1)
        PROVE  (upto \o after)[i] = list[i - 1]
    <3>1. i \in 1..(n + 1) /\ ~(i <= k + 1) /\ i - (k + 1) \in 1..(n - k) /\ k + (i - (k + 1)) = i - 1
      BY <1>1
    <3>2. QED
      BY <1>4, <1>7, <1>8, <3>1
  <2>2. QED
    BY <2>1
<1>10. (\A i \in 1..k : (upto \o after)[i] = list[i]) /\ (upto \o after)[k + 1] = score
  <2>1. \A i \in 1..(k + 1) : i \in 1..(n + 1) /\ i <= k + 1
    BY <1>1
  <2>2. k + 1 \in 1..(k + 1) /\ \A i \in 1..k : i \in 1..(k + 1)
    BY <1>1
  <2>3. QED
    BY <1>6, <1>7, <1>8, <2>1, <2>2
<1>11. QED
  BY <1>2, <1>7, <1>8, <1>9, <1>10 DEF k, n

Sorted(list) ==
  \A i, j \in 1..Len(list) : i < j => list[i].risk <= list[j].risk /\ list[i].route # list[j].route

LEMMA ListFacts ==
  ASSUME NEW list \in Seq(Score)
  PROVE  /\ Len(list) \in Nat /\ DOMAIN list = 1..Len(list)
         /\ \A i \in 1..Len(list) : list[i] \in Score /\ list[i].risk \in Nat /\ list[i].route \in Route
<1>1. Len(list) \in Nat /\ DOMAIN list = 1..Len(list) /\ \A i \in 1..Len(list) : list[i] \in Score
  BY LenProperties, ElementOfSeq
<1>2. \A s \in Score : s.risk \in Nat /\ s.route \in Route
  BY DEF Score
<1>3. QED
  BY <1>1, <1>2

\* In a sorted list those that are passed come first.
LEMMA PassedFirst ==
  ASSUME NEW list \in Seq(Score), Sorted(list), NEW score \in Score
  PROVE  \A j \in 1..Len(list) : list[j].risk <= score.risk <=> j <= Passed(score, list)
<1> DEFINE n == Len(list)
           M == {j \in 1..n : list[j].risk <= score.risk}
           T == {i \in 1..(n + 1) : i \notin M}
<1>1. n \in Nat /\ DOMAIN list = 1..n /\ \A i \in 1..n : list[i].risk \in Nat
  BY ListFacts
<1>2. score.risk \in Nat
  BY DEF Score
<1>3. \A i, j \in 1..n : i < j => list[i].risk <= list[j].risk
  BY DEF Sorted
<1>4. Passed(score, list) = Cardinality(M)
  BY <1>1 DEF Passed
<1> HIDE DEF n
<1>5. n + 1 \in T /\ T \in SUBSET Nat
  BY <1>1
<1>6. PICK f \in T : \A i \in T : f <= i
  BY <1>5, LeastNumber
<1>7. f \in 1..(n + 1) /\ f \notin M
  BY <1>6
<1>8. \A i \in 1..n : i \in M <=> i <= f - 1
  <2>1. ASSUME NEW i \in 1..n, i <= f - 1
        PROVE  i \in M
    BY <1>1, <1>6, <1>7, <2>1
  <2>2. ASSUME NEW i \in M
        PROVE  i <= f - 1
    <3>1. SUFFICES ASSUME f <= i PROVE FALSE
      BY <1>1, <1>7
    <3>2. f \in 1..n /\ i \in 1..n /\ list[i].risk <= score.risk
      BY <1>1, <1>7, <3>1
    <3>3. list[f].risk <= list[i].risk
      BY <1>1, <1>3, <3>1, <3>2
    <3>4. list[f].risk <= score.risk
      BY <1>1, <1>2, <3>2, <3>3
    <3>5. QED
      BY <1>7, <3>2, <3>4
  <2>3. QED
    BY <2>1, <2>2
<1>9. M = 1..(f - 1)
  <2>1. M \subseteq 1..n /\ 1..(f - 1) \subseteq 1..n
    BY <1>1, <1>7
  <2> HIDE DEF M
  <2>2. \A i \in 1..n : i \in 1..(f - 1) <=> i <= f - 1
    BY <1>1, <1>7
  <2>3. QED
    BY <1>8, <2>1, <2>2
<1>10. Cardinality(M) = f - 1
  <2> DEFINE g == f - 1
  <2>1. g \in Int /\ 1 \in Int /\ g >= 0
    BY <1>1, <1>7
  <2> HIDE DEF g
  <2>2. Cardinality(1..g) = IF 1 > g THEN 0 ELSE g - 1 + 1
    BY <2>1, FS_Interval
  <2>3. Cardinality(1..g) = g
    BY <2>1, <2>2
  <2>4. QED
    BY <1>9, <2>3 DEF g
<1>11. QED
  BY <1>4, <1>8, <1>10 DEF n

\* The list ranks the first n of the scores.
Ranked(list, scores, n) ==
  /\ list \in Seq(Score) /\ Len(list) = n /\ Sorted(list)
  /\ \A i \in 1..n : \E m \in 1..n : list[i] = scores[m]

\* One round of the insertion sort.
LEMMA InsertionRanks ==
  ASSUME NEW n \in Nat \ {0}, NEW list, NEW scores, Ranked(list, scores, n - 1),
         scores[n] \in Score, \A m \in 1..(n - 1) : scores[m].route # scores[n].route
  PROVE  Ranked(Inserted(scores[n], list), scores, n)
<1> DEFINE score == scores[n]
           new == Inserted(score, list)
           k == Passed(score, list)
<1>1. /\ list \in Seq(Score) /\ Len(list) = n - 1 /\ Sorted(list) /\ n - 1 \in Nat
      /\ \A i \in 1..(n - 1) : \E m \in 1..(n - 1) : list[i] = scores[m]
  BY DEF Ranked
<1>2. /\ k \in 0..(n - 1) /\ \A i \in 1..(n - 1) : list[i].risk \in Nat
      /\ score.risk \in Nat
  BY <1>1, PassedType, ListFacts DEF Score
<1>3. \A i \in 1..(n - 1) : list[i].route # score.route
  BY <1>1
<1>4. \A j \in 1..(n - 1) : list[j].risk <= score.risk <=> j <= k
  BY <1>1, PassedFirst
<1>5. /\ new \in Seq(Score) /\ Len(new) = (n - 1) + 1
      /\ \A i \in 1..k : new[i] = list[i]
      /\ new[k + 1] = score
      /\ \A i \in (k + 2)..((n - 1) + 1) : new[i] = list[i - 1]
  <2>1. /\ new \in Seq(Score) /\ Len(new) = Len(list) + 1
        /\ \A i \in 1..k : new[i] = list[i]
        /\ new[k + 1] = score
        /\ \A i \in (k + 2)..(Len(list) + 1) : new[i] = list[i - 1]
    BY <1>1, InsertedAt
  <2> HIDE DEF new, k, score
  <2>2. QED
    BY <1>1, <2>1
<1> HIDE DEF new, k, score
<1>6. Len(new) = n /\ \A i \in (k + 2)..n : new[i] = list[i - 1]
  <2>1. (n - 1) + 1 = n
    OBVIOUS
  <2>2. QED
    BY <1>5, <2>1
<1>7. \A i, j \in 1..(n - 1) : i < j => list[i].risk <= list[j].risk /\ list[i].route # list[j].route
  BY <1>1 DEF Sorted
<1>8. ASSUME NEW i \in 1..n, NEW j \in 1..n, i < j
      PROVE  new[i].risk <= new[j].risk /\ new[i].route # new[j].route
  <2>1. CASE j <= k
    <3>1. i \in 1..k /\ j \in 1..k /\ i \in 1..(n - 1) /\ j \in 1..(n - 1)
      BY <1>1, <1>2, <1>8, <2>1
    <3>2. QED
      BY <1>5, <1>7, <1>8, <3>1
  <2>2. CASE j = k + 1
    <3>1. i \in 1..k /\ i \in 1..(n - 1) /\ i <= k
      BY <1>1, <1>2, <1>8, <2>2
    <3>2. QED
      BY <1>3, <1>4, <1>5, <2>2, <3>1
  <2>3. CASE j > k + 1 /\ i <= k
    <3>1. i \in 1..k /\ i \in 1..(n - 1) /\ j \in (k + 2)..n /\ j - 1 \in 1..(n - 1) /\ i < j - 1
      BY <1>1, <1>2, <1>8, <2>3
    <3>2. QED
      BY <1>5, <1>6, <1>7, <3>1
  <2>4. CASE j > k + 1 /\ i = k + 1
    <3>1. j \in (k + 2)..n /\ j - 1 \in 1..(n - 1) /\ ~(j - 1 <= k)
      BY <1>1, <1>2, <1>8, <2>4
    <3>2. ~(list[j - 1].risk <= score.risk) /\ list[j - 1].route # score.route /\ list[j - 1].risk \in Nat
      BY <1>2, <1>3, <1>4, <3>1
    <3>3. new[i] = score /\ new[j] = list[j - 1]
      BY <1>5, <1>6, <2>4, <3>1
    <3>4. QED
      BY <1>2, <3>2, <3>3
  <2>5. CASE j > k + 1 /\ i > k + 1
    <3>1. /\ i \in (k + 2)..n /\ i - 1 \in 1..(n - 1) /\ j \in (k + 2)..n /\ j - 1 \in 1..(n - 1)
          /\ i - 1 < j - 1
      BY <1>1, <1>2, <1>8, <2>5
    <3>2. QED
      BY <1>6, <1>7, <3>1
  <2>6. QED
    BY <1>2, <1>8, <2>1, <2>2, <2>3, <2>4, <2>5
<1>9. ASSUME NEW i \in 1..n
      PROVE  \E m \in 1..n : new[i] = scores[m]
  <2>1. CASE i <= k
    <3>1. i \in 1..k /\ i \in 1..(n - 1)
      BY <1>1, <1>2, <1>9, <2>1
    <3>2. PICK m \in 1..(n - 1) : list[i] = scores[m]
      BY <1>1, <3>1
    <3>3. QED
      BY <1>5, <3>1, <3>2
  <2>2. CASE i = k + 1
    BY <1>5, <2>2 DEF score
  <2>3. CASE i > k + 1
    <3>1. i \in (k + 2)..n /\ i - 1 \in 1..(n - 1)
      BY <1>1, <1>2, <1>9, <2>3
    <3>2. PICK m \in 1..(n - 1) : list[i - 1] = scores[m]
      BY <1>1, <3>1
    <3>3. QED
      BY <1>6, <3>1, <3>2
  <2>4. QED
    BY <1>2, <2>1, <2>2, <2>3
<1>10. Sorted(new)
  BY <1>6, <1>8 DEF Sorted
<1>11. QED
  BY <1>5, <1>6, <1>9, <1>10 DEF Ranked, new, score

IsInsertionSort(sorted, scores) ==
  sorted = [k \in 0..Len(scores) |-> IF k = 0 THEN <<>> ELSE Inserted(scores[k], sorted[k - 1])]

LEMMA SortExists ==
  ASSUME NEW scores \in Seq(Score)
  PROVE  \E sorted : IsInsertionSort(sorted, scores)
<1> DEFINE N == Len(scores)
           D == Seq(Score)
           step == [k \in 1..N |-> [list \in D |-> Inserted(scores[k], list)]]
           none == <<>>
<1>1. N \in Nat /\ \A k \in 1..N : scores[k] \in Score
  BY ListFacts
<1>2. none \in D
  OBVIOUS
<1>3. StaysIn(D, step, N)
  <2>1. \A k \in 1..N : \A list \in Seq(Score) : Inserted(scores[k], list) \in Seq(Score)
    BY <1>1, InsertedAt
  <2>2. QED
    BY <2>1 DEF StaysIn
<1> HIDE DEF N, D, step, none
<1>4. PICK g : Iteration(g, D, none, step, N)
  BY <1>1, <1>2, <1>3, Iterates
<1> DEFINE h == [k \in 0..N |-> g[k]]
<1>5. ASSUME NEW k \in 0..N
      PROVE  h[k] = IF k = 0 THEN none ELSE Inserted(scores[k], h[k - 1])
  <2>1. CASE k = 0
    BY <1>1, <1>4, <2>1 DEF Iteration
  <2>2. CASE k # 0
    <3>1. k \in 1..N /\ k - 1 \in 0..N
      BY <1>1, <2>2
    <3>2. g[k - 1] \in D /\ g[k] = step[k][g[k - 1]]
      BY <1>4, <3>1 DEF Iteration
    <3>3. step[k][g[k - 1]] = Inserted(scores[k], g[k - 1])
      BY <3>1, <3>2 DEF step
    <3>4. QED
      BY <2>2, <3>1, <3>2, <3>3
  <2>3. QED
    BY <2>1, <2>2
<1>6. h = [k \in 0..N |-> h[k]]
  OBVIOUS
<1> HIDE DEF h
<1>7. IsInsertionSort(h, scores)
  BY <1>5, <1>6 DEF IsInsertionSort, N, none
<1>8. QED
  BY <1>7

\* Whatever the order of their arrival, scores of different routes are ranked by risk.
LEMMA AggregatedRanks ==
  ASSUME NEW scores \in Seq(Score),
         \A i, j \in 1..Len(scores) : i # j => scores[i].route # scores[j].route
  PROVE  Ranked(Aggregated(scores), scores, Len(scores))
<1> DEFINE N == Len(scores)
           sorted == CHOOSE sorted : IsInsertionSort(sorted, scores)
           T == {k \in 0..N : Ranked(sorted[k], scores, k)}
<1>1. N \in Nat /\ \A k \in 1..N : scores[k] \in Score
  BY ListFacts
<1>2. Aggregated(scores) = sorted[N]
  BY DEF Aggregated, IsInsertionSort
<1>3. IsInsertionSort(sorted, scores)
  BY SortExists
<1> HIDE DEF sorted
<1>4. sorted[0] = <<>> /\ \A k \in 1..N : sorted[k] = Inserted(scores[k], sorted[k - 1])
  BY <1>1, <1>3 DEF IsInsertionSort
<1> HIDE DEF N
<1>5. 0 \in T
  <2> DEFINE none == <<>>
  <2>1. none \in Seq(Score) /\ Len(none) = 0 /\ sorted[0] = none
    BY <1>4
  <2> HIDE DEF none
  <2>2. Sorted(none)
    BY <2>1 DEF Sorted
  <2>3. Ranked(sorted[0], scores, 0)
    BY <2>1, <2>2 DEF Ranked
  <2>4. QED
    BY <1>1, <2>3
<1>6. ASSUME NEW k \in 1..N, k - 1 \in T
      PROVE  k \in T
  <2>1. k \in Nat \ {0} /\ k \in 0..N /\ Ranked(sorted[k - 1], scores, k - 1)
    BY <1>1, <1>6
  <2>2. \A m \in 1..(k - 1) : scores[m].route # scores[k].route
    BY <1>1 DEF N
  <2>3. Ranked(Inserted(scores[k], sorted[k - 1]), scores, k)
    BY <1>1, <2>1, <2>2, InsertionRanks
  <2>4. QED
    BY <1>4, <2>1, <2>3
<1> HIDE DEF T
<1>7. \A k \in 0..N : k \in T
  BY <1>1, <1>5, <1>6, Upwards
<1>8. N \in T
  BY <1>1, <1>7
<1>9. QED
  BY <1>2, <1>8 DEF N, T

-----------------------------------------------------------------------------
(* The shortest way is a number, and so are the points of an interception. *)

Item == [region : Region, cost : Nat]
Search == [dist : SUBSET Item, heap : SUBSET Item, answer : Int]

LEMMA AcrossType ==
  ASSUME NEW r \in Region, NEW p \in Path
  PROVE  Across(p, r) \in Region /\ PathConfig[p].cost \in Nat \ {0}
BY MapAssumption DEF Across

LEMMA PoppedIsLeast ==
  ASSUME NEW heap \in SUBSET Item, heap # {}
  PROVE  Popped(heap) \in heap /\ \A other \in heap : Popped(heap).cost <= other.cost
<1> DEFINE T == {item.cost : item \in heap}
<1>1. T \in SUBSET Nat /\ T # {}
  BY DEF Item
<1>2. PICK c \in T : \A d \in T : c <= d
  BY <1>1, LeastNumber
<1>3. \E item \in heap : \A other \in heap : item.cost <= other.cost
  BY <1>2
<1>4. QED
  BY <1>3 DEF Popped

\* What Round puts on the heap.
Relaxed(s) ==
  LET item == Popped(s.heap)
      onward == {[region |-> Across(p, item.region), cost |-> item.cost + PathConfig[p].cost] :
                   p \in Edges(item.region)}
  IN {i \in onward : \A j \in s.dist \cup onward : i.region = j.region => i.cost <= j.cost} \ s.dist

LEMMA RelaxedType ==
  ASSUME NEW s \in Search, s.heap # {}
  PROVE  Relaxed(s) \in SUBSET Item
<1>1. Popped(s.heap) \in Item
  BY PoppedIsLeast DEF Search
<1>2. ASSUME NEW p \in Edges(Popped(s.heap).region)
      PROVE  [region |-> Across(p, Popped(s.heap).region), cost |-> Popped(s.heap).cost + PathConfig[p].cost] \in Item
  <2>1. Popped(s.heap).region \in Region /\ Popped(s.heap).cost \in Nat /\ p \in Path
    BY <1>1, <1>2 DEF Item, Edges
  <2>2. Across(p, Popped(s.heap).region) \in Region /\ PathConfig[p].cost \in Nat
    BY <2>1, AcrossType
  <2>3. Popped(s.heap).cost + PathConfig[p].cost \in Nat
    BY <2>1, <2>2
  <2>4. QED
    BY <2>2, <2>3 DEF Item
<1>3. QED
  BY <1>2 DEF Relaxed

LEMMA RoundIs ==
  ASSUME NEW s \in Search, NEW dst
  PROVE  Round(s, dst) =
           IF Popped(s.heap).region = dst THEN [s EXCEPT !.answer = Popped(s.heap).cost]
           ELSE IF Popped(s.heap) \notin s.dist THEN [s EXCEPT !.heap = s.heap \ {Popped(s.heap)}]
           ELSE [s EXCEPT !.heap = (s.heap \ {Popped(s.heap)}) \cup Relaxed(s),
                          !.dist = {d \in s.dist : \A i \in Relaxed(s) : i.region # d.region} \cup Relaxed(s)]
BY DEF Round, Relaxed, Search

LEMMA RoundType ==
  ASSUME NEW s \in Search, s.heap # {}, NEW dst
  PROVE  Round(s, dst) \in Search
<1>1. Popped(s.heap).cost \in Int
  BY PoppedIsLeast DEF Search, Item
<1>2. Relaxed(s) \in SUBSET Item
  BY RelaxedType
<1> DEFINE rest == s.heap \ {Popped(s.heap)}
           dist == {d \in s.dist : \A i \in Relaxed(s) : i.region # d.region} \cup Relaxed(s)
           cost == Popped(s.heap).cost
<1>3. /\ s.heap \in SUBSET Item /\ s.dist \in SUBSET Item /\ s.answer \in Int
      /\ s = [dist |-> s.dist, heap |-> s.heap, answer |-> s.answer]
  BY DEF Search
<1>4. rest \in SUBSET Item /\ rest \cup Relaxed(s) \in SUBSET Item /\ dist \in SUBSET Item
  BY <1>2, <1>3
<1>5. Round(s, dst) \in {[s EXCEPT !.answer = cost], [s EXCEPT !.heap = rest],
                         [s EXCEPT !.heap = rest \cup Relaxed(s), !.dist = dist]}
  BY RoundIs
<1> HIDE DEF rest, dist, cost
<1>6. \A a \in Int : [s EXCEPT !.answer = a] \in Search
  BY DEF Search
<1>7. \A h, d \in SUBSET Item : [s EXCEPT !.heap = h] \in Search /\ [s EXCEPT !.heap = h, !.dist = d] \in Search
  BY DEF Search
<1>8. QED
  BY <1>1, <1>2, <1>4, <1>5, <1>6, <1>7 DEF cost

\* One step of the loop, which ends with an answer or an empty heap.
Searched(s, dst) == IF s.answer >= 0 \/ s.heap = {} THEN s ELSE Round(s, dst)

Start(src) ==
  [dist |-> {[region |-> src, cost |-> 0]}, heap |-> {[region |-> src, cost |-> 0]}, answer |-> -1]

Rounds == 2 * Cardinality(Path) + 1

IsSearch(run, src, dst) ==
  run = [k \in 0..Rounds |-> IF k = 0 THEN Start(src) ELSE Searched(run[k - 1], dst)]

LEMMA StartType ==
  ASSUME NEW src \in Region
  PROVE  Start(src) \in Search
<1> DEFINE zero == 0
           item == [region |-> src, cost |-> zero]
           none == -1
<1>1. zero \in Nat /\ none \in Int
  OBVIOUS
<1> HIDE DEF zero, none
<1>2. item \in Item
  BY <1>1 DEF Item
<1> HIDE DEF item
<1>3. [dist |-> {item}, heap |-> {item}, answer |-> none] \in Search
  BY <1>1, <1>2 DEF Search
<1>4. QED
  BY <1>3 DEF Start, item, zero, none

LEMMA RoundsType == Rounds \in Nat
<1>1. Cardinality(Path) \in Nat
  BY MapAssumption, FS_CardinalityType
<1>2. QED
  BY <1>1 DEF Rounds

LEMMA SearchRuns ==
  ASSUME NEW src \in Region, NEW dst
  PROVE  \E run : IsSearch(run, src, dst) /\ \A k \in 0..Rounds : run[k] \in Search
<1> DEFINE N == Rounds
           D == Search
           b == Start(src)
           step == [k \in 1..N |-> [s \in D |-> Searched(s, dst)]]
<1>1. N \in Nat /\ b \in D
  BY RoundsType, StartType
<1>2. \A s \in Search : Searched(s, dst) \in Search
  BY RoundType DEF Searched
<1>3. StaysIn(D, step, N)
  BY <1>2 DEF StaysIn
<1> HIDE DEF N, D, step, b
<1>4. PICK g : Iteration(g, D, b, step, N)
  BY <1>1, <1>3, Iterates
<1> DEFINE h == [k \in 0..N |-> g[k]]
<1>5. ASSUME NEW k \in 0..N
      PROVE  h[k] = (IF k = 0 THEN b ELSE Searched(h[k - 1], dst)) /\ h[k] \in D
  <2>1. CASE k = 0
    BY <1>1, <1>4, <2>1 DEF Iteration
  <2>2. CASE k # 0
    <3>1. k \in 1..N /\ k - 1 \in 0..N
      BY <1>1, <2>2
    <3>2. g[k - 1] \in D /\ g[k] = step[k][g[k - 1]] /\ g[k] \in D
      BY <1>4, <3>1 DEF Iteration
    <3>3. step[k][g[k - 1]] = Searched(g[k - 1], dst)
      BY <3>1, <3>2 DEF step
    <3>4. QED
      BY <2>2, <3>1, <3>2, <3>3
  <2>3. QED
    BY <2>1, <2>2
<1>6. h = [k \in 0..N |-> h[k]]
  OBVIOUS
<1> HIDE DEF h
<1>7. IsSearch(h, src, dst) /\ \A k \in 0..N : h[k] \in D
  BY <1>5, <1>6 DEF IsSearch, N, b
<1>8. QED
  BY <1>7 DEF N, D

\* The steps of the search that ShortestTurns makes.
LEMMA SearchOf ==
  ASSUME NEW src \in Region, NEW dst
  PROVE  \E run : /\ ShortestTurns(src, dst) = run[Rounds].answer
                  /\ run[0] = Start(src)
                  /\ \A k \in 1..Rounds : run[k] = Searched(run[k - 1], dst)
                  /\ \A k \in 0..Rounds : run[k] \in Search
<1> DEFINE run == CHOOSE run : IsSearch(run, src, dst)
           T == {k \in 0..Rounds : run[k] \in Search}
<1>1. ShortestTurns(src, dst) = run[Rounds].answer
  BY DEF ShortestTurns, IsSearch, Searched, Start, Rounds
<1>2. IsSearch(run, src, dst)
  BY SearchRuns
<1> HIDE DEF run
<1>3. run[0] = Start(src) /\ \A k \in 1..Rounds : run[k] = Searched(run[k - 1], dst)
  BY <1>2, RoundsType DEF IsSearch
<1>4. 0 \in T
  BY <1>3, RoundsType, StartType
<1>5. ASSUME NEW k \in 1..Rounds, k - 1 \in T
      PROVE  k \in T
  BY <1>3, <1>5, RoundsType, RoundType DEF Searched
<1> HIDE DEF T
<1>6. \A k \in 0..Rounds : k \in T
  BY <1>4, <1>5, RoundsType, Upwards
<1>7. \A k \in 0..Rounds : run[k] \in Search
  BY <1>6 DEF T
<1>8. QED
  BY <1>1, <1>3, <1>7

LEMMA ShortestIsNumber ==
  ASSUME NEW src \in Region, NEW dst
  PROVE  ShortestTurns(src, dst) \in Int
<1>1. PICK run : /\ ShortestTurns(src, dst) = run[Rounds].answer
                 /\ \A k \in 0..Rounds : run[k] \in Search
  BY SearchOf
<1>2. run[Rounds] \in Search
  BY <1>1, RoundsType
<1>3. QED
  BY <1>1, <1>2 DEF Search

\* Of the members of A, numbers up to N, one comes first among those that none beats, if
\* beating is asymmetric and not being beaten is transitive.
LEMMA FirstOfTheBest ==
  ASSUME NEW N \in Nat, NEW A \in SUBSET (1..N), A # {}, NEW R,
         \A i, j \in A : <<i, j>> \in R => <<j, i>> \notin R,
         \A i, j, k \in A : <<i, j>> \notin R /\ <<j, k>> \notin R => <<i, k>> \notin R
  PROVE  \E i \in A : \A j \in A : <<j, i>> \notin R /\ (j < i => <<i, j>> \in R)
<1> DEFINE Best(i, m) == i <= m /\ \A j \in A : j <= m => <<j, i>> \notin R /\ (j < i => <<i, j>> \in R)
           T == {m \in 0..N : (\E i \in A : i <= m) => \E i \in A : Best(i, m)}
<1>1. 0 \in T
  OBVIOUS
<1>2. ASSUME NEW m \in 1..N, m - 1 \in T
      PROVE  m \in T
  <2>1. SUFFICES ASSUME \E i \in A : i <= m
                 PROVE  \E i \in A : Best(i, m)
    OBVIOUS
  <2>2. CASE m \notin A
    <3>1. \A i \in A : i <= m <=> i <= m - 1
      BY <2>2
    <3>2. PICK i \in A : Best(i, m - 1)
      BY <1>2, <2>1, <3>1
    <3>3. QED
      BY <3>1, <3>2
  <2>3. CASE m \in A /\ ~ \E i \in A : i <= m - 1
    <3>1. \A j \in A : j <= m => j = m
      BY <2>3
    <3>2. Best(m, m)
      BY <2>3, <3>1
    <3>3. QED
      BY <2>3, <3>2
  <2>4. CASE m \in A /\ \E i \in A : i <= m - 1
    <3>1. PICK i \in A : Best(i, m - 1)
      BY <1>2, <2>4
    <3>2. \A j \in A : j <= m => j <= m - 1 \/ j = m
      OBVIOUS
    <3>3. i < m
      BY <3>1
    <3>4. CASE <<m, i>> \in R
      <4>1. <<i, m>> \notin R /\ <<m, m>> \notin R
        BY <2>4, <3>4
      <4>2. ASSUME NEW j \in A, j <= m
            PROVE  <<j, m>> \notin R /\ (j < m => <<m, j>> \in R)
        <5>1. CASE j = m
          BY <4>1, <5>1
        <5>2. CASE j <= m - 1
          <6>1. <<j, i>> \notin R
            BY <3>1, <5>2
          <6>2. QED
            BY <2>4, <3>4, <4>1, <6>1
        <5>3. QED
          BY <3>2, <4>2, <5>1, <5>2
      <4>3. Best(m, m)
        BY <4>2
      <4>4. QED
        BY <2>4, <4>3
    <3>5. CASE <<m, i>> \notin R
      <4>1. Best(i, m)
        BY <3>1, <3>2, <3>3, <3>5
      <4>2. QED
        BY <4>1
    <3>6. QED
      BY <3>4, <3>5
  <2>5. QED
    BY <2>2, <2>3, <2>4
<1>3. \A m \in 0..N : m \in T
  <2> HIDE DEF T
  <2>1. QED
    BY <1>1, <1>2, Upwards
<1>4. N \in T
  <2> HIDE DEF T
  <2>1. QED
    BY <1>3
<1>5. (\E i \in A : i <= N) /\ \A j \in A : j <= N
  <2>1. \A j \in A : j \in 1..N
    OBVIOUS
  <2>2. PICK j : j \in A
    OBVIOUS
  <2>3. QED
    BY <2>1, <2>2
<1>6. PICK i \in A : Best(i, N)
  BY <1>4, <1>5
<1>7. QED
  BY <1>5, <1>6

LEMMA TurnsType ==
  ASSUME NEW route \in Route, NEW k \in 1..Len(RoutePaths[route])
  PROVE  TurnsToReach(route, k) \in Nat
<1> DEFINE turns == [j \in 1..k |-> PathConfig[RoutePaths[route][j]].cost]
<1>1. k \in Nat /\ \A j \in 1..k : RoutePaths[route][j] \in Path
  BY PathsOfRoute
<1>2. turns \in [1..k -> Nat]
  BY <1>1, MapAssumption
<1>3. IsFiniteSet(1..k)
  BY <1>1, FS_Interval
<1> HIDE DEF turns
<1>4. FoldFunction(+, 0, turns) \in Nat
  BY <1>2, <1>3, SumIsNumber
<1>5. QED
  BY <1>4 DEF TurnsToReach, turns

LEMMA PointsType ==
  ASSUME NEW world \in World, NEW nazgul \in Nazgul, world.at[nazgul] # Nowhere, NEW route \in Route,
         NEW k \in 1..Len(RoutePaths[route])
  PROVE  Points(nazgul, route, k, world) \in Nat
<1> DEFINE turns == ShortestTurns(world.at[nazgul], Regions(route)[k])
           length == Len(Regions(route))
           reach == TurnsToReach(route, k)
<1>1. world.at[nazgul] \in Region
  BY DEF World
<1>2. turns \in Int
  BY <1>1, ShortestIsNumber
<1>3. length \in Nat
  BY RegionsType, PathsOfRoute
<1>4. reach \in Nat
  BY TurnsType
<1>5. Points(nazgul, route, k, world) =
        IF turns >= 0 /\ turns <= reach /\ turns < length THEN length - turns ELSE 0
  BY DEF Points
<1> HIDE DEF turns, length, reach
<1>6. QED
  BY <1>2, <1>3, <1>4, <1>5

Chance == [unit : Nazgul, route : Route, points : Nat, length : Nat \ {0}, target : Region \cup {Nowhere}]

\* An interception has numbers: some region of the route comes first among the best.
LEMMA InterceptionType ==
  ASSUME NEW world \in World, NEW nazgul \in Nazgul, world.at[nazgul] # Nowhere, NEW route \in Route
  PROVE  /\ Interception(nazgul, route, world) \in Chance
         /\ Interception(nazgul, route, world).unit = nazgul
<1> DEFINE N == Len(RoutePaths[route])
           points == [k \in 1..N |-> Points(nazgul, route, k, world)]
           regions == Regions(route)
           chances == {[points |-> Points(nazgul, route, k, world), at |-> k] : k \in DOMAIN regions}
           IsBest(c) == \A d \in chances : c.points > d.points \/ (c.points = d.points /\ c.at <= d.at)
           best == CHOOSE c \in chances : IsBest(c)
           R == {p \in (1..N) \X (1..N) : points[p[1]] > points[p[2]]}
<1>1. /\ N \in Nat \ {0} /\ DOMAIN regions = 1..N /\ Len(regions) = N
      /\ \A k \in 1..N : regions[k] \in Region
  BY PathsOfRoute, RegionsType
<1>2. \A k \in 1..N : points[k] \in Nat /\ points[k] = Points(nazgul, route, k, world)
  BY PointsType
<1>3. chances = {[points |-> points[k], at |-> k] : k \in 1..N}
  BY <1>1
<1>4. Interception(nazgul, route, world) =
        [unit |-> nazgul, route |-> route, points |-> best.points, length |-> Len(regions),
         target |-> IF best.points = 0 THEN Nowhere ELSE regions[best.at]]
  BY DEF Interception
<1> HIDE DEF N, points, regions
<1>5. \A i, j \in 1..N : <<i, j>> \in R <=> points[i] > points[j]
  OBVIOUS
<1> HIDE DEF R
<1>6. PICK i \in 1..N : \A j \in 1..N : <<j, i>> \notin R /\ (j < i => <<i, j>> \in R)
  <2>1. 1..N # {} /\ 1..N \in SUBSET (1..N)
    <3>1. 1 \in 1..N
      BY <1>1
    <3>2. QED
      BY <3>1
  <2>2. \A j, k \in 1..N : <<j, k>> \in R => <<k, j>> \notin R
    BY <1>2, <1>5
  <2>3. \A j, k, l \in 1..N : <<j, k>> \notin R /\ <<k, l>> \notin R => <<j, l>> \notin R
    BY <1>2, <1>5
  <2>4. N \in Nat
    BY <1>1
  <2>5. QED
    BY <2>1, <2>2, <2>3, <2>4, FirstOfTheBest
<1>7. \A j \in 1..N : points[i] > points[j] \/ (points[i] = points[j] /\ i <= j)
  <2>1. ASSUME NEW j \in 1..N
        PROVE  points[i] > points[j] \/ (points[i] = points[j] /\ i <= j)
    <3>1. points[i] \in Nat /\ points[j] \in Nat /\ i \in Nat /\ j \in Nat
      BY <1>1, <1>2
    <3>2. ~(points[j] > points[i]) /\ (j < i => points[i] > points[j])
      BY <1>5, <1>6
    <3>3. QED
      BY <3>1, <3>2
  <2>2. QED
    BY <2>1
<1>8. \E c \in chances : IsBest(c)
  <2> DEFINE c == [points |-> points[i], at |-> i]
  <2>1. c \in chances /\ c.points = points[i] /\ c.at = i
    BY <1>3
  <2>2. ASSUME NEW d \in chances
        PROVE  c.points > d.points \/ (c.points = d.points /\ c.at <= d.at)
    <3>1. PICK j \in 1..N : d = [points |-> points[j], at |-> j]
      BY <1>3
    <3>2. d.points = points[j] /\ d.at = j
      BY <3>1
    <3>3. QED
      BY <1>7, <2>1, <3>2
  <2> HIDE DEF c, chances
  <2>3. QED
    BY <2>1, <2>2
<1>9. best \in chances
  <2> HIDE DEF chances, IsBest
  <2>1. QED
    BY <1>8
<1> HIDE DEF best
<1>10. best.points \in Nat /\ regions[best.at] \in Region
  BY <1>1, <1>2, <1>3, <1>9
<1> DEFINE target == IF best.points = 0 THEN Nowhere ELSE regions[best.at]
<1>11. target \in Region \cup {Nowhere}
  BY <1>10
<1> HIDE DEF target
<1>12. Interception(nazgul, route, world) =
         [unit |-> nazgul, route |-> route, points |-> best.points, length |-> N, target |-> target]
  BY <1>1, <1>4 DEF target
<1>13. QED
  BY <1>1, <1>10, <1>11, <1>12 DEF Chance

-----------------------------------------------------------------------------
(* The plan of interceptions.                                              *)

LEMMA Products ==
  /\ \A a, b \in Nat : a * b \in Nat
  /\ \A a, b, c \in Nat : (a * b) * c = a * (b * c) /\ a * b = b * a
  /\ \A a, b, c \in Nat : a <= b => a * c <= b * c
  /\ \A a, b \in Nat : \A c \in Nat \ {0} : a * c <= b * c => a <= b
<1>1. \A a, b \in Nat : a * b \in Nat
  OBVIOUS
<1>2. \A a, b, c \in Nat : (a * b) * c = a * (b * c) /\ a * b = b * a
  OBVIOUS
<1>3. \A a, b, c \in Nat : a <= b => a * c <= b * c
  OBVIOUS
<1>4. \A a, b \in Nat : \A c \in Nat \ {0} : a * c <= b * c => a <= b
  OBVIOUS
<1>5. QED
  BY <1>1, <1>2, <1>3, <1>4

LEMMA BeatsOrders ==
  /\ \A a, b \in Chance : Beats(a, b) => ~Beats(b, a)
  /\ \A a, b, c \in Chance : ~Beats(a, b) /\ ~Beats(b, c) => ~Beats(a, c)
<1>1. \A a \in Chance : a.points \in Nat /\ a.length \in Nat \ {0}
  BY DEF Chance
<1>2. \A a, b \in Chance : a.points * b.length \in Nat
  BY <1>1, Products
<1>3. \A a, b \in Chance : Beats(a, b) => ~Beats(b, a)
  BY <1>2 DEF Beats
<1>4. ASSUME NEW a \in Chance, NEW b \in Chance, NEW c \in Chance, ~Beats(a, b), ~Beats(b, c)
      PROVE  ~Beats(a, c)
  <2> DEFINE p == a.points
             q == b.points
             r == c.points
             l == a.length
             m == b.length
             n == c.length
  <2>1. p \in Nat /\ q \in Nat /\ r \in Nat /\ l \in Nat \ {0} /\ m \in Nat \ {0} /\ n \in Nat \ {0}
    BY <1>1
  <2>2. p * m <= q * l /\ q * n <= r * m
    BY <1>2, <1>4 DEF Beats
  <2>3. Beats(a, c) <=> p * n > r * l
    BY DEF Beats
  <2> HIDE DEF p, q, r, l, m, n
  <2>4. (p * m) * n <= (q * l) * n /\ (q * n) * l <= (r * m) * l
    BY <2>1, <2>2, Products
  <2>5. (q * l) * n = (q * n) * l
    BY <2>1
  <2>6. (p * m) * n = (p * n) * m /\ (r * m) * l = (r * l) * m
    BY <2>1
  <2>7. (p * n) * m <= (r * l) * m
    <3>1. (q * n) * l \in Nat /\ (p * n) * m \in Nat /\ (r * l) * m \in Nat
      BY <2>1, Products
    <3>2. QED
      BY <2>4, <2>5, <2>6, <3>1
  <2>8. p * n <= r * l
    BY <2>1, <2>7, Products
  <2>9. p * n \in Nat /\ r * l \in Nat
    BY <2>1, Products
  <2>10. QED
    BY <2>3, <2>8, <2>9
<1>5. QED
  BY <1>3, <1>4

\* The plan has one chance of each unit that has any, and none of the unit beats it.
LEMMA PlanIsBest ==
  ASSUME NEW N \in Nat, NEW scores, DOMAIN scores = 1..N, \A k \in 1..N : scores[k] \in Chance
  PROVE  /\ \A a, b \in Plan(scores) : a.unit = b.unit => a = b
         /\ \A a \in Plan(scores) : \E k \in 1..N : a = scores[k]
         /\ \A k \in 1..N : \E a \in Plan(scores) : a.unit = scores[k].unit
         /\ \A a \in Plan(scores) : \A k \in 1..N : scores[k].unit = a.unit => ~Beats(scores[k], a)
<1> DEFINE Chosen(i) ==
             \A j \in 1..N : scores[j].unit = scores[i].unit =>
               ~Beats(scores[j], scores[i]) /\ (j < i => Beats(scores[i], scores[j]))
<1>1. \A a : a \in Plan(scores) <=> \E i \in 1..N : a = scores[i] /\ Chosen(i)
  BY DEF Plan
<1>2. ASSUME NEW i \in 1..N, NEW j \in 1..N, Chosen(i), Chosen(j), scores[i].unit = scores[j].unit
      PROVE  i = j
  <2>1. i \in Nat /\ j \in Nat
    OBVIOUS
  <2>2. ~(j < i) /\ ~(i < j)
    BY <1>2
  <2>3. QED
    BY <2>1, <2>2
<1>3. ASSUME NEW k \in 1..N
      PROVE  \E i \in 1..N : scores[i].unit = scores[k].unit /\ Chosen(i)
  <2> DEFINE A == {i \in 1..N : scores[i].unit = scores[k].unit}
             R == {p \in (1..N) \X (1..N) : Beats(scores[p[1]], scores[p[2]])}
  <2>1. \A i, j \in 1..N : <<i, j>> \in R <=> Beats(scores[i], scores[j])
    OBVIOUS
  <2> HIDE DEF R
  <2>2. A \in SUBSET (1..N) /\ A # {}
    OBVIOUS
  <2>3. \A i \in A : i \in 1..N /\ scores[i] \in Chance
    OBVIOUS
  <2>4. \A i, j \in A : <<i, j>> \in R => <<j, i>> \notin R
    BY <2>1, <2>3, BeatsOrders
  <2>5. \A i, j, l \in A : <<i, j>> \notin R /\ <<j, l>> \notin R => <<i, l>> \notin R
    BY <2>1, <2>3, BeatsOrders
  <2>6. PICK i \in A : \A j \in A : <<j, i>> \notin R /\ (j < i => <<i, j>> \in R)
    <3> HIDE DEF A
    <3>1. QED
      BY <2>2, <2>4, <2>5, FirstOfTheBest
  <2>7. Chosen(i)
    BY <2>1, <2>6
  <2>8. QED
    BY <2>7
<1>4. \A i \in 1..N : Chosen(i) => \A k \in 1..N : scores[k].unit = scores[i].unit => ~Beats(scores[k], scores[i])
  OBVIOUS
<1> HIDE DEF Chosen
<1>5. \A a, b \in Plan(scores) : a.unit = b.unit => a = b
  BY <1>1, <1>2
<1>6. \A a \in Plan(scores) : \E k \in 1..N : a = scores[k]
  BY <1>1
<1>7. \A k \in 1..N : \E a \in Plan(scores) : a.unit = scores[k].unit
  BY <1>1, <1>3
<1>8. \A a \in Plan(scores) : \A k \in 1..N : scores[k].unit = a.unit => ~Beats(scores[k], a)
  BY <1>1, <1>4
<1>9. QED
  BY <1>5, <1>6, <1>7, <1>8

-----------------------------------------------------------------------------
(* While the context lasts a stage ends only after the one before it, with *)
(* nothing left.                                                           *)

StagesInv ==
  running /\ ~expired =>
    /\ ~feeding => toFeed = {}
    /\ \A w \in Worker : w \notin carrying => carried[w] = {} /\ workCh = {} /\ ~feeding
    /\ \A w \in Worker : w \notin working => w \notin carrying

LEMMA StagesStep ==
  ASSUME WorkTypes, StagesInv, [Next]_vars
  PROVE  StagesInv'
<1> USE DEF WorkTypes
<1>1. CASE UNCHANGED <<running, expired, toFeed, feeding, workCh, carried, carrying, working>>
  BY <1>1 DEF StagesInv
<1>2. CASE Compute
  BY <1>2 DEF Compute, StagesInv
<1>3. CASE Expire
  BY <1>3 DEF Expire, StagesInv
<1>4. CASE Feed
  BY <1>4 DEF Feed, StagesInv, job, carriers, workers
<1>5. CASE FeederEnds
  BY <1>5 DEF FeederEnds, StagesInv, job, carriers, workers
<1>6. ASSUME NEW w \in Worker, Carry(w)
      PROVE  StagesInv'
  <2>1. workCh # {} /\ w \in carrying /\ workCh' \subseteq workCh
    BY <1>6 DEF Carry
  <2>2. UNCHANGED <<running, expired, toFeed, feeding, carrying, working>>
    BY <1>6 DEF Carry, job, feeder, workers
  <2>3. QED
    BY <2>1, <2>2 DEF StagesInv
<1>7. ASSUME NEW w \in Worker, CarrierEnds(w)
      PROVE  StagesInv'
  <2>1. /\ expired \/ (carried[w] = {} /\ workCh = {} /\ ~feeding)
        /\ carrying' = carrying \ {w}
        /\ UNCHANGED <<running, expired, toFeed, feeding, workCh, working>>
    BY <1>7 DEF CarrierEnds, job, feeder, workers
  <2>2. carried'[w] = {} /\ \A v \in Worker \ {w} : carried'[v] = carried[v]
    BY <1>7 DEF CarrierEnds
  <2>3. QED
    BY <2>1, <2>2 DEF StagesInv
<1>8. ASSUME NEW w \in Worker, HandOver(w)
      PROVE  StagesInv'
  <2>1. UNCHANGED <<running, expired, toFeed, feeding, workCh, carrying, working>>
    BY <1>8 DEF HandOver, job, feeder
  <2>2. carried'[w] = {} /\ \A v \in Worker \ {w} : carried'[v] = carried[v]
    BY <1>8 DEF HandOver
  <2>3. QED
    BY <2>1, <2>2 DEF StagesInv
<1>9. ASSUME NEW w \in Worker, Deliver(w)
      PROVE  StagesInv'
  BY <1>1, <1>9 DEF Deliver, job, feeder, carriers
<1>10. ASSUME NEW w \in Worker, WorkerEnds(w)
       PROVE  StagesInv'
  <2>1. /\ expired \/ w \notin carrying
        /\ working' = working \ {w}
        /\ UNCHANGED <<running, expired, toFeed, feeding, workCh, carried, carrying>>
    BY <1>10 DEF WorkerEnds, job, feeder, carriers
  <2>2. QED
    BY <2>1 DEF StagesInv
<1>11. CASE Return
  BY <1>11 DEF Return, StagesInv
<1>12. CASE Close
  BY <1>1, <1>12 DEF Close, job, feeder, carriers, workers
<1>13. CASE UNCHANGED vars
  BY <1>1, <1>13 DEF vars, job, feeder, carriers, workers
<1>14. ASSUME NEW r \in Request, Trigger(r) \/ Result(r) \/ GiveUp(r)
       PROVE  StagesInv'
  BY <1>1, <1>14 DEF Trigger, Result, GiveUp, job, feeder, carriers, workers
<1>15. QED
  BY <1>2, <1>3, <1>4, <1>5, <1>6, <1>7, <1>8, <1>9, <1>10, <1>11, <1>12, <1>13, <1>14 DEF Next, Goroutines

-----------------------------------------------------------------------------
(* A result holds scores of different work, and of all of it if the        *)
(* context lasted.                                                         *)

WorkOf(what, world) == IF what = "routes" THEN Route ELSE {n \in Nazgul : world.at[n] # Nowhere} \X Route

Complete(what, result) ==
  /\ result.world \in Worlds
  /\ result.scored \in Seq(WorkOf(what, result.world))
  /\ \A j, k \in 1..Len(result.scored) : result.scored[j] = result.scored[k] => j = k
  /\ ~result.cut => \A work \in WorkOf(what, result.world) : \E k \in 1..Len(result.scored) : result.scored[k] = work

CompleteInv == resultCh # <<>> => resultCh = <<resultCh[1]>> /\ Complete(kind, resultCh[1])

LEMMA CompleteStep ==
  ASSUME QueueTypes, WorkTypes, WorkersInv, OnceInv, StagesInv, CompleteInv, [Next]_vars
  PROVE  CompleteInv'
<1>1. CASE UNCHANGED <<kind, resultCh>>
  BY <1>1 DEF CompleteInv
<1>2. ASSUME NEW r \in Request, Result(r)
      PROVE  CompleteInv'
  BY <1>2 DEF Result, CompleteInv
<1>3. CASE Return
  <2>1. running /\ ~open /\ kind' = kind
    BY <1>3 DEF Return
  <2>2. CASE resultCh # <<>>
    BY <1>1, <1>3, <2>2 DEF Return
  <2>3. CASE resultCh = <<>>
    <3>1. PICK result : result = [job |-> jobs, world |-> snap, cut |-> expired, scored |-> scored]
      OBVIOUS
    <3>2. result.world = snap /\ result.cut = expired /\ result.scored = scored
      BY <3>1
    <3>3. WorkOf(kind, snap) = Work
      BY DEF WorkOf, Work
    <3>4. Apart /\ (~expired => \A work \in Work : Somewhere(work))
      BY <2>1 DEF OnceInv
    <3>5. ASSUME ~expired, NEW work \in Work
          PROVE  \E k \in 1..Len(scored) : scored[k] = work
      <4>1. working = {} /\ \A w \in Worker : scoring[w] = {}
        BY <2>1 DEF WorkersInv
      <4>2. carrying = {} /\ \A w \in Worker : carried[w] = {}
        BY <2>1, <3>5, <4>1 DEF StagesInv, WorkTypes
      <4>3. toFeed = {} /\ workCh = {}
        BY <2>1, <3>5, <4>2, AnalysisAssumption DEF StagesInv
      <4>4. QED
        BY <3>4, <3>5, <4>1, <4>2, <4>3 DEF Somewhere
    <3>6. snap \in Worlds /\ scored \in Seq(Work)
      BY DEF QueueTypes, WorkTypes
    <3>7. \A j, k \in 1..Len(scored) : scored[j] = scored[k] => j = k
      BY <3>4 DEF Apart
    <3>8. Complete(kind, result)
      BY <3>2, <3>3, <3>5, <3>6, <3>7 DEF Complete
    <3>9. resultCh' = <<result>>
      BY <1>3, <2>3, <3>1 DEF Return
    <3>10. QED
      BY <2>1, <3>8, <3>9 DEF CompleteInv
  <2>4. QED
    BY <2>2, <2>3
<1>4. CASE Compute
  BY <1>1, <1>4 DEF Compute
<1>5. CASE UNCHANGED vars
  BY <1>1, <1>5 DEF vars, channels, job
<1>6. ASSUME NEW r \in Request, Trigger(r) \/ GiveUp(r)
      PROVE  CompleteInv'
  BY <1>1, <1>6 DEF Trigger, GiveUp, job, channels
<1>7. CASE Expire \/ Feed \/ FeederEnds \/ Close
  BY <1>1, <1>7 DEF Expire, Feed, FeederEnds, Close, channels, job
<1>8. ASSUME NEW w \in Worker, Carry(w) \/ CarrierEnds(w) \/ HandOver(w) \/ Deliver(w) \/ WorkerEnds(w)
      PROVE  CompleteInv'
  BY <1>1, <1>8 DEF Carry, CarrierEnds, HandOver, Deliver, WorkerEnds, channels, job
<1>9. QED
  BY <1>2, <1>3, <1>4, <1>5, <1>6, <1>7, <1>8 DEF Next, Goroutines

LEMMA RoutesRanked ==
  ASSUME NEW result, kind = "routes", Complete(kind, result)
  PROVE  SafestFirst(Answer(result), result)
<1> DEFINE N == Len(result.scored)
           Risk(k) == RouteRisk(result.scored[k], result.world)
           scores == [k \in DOMAIN result.scored |-> ScoreOf(result.scored[k], result.world)]
<1>1. /\ result.world \in World /\ result.scored \in Seq(Route)
      /\ \A j, k \in 1..N : result.scored[j] = result.scored[k] => j = k
      /\ ~result.cut => \A work \in Route : \E k \in 1..N : result.scored[k] = work
  BY AnalysisAssumption DEF Complete, WorkOf
<1>2. /\ N \in Nat /\ DOMAIN result.scored = 1..N /\ result.scored \in [1..N -> Route]
      /\ \A k \in 1..N : result.scored[k] \in Route
  BY <1>1, LenProperties, ElementOfSeq
<1>3. Answer(result) = Aggregated(scores)
  BY DEF Answer
<1>4. scores = [k \in 1..N |-> [route |-> result.scored[k], risk |-> Risk(k)]]
  BY <1>2 DEF ScoreOf
<1>5. \A k \in 1..N : Risk(k) \in Nat
  BY <1>1, <1>2, RiskIsNumber
<1> HIDE DEF N, scores, Risk
<1>6. /\ scores \in [1..N -> Score]
      /\ \A k \in 1..N : scores[k].route = result.scored[k] /\ scores[k].risk = Risk(k)
  BY <1>2, <1>4, <1>5 DEF Score
<1>7. scores \in Seq(Score) /\ Len(scores) = N
  <2>1. scores \in Seq(Score)
    BY <1>2, <1>6, SeqDef
  <2>2. DOMAIN scores = 1..N /\ DOMAIN scores = 1..Len(scores) /\ Len(scores) \in Nat
    BY <1>6, <2>1, LenProperties
  <2>3. QED
    BY <1>2, <2>1, <2>2
<1>8. \A i, j \in 1..Len(scores) : i # j => scores[i].route # scores[j].route
  BY <1>1, <1>6, <1>7 DEF N
<1> DEFINE list == Aggregated(scores)
<1>9. Ranked(list, scores, N)
  BY <1>7, <1>8, AggregatedRanks
<1> HIDE DEF list
<1>10. Sorted(list) /\ DOMAIN list = 1..N /\ Len(list) = N /\ \A i \in 1..N : \E m \in 1..N : list[i] = scores[m]
  BY <1>9, ListFacts DEF Ranked
<1>11. \A k \in 1..N : list[k].risk = RouteRisk(list[k].route, result.world)
  BY <1>6, <1>10 DEF Risk
<1>12. ~result.cut => N = Cardinality(Route)
  <2>1. ASSUME ~result.cut
        PROVE  result.scored \in Bijection(1..N, Route)
    BY <1>1, <1>2, <2>1 DEF N, Bijection, Injection, Surjection, IsInjective
  <2>2. ~result.cut => ExistsBijection(1..N, Route)
    BY <2>1 DEF ExistsBijection
  <2>3. IsFiniteSet(1..N) /\ Cardinality(1..N) = N
    BY <1>2, FS_Interval
  <2>4. QED
    BY <2>2, <2>3, FS_Bijection
<1>13. \A i, j \in DOMAIN list : i < j => list[i].risk <= list[j].risk /\ list[i].route # list[j].route
  BY <1>10 DEF Sorted
<1>14. SafestFirst(list, result)
  BY <1>10, <1>11, <1>12, <1>13 DEF SafestFirst
<1>15. QED
  BY <1>3, <1>14 DEF list

LEMMA ChancesBest ==
  ASSUME NEW result, kind = "intercept", Complete(kind, result)
  PROVE  BestChances(Answer(result), result)
<1> DEFINE N == Len(result.scored)
           active == {n \in Nazgul : result.world.at[n] # Nowhere}
           scores == [k \in DOMAIN result.scored |-> ScoreOf(result.scored[k], result.world)]
           Chances(k) == Interception(result.scored[k][1], result.scored[k][2], result.world)
<1>1. /\ result.world \in World /\ result.scored \in Seq(active \X Route)
      /\ ~result.cut => \A work \in active \X Route : \E k \in 1..N : result.scored[k] = work
  BY AnalysisAssumption DEF Complete, WorkOf
<1> HIDE DEF active
<1>2. /\ N \in Nat /\ DOMAIN result.scored = 1..N
      /\ \A k \in 1..N : result.scored[k] \in active \X Route
  BY <1>1, LenProperties, ElementOfSeq
<1>3. \A k \in 1..N : result.scored[k][1] \in active /\ result.scored[k][2] \in Route
  BY <1>2
<1>4. Answer(result) = Plan(scores)
  BY DEF Answer
<1>5. DOMAIN scores = 1..N /\ \A k \in 1..N : scores[k] = Chances(k)
  BY <1>2 DEF ScoreOf
<1>6. ASSUME NEW k \in 1..N
      PROVE  scores[k] \in Chance /\ scores[k].unit = result.scored[k][1]
  <2>1. result.scored[k][1] \in Nazgul /\ result.world.at[result.scored[k][1]] # Nowhere
    BY <1>3 DEF active
  <2>2. Chances(k) \in Chance /\ Chances(k).unit = result.scored[k][1]
    BY <1>1, <1>3, <2>1, InterceptionType
  <2>3. scores[k] = Chances(k)
    BY <1>5
  <2>4. QED
    BY <2>2, <2>3
<1> HIDE DEF N, scores
<1>7. /\ \A a, b \in Plan(scores) : a.unit = b.unit => a = b
      /\ \A a \in Plan(scores) : \E k \in 1..N : a = scores[k]
      /\ \A k \in 1..N : \E a \in Plan(scores) : a.unit = scores[k].unit
      /\ \A a \in Plan(scores) : \A k \in 1..N : scores[k].unit = a.unit => ~Beats(scores[k], a)
  BY <1>2, <1>5, <1>6, PlanIsBest
<1>8. \A a \in Plan(scores) : a.unit \in active
  BY <1>3, <1>6, <1>7
<1>9. ASSUME ~result.cut
      PROVE  {a.unit : a \in Plan(scores)} = active
  <2>1. ASSUME NEW n \in active
        PROVE  \E a \in Plan(scores) : a.unit = n
    <3>1. PICK route : route \in Route
      BY MapAssumption
    <3>2. PICK k \in 1..N : result.scored[k] = <<n, route>>
      BY <1>1, <1>9, <3>1 DEF N
    <3>3. QED
      BY <1>6, <1>7, <3>2
  <2>2. QED
    BY <1>8, <2>1
<1>10. ASSUME ~result.cut, NEW a \in Plan(scores), NEW route \in Route
       PROVE  ~Beats(Interception(a.unit, route, result.world), a)
  <2>1. PICK k \in 1..N : result.scored[k] = <<a.unit, route>>
    BY <1>1, <1>8, <1>10 DEF N
  <2>2. scores[k] = Interception(a.unit, route, result.world) /\ scores[k].unit = a.unit
    BY <1>5, <1>6, <2>1
  <2>3. QED
    BY <1>7, <2>2
<1>11. QED
  BY <1>4, <1>7, <1>9, <1>10 DEF BestChances, active

\* In whatever order the scores arrive, and however the goroutines interleave, a result that was
\* not cut short ranks all routes of one snapshot by their risk, or gives each active Nazgul its best
\* interception, for any map, any routes and any number of workers.
THEOREM AnswersAreRight == Spec => []AnswerIsRight
<1>1. Init => StagesInv /\ CompleteInv /\ OnceInv
  BY DEF Init, StagesInv, CompleteInv, OnceInv
<1>2. CompleteInv /\ QueueTypes => AnswerIsRight
  <2>1. CASE resultCh = <<>>
    BY <2>1 DEF AnswerIsRight, Range
  <2>2. ASSUME NEW result, resultCh = <<result>>, Complete(kind, result), QueueTypes
        PROVE  AnswerIsRight
    <3>1. Range(resultCh) = {result}
      BY <2>2 DEF Range
    <3>2. kind \in {"routes", "intercept"}
      BY <2>2 DEF QueueTypes
    <3>3. IF kind = "routes" THEN SafestFirst(Answer(result), result) ELSE BestChances(Answer(result), result)
      BY <2>2, <3>2, RoutesRanked, ChancesBest
    <3>4. QED
      BY <3>1, <3>3 DEF AnswerIsRight
  <2>3. QED
    BY <2>1, <2>2 DEF CompleteInv
<1>3. QED
  BY <1>1, <1>2, TypesInit, WorkersInit, QueueTypesStep, WorkTypesStep, WorkersStep, OnceStep,
     StagesStep, CompleteStep, PTL DEF Spec

-----------------------------------------------------------------------------
(* The shortest ways.  A walk is a chain of paths with the regions it      *)
(* comes to and what it has cost by then.                                  *)

Takes(iter, f, S) == \A s \in SUBSET S : \A x \in s : iter[s] = f[x] + iter[s \ {x}]

\* The order in which a sum is taken does not matter.
LEMMA SumTakes ==
  ASSUME NEW S, IsFiniteSet(S), NEW f \in [S -> Nat], NEW iter, IsSum(iter, f, S)
  PROVE  Takes(iter, f, S)
<1> DEFINE N == Cardinality(S)
           Adds(s) == \A x \in s : iter[s] = f[x] + iter[s \ {x}]
           T == {k \in 0..N : \A s \in SUBSET S : Cardinality(s) = k => Adds(s)}
<1>1. \A s \in SUBSET S : iter[s] = IF s = {} THEN 0 ELSE f[Taken(s)] + iter[s \ {Taken(s)}]
  BY DEF IsSum
<1>2. \A s \in SUBSET S : iter[s] \in Nat
  BY PartialSums
<1>3. N \in Nat /\ \A s \in SUBSET S : IsFiniteSet(s) /\ Cardinality(s) \in 0..N
  BY FS_CardinalityType, FS_Subset
<1> HIDE DEF N
<1>4. 0 \in T
  <2>1. \A s \in SUBSET S : Cardinality(s) = 0 => s = {}
    BY <1>3, FS_EmptySet
  <2>2. iter[{}] = 0
    BY <1>1
  <2>3. QED
    BY <1>3, <2>1, <2>2
<1>5. ASSUME NEW k \in 1..N, k - 1 \in T
      PROVE  k \in T
  <2>1. ASSUME NEW s \in SUBSET S, Cardinality(s) = k
        PROVE  Adds(s)
    <3> DEFINE t == Taken(s)
    <3>1. s # {} /\ IsFiniteSet(s)
      BY <1>3, <2>1, FS_EmptySet
    <3>2. t \in s
      BY <3>1, TakenFrom
    <3>3. iter[s] = f[t] + iter[s \ {t}]
      BY <1>1, <3>1
    <3> HIDE DEF t
    <3>4. \A x \in s : s \ {x} \in SUBSET S /\ Cardinality(s \ {x}) = k - 1
      BY <2>1, <3>1, FS_RemoveElement
    <3>5. \A x \in s : Adds(s \ {x})
      <4> HIDE DEF Adds
      <4>1. QED
        BY <1>5, <2>1, <3>4
    <3>6. ASSUME NEW x \in s, x # t
          PROVE  iter[s] = f[x] + iter[s \ {x}]
      <4> DEFINE both == (s \ {t}) \ {x}
      <4>1. both = (s \ {x}) \ {t} /\ both \in SUBSET S
        OBVIOUS
      <4>2. iter[s \ {t}] = f[x] + iter[both]
        BY <3>2, <3>5, <3>6
      <4>3. iter[s \ {x}] = f[t] + iter[both]
        BY <3>2, <3>5, <3>6, <4>1
      <4> HIDE DEF both
      <4>4. iter[both] \in Nat /\ f[x] \in Nat /\ f[t] \in Nat
        BY <1>2, <3>2, <4>1
      <4>5. QED
        BY <3>3, <4>2, <4>3, <4>4
    <3>7. QED
      BY <3>3, <3>6
  <2>2. QED
    BY <2>1
<1> HIDE DEF T
<1>6. \A k \in 0..N : k \in T
  BY <1>3, <1>4, <1>5, Upwards
<1>7. QED
  BY <1>3, <1>6 DEF T, Takes

Walk(c, n, at, spent, src) ==
  /\ n \in Nat /\ c \in [1..n -> Path]
  /\ at[0] = src /\ spent[0] = 0
  /\ \A k \in 0..n : at[k] \in Region /\ spent[k] \in Nat
  /\ \A k \in 1..n : /\ c[k] \in Edges(at[k - 1])
                     /\ at[k] = Across(c[k], at[k - 1])
                     /\ spent[k] = spent[k - 1] + PathConfig[c[k]].cost

LEMMA WalkFacts ==
  ASSUME NEW n \in Nat, NEW c \in [1..n -> Path]
  PROVE  /\ Len(c) = n /\ DOMAIN c = 1..n
         /\ \A k \in 1..n : c[k] \in Path /\ PathConfig[c[k]].cost \in Nat \ {0}
<1>1. c \in Seq(Path)
  BY SeqDef
<1>2. Len(c) \in Nat /\ DOMAIN c = 1..Len(c)
  BY <1>1, LenProperties
<1>3. DOMAIN c = 1..n /\ \A k \in 1..n : c[k] \in Path
  OBVIOUS
<1>4. QED
  BY <1>2, <1>3, MapAssumption

\* What the first k paths of a chain cost.
Spends(c, n, spent) ==
  /\ spent[0] = 0 /\ Cost(c) = spent[n]
  /\ \A k \in 0..n : spent[k] \in Nat
  /\ \A k \in 1..n : spent[k] = spent[k - 1] + PathConfig[c[k]].cost

LEMMA CostsAlong ==
  ASSUME NEW n \in Nat, NEW c \in [1..n -> Path]
  PROVE  \E spent : Spends(c, n, spent)
<1> DEFINE f == [k \in DOMAIN c |-> PathConfig[c[k]].cost]
           iter == CHOOSE iter : IsSum(iter, f, 1..n)
           spent == [k \in 0..n |-> iter[1..k]]
<1>1. f \in [1..n -> Nat] /\ DOMAIN f = 1..n /\ \A k \in 1..n : f[k] = PathConfig[c[k]].cost
  BY WalkFacts
<1>2. IsFiniteSet(1..n)
  BY FS_Interval
<1>3. Cost(c) = FoldFunction(+, 0, f)
  BY DEF Cost
<1> HIDE DEF f
<1>4. IsSum(iter, f, 1..n)
  BY <1>2, SumExists
<1>5. FoldFunction(+, 0, f) = iter[1..n]
  BY <1>1, SumIsFold
<1>6. Cost(c) = iter[1..n]
  BY <1>3, <1>5
<1> HIDE DEF iter
<1>7. \A s \in SUBSET (1..n) : iter[s] \in Nat
  BY <1>1, <1>2, <1>4, PartialSums
<1>8. \A s \in SUBSET (1..n) : \A k \in s : iter[s] = f[k] + iter[s \ {k}]
  <2> DEFINE S == 1..n
  <2>1. IsFiniteSet(S) /\ f \in [S -> Nat] /\ IsSum(iter, f, S)
    BY <1>1, <1>2, <1>4
  <2> HIDE DEF S
  <2>2. Takes(iter, f, S)
    BY <2>1, SumTakes
  <2>3. QED
    BY <2>2 DEF S, Takes
<1>9. iter[{}] = 0
  BY <1>4 DEF IsSum
<1>10. \A k \in 0..n : spent[k] = iter[1..k] /\ spent[k] \in Nat
  BY <1>7
<1> HIDE DEF spent
<1>11. spent[0] = 0 /\ spent[n] = Cost(c)
  <2>1. 1..0 = {}
    OBVIOUS
  <2>2. QED
    BY <1>6, <1>9, <1>10, <2>1
<1>12. ASSUME NEW k \in 1..n
       PROVE  spent[k] = spent[k - 1] + PathConfig[c[k]].cost
  <2>1. (1..k) \ {k} = 1..(k - 1) /\ k \in 1..k /\ 1..k \in SUBSET (1..n)
    OBVIOUS
  <2>2. iter[1..k] = f[k] + iter[1..(k - 1)]
    <3>1. 1..k \in SUBSET (1..n) /\ k \in 1..k
      BY <2>1
    <3>2. iter[1..k] = f[k] + iter[(1..k) \ {k}]
      BY <1>8, <3>1
    <3>3. QED
      BY <2>1, <3>2
  <2>3. spent[k] = f[k] + spent[k - 1] /\ spent[k - 1] \in Nat /\ f[k] \in Nat
    BY <1>1, <1>10, <2>2
  <2>4. QED
    BY <1>1, <2>3
<1>13. Spends(c, n, spent)
  BY <1>10, <1>11, <1>12 DEF Spends
<1>14. QED
  BY <1>13

\* The cost of a walk is the sum of those of its paths.
LEMMA WalkCosts ==
  ASSUME NEW c, NEW n, NEW at, NEW spent, NEW src, Walk(c, n, at, spent, src)
  PROVE  Cost(c) = spent[n]
<1>1. n \in Nat /\ c \in [1..n -> Path]
  BY DEF Walk
<1>2. PICK sum : Spends(c, n, sum)
  BY <1>1, CostsAlong
<1> DEFINE T == {k \in 0..n : sum[k] = spent[k]}
<1>3. 0 \in T
  BY <1>1, <1>2 DEF Walk, Spends
<1>4. ASSUME NEW k \in 1..n, k - 1 \in T
      PROVE  k \in T
  BY <1>1, <1>2, <1>4 DEF Walk, Spends
<1> HIDE DEF T
<1>5. \A k \in 0..n : k \in T
  BY <1>1, <1>3, <1>4, Upwards
<1>6. n \in T
  BY <1>1, <1>5
<1>7. QED
  BY <1>2, <1>6 DEF T, Spends

IsAlong(at, chain, src) ==
  at = [k \in 0..Len(chain) |-> IF k = 0 THEN src ELSE Across(chain[k], at[k - 1])]

LEMMA AlongIs ==
  ASSUME NEW n \in Nat, NEW c \in [1..n -> Path], NEW src \in Region
  PROVE  /\ Along(c, src)[0] = src
         /\ \A k \in 0..n : Along(c, src)[k] \in Region
         /\ \A k \in 1..n : Along(c, src)[k] = Across(c[k], Along(c, src)[k - 1])
<1> DEFINE at == CHOOSE at : IsAlong(at, c, src)
           step == [k \in 1..n |-> [r \in Region |-> Across(c[k], r)]]
<1>1. Along(c, src) = [k \in 0..n |-> at[k]]
  BY WalkFacts DEF Along, IsAlong
<1>2. \A k \in 1..n : \A r \in Region : Across(c[k], r) \in Region
  BY WalkFacts, AcrossType
<1>3. StaysIn(Region, step, n)
  BY <1>2 DEF StaysIn
<1> HIDE DEF step
<1>4. PICK g : Iteration(g, Region, src, step, n)
  BY <1>3, Iterates
<1>5. /\ g[0] = src
      /\ \A k \in 0..n : g[k] \in Region
      /\ \A k \in 1..n : g[k] = Across(c[k], g[k - 1])
  <2>1. ASSUME NEW k \in 1..n
        PROVE  g[k] = Across(c[k], g[k - 1])
    <3>1. g[k] = step[k][g[k - 1]] /\ g[k - 1] \in Region
      BY <1>4 DEF Iteration
    <3>2. QED
      BY <3>1 DEF step
  <2>2. QED
    BY <1>4, <2>1 DEF Iteration
<1> DEFINE h == [k \in 0..n |-> g[k]]
<1>6. \A k \in 0..n : h[k] = IF k = 0 THEN src ELSE Across(c[k], h[k - 1])
  BY <1>5
<1>7. h = [k \in 0..n |-> h[k]]
  OBVIOUS
<1> HIDE DEF h
<1>8. IsAlong(h, c, src)
  BY <1>6, <1>7, WalkFacts DEF IsAlong
<1>9. IsAlong(at, c, src)
  BY <1>8
<1> HIDE DEF at
<1>10. at[0] = src /\ \A k \in 1..n : at[k] = Across(c[k], at[k - 1])
  <2>1. at = [k \in 0..n |-> IF k = 0 THEN src ELSE Across(c[k], at[k - 1])]
    BY <1>9, WalkFacts DEF IsAlong
  <2>2. \A k \in 0..n : at[k] = IF k = 0 THEN src ELSE Across(c[k], at[k - 1])
    BY <2>1
  <2>3. QED
    BY <2>2
<1> DEFINE T == {k \in 0..n : at[k] \in Region}
<1>11. 0 \in T
  BY <1>10
<1>12. ASSUME NEW k \in 1..n, k - 1 \in T
       PROVE  k \in T
  BY <1>2, <1>10, <1>12
<1> HIDE DEF T
<1>13. \A k \in 0..n : k \in T
  BY <1>11, <1>12, Upwards
<1>14. \A k \in 0..n : at[k] \in Region
  BY <1>13 DEF T
<1>15. \A k \in 0..n : Along(c, src)[k] = at[k]
  BY <1>1
<1>16. QED
  BY <1>10, <1>14, <1>15

\* A walk comes where its chain leads.
LEMMA WalkIsAlong ==
  ASSUME NEW c, NEW n, NEW at, NEW spent, NEW src, src \in Region, Walk(c, n, at, spent, src)
  PROVE  \A k \in 0..n : Along(c, src)[k] = at[k]
<1>1. n \in Nat /\ c \in [1..n -> Path]
  BY DEF Walk
<1>2. /\ Along(c, src)[0] = src
      /\ \A k \in 1..n : Along(c, src)[k] = Across(c[k], Along(c, src)[k - 1])
  BY <1>1, AlongIs
<1> DEFINE T == {k \in 0..n : Along(c, src)[k] = at[k]}
<1>3. 0 \in T
  BY <1>1, <1>2 DEF Walk
<1>4. ASSUME NEW k \in 1..n, k - 1 \in T
      PROVE  k \in T
  BY <1>1, <1>2, <1>4 DEF Walk
<1> HIDE DEF T
<1>5. \A k \in 0..n : k \in T
  BY <1>1, <1>3, <1>4, Upwards
<1>6. QED
  BY <1>5 DEF T

\* A chain that can be followed is a walk.
LEMMA ChainWalks ==
  ASSUME NEW n \in Nat, NEW c \in [1..n -> Path], NEW src \in Region,
         \A k \in 1..n : c[k] \in Edges(Along(c, src)[k - 1])
  PROVE  \E spent : Walk(c, n, Along(c, src), spent, src) /\ Cost(c) = spent[n]
<1>1. PICK spent : Spends(c, n, spent)
  BY CostsAlong
<1>2. Walk(c, n, Along(c, src), spent, src)
  <2> DEFINE at == Along(c, src)
  <2>1. /\ at[0] = src /\ \A k \in 0..n : at[k] \in Region
        /\ \A k \in 1..n : at[k] = Across(c[k], at[k - 1])
    BY AlongIs
  <2>2. \A k \in 1..n : c[k] \in Edges(at[k - 1])
    OBVIOUS
  <2> HIDE DEF at
  <2>3. Walk(c, n, at, spent, src)
    BY <1>1, <2>1, <2>2 DEF Walk, Spends
  <2>4. QED
    BY <2>3 DEF at
<1>3. QED
  BY <1>1, <1>2 DEF Spends

-----------------------------------------------------------------------------
(* A walk that comes to no region twice, and to regions of V before the    *)
(* last, exists for everything that Dijkstra's algorithm puts in `dist'.   *)

Simple(n, at, V) ==
  /\ \A j, k \in 0..n : at[j] = at[k] => j = k
  /\ \A k \in 0..(n - 1) : at[k] \in V

Reached(src, r, x, V) ==
  \E c, n, at, spent : Walk(c, n, at, spent, src) /\ Simple(n, at, V) /\ at[n] = r /\ spent[n] = x

LEMMA ReachedStart ==
  ASSUME NEW src \in Region, NEW V
  PROVE  Reached(src, src, 0, V)
<1> DEFINE at == [k \in 0..0 |-> src]
           spent == [k \in 0..0 |-> 0]
           n == 0
           c == [k \in 1..0 |-> k]
<1>1. c \in [1..0 -> Path]
  OBVIOUS
<1>2. at[n] = src /\ spent[n] = 0 /\ \A k \in 0..n : k = 0 /\ at[k] = src /\ spent[k] = 0
  OBVIOUS
<1>3. n \in Nat /\ 1..n = {} /\ 0..(n - 1) = {} /\ n = 0 /\ c \in [1..n -> Path]
  BY <1>1
<1> HIDE DEF at, spent, n, c
<1>4. Walk(c, n, at, spent, src)
  BY <1>2, <1>3 DEF Walk
<1>5. Simple(n, at, V)
  BY <1>2, <1>3 DEF Simple
<1>6. QED
  BY <1>2, <1>4, <1>5 DEF Reached

LEMMA ReachedMore ==
  ASSUME NEW src, NEW r, NEW x, NEW V, NEW W, V \subseteq W, Reached(src, r, x, V)
  PROVE  Reached(src, r, x, W)
<1>1. PICK c, n, at, spent : Walk(c, n, at, spent, src) /\ Simple(n, at, V) /\ at[n] = r /\ spent[n] = x
  BY DEF Reached
<1>2. Simple(n, at, W)
  BY <1>1 DEF Simple
<1>3. QED
  BY <1>1, <1>2 DEF Reached

\* One path more.
LEMMA ReachedOn ==
  ASSUME NEW src \in Region, NEW u, NEW x, NEW V, Reached(src, u, x, V),
         NEW p \in Edges(u), Across(p, u) \notin V, Across(p, u) # u
  PROVE  Reached(src, Across(p, u), x + PathConfig[p].cost, V \cup {u})
<1>1. PICK c, n, at, spent : Walk(c, n, at, spent, src) /\ Simple(n, at, V) /\ at[n] = u /\ spent[n] = x
  BY DEF Reached
<1> DEFINE m == n + 1
           v == Across(p, u)
           y == x + PathConfig[p].cost
           cc == [k \in 1..m |-> IF k = m THEN p ELSE c[k]]
           aa == [k \in 0..m |-> IF k = m THEN v ELSE at[k]]
           ss == [k \in 0..m |-> IF k = m THEN y ELSE spent[k]]
<1>2. n \in Nat /\ c \in [1..n -> Path] /\ u \in Region /\ x \in Nat
  BY <1>1 DEF Walk
<1>3. p \in Path /\ v \in Region /\ PathConfig[p].cost \in Nat /\ y \in Nat
  <2>1. p \in Path
    BY DEF Edges
  <2>2. v \in Region /\ PathConfig[p].cost \in Nat
    BY <1>2, <2>1, AcrossType
  <2>3. QED
    BY <1>2, <2>1, <2>2
<1>4. /\ cc[m] = p /\ aa[m] = v /\ ss[m] = y
      /\ \A k \in 0..n : aa[k] = at[k] /\ ss[k] = spent[k]
      /\ \A k \in 1..n : cc[k] = c[k]
      /\ cc \in [1..m -> Path]
      /\ m \in Nat /\ m - 1 = n
  BY <1>2, <1>3
<1> HIDE DEF cc, aa, ss, v, y
<1>5. Walk(cc, m, aa, ss, src)
  <2>1. aa[0] = src /\ ss[0] = 0
    BY <1>1, <1>2, <1>4 DEF Walk
  <2>2. ASSUME NEW k \in 0..m
        PROVE  aa[k] \in Region /\ ss[k] \in Nat
    <3>1. k = m \/ k \in 0..n
      BY <1>2
    <3>2. QED
      BY <1>1, <1>3, <1>4, <3>1 DEF Walk
  <2>3. ASSUME NEW k \in 1..m
        PROVE  /\ cc[k] \in Edges(aa[k - 1])
               /\ aa[k] = Across(cc[k], aa[k - 1])
               /\ ss[k] = ss[k - 1] + PathConfig[cc[k]].cost
    <3>1. CASE k = m
      <4>1. aa[k - 1] = u /\ ss[k - 1] = x
        BY <1>1, <1>2, <1>4, <3>1
      <4>2. QED
        BY <1>4, <3>1, <4>1 DEF v, y
    <3>2. CASE k \in 1..n
      <4>1. k - 1 \in 0..n /\ k \in 0..n
        BY <1>2, <3>2
      <4>2. aa[k - 1] = at[k - 1] /\ ss[k - 1] = spent[k - 1] /\ aa[k] = at[k] /\ ss[k] = spent[k] /\ cc[k] = c[k]
        BY <1>4, <3>2, <4>1
      <4>3. QED
        BY <1>1, <3>2, <4>2 DEF Walk
    <3>3. QED
      BY <1>2, <3>1, <3>2
  <2>4. QED
    BY <1>4, <2>1, <2>2, <2>3 DEF Walk
<1>6. Simple(m, aa, V \cup {u})
  <2>1. \A k \in 0..n : at[k] \in V \cup {u} /\ at[k] # v
    BY <1>1, <1>2 DEF Simple, v
  <2>2. \A k \in 0..m : k = m \/ k \in 0..n
    BY <1>2
  <2>3. \A k \in 0..(m - 1) : aa[k] \in V \cup {u}
    BY <1>4, <2>1
  <2>4. \A j, k \in 0..m : aa[j] = aa[k] => j = k
    BY <1>1, <1>4, <2>1, <2>2 DEF Simple
  <2>5. QED
    BY <2>3, <2>4 DEF Simple
<1>7. QED
  BY <1>4, <1>5, <1>6 DEF Reached, v, y

\* The chain of such a walk is among those ShortestIsShortest looks at.
LEMMA ReachedChain ==
  ASSUME NEW src \in Region, NEW r, NEW x, NEW V, Reached(src, r, x, V)
  PROVE  \E c \in Chains : /\ \A k \in DOMAIN c : c[k] \in Edges(Along(c, src)[k - 1])
                           /\ Along(c, src)[Len(c)] = r /\ Cost(c) = x
<1>1. PICK c, n, at, spent : Walk(c, n, at, spent, src) /\ Simple(n, at, V) /\ at[n] = r /\ spent[n] = x
  BY DEF Reached
<1>2. n \in Nat /\ c \in [1..n -> Path] /\ \A k \in 0..n : at[k] \in Region
  BY <1>1 DEF Walk
<1>3. Len(c) = n /\ DOMAIN c = 1..n
  BY <1>2, WalkFacts
<1>4. Cost(c) = x
  BY <1>1, WalkCosts
<1>5. \A k \in 0..n : Along(c, src)[k] = at[k]
  BY <1>1, WalkIsAlong
<1>6. \A k \in 1..n : c[k] \in Edges(Along(c, src)[k - 1])
  BY <1>1, <1>2, <1>5 DEF Walk
<1>7. c \in Chains
  <2> DEFINE S == {at[k] : k \in 0..n}
  <2>1. IsFiniteSet(0..n) /\ Cardinality(0..n) = n + 1
    BY <1>2, FS_Interval
  <2>2. [k \in 0..n |-> at[k]] \in Bijection(0..n, S)
    BY <1>1 DEF Simple, Bijection, Injection, Surjection, IsInjective
  <2>3. ExistsBijection(0..n, S)
    BY <2>2 DEF ExistsBijection
  <2>4. Cardinality(S) = n + 1
    BY <2>1, <2>3, FS_Bijection
  <2>5. S \subseteq Region
    BY <1>2
  <2>6. Cardinality(S) <= Cardinality(Region) /\ Cardinality(Region) \in Nat
    BY <2>5, MapAssumption, FS_Subset, FS_CardinalityType
  <2>7. n \in 0..(Cardinality(Region) - 1)
    BY <1>2, <2>4, <2>6
  <2>8. QED
    BY <1>2, <2>7 DEF Chains
<1>8. QED
  BY <1>1, <1>2, <1>3, <1>4, <1>5, <1>6, <1>7

-----------------------------------------------------------------------------
(* Dijkstra's algorithm.  A region is settled once the item that holds it  *)
(* has left the heap.                                                      *)

Settled(s) == {i.region : i \in s.dist \ s.heap}

Held(s, r, x) == \E j \in s.dist : j.region = r /\ j.cost <= x

SearchInv(s, src, dst) ==
  /\ s \in Search /\ IsFiniteSet(s.heap)
  /\ \A i, j \in s.dist : i.region = j.region => i = j
  /\ \A i \in s.dist : Reached(src, i.region, i.cost, Settled(s))
  /\ \A i \in s.dist \ s.heap, j \in s.heap : i.cost <= j.cost
  /\ \A i \in s.dist \ s.heap : \A p \in Edges(i.region) :
       Held(s, Across(p, i.region), i.cost + PathConfig[p].cost)
  /\ Held(s, src, 0)
  /\ dst \notin Settled(s)
  /\ \A h \in s.heap : Held(s, h.region, h.cost)

LEMMA ItemFacts ==
  /\ \A i \in Item : i.region \in Region /\ i.cost \in Nat
  /\ \A i, j \in Item : i.region = j.region /\ i.cost = j.cost => i = j
BY DEF Item

LEMMA SearchStarts ==
  ASSUME NEW src \in Region, NEW dst
  PROVE  SearchInv(Start(src), src, dst)
<1> DEFINE zero == 0
           none == -1
           item == [region |-> src, cost |-> zero]
           s == [dist |-> {item}, heap |-> {item}, answer |-> none]
<1>1. Start(src) = s
  BY DEF Start
<1>2. s \in Search
  BY <1>1, StartType
<1> HIDE DEF zero, none
<1>3. item.region = src /\ item.cost = zero
  OBVIOUS
<1> HIDE DEF item
<1>4. s.dist = {item} /\ s.heap = {item}
  OBVIOUS
<1> HIDE DEF s
<1>5. Settled(s) = {}
  BY <1>4 DEF Settled
<1>6. IsFiniteSet(s.heap)
  BY <1>4, FS_Singleton
<1>7. Reached(src, item.region, item.cost, {})
  BY <1>3, ReachedStart DEF zero
<1>8. Held(s, src, 0) /\ \A h \in s.heap : Held(s, h.region, h.cost)
  BY <1>3, <1>4 DEF Held, zero
<1>9. SearchInv(s, src, dst)
  BY <1>2, <1>4, <1>5, <1>6, <1>7, <1>8 DEF SearchInv
<1>10. QED
  BY <1>1, <1>9

Onwards(item) ==
  {[region |-> Across(p, item.region), cost |-> item.cost + PathConfig[p].cost] : p \in Edges(item.region)}

LEMMA OnwardsFacts ==
  ASSUME NEW item \in Item
  PROVE  /\ Onwards(item) \subseteq Item
         /\ \A i \in Onwards(item) : \E p \in Edges(item.region) :
              i.region = Across(p, item.region) /\ i.cost = item.cost + PathConfig[p].cost
         /\ \A p \in Edges(item.region) : \E i \in Onwards(item) :
              i.region = Across(p, item.region) /\ i.cost = item.cost + PathConfig[p].cost
         /\ \A i \in Onwards(item) : i.cost > item.cost
         /\ IsFiniteSet(Onwards(item)) /\ IsFiniteSet(Edges(item.region))
         /\ Cardinality(Onwards(item)) <= Cardinality(Edges(item.region))
<1> DEFINE u == item.region
           E == Edges(item.region)
           To(p) == Across(p, item.region)
           By(p) == item.cost + PathConfig[p].cost
<1>1. /\ item.region \in Region /\ item.cost \in Nat
      /\ \A p \in E : p \in Path /\ PathConfig[p].cost \in Nat \ {0}
  BY ItemFacts, MapAssumption DEF Edges
<1>2. \A p \in E : To(p) \in Region
  BY <1>1, AcrossType
<1>3. \A p \in E : By(p) \in Nat /\ By(p) > item.cost
  BY <1>1
<1>4. IsFiniteSet(E)
  BY MapAssumption, FS_Subset DEF Edges
<1> HIDE DEF E, To, By
<1>5. Onwards(item) = {[region |-> To(p), cost |-> By(p)] : p \in E}
  BY DEF Onwards, To, By, E
<1>6. Onwards(item) \subseteq Item
  BY <1>2, <1>3, <1>5 DEF Item
<1>7. /\ \A i \in Onwards(item) : \E p \in E : i.region = To(p) /\ i.cost = By(p)
      /\ \A p \in E : \E i \in Onwards(item) : i.region = To(p) /\ i.cost = By(p)
  <2>1. \A p \in E : [region |-> To(p), cost |-> By(p)] \in Onwards(item)
    BY <1>5
  <2>2. \A p \in E : \E i \in Onwards(item) : i.region = To(p) /\ i.cost = By(p)
    BY <2>1
  <2>3. ASSUME NEW i \in Onwards(item)
        PROVE  \E p \in E : i.region = To(p) /\ i.cost = By(p)
    <3>1. PICK p \in E : i = [region |-> To(p), cost |-> By(p)]
      BY <1>5
    <3>2. i.region = To(p) /\ i.cost = By(p)
      BY <3>1
    <3>3. QED
      BY <3>2
  <2>4. QED
    BY <2>2, <2>3
<1>8. \A i \in Onwards(item) : i.cost > item.cost
  BY <1>3, <1>7
<1>9. IsFiniteSet(Onwards(item)) /\ Cardinality(Onwards(item)) <= Cardinality(E)
  <2> DEFINE f == [p \in E |-> [region |-> To(p), cost |-> By(p)]]
  <2>1. f \in Surjection(E, Onwards(item))
    BY <1>5 DEF Surjection
  <2>2. QED
    BY <1>4, <2>1, FS_Surjection
<1>10. QED
  BY <1>4, <1>6, <1>7, <1>8, <1>9 DEF E, To, By

LEMMA RelaxedIs ==
  ASSUME NEW s
  PROVE  Relaxed(s) =
           {i \in Onwards(Popped(s.heap)) :
              \A j \in s.dist \cup Onwards(Popped(s.heap)) : i.region = j.region => i.cost <= j.cost} \ s.dist
BY DEF Relaxed, Onwards

\* What is relaxed is better than what is held, and nothing better was found.
LEMMA RelaxedFacts ==
  ASSUME NEW s \in Search, s.heap # {}
  PROVE  LET item == Popped(s.heap)
             F == Relaxed(s)
         IN /\ F \subseteq Item /\ F \subseteq Onwards(item) /\ F \cap s.dist = {}
            /\ \A i \in F, j \in s.dist : i.region = j.region => i.cost < j.cost
            /\ \A i, j \in F : i.region = j.region => i = j
            /\ \A j \in s.dist \cup Onwards(item) : \E k \in s.dist \cup F : k.region = j.region /\ k.cost <= j.cost
            /\ IsFiniteSet(F) /\ Cardinality(F) <= Cardinality(Edges(item.region))
<1> DEFINE item == Popped(s.heap)
           F == Relaxed(s)
           O == Onwards(item)
           All == s.dist \cup O
<1>1. item \in Item
  BY PoppedIsLeast DEF Search
<1>2. F = {i \in O : \A j \in All : i.region = j.region => i.cost <= j.cost} \ s.dist
  BY RelaxedIs
<1>3. O \subseteq Item /\ IsFiniteSet(O) /\ Cardinality(O) <= Cardinality(Edges(item.region))
  BY <1>1, OnwardsFacts
<1>4. s.dist \subseteq Item
  BY DEF Search
<1>5. IsFiniteSet(Edges(item.region))
  BY <1>1, OnwardsFacts
<1> HIDE DEF O, item, F
<1>6. F \subseteq O /\ F \subseteq Item /\ F \cap s.dist = {}
  BY <1>2, <1>3
<1>7. \A i \in F, j \in s.dist : i.region = j.region => i.cost < j.cost
  <2>1. \A i \in F, j \in s.dist : i.region = j.region => i.cost <= j.cost /\ i # j
    BY <1>2
  <2>2. QED
    BY <1>4, <1>6, <2>1, ItemFacts
<1>8. \A i, j \in F : i.region = j.region => i = j
  <2>1. \A i, j \in F : i.region = j.region => i.cost <= j.cost
    BY <1>2
  <2>2. QED
    BY <1>6, <2>1, ItemFacts
<1>9. ASSUME NEW j \in All
      PROVE  \E k \in s.dist \cup F : k.region = j.region /\ k.cost <= j.cost
  <2> DEFINE T == {i.cost : i \in {i \in All : i.region = j.region}}
  <2>1. T \in SUBSET Nat /\ T # {} /\ j.cost \in T
    BY <1>3, <1>4, ItemFacts
  <2>2. PICK n \in T : \A m \in T : n <= m
    BY <2>1, LeastNumber
  <2>3. PICK k \in All : k.region = j.region /\ k.cost = n
    BY <2>2
  <2>4. \A i \in All : i.region = j.region => k.cost <= i.cost
    BY <2>2, <2>3
  <2>5. k.cost <= j.cost
    BY <2>4
  <2>6. k \in s.dist \cup F
    <3>1. CASE k \in s.dist
      BY <3>1
    <3>2. CASE k \notin s.dist
      BY <1>2, <2>3, <2>4, <3>2
    <3>3. QED
      BY <3>1, <3>2
  <2>7. QED
    BY <2>3, <2>5, <2>6
<1>10. IsFiniteSet(F) /\ Cardinality(F) <= Cardinality(Edges(item.region))
  <2>1. IsFiniteSet(F) /\ Cardinality(F) <= Cardinality(O)
    BY <1>3, <1>6, FS_Subset
  <2>2. Cardinality(F) \in Nat /\ Cardinality(O) \in Nat /\ Cardinality(Edges(item.region)) \in Nat
    BY <1>3, <1>5, <2>1, FS_CardinalityType
  <2>3. QED
    BY <1>3, <2>1, <2>2
<1>11. QED
  BY <1>6, <1>7, <1>8, <1>9, <1>10 DEF F, O, item

\* The paths that are still to be looked at from their ends.
Pending(s) == {a \in Path \X Region : a[1] \in Edges(a[2]) /\ a[2] \notin Settled(s)}

Left(s) == Cardinality(s.heap) + Cardinality(Pending(s))

LEMMA PendingFinite ==
  ASSUME NEW s
  PROVE  IsFiniteSet(Pending(s)) /\ Cardinality(Pending(s)) \in Nat
<1>1. IsFiniteSet(Path \X Region)
  BY MapAssumption, FS_Product
<1>2. Pending(s) \subseteq Path \X Region
  BY DEF Pending
<1>3. QED
  BY <1>1, <1>2, FS_Subset, FS_CardinalityType

LEMMA StaleRound ==
  ASSUME NEW src, NEW dst, NEW s, SearchInv(s, src, dst), s.heap # {}, Popped(s.heap) \notin s.dist,
         NEW t \in Search, t.dist = s.dist, t.heap = s.heap \ {Popped(s.heap)}
  PROVE  SearchInv(t, src, dst) /\ Left(t) \in Nat /\ Left(s) \in Nat /\ Left(t) < Left(s)
<1> DEFINE item == Popped(s.heap)
<1>1. item \in s.heap
  BY PoppedIsLeast DEF SearchInv, Search
<1> HIDE DEF item
<1>2. t.dist \ t.heap = s.dist \ s.heap /\ t.heap \subseteq s.heap
  BY DEF item
<1>3. Settled(t) = Settled(s) /\ \A r, x : Held(t, r, x) <=> Held(s, r, x)
  BY <1>2 DEF Settled, Held
<1>4. /\ IsFiniteSet(s.heap) /\ IsFiniteSet(t.heap)
      /\ Cardinality(s.heap) \in Nat /\ Cardinality(t.heap) = Cardinality(s.heap) - 1
      /\ Cardinality(t.heap) \in Nat
  <2>1. IsFiniteSet(s.heap)
    BY DEF SearchInv
  <2>2. IsFiniteSet(s.heap \ {item}) /\ Cardinality(s.heap \ {item}) = Cardinality(s.heap) - 1
    BY <1>1, <2>1, FS_RemoveElement
  <2>3. QED
    BY <2>1, <2>2, FS_CardinalityType DEF item
<1>5. SearchInv(t, src, dst)
  <2>1. /\ \A i, j \in t.dist : i.region = j.region => i = j
        /\ \A i \in t.dist : Reached(src, i.region, i.cost, Settled(t))
        /\ Held(t, src, 0) /\ dst \notin Settled(t)
    BY <1>3 DEF SearchInv
  <2>2. \A i \in t.dist \ t.heap, j \in t.heap : i.cost <= j.cost
    BY <1>2 DEF SearchInv
  <2>3. \A i \in t.dist \ t.heap : \A p \in Edges(i.region) :
          Held(t, Across(p, i.region), i.cost + PathConfig[p].cost)
    BY <1>2, <1>3 DEF SearchInv
  <2>4. \A h \in t.heap : Held(t, h.region, h.cost)
    BY <1>2, <1>3 DEF SearchInv
  <2>5. QED
    BY <1>4, <2>1, <2>2, <2>3, <2>4 DEF SearchInv
<1>6. Pending(t) = Pending(s)
  BY <1>3 DEF Pending
<1>7. QED
  BY <1>4, <1>5, <1>6, PendingFinite DEF Left

LEMMA FreshRound ==
  ASSUME NEW src \in Region, NEW dst, NEW s, SearchInv(s, src, dst), s.heap # {}, Popped(s.heap) \in s.dist,
         Popped(s.heap).region # dst,
         NEW t \in Search, t.heap = (s.heap \ {Popped(s.heap)}) \cup Relaxed(s),
         t.dist = {d \in s.dist : \A i \in Relaxed(s) : i.region # d.region} \cup Relaxed(s)
  PROVE  SearchInv(t, src, dst) /\ Left(t) \in Nat /\ Left(s) \in Nat /\ Left(t) < Left(s)
<1> DEFINE item == Popped(s.heap)
           F == Relaxed(s)
           u == item.region
           Kept == {d \in s.dist : \A i \in F : i.region # d.region}
<1>1. /\ s \in Search /\ s.dist \subseteq Item /\ s.heap \subseteq Item /\ IsFiniteSet(s.heap)
      /\ \A i, j \in s.dist : i.region = j.region => i = j
      /\ \A i \in s.dist \ s.heap, j \in s.heap : i.cost <= j.cost
  BY DEF SearchInv, Search
<1>2. item \in s.heap /\ item \in s.dist /\ item \in Item /\ \A h \in s.heap : item.cost <= h.cost
  BY <1>1, PoppedIsLeast
<1>3. /\ F \subseteq Item /\ F \subseteq Onwards(item) /\ F \cap s.dist = {}
      /\ \A i \in F, j \in s.dist : i.region = j.region => i.cost < j.cost
      /\ \A i, j \in F : i.region = j.region => i = j
      /\ \A j \in s.dist \cup Onwards(item) : \E k \in s.dist \cup F : k.region = j.region /\ k.cost <= j.cost
      /\ IsFiniteSet(F) /\ Cardinality(F) <= Cardinality(Edges(u))
  BY <1>1, RelaxedFacts
<1>4. /\ \A i \in Onwards(item) : \E p \in Edges(u) : i.region = Across(p, u) /\ i.cost = item.cost + PathConfig[p].cost
      /\ \A p \in Edges(u) : \E i \in Onwards(item) : i.region = Across(p, u) /\ i.cost = item.cost + PathConfig[p].cost
      /\ \A i \in Onwards(item) : i.cost > item.cost
      /\ IsFiniteSet(Edges(u))
  BY <1>2, OnwardsFacts
<1>5. t.heap = (s.heap \ {item}) \cup F /\ t.dist = Kept \cup F
  OBVIOUS
<1>6. u # dst
  OBVIOUS
<1> HIDE DEF item, F
<1>7. item.cost \in Nat /\ (\A i \in s.dist \cup s.heap \cup F : i.cost \in Nat)
  BY <1>1, <1>2, <1>3, ItemFacts
<1>8. \A i \in F : \A j \in (s.dist \ s.heap) \cup {item} : i.region # j.region
  <2>1. \A j \in (s.dist \ s.heap) \cup {item} : j.cost <= item.cost /\ j \in s.dist
    BY <1>1, <1>2, <1>7
  <2>2. \A i \in F : i.cost > item.cost
    BY <1>3, <1>4
  <2>3. QED
    BY <1>3, <1>7, <2>1, <2>2
<1>9. t.dist \ t.heap = (s.dist \ s.heap) \cup {item}
  <2>1. item \notin F
    BY <1>2, <1>3
  <2>2. \A j \in (s.dist \ s.heap) \cup {item} : j \in Kept /\ j \notin t.heap
    BY <1>2, <1>3, <1>5, <1>8, <2>1
  <2>3. \A j \in t.dist \ t.heap : j \in s.dist /\ j \notin s.heap \ {item}
    BY <1>5
  <2>4. QED
    BY <1>5, <2>2, <2>3
<1>10. Settled(t) = Settled(s) \cup {u} /\ u \notin Settled(s)
  <2>1. Settled(t) = Settled(s) \cup {u}
    BY <1>9 DEF Settled
  <2>2. \A j \in s.dist \ s.heap : j.region # u
    BY <1>1, <1>2
  <2>3. QED
    BY <2>1, <2>2 DEF Settled
<1>11. \A j \in s.dist \cup Onwards(item) : Held(t, j.region, j.cost)
  <2>1. ASSUME NEW j \in s.dist \cup Onwards(item)
        PROVE  Held(t, j.region, j.cost)
    <3>1. PICK k \in s.dist \cup F : k.region = j.region /\ k.cost <= j.cost
      BY <1>3
    <3>2. CASE k \in F \cup Kept
      BY <1>5, <3>1, <3>2 DEF Held
    <3>3. CASE k \notin F \cup Kept
      <4>1. k \in s.dist
        BY <3>1, <3>3
      <4>2. PICK i \in F : i.region = k.region
        BY <3>3, <4>1
      <4>3. i.cost < k.cost /\ i.region = j.region /\ i \in t.dist
        BY <1>3, <1>5, <3>1, <4>1, <4>2
      <4>4. i.cost \in Nat /\ k.cost \in Nat /\ j.cost \in Nat
        <5>1. j \in Item
          BY <1>1, <1>2, OnwardsFacts
        <5>2. QED
          BY <1>7, <4>1, <5>1, ItemFacts
      <4>5. i.cost <= j.cost
        BY <3>1, <4>3, <4>4
      <4>6. QED
        BY <4>3, <4>5 DEF Held
    <3>4. QED
      BY <3>2, <3>3
  <2>2. QED
    BY <2>1
<1>12. ASSUME NEW r, NEW x \in Nat, Held(s, r, x)
       PROVE  Held(t, r, x)
  <2>1. PICK j \in s.dist : j.region = r /\ j.cost <= x
    BY <1>12 DEF Held
  <2>2. PICK k \in t.dist : k.region = r /\ k.cost <= j.cost
    BY <1>11, <2>1 DEF Held
  <2>3. k.cost \in Nat /\ j.cost \in Nat
    BY <1>5, <1>7, <2>1
  <2>4. k.cost <= x
    BY <2>1, <2>2, <2>3
  <2>5. QED
    BY <2>2, <2>4 DEF Held
<1>13. \A i, j \in t.dist : i.region = j.region => i = j
  BY <1>1, <1>3, <1>5
<1>14. ASSUME NEW i \in t.dist
       PROVE  Reached(src, i.region, i.cost, Settled(t))
  <2>1. CASE i \in s.dist
    <3>1. Reached(src, i.region, i.cost, Settled(s))
      BY <2>1 DEF SearchInv
    <3>2. QED
      BY <1>10, <3>1, ReachedMore
  <2>2. CASE i \in F
    <3>1. PICK p \in Edges(u) : i.region = Across(p, u) /\ i.cost = item.cost + PathConfig[p].cost
      BY <1>3, <1>4, <2>2
    <3>2. Reached(src, u, item.cost, Settled(s))
      BY <1>2 DEF SearchInv
    <3>3. Across(p, u) \notin Settled(s) /\ Across(p, u) # u
      BY <1>8, <2>2, <3>1 DEF Settled
    <3>4. Reached(src, Across(p, u), item.cost + PathConfig[p].cost, Settled(s) \cup {u})
      BY <3>2, <3>3, ReachedOn
    <3>5. QED
      BY <1>10, <3>1, <3>4
  <2>3. QED
    BY <1>5, <2>1, <2>2
<1>15. \A i \in t.dist \ t.heap, j \in t.heap : i.cost <= j.cost
  <2>1. \A i \in t.dist \ t.heap : i.cost <= item.cost /\ i.cost \in Nat
    BY <1>1, <1>2, <1>7, <1>9
  <2>2. \A j \in t.heap : item.cost <= j.cost /\ j.cost \in Nat
    BY <1>2, <1>3, <1>4, <1>5, <1>7
  <2>3. QED
    BY <1>7, <2>1, <2>2
<1>16. ASSUME NEW i \in t.dist \ t.heap, NEW p \in Edges(i.region)
       PROVE  Held(t, Across(p, i.region), i.cost + PathConfig[p].cost)
  <2>1. CASE i = item
    BY <1>4, <1>11, <2>1
  <2>2. CASE i \in s.dist \ s.heap
    <3>1. i.cost \in Nat /\ PathConfig[p].cost \in Nat
      BY <1>7, <2>2, MapAssumption DEF Edges
    <3>2. Held(s, Across(p, i.region), i.cost + PathConfig[p].cost)
      BY <2>2 DEF SearchInv
    <3>3. i.cost + PathConfig[p].cost \in Nat
      BY <3>1
    <3>4. QED
      BY <1>12, <3>2, <3>3
  <2>3. QED
    BY <1>9, <2>1, <2>2
<1>17. Held(t, src, 0)
  <2>1. Held(s, src, 0)
    BY DEF SearchInv
  <2>2. QED
    BY <1>12, <2>1
<1>18. dst \notin Settled(t)
  BY <1>6, <1>10 DEF SearchInv
<1>19. ASSUME NEW h \in t.heap
       PROVE  Held(t, h.region, h.cost)
  <2>1. CASE h \in F
    BY <1>3, <1>11, <2>1
  <2>2. CASE h \in s.heap
    <3>1. Held(s, h.region, h.cost) /\ h.cost \in Nat
      BY <1>7, <2>2 DEF SearchInv
    <3>2. QED
      BY <1>12, <3>1
  <2>3. QED
    BY <1>5, <2>1, <2>2
<1>20. /\ IsFiniteSet(t.heap) /\ Cardinality(t.heap) \in Nat /\ Cardinality(s.heap) \in Nat
       /\ Cardinality(t.heap) <= Cardinality(s.heap) - 1 + Cardinality(Edges(u))
       /\ Cardinality(Edges(u)) \in Nat
  <2> DEFINE rest == s.heap \ {item}
  <2>1. IsFiniteSet(rest) /\ Cardinality(rest) = Cardinality(s.heap) - 1 /\ Cardinality(s.heap) \in Nat
    BY <1>1, <1>2, FS_RemoveElement, FS_CardinalityType
  <2> HIDE DEF rest
  <2>2. /\ IsFiniteSet(rest \cup F) /\ IsFiniteSet(rest \cap F)
        /\ Cardinality(rest \cup F) = Cardinality(rest) + Cardinality(F) - Cardinality(rest \cap F)
    BY <1>3, <2>1, FS_Union, FS_Intersection
  <2>3. /\ Cardinality(rest) \in Nat /\ Cardinality(F) \in Nat /\ Cardinality(rest \cap F) \in Nat
        /\ Cardinality(rest \cup F) \in Nat /\ Cardinality(Edges(u)) \in Nat
    BY <1>3, <1>4, <2>1, <2>2, FS_CardinalityType
  <2>4. t.heap = rest \cup F
    BY <1>5 DEF rest
  <2>5. Cardinality(F) <= Cardinality(Edges(u))
    BY <1>3
  <2>6. Cardinality(rest \cup F) <= Cardinality(s.heap) - 1 + Cardinality(Edges(u))
    BY <2>1, <2>2, <2>3, <2>5
  <2>7. QED
    BY <2>1, <2>2, <2>3, <2>4, <2>6
<1>21. Cardinality(Pending(t)) = Cardinality(Pending(s)) - Cardinality(Edges(u))
  <2> DEFINE Done == {<<p, u>> : p \in Edges(u)}
  <2>1. u \in Region
    BY <1>2, ItemFacts
  <2>2. Pending(t) = Pending(s) \ Done /\ Done \subseteq Pending(s)
    BY <1>10, <2>1 DEF Pending, Edges
  <2>3. ExistsBijection(Edges(u), Done)
    <3>1. [p \in Edges(u) |-> <<p, u>>] \in Bijection(Edges(u), Done)
      BY DEF Bijection, Injection, Surjection, IsInjective
    <3>2. QED
      BY <3>1 DEF ExistsBijection
  <2>4. IsFiniteSet(Done) /\ Cardinality(Done) = Cardinality(Edges(u))
    BY <1>4, <2>3, FS_Bijection
  <2> HIDE DEF Done
  <2>5. Pending(s) \cap Done = Done
    BY <2>2
  <2>6. Cardinality(Pending(s) \ Done) = Cardinality(Pending(s)) - Cardinality(Pending(s) \cap Done)
    BY PendingFinite, FS_Difference
  <2>7. QED
    BY <2>2, <2>4, <2>5, <2>6
<1>22. Left(t) \in Nat /\ Left(s) \in Nat /\ Left(t) < Left(s)
  <2>1. Cardinality(Pending(s)) \in Nat /\ Cardinality(Pending(t)) \in Nat
    BY PendingFinite
  <2>2. QED
    BY <1>20, <1>21, <2>1 DEF Left
<1>23. SearchInv(t, src, dst)
  BY <1>13, <1>14, <1>15, <1>16, <1>17, <1>18, <1>19, <1>20 DEF SearchInv
<1>24. QED
  BY <1>22, <1>23

\* Along every walk, the search holds each region or still has something as cheap in its heap.
LEMMA FrontOfWalk ==
  ASSUME NEW src, NEW dst, NEW s, SearchInv(s, src, dst),
         NEW c, NEW n, NEW at, NEW spent, Walk(c, n, at, spent, src)
  PROVE  \/ \E h \in s.heap : h.cost <= spent[n]
         \/ \E i \in s.dist \ s.heap : i.region = at[n] /\ i.cost <= spent[n]
<1> DEFINE Ahead(k) == \E h \in s.heap : h.cost <= spent[k]
           Behind(k) == \E i \in s.dist \ s.heap : i.region = at[k] /\ i.cost <= spent[k]
           T == {k \in 0..n : Ahead(k) \/ Behind(k)}
<1>1. /\ n \in Nat /\ at[0] = src /\ spent[0] = 0
      /\ \A k \in 0..n : spent[k] \in Nat
      /\ \A k \in 1..n : /\ c[k] \in Edges(at[k - 1])
                         /\ at[k] = Across(c[k], at[k - 1])
                         /\ spent[k] = spent[k - 1] + PathConfig[c[k]].cost
                         /\ PathConfig[c[k]].cost \in Nat
  BY WalkFacts DEF Walk
<1>2. \A i \in s.dist \cup s.heap : i.cost \in Nat
  BY ItemFacts DEF SearchInv, Search
<1>3. \A k \in 0..n : Held(s, at[k], spent[k]) => Ahead(k) \/ Behind(k)
  BY DEF Held
<1>4. 0 \in T
  BY <1>1, <1>3 DEF SearchInv
<1>5. ASSUME NEW k \in 1..n, k - 1 \in T
      PROVE  k \in T
  <2>1. k - 1 \in 0..n /\ k \in 0..n /\ spent[k - 1] \in Nat /\ spent[k] \in Nat
    BY <1>1
  <2>2. CASE Ahead(k - 1)
    <3>1. PICK h \in s.heap : h.cost <= spent[k - 1]
      BY <2>2
    <3>2. spent[k] = spent[k - 1] + PathConfig[c[k]].cost /\ PathConfig[c[k]].cost \in Nat
      BY <1>1
    <3>3. h.cost <= spent[k]
      BY <1>2, <2>1, <3>1, <3>2
    <3>4. QED
      BY <2>1, <3>3
  <2>3. CASE Behind(k - 1)
    <3>1. PICK i \in s.dist \ s.heap : i.region = at[k - 1] /\ i.cost <= spent[k - 1]
      BY <2>3
    <3>2. c[k] \in Edges(i.region) /\ at[k] = Across(c[k], i.region)
      BY <1>1, <3>1
    <3>3. Held(s, at[k], i.cost + PathConfig[c[k]].cost)
      BY <3>2 DEF SearchInv
    <3>4. PICK j \in s.dist : j.region = at[k] /\ j.cost <= i.cost + PathConfig[c[k]].cost
      BY <3>3 DEF Held
    <3>5. /\ spent[k] = spent[k - 1] + PathConfig[c[k]].cost
          /\ PathConfig[c[k]].cost \in Nat /\ i.cost \in Nat /\ j.cost \in Nat
      BY <1>1, <1>2
    <3>6. j.cost <= spent[k]
      BY <2>1, <3>1, <3>4, <3>5
    <3>7. Held(s, at[k], spent[k])
      BY <3>4, <3>6 DEF Held
    <3>8. QED
      BY <1>3, <2>1, <3>7
  <2>4. QED
    BY <1>5, <2>2, <2>3
<1> HIDE DEF T
<1>6. \A k \in 0..n : k \in T
  BY <1>1, <1>4, <1>5, Upwards
<1>7. n \in T
  BY <1>1, <1>6
<1>8. QED
  BY <1>7 DEF T

Shortest(x, src, dst) ==
  /\ \E V : Reached(src, dst, x, V)
  /\ \A c, n, at, spent : Walk(c, n, at, spent, src) /\ at[n] = dst => x <= spent[n]

NoWay(src, dst) == \A c, n, at, spent : Walk(c, n, at, spent, src) => at[n] # dst

\* The first item of the destination that leaves the heap has the least cost of all walks.
LEMMA PoppedIsShortest ==
  ASSUME NEW src, NEW dst, NEW s, SearchInv(s, src, dst), s.heap # {}, Popped(s.heap).region = dst
  PROVE  Shortest(Popped(s.heap).cost, src, dst)
<1> DEFINE item == Popped(s.heap)
<1>1. s.dist \subseteq Item /\ s.heap \subseteq Item /\ dst \notin Settled(s)
  BY DEF SearchInv, Search
<1>2. item \in s.heap /\ \A h \in s.heap : item.cost <= h.cost
  BY <1>1, PoppedIsLeast
<1>3. item.region = dst
  OBVIOUS
<1> HIDE DEF item
<1>4. item.cost \in Nat /\ \A h \in s.heap : h.cost \in Nat
  BY <1>1, <1>2, ItemFacts
<1>5. \A i \in s.dist \ s.heap : i.region # dst
  BY <1>1 DEF Settled
<1>6. item \in s.dist
  <2>1. PICK j \in s.dist : j.region = item.region /\ j.cost <= item.cost
    BY <1>2 DEF SearchInv, Held
  <2>2. j \in s.heap
    BY <1>3, <1>5, <2>1
  <2>3. j.cost = item.cost
    BY <1>2, <1>4, <2>1, <2>2
  <2>4. j = item
    BY <1>1, <1>2, <2>1, <2>3, ItemFacts
  <2>5. QED
    BY <2>1, <2>4
<1>7. Reached(src, dst, item.cost, Settled(s))
  BY <1>3, <1>6 DEF SearchInv
<1>8. ASSUME NEW c, NEW n, NEW at, NEW spent, Walk(c, n, at, spent, src), at[n] = dst
      PROVE  item.cost <= spent[n]
  <2>1. spent[n] \in Nat
    BY <1>8 DEF Walk
  <2>2. PICK h \in s.heap : h.cost <= spent[n]
    BY <1>5, <1>8, FrontOfWalk
  <2>3. QED
    BY <1>2, <1>4, <2>1, <2>2
<1>9. QED
  BY <1>7, <1>8 DEF Shortest, item

LEMMA ExhaustedIsNoWay ==
  ASSUME NEW src, NEW dst, NEW s, SearchInv(s, src, dst), s.heap = {}
  PROVE  NoWay(src, dst)
<1>1. \A i \in s.dist \ s.heap : i.region # dst
  BY DEF SearchInv, Settled
<1>2. ASSUME NEW c, NEW n, NEW at, NEW spent, Walk(c, n, at, spent, src)
      PROVE  at[n] # dst
  BY <1>1, <1>2, FrontOfWalk
<1>3. QED
  BY <1>2 DEF NoWay

\* As many rounds as the ends of all paths, and one more, are enough.
LEMMA LeftAtStart ==
  ASSUME NEW src
  PROVE  Left(Start(src)) \in Nat /\ Left(Start(src)) <= Rounds
<1> DEFINE From == {<<p, PathConfig[p].from>> : p \in Path}
           To == {<<p, PathConfig[p].to>> : p \in Path}
           P == Pending(Start(src))
<1>1. IsFiniteSet(Path) /\ Cardinality(Path) \in Nat
  BY MapAssumption, FS_CardinalityType
<1>2. IsFiniteSet(From) /\ Cardinality(From) = Cardinality(Path)
  <2>1. [p \in Path |-> <<p, PathConfig[p].from>>] \in Bijection(Path, From)
    BY DEF Bijection, Injection, Surjection, IsInjective
  <2>2. ExistsBijection(Path, From)
    BY <2>1 DEF ExistsBijection
  <2>3. QED
    BY <1>1, <2>2, FS_Bijection
<1>3. IsFiniteSet(To) /\ Cardinality(To) = Cardinality(Path)
  <2>1. [p \in Path |-> <<p, PathConfig[p].to>>] \in Bijection(Path, To)
    BY DEF Bijection, Injection, Surjection, IsInjective
  <2>2. ExistsBijection(Path, To)
    BY <2>1 DEF ExistsBijection
  <2>3. QED
    BY <1>1, <2>2, FS_Bijection
<1>4. P \subseteq From \cup To
  BY DEF Pending, Edges
<1> HIDE DEF From, To, P
<1>5. IsFiniteSet(From \cup To) /\ Cardinality(From \cup To) <= 2 * Cardinality(Path)
  <2>1. /\ IsFiniteSet(From \cup To) /\ IsFiniteSet(From \cap To)
        /\ Cardinality(From \cup To) = Cardinality(From) + Cardinality(To) - Cardinality(From \cap To)
    BY <1>2, <1>3, FS_Union, FS_Intersection
  <2>2. Cardinality(From \cap To) \in Nat /\ Cardinality(From \cup To) \in Nat
    BY <2>1, FS_CardinalityType
  <2>3. QED
    BY <1>1, <1>2, <1>3, <2>1, <2>2
<1>6. /\ Cardinality(P) <= Cardinality(From \cup To)
      /\ Cardinality(P) \in Nat /\ Cardinality(From \cup To) \in Nat
  BY <1>4, <1>5, FS_Subset, FS_CardinalityType
<1>7. Cardinality(Start(src).heap) = 1
  <2> DEFINE item == [region |-> src, cost |-> 0]
  <2>1. Start(src).heap = {item}
    BY DEF Start
  <2> HIDE DEF item
  <2>2. QED
    BY <2>1, FS_Singleton
<1>8. Left(Start(src)) = 1 + Cardinality(P)
  BY <1>7 DEF Left, P
<1>9. QED
  BY <1>1, <1>5, <1>6, <1>8 DEF Rounds

Found(s, src, dst) == s.answer >= 0 /\ Shortest(s.answer, src, dst)

Searching(s, src, dst) == s.answer = -1 /\ SearchInv(s, src, dst)

\* One round.
LEMMA RoundSearches ==
  ASSUME NEW src \in Region, NEW dst, NEW s, Searching(s, src, dst), s.heap # {}
  PROVE  \/ Found(Round(s, dst), src, dst)
         \/ /\ Searching(Round(s, dst), src, dst)
            /\ Left(Round(s, dst)) \in Nat /\ Left(s) \in Nat
            /\ Left(Round(s, dst)) < Left(s)
<1> DEFINE item == Popped(s.heap)
           t == Round(s, dst)
           F == Relaxed(s)
           rest == s.heap \ {item}
           dist == {d \in s.dist : \A i \in F : i.region # d.region} \cup F
           cost == item.cost
<1>1. s \in Search /\ SearchInv(s, src, dst) /\ s.answer = -1
  BY DEF Searching, SearchInv
<1>2. t = IF item.region = dst THEN [s EXCEPT !.answer = cost]
          ELSE IF item \notin s.dist THEN [s EXCEPT !.heap = rest]
          ELSE [s EXCEPT !.heap = rest \cup F, !.dist = dist]
  BY <1>1, RoundIs
<1>3. t \in Search
  BY <1>1, RoundType
<1>4. cost \in Nat
  BY <1>1, PoppedIsLeast DEF Search, Item
<1>5. CASE item.region = dst
  <2>1. Shortest(cost, src, dst)
    BY <1>1, <1>5, PoppedIsShortest
  <2> HIDE DEF t, cost
  <2>2. t = [s EXCEPT !.answer = cost]
    BY <1>2, <1>5
  <2>3. t.answer = cost
    BY <1>1, <2>2 DEF Search
  <2>4. Found(t, src, dst)
    BY <1>4, <2>1, <2>3 DEF Found
  <2>5. QED
    BY <2>4 DEF t
<1>6. CASE item.region # dst /\ item \notin s.dist
  <2> HIDE DEF t, rest
  <2>1. t = [s EXCEPT !.heap = rest]
    BY <1>2, <1>6
  <2>2. t.heap = rest /\ t.dist = s.dist /\ t.answer = -1
    BY <1>1, <2>1 DEF Search
  <2>3. SearchInv(t, src, dst) /\ Left(t) \in Nat /\ Left(s) \in Nat /\ Left(t) < Left(s)
    BY <1>1, <1>3, <1>6, <2>2, StaleRound DEF rest
  <2>4. QED
    BY <2>2, <2>3 DEF Searching, t
<1>7. CASE item.region # dst /\ item \in s.dist
  <2> HIDE DEF t, rest, dist, F
  <2>1. t = [s EXCEPT !.heap = rest \cup F, !.dist = dist]
    BY <1>2, <1>7
  <2>2. t.heap = rest \cup F /\ t.dist = dist /\ t.answer = -1
    BY <1>1, <2>1 DEF Search
  <2>3. SearchInv(t, src, dst) /\ Left(t) \in Nat /\ Left(s) \in Nat /\ Left(t) < Left(s)
    BY <1>1, <1>3, <1>7, <2>2, FreshRound DEF rest, dist, F
  <2>4. QED
    BY <2>2, <2>3 DEF Searching, t
<1>8. QED
  BY <1>5, <1>6, <1>7

\* The search finds the least cost of all walks, or that there is none.
LEMMA SearchFinds ==
  ASSUME NEW src \in Region, NEW dst
  PROVE  LET turns == ShortestTurns(src, dst)
         IN (turns >= 0 /\ Shortest(turns, src, dst)) \/ (turns = -1 /\ NoWay(src, dst))
<1>1. PICK run : /\ ShortestTurns(src, dst) = run[Rounds].answer
                 /\ run[0] = Start(src)
                 /\ \A k \in 1..Rounds : run[k] = Searched(run[k - 1], dst)
                 /\ \A k \in 0..Rounds : run[k] \in Search
  BY SearchOf
<1> DEFINE InTime(k) == run[k].heap = {} \/ (Left(run[k]) \in Nat /\ Left(run[k]) <= Rounds - k)
           T == {k \in 0..Rounds : \/ Found(run[k], src, dst)
                                   \/ Searching(run[k], src, dst) /\ InTime(k)}
<1>2. Rounds \in Nat
  BY RoundsType
<1>3. 0 \in T
  <2>1. Start(src).answer = -1
    BY DEF Start
  <2>2. Searching(run[0], src, dst)
    BY <1>1, <2>1, SearchStarts DEF Searching
  <2>3. Left(run[0]) \in Nat /\ Left(run[0]) <= Rounds - 0
    BY <1>1, <1>2, LeftAtStart
  <2>4. QED
    BY <1>2, <2>2, <2>3
<1>4. ASSUME NEW k \in 1..Rounds, k - 1 \in T
      PROVE  k \in T
  <2> DEFINE s == run[k - 1]
  <2>1. k \in 0..Rounds /\ k - 1 \in 0..Rounds
    BY <1>2
  <2>2. run[k] = IF s.answer >= 0 \/ s.heap = {} THEN s ELSE Round(s, dst)
    BY <1>1 DEF Searched
  <2>3. CASE Found(s, src, dst)
    <3>1. run[k] = s
      BY <2>2, <2>3 DEF Found
    <3>2. QED
      BY <2>1, <2>3, <3>1
  <2>4. CASE Searching(s, src, dst) /\ s.heap = {}
    <3>1. run[k] = s
      BY <2>2, <2>4
    <3>2. InTime(k)
      BY <2>4, <3>1
    <3>3. QED
      BY <2>1, <2>4, <3>1, <3>2
  <2>5. CASE Searching(s, src, dst) /\ s.heap # {} /\ InTime(k - 1)
    <3>1. run[k] = Round(s, dst)
      BY <2>2, <2>5 DEF Searching
    <3>2. Left(s) <= Rounds - (k - 1)
      BY <2>5
    <3>3. \/ Found(run[k], src, dst)
          \/ /\ Searching(run[k], src, dst)
             /\ Left(run[k]) \in Nat /\ Left(s) \in Nat /\ Left(run[k]) < Left(s)
      <4>1. Searching(s, src, dst) /\ s.heap # {}
        BY <2>5
      <4> HIDE DEF s
      <4>2. QED
        BY <3>1, <4>1, RoundSearches
    <3> HIDE DEF s
    <3>4. Searching(run[k], src, dst) /\ Left(run[k]) \in Nat /\ Left(s) \in Nat /\ Left(run[k]) < Left(s) => InTime(k)
      BY <1>2, <3>2
    <3>5. QED
      BY <2>1, <3>3, <3>4
  <2>6. QED
    BY <1>4, <2>3, <2>4, <2>5
<1> HIDE DEF T
<1>5. \A k \in 0..Rounds : k \in T
  BY <1>2, <1>3, <1>4, Upwards
<1>6. Rounds \in T
  BY <1>2, <1>5
<1>7. Found(run[Rounds], src, dst) \/ (Searching(run[Rounds], src, dst) /\ InTime(Rounds))
  BY <1>6 DEF T
<1>8. CASE Found(run[Rounds], src, dst)
  BY <1>1, <1>8 DEF Found
<1>9. CASE Searching(run[Rounds], src, dst) /\ InTime(Rounds)
  <2>1. run[Rounds].heap = {}
    <3>1. CASE Left(run[Rounds]) \in Nat /\ Left(run[Rounds]) <= 0
      <4>1. Left(run[Rounds]) = 0
        BY <3>1
      <4>2. IsFiniteSet(run[Rounds].heap)
        BY <1>9 DEF Searching, SearchInv
      <4>3. Cardinality(run[Rounds].heap) \in Nat /\ Cardinality(Pending(run[Rounds])) \in Nat
        BY <4>2, FS_CardinalityType, PendingFinite
      <4>4. Cardinality(run[Rounds].heap) = 0
        BY <4>1, <4>3 DEF Left
      <4>5. QED
        BY <4>2, <4>4, FS_EmptySet
    <3>2. QED
      BY <1>2, <1>9, <3>1
  <2>2. QED
    BY <1>1, <1>9, <2>1, ExhaustedIsNoWay DEF Searching
<1>10. QED
  BY <1>7, <1>8, <1>9

LEMMA ShortestOfChains ==
  ASSUME NEW src \in Region, NEW dst \in Region
  PROVE  LET chains == {c \in Chains : \A k \in DOMAIN c : c[k] \in Edges(Along(c, src)[k - 1])}
             ends == {<<Along(c, src)[Len(c)], Cost(c)>> : c \in chains}
             costs == {e[2] : e \in {d \in ends : d[1] = dst}}
         IN ShortestTurns(src, dst) = IF costs = {} THEN -1 ELSE Min(costs)
<1> DEFINE chains == {c \in Chains : \A k \in DOMAIN c : c[k] \in Edges(Along(c, src)[k - 1])}
           ends == {<<Along(c, src)[Len(c)], Cost(c)>> : c \in chains}
           costs == {e[2] : e \in {d \in ends : d[1] = dst}}
           turns == ShortestTurns(src, dst)
<1>1. \A x : x \in costs <=> \E c \in chains : Along(c, src)[Len(c)] = dst /\ Cost(c) = x
  <2>1. ASSUME NEW x \in costs
        PROVE  \E c \in chains : Along(c, src)[Len(c)] = dst /\ Cost(c) = x
    <3>1. PICK e \in ends : e[1] = dst /\ e[2] = x
      OBVIOUS
    <3>2. PICK c \in chains : e = <<Along(c, src)[Len(c)], Cost(c)>>
      OBVIOUS
    <3> HIDE DEF chains
    <3>3. QED
      BY <3>1, <3>2
  <2>2. ASSUME NEW c \in chains, Along(c, src)[Len(c)] = dst
        PROVE  Cost(c) \in costs
    <3> DEFINE e == <<Along(c, src)[Len(c)], Cost(c)>>
    <3>1. e \in ends /\ e[1] = dst /\ e[2] = Cost(c)
      BY <2>2
    <3> HIDE DEF chains, ends, e
    <3>2. e[2] \in costs
      BY <3>1
    <3>3. QED
      BY <3>1, <3>2
  <2> HIDE DEF costs, chains
  <2>3. QED
    BY <2>1, <2>2
<1>2. ASSUME NEW c \in chains
      PROVE  \E n, spent : Walk(c, n, Along(c, src), spent, src) /\ n = Len(c) /\ Cost(c) = spent[n]
  <2>1. PICK n \in Nat : c \in [1..n -> Path]
    BY DEF Chains
  <2>2. Len(c) = n /\ DOMAIN c = 1..n
    BY <2>1, WalkFacts
  <2>3. \A k \in 1..n : c[k] \in Edges(Along(c, src)[k - 1])
    BY <2>2
  <2>4. \E spent : Walk(c, n, Along(c, src), spent, src) /\ Cost(c) = spent[n]
    BY <2>1, <2>3, ChainWalks
  <2>5. QED
    BY <2>2, <2>4
<1>3. \A V, x : Reached(src, dst, x, V) => x \in costs
  <2>1. ASSUME NEW V, NEW x, Reached(src, dst, x, V)
        PROVE  x \in costs
    <3>1. PICK c \in Chains : /\ \A k \in DOMAIN c : c[k] \in Edges(Along(c, src)[k - 1])
                              /\ Along(c, src)[Len(c)] = dst /\ Cost(c) = x
      BY <2>1, ReachedChain
    <3>2. c \in chains
      BY <3>1
    <3>3. QED
      BY <1>1, <3>1, <3>2
  <2>2. QED
    BY <2>1
<1>4. (turns >= 0 /\ Shortest(turns, src, dst)) \/ (turns = -1 /\ NoWay(src, dst))
  BY SearchFinds
<1> HIDE DEF chains, costs, turns
<1>5. CASE turns >= 0 /\ Shortest(turns, src, dst)
  <2>1. turns \in costs
    BY <1>3, <1>5 DEF Shortest
  <2>2. ASSUME NEW x \in costs
        PROVE  turns <= x
    <3>1. PICK c \in chains : Along(c, src)[Len(c)] = dst /\ Cost(c) = x
      BY <1>1
    <3>2. PICK n, spent : Walk(c, n, Along(c, src), spent, src) /\ n = Len(c) /\ Cost(c) = spent[n]
      BY <1>2
    <3>3. QED
      BY <1>5, <3>1, <3>2 DEF Shortest
  <2>3. costs \subseteq Nat
    <3>1. ASSUME NEW x \in costs
          PROVE  x \in Nat
      <4>1. PICK c \in chains : Along(c, src)[Len(c)] = dst /\ Cost(c) = x
        BY <1>1
      <4>2. PICK n, spent : Walk(c, n, Along(c, src), spent, src) /\ n = Len(c) /\ Cost(c) = spent[n]
        BY <1>2
      <4>3. QED
        BY <4>1, <4>2 DEF Walk
    <3>2. QED
      BY <3>1
  <2> DEFINE m == Min(costs)
  <2>4. m \in costs /\ \A y \in costs : m <= y
    BY <2>1, <2>2 DEF Min
  <2> HIDE DEF m
  <2>5. m \in Nat /\ turns \in Nat /\ m <= turns /\ turns <= m
    BY <2>1, <2>2, <2>3, <2>4
  <2>6. m = turns
    BY <2>5
  <2>7. QED
    BY <2>1, <2>6 DEF costs, turns, chains, m
<1>6. CASE turns = -1 /\ NoWay(src, dst)
  <2>1. ASSUME NEW c \in chains
        PROVE  Along(c, src)[Len(c)] # dst
    BY <1>2, <1>6 DEF NoWay
  <2>2. costs = {}
    BY <1>1, <2>1
  <2>3. QED
    BY <1>6, <2>2 DEF costs, turns, chains
<1>7. QED
  BY <1>4, <1>5, <1>6

\* Dijkstra's algorithm gives the least cost of all chains of paths between any two regions of any
\* map, and -1 without one.
THEOREM TurnsAreShortest == Spec => []ShortestIsShortest
<1>1. ShortestIsShortest
  BY ShortestOfChains DEF ShortestIsShortest
<1>2. QED
  BY <1>1, PTL
=============================================================================
