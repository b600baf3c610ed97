------------------------------ MODULE Analysis ------------------------------
(***************************************************************************)
(* The analysis pipelines: GET /analysis/routes and GET /analysis/intercept*)
(* queue a request and poll for a result; the dispatcher takes one request *)
(* at a time, and for it a feeder, some workers, each behind an orDone     *)
(* goroutine that watches the context, and the aggregator score all routes *)
(* (or pairs of a Nazgul and a route) of one snapshot of the world.        *)
(*                                                                         *)
(* The two pipelines differ in what is scored and share nothing, so that   *)
(* one of them runs.  Work travels in sets: its order is that of a map.    *)
(* What goroutines do after the result is returned concerns nobody.        *)
(***************************************************************************)
EXTENDS RouteScores

CONSTANTS
  Request,          \* the requests the handler serves
  Worker,
  Worlds,           \* the snapshots the cache may give
  MaxRequests,      \* bound on the requests to either pipeline
  TriggerCapacity,  \* of triggerCh
  WorkCapacity      \* of workCh

ASSUME AnalysisAssumption ==
  /\ Worlds \subseteq World /\ Worker # {}
  /\ MaxRequests \in [{"routes", "intercept"} -> Nat]
  /\ TriggerCapacity \in Nat \ {0} /\ WorkCapacity \in Nat \ {0}

VARIABLES
  kind,       \* which pipeline it is
  asked,      \* where each request is: "no", "waiting" or "over"
  answers,    \* history: what was answered, in this order
  triggerCh,
  resultCh,   \* holds at most one result
  jobs,       \* computations begun
  running,    \* is compute running?
  snap,       \* its snapshot
  expired,    \* is its context done?
  toFeed, feeding,    \* what the feeder has not sent; workCh is not closed
  workCh,
  carried, carrying,  \* what each orDone goroutine holds, and which of them run
  scoring, working,   \* what each worker scores or sends, and which of them run
  scored, open        \* the work whose scores the aggregator has; is its channel open?

requests == <<asked, answers>>
channels == <<triggerCh, resultCh>>
feeder == <<toFeed, feeding>>
carriers == <<carried, carrying>>
workers == <<scoring, working>>
job == <<jobs, running, snap, kind>>
aggregator == <<scored, open>>
vars == <<requests, channels, job, expired, feeder, workCh, carriers, workers, aggregator>>

Work == IF kind = "routes" THEN Route ELSE {n \in Nazgul : snap.at[n] # Nowhere} \X Route

ScoreOf(work, world) ==
  IF kind = "routes" THEN [route |-> work, risk |-> RouteRisk(work, world)]
  ELSE Interception(work[1], work[2], world)

\* What the aggregator makes of the scores, given in the order of their arrival.
Answer(result) ==
  LET scores == [k \in DOMAIN result.scored |-> ScoreOf(result.scored[k], result.world)]
  IN IF kind = "routes" THEN Aggregated(scores) ELSE Plan(scores)

Init ==
  /\ kind \in {"routes", "intercept"}
  /\ asked = [r \in Request |-> "no"] /\ answers = <<>>
  /\ triggerCh = <<>> /\ resultCh = <<>>
  /\ jobs = 0 /\ running = FALSE /\ snap \in Worlds
  /\ expired = TRUE
  /\ toFeed = {} /\ feeding = FALSE /\ workCh = {}
  /\ carried = [w \in Worker |-> {}] /\ carrying = {}
  /\ scoring = [w \in Worker |-> {}] /\ working = {}
  /\ scored = <<>> /\ open = FALSE
-----------------------------------------------------------------------------
MutTrigger(r) ==
  /\ asked[r] = "no"
  /\ Cardinality({q \in Request : asked[q] # "no"}) < MaxRequests[kind]
  /\ asked' = [asked EXCEPT ![r] = "waiting"]
  /\ triggerCh' = Append(triggerCh, r)
  /\ UNCHANGED <<answers, resultCh, job, expired, feeder, workCh, carriers, workers, aggregator>>

\* The handler's Trigger: a request that finds the channel full is dropped, and waits all the same.
Trigger(r) ==
  /\ asked[r] = "no"
  /\ Cardinality({q \in Request : asked[q] # "no"}) < MaxRequests[kind]
  /\ asked' = [asked EXCEPT ![r] = "waiting"]
  /\ triggerCh' = IF Len(triggerCh) < TriggerCapacity THEN Append(triggerCh, r) ELSE triggerCh
  /\ UNCHANGED <<answers, resultCh, job, expired, feeder, workCh, carriers, workers, aggregator>>

MutResult(r) ==
  /\ asked[r] = "waiting" /\ resultCh # <<>>
  /\ asked' = [asked EXCEPT ![r] = "over"]
  /\ answers' = Append(answers, Head(resultCh).job)
  /\ UNCHANGED <<channels, job, expired, feeder, workCh, carriers, workers, aggregator>>

\* The handler polls: whoever comes first takes the result, whoever asked for it.
Result(r) ==
  /\ asked[r] = "waiting" /\ resultCh # <<>>
  /\ asked' = [asked EXCEPT ![r] = "over"]
  /\ answers' = Append(answers, Head(resultCh).job)
  /\ resultCh' = <<>>
  /\ UNCHANGED <<triggerCh, job, expired, feeder, workCh, carriers, workers, aggregator>>

\* 2.1 s are over, or the browser has gone.
GiveUp(r) ==
  /\ asked[r] = "waiting"
  /\ asked' = [asked EXCEPT ![r] = "over"]
  /\ UNCHANGED <<answers, channels, job, expired, feeder, workCh, carriers, workers, aggregator>>

\* compute up to the start of its goroutines.
Compute ==
  /\ ~running /\ triggerCh # <<>>
  /\ UNCHANGED <<requests, resultCh, kind>>
  /\ triggerCh' = Tail(triggerCh)
  /\ running' = TRUE /\ jobs' = jobs + 1
  /\ snap' \in Worlds
  /\ expired' = FALSE
  /\ toFeed' = Work' /\ feeding' = TRUE /\ workCh' = {}
  /\ carried' = [w \in Worker |-> {}] /\ carrying' = Worker
  /\ scoring' = [w \in Worker |-> {}] /\ working' = Worker
  /\ scored' = <<>> /\ open' = TRUE

\* The context's two seconds are over.
Expire ==
  /\ running /\ ~expired
  /\ expired' = TRUE
  /\ UNCHANGED <<requests, channels, job, feeder, workCh, carriers, workers, aggregator>>

\* When the context is done, select may as well choose the channel that is ready.
Feed ==
  /\ running /\ feeding /\ Cardinality(workCh) < WorkCapacity
  /\ \E work \in toFeed : toFeed' = toFeed \ {work} /\ workCh' = workCh \cup {work}
  /\ UNCHANGED <<requests, channels, job, expired, feeding, carriers, workers, aggregator>>

MutFeederEnds ==
  /\ running /\ feeding /\ expired
  /\ feeding' = FALSE
  /\ UNCHANGED <<requests, channels, job, expired, toFeed, workCh, carriers, workers, aggregator>>

FeederEnds ==
  /\ running /\ feeding /\ (toFeed = {} \/ expired)
  /\ feeding' = FALSE
  /\ UNCHANGED <<requests, channels, job, expired, toFeed, workCh, carriers, workers, aggregator>>

Carry(w) ==
  /\ running /\ w \in carrying /\ carried[w] = {}
  /\ \E work \in workCh : carried' = [carried EXCEPT ![w] = {work}] /\ workCh' = workCh \ {work}
  /\ UNCHANGED <<requests, channels, job, expired, feeder, carrying, workers, aggregator>>

MutCarrierEnds(w) ==
  /\ running /\ w \in carrying
  /\ expired \/ (workCh = {} /\ ~feeding)
  /\ carried' = [carried EXCEPT ![w] = {}] /\ carrying' = carrying \ {w}
  /\ UNCHANGED <<requests, channels, job, expired, feeder, workCh, workers, aggregator>>

\* orDone ends with its input or the context, and what it holds then is lost.
CarrierEnds(w) ==
  /\ running /\ w \in carrying
  /\ expired \/ (carried[w] = {} /\ workCh = {} /\ ~feeding)
  /\ carried' = [carried EXCEPT ![w] = {}] /\ carrying' = carrying \ {w}
  /\ UNCHANGED <<requests, channels, job, expired, feeder, workCh, workers, aggregator>>

HandOver(w) ==
  /\ running /\ w \in carrying \cap working /\ carried[w] # {} /\ scoring[w] = {}
  /\ scoring' = [scoring EXCEPT ![w] = carried[w]]
  /\ carried' = [carried EXCEPT ![w] = {}]
  /\ UNCHANGED <<requests, channels, job, expired, feeder, workCh, carrying, working, aggregator>>

\* The worker's score meets the aggregator, which always receives.
Deliver(w) ==
  /\ running /\ w \in working
  /\ \E work \in scoring[w] : scored' = Append(scored, work)
  /\ scoring' = [scoring EXCEPT ![w] = {}]
  /\ UNCHANGED <<requests, channels, job, expired, feeder, workCh, carriers, working, open>>

\* A worker ends with its orDone goroutine, or on the context while it would send.
WorkerEnds(w) ==
  /\ running /\ w \in working
  /\ IF scoring[w] = {} THEN w \notin carrying ELSE expired
  /\ scoring' = [scoring EXCEPT ![w] = {}] /\ working' = working \ {w}
  /\ UNCHANGED <<requests, channels, job, expired, feeder, workCh, carriers, aggregator>>

MutClose ==
  /\ running /\ open /\ toFeed = {} /\ workCh = {} /\ ~feeding
  /\ open' = FALSE
  /\ UNCHANGED <<requests, channels, job, expired, feeder, workCh, carriers, workers, scored>>

\* The closer: wg.Wait, close(resultCh).
Close ==
  /\ running /\ open /\ working = {}
  /\ open' = FALSE
  /\ UNCHANGED <<requests, channels, job, expired, feeder, workCh, carriers, workers, scored>>

\* compute returns and cancels its context; a result nobody has taken yet keeps the new one out.
Return ==
  /\ running /\ ~open
  /\ running' = FALSE /\ expired' = TRUE
  /\ resultCh' = IF resultCh # <<>> THEN resultCh
                 ELSE <<[job |-> jobs, world |-> snap, cut |-> expired, scored |-> scored]>>
  /\ toFeed' = {} /\ feeding' = FALSE /\ workCh' = {}
  /\ carried' = [w \in Worker |-> {}] /\ carrying' = {}
  /\ scored' = <<>>
  /\ UNCHANGED <<requests, triggerCh, jobs, snap, kind, workers, open>>

Goroutines ==
  \/ Feed \/ FeederEnds \/ Close \/ Return
  \/ \E w \in Worker : Carry(w) \/ CarrierEnds(w) \/ HandOver(w) \/ Deliver(w) \/ WorkerEnds(w)

Next ==
  \/ \E r \in Request : Trigger(r) \/ Result(r) \/ GiveUp(r)
  \/ Compute \/ Expire
  \/ Goroutines

\* The scheduler runs what can run; the clock is not counted upon.
Spec == Init /\ [][Next]_vars /\ WF_vars(Compute) /\ WF_vars(Goroutines)
-----------------------------------------------------------------------------
\* Type invariant: channels within their capacities, one result at most.
TypeOK ==
  /\ kind \in {"routes", "intercept"}
  /\ asked \in [Request -> {"no", "waiting", "over"}] /\ answers \in Seq(Nat)
  /\ triggerCh \in Seq(Request) /\ Len(triggerCh) <= TriggerCapacity
  /\ Len(resultCh) <= 1
  /\ jobs \in Nat /\ running \in BOOLEAN /\ snap \in Worlds /\ expired \in BOOLEAN
  /\ toFeed \subseteq Work /\ feeding \in BOOLEAN
  /\ workCh \subseteq Work /\ Cardinality(workCh) <= WorkCapacity
  /\ carried \in [Worker -> SUBSET Work] /\ carrying \subseteq Worker
  /\ scoring \in [Worker -> SUBSET Work] /\ working \subseteq Worker
  /\ scored \in Seq(Work) /\ open \in BOOLEAN

\* No worker can send to the aggregator's channel once it is closed, which would panic.
NoSendOnClosed == (\E w \in Worker : scoring[w] # {}) => open

Holders(work) ==
  Cardinality({w \in Worker : work \in carried[w]}) + Cardinality({w \in Worker : work \in scoring[w]})
  + (IF work \in toFeed THEN 1 ELSE 0) + (IF work \in workCh THEN 1 ELSE 0)
  + Cardinality({k \in DOMAIN scored : scored[k] = work})

\* However the goroutines interleave, each route is scored exactly once: at every moment it is in
\* one place, and only an expired context loses it.
EachScoredOnce ==
  running => \A work \in Work : Holders(work) <= 1 /\ (~expired => Holders(work) = 1)

SafestFirst(list, result) ==
  /\ \A i, j \in DOMAIN list : i < j => list[i].risk <= list[j].risk /\ list[i].route # list[j].route
  /\ \A k \in DOMAIN list : list[k].risk = RouteRisk(list[k].route, result.world)
  /\ ~result.cut => Len(list) = Cardinality(Route)

BestChances(plan, result) ==
  /\ \A a, b \in plan : a.unit = b.unit => a = b
  /\ ~result.cut => {a.unit : a \in plan} = {n \in Nazgul : result.world.at[n] # Nowhere}
  /\ ~result.cut => \A a \in plan, route \in Route :
       ~Beats(Interception(a.unit, route, result.world), a)

\* In whatever order the scores arrive, a result whose context lasted ranks all routes of one
\* snapshot by risk, or gives every active Nazgul its best interception, once.  (No step changes
\* a result, so that it is looked at between the computations.)
AnswerIsRight ==
  ~running => \A result \in Range(resultCh), answer \in {Answer(r) : r \in Range(resultCh)} :
    IF kind = "routes" THEN SafestFirst(answer, result) ELSE BestChances(answer, result)

\* Results are answered in the order they were computed, none of them twice, although the
\* requests race for them.
ServedInOrder ==
  \A i, j \in DOMAIN answers : i < j => answers[i] < answers[j]

\* A computation ends even if the clock never does.
JobEnds == running ~> ~running

Along(chain, src) ==
  LET at[k \in 0..Len(chain)] == IF k = 0 THEN src ELSE Across(chain[k], at[k - 1])
  IN [k \in 0..Len(chain) |-> at[k]]

Chains == UNION {[1..n -> Path] : n \in 0..(Cardinality(Region) - 1)}

Cost(chain) == FoldFunction(+, 0, [k \in DOMAIN chain |-> PathConfig[chain[k]].cost])

\* ShortestTurns, which decides whether a Nazgul arrives in time, is the least cost of a chain of
\* paths, and -1 without one.
ShortestIsShortest ==
  jobs = 0 /\ triggerCh = <<>> => \A src \in Region :
    LET chains == {c \in Chains : \A k \in DOMAIN c : c[k] \in Edges(Along(c, src)[k - 1])}
        ends == {<<Along(c, src)[Len(c)], Cost(c)>> : c \in chains}
    IN \A dst \in Region :
         LET costs == {e[2] : e \in {d \in ends : d[1] = dst}}
         IN ShortestTurns(src, dst) = IF costs = {} THEN -1 ELSE Min(costs)
=============================================================================
