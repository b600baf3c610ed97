---------------------------- MODULE RouteScores ----------------------------
(***************************************************************************)
(* What the two analysis pipelines compute of a snapshot of the world: the *)
(* risk of a route for the Ring Bearer, the best region for a Nazgul to    *)
(* intercept it on a route, and how the answers are put together.          *)
(***************************************************************************)
EXTENDS Integers, Sequences, FiniteSets, FiniteSetsExt, Functions

CONSTANTS
  Region, Path,
  PathConfig,       \* ends and cost of every path
  Route,            \* the canonical routes
  RoutePaths,       \* the paths of each, from
  StartRegion,      \* the start of them all
  Nazgul,           \* units with a detection range
  Nowhere           \* the region of a Nazgul that is not active, and the target of no interception

ASSUME MapAssumption ==
  /\ IsFiniteSet(Region) /\ IsFiniteSet(Path) /\ IsFiniteSet(Nazgul) /\ StartRegion \in Region
  /\ PathConfig \in [Path -> [from : Region, to : Region, cost : Nat \ {0}]]
  /\ Route # {} /\ RoutePaths \in [Route -> Seq(Path) \ {<<>>}]

PathStatus == {"OPEN", "THREATENED", "BLOCKED"}

\* What computeRouteRisk and computeInterceptScore read of the snapshot.
World == [threat : [Region -> Nat], status : [Path -> PathStatus],
          surveillance : [Path -> Nat], at : [Nazgul -> Region \cup {Nowhere}]]

Across(p, r) == IF r = PathConfig[p].from THEN PathConfig[p].to ELSE PathConfig[p].from
Edges(r) == {p \in Path : r \in {PathConfig[p].from, PathConfig[p].to}}
Near(r) == {r} \cup {Across(p, r) : p \in Edges(r)}
WithinTwo(r) == UNION {Near(s) : s \in Near(r)}

\* A path that does not continue the route leads to its configured end.
Onward(r, p) == IF r = PathConfig[p].to THEN PathConfig[p].from ELSE PathConfig[p].to

\* resolveRouteRegions: the regions a route passes after its start.
Regions(route) ==
  LET paths == RoutePaths[route]
      at[k \in 0..Len(paths)] == IF k = 0 THEN StartRegion ELSE Onward(at[k - 1], paths[k])
  IN [k \in DOMAIN paths |-> at[k]]
-----------------------------------------------------------------------------
StatusRisk(status) ==
  CASE status = "BLOCKED" -> 5 [] status = "THREATENED" -> 2 [] OTHER -> 0

NazgulNear(route, world) ==
  {n \in Nazgul : world.at[n] # Nowhere /\
                  \E k \in DOMAIN Regions(route) : Regions(route)[k] \in WithinTwo(world.at[n])}

RouteRisk(route, world) ==
  LET paths == RoutePaths[route] IN
    FoldFunction(+, 0, [k \in DOMAIN paths |->
      world.threat[Regions(route)[k]] + 3 * world.surveillance[paths[k]] + StatusRisk(world.status[paths[k]])])
    + 2 * Cardinality(NazgulNear(route, world))

MutInserted(score, sorted) ==
  LET k == Cardinality({j \in DOMAIN sorted : sorted[j].risk > score.risk})
  IN SubSeq(sorted, 1, k) \o <<score>> \o SubSeq(sorted, k + 1, Len(sorted))

\* aggregate: an insertion sort, which lets scores of the same risk in the order they came.
Inserted(score, sorted) ==
  LET k == Cardinality({j \in DOMAIN sorted : sorted[j].risk <= score.risk})
  IN SubSeq(sorted, 1, k) \o <<score>> \o SubSeq(sorted, k + 1, Len(sorted))

Aggregated(scores) ==
  LET sorted[k \in 0..Len(scores)] ==
        IF k = 0 THEN <<>> ELSE Inserted(scores[k], sorted[k - 1])
  IN sorted[Len(scores)]
-----------------------------------------------------------------------------
MutPopped(heap) == CHOOSE item \in heap : \A other \in heap : item.cost >= other.cost

Popped(heap) == CHOOSE item \in heap : \A other \in heap : item.cost <= other.cost

\* One round of ShortestTurns: the popped item is the answer, is stale, or relaxes the edges of
\* its region.  `dist', like the heap, is a set of regions with their costs.
Round(s, dst) ==
  LET item == Popped(s.heap)
      rest == s.heap \ {item}
      onward == {[region |-> Across(p, item.region), cost |-> item.cost + PathConfig[p].cost] :
                   p \in Edges(item.region)}
      better == {i \in onward : \A j \in s.dist \cup onward : i.region = j.region => i.cost <= j.cost}
      fresh == better \ s.dist
  IN IF item.region = dst THEN [s EXCEPT !.answer = item.cost]
     ELSE IF item \notin s.dist THEN [s EXCEPT !.heap = rest]
     ELSE [s EXCEPT !.heap = rest \cup fresh,
                    !.dist = {d \in @ : \A i \in fresh : i.region # d.region} \cup fresh]

\* Dijkstra's algorithm; -1 when dst cannot be reached.
ShortestTurns(src, dst) ==
  LET run[k \in 0..(2 * Cardinality(Path) + 1)] ==
        IF k = 0
        THEN [dist |-> {[region |-> src, cost |-> 0]}, heap |-> {[region |-> src, cost |-> 0]},
              answer |-> -1]
        ELSE LET s == run[k - 1]
             IN IF s.answer >= 0 \/ s.heap = {} THEN s ELSE Round(s, dst)
  IN run[2 * Cardinality(Path) + 1].answer

TurnsToReach(route, k) == FoldFunction(+, 0, [j \in 1..k |-> PathConfig[RoutePaths[route][j]].cost])

\* computeInterceptScore: `points' over the length of the route, 1 - turns / length in the code,
\* is the score of a region the Nazgul reaches no later than the Ring Bearer.
Points(nazgul, route, k, world) ==
  LET turns == ShortestTurns(world.at[nazgul], Regions(route)[k])
      length == Len(Regions(route))
  IN IF turns >= 0 /\ turns <= TurnsToReach(route, k) /\ turns < length THEN length - turns ELSE 0

Interception(nazgul, route, world) ==
  LET regions == Regions(route)
      chances == {[points |-> Points(nazgul, route, k, world), at |-> k] : k \in DOMAIN regions}
      best == CHOOSE c \in chances : \A d \in chances :
                c.points > d.points \/ (c.points = d.points /\ c.at <= d.at)
  IN [unit |-> nazgul, route |-> route, points |-> best.points, length |-> Len(regions),
      target |-> IF best.points = 0 THEN Nowhere ELSE regions[best.at]]

Beats(a, b) == a.points * b.length > b.points * a.length

\* The aggregator of the interceptions keeps the first of the best of each Nazgul.
Plan(scores) ==
  {scores[k] : k \in {i \in DOMAIN scores : \A j \in DOMAIN scores :
     scores[j].unit = scores[i].unit =>
       /\ ~Beats(scores[j], scores[i])
       /\ j < i => Beats(scores[i], scores[j])}}
=============================================================================
