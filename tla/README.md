# A verification project for the Ring of the Middle Earth server

The repository is a distributed, turn-based game. Three Go instances (`option-b`) serve the
players over HTTP and server-sent events, one of them leads and advances the turns; Kafka
topics connect them with each other and with two Kafka Streams topologies in Java. The Dark
side must never learn where the Ring Bearer is, every unit gets at most one order a turn, and
every game ends exactly once. These modules model the Go code in TLA+, TLC checks them on small
worlds, and TLAPS proves the main results for every world.

The paths below are relative to the repository.

## 1. The system

### Components

| component | code | state it keeps | operations |
|---|---|---|---|
| turn engine | `option-b/internal/engine` | `pendingOrders`, `currentTurn`, the table of disabled Maias | `bufferOrder`, `AdvanceTurn` (13 steps), `Reset` |
| order ingest (Go) | `internal/kafkaclient/order_ingest.go` | `seenByTurn`: who has ordered in which turn | `ValidateRawOrder`, produce to `game.orders.validated` or the DLQ, commit |
| world state cache | `internal/game` | units, paths, regions, session, dark view; the Ring Bearer's true state in `InitRingBearerState`'s store | `Update`, `ApplySnapshot`, `ResetFromConfig`, `UpdateSession`, copy-out reads |
| map graph | `internal/game/graph.go` | adjacency of the map, never changed | `Neighbours`, `BFSDistance`, weighted shortest path |
| leadership | `option-b/cmd/server/main.go` | role of this instance, epoch and heartbeat time in the session | heartbeat, claim, step down, `onGameStart` |
| event router, cache manager, SSE hub | `internal/api` | channels between the topics and the connected players | route by topic and side, strip, fan out, register, unregister |
| analysis pipelines | `internal/pipeline` | worker pools, trigger and result channels | route risk, intercept plans |
| HTTP API | `internal/api/http_handlers.go` | none of its own | `POST /game/start`, `POST /order`, `GET` of state and analysis |
| Kafka clients | `internal/kafkaclient` | consumer positions | produce, transact, commit |
| Java topologies | `kafka/streams` | `seen-orders-store`, path surveillance | validate orders, enrich routes with risk |
| configuration loader | `internal/config` | none | parse `units.conf`, `map.conf` |
| Avro codec, browser UI | `internal/avrowire`, `ui` | none | encoding, rendering |

### How they interact

A player's order is posted to any instance and produced to `game.orders.raw`. The three ingest
consumers share a group and each validates what its partitions bring against **its own copy** of
the cache; the Java topology validates the same topic again. What passes reaches
`game.orders.validated`, and the leader's engine goroutine buffers it. The main loop of the
leader calls `AdvanceTurn` when the turn ticker fires. `AdvanceTurn` takes the buffered orders
under the engine's lock, releases it, works on a **snapshot** of the cache, produces the
broadcast and the events, replaces the whole cache by the snapshot and only then increments
`currentTurn`. The broadcast comes back to every instance through the cache manager
(`ApplySnapshot`), and to the players through the router, which strips the Ring Bearer's region
for the Dark side. The leader repeats its claim on `game.session`, which every instance replays
into its cache; a standby that finds the session stale claims it.

### What is hard

* `AdvanceTurn` runs without the lock: orders validated in the turn that is ending arrive in the
  buffer of the next one, or are lost around `currentTurn++`.
* Thirteen steps write the same maps; the status of a path is written in three of them, its
  blocker in two, travel bookkeeping in five.
* Timers are set in one step and decremented in a later step of the same turn.
* Whole-cache writes race with heartbeats, dark-view updates and new games.
* Leadership is claimed by read, publish, update, with no compare-and-set and no fencing, and the
  leader of a decided game sleeps 15 s, as long as a standby waits for its heartbeat.
* `POST /game/start` is answered by whichever instance nginx picks, at any moment of a turn; only the
  leader has an engine to reset.
* Channels block in one place and drop in another; one-entry result channels serve stale results.
* Duplicate tables are per instance, per turn, and survive a new game.

`PROJECT.json` lists each hazard at its line with the properties that watch it.

### What makes each component correct

* Turn engine: the path, unit and region life cycles of the documents; hidden start, exposure,
  capture; a verdict that is true of the final world; every game is decided.
* Order flow: a turn executes at most one order per unit and none of a later turn; turns are played
  in sequence; what is buffered for a turn is played in it.
* Leadership: at most one leader, and one per epoch, as long as nobody outsleeps the lease; a dead
  leader is replaced; of two engines one gives way; the end of a game reaches everyone.
* Event flow: no Dark client ever receives the Ring Bearer's region; events arrive in order;
  a registered client keeps receiving.
* Pipelines: a result answers the request it is given to; workers end with their context.

## 2. The project

### Modules

| module | what it is | proofs |
|---|---|---|
| `TurnProcessor` | one instance's engine: the order buffer and the thirteen steps of a turn | `TurnProcessorTypes`, `TurnProcessorPaths`, `TurnProcessorGame`, `TurnProcessorWar` |
| `PathLifecycle` | abstract: what the engine promises of a path; `TurnProcessor` implements it | |
| `Leadership` | several instances: the session topic, claims, heartbeats, the end of a game | `LeadershipProofs` |
| `OrderFlow` | several instances: an order from `POST /order` to the turn that executes it | `OrderFlowProofs` |
| `OrderBook` | abstract: what a player may rely on about orders; `OrderFlow` implements it | |
| `EventFlow` | one instance: an event from the engine to caches and browsers | `EventFlowProofs` |
| `RouteScores` | the pure algorithms of the analysis pipelines and of the map graph | |
| `Analysis` | the goroutines of the analysis pipelines, over `RouteScores` | `AnalysisProofs` |
| `ConfigLoader` | the line-by-line parser of `units.conf` | |
| `MC...` | the small worlds TLC checks, one module per system, one `.cfg` per run | |

### How they divide the system

The five state machines look at the same server from five sides. Each keeps in full the control
of its part and reduces the other parts to what reaches it: `TurnProcessor` has the rules of the
game and one writer; `OrderFlow` has all the races around the buffer and of the game only which
order was executed when; `EventFlow` has every topic and channel and of the game only where the
Ring Bearer is; `Leadership` has the clock. What one of them assumes of another is written down as
a constant (`Prompt`, `Lag`, `Overtaking`, `AwayTurns`), which a `.cfg` can change to see what it
protects, or as a history variable (`calm`, `overslept`, `startedAway`) that records when the
promise ends and lets the model go on past it.

| assumption | where it comes from |
|---|---|
| `TurnProcessor`: a late order is executed one turn later, or lost | `OrderFlow`: `BufferOrder` between `BeginTurn` and `FinishTurn`; `OrderBook` allows the next turn and no other |
| `OrderFlow`: one leader | `Leadership`: `AtMostOneLeader`, until a leader oversleeps |
| `OrderBook`: the leader acts on all that was published before (`calm`) | records take milliseconds and turns a minute; `OrderFlow` itself also goes on without it |
| `EventFlow`: one engine writes the topics | `Leadership`: `AtMostOneLeader`, as above |
| `TurnProcessor`: the public entry of the Ring Bearer is cleared by the returning broadcast | `EventFlow`: `CacheManager`, `AppliedWorld` |
| `TurnProcessor`: a game is started between two turns | `OrderFlow`: `NewGame`, anywhere in a turn; the turn's cache replacement then undoes it, see section 5 |

What further work could add: a lease for crashed instances that come back, under a condition on
who comes back when.

## 3. What is modelled

### `TurnProcessor`

| variable | code |
|---|---|
| `turn` | `TurnProcessor.currentTurn`, equal to the turn of the cache between turns |
| `phase` | where `AdvanceTurn` stands; `"collect"` between turns |
| `orders` | `pendingOrders` by unit; during a turn, what the steps have not taken yet |
| `late` | orders that will reach `bufferOrder` while `AdvanceTurn` runs |
| `units`, `paths`, `regions` | the maps of the cache; during a turn, of the snapshot |
| `rb` | the authoritative Ring Bearer state beside the public table |
| `maiaDisabled` | `corruptPathMaiaDisabledIDs` |
| `winner`, `gameOverSent` | `Session.GameOverWinner`; the flag the engine sets when it announces an end, reset by `Reset` only |
| `startedAway` | history: the last game was started at another instance |

| action | code |
|---|---|
| `BufferOrder` | `ValidateRawOrder` (guard `Valid`) and `bufferOrder`, a second order of the unit dropped |
| `BufferLateOrder` | the same while `AdvanceTurn` runs: validated on the old world, executed on the next |
| `BeginTurn` | the head of `AdvanceTurn`, `stepRouteOrders` |
| `BlockPath`, `SearchPath`, `RevertBlocked` | `stepBlockAndSearch`, order by order, and its revert loop |
| `DeployAndFortify` | `stepReinforceAndDeploy`, `stepFortify` |
| `MaiaAbility` | `stepMaiaAbilities`, `DispatchMaiaAbility` |
| `AutoAdvance` | `stepAutoAdvance`, with the exposure by surveillance |
| `AttackRegion` | `stepCombat`, `ResolveCombat`, `ApplyDamage`, one attack |
| `EndTurn` | the timers, respawn, detection, win conditions, `cache.Update`, `currentTurn++` |
| `ApplyBroadcast` | the returning broadcast (`ApplySnapshot`), which clears the public region of the Ring Bearer |
| `NewGame` | `handleGameStart` and `Reset` at the leader, between two turns |
| `NewGameElsewhere` | the same request at another instance: its broadcast and session record replace what is public in the leader's cache; blockers, timers, the Ring Bearer store, disabled Maias and `gameOverSent` stay |

Orders of a step are taken one by one in any order. A unit has at most one order and each order
belongs to one step, so this gives exactly what the possible orders of arrival give. Maps that
the code walks in Go's random order are updated as a whole where their entries do not interact.
`ASSIGN_ROUTE` and `REDIRECT_UNIT` are one order type, `ROUTE`, as the step treats them alike.
Sums and maxima in combat are written as cardinalities (the power of a side is the number of
pairs of a unit and a point of its effective strength), which needs no recursion and can be
proved about.

`PathLifecycle` says what the engine promises of a path, without orders or units but stage by stage
of a turn: blocked or watched more only by the orders of the path stage, released only at its end,
opened only in the Maia stage and out of `BLOCKED`, open for exactly two turn ends unless it is
blocked again, then `BLOCKED`; never watched less but in a new game, which starts between turns.
A turn end is a step of its own that counts for every open path, so that a timer that stands still
or runs out early is no behaviour of it. `TurnProcessor` implements it with
`road <- [p \in Path |-> Road(p)]` and `stage <- phase`.

### `Leadership`

| variable | code |
|---|---|
| `view` | session and turn in each instance's `WorldStateCache` |
| `active`, `sent` | `leaderRuntime.active`, `TurnProcessor.gameOverSent` |
| `pc`, `draft` | where the main goroutine is between two of its calls, and what it will write next |
| `queue`, `topic` | records of `game.session` on their way to each instance; what compaction keeps |
| `sinceTick`, `sinceStart`, `asleep` | the election ticker, `processStart`, the sleep before the GameOver message |
| `announced` | GameOver messages in `game.broadcast` |
| `led`, `returned` | history: who led under which epoch, who came back after a crash |
| `overslept` | history: has an engine slept in `produceGameOver` for longer than the lease leaves room for (`Nap`) |
| `deployment` | which containers run, which of them are started again after a crash, `MaxTurns` |

| action | code |
|---|---|
| `Bootstrap` | `bootstrapLeadership` |
| `Heartbeat`, `StepDown`, `StartRuntime`, `Claim`, `StandBy` | `manageLeadership`, one action per outcome of an election tick |
| `ApplyOwn` | the `UpdateSession` call after `publishSessionState` |
| `Deliver` | the state consumer and the cache manager: every field of the record is copied, its turn too |
| `NextTurn`, `PublishTurn`, `CacheUpdate` | `AdvanceTurn`: it reads the session, publishes the next turn after a second read (`produceSessionTurn`), then replaces the cache by what it read first |
| `Decide`, `Announce`, `PublishOver` | `produceGameOver`: the flag, the 15 s sleep, the transaction or its fallback (0, 1 or 2 messages: an error of the fallback is only logged), `produceGameOverSession` |
| `Crash`, `Restart` | a container dies and comes back; its group has committed all but perhaps the last record |
| `Tick` | time passes; due tickers, steps in progress and records come first |

Time is discrete and every record carries its age, capped just above the timeout where every
comparison is decided. A new game is left out here (it is in `OrderFlow` and `EventFlow`).

### `OrderFlow` and `OrderBook`

| variable | code |
|---|---|
| `cacheTurn`, `world` | each instance's cache: the turn and, of the world, the orders it has executed |
| `news` | records of `game.session` and `game.broadcast` on their way to it |
| `raw`, `owner`, `fetched`, `checked` | the partition of `game.orders.raw`, its consumer, its position, and whether the next order has passed validation |
| `seen` | `seenByTurn` of each instance |
| `javaPos`, `javaSeen` | position and `seen-orders-store` of the Kafka Streams topologies |
| `log`, `delivered` | `game.orders.validated`, and how far the engine has read it |
| `pending`, `currentTurn` | of `TurnProcessor` |
| `epc`, `playing` | where `AdvanceTurn` is; its snapshot and the orders it has taken |
| `calm` | history: has the leader always acted on all that was published before |

| action | code |
|---|---|
| `Submit` | `handleOrder`; the turn is the one some instance has shown the player |
| `Validate`, `Accept` | `RunOrderIngest`: `ValidateRawOrder` on one snapshot; prune, duplicate check and produce, which may fail, on the next |
| `Topologies` | topology 1 and 2 as the second writer of the validated topic |
| `MovePartition`, `Crash` | a rebalance, a crash; positions go back, or ahead of what was buffered |
| `BufferOrder`, `DropOrder` | `Run`, `bufferOrder`, `syncTurnLocked`; a full engine channel |
| `BeginTurn`, `TakeOrders`, `UpdateCache`, `FinishTurn` | `AdvanceTurn` in the four parts other goroutines can come between: its snapshot, the buffer under the lock, publication with the cache replaced, `currentTurn++` |
| `Heartbeat`, `ApplyNews` | a heartbeat repeats the turn of the leader's cache; a record sets the turn of a cache |
| `NewGame` | `POST /game/start` at any instance and at any point of `AdvanceTurn`; `onGameStart` resets the engine at the leader only |

`OrderBook` is what a player may rely on while the game is calm: turns in sequence, one order per
unit and turn, each executed in its turn or the next. `OrderFlow` implements it (`PlaysByTheBook`)
with the leader's cache as the book. The game is calm until the leader begins a turn, sends a
heartbeat or takes over with records before it that it has not applied, or a game is started while
a turn is being played or while such records are on their way. No action is disabled by it: what
must hold afterwards as well is stated without it (`OrdersInTime`, `TurnsGoOn`).

### `EventFlow`

| variable | code |
|---|---|
| `world`, `working` | the engine's game; `AdvanceTurn` between its last event and `cache.Update` |
| `unread` | each topic; the consumer may read the topics in any order relative to each other |
| `loaded`, `lost` | schemas the consumer has fetched; topics whose last record could not be decoded |
| `hand` | the event `routeEvent` holds and the channels it still has to send it to |
| `cache` | the instance's `WorldStateCache`: turn, public entry, Light view, Dark view, game over |
| `open`, `subs`, `inbox` | browsers, the hub's subscriptions, the channel of each |
| `heard`, `missed`, `audience` | history: who was told the end, whose channel was full, who was there |

| action | code |
|---|---|
| `AdvanceTurn`, `UpdateCache` | the events of a turn in the order they are produced, among them a spotting of step 7, a detection of step 12, both or neither; then `cache.Update` |
| `Heartbeat`, `NewGame` | as above |
| `SkipRecord` | `RunConsumer`: what cannot be decoded is logged and skipped |
| `RouterTakes` | the consumer decodes a record and `routeEvent` takes it |
| `CacheManager`, `HubForwards` | the blocking sends of `routeEvent`, the receivers: `applyEvent`, `RunSSEHub` with its dropping send |
| `Connect`, `Disconnect`, `HubSignsOff`, `Write` | `handleSSE` and the hub's register and unregister |

One instance is observed, the leader or a standby, with a browser of either side. `Stripped` is
`StripRingBearerFromSnapshot`, field by field: of a GameOver it leaves no winner. What the codec
loses is left out of the records (`Detection` has no kind). Buffers between goroutines are
rendezvous: a record in a buffer counts as one the goroutine before still holds.

### `RouteScores` and `Analysis`

`RouteScores` holds `computeRouteRisk`, the aggregator's insertion sort, `computeInterceptScore`
with the interception plan, and the graph's `ShortestTurns` (Dijkstra, by rounds) as operators.
`Analysis` holds the goroutines: `Trigger`, `Result`, `GiveUp` for the handler's request,
`Compute` for the dispatcher, `Feed`, `Carry`, `HandOver`, `Deliver` and their ends for feeder,
`orDone` and workers, `Close` for the closer, `Return` for the result channel of one. `Expire`
may end the context at any moment. Route risk and interception are two values of `kind`: they are
the same goroutines and share nothing.

### `ConfigLoader`

`LoadGameConfig` over a file of abstract lines (opens a block, closes one, items), as a step per
line.

## 4. Runs

| run | what it asks | bounds |
|---|---|---|
| `roads` | paths owned and on promise, hidden start, exposure over watched roads, true verdict | 2 orders a turn, 3 turns, routes up to 2, hidden for 2 turns |
| `late` | travel bookkeeping, capture, and that games end, with orders that come a turn late or are lost and games started at another instance | 1 order and 1 late order a turn, no searches, 3 turns, hidden for 1 turn; a start elsewhere in turn 2 or after the end, once |
| `battle` | unit life cycle, final destruction, garrisons, who bleeds, fortification, fall of Isengard | 2 orders a turn, 3 turns, no detection |
| `lease` | one leader, one per epoch, a dead one replaced, a second one gives way, the end recorded everywhere even if no message gets out | 3 instances that stay down after a crash and 1 turn, 2 and 2 turns, or 2 that come back and 1 turn; timeout and pause 8, a produce up to 1 longer, period 3, lag 1; 1 crash at any moment, 1 decision |
| `orderflow` | no engine plays two orders of a unit or one too early, calm turns by the book, what is buffered is played, turns go on | 2 instances, 1 unit, 2 turns played, 2 records on their way to an instance, 2 events (orders posted, crashes, rebalances, drops, heartbeats, new games) |
| `eventflow` | secrecy, caches converge, the end reaches listeners, no wedge | 1 browser of either side, 2 turns, 1 upset |
| `analysis` | each item scored once, right answers, no send on a closed channel, jobs end | 5 regions, 2 routes, 2 Nazgul, 2 workers, 2 requests |
| `ghost_blocker` | finding 1 | as `battle` |
| `bearer_hidden` | finding 2 | as `roads`, fewer orders |
| `bearer_walks` | finding 3 | as `late` |
| `gameover_twice` | finding 4 | 2 instances, 1 turn, timeout and pause 5, 1 crash |
| `config` | finding 5 | 3 units, one with a list over two lines |

**Worlds.** `MCTurnRoads` is a world where roads matter: a hidden walk from the Shire to Mount
Doom, directly over a path that takes two turns or through Bree, a wraith that blocks and
searches, a Maia that opens and one that corrupts. In `MCTurnBattle` regions matter: Isengard
between Rohan and Mordor, an indestructible leader with a bonus, a unit that dies, one that
respawns, one that ignores fortresses. `MCAnalysis` has an island no Nazgul can leave and a
shortest way with the most paths, so that `-1`, a stale heap entry and a relaxed distance all
occur.

**Why the bounds are enough.** Three turns are enough for a path to be blocked, opened, kept open
and closed again, for a unit to die and return (respawn takes two), for a two-turn journey with a
change of route, and for the draw. Two orders a turn let any two order types meet on one path or
in one region, in both orders. In `lease` a crash, the takeover and a second claimant fit in the
time the caps allow, and time itself is not bounded; timeout and pause are equal as in the code, so
that a standby claims beside the leader that sleeps, and a timeout of 8 leaves two periods, the lag
and a sleep of 1 before the lease is lost, where the code's 15 s leave about 9 s. There no produce
of the GameOver message succeeds (`Announcements = {0}`): nothing else reads the message, so that a
count of 1 or 2 only adds a number to each state. In `orderflow` two orders of a
unit meet as original and copy, as rivals, or as early and late, or one order meets a crash, a
rebalance, a drop, a heartbeat or a new game, or two of these meet each other, at every point; what
is kept of an order is kept by unit, so that a second unit adds its own copy of the same behaviours
(with two the three safety properties hold over 1,554,179 states). In `eventflow` two turns give a
record and its successor on every topic. What the proofs of section 6 show holds without these
bounds. All bounds are constants (`MaxOrders`, `MaxLate`, `MaxRoute`, `Menu`, `AwayTurns`,
`MaxTurns`, `MaxTurn`, `MaxNews`, `MaxEvents`, `MaxUpsets`, `MaxCrashes`, `MaxDecisions`,
`MaxProduce`, `MaxRequests`); `MaxTurns` of the turn engine and `maxTurns` of a deployment are the
program's own limit, the others bound the input.

**Sizes** (distinct states): `roads` 690,343, `battle` 585,630, `late` 444,421, `lease` 359,155,
`orderflow` 378,910, `eventflow` 1,068,703.

**Deadlock** is checked in the runs of `TurnProcessor` and in `lease`. The others may stop: all
turns played, all requests answered, the file read.

**Fairness.** What is assumed is that goroutines run, tickers fire and consumers poll; players,
crashes, rebalances, heartbeats, browsers and the clock of a timeout owe nothing.
* `GameEnds`: `WF(TurnStep)`; `AdvanceTurn` waits for nothing but the producer. It excepts
  behaviours with new games without end, which pre-empt every game, and the game `Stalled` names:
  started at another instance after the leader had announced an end, it is never advanced.
* `LeaderReturns`, `OneLeaderAgain`, `EndIsRecorded`: time passes and each instance's main goroutine
  and consumer step. A turn is not fair: whether an engine ever finds the game over is left open.
* `TurnsGoOn`, `BufferedIsPlayed`: the turn ticker and the state consumers.
* `Settles`: the ticker, `cache.Update`, the consumer, the router with its receivers, the handlers'
  writes. A browser that does not read makes the hub drop, and never wedges it.
* `JobEnds`: the dispatcher and its goroutines; not `Expire`, so that jobs end without the timeout.

**Under which conditions.** These are the settings a reader should know before relying on a run:
* `lease`: `AtMostOneLeader` and `OneLeaderPerEpoch` end with `overslept`. An engine oversleeps when
  the sleep of `produceGameOver` passes `Nap == Timeout - Lag - 2 * ElectionPeriod`: the heartbeat
  before it may be a period old, the standby sees it `Lag` late, claims, and starts a period later.
  The model goes on from there, with two engines side by side: without any crash TLC finds them in
  27 steps, and two that share an epoch in 29. `OneLeaderAgain` and `EndIsRecorded` have no such
  exception. The run also has `2 * Lag < ElectionPeriod` and a record that does not overtake its
  publisher's own `UpdateSession` (`Overtaking = FALSE`; the producer lingers 5 ms).
* A preferred instance that comes back with an empty cache claims at once (`claimWindowReached`)
  and runs beside the leader it takes over from, until that one's next election tick.
  `AtMostOneLeader` and `OneLeaderPerEpoch` are therefore claimed until the preferred instance has
  returned, and `OneLeaderAgain` says that of two engines one always steps down, although the one
  that lost the session may name itself again with the turn it closes. With two crashes
  (`MaxCrashes = 2`) the former is not true of the others either: a former leader whose consumer
  group brings it its own last record starts beside its successor. The run has one crash; the
  theorem of section 6 allows any number, of instances that stay down.
* `orderflow`: `PlaysByTheBook` promises nothing once the game is no longer `calm`. Without it a
  heartbeat published before a turn and applied after it rolls the leader's turn back, a new leader
  may play a turn again, and a new game started while `AdvanceTurn` runs is overwritten by the old
  one. `OrdersInTime` holds all the same. `BufferedIsPlayed` starts between two turns from a leader
  that has applied its records and whose counter is in step with its cache, and ends with the next
  upset: an order that arrives between `cache.Update` and `currentTurn++`, one that cannot be
  produced, one the router drops or one whose offset was committed before a crash is lost, and no
  document forbids it.
* `eventflow` has `Prompt = TRUE` and `Lag = 0`: the leader acts, and a new game starts, when the
  records before are handled. Otherwise a stale position after a new game leaves the Light view
  wrong. The leader's own public entry is excepted from `SecretKept` (finding 2), and its Dark view
  from `CaughtUp`, because `cache.Update` discards detections that arrived during the turn.

**Mutants.** Beside a definition of the code the module keeps, as `Mut...`, a form with a bug one
could plausibly make (a missing cap, a forgotten reset, a timer off by one, a dropped guard, a
blocking send, a result that is not taken out). Each property is violated under one of them: see
`mutants` in `PROJECT.json`.

## 5. Findings

1. `ghost_blocker`: a path stays `BLOCKED` after its blocker is destroyed. The revert loop
   compares the region of the blocker, and a destroyed unit keeps its region.
   (`docs/project-specification.md:174` promises that the path reverts.)
2. `bearer_hidden`: the public unit table of the leader's cache holds a region for the Ring Bearer
   from the end of a turn in which it walks until the broadcast comes back.
   (`docs/project-specification.md:448`: always `""`.)
3. `bearer_walks`: a route order that arrives while `AdvanceTurn` runs is executed a turn later
   from wherever the Ring Bearer then is, and takes it to a region no path leads to.
   (`docs/project-specification.md:446`, and rule 1 of line 674.)
4. `gameover_twice`: a leader that crashes between its GameOver message and the session record
   that says the game is over leaves a successor that announces the game over again.
   (`docs/project-specification.md:707`: exactly once, even if the engine crashes.)
5. `config`: the loader drops the fields on the last line of a unit block and all but the first
   line of a list. With the shipped `units.conf` Gondor cannot fortify, the Uruk-hai respect
   fortresses and Maia have no cooldown. (`config.go:3`, `docs/project-specification.md:241`.)

Smaller observations made while modelling, which the hazards in `PROJECT.json` place: a GameOver
reaches the Dark Side without winner or cause; a spotting overwrites the last detected region with
an empty one; the unit, region and path topics stay silent because a turn's deltas compare a map
with itself; two analysis requests within 50 ms share one computation, and the second waits for
504; a result nobody took keeps the next one out of the channel (the comment at `route_risk.go:117`
says the last one is kept); a new leader has no Ring Bearer store, routes or fortifications. And
where a property carries an exception:

* A game started at a standby after the leader has announced an end is never advanced: only the
  leader's own `onGameStart` resets `gameOverSent` (`Stalled`). One that is started there in the
  middle of a game goes on with the old blockers, timers and Ring Bearer store.
* The timer of an opened path restores `BLOCKED` from `blockedByUnitId` whether or not the blocker is
  still there (step 9); `docs/project-specification.md:325`, `:551-552`, `:876-877` and `:997` say
  only while it is. For a blocker that has moved away the next step 3 corrects it, so that it shows
  between two turns; for one that was destroyed at its post it is finding 1.
* While the leader of a decided game sleeps, a standby claims and two engines run without any crash,
  under one epoch if the claim is late; the record such a claim publishes can take back the recorded
  end for everyone until the sleeper publishes its own.
* If the transaction and the plain produce of GameOver both fail, the game is over in `game.session`
  and nobody was told by `game.broadcast`.
* A game started while `AdvanceTurn` runs is undone when it replaces the cache, and an order between
  `cache.Update` and `currentTurn++` makes the next one look like a new game: the buffer is dropped,
  although the comment in `syncTurnLocked` means only new games by a lower turn.

## 6. Proofs

| module | theorem | says |
|---|---|---|
| `TurnProcessorTypes` | `TypeCorrect` | `Spec => []TypeOK` |
| `TurnProcessorPaths` | `ClosedPathsOwned` | `Spec => []ClosedPathsAreOwned` |
| | `PathsImplementPromise` | `Spec => PathsKeepTheirPromise`, the refinement of `PathLifecycle` |
| `TurnProcessorGame` | `HiddenAtStart` | `Spec => []HiddenStart` |
| | `VerdictIsTrue` | `Spec => []VerdictMatchesWorld` |
| | `UnitsLiveByTheRules` | `Spec => []UnitLifecycle` |
| `TurnProcessorWar` | `TravellersKeepToRoute` | `Spec => []TravelOnRoute` |
| | `CaughtMeansLost` | `Spec => []NoNazgulBesideBearer` |
| | `FortressesLastTwoTurns` | `Spec => []FortifiedForTwoCombats` |
| | `FallenIsengardIsSilent` | `Spec => []IsengardFallSilences`, if the map has an Isengard |
| | `WatchedRoadsExpose` | `Spec => WatchedRoadExposes` |
| | `ConquestsAreHeld` | `Spec => ConquestLeavesGarrison` |
| | `DestructionIsFinal` | `Spec => DestroyedIsFinal` |
| | `OneSidePays` | `Spec => OnlyLosersBleed` |
| `LeadershipProofs` | `TypeCorrect` | `Spec => []TypeOK` |
| | `OneLeaderAtATime` | `Spec => []AtMostOneLeader`, if `LeaseConditions` |
| | `EpochsHaveOneLeader` | `Spec => []OneLeaderPerEpoch`, if `LeaseConditions` |
| `OrderFlowProofs` | `TypeCorrect` | `Spec => []TypeOK` |
| | `OrdersAreInTime` | `Spec => []OrdersInTime` |
| | `ImplementsTheBook` | `Spec => PlaysByTheBook`, the refinement of `OrderBook` |
| `EventFlowProofs` | `TypeCorrect` | `Spec => []TypeOK` |
| | `SecretIsKept` | `Spec => []SecretKept` |
| | `CachesCatchUp` | `Spec => []CaughtUp`, if `Prompt` |
| | `EndIsHeard` | `Spec => []EndReachesListeners` |
| `AnalysisProofs` | `TypeCorrect` | `Spec => []TypeOK` |
| | `NothingLostOrScoredTwice` | `Spec => []EachScoredOnce` |
| | `NeverSendsOnClosed` | `Spec => []NoSendOnClosed` |
| | `AnswersInOrder` | `Spec => []ServedInOrder` |
| | `AnswersAreRight` | `Spec => []AnswerIsRight` |
| | `TurnsAreShortest` | `Spec => []ShortestIsShortest` |

They hold for every value of the constants that the named assumptions of the modules allow: every
finite roster and map, every length of a game, any number of instances, connections, requests and
workers, every timing, and every bound on input and upsets. `WorldAssumption` of `OrderFlow` says
that what stands for "no world" in a session record is not a world. `MapAssumption` and
`AnalysisAssumption` say that the map is finite, paths cost at least one turn, there are canonical
routes, none of them empty, and the pool has a worker: `canonicalRoutes` has four routes, and both
pipelines start four workers.

**Turn engine: types.** One lemma per action. The point that is not routine is that the damage of
an attack is a number: the powers are cardinalities, so the sets they count must be finite, which
follows from a finite roster; and an attack must name a region, which validation sees to and
`ParsedOrder` records.

**Turn engine: paths.** `PathMoves` reduces every action to one of a few moves of each single path
between two stages. `ClosedPathsAreOwned` is inductive given the types, but the refinement is not
provable from it alone: the abstract timer runs 2, 1, 0 and is back at `BLOCKED`, while the code's
counter is any natural number and its step 9 asks for a blocker, so `PathInv` has both: an opened
path has a blocker on record and one or two turns to go. Each move is then shown to keep `PathInv`
(`MoveKeepsPath`) and to be a move the promise makes in that stage (`MoveKeepsPromise`).

**Turn engine: the end of the game.** `VerdictMatchesWorld` speaks of the final world and would be
broken by any later step. `EndInv` adds `OverBetweenTurns`: a game that is over is between turns,
where only a new game can start, and `ExposedWithinTurn`: only an announced end leaves the Ring
Bearer exposed between turns. `HiddenStart` needs that both exposures test the turn and that the
turn is incremented only when the game goes on.

**Turn engine: units.** `UnitLifecycle` is inductive; what needs showing is that damage is positive
and hits active units only, that no other step touches strength, status or respawn counter, and
that the counter never reaches zero while a unit waits.

**Turn engine: travel and battle.** `UnitMove` lists what a step may do to one unit, and similar
lemmas what it may do to the Ring Bearer and to a region's control; each theorem then looks at these
moves only. `TravelOnRoute` and `IsengardFallSilences` are inductive given the types;
`FortifiedForTwoCombats`, which fixes the number of combats left after every step, needs
`FortifiedInTime`: a fortified region has one combat to go between turns and never none. For `NoNazgulBesideBearer` the proof follows the order inside `EndTurn`: who stands in the
Ring Bearer's region is within every detection range, so detection exposes it and the verdict is
Shadow's. That a region is within range of itself needs that the breadth-first search ball of any
radius exists, by least counterexample (`BallExists`). The action properties follow from the same
moves, step by step.

**Leadership: whatever the timing.** Types need `DecidedInv`: who is about to announce the end has
played a turn, so that the turn it publishes is a number.

**Leadership: the lease.** `LeaseConditions` names what is assumed: a preferred instance is
configured, `~Overtaking`, `2 * Lag < ElectionPeriod`, `2 * ElectionPeriod + Lag <= Timeout`, and
nobody who crashed comes back. The code's 3 s and 15 s meet them, with records that take less than
1.5 s; the sleep before GameOver is not among them. The theorems hold up to the moment a sleep
passes `Nap` (`overslept`), which in the code's numbers is about 9 s into the 15 s sleep of the turn
that ends the game, and say nothing after it: there the property is false, see section 4.
`AtMostOneLeader` is far from inductive: nothing in a state with one engine says that no other claims. `LeaseInv` says that the
session is in one of three conditions. *Silent*: nobody has claimed. *Led* by `i`: the last record and
every record on its way name `i` under one epoch; the last one is no older than `i`'s ticker, and its
sleep, can have made it (`Slack`); every other cache has applied it, or still has a record coming
before which it cannot become stale (`Expecting`); so nobody claims. *Contest*: no engine runs and
several may claim; a claim is exactly as old as its claimant's ticker, and every other instance has
heard of it or will, and claims made after it are at most `Lag` younger (`Rival`, `Informed`), so
that whoever finds itself named a period later is named by the last record and has been heard by all.
A crash of the leader leads from *Led* to *Contest*, `StartRuntime` back.
`OneLeaderPerEpoch` is part of the invariant: every epoch somebody led under is below the last
record's, and nobody claims before its cache knows it. TLC found `overslept \/ LeaseInv` to hold on
three instances with two crashes.

**Orders.** Types need `CheckedInv`: after a crash or rebalance has moved the position, no order
that is not there is taken as checked. `OrdersInv` is the invariant of the buffer, with no assumption
on the caches: it holds one order of a unit and none of a turn beyond `currentTurn`, whatever that is,
because a lower turn empties it and a higher one keeps it in order (`KeptInOrder`, `LaterInOrder`).
The refinement rests on `BookInv`, which is about calm games and has two halves. `ReplicaInv`: what
an instance lacks of the leader's turn and world is among the records on their way to it, so that
one that has applied them all continues the book; or a game was started elsewhere and its record is
the last on its way to everyone, the leader included. `EngineInv`: buffered orders are of this turn
or the last, and while a turn is played they are of that turn only, which is why none is ever played
two turns late. Then only `UpdateCache`, `NewGame` at the leader and `ApplyNews` of a start are steps
of the book (`Play`, `NewGame`), a crash of the leader in the middle of a turn is a stutter. TLC found
both invariants to hold in the world of the run before they were proved.

**Events.** `SecretInv` follows each record: every topic holds only what is written to it, a record
in the router's hand is left only for channels that may have it, an inbox holds only what its side
may be shown, and a standby's public entry is nowhere. `NewsInv` is about the *last* record of each
topic: it says what is true now, or a younger one is behind it (`Current`, `Newest`), so that
what a cache does not know is on its way; `Prompt` makes the leader act on a cache that knows the
turn. `EndInv` places the news of the end: in the topic, in the router's hand for that side, or with
the listener.

**Analysis: the goroutines.** `WorkersInv` ties the open channel to the workers that run;
`ResultsInv` says that answers were computed in order, that a waiting result is younger than all of
them and that the jobs to come are younger still. `QueueTypes` and `WorkTypes` bound the channels;
`OnceInv` says that the places a piece of work can be in exclude each other and, until the context
ends, that every piece is in one of them.

**Analysis: the answers.** `StagesInv` says that while the context lasts a stage ends only after the
one before it and with nothing left, so that with `OnceInv` a result whose context lasted has scored
all work (`CompleteInv`); TLC found both to hold before they were proved. The rest is about the
operators. That a recursive function exists, and what holds of its values, is shown by induction
over a set of numbers (`Upwards`, from the least member of a set); the library's induction theorems
take an operator as a parameter, which the provers cannot instantiate. `SumExists`, `PartialSums`
and `SumTakes` do the same for `FoldFunction`. `InsertionRanks` is one round of the insertion sort,
which places a score after those it passes (`PassedFirst`); scores of different routes come
out ranked in whatever order they went in. For the plan, `BeatsOrders` shows that comparing points
by cross products is an order, so that one chance of each unit is the first of the best
(`FirstOfTheBest`).

**Analysis: the shortest way.** `SearchInv` is the invariant of the rounds of Dijkstra's algorithm: a
region is settled once its item has left the heap; settled items are no dearer than those in the heap,
their neighbours are held at no more than the way over them costs, and every item has a walk over
settled regions that comes nowhere twice (`Reached`). The last gives a chain short enough to be
among `Chains`, the others that no walk is cheaper (`FrontOfWalk`). Stale items, which
the code leaves in its heap, cost a round each: `Left` counts the heap and the ends of paths not
yet looked at, and falls with every round (`StaleRound`, `FreshRound`), so that the bound on the
rounds in the model, one more than all ends, never cuts the loop of the code short.

**Only model-checked.** Liveness (`GameEnds`, `LeaderReturns`, `OneLeaderAgain`, `TurnsGoOn`,
`BufferedIsPlayed`, `EndIsRecorded`, `Settles`, `JobEnds`) is out of the prover's reach. All other
properties of the passing runs are theorems; those with a condition in the table are checked by the runs in the setting the condition
describes. The lease with instances that come back is checked by the run `lease` only, where it holds
until the preferred one has returned.

## 7. Not modelled

* Browser UI (`src/ui`): rendering and the order form. Its reconnects are connections of `EventFlow`.
* `LoadMapConfig`: one entry per line and no state between lines; its result is `PathConfig`.
* `GET /orders/available` and `/health`: they read one snapshot and change nothing.
* `RegionsWithinHops`, `ShortestPath` of the map graph: no caller outside the tests.
* The Avro encoding byte by byte: modelled is what survives it, and that a record cannot be decoded
  while the schema registry is away.
* The rules of the Java validator beyond duplicates: they repeat those of the Go ingest on a store
  that lags, so `Topologies` may accept or refuse any order its duplicate store does not know.
* `UpdateUnit`, `UpdateRegionControl`, `UpdatePath` of the cache: they serve the silent topics.
* Kafka itself is external: order within a partition, redelivery after a commit that came too early
  or too late, compaction and consumer groups are modelled as the Go code meets them; brokers do
  not fail.
* A game started inside a turn is in `OrderFlow` (orders and turns) only; `TurnProcessor`, with the
  whole world, takes starts between turns, at the leader or at another instance.
* What a new leader lacks of the world (Ring Bearer store, routes, fortifications): each module
  keeps a part of the state, and none has both a takeover and the full world.
