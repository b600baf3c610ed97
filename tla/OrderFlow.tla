----------------------------- MODULE OrderFlow -----------------------------
(***************************************************************************)
(* The way of an order: POST /order writes it to game.orders.raw, the Go   *)
(* ingest (kafkaclient/order_ingest.go) and the Kafka Streams topologies   *)
(* both validate it and write it to game.orders.validated, the leader's    *)
(* work consumer and the event router carry it to the engine, and          *)
(* TurnProcessor buffers it until AdvanceTurn executes it.                 *)
(*                                                                         *)
(* Of an order only the unit and the turn are kept; of the world, the      *)
(* orders it has executed.  Raw orders of one player share a partition,    *)
(* which one instance at a time consumes.  Channels between a consumer and *)
(* its goroutine are part of the topic: an order is taken when the         *)
(* goroutine takes it, and an offset may be committed ahead of that.       *)
(***************************************************************************)
EXTENDS Integers, Sequences, FiniteSets

CONSTANTS
  Instance,           \* the Go instances
  FirstLeader, FirstOwner, Unit,
  NoWorld,            \* what a session record, which carries no world, has in its place
  MaxTurn,            \* bound on the turns
  MaxNews,            \* bound on the records on their way to an instance
  MaxEvents           \* bound on orders and on crashes, rebalances, drops, heartbeats, new games

ASSUME InstanceAssumption == {FirstLeader, FirstOwner} \subseteq Instance

ASSUME BoundAssumption ==
  /\ {MaxTurn, MaxNews, MaxEvents} \subseteq Nat
  /\ MaxTurn > 0

VARIABLES
  up, leader,
  cacheTurn,    \* the turn in each instance's cache
  world,        \* the orders executed in the world each instance has
  news,         \* records of game.session and game.broadcast on their way
  raw, owner,   \* game.orders.raw and the instance that consumes it
  fetched,      \* raw orders RunOrderIngest has taken
  checked,      \* has the next one passed ValidateRawOrder?
  seen,         \* seenByTurn
  javaPos, javaSeen, \* the Kafka Streams topologies: position and seen-orders-store
  log,          \* game.orders.validated
  delivered,    \* what the engine has taken of it
  pending, currentTurn,
  epc, playing, \* where AdvanceTurn is; its snapshot and the orders it took
  upsets,       \* how often something happened that need not
  calm          \* history: has the leader always acted on all that was published before?

replicas == <<up, leader, cacheTurn, world, news>>
ingest == <<raw, owner, fetched, checked, seen>>
topologies == <<javaPos, javaSeen>>
engine == <<delivered, pending, currentTurn, epc, playing>>
vars == <<replicas, ingest, topologies, log, engine, upsets, calm>>

Order == [unit : Unit, turn : Nat]
Played == [unit : Unit, turn : Nat, at : Nat]
Record == [turn : Nat, world : Seq(Played) \cup {NoWorld}]

ASSUME WorldAssumption == NoWorld \notin Seq(Played)

\* AdvanceTurn between two turns.
NotPlaying == [turn |-> 1, world |-> <<>>, orders |-> <<>>]

MayHappen == Len(raw) + upsets < MaxEvents

\* Something that need not happen happens.
Upset == MayHappen /\ upsets' = upsets + 1
-----------------------------------------------------------------------------
Init ==
  /\ up = [i \in Instance |-> TRUE]
  /\ leader = FirstLeader
  /\ cacheTurn = [i \in Instance |-> 1]
  /\ world = [i \in Instance |-> <<>>]
  /\ news = [i \in Instance |-> <<>>]
  /\ raw = <<>> /\ owner = FirstOwner
  /\ fetched = 0 /\ checked = FALSE
  /\ seen = [i \in Instance |-> {}]
  /\ javaPos = 0 /\ javaSeen = [u \in Unit |-> 0]
  /\ log = <<>>
  /\ delivered = 0
  /\ pending = <<>> /\ currentTurn = 1
  /\ epc = "idle" /\ playing = NotPlaying
  /\ upsets = 0 /\ calm = TRUE

\* POST /order: whatever the body says, for the turn some instance has shown the player.
Submit(u) ==
  /\ MayHappen
  /\ cacheTurn[leader] < MaxTurn
  /\ \E i \in Instance : raw' = Append(raw, [unit |-> u, turn |-> cacheTurn[i]])
  /\ UNCHANGED <<replicas, owner, fetched, checked, seen, topologies, log, engine, upsets, calm>>

-----------------------------------------------------------------------------
NextRaw == raw[fetched + 1]

\* ValidateRawOrder on one snapshot of the cache: of its rules only the turn matters here.
Validate ==
  /\ fetched < Len(raw) /\ ~checked
  /\ \/ NextRaw.turn = cacheTurn[owner] /\ checked' = TRUE /\ UNCHANGED fetched
     \/ NextRaw.turn # cacheTurn[owner] /\ fetched' = fetched + 1 /\ UNCHANGED checked
  /\ UNCHANGED <<replicas, raw, owner, seen, topologies, log, engine, upsets, calm>>

Pruned(table, turn) == {entry \in table : entry[2] >= turn}

\* The rest of RunOrderIngest reads the cache again: prune, duplicate check, produce.  An order
\* that cannot be written is in the table of duplicates all the same.
Accept ==
  /\ checked
  /\ LET kept == Pruned(seen[owner], cacheTurn[owner])
         entry == <<NextRaw.unit, NextRaw.turn>>
     IN /\ seen' = [seen EXCEPT ![owner] = kept \cup {entry}]
        /\ \/ entry \notin kept /\ log' = Append(log, NextRaw)
           \/ UNCHANGED log
  /\ fetched' = fetched + 1
  /\ checked' = FALSE
  /\ UNCHANGED <<replicas, raw, owner, topologies, engine, upsets, calm>>

\* The offset is committed as if one record more had been read.
MutTakeover(j) ==
  /\ owner' = j
  /\ fetched' \in 0 .. Len(raw) + 1
  /\ checked' = FALSE

\* Offsets are committed every five seconds: the next owner of the partition may begin
\* before what was processed, or after orders its last owner had only received.
Takeover(j) ==
  /\ owner' = j
  /\ fetched' \in 0 .. Len(raw)
  /\ checked' = FALSE

MovePartition(j) ==
  /\ Upset
  /\ up[j] /\ j # owner
  /\ Takeover(j)
  /\ UNCHANGED <<replicas, raw, seen, topologies, log, engine, calm>>

\* The topologies validate the same raw orders against a session store that is behind by any
\* amount.  Topology 1 writes a route without a risk score, which parseValidatedOrder refuses,
\* and topology 2 writes it once more with one: either way one usable copy, some time later.
Topologies ==
  /\ javaPos < Len(raw)
  /\ javaPos' = javaPos + 1
  /\ LET order == raw[javaPos + 1] IN
       \/ /\ javaSeen[order.unit] # order.turn
          /\ javaSeen' = [javaSeen EXCEPT ![order.unit] = order.turn]
          /\ log' = Append(log, order)
       \/ UNCHANGED <<javaSeen, log>>
  /\ UNCHANGED <<replicas, ingest, engine, upsets, calm>>

-----------------------------------------------------------------------------
MutKeptOrders(turn) == pending

\* syncTurnLocked: a lower turn in the cache means a new game, whose buffer is empty.
KeptOrders(turn) == IF turn < currentTurn THEN <<>> ELSE pending

MutMayBuffer(order, orders, turn) == order.turn = turn

MayBuffer(order, orders, turn) ==
  /\ order.turn = turn
  /\ \A k \in DOMAIN orders : orders[k].unit # order.unit

\* The router hands the next order to Run and bufferOrder, in a goroutine of its own that may
\* meet AdvanceTurn anywhere.
BufferOrder ==
  /\ delivered < Len(log)
  /\ delivered' = delivered + 1
  /\ LET turn == cacheTurn[leader]
         kept == KeptOrders(turn)
         order == log[delivered + 1]
     IN /\ currentTurn' = turn
        /\ pending' = IF MayBuffer(order, kept, turn) THEN Append(kept, order) ELSE kept
  /\ UNCHANGED <<replicas, ingest, topologies, log, epc, playing, upsets, calm>>

\* A full engine channel: the router drops the order.
DropOrder ==
  /\ Upset
  /\ delivered < Len(log)
  /\ delivered' = delivered + 1
  /\ UNCHANGED <<replicas, ingest, topologies, log, pending, currentTurn, epc, playing, calm>>

Room == \A i \in Instance : Len(news[i]) < MaxNews
Announced(record) == [i \in Instance |-> IF up[i] THEN Append(news[i], record) ELSE news[i]]

\* The game stays calm if i, which acts as the leader, has applied all its records.
CalmIf(i) == calm' = (calm /\ news[i] = <<>>)

MutBeginTurn ==
  /\ epc = "idle" /\ pending # <<>>
  /\ cacheTurn[leader] < MaxTurn
  /\ playing' = [turn |-> cacheTurn[leader], world |-> world[leader], orders |-> <<>>]
  /\ epc' = "read"
  /\ CalmIf(leader)
  /\ UNCHANGED <<replicas, ingest, topologies, log, delivered, pending, currentTurn, upsets>>

\* AdvanceTurn takes its snapshot of the cache ...
BeginTurn ==
  /\ epc = "idle"
  /\ cacheTurn[leader] < MaxTurn
  /\ playing' = [turn |-> cacheTurn[leader], world |-> world[leader], orders |-> <<>>]
  /\ epc' = "read"
  /\ CalmIf(leader)
  /\ UNCHANGED <<replicas, ingest, topologies, log, delivered, pending, currentTurn, upsets>>

MutTakeOrders ==
  /\ epc = "read"
  /\ currentTurn' = playing.turn
  /\ pending' = <<>>
  /\ playing' = [playing EXCEPT !.orders = pending']
  /\ epc' = "steps"
  /\ UNCHANGED <<replicas, ingest, topologies, log, delivered, upsets, calm>>

\* ... and then, under the lock, the buffer.
TakeOrders ==
  /\ epc = "read"
  /\ currentTurn' = playing.turn
  /\ playing' = [playing EXCEPT !.orders = KeptOrders(playing.turn)]
  /\ pending' = <<>>
  /\ epc' = "steps"
  /\ UNCHANGED <<replicas, ingest, topologies, log, delivered, upsets, calm>>

Executed(w, turn, orders) ==
  w \o [k \in DOMAIN orders |-> [unit |-> orders[k].unit, turn |-> orders[k].turn, at |-> turn]]

\* It executes the orders on its snapshot, publishes the result and replaces the cache,
\* whatever has happened to the cache since.
UpdateCache ==
  /\ epc = "steps"
  /\ Room
  /\ LET after == Executed(playing.world, playing.turn, playing.orders) IN
       /\ world' = [world EXCEPT ![leader] = after]
       /\ news' = Announced([turn |-> playing.turn + 1, world |-> after])
  /\ cacheTurn' = [cacheTurn EXCEPT ![leader] = playing.turn + 1]
  /\ playing' = NotPlaying
  /\ epc' = "bump"
  /\ UNCHANGED <<up, leader, ingest, topologies, log, delivered, pending,
                 currentTurn, upsets, calm>>

\* currentTurn++, even if bufferOrder has just synchronised it.
FinishTurn ==
  /\ epc = "bump"
  /\ currentTurn' = currentTurn + 1
  /\ epc' = "idle"
  /\ UNCHANGED <<replicas, ingest, topologies, log, delivered, pending, playing, upsets, calm>>

-----------------------------------------------------------------------------
\* The leader's heartbeat, by the goroutine that runs AdvanceTurn, repeats the turn of its cache.
Heartbeat ==
  /\ epc = "idle"
  /\ Upset /\ Room
  /\ news' = Announced([turn |-> cacheTurn[leader], world |-> NoWorld])
  /\ CalmIf(leader)
  /\ UNCHANGED <<up, leader, cacheTurn, world, ingest, topologies, log, engine>>

\* An instance applies the next record; a session record sets the turn, whatever it was.
ApplyNews(i) ==
  /\ news[i] # <<>>
  /\ up[i]
  /\ cacheTurn' = [cacheTurn EXCEPT ![i] = Head(news[i]).turn]
  /\ world' = [world EXCEPT ![i] = IF Head(news[i]).world = NoWorld THEN @ ELSE Head(news[i]).world]
  /\ news' = [news EXCEPT ![i] = Tail(@)]
  /\ UNCHANGED <<up, leader, ingest, topologies, log, engine, upsets, calm>>

\* POST /game/start at instance i, in a goroutine of its own, also while AdvanceTurn runs: only
\* the leader has a TurnProcessor to reset.
NewGame(i) ==
  /\ Upset /\ Room
  /\ up[i]
  /\ cacheTurn' = [cacheTurn EXCEPT ![i] = 1]
  /\ world' = [world EXCEPT ![i] = <<>>]
  /\ news' = Announced([turn |-> 1, world |-> <<>>])
  /\ IF i = leader THEN pending' = <<>> /\ currentTurn' = 1 ELSE UNCHANGED <<pending, currentTurn>>
  /\ calm' = (calm /\ news[leader] = <<>> /\ epc \in {"idle", "bump"})
  /\ UNCHANGED <<up, leader, ingest, topologies, log, delivered, epc, playing>>

\* An instance dies; its partition and, once its lease is over, its leadership move.  The new
\* work consumer resumes at the committed offset: CommitProcessedOffsets commits all that was
\* delivered, buffered or not, and after an error leaves the offset where it was.
Crash(i) ==
  /\ Upset
  /\ up[i]
  /\ up' = [up EXCEPT ![i] = FALSE]
  /\ news' = [news EXCEPT ![i] = <<>>]
  /\ seen' = [seen EXCEPT ![i] = {}]
  /\ \E j \in Instance \ {i} :
       /\ up[j]
       /\ IF i = owner THEN Takeover(j) ELSE UNCHANGED <<owner, fetched, checked>>
       /\ \/ i # leader /\ UNCHANGED <<leader, engine, calm>>
          \/ /\ i = leader
             /\ CalmIf(j)
             /\ leader' = j
             /\ delivered' \in 0 .. Len(log)
             /\ pending' = <<>> /\ currentTurn' = 1
             /\ epc' = "idle" /\ playing' = NotPlaying
  /\ UNCHANGED <<cacheTurn, world, raw, topologies, log>>

Turn == BeginTurn \/ TakeOrders \/ UpdateCache \/ FinishTurn

Next ==
  \/ \E u \in Unit : Submit(u)
  \/ Validate \/ Accept \/ Topologies
  \/ \E i \in Instance : MovePartition(i) \/ Crash(i) \/ NewGame(i) \/ ApplyNews(i)
  \/ BufferOrder \/ DropOrder
  \/ Turn
  \/ Heartbeat

\* The turn ticker fires and records arrive.
Fairness == WF_vars(Turn) /\ \A i \in Instance : WF_vars(ApplyNews(i))
Spec == Init /\ [][Next]_vars /\ Fairness

-----------------------------------------------------------------------------
\* Type invariant: every topic, channel and table holds values of its kind, no position lies
\* beyond its topic, and an order that passed ValidateRawOrder is still there to be accepted.
TypeOK ==
  /\ up \in [Instance -> BOOLEAN] /\ leader \in Instance /\ owner \in Instance
  /\ cacheTurn \in [Instance -> Nat]
  /\ world \in [Instance -> Seq(Played)]
  /\ news \in [Instance -> Seq(Record)]
  /\ raw \in Seq(Order) /\ log \in Seq(Order) /\ pending \in Seq(Order)
  /\ fetched \in 0 .. Len(raw) /\ javaPos \in 0 .. Len(raw) /\ delivered \in 0 .. Len(log)
  /\ checked \in BOOLEAN /\ (checked => fetched < Len(raw))
  /\ currentTurn \in Nat /\ upsets \in Nat /\ calm \in BOOLEAN
  /\ seen \in [Instance -> SUBSET (Unit \X Nat)]
  /\ javaSeen \in [Unit -> Nat]
  /\ epc \in {"idle", "read", "steps", "bump"}
  /\ playing \in [turn : Nat, world : Seq(Played), orders : Seq(Order)]

Book == INSTANCE OrderBook WITH book <- world[leader], turn <- cacheTurn[leader]

\* Whatever AdvanceTurn has taken, it holds one order of a unit and none of a turn to come:
\* however late the caches, wherever games are started, and although an order arrives as two
\* or three copies, again after a crash, while two goroutines move currentTurn back and forth.
OrdersInTime ==
  /\ Book!Distinct(playing.orders)
  /\ \A k \in DOMAIN playing.orders : playing.orders[k].turn <= playing.turn

\* As long as the game is calm, turns are played in sequence with one order per unit, each in
\* its turn or the next, although orders arrive anywhere in AdvanceTurn and again after a crash,
\* the other instances lag behind, and a new game may be started at any of them.
PlaysByTheBook == Book!Spec

\* The unit has executed an order in the last turn.
JustPlayed(unit) ==
  \E k \in DOMAIN world[leader] :
    world[leader][k].unit = unit /\ world[leader][k].at = cacheTurn[leader] - 1

\* An order buffered for the coming turn, between two turns of a leader that has applied its
\* records, is executed in that turn, unless the leader dies, the topic's partitions move, a
\* game is started or a heartbeat repeats a turn meanwhile.
BufferedIsPlayed ==
  \A unit \in Unit, n \in 0 .. MaxEvents - 1 :
    /\ epc = "idle" /\ news[leader] = <<>>
    /\ currentTurn = cacheTurn[leader] /\ currentTurn < MaxTurn
    /\ \E k \in DOMAIN pending : pending[k].unit = unit
    /\ upsets = n
    ~> upsets > n \/ JustPlayed(unit)

\* No mixture of late orders, stale records, overshooting counters and replays stops the turns.
TurnsGoOn == <>(cacheTurn[leader] = MaxTurn)
=============================================================================
