-------------------------- MODULE OrderFlowProofs ---------------------------
(***************************************************************************)
(* The way of an order for any number of instances, units, orders, crashes *)
(* and rebalances: what the engine takes from its buffer, and what it      *)
(* plays as long as the game is calm.                                      *)
(***************************************************************************)
EXTENDS OrderFlow, SequenceTheorems, TLAPS

-----------------------------------------------------------------------------
(* Types, action by action.                                                *)

LEMMA AppendType == \A S : \A s \in Seq(S), e \in S :
  /\ Append(s, e) \in Seq(S) /\ Len(Append(s, e)) = Len(s) + 1
  /\ Len(s) \in Nat
OBVIOUS

\* A position in a sequence is one in every longer sequence.
LEMMA RangeGrows ==
  ASSUME NEW n \in Nat, NEW k \in 0 .. n
  PROVE  k \in Nat /\ k \in 0 .. n + 1 /\ (k < n => k + 1 \in 0 .. n)
OBVIOUS

LEMMA NotPlayingType == NotPlaying \in [turn : Nat, world : Seq(Played), orders : Seq(Order)]
<1>1. <<>> \in Seq(Played) /\ <<>> \in Seq(Order) /\ 1 \in Nat
  OBVIOUS
<1>2. QED
  BY <1>1 DEF NotPlaying

LEMMA TypeInit == Init => TypeOK
<1> SUFFICES ASSUME Init PROVE TypeOK
  OBVIOUS
<1>1. leader \in Instance /\ owner \in Instance
  BY InstanceAssumption DEF Init
<1>2. \A S : <<>> \in Seq(S)
  OBVIOUS
<1>3. playing \in [turn : Nat, world : Seq(Played), orders : Seq(Order)]
  BY NotPlayingType DEF Init
<1>4. /\ world \in [Instance -> Seq(Played)] /\ news \in [Instance -> Seq(Record)]
      /\ raw \in Seq(Order) /\ log \in Seq(Order) /\ pending \in Seq(Order)
  BY <1>2 DEF Init
<1>5. fetched \in 0 .. Len(raw) /\ javaPos \in 0 .. Len(raw) /\ delivered \in 0 .. Len(log)
  BY DEF Init
<1>6. QED
  BY <1>1, <1>3, <1>4, <1>5 DEF Init, TypeOK

LEMMA SubmitTypes ==
  ASSUME TypeOK, NEW u \in Unit, Submit(u)
  PROVE  TypeOK'
<1>1. raw' \in Seq(Order) /\ Len(raw') = Len(raw) + 1 /\ Len(raw) \in Nat
  <2>1. PICK i \in Instance : raw' = Append(raw, [unit |-> u, turn |-> cacheTurn[i]])
    BY DEF Submit
  <2>2. [unit |-> u, turn |-> cacheTurn[i]] \in Order
    BY DEF TypeOK, Order
  <2>3. QED
    BY <2>1, <2>2, AppendType DEF TypeOK
<1>2. /\ UNCHANGED <<fetched, javaPos, checked>>
      /\ fetched \in 0 .. Len(raw) /\ javaPos \in 0 .. Len(raw) /\ (checked => fetched < Len(raw))
  BY DEF Submit, TypeOK, topologies
<1>3. fetched' \in 0 .. Len(raw') /\ javaPos' \in 0 .. Len(raw') /\ (checked' => fetched' < Len(raw'))
  BY <1>1, <1>2
<1>4. UNCHANGED <<replicas, owner, checked, seen, topologies, log, engine, upsets, calm>>
  BY DEF Submit
<1>5. QED
  BY <1>1, <1>3, <1>4 DEF TypeOK, replicas, topologies, engine

LEMMA NextRawType ==
  ASSUME TypeOK, NEW n \in Nat, n < Len(raw)
  PROVE  raw[n + 1] \in Order
BY DEF TypeOK

LEMMA AcceptTypes ==
  ASSUME TypeOK, Accept
  PROVE  TypeOK'
<1>1. /\ fetched \in 0 .. Len(raw) /\ fetched < Len(raw) /\ raw \in Seq(Order) /\ log \in Seq(Order)
      /\ owner \in Instance /\ seen \in [Instance -> SUBSET (Unit \X Nat)] /\ Len(raw) \in Nat
  BY DEF TypeOK, Accept
<1>2. NextRaw \in Order
  BY <1>1, NextRawType DEF NextRaw
<1>3. <<NextRaw.unit, NextRaw.turn>> \in Unit \X Nat
  BY <1>2 DEF Order
<1>4. Pruned(seen[owner], cacheTurn[owner]) \subseteq Unit \X Nat
  BY <1>1 DEF Pruned
<1>5. /\ log' \in {log, Append(log, NextRaw)}
      /\ seen' = [seen EXCEPT ![owner] =
                    Pruned(seen[owner], cacheTurn[owner]) \cup {<<NextRaw.unit, NextRaw.turn>>}]
  BY DEF Accept
<1>6. seen' \in [Instance -> SUBSET (Unit \X Nat)]
  BY <1>1, <1>3, <1>4, <1>5
<1>7. log' \in Seq(Order) /\ (Len(log') = Len(log) \/ Len(log') = Len(log) + 1) /\ Len(log) \in Nat
  <2> DEFINE more == Append(log, NextRaw)
  <2>1. more \in Seq(Order) /\ Len(more) = Len(log) + 1 /\ Len(log) \in Nat
    BY <1>1, <1>2, AppendType
  <2>2. log' \in {log, more}
    BY <1>5
  <2> HIDE DEF more
  <2>3. QED
    BY <1>1, <2>1, <2>2
<1>8. fetched' \in 0 .. Len(raw') /\ checked' = FALSE
  BY <1>1 DEF Accept
<1>9. UNCHANGED <<replicas, raw, owner, topologies, engine, upsets, calm>>
  BY DEF Accept
<1>10. delivered' \in 0 .. Len(log')
  <2>1. delivered \in 0 .. Len(log) /\ delivered' = delivered
    BY <1>9 DEF TypeOK, engine
  <2>2. QED
    BY <1>7, <2>1
<1>11. QED
  BY <1>6, <1>7, <1>8, <1>9, <1>10 DEF TypeOK, replicas, topologies, engine

LEMMA ValidateTypes ==
  ASSUME TypeOK, Validate
  PROVE  TypeOK'
<1>1. fetched \in 0 .. Len(raw) /\ fetched < Len(raw) /\ Len(raw) \in Nat
  BY DEF Validate, TypeOK
<1>2. UNCHANGED <<replicas, raw, owner, seen, topologies, log, engine, upsets, calm>>
  BY DEF Validate
<1>3. (fetched' = fetched /\ checked' = TRUE) \/ (fetched' = fetched + 1 /\ checked' = FALSE)
  BY DEF Validate
<1>4. fetched' \in 0 .. Len(raw') /\ (checked' => fetched' < Len(raw'))
  BY <1>1, <1>2, <1>3
<1>5. checked' \in BOOLEAN
  BY <1>3
<1>6. QED
  BY <1>2, <1>4, <1>5 DEF TypeOK, replicas, topologies, engine

LEMMA TakeoverTypes ==
  ASSUME TypeOK, NEW j \in Instance, Takeover(j), UNCHANGED raw
  PROVE  owner' \in Instance /\ fetched' \in 0 .. Len(raw') /\ checked' = FALSE
BY DEF Takeover

LEMMA MovePartitionTypes ==
  ASSUME TypeOK, NEW j \in Instance, MovePartition(j)
  PROVE  TypeOK'
<1>1. UNCHANGED <<replicas, raw, seen, topologies, log, engine, calm>>
  BY DEF MovePartition
<1>2. owner' \in Instance /\ fetched' \in 0 .. Len(raw') /\ checked' = FALSE
  BY <1>1, TakeoverTypes DEF MovePartition
<1>3. upsets' \in Nat
  BY DEF MovePartition, Upset, TypeOK
<1>4. QED
  BY <1>1, <1>2, <1>3 DEF TypeOK, replicas, topologies, engine

LEMMA TopologiesTypes ==
  ASSUME TypeOK, Topologies
  PROVE  TypeOK'
<1>1. javaPos \in 0 .. Len(raw) /\ javaPos < Len(raw) /\ Len(raw) \in Nat
  BY DEF TypeOK, Topologies
<1>2. raw[javaPos + 1] \in Order
  BY <1>1, NextRawType
<1>3. /\ log' \in {log, Append(log, raw[javaPos + 1])}
      /\ javaSeen' \in {javaSeen, [javaSeen EXCEPT ![raw[javaPos + 1].unit] = raw[javaPos + 1].turn]}
      /\ javaPos' = javaPos + 1
  BY DEF Topologies
<1>4. javaSeen' \in [Unit -> Nat]
  <2>1. javaSeen \in [Unit -> Nat]
    BY DEF TypeOK
  <2>2. QED
    BY <1>2, <1>3, <2>1 DEF Order
<1>5. log' \in Seq(Order) /\ (Len(log') = Len(log) \/ Len(log') = Len(log) + 1) /\ Len(log) \in Nat
  <2>1. log \in Seq(Order)
    BY DEF TypeOK
  <2>2. Append(log, raw[javaPos + 1]) \in Seq(Order) /\ Len(Append(log, raw[javaPos + 1])) = Len(log) + 1
    BY <1>2, <2>1, AppendType
  <2>3. QED
    BY <1>3, <2>1, <2>2
<1>6. UNCHANGED <<replicas, ingest, engine, upsets, calm>>
  BY DEF Topologies
<1>7. javaPos' \in 0 .. Len(raw')
  BY <1>1, <1>3, <1>6 DEF ingest
<1>8. delivered' \in 0 .. Len(log')
  <2>1. delivered \in 0 .. Len(log) /\ delivered' = delivered
    BY <1>6 DEF TypeOK, engine
  <2>2. QED
    BY <1>5, <2>1
<1>9. QED
  BY <1>4, <1>5, <1>6, <1>7, <1>8 DEF TypeOK, replicas, ingest, engine

LEMMA KeptOrdersType ==
  ASSUME TypeOK, NEW t \in Nat
  PROVE  KeptOrders(t) \in Seq(Order)
BY DEF TypeOK, KeptOrders

LEMMA BufferTypes ==
  ASSUME TypeOK, BufferOrder \/ DropOrder
  PROVE  TypeOK'
<1>1. /\ delivered \in 0 .. Len(log) /\ delivered < Len(log) /\ log \in Seq(Order)
      /\ cacheTurn[leader] \in Nat
  BY DEF TypeOK, BufferOrder, DropOrder
<1>2. log[delivered + 1] \in Order /\ delivered + 1 \in 0 .. Len(log)
  BY <1>1
<1>3. CASE BufferOrder
  <2> DEFINE turn == cacheTurn[leader]
  <2>1. pending' \in {KeptOrders(turn), Append(KeptOrders(turn), log[delivered + 1])} /\ currentTurn' = turn
    BY <1>3 DEF BufferOrder
  <2>2. pending' \in Seq(Order) /\ currentTurn' \in Nat
    BY <1>1, <1>2, <2>1, KeptOrdersType, AppendType
  <2>3. UNCHANGED <<replicas, ingest, topologies, log, epc, playing, upsets, calm>> /\ delivered' = delivered + 1
    BY <1>3 DEF BufferOrder
  <2>4. QED
    BY <1>2, <2>2, <2>3 DEF TypeOK, replicas, ingest, topologies
<1>4. CASE DropOrder
  <2>1. /\ UNCHANGED <<replicas, ingest, topologies, log, pending, currentTurn, epc, playing, calm>>
        /\ delivered' = delivered + 1
    BY <1>4 DEF DropOrder
  <2>2. upsets' \in Nat
    BY <1>4 DEF DropOrder, Upset, TypeOK
  <2>3. QED
    BY <1>2, <2>1, <2>2 DEF TypeOK, replicas, ingest, topologies
<1>5. QED
  BY <1>3, <1>4

LEMMA ExecutedType ==
  ASSUME NEW w \in Seq(Played), NEW turn \in Nat, NEW os \in Seq(Order)
  PROVE  Executed(w, turn, os) \in Seq(Played)
<1> DEFINE f == [k \in DOMAIN os |-> [unit |-> os[k].unit, turn |-> os[k].turn, at |-> turn]]
<1>1. ASSUME NEW k \in DOMAIN os
      PROVE  f[k] \in Played
  <2>1. os[k] \in Order
    OBVIOUS
  <2>2. os[k].unit \in Unit /\ os[k].turn \in Nat
    BY <2>1 DEF Order
  <2>3. QED
    BY <2>2 DEF Played
<1>2. f \in Seq(Played)
  BY <1>1
<1> HIDE DEF f
<1>3. w \o f \in Seq(Played)
  BY <1>2, ConcatProperties
<1>4. QED
  BY <1>3 DEF Executed, f

LEMMA AnnouncedType ==
  ASSUME TypeOK, NEW r \in Record
  PROVE  Announced(r) \in [Instance -> Seq(Record)]
BY AppendType DEF Announced, TypeOK

LEMMA CalmType ==
  ASSUME TypeOK, NEW i \in Instance, CalmIf(i)
  PROVE  calm' \in BOOLEAN
BY ZenonT(30) DEF CalmIf, TypeOK

LEMMA TurnTypes ==
  ASSUME TypeOK, Turn
  PROVE  TypeOK'
<1>0. /\ playing \in [turn : Nat, world : Seq(Played), orders : Seq(Order)] /\ leader \in Instance
      /\ cacheTurn \in [Instance -> Nat] /\ world \in [Instance -> Seq(Played)] /\ <<>> \in Seq(Order)
      /\ currentTurn \in Nat
  BY DEF TypeOK
<1>1. CASE BeginTurn
  <2> DEFINE none == <<>>
  <2>0. none \in Seq(Order)
    OBVIOUS
  <2>1. playing' = [turn |-> cacheTurn[leader], world |-> world[leader], orders |-> none] /\ epc' = "read"
    BY <1>1 DEF BeginTurn
  <2> HIDE DEF none
  <2>2. playing' \in [turn : Nat, world : Seq(Played), orders : Seq(Order)]
    BY <1>0, <2>0, <2>1
  <2>3. calm' \in BOOLEAN
    BY <1>0, <1>1, CalmType DEF BeginTurn
  <2>4. UNCHANGED <<replicas, ingest, topologies, log, delivered, pending, currentTurn, upsets>>
    BY <1>1 DEF BeginTurn
  <2>5. QED
    BY <2>1, <2>2, <2>3, <2>4 DEF TypeOK, replicas, ingest, topologies
<1>2. CASE TakeOrders
  <2> DEFINE kept == KeptOrders(playing.turn)
  <2>1. kept \in Seq(Order) /\ playing.turn \in Nat
    BY <1>0, KeptOrdersType
  <2>2. /\ playing' = [playing EXCEPT !.orders = kept] /\ currentTurn' = playing.turn
        /\ pending' = <<>> /\ epc' = "steps"
        /\ UNCHANGED <<replicas, ingest, topologies, log, delivered, upsets, calm>>
    BY <1>2 DEF TakeOrders
  <2> HIDE DEF kept
  <2>3. playing' \in [turn : Nat, world : Seq(Played), orders : Seq(Order)]
    BY <1>0, <2>1, <2>2
  <2>4. pending' \in Seq(Order) /\ currentTurn' \in Nat
    BY <1>0, <2>1, <2>2
  <2>5. QED
    BY <2>2, <2>3, <2>4 DEF TypeOK, replicas, ingest, topologies
<1>3. CASE UpdateCache
  <2> DEFINE after == Executed(playing.world, playing.turn, playing.orders)
             next == playing.turn + 1
             r == [turn |-> next, world |-> after]
  <2>1. after \in Seq(Played) /\ next \in Nat
    <3>1. playing.world \in Seq(Played) /\ playing.turn \in Nat /\ playing.orders \in Seq(Order)
      BY <1>0
    <3>2. Executed(playing.world, playing.turn, playing.orders) \in Seq(Played)
      BY <3>1, ExecutedType
    <3>3. next \in Nat
      BY <3>1
    <3>4. QED
      BY <3>2, <3>3
  <2>2. /\ world' = [world EXCEPT ![leader] = after] /\ news' = Announced(r)
        /\ cacheTurn' = [cacheTurn EXCEPT ![leader] = next]
        /\ playing' = NotPlaying /\ epc' = "bump"
        /\ UNCHANGED <<up, leader, ingest, topologies, log, delivered, pending, currentTurn, upsets, calm>>
    BY <1>3 DEF UpdateCache
  <2> HIDE DEF after, next
  <2>3. r \in Record
    BY <2>1 DEF Record
  <2> HIDE DEF r
  <2>4. /\ world' \in [Instance -> Seq(Played)] /\ news' \in [Instance -> Seq(Record)]
        /\ cacheTurn' \in [Instance -> Nat]
    BY <1>0, <2>1, <2>2, <2>3, AnnouncedType
  <2>5. QED
    BY <2>2, <2>4, NotPlayingType DEF TypeOK, ingest, topologies
<1>4. CASE FinishTurn
  <2>1. /\ currentTurn' = currentTurn + 1 /\ epc' = "idle"
        /\ UNCHANGED <<replicas, ingest, topologies, log, delivered, pending, playing, upsets, calm>>
    BY <1>4 DEF FinishTurn
  <2>2. currentTurn' \in Nat
    BY <1>0, <2>1
  <2>3. QED
    BY <2>1, <2>2 DEF TypeOK, replicas, ingest, topologies
<1>5. QED
  BY <1>1, <1>2, <1>3, <1>4 DEF Turn

LEMMA HeartbeatTypes ==
  ASSUME TypeOK, Heartbeat
  PROVE  TypeOK'
<1>1. [turn |-> cacheTurn[leader], world |-> NoWorld] \in Record /\ leader \in Instance
  BY DEF TypeOK, Record
<1>2. news' \in [Instance -> Seq(Record)]
  BY <1>1, AnnouncedType DEF Heartbeat
<1>3. upsets' \in Nat /\ calm' \in BOOLEAN
  <2>1. upsets' = upsets + 1 /\ CalmIf(leader)
    BY DEF Heartbeat, Upset
  <2>2. upsets \in Nat
    BY DEF TypeOK
  <2>3. upsets' \in Nat
    BY <2>1, <2>2
  <2>4. calm' \in BOOLEAN
    BY <1>1, <2>1, CalmType
  <2>5. QED
    BY <2>3, <2>4
<1>4. UNCHANGED <<up, leader, cacheTurn, world, ingest, topologies, log, engine>>
  BY DEF Heartbeat
<1>5. QED
  BY <1>2, <1>3, <1>4 DEF TypeOK, ingest, topologies, engine

\* What an instance with world x has of the world when it has applied r.
Applied(r, x) == IF r.world = NoWorld THEN x ELSE r.world

LEMMA ApplyNewsTypes ==
  ASSUME TypeOK, NEW i \in Instance, ApplyNews(i)
  PROVE  TypeOK'
<1>1. /\ news[i] \in Seq(Record) /\ news[i] # <<>> /\ news \in [Instance -> Seq(Record)]
      /\ world \in [Instance -> Seq(Played)] /\ cacheTurn \in [Instance -> Nat]
  BY DEF ApplyNews, TypeOK
<1>2. Head(news[i]) \in Record /\ Tail(news[i]) \in Seq(Record)
  BY <1>1, HeadTailProperties
<1>3. Head(news[i]).turn \in Nat /\ Applied(Head(news[i]), world[i]) \in Seq(Played)
  BY <1>1, <1>2 DEF Record, Applied
<1>4. /\ cacheTurn' = [cacheTurn EXCEPT ![i] = Head(news[i]).turn]
      /\ world' = [world EXCEPT ![i] = Applied(Head(news[i]), world[i])]
      /\ news' = [news EXCEPT ![i] = Tail(news[i])]
  BY <1>1 DEF ApplyNews, Applied
<1>5. /\ cacheTurn' \in [Instance -> Nat] /\ world' \in [Instance -> Seq(Played)]
      /\ news' \in [Instance -> Seq(Record)]
  BY <1>1, <1>2, <1>3, <1>4
<1>6. UNCHANGED <<up, leader, ingest, topologies, log, engine, upsets, calm>>
  BY DEF ApplyNews
<1>7. QED
  BY <1>5, <1>6 DEF TypeOK, ingest, topologies, engine

\* What a game started at i makes of the buffer.
BufferAfterStart(i) ==
  IF i = leader THEN pending' = <<>> /\ currentTurn' = 1 ELSE UNCHANGED <<pending, currentTurn>>

\* The record of a new game.
Start == [turn |-> 1, world |-> <<>>]

LEMMA StartType == Start \in Record /\ Start.turn = 1 /\ Start.world = <<>>
<1> DEFINE none == <<>>
           one == 1
<1>1. none \in Seq(Played) /\ one \in Nat
  OBVIOUS
<1> HIDE DEF none, one
<1>2. [turn |-> one, world |-> none] \in Record
  BY <1>1 DEF Record
<1>3. [turn |-> one, world |-> none] = Start
  BY DEF Start, none, one
<1>4. [turn |-> one, world |-> none].turn = one /\ [turn |-> one, world |-> none].world = none
  OBVIOUS
<1>5. QED
  BY <1>2, <1>3, <1>4 DEF none, one

LEMMA NewGameTypes ==
  ASSUME TypeOK, NEW i \in Instance, NewGame(i)
  PROVE  TypeOK'
<1> DEFINE none == <<>>
           one == 1
<1>1. none \in Seq(Played) /\ none \in Seq(Order) /\ one \in Nat
  OBVIOUS
<1>2. /\ cacheTurn' = [cacheTurn EXCEPT ![i] = one]
      /\ world' = [world EXCEPT ![i] = none]
      /\ news' = Announced(Start)
      /\ \/ pending' = none /\ currentTurn' = one
         \/ UNCHANGED <<pending, currentTurn>>
  BY DEF NewGame, Start
<1> HIDE DEF none, one
<1>3. news' \in [Instance -> Seq(Record)]
  BY <1>2, StartType, AnnouncedType
<1>4. /\ cacheTurn' \in [Instance -> Nat] /\ world' \in [Instance -> Seq(Played)]
      /\ pending' \in Seq(Order) /\ currentTurn' \in Nat
  BY <1>1, <1>2 DEF TypeOK
<1>5. upsets' \in Nat
  BY DEF NewGame, Upset, TypeOK
<1>6. calm' \in BOOLEAN
  BY ZenonT(30) DEF NewGame, TypeOK
<1>7. UNCHANGED <<up, leader, ingest, topologies, log, delivered, epc, playing>>
  BY DEF NewGame
<1>8. QED
  BY <1>3, <1>4, <1>5, <1>6, <1>7 DEF TypeOK, ingest, topologies

\* What a crash makes of the engine.
EngineAfterCrash(i, j) ==
  \/ i # leader /\ UNCHANGED <<leader, engine, calm>>
  \/ /\ i = leader
     /\ CalmIf(j)
     /\ leader' = j
     /\ delivered' \in 0 .. Len(log)
     /\ pending' = <<>> /\ currentTurn' = 1
     /\ epc' = "idle" /\ playing' = NotPlaying

LEMMA CrashParts ==
  ASSUME NEW i \in Instance, Crash(i)
  PROVE  /\ up[i] /\ up' = [up EXCEPT ![i] = FALSE]
         /\ news' = [news EXCEPT ![i] = <<>>] /\ seen' = [seen EXCEPT ![i] = {}]
         /\ upsets' = upsets + 1
         /\ \E j \in Instance \ {i} :
              /\ up[j] /\ EngineAfterCrash(i, j)
              /\ Takeover(j) \/ UNCHANGED <<owner, fetched, checked>>
         /\ UNCHANGED <<cacheTurn, world, raw, topologies, log>>
BY DEF Crash, Upset, EngineAfterCrash

LEMMA CrashTypes ==
  ASSUME TypeOK, NEW i \in Instance, Crash(i)
  PROVE  TypeOK'
<1>0. /\ news' = [news EXCEPT ![i] = <<>>] /\ upsets' = upsets + 1
      /\ UNCHANGED <<cacheTurn, world, raw, topologies, log>>
  BY CrashParts
<1>1. PICK j \in Instance \ {i} :
        /\ up[j] /\ EngineAfterCrash(i, j)
        /\ Takeover(j) \/ UNCHANGED <<owner, fetched, checked>>
  BY CrashParts
<1>2. /\ owner' \in Instance /\ fetched' \in 0 .. Len(raw') /\ checked' \in BOOLEAN
      /\ checked' => fetched' < Len(raw')
  <2>1. CASE Takeover(j)
    BY <1>0, <2>1, TakeoverTypes
  <2>2. CASE UNCHANGED <<owner, fetched, checked>>
    BY <1>0, <2>2 DEF TypeOK
  <2>3. QED
    BY <1>1, <2>1, <2>2
<1>3. /\ leader' \in Instance /\ delivered' \in 0 .. Len(log') /\ pending' \in Seq(Order)
      /\ currentTurn' \in Nat /\ epc' \in {"idle", "read", "steps", "bump"}
      /\ playing' \in [turn : Nat, world : Seq(Played), orders : Seq(Order)] /\ calm' \in BOOLEAN
  <2>1. CASE i # leader
    <3>1. UNCHANGED <<leader, delivered, pending, currentTurn, epc, playing, calm, log>>
      BY <1>0, <1>1, <2>1 DEF EngineAfterCrash, engine
    <3>2. QED
      BY <3>1 DEF TypeOK
  <2>2. CASE i = leader
    <3>1. /\ leader' = j /\ pending' = <<>> /\ currentTurn' = 1 /\ epc' = "idle"
          /\ delivered' \in 0 .. Len(log) /\ playing' = NotPlaying /\ CalmIf(j)
      BY <1>1, <2>2 DEF EngineAfterCrash
    <3>2. calm' \in BOOLEAN
      BY <3>1, CalmType
    <3>3. pending' \in Seq(Order) /\ currentTurn' \in Nat /\ delivered' \in 0 .. Len(log')
      BY <1>0, <3>1
    <3>4. QED
      BY <3>1, <3>2, <3>3, NotPlayingType
  <2>3. QED
    BY <2>1, <2>2
<1>4. seen' \in [Instance -> SUBSET (Unit \X Nat)] /\ up' \in [Instance -> BOOLEAN]
  BY CrashParts DEF TypeOK
<1>5. news' \in [Instance -> Seq(Record)]
  <2>1. news \in [Instance -> Seq(Record)] /\ <<>> \in Seq(Record)
    BY DEF TypeOK
  <2>2. QED
    BY <1>0, <2>1
<1>6. upsets' \in Nat
  BY <1>0 DEF TypeOK
<1>7. QED
  BY <1>0, <1>2, <1>3, <1>4, <1>5, <1>6 DEF TypeOK, topologies

LEMMA TypeStep ==
  ASSUME TypeOK, [Next]_vars
  PROVE  TypeOK'
<1>1. CASE UNCHANGED vars
  BY <1>1 DEF vars, TypeOK, replicas, ingest, topologies, engine
<1>2. CASE \E u \in Unit : Submit(u)
  BY <1>2, SubmitTypes
<1>3. CASE Validate \/ Accept \/ Topologies
  BY <1>3, ValidateTypes, AcceptTypes, TopologiesTypes
<1>4. CASE \E i \in Instance : MovePartition(i) \/ Crash(i) \/ NewGame(i) \/ ApplyNews(i)
  BY <1>4, MovePartitionTypes, CrashTypes, NewGameTypes, ApplyNewsTypes
<1>5. CASE BufferOrder \/ DropOrder
  BY <1>5, BufferTypes
<1>6. CASE Turn
  BY <1>6, TurnTypes
<1>7. CASE Heartbeat
  BY <1>7, HeartbeatTypes
<1>8. QED
  BY <1>1, <1>2, <1>3, <1>4, <1>5, <1>6, <1>7 DEF Next

\* Every topic, table and position holds a value of its kind; no position lies beyond its topic
\* and no order is accepted that is not there, wherever a crash or a rebalance sets it.
THEOREM TypeCorrect == Spec => []TypeOK
BY TypeInit, TypeStep, PTL DEF Spec

-----------------------------------------------------------------------------
(* The buffer: one order of a unit and none of a turn to come, whatever    *)
(* the caches say.                                                         *)

InOrder(orders, t) ==
  /\ Book!Distinct(orders)
  /\ \A k \in DOMAIN orders : orders[k].turn <= t

OrdersInv == InOrder(pending, currentTurn) /\ InOrder(playing.orders, playing.turn)

LEMMA NoneInOrder == \A t : InOrder(<<>>, t) /\ InOrder(NotPlaying.orders, t)
BY DEF InOrder, Book!Distinct, NotPlaying

LEMMA LaterInOrder ==
  ASSUME NEW orders \in Seq(Order), NEW t \in Nat, NEW later \in Nat, t <= later, InOrder(orders, t)
  PROVE  InOrder(orders, later)
<1>1. ASSUME NEW k \in DOMAIN orders
      PROVE  orders[k].turn \in Nat
  <2>1. orders[k] \in Order
    OBVIOUS
  <2>2. QED
    BY <2>1 DEF Order
<1>2. QED
  BY <1>1 DEF InOrder

\* A lower turn empties the buffer; a higher one keeps what was in order before it.
LEMMA KeptInOrder ==
  ASSUME TypeOK, OrdersInv, NEW t \in Nat
  PROVE  InOrder(KeptOrders(t), t)
<1>1. pending \in Seq(Order) /\ currentTurn \in Nat /\ InOrder(pending, currentTurn)
  BY DEF TypeOK, OrdersInv
<1>2. CASE t < currentTurn
  BY <1>2, NoneInOrder DEF KeptOrders
<1>3. CASE ~(t < currentTurn)
  <2>1. KeptOrders(t) = pending /\ currentTurn <= t
    BY <1>1, <1>3 DEF KeptOrders
  <2>2. QED
    BY <1>1, <2>1, LaterInOrder
<1>4. QED
  BY <1>2, <1>3

\* bufferOrder adds an order of the current turn and of a unit that has none.
LEMMA AppendDistinct ==
  ASSUME NEW orders \in Seq(Order), NEW o \in Order, NEW t, MayBuffer(o, orders, t),
         Book!Distinct(orders)
  PROVE  /\ Book!Distinct(Append(orders, o))
         /\ \A k \in DOMAIN Append(orders, o) :
              \/ k \in DOMAIN orders /\ Append(orders, o)[k] = orders[k]
              \/ Append(orders, o)[k].turn = t
<1> DEFINE more == Append(orders, o)
<1>1. /\ \A k \in DOMAIN more : k \in DOMAIN orders \/ k = Len(orders) + 1
      /\ \A k \in DOMAIN orders : more[k] = orders[k]
      /\ more[Len(orders) + 1] = o
  BY AppendProperties
<1> HIDE DEF more
<1>2. o.turn = t /\ \A k \in DOMAIN orders : orders[k].unit # o.unit
  BY DEF MayBuffer
<1>3. ASSUME NEW j \in DOMAIN more, NEW k \in DOMAIN more, more[j].unit = more[k].unit
      PROVE  j = k
  BY <1>1, <1>2, <1>3 DEF Book!Distinct
<1>4. Book!Distinct(more)
  BY <1>3 DEF Book!Distinct
<1>5. \A k \in DOMAIN more : (k \in DOMAIN orders /\ more[k] = orders[k]) \/ more[k].turn = t
  BY <1>1, <1>2
<1>6. QED
  BY <1>4, <1>5 DEF more

\* What bufferOrder reads and leaves.
LEMMA BufferParts ==
  ASSUME TypeOK, BufferOrder
  PROVE  /\ cacheTurn[leader] \in Nat /\ currentTurn' = cacheTurn[leader]
         /\ UNCHANGED <<replicas, epc, playing, calm>>
         /\ \/ pending' = KeptOrders(cacheTurn[leader])
            \/ \E o \in Order : /\ MayBuffer(o, KeptOrders(cacheTurn[leader]), cacheTurn[leader])
                                /\ pending' = Append(KeptOrders(cacheTurn[leader]), o)
<1>1. PICK o : o = log[delivered + 1]
  OBVIOUS
<1>2. delivered \in 0 .. Len(log) /\ log \in Seq(Order) /\ delivered < Len(log)
  BY DEF TypeOK, BufferOrder
<1>3. o \in Order
  BY <1>1, <1>2
<1>4. pending' = IF MayBuffer(o, KeptOrders(cacheTurn[leader]), cacheTurn[leader])
                 THEN Append(KeptOrders(cacheTurn[leader]), o) ELSE KeptOrders(cacheTurn[leader])
  BY <1>1 DEF BufferOrder
<1>5. currentTurn' = cacheTurn[leader] /\ UNCHANGED <<replicas, epc, playing, calm>>
  BY DEF BufferOrder
<1>6. cacheTurn[leader] \in Nat
  BY DEF TypeOK
<1>7. QED
  BY <1>3, <1>4, <1>5, <1>6

LEMMA BufferInOrder ==
  ASSUME TypeOK, OrdersInv, BufferOrder
  PROVE  OrdersInv'
<1> DEFINE t == cacheTurn[leader]
           kept == KeptOrders(t)
<1>1. /\ t \in Nat /\ currentTurn' = t /\ UNCHANGED playing
      /\ \/ pending' = kept
         \/ \E o \in Order : MayBuffer(o, kept, t) /\ pending' = Append(kept, o)
  BY BufferParts
<1>2. kept \in Seq(Order) /\ InOrder(kept, t)
  BY <1>1, KeptOrdersType, KeptInOrder
<1> HIDE DEF t, kept
<1>3. ASSUME NEW o \in Order, MayBuffer(o, kept, t), pending' = Append(kept, o)
      PROVE  InOrder(pending', t)
  <2>1. /\ Book!Distinct(pending')
        /\ \A k \in DOMAIN pending' : (k \in DOMAIN kept /\ pending'[k] = kept[k]) \/ pending'[k].turn = t
    BY <1>2, <1>3, AppendDistinct DEF InOrder
  <2>2. QED
    BY <1>1, <1>2, <2>1 DEF InOrder
<1>4. InOrder(pending', currentTurn')
  BY <1>1, <1>2, <1>3
<1>5. InOrder(playing.orders, playing.turn)'
  BY <1>1 DEF OrdersInv, InOrder
<1>6. QED
  BY <1>4, <1>5 DEF OrdersInv, InOrder

LEMMA OrdersStep ==
  ASSUME TypeOK, OrdersInv, [Next]_vars
  PROVE  OrdersInv'
<1>0. /\ pending \in Seq(Order) /\ currentTurn \in Nat /\ leader \in Instance
      /\ playing \in [turn : Nat, world : Seq(Played), orders : Seq(Order)]
  BY DEF TypeOK
<1>1. CASE UNCHANGED <<pending, currentTurn, playing>>
  BY <1>1 DEF OrdersInv, InOrder
<1>2. CASE pending' = <<>> /\ (UNCHANGED playing \/ playing' = NotPlaying)
  <2>1. InOrder(pending', currentTurn')
    BY <1>2, NoneInOrder
  <2>2. InOrder(playing'.orders, playing'.turn)
    BY <1>2, NoneInOrder DEF OrdersInv
  <2>3. QED
    BY <2>1, <2>2 DEF OrdersInv, InOrder
<1>3. CASE BeginTurn
  <2>1. playing'.orders = <<>> /\ UNCHANGED <<pending, currentTurn>>
    BY <1>3 DEF BeginTurn
  <2>2. InOrder(playing'.orders, playing'.turn)
    BY <2>1, NoneInOrder
  <2>3. QED
    BY <2>1, <2>2 DEF OrdersInv, InOrder
<1>4. CASE TakeOrders
  <2>1. /\ playing'.orders = KeptOrders(playing.turn) /\ playing'.turn = playing.turn
        /\ pending' = <<>> /\ playing.turn \in Nat
    BY <1>0, <1>4 DEF TakeOrders
  <2>2. InOrder(playing'.orders, playing'.turn)
    BY <2>1, KeptInOrder
  <2>3. InOrder(pending', currentTurn')
    BY <2>1, NoneInOrder
  <2>4. QED
    BY <2>2, <2>3 DEF OrdersInv, InOrder
<1>5. CASE UpdateCache
  <2>1. playing' = NotPlaying /\ UNCHANGED <<pending, currentTurn>>
    BY <1>5 DEF UpdateCache
  <2>2. InOrder(playing'.orders, playing'.turn)
    BY <2>1, NoneInOrder
  <2>3. QED
    BY <2>1, <2>2 DEF OrdersInv, InOrder
<1>6. CASE FinishTurn
  <2>1. currentTurn' = currentTurn + 1 /\ UNCHANGED <<pending, playing>>
    BY <1>6 DEF FinishTurn
  <2>2. InOrder(pending, currentTurn + 1)
    <3>1. InOrder(pending, currentTurn) /\ currentTurn + 1 \in Nat /\ currentTurn <= currentTurn + 1
      BY <1>0 DEF OrdersInv
    <3>2. QED
      BY <1>0, <3>1, LaterInOrder
  <2>3. QED
    BY <2>1, <2>2 DEF OrdersInv, InOrder
<1>7. CASE BufferOrder
  BY <1>7, BufferInOrder
<1>8. ASSUME NEW i \in Instance, NewGame(i)
      PROVE  OrdersInv'
  <2>1. UNCHANGED playing /\ (pending' = <<>> \/ UNCHANGED <<pending, currentTurn>>)
    BY <1>8 DEF NewGame
  <2>2. QED
    BY <1>1, <1>2, <2>1
<1>9. ASSUME NEW i \in Instance, Crash(i)
      PROVE  OrdersInv'
  <2>1. \E j \in Instance : EngineAfterCrash(i, j)
    BY <1>9, CrashParts
  <2>2. UNCHANGED <<pending, currentTurn, playing>> \/ (pending' = <<>> /\ playing' = NotPlaying)
    BY <2>1 DEF EngineAfterCrash, engine
  <2>3. QED
    BY <1>1, <1>2, <2>2
<1>10. CASE UNCHANGED vars
  BY <1>1, <1>10 DEF vars, engine
<1>11. CASE \/ \E u \in Unit : Submit(u)
            \/ \E i \in Instance : MovePartition(i) \/ ApplyNews(i)
            \/ Validate \/ Accept \/ Topologies \/ DropOrder \/ Heartbeat
  BY <1>1, <1>11 DEF Submit, MovePartition, ApplyNews, Validate, Accept, Topologies, DropOrder,
                     Heartbeat, engine
<1>12. QED
  BY <1>3, <1>4, <1>5, <1>6, <1>7, <1>8, <1>9, <1>10, <1>11 DEF Next, Turn

LEMMA OrdersInit == Init => OrdersInv
BY NoneInOrder DEF Init, OrdersInv, NotPlaying

LEMMA Typed == Spec => [](TypeOK /\ OrdersInv)
BY TypeInit, TypeStep, OrdersInit, OrdersStep, PTL DEF Spec

\* Whatever happens to orders and caches - copies from two validators, replays, records applied
\* late, a leader that goes back to an older turn, games started in the middle of AdvanceTurn -
\* the engine never plays two orders of a unit in one turn, nor an order before its turn.
THEOREM OrdersAreInTime == Spec => []OrdersInTime
<1>1. OrdersInv => OrdersInTime
  BY DEF OrdersInv, OrdersInTime, InOrder
<1>2. QED
  BY <1>1, Typed, PTL

-----------------------------------------------------------------------------
(* Turns are played by the book as long as the game is calm.               *)
(* However far an instance is behind, the records on their way to it end   *)
(* with what was published last: this is why a leader that has applied its *)
(* records continues the book where the last one left it.  What was        *)
(* published last is what the leader has, or a new game that it has yet to *)
(* hear of.                                                                *)

\* An instance with records s before it, at turn c and with world x, comes to turn t and world w.
ComesTo(s, c, x, t, w) ==
  /\ s = <<>> => c = t
  /\ s # <<>> => s[Len(s)].turn = t
  /\ \/ x = w /\ \A k \in DOMAIN s : s[k].world = NoWorld
     \/ \E k \in DOMAIN s : s[k].world = w /\ \A m \in DOMAIN s : m > k => s[m].world = NoWorld

\* The records say no more than what the leader knows.
Repeats(s, t, w) == \A k \in DOMAIN s : s[k].turn = t /\ s[k].world \in {NoWorld, w}

AllComeTo(t, w) == \A i \in Instance : up[i] => ComesTo(news[i], cacheTurn[i], world[i], t, w)

\* All instances come to what the leader has.
LeaderIsLatest ==
  /\ AllComeTo(cacheTurn[leader], world[leader])
  /\ Repeats(news[leader], cacheTurn[leader], world[leader])

\* A game was started elsewhere, and nothing has been published since.
StartIsLatest ==
  /\ AllComeTo(1, <<>>)
  /\ news[leader] = <<Start>>
  /\ epc \in {"idle", "bump"}

ReplicaInv == up[leader] /\ (LeaderIsLatest \/ StartIsLatest)

\* Orders that may be played in turn t.
Playable(orders, t) ==
  /\ Book!Distinct(orders)
  /\ \A k \in DOMAIN orders : orders[k].turn \in {t - 1, t}

\* While a turn is played, what is buffered is of that turn: it will be late when it is played.
EngineInv ==
  /\ Playable(KeptOrders(cacheTurn[leader]), cacheTurn[leader])
  /\ epc \in {"read", "steps"} =>
       news[leader] = <<>> /\ playing.turn = cacheTurn[leader] /\ playing.world = world[leader]
  /\ epc = "steps" =>
       /\ \A k \in DOMAIN pending : pending[k].turn = cacheTurn[leader]
       /\ Playable(playing.orders, cacheTurn[leader])

BookInv == calm => ReplicaInv /\ EngineInv

\* A step that leaves the book alone.
SameBook == world'[leader'] = world[leader] /\ cacheTurn'[leader'] = cacheTurn[leader]

-----------------------------------------------------------------------------
(* Records on their way.                                                   *)

LEMMA NoneRepeat == \A t, w : Repeats(<<>>, t, w)
BY DEF Repeats

LEMMA EmptyComes == \A c, x, t, w : ComesTo(<<>>, c, x, t, w) <=> c = t /\ x = w
BY DEF ComesTo

\* The records of a sequence after its first.
LEMMA TailRecords ==
  ASSUME NEW s \in Seq(Record), s # <<>>
  PROVE  /\ Head(s) = s[1] /\ 1 \in DOMAIN s /\ Head(s) \in Record /\ Tail(s) \in Seq(Record)
         /\ Len(Tail(s)) = Len(s) - 1 /\ Len(s) \in Nat /\ Len(s) >= 1
         /\ \A k \in DOMAIN Tail(s) : k \in Nat /\ k + 1 \in DOMAIN s /\ Tail(s)[k] = s[k + 1]
         /\ \A k \in DOMAIN s : k \in Nat /\ (k = 1 \/ (k - 1 \in DOMAIN Tail(s) /\ Tail(s)[k - 1] = s[k]))
<1>1. Head(s) = s[1] /\ 1 \in DOMAIN s /\ Len(s) \in Nat /\ Len(s) >= 1 /\ Head(s) \in Record
  BY HeadTailProperties
<1>2. /\ Tail(s) \in Seq(Record) /\ Len(Tail(s)) = Len(s) - 1
      /\ \A k \in 1 .. Len(Tail(s)) : Tail(s)[k] = s[k + 1]
  BY HeadTailProperties
<1>3. \A k \in 1 .. Len(s) : k \in Nat /\ (k = 1 \/ (k - 1 \in 1 .. Len(Tail(s)) /\ (k - 1) + 1 = k))
  BY <1>1, <1>2
<1>4. \A k \in 1 .. Len(Tail(s)) : k \in Nat /\ k + 1 \in 1 .. Len(s)
  BY <1>1, <1>2
<1>5. DOMAIN s = 1 .. Len(s) /\ DOMAIN Tail(s) = 1 .. Len(Tail(s))
  BY <1>2
<1>6. \A k \in DOMAIN s : k \in Nat /\ (k = 1 \/ (k - 1 \in DOMAIN Tail(s) /\ Tail(s)[k - 1] = s[k]))
  BY <1>2, <1>3, <1>5
<1>7. QED
  BY <1>1, <1>2, <1>4, <1>5, <1>6

\* To apply a record changes nothing of what an instance comes to.
LEMMA ApplyComes ==
  ASSUME NEW s \in Seq(Record), s # <<>>, NEW c, NEW x, NEW t, NEW w \in Seq(Played),
         ComesTo(s, c, x, t, w)
  PROVE  ComesTo(Tail(s), Head(s).turn, Applied(Head(s), x), t, w)
<1> DEFINE y == Applied(Head(s), x)
           rest == Tail(s)
<1>0. y = (IF s[1].world = NoWorld THEN x ELSE s[1].world) /\ w # NoWorld
  BY TailRecords, WorldAssumption DEF Applied
<1>1. /\ 1 \in DOMAIN s /\ rest \in Seq(Record) /\ Len(rest) = Len(s) - 1 /\ Len(s) \in Nat /\ Len(s) >= 1
      /\ \A k \in DOMAIN rest : k \in Nat /\ k + 1 \in DOMAIN s /\ rest[k] = s[k + 1]
      /\ \A k \in DOMAIN s : k \in Nat /\ (k = 1 \/ (k - 1 \in DOMAIN rest /\ rest[k - 1] = s[k]))
  BY TailRecords
<1>2. s[Len(s)].turn = t /\ Head(s) = s[1]
  BY TailRecords DEF ComesTo
<1> HIDE DEF y, rest
<1>3. rest = <<>> => s[1].turn = t
  <2>1. rest = <<>> => Len(s) = 1
    BY <1>1
  <2>2. QED
    BY <1>2, <2>1
<1>4. rest # <<>> => rest[Len(rest)].turn = t
  <2>1. rest # <<>> => Len(rest) \in DOMAIN rest
    BY <1>1
  <2>2. Len(rest) + 1 = Len(s)
    BY <1>1
  <2>3. QED
    BY <1>1, <1>2, <2>1, <2>2
<1>5. \/ y = w /\ \A k \in DOMAIN rest : rest[k].world = NoWorld
      \/ \E k \in DOMAIN rest : rest[k].world = w /\ \A m \in DOMAIN rest : m > k => rest[m].world = NoWorld
  <2>1. CASE x = w /\ \A k \in DOMAIN s : s[k].world = NoWorld
    BY <1>0, <1>1, <2>1
  <2>2. ASSUME NEW k \in DOMAIN s, s[k].world = w, \A m \in DOMAIN s : m > k => s[m].world = NoWorld
        PROVE  \/ y = w /\ \A m \in DOMAIN rest : rest[m].world = NoWorld
               \/ \E j \in DOMAIN rest : rest[j].world = w /\ \A m \in DOMAIN rest : m > j => rest[m].world = NoWorld
    <3>1. CASE k = 1
      <4>1. \A m \in DOMAIN rest : m + 1 > k
        <5>1. \A m \in DOMAIN rest : m \in Nat /\ m >= 1
          BY <1>1
        <5>2. QED
          BY <3>1, <5>1
      <4>2. y = w
        BY <1>0, <2>2, <3>1
      <4>3. \A m \in DOMAIN rest : rest[m].world = NoWorld
        BY <1>1, <2>2, <4>1
      <4>4. QED
        BY <4>2, <4>3
    <3>2. CASE k # 1
      <4>1. k - 1 \in DOMAIN rest /\ rest[k - 1].world = w /\ k \in Nat
        BY <1>1, <2>2, <3>2
      <4>2. ASSUME NEW m \in DOMAIN rest, m > k - 1
            PROVE  rest[m].world = NoWorld
        <5>1. m + 1 \in DOMAIN s /\ rest[m] = s[m + 1] /\ m \in Nat
          BY <1>1
        <5>2. m + 1 > k
          BY <4>1, <4>2, <5>1
        <5>3. QED
          BY <2>2, <5>1, <5>2
      <4>3. QED
        BY <4>1, <4>2
    <3>3. QED
      BY <3>1, <3>2
  <2>3. QED
    BY <2>1, <2>2 DEF ComesTo
<1>6. QED
  BY <1>2, <1>3, <1>4, <1>5 DEF ComesTo, y, rest

\* A record that repeats what the leader has changes nothing at the leader.
LEMMA ApplyRepeats ==
  ASSUME NEW s \in Seq(Record), s # <<>>, NEW t, NEW w, Repeats(s, t, w)
  PROVE  Head(s).turn = t /\ Applied(Head(s), w) = w /\ Repeats(Tail(s), t, w)
<1>1. Head(s).turn = t /\ Head(s).world \in {NoWorld, w}
  BY TailRecords DEF Repeats
<1>2. \A k \in DOMAIN Tail(s) : Tail(s)[k].turn = t /\ Tail(s)[k].world \in {NoWorld, w}
  BY TailRecords DEF Repeats
<1>3. QED
  BY <1>1, <1>2 DEF Repeats, Applied

LEMMA AppendRecord ==
  ASSUME NEW s \in Seq(Record), NEW r \in Record
  PROVE  /\ Append(s, r) # <<>> /\ Append(s, r)[Len(Append(s, r))] = r
         /\ Len(s) + 1 \in DOMAIN Append(s, r) /\ Append(s, r)[Len(s) + 1] = r
         /\ \A k \in DOMAIN s : k \in DOMAIN Append(s, r) /\ Append(s, r)[k] = s[k]
         /\ \A k \in DOMAIN Append(s, r) :
              k \in Nat /\ (k \in DOMAIN s \/ (k = Len(s) + 1 /\ Append(s, r)[k] = r))
BY AppendProperties

\* A heartbeat of turn t leaves the world to what is on its way.
LEMMA HeartbeatComes ==
  ASSUME NEW s \in Seq(Record), NEW r \in Record, NEW c, NEW x, NEW t, NEW w,
         ComesTo(s, c, x, t, w), r.turn = t, r.world = NoWorld
  PROVE  ComesTo(Append(s, r), c, x, t, w)
<1> DEFINE more == Append(s, r)
<1>1. /\ more # <<>> /\ more[Len(more)] = r
      /\ \A k \in DOMAIN s : k \in DOMAIN more /\ more[k] = s[k]
      /\ \A k \in DOMAIN more : k \in DOMAIN s \/ more[k] = r
  BY AppendRecord
<1> HIDE DEF more
<1>2. CASE x = w /\ \A k \in DOMAIN s : s[k].world = NoWorld
  BY <1>1, <1>2 DEF ComesTo, more
<1>3. ASSUME NEW k \in DOMAIN s, s[k].world = w, \A m \in DOMAIN s : m > k => s[m].world = NoWorld
      PROVE  ComesTo(more, c, x, t, w)
  <2>1. k \in DOMAIN more /\ more[k].world = w
    BY <1>1, <1>3
  <2>2. \A m \in DOMAIN more : m > k => more[m].world = NoWorld
    BY <1>1, <1>3
  <2>3. QED
    BY <1>1, <2>1, <2>2 DEF ComesTo
<1>4. QED
  BY <1>2, <1>3 DEF ComesTo, more

\* A record with a world is what everyone comes to.
LEMMA RecordComes ==
  ASSUME NEW s \in Seq(Record), NEW r \in Record, NEW c, NEW x
  PROVE  ComesTo(Append(s, r), c, x, r.turn, r.world)
<1> DEFINE more == Append(s, r)
           n == Len(s) + 1
<1>1. /\ more # <<>> /\ more[Len(more)] = r /\ n \in DOMAIN more /\ more[n] = r
  BY AppendRecord
<1>2. \A m \in DOMAIN more : ~(m > n)
  <2>1. Len(more) = n /\ DOMAIN more = 1 .. Len(more) /\ n \in Nat
    BY AppendProperties
  <2>2. QED
    BY <2>1
<1> HIDE DEF more, n
<1>3. QED
  BY <1>1, <1>2 DEF ComesTo, more

LEMMA OneRepeats ==
  ASSUME NEW r \in Record
  PROVE  /\ Repeats(Append(<<>>, r), r.turn, r.world) /\ Append(<<>>, r) = <<r>>
         /\ r.world = NoWorld => \A w : Repeats(Append(<<>>, r), r.turn, w)
<1>1. \A k \in DOMAIN Append(<<>>, r) : Append(<<>>, r)[k] = r
  OBVIOUS
<1>2. Append(<<>>, r) = <<r>>
  OBVIOUS
<1>3. QED
  BY <1>1, <1>2 DEF Repeats

\* What a published record makes of the instances.
LEMMA AnnouncedTo ==
  ASSUME TypeOK, NEW r \in Record, news' = Announced(r), UNCHANGED up, NEW i \in Instance, up'[i]
  PROVE  up[i] /\ news[i] \in Seq(Record) /\ news'[i] = Append(news[i], r)
BY DEF Announced, TypeOK

LEMMA AllCome ==
  ASSUME TypeOK, NEW r \in Record, news' = Announced(r), UNCHANGED up
  PROVE  \A i \in Instance : up'[i] => ComesTo(news'[i], cacheTurn'[i], world'[i], r.turn, r.world)
<1>1. ASSUME NEW i \in Instance, up'[i]
      PROVE  ComesTo(news'[i], cacheTurn'[i], world'[i], r.turn, r.world)
  <2>1. news[i] \in Seq(Record) /\ news'[i] = Append(news[i], r)
    BY <1>1, AnnouncedTo
  <2>2. QED
    BY <2>1, RecordComes
<1>2. QED
  BY <1>1

-----------------------------------------------------------------------------
(* Action by action.                                                       *)

LEMMA NothingIsPlayable == \A t : Playable(<<>>, t)
BY DEF Playable, Book!Distinct

LEMMA BookInit == Init => BookInv
<1> SUFFICES ASSUME Init PROVE BookInv
  OBVIOUS
<1>1. leader \in Instance /\ \A i \in Instance : up[i] /\ news[i] = <<>> /\ cacheTurn[i] = 1 /\ world[i] = <<>>
  BY InstanceAssumption DEF Init
<1>2. ReplicaInv
  BY <1>1, EmptyComes, NoneRepeat DEF ReplicaInv, LeaderIsLatest, AllComeTo
<1>3. Playable(KeptOrders(cacheTurn[leader]), cacheTurn[leader]) /\ epc = "idle"
  BY NothingIsPlayable DEF Init, KeptOrders
<1>4. EngineInv
  BY <1>3 DEF EngineInv
<1>5. QED
  BY <1>2, <1>4 DEF BookInv

\* The steps that touch neither the caches nor the engine.
LEMMA OtherBook ==
  ASSUME BookInv, UNCHANGED <<replicas, pending, currentTurn, epc, playing, calm>>
  PROVE  BookInv' /\ SameBook /\ UNCHANGED calm
<1>1. UNCHANGED <<up, leader, cacheTurn, world, news>>
  BY DEF replicas
<1>2. ReplicaInv => ReplicaInv'
  BY <1>1 DEF ReplicaInv, LeaderIsLatest, StartIsLatest, AllComeTo, ComesTo, Repeats, Start
<1>3. EngineInv => EngineInv'
  BY <1>1 DEF EngineInv, Playable, KeptOrders
<1>4. QED
  BY <1>1, <1>2, <1>3 DEF BookInv, SameBook

\* An instance applies a record: it changes nothing of the book, unless it is the leader that
\* hears of a new game.
LEMMA ApplyBook ==
  ASSUME TypeOK, OrdersInv, BookInv, NEW i \in Instance, ApplyNews(i)
  PROVE  BookInv' /\ UNCHANGED calm /\ (calm => SameBook \/ Book!NewGame)
<1> DEFINE t == cacheTurn[leader]
           w == world[leader]
<1>1. /\ news[i] \in Seq(Record) /\ news[i] # <<>> /\ up[i] /\ leader \in Instance
      /\ news \in [Instance -> Seq(Record)] /\ w \in Seq(Played) /\ <<>> \in Seq(Played)
      /\ world \in [Instance -> Seq(Played)] /\ cacheTurn \in [Instance -> Nat]
  <2>1. news[i] # <<>> /\ up[i]
    BY DEF ApplyNews
  <2>2. /\ leader \in Instance /\ news \in [Instance -> Seq(Record)]
        /\ world \in [Instance -> Seq(Played)] /\ cacheTurn \in [Instance -> Nat]
    BY DEF TypeOK
  <2>3. <<>> \in Seq(Played)
    OBVIOUS
  <2>4. QED
    BY <2>1, <2>2, <2>3
<1>2. /\ cacheTurn' = [cacheTurn EXCEPT ![i] = Head(news[i]).turn]
      /\ world' = [world EXCEPT ![i] = Applied(Head(news[i]), world[i])]
      /\ news' = [news EXCEPT ![i] = Tail(news[i])]
      /\ UNCHANGED <<up, leader, pending, currentTurn, epc, playing, calm>>
  BY <1>1 DEF ApplyNews, Applied, engine
<1> SUFFICES ASSUME calm
             PROVE  ReplicaInv' /\ EngineInv' /\ (SameBook \/ Book!NewGame)
  BY <1>2 DEF BookInv
<1>3. up[leader] /\ (LeaderIsLatest \/ StartIsLatest) /\ EngineInv
  BY DEF BookInv, ReplicaInv
<1>4. ASSUME NEW t1, NEW w1 \in Seq(Played), AllComeTo(t1, w1)
      PROVE  \A j \in Instance : up'[j] => ComesTo(news'[j], cacheTurn'[j], world'[j], t1, w1)
  <2>1. ASSUME NEW j \in Instance, up'[j]
        PROVE  ComesTo(news'[j], cacheTurn'[j], world'[j], t1, w1)
    <3>1. ComesTo(news[j], cacheTurn[j], world[j], t1, w1)
      BY <1>2, <1>4, <2>1 DEF AllComeTo
    <3>2. CASE j = i
      <4>1. ComesTo(Tail(news[i]), Head(news[i]).turn, Applied(Head(news[i]), world[i]), t1, w1)
        BY <1>1, <1>4, <3>1, <3>2, ApplyComes
      <4>2. QED
        BY <1>1, <1>2, <3>2, <4>1
    <3>3. CASE j # i
      BY <1>1, <1>2, <3>1, <3>3
    <3>4. QED
      BY <3>2, <3>3
  <2>2. QED
    BY <2>1
<1>5. CASE LeaderIsLatest
  <2>1. \A j \in Instance : up'[j] => ComesTo(news'[j], cacheTurn'[j], world'[j], t, w)
    BY <1>1, <1>4, <1>5 DEF LeaderIsLatest
  <2>2. Repeats(news[leader], t, w)
    BY <1>5 DEF LeaderIsLatest
  <2>3. world'[leader'] = w /\ cacheTurn'[leader'] = t /\ Repeats(news'[leader'], t, w)
    <3>1. CASE i = leader
      <4>1. Head(news[i]).turn = t /\ Applied(Head(news[i]), w) = w /\ Repeats(Tail(news[i]), t, w)
        BY <1>1, <2>2, <3>1, ApplyRepeats
      <4>2. QED
        BY <1>1, <1>2, <3>1, <4>1
    <3>2. CASE i # leader
      BY <1>1, <1>2, <2>2, <3>2
    <3>3. QED
      BY <3>1, <3>2
  <2>4. ReplicaInv'
    <3>1. LeaderIsLatest'
      BY <2>1, <2>3 DEF LeaderIsLatest, AllComeTo, Repeats, ComesTo
    <3>2. QED
      BY <1>2, <1>3, <3>1 DEF ReplicaInv
  <2>5. EngineInv'
    <3>1. epc \in {"read", "steps"} => news'[leader'] = <<>>
      <4>1. epc \in {"read", "steps"} => news[leader] = <<>>
        BY <1>3 DEF EngineInv
      <4>2. QED
        BY <1>1, <1>2, <4>1
    <3>2. UNCHANGED <<pending, currentTurn, epc, playing>> /\ world'[leader'] = w /\ cacheTurn'[leader'] = t
      BY <1>2, <2>3
    <3>3. QED
      BY <1>3, <3>1, <3>2 DEF EngineInv, Playable, KeptOrders
  <2>6. QED
    BY <2>3, <2>4, <2>5 DEF SameBook
<1>6. CASE StartIsLatest
  <2>0. news[leader] = <<Start>> /\ epc \in {"idle", "bump"} /\ AllComeTo(1, <<>>)
    BY <1>6 DEF StartIsLatest
  <2>1. \A j \in Instance : up'[j] => ComesTo(news'[j], cacheTurn'[j], world'[j], 1, <<>>)
    BY <1>1, <1>4, <2>0
  <2>2. CASE i = leader
    <3>1. Head(news[i]) = Start /\ Tail(news[i]) = <<>>
      <4>1. \A r : Head(<<r>>) = r /\ Tail(<<r>>) = <<>>
        OBVIOUS
      <4>2. QED
        BY <2>0, <2>2, <4>1
    <3>2. Start.turn = 1 /\ Applied(Start, w) = <<>>
      BY <1>1, StartType, WorldAssumption DEF Applied
    <3>3. world'[leader'] = <<>> /\ cacheTurn'[leader'] = 1 /\ news'[leader'] = <<>>
      BY <1>1, <1>2, <2>2, <3>1, <3>2
    <3>4. ReplicaInv'
      <4>1. LeaderIsLatest'
        BY <2>1, <3>3, NoneRepeat DEF LeaderIsLatest, AllComeTo, Repeats, ComesTo
      <4>2. QED
        BY <1>2, <1>3, <4>1 DEF ReplicaInv
    <3>5. Playable(KeptOrders(1), 1)
      <4>1. InOrder(KeptOrders(1), 1) /\ KeptOrders(1) \in Seq(Order)
        <5>1. \A n \in Nat : InOrder(KeptOrders(n), n) /\ KeptOrders(n) \in Seq(Order)
          BY KeptInOrder, KeptOrdersType
        <5>2. QED
          BY <5>1
      <4>2. ASSUME NEW k \in DOMAIN KeptOrders(1)
            PROVE  KeptOrders(1)[k].turn \in {1 - 1, 1}
        <5>1. KeptOrders(1)[k] \in Order /\ KeptOrders(1)[k].turn <= 1
          BY <4>1 DEF InOrder
        <5>2. KeptOrders(1)[k].turn \in Nat
          BY <5>1 DEF Order
        <5>3. QED
          BY <5>1, <5>2
      <4>3. QED
        BY <4>1, <4>2 DEF InOrder, Playable
    <3>6. EngineInv'
      BY <1>2, <2>0, <3>3, <3>5 DEF EngineInv, Playable, KeptOrders
    <3>7. Book!NewGame
      BY <3>3 DEF Book!NewGame
    <3>8. QED
      BY <3>4, <3>6, <3>7
  <2>3. CASE i # leader
    <3>1. /\ world'[leader'] = w /\ cacheTurn'[leader'] = t /\ news'[leader'] = <<Start>>
          /\ UNCHANGED <<pending, currentTurn, epc, playing>>
      BY <1>1, <1>2, <2>0, <2>3
    <3>2. StartIsLatest'
      BY <2>0, <2>1, <3>1 DEF StartIsLatest, AllComeTo, ComesTo, Start
    <3>3. ReplicaInv'
      BY <1>2, <1>3, <3>2 DEF ReplicaInv
    <3>4. EngineInv'
      BY <1>3, <2>0, <3>1 DEF EngineInv, Playable, KeptOrders
    <3>5. QED
      BY <3>1, <3>3, <3>4 DEF SameBook
  <2>4. QED
    BY <2>2, <2>3
<1>7. QED
  BY <1>3, <1>5, <1>6

\* A leader without records before it has what was published last.
LEMMA InformedLeader ==
  ASSUME BookInv, calm, news[leader] = <<>>
  PROVE  up[leader] /\ LeaderIsLatest /\ EngineInv
<1>1. news[leader] # <<Start>>
  OBVIOUS
<1>2. QED
  BY <1>1 DEF BookInv, ReplicaInv, StartIsLatest

LEMMA HeartbeatBook ==
  ASSUME TypeOK, BookInv, Heartbeat, calm'
  PROVE  BookInv' /\ SameBook /\ calm
<1> DEFINE r == [turn |-> cacheTurn[leader], world |-> NoWorld]
           t == cacheTurn[leader]
           w == world[leader]
<1>1. r \in Record /\ r.turn = t /\ r.world = NoWorld /\ leader \in Instance
  BY DEF TypeOK, Record
<1>2. /\ news' = Announced(r) /\ epc = "idle" /\ news[leader] = <<>> /\ calm
      /\ UNCHANGED <<up, leader, cacheTurn, world, pending, currentTurn, epc, playing>>
  BY DEF Heartbeat, CalmIf, engine
<1>3. up[leader] /\ LeaderIsLatest /\ EngineInv
  BY <1>2, InformedLeader
<1> HIDE DEF r
<1>4. ASSUME NEW i \in Instance, up'[i]
      PROVE  ComesTo(news'[i], cacheTurn'[i], world'[i], t, w)
  <2>1. up[i] /\ news[i] \in Seq(Record) /\ news'[i] = Append(news[i], r)
    BY <1>1, <1>2, <1>4, AnnouncedTo
  <2>2. ComesTo(news[i], cacheTurn[i], world[i], t, w)
    BY <1>3, <2>1 DEF LeaderIsLatest, AllComeTo
  <2>3. ComesTo(Append(news[i], r), cacheTurn[i], world[i], t, w)
    BY <1>1, <2>1, <2>2, HeartbeatComes
  <2>4. QED
    BY <1>2, <2>1, <2>3
<1>5. Repeats(news'[leader], t, w)
  <2>1. news'[leader] = Append(<<>>, r)
    BY <1>1, <1>2, <1>3, AnnouncedTo
  <2>2. QED
    BY <1>1, <2>1, OneRepeats
<1>6. LeaderIsLatest'
  BY <1>2, <1>4, <1>5 DEF LeaderIsLatest, AllComeTo, ComesTo, Repeats
<1>7. EngineInv'
  BY <1>2, <1>3 DEF EngineInv, Playable, KeptOrders
<1>8. QED
  BY <1>2, <1>3, <1>6, <1>7 DEF BookInv, ReplicaInv, SameBook

\* A new leader that has applied its records has what was published last.
LEMMA CrashBook ==
  ASSUME TypeOK, BookInv, NEW i \in Instance, Crash(i), calm'
  PROVE  BookInv' /\ calm /\ (SameBook \/ Book!NewGame)
<1> DEFINE t == cacheTurn[leader]
           w == world[leader]
<1>1. /\ up' = [up EXCEPT ![i] = FALSE] /\ news' = [news EXCEPT ![i] = <<>>]
      /\ UNCHANGED <<cacheTurn, world>>
  BY CrashParts
<1>2. PICK j \in Instance \ {i} : up[j] /\ EngineAfterCrash(i, j)
  BY CrashParts
<1>3. /\ leader \in Instance /\ up \in [Instance -> BOOLEAN] /\ news \in [Instance -> Seq(Record)]
  BY DEF TypeOK
<1>4. \A k \in Instance : (up'[k] => k # i /\ up[k]) /\ (k # i => up'[k] = up[k] /\ news'[k] = news[k])
  BY <1>1, <1>3
<1>5. \A t1, w1 : AllComeTo(t1, w1) =>
        \A k \in Instance : up'[k] => ComesTo(news'[k], cacheTurn'[k], world'[k], t1, w1)
  BY <1>1, <1>4 DEF AllComeTo
<1>6. CASE i # leader
  <2>1. /\ UNCHANGED <<leader, pending, currentTurn, epc, playing, calm>>
        /\ news'[leader] = news[leader] /\ up'[leader] = up[leader]
    BY <1>2, <1>3, <1>4, <1>6 DEF EngineAfterCrash, engine
  <2>2. up[leader] /\ (LeaderIsLatest \/ StartIsLatest) /\ EngineInv
    BY <2>1 DEF BookInv, ReplicaInv
  <2>3. LeaderIsLatest => LeaderIsLatest'
    <3>1. LeaderIsLatest => \A k \in Instance : up'[k] => ComesTo(news'[k], cacheTurn'[k], world'[k], t, w)
      BY <1>5 DEF LeaderIsLatest
    <3>2. LeaderIsLatest => Repeats(news'[leader], t, w)
      BY <2>1 DEF LeaderIsLatest
    <3>3. QED
      BY <1>1, <2>1, <3>1, <3>2 DEF LeaderIsLatest, AllComeTo, Repeats, ComesTo
  <2>4. StartIsLatest => StartIsLatest'
    <3>1. StartIsLatest => \A k \in Instance : up'[k] => ComesTo(news'[k], cacheTurn'[k], world'[k], 1, <<>>)
      BY <1>5 DEF StartIsLatest
    <3>2. QED
      BY <1>1, <2>1, <3>1 DEF StartIsLatest, AllComeTo, Start, ComesTo
  <2>5. EngineInv'
    BY <1>1, <2>1, <2>2 DEF EngineInv, Playable, KeptOrders
  <2>6. SameBook
    BY <1>1, <2>1 DEF SameBook
  <2>7. QED
    BY <2>1, <2>2, <2>3, <2>4, <2>5, <2>6 DEF BookInv, ReplicaInv
<1>7. CASE i = leader
  <2>1. leader' = j /\ pending' = <<>> /\ epc' = "idle" /\ calm /\ news[j] = <<>>
    BY <1>2, <1>7 DEF EngineAfterCrash, CalmIf
  <2>2. news'[leader'] = <<>> /\ up'[leader']
    BY <1>2, <1>3, <1>4, <2>1
  <2>3. LeaderIsLatest \/ StartIsLatest
    BY <2>1 DEF BookInv, ReplicaInv
  <2>4. \A t1, w1 : AllComeTo(t1, w1) => cacheTurn[j] = t1 /\ world[j] = w1
    BY <1>2, <2>1, EmptyComes DEF AllComeTo
  <2>5. LeaderIsLatest'
    <3>1. AllComeTo(t, w) \/ AllComeTo(1, <<>>)
      BY <2>3 DEF LeaderIsLatest, StartIsLatest
    <3>2. AllComeTo(cacheTurn[j], world[j])
      BY <2>4, <3>1
    <3>3. \A k \in Instance : up'[k] => ComesTo(news'[k], cacheTurn'[k], world'[k], cacheTurn'[leader'], world'[leader'])
      BY <1>1, <1>5, <2>1, <3>2
    <3>4. Repeats(news'[leader'], cacheTurn'[leader'], world'[leader'])
      BY <2>2, NoneRepeat
    <3>5. QED
      BY <3>3, <3>4 DEF LeaderIsLatest, AllComeTo, Repeats, ComesTo
  <2>6. EngineInv'
    <3>1. \A n : pending' = <<>> => Playable(IF n < currentTurn' THEN <<>> ELSE pending', n)
      BY NothingIsPlayable
    <3>2. QED
      BY <2>1, <3>1 DEF EngineInv, Playable, KeptOrders
  <2>7. SameBook \/ Book!NewGame
    <3>1. CASE LeaderIsLatest
      BY <1>1, <2>1, <2>4, <3>1 DEF LeaderIsLatest, SameBook
    <3>2. CASE StartIsLatest
      BY <1>1, <2>1, <2>4, <3>2 DEF StartIsLatest, Book!NewGame
    <3>3. QED
      BY <2>3, <3>1, <3>2
  <2>8. QED
    BY <2>1, <2>2, <2>5, <2>6, <2>7 DEF BookInv, ReplicaInv
<1>8. QED
  BY <1>6, <1>7

LEMMA BufferBook ==
  ASSUME TypeOK, OrdersInv, BookInv, BufferOrder
  PROVE  BookInv' /\ SameBook /\ UNCHANGED calm
<1> DEFINE t == cacheTurn[leader]
           kept == KeptOrders(t)
<1>1. /\ t \in Nat /\ currentTurn' = t
      /\ UNCHANGED <<up, leader, cacheTurn, world, news, epc, playing, calm>>
      /\ \/ pending' = kept
         \/ \E o \in Order : MayBuffer(o, kept, t) /\ pending' = Append(kept, o)
  BY BufferParts DEF replicas
<1>2. SameBook
  BY <1>1 DEF SameBook
<1> SUFFICES ASSUME calm
             PROVE  ReplicaInv' /\ EngineInv'
  BY <1>1, <1>2 DEF BookInv
<1>3. ReplicaInv /\ EngineInv
  BY DEF BookInv
<1>4. ReplicaInv'
  BY <1>1, <1>3 DEF ReplicaInv, LeaderIsLatest, StartIsLatest, AllComeTo, ComesTo, Repeats, Start
<1>5. kept \in Seq(Order) /\ Playable(kept, t)
  BY <1>1, <1>3, KeptOrdersType DEF EngineInv
<1>6. epc = "steps" => \A k \in DOMAIN kept : kept[k].turn = t
  BY <1>3 DEF EngineInv, KeptOrders
<1>7. KeptOrders(t)' = pending'
  <2>1. cacheTurn'[leader'] = t /\ ~(t < currentTurn')
    BY <1>1
  <2>2. QED
    BY <2>1, <1>1 DEF KeptOrders
<1> HIDE DEF kept
<1>8. /\ Playable(pending', t)
      /\ epc = "steps" => \A k \in DOMAIN pending' : pending'[k].turn = t
  <2>1. CASE pending' = kept
    BY <1>5, <1>6, <2>1
  <2>2. ASSUME NEW o \in Order, MayBuffer(o, kept, t), pending' = Append(kept, o)
        PROVE  /\ Playable(pending', t)
               /\ epc = "steps" => \A k \in DOMAIN pending' : pending'[k].turn = t
    <3>1. /\ Book!Distinct(pending')
          /\ \A k \in DOMAIN pending' : (k \in DOMAIN kept /\ pending'[k] = kept[k]) \/ pending'[k].turn = t
      BY <1>5, <2>2, AppendDistinct DEF Playable
    <3>2. QED
      BY <1>5, <1>6, <3>1 DEF Playable
  <2>3. QED
    BY <1>1, <2>1, <2>2
<1>9. EngineInv'
  <2>1. Playable(KeptOrders(cacheTurn[leader]), cacheTurn[leader])'
    BY <1>1, <1>7, <1>8 DEF Playable
  <2>2. epc' \in {"read", "steps"} =>
          news'[leader'] = <<>> /\ playing'.turn = cacheTurn'[leader'] /\ playing'.world = world'[leader']
    BY <1>1, <1>3 DEF EngineInv
  <2>3. epc' = "steps" => /\ \A k \in DOMAIN pending' : pending'[k].turn = cacheTurn'[leader']
                          /\ Playable(playing.orders, cacheTurn[leader])'
    BY <1>1, <1>3, <1>8 DEF EngineInv, Playable
  <2>4. QED
    BY <2>1, <2>2, <2>3 DEF EngineInv, Playable
<1>10. QED
  BY <1>4, <1>9

LEMMA TurnParts ==
  ASSUME BeginTurn \/ TakeOrders \/ FinishTurn
  PROVE  UNCHANGED <<up, leader, cacheTurn, world, news>> /\ SameBook
BY DEF BeginTurn, TakeOrders, FinishTurn, replicas, SameBook

\* A calm engine that does not publish leaves the replicas as they are.
LEMMA ReplicasStay ==
  ASSUME ReplicaInv, UNCHANGED <<up, leader, cacheTurn, world, news>>,
         LeaderIsLatest \/ epc' \in {"idle", "bump"}
  PROVE  ReplicaInv'
BY DEF ReplicaInv, LeaderIsLatest, StartIsLatest, AllComeTo, ComesTo, Repeats, Start

LEMMA BeginBook ==
  ASSUME TypeOK, BookInv, BeginTurn, calm'
  PROVE  BookInv' /\ SameBook /\ calm
<1>1. /\ UNCHANGED <<up, leader, cacheTurn, world, news, pending, currentTurn>> /\ SameBook
      /\ playing' = [turn |-> cacheTurn[leader], world |-> world[leader], orders |-> <<>>]
      /\ epc' = "read" /\ calm /\ news[leader] = <<>>
  BY TurnParts DEF BeginTurn, CalmIf
<1>2. up[leader] /\ LeaderIsLatest /\ EngineInv
  BY <1>1, InformedLeader
<1>3. ReplicaInv'
  BY <1>1, <1>2, ReplicasStay DEF ReplicaInv
<1>4. playing'.turn = cacheTurn[leader] /\ playing'.world = world[leader]
  BY <1>1
<1>5. EngineInv'
  BY <1>1, <1>2, <1>4 DEF EngineInv, Playable, KeptOrders
<1>6. QED
  BY <1>1, <1>3, <1>5 DEF BookInv

LEMMA TakeBook ==
  ASSUME TypeOK, BookInv, TakeOrders
  PROVE  BookInv' /\ SameBook /\ UNCHANGED calm
<1> DEFINE t == cacheTurn[leader]
           kept == KeptOrders(playing.turn)
<1>1. /\ UNCHANGED <<up, leader, cacheTurn, world, news, calm>> /\ SameBook
      /\ playing' = [playing EXCEPT !.orders = kept]
      /\ pending' = <<>> /\ epc = "read" /\ epc' = "steps"
  BY TurnParts DEF TakeOrders
<1> SUFFICES ASSUME calm
             PROVE  ReplicaInv' /\ EngineInv'
  BY <1>1 DEF BookInv
<1>2. ReplicaInv /\ EngineInv
  BY DEF BookInv
<1>3. news[leader] = <<>> /\ playing.turn = t /\ playing.world = world[leader] /\ Playable(KeptOrders(t), t)
  BY <1>1, <1>2 DEF EngineInv
<1>4. ReplicaInv'
  BY <1>1, <1>2, <1>3, InformedLeader, ReplicasStay
<1>5. playing'.turn = t /\ playing'.world = world[leader] /\ playing'.orders = kept /\ Playable(kept, t)
  <2>1. playing \in [turn : Nat, world : Seq(Played), orders : Seq(Order)]
    BY DEF TypeOK
  <2>2. kept = KeptOrders(t)
    BY <1>3
  <2> HIDE DEF kept
  <2>3. QED
    BY <1>1, <1>3, <2>1, <2>2
<1> HIDE DEF kept
<1>6. Playable(KeptOrders(cacheTurn[leader]), cacheTurn[leader])'
  BY <1>1 DEF KeptOrders, Playable, Book!Distinct
<1>7. EngineInv'
  <2>1. epc' \in {"read", "steps"} =>
          news'[leader'] = <<>> /\ playing'.turn = cacheTurn'[leader'] /\ playing'.world = world'[leader']
    BY <1>1, <1>3, <1>5
  <2>2. epc' = "steps" => /\ \A k \in DOMAIN pending' : pending'[k].turn = cacheTurn'[leader']
                          /\ Playable(playing.orders, cacheTurn[leader])'
    BY <1>1, <1>5 DEF Playable
  <2>3. QED
    BY <1>6, <2>1, <2>2 DEF EngineInv, Playable
<1>8. QED
  BY <1>4, <1>7

LEMMA FinishBook ==
  ASSUME TypeOK, BookInv, FinishTurn
  PROVE  BookInv' /\ SameBook /\ UNCHANGED calm
<1>1. /\ UNCHANGED <<up, leader, cacheTurn, world, news, pending, playing, calm>> /\ SameBook
      /\ currentTurn' = currentTurn + 1 /\ epc' = "idle"
  BY TurnParts DEF FinishTurn
<1> SUFFICES ASSUME calm
             PROVE  ReplicaInv' /\ EngineInv'
  BY <1>1 DEF BookInv
<1>2. ReplicaInv /\ EngineInv
  BY DEF BookInv
<1>3. ReplicaInv'
  BY <1>1, <1>2, ReplicasStay
<1>4. Playable(KeptOrders(cacheTurn[leader]), cacheTurn[leader])'
  <2> DEFINE t == cacheTurn[leader]
  <2>1. currentTurn \in Nat /\ t \in Nat
    BY DEF TypeOK
  <2>2. CASE t < currentTurn + 1
    <3>1. (KeptOrders(cacheTurn[leader]))' = <<>>
      BY <1>1, <2>2 DEF KeptOrders
    <3>2. QED
      BY <3>1 DEF Playable, Book!Distinct
  <2>3. CASE ~(t < currentTurn + 1)
    <3>1. KeptOrders(t) = pending /\ (KeptOrders(cacheTurn[leader]))' = pending
      BY <1>1, <2>1, <2>3 DEF KeptOrders
    <3>2. Playable(pending, t)
      BY <1>2, <3>1 DEF EngineInv
    <3>3. QED
      BY <1>1, <3>1, <3>2 DEF Playable
  <2>4. QED
    BY <2>2, <2>3
<1>5. EngineInv'
  BY <1>1, <1>4 DEF EngineInv, Playable
<1>6. QED
  BY <1>3, <1>5

\* Concatenation extends a sequence by the other.
LEMMA Extension ==
  ASSUME NEW S, NEW s \in Seq(S), NEW e \in Seq(S)
  PROVE  /\ Book!IsPrefix(s, s \o e)
         /\ SubSeq(s \o e, Len(s) + 1, Len(s \o e)) = e
<1> DEFINE t == s \o e
<1>1. /\ t \in Seq(S) /\ Len(t) = Len(s) + Len(e) /\ Len(s) \in Nat /\ Len(e) \in Nat
      /\ \A i \in 1 .. Len(s) + Len(e) : t[i] = IF i <= Len(s) THEN s[i] ELSE e[i - Len(s)]
  BY ConcatProperties
<1> HIDE DEF t
<1>2. SubSeq(s, 1, Len(s)) = s
  <2>1. /\ SubSeq(s, 1, Len(s)) \in Seq(S) /\ Len(SubSeq(s, 1, Len(s))) = Len(s)
        /\ \A i \in 1 .. Len(s) : SubSeq(s, 1, Len(s))[i] = s[i]
    BY <1>1, SubSeqProperties
  <2>2. QED
    BY <2>1, SeqEqual
<1>3. SubSeq(t, 1, Len(s)) = s
  <2>1. \A i \in 1 .. Len(s) : t[i] \in S /\ t[i] = s[i]
    BY <1>1
  <2>2. /\ SubSeq(t, 1, Len(s)) \in Seq(S) /\ Len(SubSeq(t, 1, Len(s))) = Len(s)
        /\ \A i \in 1 .. Len(s) : SubSeq(t, 1, Len(s))[i] = s[i]
    BY <1>1, <2>1, SubSeqProperties
  <2>3. QED
    BY <2>2, SeqEqual
<1>4. SubSeq(t, Len(s) + 1, Len(t)) = e
  <2>1. \A i \in Len(s) + 1 .. Len(t) : t[i] \in S
    BY <1>1
  <2>2. /\ SubSeq(t, Len(s) + 1, Len(t)) \in Seq(S)
        /\ Len(SubSeq(t, Len(s) + 1, Len(t))) = Len(e)
        /\ \A i \in 1 .. Len(e) : SubSeq(t, Len(s) + 1, Len(t))[i] = t[(Len(s) + 1) + i - 1]
    BY <1>1, <2>1, SubSeqProperties
  <2>3. ASSUME NEW i \in 1 .. Len(e)
        PROVE  t[(Len(s) + 1) + i - 1] = e[i]
    <3>1. \A n, m \in Nat : \A k \in 1 .. m : /\ (n + 1) + k - 1 \in 1 .. n + m
                                           /\ ~((n + 1) + k - 1 <= n) /\ ((n + 1) + k - 1) - n = k
      OBVIOUS
    <3>2. PICK k \in 1 .. Len(s) + Len(e) : k = (Len(s) + 1) + i - 1 /\ ~(k <= Len(s)) /\ k - Len(s) = i
      <4>1. Len(s) \in Nat /\ Len(e) \in Nat /\ i \in 1 .. Len(e)
        BY <1>1
      <4>2. QED
        BY <3>1, <4>1
    <3>3. QED
      BY <1>1, <3>2
  <2>4. QED
    BY <2>2, <2>3, SeqEqual
<1>5. Book!IsPrefix(s, t)
  BY <1>1, <1>2, <1>3 DEF Book!IsPrefix
<1>6. QED
  BY <1>4, <1>5 DEF t

\* What AdvanceTurn executes may be played in its turn.
LEMMA PlayedByTheBook ==
  ASSUME NEW w \in Seq(Played), NEW t \in Nat, NEW orders \in Seq(Order), Playable(orders, t)
  PROVE  /\ Book!IsPrefix(w, Executed(w, t, orders))
         /\ LET played == SubSeq(Executed(w, t, orders), Len(w) + 1, Len(Executed(w, t, orders))) IN
              /\ Book!Distinct(played)
              /\ \A k \in DOMAIN played : played[k].at = t /\ played[k].turn \in {t - 1, t}
<1> DEFINE f == [k \in DOMAIN orders |-> [unit |-> orders[k].unit, turn |-> orders[k].turn, at |-> t]]
<1>1. ASSUME NEW k \in DOMAIN orders
      PROVE  f[k] \in Played /\ f[k].unit = orders[k].unit /\ f[k].turn = orders[k].turn /\ f[k].at = t
  <2>1. orders[k] \in Order
    OBVIOUS
  <2>2. orders[k].unit \in Unit /\ orders[k].turn \in Nat
    BY <2>1 DEF Order
  <2>3. QED
    BY <2>2 DEF Played
<1>2. f \in Seq(Played) /\ DOMAIN f = DOMAIN orders
  BY <1>1
<1>3. Executed(w, t, orders) = w \o f
  BY DEF Executed
<1> HIDE DEF f
<1>4. Book!Distinct(f)
  BY <1>1, <1>2 DEF Playable, Book!Distinct
<1>5. \A k \in DOMAIN f : f[k].at = t /\ f[k].turn \in {t - 1, t}
  BY <1>1, <1>2 DEF Playable
<1>6. Book!IsPrefix(w, w \o f) /\ SubSeq(w \o f, Len(w) + 1, Len(w \o f)) = f
  BY <1>2, Extension
<1>7. QED
  BY <1>3, <1>4, <1>5, <1>6

LEMMA UpdateBook ==
  ASSUME TypeOK, OrdersInv, BookInv, UpdateCache, calm
  PROVE  BookInv' /\ Book!Play /\ calm'
<1> DEFINE t == cacheTurn[leader]
           w == world[leader]
           after == Executed(w, t, playing.orders)
           next == t + 1
           r == [turn |-> next, world |-> after]
<1>1. /\ w \in Seq(Played) /\ t \in Nat /\ next \in Nat /\ playing.orders \in Seq(Order) /\ leader \in Instance
      /\ world \in [Instance -> Seq(Played)] /\ cacheTurn \in [Instance -> Nat]
  BY DEF TypeOK
<1>2. /\ epc = "steps" /\ ReplicaInv /\ EngineInv
  BY DEF UpdateCache, BookInv
<1>3. /\ playing.turn = t /\ playing.world = w /\ Playable(playing.orders, t) /\ news[leader] = <<>>
      /\ \A k \in DOMAIN pending : pending[k].turn = t
  BY <1>2 DEF EngineInv
<1>4. up[leader] /\ Playable(KeptOrders(t), t)
  BY <1>2 DEF ReplicaInv, EngineInv
<1>5. after \in Seq(Played)
  BY <1>1, ExecutedType
<1>6. /\ world' = [world EXCEPT ![leader] = after] /\ news' = Announced(r)
      /\ cacheTurn' = [cacheTurn EXCEPT ![leader] = next]
      /\ epc' = "bump" /\ UNCHANGED <<up, leader, pending, currentTurn, calm>>
  BY <1>3 DEF UpdateCache
<1>7. Book!Play
  <2>1. /\ Book!IsPrefix(w, after)
        /\ Book!Distinct(SubSeq(after, Len(w) + 1, Len(after)))
        /\ \A k \in DOMAIN SubSeq(after, Len(w) + 1, Len(after)) :
             /\ SubSeq(after, Len(w) + 1, Len(after))[k].at = t
             /\ SubSeq(after, Len(w) + 1, Len(after))[k].turn \in {t - 1, t}
    BY <1>1, <1>3, PlayedByTheBook DEF after
  <2> HIDE DEF after
  <2>2. world'[leader'] = after /\ cacheTurn'[leader'] = t + 1
    BY <1>1, <1>6
  <2>3. QED
    BY <2>1, <2>2 DEF Book!Play
<1> HIDE DEF after
<1>8. r \in Record /\ r.turn = next /\ r.world = after
  BY <1>1, <1>5 DEF Record
<1> HIDE DEF r
<1>9. world'[leader] = after /\ cacheTurn'[leader] = next
  BY <1>1, <1>6
<1>10. LeaderIsLatest'
  <2>1. \A i \in Instance : up'[i] => ComesTo(news'[i], cacheTurn'[i], world'[i], next, after)
    BY <1>6, <1>8, AllCome
  <2>2. news'[leader] = Append(<<>>, r)
    BY <1>1, <1>3, <1>4, <1>6, <1>8, AnnouncedTo
  <2>3. Repeats(news'[leader], next, after)
    BY <1>8, <2>2, OneRepeats
  <2>4. QED
    BY <1>6, <1>9, <2>1, <2>3 DEF LeaderIsLatest, AllComeTo, ComesTo, Repeats
<1>11. Playable(KeptOrders(next), next)
  <2>1. InOrder(KeptOrders(next), next)
    <3>1. \A n \in Nat : InOrder(KeptOrders(n), n)
      BY KeptInOrder
    <3>2. QED
      BY <1>1, <3>1
  <2>2. \A k \in DOMAIN KeptOrders(next) : KeptOrders(next)[k].turn = t
    BY <1>3 DEF KeptOrders
  <2>3. t \in {next - 1, next}
    BY <1>1
  <2>4. QED
    BY <2>1, <2>2, <2>3 DEF InOrder, Playable
<1>12. EngineInv'
  <2>1. KeptOrders(cacheTurn[leader])' = KeptOrders(next)
    BY <1>6, <1>9 DEF KeptOrders
  <2>2. Playable(KeptOrders(cacheTurn[leader]), cacheTurn[leader])'
    BY <1>6, <1>9, <1>11, <2>1 DEF Playable
  <2>3. QED
    BY <1>6, <2>2 DEF EngineInv
<1>13. BookInv' /\ calm'
  BY <1>4, <1>6, <1>10, <1>12 DEF BookInv, ReplicaInv
<1>14. QED
  BY <1>7, <1>13

\* A game started at the leader is in the book at once, one started elsewhere when the leader
\* hears of it.
LEMMA NewGameBook ==
  ASSUME TypeOK, BookInv, NEW i \in Instance, NewGame(i), calm'
  PROVE  BookInv' /\ calm /\ (SameBook \/ Book!NewGame)
<1> DEFINE t == cacheTurn[leader]
           w == world[leader]
<1>1. /\ leader \in Instance /\ news \in [Instance -> Seq(Record)]
      /\ world \in [Instance -> Seq(Played)] /\ cacheTurn \in [Instance -> Nat]
  BY DEF TypeOK
<1>2. /\ cacheTurn' = [cacheTurn EXCEPT ![i] = 1] /\ world' = [world EXCEPT ![i] = <<>>]
      /\ news' = Announced(Start) /\ UNCHANGED <<up, leader, epc>>
      /\ calm /\ news[leader] = <<>> /\ epc \in {"idle", "bump"}
      /\ IF i = leader THEN pending' = <<>> ELSE UNCHANGED <<pending, currentTurn>>
  BY DEF NewGame, Start
<1>3. up[leader] /\ EngineInv
  BY <1>2, InformedLeader
<1>4. \A j \in Instance : up'[j] => ComesTo(news'[j], cacheTurn'[j], world'[j], 1, <<>>)
  <2>1. \A j \in Instance : up'[j] => ComesTo(news'[j], cacheTurn'[j], world'[j], Start.turn, Start.world)
    BY <1>2, StartType, AllCome
  <2>2. QED
    BY <2>1, StartType
<1>5. news'[leader] = Append(<<>>, Start)
  BY <1>1, <1>2, <1>3, StartType, AnnouncedTo
<1>6. CASE i = leader
  <2>1. world'[leader] = <<>> /\ cacheTurn'[leader] = 1
    BY <1>1, <1>2, <1>6
  <2>2. Repeats(news'[leader], 1, <<>>)
    <3>1. Repeats(Append(<<>>, Start), Start.turn, Start.world)
      BY StartType, OneRepeats
    <3>2. QED
      BY <1>5, <3>1, StartType
  <2>3. LeaderIsLatest'
    BY <1>2, <1>4, <2>1, <2>2 DEF LeaderIsLatest, AllComeTo, ComesTo, Repeats
  <2>4. EngineInv'
    <3>1. pending' = <<>> /\ epc' \in {"idle", "bump"}
      BY <1>2, <1>6
    <3>2. (KeptOrders(cacheTurn[leader]))' = <<>>
      BY <3>1 DEF KeptOrders
    <3>3. QED
      BY <3>1, <3>2 DEF EngineInv, Playable, Book!Distinct
  <2>5. Book!NewGame
    BY <1>2, <2>1 DEF Book!NewGame
  <2>6. QED
    BY <1>2, <1>3, <2>3, <2>4, <2>5 DEF BookInv, ReplicaInv
<1>7. CASE i # leader
  <2>1. world'[leader] = w /\ cacheTurn'[leader] = t /\ UNCHANGED <<pending, currentTurn>>
    BY <1>1, <1>2, <1>7
  <2>2. StartIsLatest'
    <3>1. news'[leader] = <<Start>>
      BY <1>5, StartType, OneRepeats
    <3>2. QED
      BY <1>2, <1>4, <3>1 DEF StartIsLatest, AllComeTo, ComesTo, Start
  <2>3. EngineInv'
    BY <1>2, <1>3, <2>1 DEF EngineInv, Playable, KeptOrders
  <2>4. SameBook
    BY <1>2, <2>1 DEF SameBook
  <2>5. QED
    BY <1>2, <1>3, <2>2, <2>3, <2>4 DEF BookInv, ReplicaInv
<1>8. QED
  BY <1>6, <1>7

\* Nothing makes a game calm again, and while it is, every step is one of the book.
ByTheBook == calm' => calm /\ (Book!Play \/ Book!NewGame \/ SameBook)

LEMMA BookStep ==
  ASSUME TypeOK, OrdersInv, BookInv, [Next]_vars
  PROVE  BookInv' /\ ByTheBook
<1> SUFFICES ASSUME calm'
             PROVE  BookInv' /\ calm /\ (Book!Play \/ Book!NewGame \/ SameBook)
  BY DEF BookInv, ByTheBook
<1>1. CASE UNCHANGED vars
  BY <1>1, OtherBook DEF vars, engine
<1>2. CASE \E u \in Unit : Submit(u)
  BY <1>2, OtherBook DEF Submit, engine
<1>3. CASE Validate \/ Accept \/ Topologies
  BY <1>3, OtherBook DEF Validate, Accept, Topologies, engine
<1>4. CASE \E i \in Instance : MovePartition(i)
  BY <1>4, OtherBook DEF MovePartition, engine
<1>5. CASE \E i \in Instance : Crash(i)
  BY <1>5, CrashBook
<1>6. CASE \E i \in Instance : NewGame(i)
  BY <1>6, NewGameBook
<1>7. CASE \E i \in Instance : ApplyNews(i)
  BY <1>7, ApplyBook
<1>8. CASE BufferOrder
  BY <1>8, BufferBook
<1>9. CASE DropOrder
  BY <1>9, OtherBook DEF DropOrder
<1>10. CASE BeginTurn
  BY <1>10, BeginBook
<1>11. CASE TakeOrders
  BY <1>11, TakeBook
<1>12. CASE UpdateCache
  <2>1. calm
    BY <1>12 DEF UpdateCache
  <2>2. QED
    BY <1>12, <2>1, UpdateBook
<1>13. CASE FinishTurn
  BY <1>13, FinishBook
<1>14. CASE Heartbeat
  BY <1>14, HeartbeatBook
<1>15. QED
  BY <1>1, <1>2, <1>3, <1>4, <1>5, <1>6, <1>7, <1>8, <1>9, <1>10, <1>11, <1>12, <1>13, <1>14
  DEF Next, Turn

\* As long as the leader has applied all its records whenever it begins a turn, sends a heartbeat
\* or takes over, and no game is started while it plays one or has records to apply, turns are
\* played in sequence with one order per unit, each in its turn or the next, for any number of
\* instances, wherever an order arrives in AdvanceTurn, however often it is copied, replayed or
\* dropped and wherever the leader dies: OrderFlow implements OrderBook.
THEOREM ImplementsTheBook == Spec => PlaysByTheBook
<1>1. Init => Book!Init
  BY InstanceAssumption DEF Init, Book!Init
<1>2. TypeOK /\ OrdersInv /\ BookInv /\ [Next]_vars
        => BookInv' /\ [Book!Next]_<<world[leader], cacheTurn[leader], calm>>
  BY BookStep DEF ByTheBook, SameBook, Book!Next
<1>3. QED
  BY <1>1, <1>2, BookInit, Typed, PTL DEF Spec, PlaysByTheBook, Book!Spec

=============================================================================
