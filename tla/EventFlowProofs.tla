--------------------------- MODULE EventFlowProofs --------------------------
(***************************************************************************)
(* The way of an event for any map, any number of connections and players, *)
(* any lag and any length of the game: what reaches the Dark Side, what a  *)
(* cache knows once its topics are drained, who is told of the end.        *)
(***************************************************************************)
EXTENDS EventFlow, SequenceTheorems, TLAPS

-----------------------------------------------------------------------------
(* The records and where they go.                                          *)

LEMMA RecordTypes ==
  ASSUME NEW place \in Place, NEW turn \in Nat, NEW over \in BOOLEAN
  PROVE  /\ Position(place, turn) \in Record
         /\ Detection(place, turn) \in Record
         /\ WorldState(place, turn) \in Record
         /\ GameOver(turn) \in Record
         /\ Session(turn, over) \in Record
BY DEF Position, Detection, WorldState, GameOver, Session, Record, Topic, Place

LEMMA RouteTypes ==
  ASSUME NEW t \in Topic
  PROVE  Route(t) \in Seq(Channel)
<1>1. \A c1, c2 \in Channel : <<c1, c2>> \in Seq(Channel)
  OBVIOUS
<1>2. \A c1, c2, c3 \in Channel : <<c1, c2, c3>> \in Seq(Channel)
  OBVIOUS
<1>3. {"light", "dark", "cache"} = Channel
  BY DEF Channel
<1>4. CASE t = "position"
  BY <1>1, <1>3, <1>4 DEF Route
<1>5. CASE t = "detection"
  BY <1>1, <1>3, <1>5 DEF Route
<1>6. CASE t = "broadcast"
  BY <1>2, <1>3, <1>6 DEF Route
<1>7. CASE t = "session"
  BY <1>2, <1>3, <1>7 DEF Route
<1>8. QED
  BY <1>4, <1>5, <1>6, <1>7 DEF Topic

LEMMA CopyTypes ==
  ASSUME NEW c \in Channel, NEW r \in Record
  PROVE  CopyFor(c, r) \in Record
BY DEF CopyFor, Stripped, Record, Place

LEMMA CacheTypes ==
  ASSUME NEW turn \in Nat, NEW unit \in Place, NEW light \in Place, NEW dark \in Sighting,
         NEW over \in BOOLEAN
  PROVE  [turn |-> turn, unit |-> unit, light |-> light, dark |-> dark, over |-> over] \in Cache
BY DEF Cache

LEMMA AppliedTypes ==
  ASSUME NEW c \in Cache, NEW r \in Record
  PROVE  /\ Applied(c, r) \in Cache
         /\ c.unit = Nowhere => Applied(c, r).unit = Nowhere
<1>1. CASE r.topic = "position"
  BY <1>1 DEF Applied, Cache, Record
<1>2. CASE r.topic = "detection"
  <2>1. Applied(c, r) = [c EXCEPT !.dark = [region |-> r.region, turn |-> r.turn]]
    BY <1>2 DEF Applied
  <2>2. [region |-> r.region, turn |-> r.turn] \in Sighting
    BY DEF Sighting, Record
  <2>3. QED
    BY <2>1, <2>2 DEF Cache
<1>3. CASE r.topic = "broadcast"
  <2>1. Applied(c, r) = AppliedWorld(c, r)
    BY <1>3 DEF Applied
  <2>2. CASE r.over
    BY <2>1, <2>2 DEF AppliedWorld
  <2>3. CASE ~r.over
    <3>1. Nowhere \in Place /\ r.turn \in Nat /\ r.region \in Place
      BY DEF Place, Record
    <3> DEFINE light == IF r.region # Nowhere THEN r.region ELSE c.light
    <3>2. Applied(c, r) = [c EXCEPT !.turn = r.turn, !.unit = Nowhere, !.light = light]
      BY <2>1, <2>3 DEF AppliedWorld
    <3>3. light \in Place
      BY <3>1 DEF Cache
    <3> HIDE DEF light
    <3>4. QED
      BY <3>1, <3>2, <3>3 DEF Cache
  <2>4. QED
    BY <2>2, <2>3
<1>4. CASE r.topic = "session"
  <2>1. Applied(c, r) = [c EXCEPT !.turn = r.turn, !.over = r.over]
    BY <1>4 DEF Applied, AppliedSession
  <2>2. Applied(c, r) = [turn |-> r.turn, unit |-> c.unit, light |-> c.light, dark |-> c.dark,
                         over |-> r.over]
    BY <2>1 DEF Cache
  <2>3. /\ r.turn \in Nat /\ r.over \in BOOLEAN
        /\ c.unit \in Place /\ c.light \in Place /\ c.dark \in Sighting
    BY DEF Record, Cache
  <2>4. Applied(c, r) \in Cache
    BY <2>2, <2>3, CacheTypes
  <2>5. QED
    BY <2>2, <2>4
<1>5. QED
  BY <1>1, <1>2, <1>3, <1>4 DEF Record, Topic

-----------------------------------------------------------------------------
(* Types, action by action.                                                *)

LEMMA TypeInit == Init => TypeOK
<1> SUFFICES ASSUME Init PROVE TypeOK
  OBVIOUS
<1> USE DEF Init
<1>1. world \in [turn : Nat, region : Region, over : BOOLEAN]
  BY RegionAssumption
<1>2. working \in Seq(Cache) /\ unread \in [Topic -> Seq(Record)] /\ inbox \in [Connection -> Seq(Record)]
  OBVIOUS
<1>3. sighted \in Sighting
  BY DEF NoSighting, Sighting, Place
<1>4. hand \in [record : Record, left : Seq(Channel)]
  BY DEF NoRecord, Record, Topic, Place
<1>5. cache \in Cache
  BY <1>3, RegionAssumption DEF FreshCache, Cache, Place
<1>6. \A c \in Connection : Len(inbox[c]) <= InboxCapacity
  BY BoundAssumption
<1>7. QED
  BY <1>1, <1>2, <1>3, <1>4, <1>5, <1>6 DEF TypeOK

\* What AdvanceTurn appends to each topic.
PositionNews(place, turn) == IF place # world.region THEN <<Position(place, turn)>> ELSE <<>>
DetectionNews(seen, turn) == [k \in DOMAIN seen |-> Detection(seen[k], turn)]
BroadcastNews(place, turn, over) == IF over THEN GameOver(turn) ELSE WorldState(place, turn + 1)
SessionNews(turn, over) == Session(IF over THEN turn ELSE turn + 1, over)

\* One, two or no detection records in a turn.
LEMMA SightingsType ==
  ASSUME NEW place \in Region, NEW seen \in Sightings(place)
  PROVE  /\ seen \in Seq(Place) /\ DOMAIN seen = 1 .. Len(seen)
         /\ Len(seen) \in Nat /\ (seen # <<>> => Len(seen) \in DOMAIN seen)
<1>1. place \in Place /\ Nowhere \in Place
  BY DEF Place
<1>2. \A x, y \in Place : <<>> \in Seq(Place) /\ <<x>> \in Seq(Place) /\ <<y, x>> \in Seq(Place)
  OBVIOUS
<1>3. seen \in Seq(Place)
  BY <1>1, <1>2 DEF Sightings
<1>4. QED
  BY <1>3, EmptySeq, LenProperties

LEMMA DetectionNewsKind ==
  ASSUME NEW place \in Region, NEW seen \in Sightings(place), NEW turn,
         NEW S, \A p \in Place : Detection(p, turn) \in S
  PROVE  DetectionNews(seen, turn) \in Seq(S)
<1>1. seen \in Seq(Place) /\ DOMAIN seen = 1 .. Len(seen) /\ Len(seen) \in Nat
  BY SightingsType
<1>2. \A k \in 1 .. Len(seen) : Detection(seen[k], turn) \in S
  BY <1>1
<1>3. QED
  BY <1>1, <1>2 DEF DetectionNews

LEMMA EngineTurnType == TypeOK => EngineTurn \in Nat
BY DEF TypeOK, EngineTurn, Cache

\* The four topics after a turn.
LEMMA TurnPublishes ==
  ASSUME TypeOK, NEW place \in Region, NEW shown \in BOOLEAN, NEW over \in BOOLEAN,
         NEW seen \in Sightings(place),
         AdvanceTurn(place, shown, seen, over)
  PROVE  /\ unread' = [t \in Topic |-> unread'[t]]
         /\ unread'["position"] = unread["position"] \o PositionNews(place, EngineTurn)
         /\ unread'["detection"] = unread["detection"] \o DetectionNews(seen, EngineTurn)
         /\ unread'["broadcast"] = Append(unread["broadcast"], BroadcastNews(place, EngineTurn, over))
         /\ unread'["session"] = Append(unread["session"], SessionNews(EngineTurn, over))
<1> DEFINE pos == unread["position"] \o PositionNews(place, EngineTurn)
           det == unread["detection"] \o DetectionNews(seen, EngineTurn)
           bro == Append(unread["broadcast"], BroadcastNews(place, EngineTurn, over))
           ses == Append(unread["session"], SessionNews(EngineTurn, over))
<1>1. unread' = [unread EXCEPT !["position"] = pos, !["detection"] = det,
                               !["broadcast"] = bro, !["session"] = ses]
  BY DEF AdvanceTurn, PositionNews, DetectionNews, BroadcastNews, SessionNews, TypeOK
<1> HIDE DEF pos, det, bro, ses
<1>2. /\ unread' = [t \in Topic |-> unread'[t]]
      /\ unread'["position"] = pos /\ unread'["detection"] = det
      /\ unread'["broadcast"] = bro /\ unread'["session"] = ses
  BY <1>1 DEF TypeOK, Topic
<1>3. QED
  BY <1>2 DEF pos, det, bro, ses

\* If the topics hold records of certain kinds and the news are of these kinds, they still do.
LEMMA TurnKeepsKinds ==
  ASSUME TypeOK, NEW place \in Region, NEW shown \in BOOLEAN, NEW over \in BOOLEAN,
         NEW seen \in Sightings(place),
         AdvanceTurn(place, shown, seen, over),
         NEW R, \A t \in Topic : unread[t] \in Seq(R[t]),
         PositionNews(place, EngineTurn) \in Seq(R["position"]),
         DetectionNews(seen, EngineTurn) \in Seq(R["detection"]),
         BroadcastNews(place, EngineTurn, over) \in R["broadcast"],
         SessionNews(EngineTurn, over) \in R["session"]
  PROVE  \A t \in Topic : unread'[t] \in Seq(R[t])
<1>1. /\ unread'["position"] = unread["position"] \o PositionNews(place, EngineTurn)
      /\ unread'["detection"] = unread["detection"] \o DetectionNews(seen, EngineTurn)
      /\ unread'["broadcast"] = Append(unread["broadcast"], BroadcastNews(place, EngineTurn, over))
      /\ unread'["session"] = Append(unread["session"], SessionNews(EngineTurn, over))
  BY TurnPublishes
<1>2. unread'["position"] \in Seq(R["position"])
  BY <1>1, ConcatProperties DEF Topic
<1>3. unread'["detection"] \in Seq(R["detection"])
  BY <1>1, ConcatProperties DEF Topic
<1>4. \A S : \A s \in Seq(S), e \in S : Append(s, e) \in Seq(S)
  OBVIOUS
<1>5. unread["broadcast"] \in Seq(R["broadcast"]) /\ unread["session"] \in Seq(R["session"])
  BY DEF Topic
<1>6. unread'["broadcast"] \in Seq(R["broadcast"]) /\ unread'["session"] \in Seq(R["session"])
  BY <1>1, <1>4, <1>5, Zenon
<1>7. QED
  BY <1>2, <1>3, <1>6 DEF Topic

LEMMA NewsTypes ==
  ASSUME TypeOK, NEW place \in Region, NEW over \in BOOLEAN, NEW turn \in Nat,
         NEW seen \in Sightings(place)
  PROVE  /\ PositionNews(place, turn) \in Seq(Record)
         /\ DetectionNews(seen, turn) \in Seq(Record)
         /\ BroadcastNews(place, turn, over) \in Record
         /\ SessionNews(turn, over) \in Record
<1>1. place \in Place /\ turn + 1 \in Nat
  BY DEF Place
<1>2. PositionNews(place, turn) \in Seq(Record)
  BY <1>1, RecordTypes DEF PositionNews
<1>3. DetectionNews(seen, turn) \in Seq(Record)
  BY RecordTypes, DetectionNewsKind
<1>4. BroadcastNews(place, turn, over) \in Record
  BY <1>1, RecordTypes DEF BroadcastNews
<1>5. SessionNews(turn, over) \in Record
  BY <1>1, RecordTypes DEF SessionNews
<1>6. QED
  BY <1>2, <1>3, <1>4, <1>5

LEMMA TurnTypes ==
  ASSUME TypeOK, NEW place \in Region, NEW shown \in BOOLEAN, NEW over \in BOOLEAN,
         NEW seen \in Sightings(place),
         AdvanceTurn(place, shown, seen, over)
  PROVE  TypeOK'
<1>1. EngineTurn \in Nat /\ EngineTurn + 1 \in Nat /\ place \in Place
  BY EngineTurnType DEF Place
<1>2. unread' \in [Topic -> Seq(Record)]
  <2>1. /\ PositionNews(place, EngineTurn) \in Seq(Record)
        /\ DetectionNews(seen, EngineTurn) \in Seq(Record)
        /\ BroadcastNews(place, EngineTurn, over) \in Record
        /\ SessionNews(EngineTurn, over) \in Record
    BY <1>1, NewsTypes
  <2> DEFINE R == [t \in Topic |-> Record]
  <2>2. \A t \in Topic : R[t] = Record
    OBVIOUS
  <2>3. {"position", "detection", "broadcast", "session"} = Topic
    BY DEF Topic
  <2> HIDE DEF R
  <2>4. \A t \in Topic : unread[t] \in Seq(R[t])
    BY <2>2 DEF TypeOK
  <2>5. /\ PositionNews(place, EngineTurn) \in Seq(R["position"])
        /\ DetectionNews(seen, EngineTurn) \in Seq(R["detection"])
        /\ BroadcastNews(place, EngineTurn, over) \in R["broadcast"]
        /\ SessionNews(EngineTurn, over) \in R["session"]
    BY <2>1, <2>2, <2>3
  <2>6. \A t \in Topic : unread'[t] \in Seq(R[t])
    BY <2>4, <2>5, TurnKeepsKinds
  <2>7. unread' = [t \in Topic |-> unread'[t]]
    BY TurnPublishes
  <2>8. QED
    BY <2>2, <2>6, <2>7
<1>3. sighted' \in Sighting
  <2>1. CASE seen = <<>>
    BY <2>1 DEF TypeOK, AdvanceTurn
  <2>2. CASE seen # <<>>
    <3>1. seen[Len(seen)] \in Place
      BY <2>2, SightingsType
    <3>2. sighted' = [region |-> seen[Len(seen)], turn |-> EngineTurn]
      BY <2>2 DEF AdvanceTurn
    <3>3. QED
      BY <1>1, <3>1, <3>2 DEF Sighting
  <2>3. QED
    BY <2>1, <2>2
<1>4. world' \in [turn : Nat, region : Region, over : BOOLEAN]
  BY <1>1 DEF AdvanceTurn
<1>5. working' \in Seq(Cache)
  <2> DEFINE unit == IF shown THEN place ELSE cache.unit
  <2>1. unit \in Place /\ cache.dark \in Sighting
    BY <1>1 DEF TypeOK, Cache
  <2>2. working' = IF leading THEN <<[turn |-> EngineTurn + 1, unit |-> unit, light |-> place,
                                      dark |-> cache.dark, over |-> over]>> ELSE <<>>
    BY DEF AdvanceTurn
  <2> HIDE DEF unit
  <2>3. [turn |-> EngineTurn + 1, unit |-> unit, light |-> place, dark |-> cache.dark, over |-> over]
          \in Cache
    BY <1>1, <2>1, CacheTypes
  <2>4. QED
    BY <2>2, <2>3
<1>6. played' \in Nat
  BY DEF TypeOK, AdvanceTurn
<1>7. QED
  BY <1>2, <1>3, <1>4, <1>5, <1>6 DEF TypeOK, AdvanceTurn, observed, consumer, clients

LEMMA GameTypes ==
  ASSUME TypeOK, UpdateCache \/ Heartbeat \/ NewGame
  PROVE  TypeOK'
<1> DEFINE one == 1
<1>1. one \in Nat /\ EngineTurn \in Nat /\ StartRegion \in Place /\ Nowhere \in Place
  BY EngineTurnType, RegionAssumption DEF Place
<1>2. CASE UpdateCache
  <2>1. cache' \in Cache /\ working' \in Seq(Cache)
    BY <1>2 DEF UpdateCache, TypeOK
  <2>2. QED
    BY <1>2, <2>1 DEF UpdateCache, TypeOK, observed, topics, consumer, clients, budget
<1>3. CASE Heartbeat
  <2>1. Session(EngineTurn, world.over) \in Record
    BY <1>1, RecordTypes DEF TypeOK
  <2>2. Append(unread["session"], Session(EngineTurn, world.over)) \in Seq(Record)
    BY <2>1, AppendProperties DEF TypeOK, Topic
  <2>3. unread' \in [Topic -> Seq(Record)]
    BY <1>3, <2>2 DEF Heartbeat, TypeOK
  <2>4. QED
    BY <1>3, <2>3 DEF Heartbeat, Upset, TypeOK, observed, game, consumer, clients
<1>4. CASE NewGame
  <2> DEFINE b == WorldState(StartRegion, 1)
             s == Session(1, FALSE)
  <2>1. b \in Record /\ s \in Record
    BY <1>1, RecordTypes
  <2>2. unread' = [unread EXCEPT !["broadcast"] = Append(@, b), !["session"] = Append(@, s)]
    BY <1>4 DEF NewGame
  <2> DEFINE bs == Append(unread["broadcast"], b)
             ss == Append(unread["session"], s)
  <2> HIDE DEF b, s
  <2>3. unread' \in [Topic -> Seq(Record)]
    <3>1. bs \in Seq(Record) /\ ss \in Seq(Record)
      BY <2>1, AppendProperties DEF TypeOK, Topic
    <3>2. unread' = [unread EXCEPT !["broadcast"] = bs, !["session"] = ss]
      BY <2>2 DEF TypeOK, Topic
    <3> HIDE DEF bs, ss
    <3>3. QED
      BY <3>1, <3>2 DEF TypeOK
  <2>4. FreshCache \in Cache
    <3>1. NoSighting \in Sighting
      BY DEF NoSighting, Sighting, Place
    <3>2. QED
      BY <1>1, <3>1, CacheTypes DEF FreshCache
  <2>5. cache' \in Cache
    BY <1>4, <2>4 DEF NewGame, TypeOK
  <2>6. world' \in [turn : Nat, region : Region, over : BOOLEAN]
    BY <1>4, RegionAssumption DEF NewGame
  <2>7. /\ UNCHANGED <<leading, sideOf, working, sighted, loaded, lost, hand, played>>
        /\ UNCHANGED <<open, subs, inbox, heard, missed, audience>>
        /\ upsets' = upsets + 1
    BY <1>4 DEF NewGame, Upset, observed, consumer, clients
  <2>8. QED
    BY <2>3, <2>5, <2>6, <2>7 DEF TypeOK
<1>5. QED
  BY <1>2, <1>3, <1>4

LEMMA RouterTypes ==
  ASSUME TypeOK, NEW t \in Topic, SkipRecord(t) \/ RouterTakes(t)
  PROVE  TypeOK'
<1>1. unread[t] \in Seq(Record) /\ unread[t] # <<>>
  BY DEF TypeOK, SkipRecord, RouterTakes
<1>2. Head(unread[t]) \in Record /\ Tail(unread[t]) \in Seq(Record)
  BY <1>1, HeadTailProperties
<1>3. unread' \in [Topic -> Seq(Record)]
  BY <1>2 DEF TypeOK, SkipRecord, RouterTakes
<1>4. CASE SkipRecord(t)
  BY <1>3, <1>4 DEF SkipRecord, Upset, TypeOK, observed, game, clients
<1>5. CASE RouterTakes(t)
  <2>1. hand' \in [record : Record, left : Seq(Channel)]
    BY <1>2, <1>5, RouteTypes DEF RouterTakes
  <2>2. QED
    BY <1>3, <1>5, <2>1 DEF RouterTakes, TypeOK, observed, game, clients, budget
<1>6. QED
  BY <1>4, <1>5

LEMMA ReceivesTypes ==
  ASSUME TypeOK, NEW c, Receives(c)
  PROVE  /\ hand' \in [record : Record, left : Seq(Channel)]
         /\ hand'.record = hand.record /\ hand'.left = Tail(hand.left)
         /\ hand.record \in Record /\ c \in Channel
<1>1. hand.record \in Record /\ hand.left \in Seq(Channel) /\ hand.left # <<>>
  BY DEF TypeOK, Receives
<1>2. Head(hand.left) \in Channel /\ Tail(hand.left) \in Seq(Channel)
  BY <1>1, HeadTailProperties
<1>3. QED
  BY <1>1, <1>2 DEF TypeOK, Receives

LEMMA CacheManagerTypes ==
  ASSUME TypeOK, CacheManager
  PROVE  TypeOK'
<1>1. hand' \in [record : Record, left : Seq(Channel)] /\ hand.record \in Record
  BY ReceivesTypes DEF CacheManager
<1>2. cache' \in Cache
  BY <1>1, AppliedTypes DEF CacheManager, TypeOK
<1>3. QED
  BY <1>1, <1>2 DEF CacheManager, TypeOK, observed, game, topics, consumer, clients, budget

LEMMA HubTypes ==
  ASSUME TypeOK, NEW side \in {"light", "dark"}, HubForwards(side)
  PROVE  TypeOK'
<1> DEFINE to == {c \in subs : sideOf[c] = side}
           event == CopyFor(side, hand.record)
<1>1. hand' \in [record : Record, left : Seq(Channel)] /\ hand.record \in Record /\ side \in Channel
  BY ReceivesTypes DEF HubForwards
<1>2. event \in Record
  BY <1>1, CopyTypes
<1>3. /\ inbox' = [c \in Connection |-> IF c \in Room(to) THEN Append(inbox[c], event) ELSE inbox[c]]
      /\ missed' = IF event.over THEN missed \cup (to \ Room(to)) ELSE missed
  BY DEF HubForwards
<1> HIDE DEF event
<1>4. ASSUME NEW c \in Connection
      PROVE  inbox'[c] \in Seq(Record) /\ Len(inbox'[c]) <= InboxCapacity
  <2>1. inbox[c] \in Seq(Record) /\ Len(inbox[c]) \in Nat /\ Len(inbox[c]) <= InboxCapacity
    BY DEF TypeOK
  <2>2. CASE c \in Room(to)
    <3>1. Len(inbox[c]) < InboxCapacity
      BY <2>2 DEF Room
    <3>2. inbox'[c] = Append(inbox[c], event)
      BY <1>3, <2>2
    <3>3. QED
      BY <1>2, <2>1, <3>1, <3>2, AppendProperties, BoundAssumption
  <2>3. CASE c \notin Room(to)
    BY <1>3, <2>1, <2>3
  <2>4. QED
    BY <2>2, <2>3
<1>5. missed' \subseteq Connection
  BY <1>3 DEF TypeOK
<1>6. inbox' \in [Connection -> Seq(Record)]
  BY <1>3, <1>4
<1>7. QED
  BY <1>1, <1>4, <1>5, <1>6 DEF HubForwards, TypeOK, observed, game, topics, consumer, budget

LEMMA ClientTypes ==
  ASSUME TypeOK, NEW c \in Connection, Connect(c) \/ Disconnect(c) \/ HubSignsOff(c) \/ Write(c)
  PROVE  TypeOK'
<1>1. CASE Connect(c)
  BY <1>1 DEF Connect, TypeOK, observed, game, topics, consumer, budget
<1>2. \A d \in Connection : inbox[d] \in Seq(Record) /\ Len(inbox[d]) \in Nat
                              /\ Len(inbox[d]) <= InboxCapacity
  BY DEF TypeOK
<1>3. <<>> \in Seq(Record) /\ Len(<<>>) <= InboxCapacity
  BY BoundAssumption
<1>4. CASE Disconnect(c)
  <2>1. /\ inbox' \in [Connection -> Seq(Record)]
        /\ \A d \in Connection : Len(inbox'[d]) <= InboxCapacity
    BY <1>2, <1>3, <1>4 DEF Disconnect, TypeOK
  <2>2. QED
    BY <1>4, <2>1 DEF Disconnect, TypeOK, observed, game, topics, consumer, budget
<1>5. CASE HubSignsOff(c)
  <2>1. /\ inbox' \in [Connection -> Seq(Record)]
        /\ \A d \in Connection : Len(inbox'[d]) <= InboxCapacity
    BY <1>2, <1>3, <1>5 DEF HubSignsOff
  <2>2. subs' \subseteq subs /\ open' \subseteq subs' /\ audience' \subseteq audience
    BY <1>5 DEF HubSignsOff
  <2>3. QED
    BY <1>5, <2>1, <2>2 DEF HubSignsOff, TypeOK, observed, game, topics, consumer, budget
<1>6. CASE Write(c)
  <2>1. inbox[c] \in Seq(Record) /\ inbox[c] # <<>>
    BY <1>2, <1>6 DEF Write
  <2>2. Tail(inbox[c]) \in Seq(Record) /\ Len(Tail(inbox[c])) <= InboxCapacity
    BY <1>2, <2>1, HeadTailProperties, BoundAssumption
  <2>3. /\ inbox' \in [Connection -> Seq(Record)]
        /\ \A d \in Connection : Len(inbox'[d]) <= InboxCapacity
    BY <1>2, <1>6, <2>2 DEF Write, TypeOK
  <2>4. heard' \subseteq Connection
    BY <1>6 DEF Write, TypeOK
  <2>5. QED
    BY <1>6, <2>3, <2>4 DEF Write, TypeOK, observed, game, topics, consumer, budget
<1>7. QED
  BY <1>1, <1>4, <1>5, <1>6

LEMMA TypeStep ==
  ASSUME TypeOK, [Next]_vars
  PROVE  TypeOK'
<1>1. CASE UNCHANGED vars
  BY <1>1 DEF vars, TypeOK, observed, game, topics, consumer, clients, budget
<1>2. CASE Turn
  BY <1>2, TurnTypes DEF Turn
<1>3. CASE UpdateCache \/ Heartbeat \/ NewGame
  BY <1>3, GameTypes
<1>4. CASE \E t \in Topic : SkipRecord(t) \/ RouterTakes(t)
  BY <1>4, RouterTypes
<1>5. CASE RouterSends
  BY <1>5, CacheManagerTypes, HubTypes DEF RouterSends
<1>6. CASE \E c \in Connection : Connect(c) \/ Disconnect(c) \/ Write(c) \/ HubSignsOff(c)
  BY <1>6, ClientTypes
<1>7. QED
  BY <1>1, <1>2, <1>3, <1>4, <1>5, <1>6 DEF Next, RouterTakesAny

\* Every topic, channel, subscription and cache holds values of its kind, whatever arrives in
\* whatever order; no connection's channel holds more than its capacity.
THEOREM TypeCorrect == Spec => []TypeOK
BY TypeInit, TypeStep, PTL DEF Spec

-----------------------------------------------------------------------------
(* The secret.  What a topic carries and who reads it, said of everything  *)
(* on its way, is inductive: only the broadcast shows the unit, only it    *)
(* needs to be stripped for the Dark Side.                                 *)

Carried(t) ==
  {r \in Record : /\ r.topic = t
                  /\ t # "broadcast" => r.unit = Nowhere
                  /\ t = "session" => r.region = Nowhere}

Readers(t) ==
  {c \in Channel : /\ c = "dark" => t # "position"
                   /\ c = "light" => t # "detection"}

ShownTo(side) == {r \in Record : IF side = "dark" THEN ForDark(r) ELSE ForLight(r)}

SecretInv ==
  /\ TypeOK
  /\ \A t \in Topic : unread[t] \in Seq(Carried(t))
  /\ hand.record \in Carried(hand.record.topic)
  /\ hand.left \in Seq(Readers(hand.record.topic))
  /\ \A c \in Connection : inbox[c] \in Seq(ShownTo(sideOf[c]))
  /\ ~leading => cache.unit = Nowhere /\ working = <<>>

LEMMA SecretInit == Init => SecretInv
<1> SUFFICES ASSUME Init PROVE SecretInv
  OBVIOUS
<1>1. TypeOK
  BY TypeInit
<1>2. NoRecord \in Carried(NoRecord.topic)
  BY DEF NoRecord, Carried, Record, Topic, Place
<1>3. cache.unit = Nowhere /\ working = <<>>
  BY DEF Init, FreshCache
<1>4. \A S : <<>> \in Seq(S)
  OBVIOUS
<1>5. /\ \A t \in Topic : unread[t] = <<>>
      /\ \A c \in Connection : inbox[c] = <<>>
      /\ hand.record = NoRecord /\ hand.left = <<>>
  BY DEF Init
<1>6. QED
  BY <1>1, <1>2, <1>3, <1>4, <1>5 DEF SecretInv

\* What is written to a topic is of the topic's kind.
LEMMA RecordKinds ==
  ASSUME NEW place \in Place, NEW turn \in Nat, NEW over \in BOOLEAN
  PROVE  /\ Position(place, turn) \in Carried("position")
         /\ Detection(place, turn) \in Carried("detection")
         /\ WorldState(place, turn) \in Carried("broadcast")
         /\ GameOver(turn) \in Carried("broadcast")
         /\ Session(turn, over) \in Carried("session")
<1>1. /\ Position(place, turn).topic = "position" /\ Position(place, turn).unit = Nowhere
      /\ Detection(place, turn).topic = "detection" /\ Detection(place, turn).unit = Nowhere
      /\ WorldState(place, turn).topic = "broadcast" /\ GameOver(turn).topic = "broadcast"
      /\ Session(turn, over).topic = "session" /\ Session(turn, over).unit = Nowhere
      /\ Session(turn, over).region = Nowhere
  BY DEF Position, Detection, WorldState, GameOver, Session
<1>2. QED
  BY <1>1, RecordTypes DEF Carried

LEMMA NewsKinds ==
  ASSUME NEW place \in Region, NEW over \in BOOLEAN, NEW turn \in Nat,
         NEW seen \in Sightings(place)
  PROVE  /\ PositionNews(place, turn) \in Seq(Carried("position"))
         /\ DetectionNews(seen, turn) \in Seq(Carried("detection"))
         /\ BroadcastNews(place, turn, over) \in Carried("broadcast")
         /\ SessionNews(turn, over) \in Carried("session")
<1>1. place \in Place /\ turn + 1 \in Nat
  BY DEF Place
<1>2. PositionNews(place, turn) \in Seq(Carried("position"))
  BY <1>1, RecordKinds DEF PositionNews
<1>3. DetectionNews(seen, turn) \in Seq(Carried("detection"))
  BY RecordKinds, DetectionNewsKind
<1>4. BroadcastNews(place, turn, over) \in Carried("broadcast")
  BY <1>1, RecordKinds DEF BroadcastNews
<1>5. SessionNews(turn, over) \in Carried("session")
  BY <1>1, RecordKinds DEF SessionNews
<1>6. QED
  BY <1>2, <1>3, <1>4, <1>5

\* The streams of a topic are those that may read it.
LEMMA RouteReaders ==
  ASSUME NEW t \in Topic
  PROVE  Route(t) \in Seq(Readers(t))
<1>1. CASE t = "position"
  <2>1. "light" \in Readers(t) /\ "cache" \in Readers(t)
    BY <1>1 DEF Readers, Channel
  <2>2. Route(t) = <<"light", "cache">>
    BY <1>1 DEF Route
  <2>3. QED
    BY <2>1, <2>2
<1>2. CASE t = "detection"
  <2>1. "dark" \in Readers(t) /\ "cache" \in Readers(t)
    BY <1>2 DEF Readers, Channel
  <2>2. Route(t) = <<"dark", "cache">>
    BY <1>2 DEF Route
  <2>3. QED
    BY <2>1, <2>2
<1>3. CASE t \in {"broadcast", "session"}
  <2>1. Readers(t) = Channel
    BY <1>3 DEF Readers, Channel
  <2>2. QED
    BY <2>1, RouteTypes
<1>4. QED
  BY <1>1, <1>2, <1>3 DEF Topic

\* What the hub copies to a side may be shown to it.
LEMMA CopyIsFit ==
  ASSUME NEW side \in {"light", "dark"}, NEW r, r \in Carried(r.topic), side \in Readers(r.topic)
  PROVE  CopyFor(side, r) \in ShownTo(side)
<1>1. r \in Record /\ side \in Channel
  BY DEF Carried, Readers
<1>2. CopyFor(side, r) \in Record
  BY <1>1, CopyTypes
<1>3. CASE side = "light"
  BY <1>1, <1>2, <1>3 DEF CopyFor, Readers, ShownTo, ForLight
<1>4. CASE side = "dark" /\ r.topic = "broadcast"
  <2>1. CopyFor(side, r) = Stripped(r)
    BY <1>4 DEF CopyFor
  <2>2. Stripped(r).unit = Nowhere /\ Stripped(r).region = Nowhere
    BY <1>1 DEF Stripped, Record
  <2>3. QED
    BY <1>2, <1>4, <2>1, <2>2 DEF ShownTo, ForDark
<1>5. CASE side = "dark" /\ r.topic # "broadcast"
  BY <1>1, <1>2, <1>5 DEF CopyFor, Readers, Carried, ShownTo, ForDark, Record, Topic
<1>6. QED
  BY <1>3, <1>4, <1>5

\* What is left when an instance and its clients stand still.
LEMMA SecretFrame ==
  ASSUME SecretInv, TypeOK', \A t \in Topic : unread'[t] \in Seq(Carried(t)),
         UNCHANGED <<leading, sideOf, hand, inbox>>,
         ~leading => cache'.unit = Nowhere /\ working' = <<>>
  PROVE  SecretInv'
BY DEF SecretInv

LEMMA SecretTurn ==
  ASSUME SecretInv, NEW place \in Region, NEW shown \in BOOLEAN, NEW over \in BOOLEAN,
         NEW seen \in Sightings(place),
         AdvanceTurn(place, shown, seen, over)
  PROVE  SecretInv'
<1> DEFINE R == [t \in Topic |-> Carried(t)]
<1>1. TypeOK /\ TypeOK'
  BY TurnTypes DEF SecretInv
<1>2. \A t \in Topic : R[t] = Carried(t)
  OBVIOUS
<1>3. {"position", "detection", "broadcast", "session"} = Topic
  BY DEF Topic
<1> HIDE DEF R
<1>4. EngineTurn \in Nat
  BY <1>1, EngineTurnType
<1>5. /\ PositionNews(place, EngineTurn) \in Seq(R["position"])
      /\ DetectionNews(seen, EngineTurn) \in Seq(R["detection"])
      /\ BroadcastNews(place, EngineTurn, over) \in R["broadcast"]
      /\ SessionNews(EngineTurn, over) \in R["session"]
  BY <1>2, <1>3, <1>4, NewsKinds
<1>6. \A t \in Topic : unread[t] \in Seq(R[t])
  BY <1>2 DEF SecretInv
<1>7. \A t \in Topic : unread'[t] \in Seq(R[t])
  BY <1>1, <1>5, <1>6, TurnKeepsKinds
<1>8. /\ UNCHANGED <<leading, sideOf, hand, inbox, cache>>
      /\ ~leading => working' = <<>>
  BY DEF AdvanceTurn, observed, clients
<1>9. QED
  BY <1>1, <1>2, <1>7, <1>8, SecretFrame DEF SecretInv

LEMMA SecretGame ==
  ASSUME SecretInv, UpdateCache \/ Heartbeat \/ NewGame
  PROVE  SecretInv'
<1>1. TypeOK /\ TypeOK'
  BY GameTypes DEF SecretInv
<1>2. \A S : \A s \in Seq(S), e \in S : Append(s, e) \in Seq(S)
  OBVIOUS
<1>3. EngineTurn \in Nat /\ StartRegion \in Place /\ world.over \in BOOLEAN
  BY <1>1, EngineTurnType, RegionAssumption DEF Place, TypeOK
<1>4. CASE UpdateCache
  BY <1>1, <1>4, SecretFrame DEF UpdateCache, SecretInv, observed, topics, clients
<1>5. CASE Heartbeat
  <2>1. Session(EngineTurn, world.over) \in Carried("session")
    BY <1>3, RecordKinds
  <2>2. Append(unread["session"], Session(EngineTurn, world.over)) \in Seq(Carried("session"))
    BY <1>2, <2>1, Zenon DEF SecretInv, Topic
  <2>3. \A t \in Topic : unread'[t] \in Seq(Carried(t))
    BY <1>5, <2>2 DEF Heartbeat, SecretInv, TypeOK
  <2>4. UNCHANGED <<leading, sideOf, hand, inbox, cache, working>>
    BY <1>5 DEF Heartbeat, observed, game, clients
  <2>5. QED
    BY <1>1, <2>3, <2>4, SecretFrame DEF SecretInv
<1>6. CASE NewGame
  <2> DEFINE b == WorldState(StartRegion, 1)
             s == Session(1, FALSE)
             bs == Append(unread["broadcast"], b)
             ss == Append(unread["session"], s)
  <2>1. b \in Carried("broadcast") /\ s \in Carried("session")
    BY <1>3, RecordKinds
  <2>2. unread' = [unread EXCEPT !["broadcast"] = bs, !["session"] = ss]
    BY <1>1, <1>6 DEF NewGame, TypeOK, Topic
  <2> HIDE DEF b, s
  <2>3. bs \in Seq(Carried("broadcast")) /\ ss \in Seq(Carried("session"))
    BY <1>2, <2>1, Zenon DEF SecretInv, Topic
  <2> HIDE DEF bs, ss
  <2>4. \A t \in Topic : unread'[t] \in Seq(Carried(t))
    BY <1>1, <2>2, <2>3 DEF SecretInv, TypeOK
  <2>5. /\ UNCHANGED <<leading, sideOf, hand, inbox, working>>
        /\ ~leading => UNCHANGED cache
    BY <1>6 DEF NewGame, observed, clients
  <2>6. QED
    BY <1>1, <2>4, <2>5, SecretFrame DEF SecretInv
<1>7. QED
  BY <1>4, <1>5, <1>6

LEMMA SecretRouter ==
  ASSUME SecretInv, NEW t \in Topic, SkipRecord(t) \/ RouterTakes(t)
  PROVE  SecretInv'
<1>1. TypeOK /\ TypeOK'
  BY RouterTypes DEF SecretInv
<1>2. unread[t] \in Seq(Carried(t)) /\ unread[t] # <<>>
  BY DEF SecretInv, SkipRecord, RouterTakes
<1>3. Head(unread[t]) \in Carried(t) /\ Tail(unread[t]) \in Seq(Carried(t))
  BY <1>2, HeadTailProperties
<1>4. \A u \in Topic : unread'[u] \in Seq(Carried(u))
  BY <1>3 DEF SecretInv, TypeOK, SkipRecord, RouterTakes
<1>5. CASE SkipRecord(t)
  <2>1. UNCHANGED <<leading, sideOf, hand, inbox, cache, working>>
    BY <1>5 DEF SkipRecord, observed, game, clients
  <2>2. QED
    BY <1>1, <1>4, <2>1, SecretFrame DEF SecretInv
<1>6. CASE RouterTakes(t)
  <2>1. hand'.record = Head(unread[t]) /\ hand'.left = Route(t)
    BY <1>6 DEF RouterTakes
  <2>2. hand'.record.topic = t
    BY <1>3, <2>1 DEF Carried
  <2>3. hand'.record \in Carried(hand'.record.topic) /\ hand'.left \in Seq(Readers(hand'.record.topic))
    BY <1>3, <2>1, <2>2, RouteReaders
  <2>4. UNCHANGED <<leading, sideOf, inbox, cache, working>>
    BY <1>6 DEF RouterTakes, observed, game, clients
  <2>5. QED
    BY <1>1, <1>4, <2>3, <2>4 DEF SecretInv
<1>7. QED
  BY <1>5, <1>6

LEMMA SecretSends ==
  ASSUME SecretInv, NEW c, Receives(c)
  PROVE  /\ hand'.record = hand.record
         /\ hand'.left \in Seq(Readers(hand.record.topic))
         /\ c \in Readers(hand.record.topic)
<1>1. hand.left \in Seq(Readers(hand.record.topic)) /\ hand.left # <<>>
  BY DEF SecretInv, Receives
<1>2. /\ Head(hand.left) \in Readers(hand.record.topic)
      /\ Tail(hand.left) \in Seq(Readers(hand.record.topic))
  BY <1>1, HeadTailProperties
<1>3. TypeOK
  BY DEF SecretInv
<1>4. hand'.record = hand.record /\ hand'.left = Tail(hand.left)
  BY <1>3, ReceivesTypes
<1>5. QED
  BY <1>2, <1>4 DEF Receives

LEMMA SecretCache ==
  ASSUME SecretInv, CacheManager
  PROVE  SecretInv'
<1>1. TypeOK /\ TypeOK'
  BY CacheManagerTypes DEF SecretInv
<1>2. Receives("cache")
  BY DEF CacheManager
<1>3. hand'.record = hand.record /\ hand'.left \in Seq(Readers(hand.record.topic))
  BY <1>2, SecretSends
<1>4. hand.record \in Record
  BY <1>1 DEF TypeOK
<1>5. cache \in Cache
  BY <1>1 DEF TypeOK
<1>6. ~leading => cache'.unit = Nowhere
  BY <1>4, <1>5, AppliedTypes DEF CacheManager, SecretInv
<1>7. UNCHANGED <<leading, sideOf, unread, inbox, working>>
  BY DEF CacheManager, observed, game, topics, clients
<1>8. QED
  BY <1>1, <1>3, <1>6, <1>7 DEF SecretInv

LEMMA SecretHub ==
  ASSUME SecretInv, NEW side \in {"light", "dark"}, HubForwards(side)
  PROVE  SecretInv'
<1> DEFINE to == {c \in subs : sideOf[c] = side}
           event == CopyFor(side, hand.record)
<1>1. TypeOK /\ TypeOK'
  BY HubTypes DEF SecretInv
<1>2. Receives(side)
  BY DEF HubForwards
<1>3. /\ hand'.record = hand.record /\ hand'.left \in Seq(Readers(hand.record.topic))
      /\ side \in Readers(hand.record.topic)
  BY <1>2, SecretSends
<1>4. event \in ShownTo(side)
  BY <1>3, CopyIsFit DEF SecretInv
<1>5. inbox' = [c \in Connection |-> IF c \in Room(to) THEN Append(inbox[c], event) ELSE inbox[c]]
  BY DEF HubForwards
<1> HIDE DEF event
<1>6. ASSUME NEW c \in Connection
      PROVE  inbox'[c] \in Seq(ShownTo(sideOf[c]))
  <2>1. inbox[c] \in Seq(ShownTo(sideOf[c]))
    BY DEF SecretInv
  <2>2. CASE c \in Room(to)
    <3>1. sideOf[c] = side
      BY <2>2 DEF Room
    <3>2. Append(inbox[c], event) \in Seq(ShownTo(side))
      BY <1>4, <2>1, <3>1, AppendProperties
    <3>3. QED
      BY <1>5, <2>2, <3>1, <3>2
  <2>3. CASE c \notin Room(to)
    BY <1>5, <2>1, <2>3
  <2>4. QED
    BY <2>2, <2>3
<1>7. UNCHANGED <<leading, sideOf, unread, cache, working>>
  BY DEF HubForwards, observed, game, topics
<1>8. QED
  BY <1>1, <1>3, <1>6, <1>7 DEF SecretInv

LEMMA SecretClients ==
  ASSUME SecretInv, NEW c \in Connection, Connect(c) \/ Disconnect(c) \/ HubSignsOff(c) \/ Write(c)
  PROVE  SecretInv'
<1>1. TypeOK /\ TypeOK'
  BY ClientTypes DEF SecretInv
<1>2. ASSUME NEW d \in Connection
      PROVE  inbox'[d] \in Seq(ShownTo(sideOf[d]))
  <2>1. inbox[d] \in Seq(ShownTo(sideOf[d])) /\ <<>> \in Seq(ShownTo(sideOf[d]))
    BY DEF SecretInv
  <2>2. inbox'[d] \in {inbox[d], <<>>} \/ (inbox[d] # <<>> /\ inbox'[d] = Tail(inbox[d]))
    <3>1. CASE Connect(c)
      BY <3>1 DEF Connect
    <3>2. CASE Disconnect(c)
      BY <1>1, <3>2 DEF Disconnect, TypeOK
    <3>3. CASE HubSignsOff(c)
      BY <3>3 DEF HubSignsOff
    <3>4. CASE Write(c)
      BY <1>1, <3>4 DEF Write, TypeOK
    <3>5. QED
      BY <3>1, <3>2, <3>3, <3>4
  <2>3. inbox[d] # <<>> => Tail(inbox[d]) \in Seq(ShownTo(sideOf[d]))
    BY <2>1, HeadTailProperties
  <2>4. QED
    BY <2>1, <2>2, <2>3
<1>3. UNCHANGED <<leading, sideOf, unread, hand, cache, working>>
  BY DEF Connect, Disconnect, HubSignsOff, Write, observed, game, topics
<1>4. QED
  BY <1>1, <1>2, <1>3 DEF SecretInv

LEMMA SecretStep ==
  ASSUME SecretInv, [Next]_vars
  PROVE  SecretInv'
<1>1. CASE UNCHANGED vars
  <2>1. TypeOK'
    BY <1>1, TypeStep DEF SecretInv
  <2>2. QED
    BY <1>1, <2>1 DEF vars, SecretInv, observed, game, topics, clients
<1>2. CASE Turn
  BY <1>2, SecretTurn DEF Turn
<1>3. CASE UpdateCache \/ Heartbeat \/ NewGame
  BY <1>3, SecretGame
<1>4. CASE \E t \in Topic : SkipRecord(t) \/ RouterTakes(t)
  BY <1>4, SecretRouter
<1>5. CASE RouterSends
  BY <1>5, SecretCache, SecretHub DEF RouterSends
<1>6. CASE \E c \in Connection : Connect(c) \/ Disconnect(c) \/ Write(c) \/ HubSignsOff(c)
  BY <1>6, SecretClients
<1>7. QED
  BY <1>1, <1>2, <1>3, <1>4, <1>5, <1>6 DEF Next, RouterTakesAny

\* Whatever the engine publishes, in whatever order the topics are read, however many browsers
\* come and go: no Dark browser's channel and no standby's public table ever shows the region of
\* the Ring Bearer, but for what detection tells the Dark Side, and it alone.
THEOREM SecretIsKept == Spec => []SecretKept
<1>1. SecretInv => SecretKept
  <2> SUFFICES ASSUME SecretInv PROVE SecretKept
    OBVIOUS
  <2>1. ASSUME NEW c \in Connection, NEW k \in DOMAIN inbox[c]
        PROVE  IF sideOf[c] = "dark" THEN ForDark(inbox[c][k]) ELSE ForLight(inbox[c][k])
    <3>1. inbox[c] \in Seq(ShownTo(sideOf[c]))
      BY DEF SecretInv
    <3>2. inbox[c][k] \in ShownTo(sideOf[c])
      BY <3>1
    <3>3. QED
      BY <3>2 DEF ShownTo
  <2>2. ~leading => GameState("dark").unit = Nowhere
    BY DEF SecretInv, GameState
  <2>3. QED
    BY <2>1, <2>2 DEF SecretKept
<1>2. QED
  BY <1>1, SecretInit, SecretStep, PTL DEF Spec

-----------------------------------------------------------------------------
(* News.  Of each topic only the newest record need be current: an older   *)
(* one that overtakes another topic's news is set right by a newer one of  *)
(* its own, which cannot be skipped any more once the older was decoded.   *)

CacheWaits == \E k \in DOMAIN hand.left : hand.left[k] = "cache"

Newest(t) == unread[t][Len(unread[t])]

\* What the record says is so, as far as its topic speaks of it.
Current(r) ==
  /\ r.topic = "position" => r.region = world.region
  /\ r.topic = "detection" => r.region = sighted.region /\ r.turn = sighted.turn
  /\ r.topic = "broadcast" /\ ~world.over =>
       ~r.over /\ r.turn = world.turn /\ r.region = world.region
  /\ r.topic = "session" => r.over = world.over /\ (world.over \/ r.turn = world.turn)

OnTheWay(t) ==
  \/ working # <<>>
  \/ CacheWaits /\ hand.record.topic = t
  \/ unread[t] # <<>>

TopicsInv == \A t \in Topic : unread[t] # <<>> => Current(Newest(t))

HandInv ==
  CacheWaits =>
    /\ hand.record.topic \in loaded
    /\ Current(hand.record) \/ unread[hand.record.topic] # <<>>

EngineInv ==
  working # <<>> =>
    /\ leading
    /\ Head(working).over = world.over
    /\ world.over \/ (Head(working).turn = world.turn /\ Head(working).light = world.region)

KnownInv ==
  /\ cache.over = world.over \/ OnTheWay("session")
  /\ \/ world.over \/ cache.turn = world.turn
     \/ OnTheWay("session")
     \/ OnTheWay("broadcast") /\ "broadcast" \in loaded
  /\ \/ world.over \/ cache.light = world.region
     \/ \E t \in {"position", "broadcast"} : t \in lost \/ OnTheWay(t)
  /\ leading \/ cache.dark = sighted \/ "detection" \in lost \/ OnTheWay("detection")

NewsInv ==
  /\ \A t \in Topic : unread[t] \in Seq({r \in Record : r.topic = t})
  /\ TopicsInv
  /\ HandInv
  /\ EngineInv
  /\ KnownInv

\* What the end of a topic is after a record is appended or taken.
LEMMA NewestAppended ==
  ASSUME NEW S, NEW s \in Seq(S), NEW e
  PROVE  /\ Append(s, e) # <<>>
         /\ Append(s, e)[Len(Append(s, e))] = e
OBVIOUS

LEMMA NewestRemains ==
  ASSUME NEW S, NEW s \in Seq(S), s # <<>>
  PROVE  /\ Tail(s) # <<>> => Tail(s)[Len(Tail(s))] = s[Len(s)]
         /\ Tail(s) = <<>> => Head(s) = s[Len(s)]
<1>1. Len(s) \in Nat \ {0} /\ Len(Tail(s)) = Len(s) - 1
  OBVIOUS
<1>2. ASSUME Tail(s) # <<>>
      PROVE  Tail(s)[Len(Tail(s))] = s[Len(s)]
  <2>1. Len(s) # 1
    <3>1. Tail(s) \in Seq(S)
      OBVIOUS
    <3>2. Len(Tail(s)) # 0
      BY <1>2, <3>1, EmptySeq
    <3>3. QED
      BY <1>1, <3>2
  <2>2. Len(s) - 1 \in 1..(Len(s) - 1)
    BY <1>1, <2>1
  <2>3. QED
    BY <1>1, <2>2
<1>3. ASSUME Tail(s) = <<>>
      PROVE  Head(s) = s[Len(s)]
  <2>1. Len(s) = 1
    <3> DEFINE n == Len(s)
               m == Len(Tail(s))
    <3>1. m = 0 /\ n \in Nat \ {0} /\ m = n - 1
      BY <1>1, <1>3, EmptySeq
    <3> HIDE DEF m, n
    <3>2. n = 1
      BY <3>1
    <3>3. QED
      BY <3>2 DEF n
  <2>2. QED
    BY <2>1
<1>4. QED
  BY <1>2, <1>3

LEMMA NewsInit == Init => NewsInv
<1> SUFFICES ASSUME Init PROVE NewsInv
  OBVIOUS
<1>1. (\A t \in Topic : unread[t] = <<>>) /\ ~CacheWaits /\ working = <<>>
  BY DEF Init, CacheWaits
<1>2. cache.over = world.over /\ cache.turn = world.turn /\ cache.light = world.region
      /\ cache.dark = sighted
  BY DEF Init, FreshCache
<1>3. \A S : <<>> \in Seq(S)
  OBVIOUS
<1>4. QED
  BY <1>1, <1>2, <1>3 DEF NewsInv, TopicsInv, HandInv, EngineInv, KnownInv

\* Nothing changes but, perhaps, which streams the router still has to send to.
LEMMA NewsFrame ==
  ASSUME NewsInv, UNCHANGED <<leading, world, working, unread, sighted, loaded, lost, cache>>,
         hand'.record = hand.record, CacheWaits' <=> CacheWaits
  PROVE  NewsInv'
BY DEF NewsInv, TopicsInv, HandInv, EngineInv, KnownInv, Newest, Current, OnTheWay

\* When a leader has nothing in front of it, its cache has the turn of the game.
LEMMA EngineKnowsTurn ==
  ASSUME TypeOK, NewsInv, Prompt, Ready, ~world.over
  PROVE  EngineTurn = world.turn
<1>1. CASE leading
  <2>1. Quiet /\ working = <<>>
    BY <1>1 DEF Ready
  <2>2. (\A t \in Topic : unread[t] = <<>>) /\ ~CacheWaits
    BY <2>1 DEF Quiet, CacheWaits
  <2>3. ~OnTheWay("session") /\ ~OnTheWay("broadcast")
    BY <2>1, <2>2 DEF OnTheWay, Topic
  <2>4. QED
    BY <1>1, <2>3 DEF NewsInv, KnownInv, EngineTurn
<1>2. CASE ~leading
  BY <1>2 DEF EngineTurn
<1>3. QED
  BY <1>1, <1>2

LEMMA NewsTurn ==
  ASSUME TypeOK, NewsInv, Prompt, NEW place \in Region, NEW shown \in BOOLEAN, NEW over \in BOOLEAN,
         NEW seen \in Sightings(place),
         AdvanceTurn(place, shown, seen, over)
  PROVE  NewsInv'
<1> DEFINE K == [t \in Topic |-> {r \in Record : r.topic = t}]
           next == IF over THEN world.turn ELSE world.turn + 1
<1>1. EngineTurn = world.turn /\ world.turn \in Nat /\ Ready /\ working = <<>>
  BY EngineKnowsTurn DEF AdvanceTurn, Ready, TypeOK
<1>2. /\ unread'["position"] = unread["position"] \o PositionNews(place, world.turn)
      /\ unread'["detection"] = unread["detection"] \o DetectionNews(seen, world.turn)
      /\ unread'["broadcast"] = Append(unread["broadcast"], BroadcastNews(place, world.turn, over))
      /\ unread'["session"] = Append(unread["session"], SessionNews(world.turn, over))
  BY <1>1, TurnPublishes
<1>3. /\ world'.turn = next /\ world'.region = place /\ world'.over = over
      /\ UNCHANGED <<leading, hand, loaded, lost, cache>>
      /\ ~world.over
  BY <1>1 DEF AdvanceTurn, observed, consumer
<1>4. \A t \in Topic : unread'[t] \in Seq({r \in Record : r.topic = t})
  <2>1. {"position", "detection", "broadcast", "session"} = Topic
    BY DEF Topic
  <2>2. /\ PositionNews(place, EngineTurn) \in Seq(Carried("position"))
        /\ DetectionNews(seen, EngineTurn) \in Seq(Carried("detection"))
        /\ BroadcastNews(place, EngineTurn, over) \in Carried("broadcast")
        /\ SessionNews(EngineTurn, over) \in Carried("session")
    BY <1>1, NewsKinds
  <2>3. \A t \in Topic : K[t] = {r \in Record : r.topic = t} /\ Carried(t) \subseteq K[t]
    BY DEF Carried
  <2> HIDE DEF K
  <2>4. \A A, B : A \subseteq B => Seq(A) \subseteq Seq(B)
    OBVIOUS
  <2>5. /\ PositionNews(place, EngineTurn) \in Seq(K["position"])
        /\ DetectionNews(seen, EngineTurn) \in Seq(K["detection"])
        /\ BroadcastNews(place, EngineTurn, over) \in K["broadcast"]
        /\ SessionNews(EngineTurn, over) \in K["session"]
    BY <2>1, <2>2, <2>3, <2>4
  <2>6. \A t \in Topic : unread[t] \in Seq(K[t])
    BY <2>3 DEF NewsInv
  <2>7. \A t \in Topic : unread'[t] \in Seq(K[t])
    BY <2>5, <2>6, TurnKeepsKinds
  <2>8. QED
    BY <2>3, <2>7
<1>5. /\ unread'["broadcast"] # <<>> /\ Newest("broadcast")' = BroadcastNews(place, world.turn, over)
      /\ unread'["session"] # <<>> /\ Newest("session")' = SessionNews(world.turn, over)
  <2>1. unread["broadcast"] \in Seq(Record) /\ unread["session"] \in Seq(Record)
    BY DEF TypeOK, Topic
  <2>2. QED
    BY <1>2, <2>1, NewestAppended DEF Newest
<1>6. \/ place = world.region /\ unread'["position"] = unread["position"]
      \/ /\ place # world.region
         /\ unread'["position"] # <<>> /\ Newest("position")' = Position(place, world.turn)
  <2>1. unread["position"] \in Seq(Record)
    BY DEF TypeOK, Topic
  <2>2. CASE place = world.region
    BY <1>2, <2>1, <2>2, ConcatEmptySeq DEF PositionNews
  <2>3. CASE place # world.region
    <3>1. unread'["position"] = Append(unread["position"], Position(place, world.turn))
      BY <1>2, <2>1, <2>3 DEF PositionNews
    <3>2. QED
      BY <2>1, <2>3, <3>1, NewestAppended DEF Newest
  <2>4. QED
    BY <2>2, <2>3
<1>7. \/ sighted' = sighted /\ unread'["detection"] = unread["detection"]
      \/ /\ unread'["detection"] # <<>>
         /\ Newest("detection")' = Detection(sighted'.region, sighted'.turn)
  <2>1. unread["detection"] \in Seq(Record)
    BY DEF TypeOK, Topic
  <2>2. CASE seen = <<>>
    <3>1. DetectionNews(seen, world.turn) = <<>>
      BY <2>2 DEF DetectionNews
    <3>2. QED
      BY <1>2, <2>1, <2>2, <3>1, ConcatEmptySeq DEF AdvanceTurn
  <2>3. CASE seen # <<>>
    <3> DEFINE news == DetectionNews(seen, world.turn)
               old == unread["detection"]
               n == Len(seen)
               d == Detection(seen[n], world.turn)
    <3>1. n \in 1 .. n /\ n \in Nat /\ DOMAIN seen = 1 .. n
      BY <2>3, SightingsType
    <3>2. news \in Seq(Record) /\ Len(news) = n /\ news[n] = d
      <4>1. news \in Seq(Record)
        BY <1>1, NewsTypes
      <4>2. DOMAIN news = 1 .. n /\ news[n] = d
        BY <3>1 DEF DetectionNews
      <4>3. QED
        BY <3>1, <4>1, <4>2
    <3>3. unread'["detection"] = old \o news
      BY <1>2
    <3> HIDE DEF news, n, d, old
    <3>4. /\ Len(old \o news) = Len(old) + n /\ Len(old) \in Nat
          /\ \A k \in 1 .. Len(old) + n : (old \o news)[k] = IF k <= Len(old) THEN old[k] ELSE news[k - Len(old)]
      <4>1. old \in Seq(Record) /\ news \in Seq(Record)
        BY <2>1, <3>2 DEF old
      <4>2. /\ Len(old \o news) = Len(old) + Len(news)
            /\ \A k \in 1 .. Len(old) + Len(news) :
                 (old \o news)[k] = IF k <= Len(old) THEN old[k] ELSE news[k - Len(old)]
        BY <4>1, ConcatProperties
      <4>3. Len(old) \in Nat
        BY <4>1, LenProperties
      <4>4. QED
        BY <3>2, <4>2, <4>3
    <3>5. (old \o news)[Len(old) + n] = d
      <4>1. \A m \in Nat : m + n \in 1 .. m + n /\ ~(m + n <= m) /\ (m + n) - m = n
        BY <3>1
      <4>2. QED
        BY <3>2, <3>4, <4>1
    <3>6. old \o news # <<>>
      BY <3>1, <3>4
    <3>7. sighted'.region = seen[n] /\ sighted'.turn = world.turn
      BY <1>1, <2>3 DEF AdvanceTurn, n
    <3>8. QED
      BY <3>3, <3>4, <3>5, <3>6, <3>7 DEF Newest, d
  <2>4. QED
    BY <2>2, <2>3
<1> HIDE DEF next, K
<1>8. TopicsInv'
  <2>1. Current(Newest("broadcast"))'
    BY <1>3, <1>5 DEF Current, BroadcastNews, GameOver, WorldState, next
  <2>2. Current(Newest("session"))'
    BY <1>3, <1>5 DEF Current, SessionNews, Session, next
  <2>3. ASSUME unread'["position"] # <<>>
        PROVE  Current(Newest("position"))'
    <3>1. CASE place # world.region
      BY <1>3, <1>6, <3>1 DEF Current, Position
    <3>2. CASE place = world.region
      <4>1. unread["position"] \in Seq({r \in Record : r.topic = "position"}) /\ unread["position"] # <<>>
        BY <1>6, <2>3, <3>2 DEF NewsInv, Topic
      <4>2. Newest("position").topic = "position"
        BY <4>1 DEF Newest
      <4>3. Newest("position")' = Newest("position") /\ Newest("position").region = world.region
        BY <1>6, <2>3, <3>2, <4>2 DEF Newest, NewsInv, TopicsInv, Current, Topic
      <4>4. QED
        BY <1>3, <3>2, <4>2, <4>3 DEF Current
    <3>3. QED
      BY <3>1, <3>2
  <2>4. ASSUME unread'["detection"] # <<>>
        PROVE  Current(Newest("detection"))'
    <3>1. CASE sighted' = sighted /\ unread'["detection"] = unread["detection"]
      <4>1. unread["detection"] \in Seq({r \in Record : r.topic = "detection"}) /\ unread["detection"] # <<>>
        BY <2>4, <3>1 DEF NewsInv, Topic
      <4>2. Newest("detection").topic = "detection"
        BY <4>1 DEF Newest
      <4>3. Newest("detection")' = Newest("detection") /\ Current(Newest("detection"))
        BY <3>1, <4>1 DEF Newest, NewsInv, TopicsInv, Topic
      <4>4. QED
        BY <3>1, <4>2, <4>3 DEF Current
    <3>2. CASE Newest("detection")' = Detection(sighted'.region, sighted'.turn)
      BY <3>2 DEF Current, Detection
    <3>3. QED
      BY <1>7, <3>1, <3>2
  <2>5. QED
    BY <2>1, <2>2, <2>3, <2>4 DEF TopicsInv, Topic
<1>9. HandInv'
  <2>1. SUFFICES ASSUME CacheWaits'
                 PROVE  /\ hand'.record.topic \in loaded'
                        /\ Current(hand.record)' \/ unread'[hand'.record.topic] # <<>>
    BY DEF HandInv
  <2>2. CacheWaits /\ hand.record.topic \in loaded
        /\ (Current(hand.record) \/ unread[hand.record.topic] # <<>>)
    BY <1>3, <2>1 DEF CacheWaits, NewsInv, HandInv
  <2>3. hand.record.topic \in Topic
    BY DEF TypeOK, Record
  <2>4. CASE hand.record.topic \in {"broadcast", "session"}
    BY <1>3, <1>5, <2>2, <2>4
  <2>5. CASE hand.record.topic = "position"
    BY <1>3, <1>6, <2>2, <2>5 DEF Current
  <2>6. CASE hand.record.topic = "detection"
    BY <1>3, <1>7, <2>2, <2>6 DEF Current
  <2>7. QED
    BY <2>3, <2>4, <2>5, <2>6 DEF Topic
<1>10. EngineInv'
  <2>1. working' # <<>> => leading /\ working' = <<[turn |-> world.turn + 1,
               unit |-> IF shown THEN place ELSE cache.unit, light |-> place,
               dark |-> cache.dark, over |-> over]>>
    BY <1>1 DEF AdvanceTurn
  <2>2. QED
    BY <1>3, <2>1 DEF EngineInv, next
<1>11. KnownInv'
  <2>1. OnTheWay("session")' /\ OnTheWay("broadcast")'
    BY <1>5 DEF OnTheWay
  <2>2. leading \/ cache.dark = sighted' \/ "detection" \in lost \/ OnTheWay("detection")'
    <3>1. CASE sighted' = sighted /\ unread'["detection"] = unread["detection"]
      BY <1>1, <1>3, <3>1 DEF NewsInv, KnownInv, OnTheWay, CacheWaits
    <3>2. CASE unread'["detection"] # <<>>
      BY <3>2 DEF OnTheWay
    <3>3. QED
      BY <1>7, <3>1, <3>2
  <2>3. QED
    BY <1>3, <2>1, <2>2 DEF KnownInv
<1>12. QED
  BY <1>4, <1>8, <1>9, <1>10, <1>11 DEF NewsInv

LEMMA NewsUpdate ==
  ASSUME NewsInv, UpdateCache
  PROVE  NewsInv'
<1>1. /\ leading /\ cache'.over = world.over
      /\ world.over \/ (cache'.turn = world.turn /\ cache'.light = world.region)
      /\ working' = <<>>
  BY DEF UpdateCache, NewsInv, EngineInv
<1>2. UNCHANGED <<leading, world, unread, sighted, loaded, lost, hand>>
  BY DEF UpdateCache, observed, topics, consumer
<1>3. TopicsInv' /\ HandInv'
  BY <1>2 DEF NewsInv, TopicsInv, HandInv, CacheWaits, Newest, Current
<1>4. EngineInv' /\ KnownInv'
  BY <1>1, <1>2 DEF EngineInv, KnownInv
<1>5. QED
  BY <1>2, <1>3, <1>4 DEF NewsInv

LEMMA NewsHeartbeat ==
  ASSUME TypeOK, NewsInv, Prompt, Heartbeat
  PROVE  NewsInv'
<1> DEFINE r == Session(EngineTurn, world.over)
<1>1. r \in Record /\ r.topic = "session" /\ r.over = world.over /\ r.turn = EngineTurn
  BY RecordTypes, EngineTurnType DEF Session, TypeOK, Place
<1>2. world.over \/ r.turn = world.turn
  BY <1>1, EngineKnowsTurn DEF Heartbeat
<1>3. /\ unread' = [unread EXCEPT !["session"] = Append(unread["session"], r)]
      /\ UNCHANGED <<leading, world, working, sighted, loaded, lost, hand, cache>>
  BY DEF Heartbeat, observed, game, consumer, TypeOK, Topic
<1> HIDE DEF r
<1>4. /\ unread'["session"] = Append(unread["session"], r)
      /\ \A t \in Topic \ {"session"} : unread'[t] = unread[t]
      /\ "session" \in Topic
  BY <1>3 DEF TypeOK, Topic
<1>5. unread["session"] \in Seq({x \in Record : x.topic = "session"})
  BY <1>4 DEF NewsInv
<1>6. /\ unread'["session"] \in Seq({x \in Record : x.topic = "session"})
      /\ unread'["session"] # <<>>
      /\ Newest("session")' = r
  BY <1>1, <1>4, <1>5, NewestAppended, AppendProperties DEF Newest
<1>7. TopicsInv'
  <2>1. Current(Newest("session"))'
    BY <1>1, <1>2, <1>3, <1>6 DEF Current
  <2>2. ASSUME NEW t \in Topic \ {"session"}, unread'[t] # <<>>
        PROVE  Current(Newest(t))'
    BY <1>3, <1>4, <2>2 DEF Current, NewsInv, TopicsInv, Newest
  <2>3. QED
    BY <2>1, <2>2 DEF TopicsInv
<1>8. \A t \in Topic : unread[t] # <<>> => unread'[t] # <<>>
  BY <1>4, <1>6
<1>9. HandInv'
  <2>1. hand.record.topic \in Topic
    BY DEF TypeOK, Record
  <2>2. QED
    BY <1>3, <1>8, <2>1 DEF NewsInv, HandInv, CacheWaits, Current
<1>10. KnownInv'
  <2>1. \A t \in Topic : OnTheWay(t) => OnTheWay(t)'
    BY <1>3, <1>8 DEF OnTheWay, CacheWaits
  <2>2. QED
    BY <1>3, <2>1 DEF NewsInv, KnownInv, Topic
<1>11. QED
  BY <1>3, <1>4, <1>6, <1>7, <1>9, <1>10 DEF NewsInv, EngineInv

LEMMA NewsNewGame ==
  ASSUME TypeOK, NewsInv, Prompt, NewGame
  PROVE  NewsInv'
<1> DEFINE b == WorldState(StartRegion, 1)
           s == Session(1, FALSE)
           one == 1
<1>1. one \in Nat /\ StartRegion \in Place
  BY RegionAssumption DEF Place
<1>2. /\ b \in Record /\ b.topic = "broadcast" /\ b.over = FALSE /\ b.turn = one /\ b.region = StartRegion
      /\ s \in Record /\ s.topic = "session" /\ s.over = FALSE /\ s.turn = one
  BY <1>1, RecordTypes DEF WorldState, Session
<1>3. /\ world'.turn = one /\ world'.region = StartRegion /\ world'.over = FALSE
      /\ UNCHANGED <<leading, working, sighted, loaded, lost, hand>>
      /\ cache' = cache \/ leading
      /\ unread' = [unread EXCEPT !["broadcast"] = Append(unread["broadcast"], b),
                                  !["session"] = Append(unread["session"], s)]
  BY DEF NewGame, observed, consumer, TypeOK, Topic
<1>4. /\ \A t \in Topic : unread[t] = <<>>
      /\ ~CacheWaits /\ working = <<>>
  BY DEF NewGame, Ready, Quiet, CacheWaits
<1> HIDE DEF b, s, one
<1>5. /\ unread'["broadcast"] = <<b>> /\ unread'["session"] = <<s>>
      /\ unread'["position"] = <<>> /\ unread'["detection"] = <<>>
  <2>1. Append(<<>>, b) = <<b>> /\ Append(<<>>, s) = <<s>>
    OBVIOUS
  <2>2. unread' = [unread EXCEPT !["broadcast"] = <<b>>, !["session"] = <<s>>]
    BY <1>3, <1>4, <2>1 DEF Topic
  <2>3. QED
    BY <1>4, <2>2 DEF TypeOK, Topic
<1>6. \A t \in Topic : unread'[t] \in Seq({x \in Record : x.topic = t})
  <2>1. \A S : <<>> \in Seq(S) /\ \A e \in S : <<e>> \in Seq(S)
    OBVIOUS
  <2>2. b \in {x \in Record : x.topic = "broadcast"} /\ s \in {x \in Record : x.topic = "session"}
    BY <1>2
  <2>3. QED
    BY <1>5, <2>1, <2>2 DEF Topic
<1>7. TopicsInv'
  <2>1. Newest("broadcast")' = b /\ Newest("session")' = s
    BY <1>5 DEF Newest
  <2>2. Current(Newest("broadcast"))' /\ Current(Newest("session"))'
    BY <1>2, <1>3, <2>1 DEF Current
  <2>3. QED
    BY <1>5, <2>2 DEF TopicsInv, Topic
<1>8. HandInv' /\ EngineInv'
  BY <1>3, <1>4 DEF HandInv, EngineInv, CacheWaits
<1>9. KnownInv'
  <2>1. OnTheWay("session")' /\ OnTheWay("broadcast")'
    BY <1>5 DEF OnTheWay
  <2>2. leading \/ cache.dark = sighted \/ "detection" \in lost
    BY <1>4 DEF NewsInv, KnownInv, OnTheWay, Topic
  <2>3. QED
    BY <1>3, <2>1, <2>2 DEF KnownInv
<1>10. QED
  BY <1>6, <1>7, <1>8, <1>9 DEF NewsInv

\* What the consumer takes off a topic, decoded or not, leaves its end.
LEMMA NewsTaken ==
  ASSUME TypeOK, NewsInv, NEW t \in Topic, SkipRecord(t) \/ RouterTakes(t)
  PROVE  /\ UNCHANGED <<leading, world, working, sighted, cache>>
         /\ unread'[t] = Tail(unread[t]) /\ \A u \in Topic \ {t} : unread'[u] = unread[u]
         /\ \A u \in Topic : unread'[u] \in Seq({r \in Record : r.topic = u})
         /\ TopicsInv' /\ EngineInv'
         /\ Head(unread[t]).topic = t
         /\ Current(Head(unread[t])) \/ Tail(unread[t]) # <<>>
<1>1. /\ UNCHANGED <<leading, world, working, sighted, cache>>
      /\ unread[t] # <<>>
      /\ unread' = [unread EXCEPT ![t] = Tail(unread[t])]
  BY DEF SkipRecord, RouterTakes, observed, game, TypeOK
<1>2. unread'[t] = Tail(unread[t]) /\ \A u \in Topic \ {t} : unread'[u] = unread[u]
  BY <1>1 DEF TypeOK
<1>3. unread[t] \in Seq({r \in Record : r.topic = t})
  BY DEF NewsInv
<1>4. /\ Tail(unread[t]) \in Seq({r \in Record : r.topic = t})
      /\ Head(unread[t]) \in {r \in Record : r.topic = t}
  BY <1>1, <1>3, HeadTailProperties
<1>5. /\ Tail(unread[t]) # <<>> => Newest(t)' = Newest(t)
      /\ Tail(unread[t]) = <<>> => Head(unread[t]) = Newest(t)
  BY <1>1, <1>2, <1>3, NewestRemains DEF Newest
<1>6. Current(Newest(t))
  BY <1>1 DEF NewsInv, TopicsInv
<1>7. TopicsInv'
  <2>1. ASSUME unread'[t] # <<>>
        PROVE  Current(Newest(t))'
    BY <1>1, <1>2, <1>5, <1>6, <2>1 DEF Current
  <2>2. ASSUME NEW u \in Topic \ {t}, unread'[u] # <<>>
        PROVE  Current(Newest(u))'
    BY <1>1, <1>2, <2>2 DEF Current, NewsInv, TopicsInv, Newest
  <2>3. QED
    BY <2>1, <2>2 DEF TopicsInv
<1>8. EngineInv'
  BY <1>1 DEF NewsInv, EngineInv
<1>9. QED
  BY <1>1, <1>2, <1>3, <1>4, <1>5, <1>6, <1>7, <1>8 DEF NewsInv

LEMMA NewsSkip ==
  ASSUME TypeOK, NewsInv, NEW t \in Topic, SkipRecord(t)
  PROVE  NewsInv'
<1>1. /\ UNCHANGED <<leading, world, working, sighted, cache>>
      /\ \A u \in Topic \ {t} : unread'[u] = unread[u]
      /\ \A u \in Topic : unread'[u] \in Seq({r \in Record : r.topic = u})
      /\ TopicsInv' /\ EngineInv'
  BY NewsTaken
<1>2. UNCHANGED <<loaded, hand>> /\ t # "session" /\ t \notin loaded /\ lost' = lost \cup {t}
  BY DEF SkipRecord
<1>3. HandInv'
  <2>1. hand.record.topic \in Topic
    BY DEF TypeOK, Record
  <2>2. QED
    BY <1>1, <1>2, <2>1 DEF NewsInv, HandInv, CacheWaits, Current
<1>4. KnownInv'
  <2>1. \A u \in Topic \ {t} : OnTheWay(u)' <=> OnTheWay(u)
    BY <1>1, <1>2 DEF OnTheWay, CacheWaits
  <2>2. t = "broadcast" => ~(OnTheWay("broadcast") /\ "broadcast" \in loaded)
    BY <1>2
  <2>3. QED
    BY <1>1, <1>2, <2>1, <2>2 DEF NewsInv, KnownInv, Topic
<1>5. QED
  BY <1>1, <1>3, <1>4 DEF NewsInv

LEMMA NewsTake ==
  ASSUME TypeOK, NewsInv, NEW t \in Topic, RouterTakes(t)
  PROVE  NewsInv'
<1>1. /\ UNCHANGED <<leading, world, working, sighted, cache>>
      /\ unread'[t] = Tail(unread[t]) /\ \A u \in Topic \ {t} : unread'[u] = unread[u]
      /\ \A u \in Topic : unread'[u] \in Seq({r \in Record : r.topic = u})
      /\ TopicsInv' /\ EngineInv'
      /\ Head(unread[t]).topic = t
      /\ Current(Head(unread[t])) \/ Tail(unread[t]) # <<>>
  BY NewsTaken
<1>2. /\ hand.left = <<>> /\ hand'.record = Head(unread[t]) /\ hand'.left = Route(t)
      /\ loaded' = loaded \cup {t} /\ lost' = lost \ {t}
  BY DEF RouterTakes
<1>3. ~CacheWaits
  BY <1>2 DEF CacheWaits
<1>4. CacheWaits'
  <2>1. \E k \in DOMAIN Route(t) : Route(t)[k] = "cache"
    <3>1. CASE t \in {"position", "detection"}
      <4>1. Route(t)[2] = "cache" /\ 2 \in DOMAIN Route(t)
        BY <3>1 DEF Route
      <4>2. QED
        BY <4>1
    <3>2. CASE t = "broadcast"
      <4>1. Route(t)[3] = "cache" /\ 3 \in DOMAIN Route(t)
        BY <3>2 DEF Route
      <4>2. QED
        BY <4>1
    <3>3. CASE t = "session"
      <4>1. Route(t)[1] = "cache" /\ 1 \in DOMAIN Route(t)
        BY <3>3 DEF Route
      <4>2. QED
        BY <4>1
    <3>4. QED
      BY <3>1, <3>2, <3>3 DEF Topic
  <2>2. QED
    BY <1>2, <2>1 DEF CacheWaits
<1>5. HandInv'
  BY <1>1, <1>2 DEF HandInv, Current
<1>6. KnownInv'
  <2>1. OnTheWay(t)' /\ \A u \in Topic \ {t} : OnTheWay(u) => OnTheWay(u)'
    BY <1>1, <1>2, <1>3, <1>4 DEF OnTheWay
  <2>2. QED
    BY <1>1, <1>2, <2>1 DEF NewsInv, KnownInv, Topic
<1>7. QED
  BY <1>1, <1>5, <1>6 DEF NewsInv

LEMMA NewsCache ==
  ASSUME TypeOK, NewsInv, CacheManager
  PROVE  NewsInv'
<1> DEFINE r == hand.record
<1>1. /\ Receives("cache") /\ cache' = Applied(cache, r)
      /\ UNCHANGED <<leading, world, working, unread, sighted, loaded, lost>>
  BY DEF CacheManager, observed, game, topics, consumer
<1>2. hand'.record = r /\ r \in Record /\ hand'.left = Tail(hand.left) /\ hand.left \in Seq(Channel)
  BY <1>1, ReceivesTypes DEF TypeOK
<1>3. CacheWaits
  <2>1. hand.left[1] = "cache" /\ 1 \in DOMAIN hand.left
    BY <1>1, <1>2 DEF Receives
  <2>2. QED
    BY <2>1 DEF CacheWaits
<1>4. /\ r.topic \in loaded
      /\ Current(r) \/ unread[r.topic] # <<>>
  BY <1>3 DEF NewsInv, HandInv
<1>5. TopicsInv' /\ HandInv' /\ EngineInv'
  BY <1>1, <1>2, <1>4 DEF NewsInv, TopicsInv, HandInv, EngineInv, Newest, Current
<1>6. r.topic \in Topic /\ r.region \in Place /\ cache \in Cache
      /\ world.region \in Region /\ Nowhere \notin Region
  BY <1>2, RegionAssumption DEF Record, TypeOK
<1> HIDE DEF r
<1>7. \A t \in Topic : t # r.topic /\ OnTheWay(t) => OnTheWay(t)'
  BY <1>1, <1>2 DEF OnTheWay, r
<1>8. \A t \in Topic : t = r.topic => Current(r) \/ OnTheWay(t)'
  BY <1>1, <1>4 DEF OnTheWay
<1>9. CASE r.topic = "position"
  <2>1. cache' = [cache EXCEPT !.light = r.region]
    BY <1>1, <1>9 DEF Applied, r
  <2>2. cache'.light = r.region /\ cache'.over = cache.over /\ cache'.turn = cache.turn
        /\ cache'.dark = cache.dark
    BY <1>6, <2>1 DEF Cache
  <2>3. Current(r) => cache'.light = world.region
    BY <1>9, <2>2 DEF Current
  <2>4. KnownInv'
    BY <1>1, <1>4, <1>7, <1>8, <1>9, <2>2, <2>3 DEF NewsInv, KnownInv, Topic
  <2>5. QED
    BY <1>1, <1>5, <2>4 DEF NewsInv
<1>10. CASE r.topic = "detection"
  <2>1. cache' = [cache EXCEPT !.dark = [region |-> r.region, turn |-> r.turn]]
    BY <1>1, <1>10 DEF Applied, r
  <2>2. cache'.light = cache.light /\ cache'.over = cache.over /\ cache'.turn = cache.turn
        /\ cache'.dark = [region |-> r.region, turn |-> r.turn]
    BY <1>6, <2>1 DEF Cache
  <2>3. Current(r) => cache'.dark = sighted
    BY <1>10, <2>2 DEF Current, TypeOK, Sighting
  <2>4. KnownInv'
    BY <1>1, <1>4, <1>7, <1>8, <1>10, <2>2, <2>3 DEF NewsInv, KnownInv, Topic
  <2>5. QED
    BY <1>1, <1>5, <2>4 DEF NewsInv
<1>11. CASE r.topic = "broadcast"
  <2>1. cache' = AppliedWorld(cache, r)
    BY <1>1, <1>11 DEF Applied, r
  <2> DEFINE light == IF r.region # Nowhere THEN r.region ELSE cache.light
  <2>2. cache'.over = cache.over /\ cache'.dark = cache.dark
        /\ (~r.over => cache'.turn = r.turn /\ cache'.light = light)
    <3>1. CASE r.over
      BY <2>1, <3>1 DEF AppliedWorld
    <3>2. CASE ~r.over
      <4>1. cache' = [cache EXCEPT !.turn = r.turn, !.unit = Nowhere, !.light = light]
        BY <2>1, <3>2 DEF AppliedWorld
      <4> HIDE DEF light
      <4>2. QED
        BY <1>6, <4>1 DEF Cache
    <3>3. QED
      BY <3>1, <3>2
  <2>3. Current(r) /\ ~world.over => cache'.turn = world.turn /\ cache'.light = world.region
    BY <1>6, <1>11, <2>2 DEF Current
  <2>4. KnownInv'
    BY <1>1, <1>4, <1>7, <1>8, <1>11, <2>2, <2>3 DEF NewsInv, KnownInv, Topic
  <2>5. QED
    BY <1>1, <1>5, <2>4 DEF NewsInv
<1>12. CASE r.topic = "session"
  <2>1. cache' = [cache EXCEPT !.turn = r.turn, !.over = r.over]
    BY <1>1, <1>12 DEF Applied, AppliedSession, r
  <2>2. cache'.light = cache.light /\ cache'.over = r.over /\ cache'.turn = r.turn
        /\ cache'.dark = cache.dark
    BY <1>6, <2>1 DEF Cache
  <2>3. Current(r) => cache'.over = world.over /\ (world.over \/ cache'.turn = world.turn)
    BY <1>12, <2>2 DEF Current
  <2>4. KnownInv'
    BY <1>1, <1>4, <1>7, <1>8, <1>12, <2>2, <2>3 DEF NewsInv, KnownInv, Topic
  <2>5. QED
    BY <1>1, <1>5, <2>4 DEF NewsInv
<1>13. QED
  BY <1>6, <1>9, <1>10, <1>11, <1>12 DEF Topic

LEMMA NewsHub ==
  ASSUME TypeOK, NewsInv, NEW side \in {"light", "dark"}, HubForwards(side)
  PROVE  NewsInv'
<1>1. /\ Receives(side)
      /\ UNCHANGED <<leading, world, working, unread, sighted, loaded, lost, cache>>
  BY DEF HubForwards, observed, game, topics, consumer
<1>2. hand'.record = hand.record /\ hand'.left = Tail(hand.left)
  BY <1>1, ReceivesTypes
<1>3. /\ hand.left \in Seq(Channel) /\ hand.left # <<>> /\ Head(hand.left) = side
  BY <1>1 DEF TypeOK, Receives
<1>4. CacheWaits' <=> CacheWaits
  <2>1. /\ Len(hand.left) \in Nat \ {0} /\ DOMAIN hand.left = 1..Len(hand.left)
        /\ DOMAIN Tail(hand.left) = 1..(Len(hand.left) - 1)
        /\ \A k \in 1..(Len(hand.left) - 1) : Tail(hand.left)[k] = hand.left[k + 1]
        /\ hand.left[1] # "cache"
    BY <1>3
  <2>2. ASSUME NEW k \in 1..Len(hand.left), hand.left[k] = "cache"
        PROVE  \E j \in 1..(Len(hand.left) - 1) : Tail(hand.left)[j] = "cache"
    <3>1. k - 1 \in 1..(Len(hand.left) - 1) /\ (k - 1) + 1 = k
      BY <2>1, <2>2
    <3>2. QED
      BY <2>1, <2>2, <3>1
  <2>3. ASSUME NEW k \in 1..(Len(hand.left) - 1), Tail(hand.left)[k] = "cache"
        PROVE  \E j \in 1..Len(hand.left) : hand.left[j] = "cache"
    <3>1. k + 1 \in 1..Len(hand.left)
      BY <2>1
    <3>2. QED
      BY <2>1, <2>3, <3>1
  <2>4. QED
    BY <1>2, <2>1, <2>2, <2>3 DEF CacheWaits
<1>5. QED
  BY <1>1, <1>2, <1>4, NewsFrame

LEMMA NewsStep ==
  ASSUME TypeOK, NewsInv, Prompt, [Next]_vars
  PROVE  NewsInv'
<1>1. CASE UNCHANGED vars
  BY <1>1, NewsFrame DEF vars, observed, game, topics, consumer, CacheWaits
<1>2. CASE Turn
  BY <1>2, NewsTurn DEF Turn
<1>3. CASE UpdateCache \/ Heartbeat \/ NewGame
  BY <1>3, NewsUpdate, NewsHeartbeat, NewsNewGame
<1>4. CASE \E t \in Topic : SkipRecord(t) \/ RouterTakes(t)
  BY <1>4, NewsSkip, NewsTake
<1>5. CASE RouterSends
  BY <1>5, NewsCache, NewsHub DEF RouterSends
<1>6. ASSUME NEW c \in Connection, Connect(c) \/ Disconnect(c) \/ Write(c) \/ HubSignsOff(c)
      PROVE  NewsInv'
  <2>1. UNCHANGED <<leading, world, working, unread, sighted, loaded, lost, cache, hand>>
    BY <1>6 DEF Connect, Disconnect, Write, HubSignsOff, observed, game, topics, consumer
  <2>2. QED
    BY <2>1, NewsFrame DEF CacheWaits
<1>7. QED
  BY <1>1, <1>2, <1>3, <1>4, <1>5, <1>6 DEF Next, RouterTakesAny

\* If the leader acts on a drained queue, then for any lag of the standbys, any order in which
\* the four topics are read and any records skipped: a cache whose topics are drained knows
\* the game, but for what CaughtUp excepts.
THEOREM CachesCatchUp ==
  ASSUME Prompt
  PROVE  Spec => []CaughtUp
<1>1. TypeOK /\ NewsInv => CaughtUp
  <2> SUFFICES ASSUME NewsInv, Quiet, working = <<>>
               PROVE  /\ cache.over = world.over
                      /\ ~world.over => cache.turn = world.turn
                      /\ ~world.over /\ lost \cap {"position", "broadcast"} = {} =>
                           cache.light = world.region
                      /\ ~leading /\ "detection" \notin lost => cache.dark = sighted
    BY DEF CaughtUp
  <2>1. \A t \in Topic : ~OnTheWay(t)
    BY DEF OnTheWay, Quiet, CacheWaits
  <2>2. QED
    BY <2>1 DEF NewsInv, KnownInv, Topic
<1>2. TypeOK /\ NewsInv /\ [Next]_vars => (TypeOK /\ NewsInv)'
  BY TypeStep, NewsStep
<1>3. QED
  BY <1>1, <1>2, TypeInit, NewsInit, PTL DEF Spec

-----------------------------------------------------------------------------
(* The end.  The session record carries it to both sides: it is never      *)
(* skipped, and until the hub has it for a side it is in the topic or in   *)
(* the router's hand.                                                      *)

\* The hub still gets the end for c's side, or c has been dealt with.
EndComing(c) ==
  \/ unread["session"] # <<>>
  \/ /\ hand.record.topic = "session" /\ hand.record.over
     /\ \E k \in DOMAIN hand.left : hand.left[k] = sideOf[c]

EndCame(c) ==
  c \in heard \/ c \in missed \/ \E k \in DOMAIN inbox[c] : inbox[c][k].over

EndInv ==
  /\ audience \subseteq subs
  /\ \A k \in DOMAIN unread["session"] : unread["session"][k].topic = "session"
  /\ unread["session"] # <<>> => Newest("session").over = world.over
  /\ world.over => \A c \in audience \cap open : EndCame(c) \/ EndComing(c)

LEMMA EndInit == Init => EndInv
BY DEF Init, EndInv, Topic

\* What is left when neither the session topic nor the hub is concerned.
LEMMA EndFrame ==
  ASSUME EndInv, unread'["session"] = unread["session"],
         UNCHANGED <<sideOf, hand, clients>>, world'.over = world.over
  PROVE  EndInv'
BY DEF EndInv, EndCame, EndComing, Newest, clients

\* What is left when the engine writes to the session topic.
LEMMA EndAppends ==
  ASSUME TypeOK, EndInv, NEW r, r.topic = "session", r.over = world'.over,
         unread'["session"] = Append(unread["session"], r),
         UNCHANGED sideOf, audience' \subseteq subs'
  PROVE  EndInv'
<1>1. unread["session"] \in Seq(Record)
  BY DEF TypeOK, Topic
<1>2. unread'["session"] # <<>> /\ Newest("session")' = r
  BY <1>1, NewestAppended DEF Newest
<1>3. \A k \in DOMAIN unread'["session"] : unread'["session"][k].topic = "session"
  <2>1. /\ DOMAIN unread'["session"] = 1..(Len(unread["session"]) + 1)
        /\ DOMAIN unread["session"] = 1..Len(unread["session"])
        /\ Len(unread["session"]) \in Nat
        /\ \A k \in 1..Len(unread["session"]) : unread'["session"][k] = unread["session"][k]
        /\ unread'["session"][Len(unread["session"]) + 1] = r
    BY <1>1
  <2>2. QED
    BY <2>1 DEF EndInv
<1>4. \A c : EndComing(c)'
  BY <1>2 DEF EndComing
<1>5. QED
  BY <1>2, <1>3, <1>4 DEF EndInv

LEMMA EndTurn ==
  ASSUME TypeOK, EndInv, NEW place \in Region, NEW shown \in BOOLEAN, NEW over \in BOOLEAN,
         NEW seen \in Sightings(place),
         AdvanceTurn(place, shown, seen, over)
  PROVE  EndInv'
<1> DEFINE r == SessionNews(EngineTurn, over)
<1>1. unread'["session"] = Append(unread["session"], r)
  BY TurnPublishes
<1>2. r.topic = "session" /\ r.over = over
  BY DEF SessionNews, Session
<1>3. world'.over = over /\ UNCHANGED sideOf
  BY DEF AdvanceTurn, observed
<1>4. audience' \subseteq subs'
  BY DEF AdvanceTurn, EndInv, clients
<1> HIDE DEF r
<1>5. QED
  BY <1>1, <1>2, <1>3, <1>4, EndAppends

LEMMA EndGame ==
  ASSUME TypeOK, EndInv, UpdateCache \/ Heartbeat \/ NewGame
  PROVE  EndInv'
<1>1. UNCHANGED <<sideOf, hand, clients>> /\ audience \subseteq subs
  BY DEF UpdateCache, Heartbeat, NewGame, observed, EndInv
<1>2. CASE UpdateCache
  BY <1>1, <1>2, EndFrame DEF UpdateCache, topics
<1>3. CASE Heartbeat
  <2> DEFINE r == Session(EngineTurn, world.over)
  <2>1. r.topic = "session" /\ r.over = world.over
    BY DEF Session
  <2>2. unread' = [unread EXCEPT !["session"] = Append(@, r)] /\ world' = world
    BY <1>3 DEF Heartbeat, game
  <2> HIDE DEF r
  <2>3. unread'["session"] = Append(unread["session"], r)
    BY <2>2 DEF TypeOK, Topic
  <2>4. QED
    BY <1>1, <2>1, <2>2, <2>3, EndAppends DEF clients
<1>4. CASE NewGame
  <2> DEFINE b == WorldState(StartRegion, 1)
             r == Session(1, FALSE)
  <2>1. r.topic = "session" /\ r.over = FALSE
    BY DEF Session
  <2>2. /\ unread' = [unread EXCEPT !["broadcast"] = Append(@, b), !["session"] = Append(@, r)]
        /\ world'.over = FALSE
    BY <1>4 DEF NewGame
  <2> HIDE DEF b, r
  <2>3. unread'["session"] = Append(unread["session"], r)
    BY <2>2 DEF TypeOK, Topic
  <2>4. QED
    BY <1>1, <2>1, <2>2, <2>3, EndAppends DEF clients
<1>5. QED
  BY <1>2, <1>3, <1>4

\* Session records have both sides before them when the router takes them.
LEMMA SessionRoute ==
  ASSUME NEW side \in {"light", "dark"}
  PROVE  \E k \in DOMAIN Route("session") : Route("session")[k] = side
<1>1. Route("session") = <<"cache", "light", "dark">>
  BY DEF Route
<1>2. Route("session")[2] = "light" /\ Route("session")[3] = "dark" /\ {2, 3} \subseteq DOMAIN Route("session")
  BY <1>1
<1>3. QED
  BY <1>2

LEMMA EndRouter ==
  ASSUME TypeOK, EndInv, NEW t \in Topic, SkipRecord(t) \/ RouterTakes(t)
  PROVE  EndInv'
<1>1. UNCHANGED <<sideOf, clients, world>> /\ unread' = [unread EXCEPT ![t] = Tail(@)] /\ unread[t] # <<>>
  BY DEF SkipRecord, RouterTakes, observed, game
<1>2. CASE SkipRecord(t)
  <2>1. unread'["session"] = unread["session"] /\ UNCHANGED hand
    BY <1>1, <1>2 DEF SkipRecord, TypeOK, Topic
  <2>2. QED
    BY <1>1, <2>1, EndFrame
<1>3. CASE RouterTakes(t) /\ t # "session"
  <2>1. unread'["session"] = unread["session"] /\ hand.left = <<>>
    BY <1>1, <1>3 DEF RouterTakes, TypeOK, Topic
  <2>2. \A c : EndComing(c) => EndComing(c)'
    BY <2>1 DEF EndComing
  <2>3. QED
    BY <1>1, <2>1, <2>2 DEF EndInv, EndCame, Newest, clients
<1>4. CASE RouterTakes(t) /\ t = "session"
  <2> DEFINE s == unread["session"]
  <2>1. s \in Seq(Record) /\ s # <<>> /\ unread'["session"] = Tail(s)
    BY <1>1, <1>4 DEF TypeOK
  <2>2. hand'.record = Head(s) /\ hand'.left = Route("session")
    BY <1>4 DEF RouterTakes
  <2>3. /\ Tail(s) # <<>> => Newest("session")' = Newest("session")
        /\ Tail(s) = <<>> => Head(s) = Newest("session")
    BY <2>1, NewestRemains DEF Newest
  <2>4. /\ \A k \in DOMAIN unread'["session"] : unread'["session"][k].topic = "session"
        /\ Head(s).topic = "session"
    <3>1. /\ Len(s) \in Nat \ {0} /\ DOMAIN s = 1..Len(s) /\ Head(s) = s[1]
          /\ DOMAIN Tail(s) = 1..(Len(s) - 1)
          /\ \A k \in 1..(Len(s) - 1) : Tail(s)[k] = s[k + 1]
      BY <2>1
    <3>2. \A k \in 1..Len(s) : s[k].topic = "session"
      BY <3>1 DEF EndInv
    <3> HIDE DEF s
    <3>3. QED
      BY <2>1, <3>1, <3>2
  <2>5. Newest("session").over = world.over
    BY <2>1 DEF EndInv
  <2>6. ASSUME world.over, NEW c \in Connection
        PROVE  EndComing(c)'
    <3>1. CASE Tail(s) # <<>>
      BY <2>1, <3>1 DEF EndComing
    <3>2. CASE Tail(s) = <<>>
      <4>1. hand'.record.topic = "session" /\ hand'.record.over
        BY <2>2, <2>3, <2>4, <2>5, <2>6, <3>2
      <4>2. sideOf'[c] \in {"light", "dark"}
        BY <1>1 DEF TypeOK
      <4>3. QED
        BY <2>2, <4>1, <4>2, SessionRoute DEF EndComing
    <3>3. QED
      BY <3>1, <3>2
  <2>7. audience' \cap open' \subseteq Connection
    BY <1>1 DEF TypeOK, clients
  <2> HIDE DEF s
  <2>8. QED
    BY <1>1, <2>1, <2>3, <2>4, <2>5, <2>6, <2>7 DEF EndInv, clients
<1>5. QED
  BY <1>2, <1>3, <1>4

\* A channel that is not the first of those left stays among them.
LEMMA SendsRemain ==
  ASSUME NEW left \in Seq(Channel), left # <<>>, NEW c, c # Head(left),
         \E k \in DOMAIN left : left[k] = c
  PROVE  \E k \in DOMAIN Tail(left) : Tail(left)[k] = c
<1>1. /\ Len(left) \in Nat \ {0} /\ DOMAIN left = 1..Len(left) /\ Head(left) = left[1]
      /\ DOMAIN Tail(left) = 1..(Len(left) - 1)
      /\ \A k \in 1..(Len(left) - 1) : Tail(left)[k] = left[k + 1]
  OBVIOUS
<1>2. PICK k \in 1..Len(left) : left[k] = c
  BY <1>1
<1>3. k - 1 \in 1..(Len(left) - 1) /\ (k - 1) + 1 = k
  BY <1>1, <1>2
<1>4. QED
  BY <1>1, <1>2, <1>3

LEMMA EndCache ==
  ASSUME TypeOK, EndInv, CacheManager
  PROVE  EndInv'
<1>1. UNCHANGED <<sideOf, unread, clients, world>> /\ Receives("cache")
  BY DEF CacheManager, observed, game, topics
<1>2. hand'.record = hand.record /\ hand'.left = Tail(hand.left)
  BY <1>1, ReceivesTypes
<1>3. hand.left \in Seq(Channel) /\ hand.left # <<>> /\ Head(hand.left) = "cache"
  BY <1>1 DEF TypeOK, Receives
<1>4. \A c \in Connection : EndComing(c) => EndComing(c)'
  <2>1. \A c \in Connection : sideOf[c] # "cache"
    BY DEF TypeOK
  <2>2. ASSUME NEW c \in Connection, \E k \in DOMAIN hand.left : hand.left[k] = sideOf[c]
        PROVE  \E k \in DOMAIN Tail(hand.left) : Tail(hand.left)[k] = sideOf[c]
    <3>1. sideOf[c] # Head(hand.left)
      BY <1>3, <2>1
    <3>2. QED
      BY <1>3, <2>2, <3>1, SendsRemain
  <2>3. QED
    BY <1>1, <1>2, <2>2 DEF EndComing
<1>5. QED
  BY <1>1, <1>4 DEF EndInv, EndCame, Newest, clients, TypeOK

LEMMA EndHub ==
  ASSUME TypeOK, EndInv, NEW side \in {"light", "dark"}, HubForwards(side)
  PROVE  EndInv'
<1> DEFINE to == {c \in subs : sideOf[c] = side}
           event == CopyFor(side, hand.record)
<1>1. UNCHANGED <<sideOf, unread, world, open, subs, heard, audience>> /\ Receives(side)
  BY DEF HubForwards, observed, game, topics
<1>2. hand'.record = hand.record /\ hand'.left = Tail(hand.left)
  BY <1>1, ReceivesTypes
<1>3. hand.left \in Seq(Channel) /\ hand.left # <<>> /\ Head(hand.left) = side
  BY <1>1 DEF TypeOK, Receives
<1>4. /\ inbox' = [c \in Connection |-> IF c \in Room(to) THEN Append(inbox[c], event) ELSE inbox[c]]
      /\ missed' = IF event.over THEN missed \cup (to \ Room(to)) ELSE missed
  BY DEF HubForwards
<1>5. hand.record.topic = "session" => event = hand.record
  BY DEF CopyFor
<1> HIDE DEF event
<1>6. ASSUME NEW c \in Connection, EndCame(c)
      PROVE  EndCame(c)'
  <2>1. c \in missed => c \in missed'
    BY <1>4
  <2>2. ASSUME NEW k \in DOMAIN inbox[c], inbox[c][k].over
        PROVE  \E j \in DOMAIN inbox'[c] : inbox'[c][j].over
    <3>1. inbox[c] \in Seq(Record)
      BY DEF TypeOK
    <3>2. k \in DOMAIN Append(inbox[c], event) /\ Append(inbox[c], event)[k] = inbox[c][k]
      BY <2>2, <3>1
    <3>3. inbox'[c] \in {inbox[c], Append(inbox[c], event)}
      BY <1>4
    <3>4. QED
      BY <2>2, <3>2, <3>3
  <2>3. QED
    BY <1>1, <1>6, <2>1, <2>2 DEF EndCame
<1>7. ASSUME NEW c \in Connection, c \in subs, EndComing(c)
      PROVE  EndCame(c)' \/ EndComing(c)'
  <2>1. CASE unread["session"] # <<>> \/ sideOf[c] # side
    <3>1. ASSUME sideOf[c] # side, \E k \in DOMAIN hand.left : hand.left[k] = sideOf[c]
          PROVE  \E k \in DOMAIN Tail(hand.left) : Tail(hand.left)[k] = sideOf[c]
      BY <1>3, <3>1, SendsRemain
    <3>2. QED
      BY <1>1, <1>2, <1>7, <2>1, <3>1 DEF EndComing
  <2>2. CASE unread["session"] = <<>> /\ sideOf[c] = side
    <3>1. event.over /\ c \in to
      BY <1>5, <1>7, <2>2 DEF EndComing
    <3>2. CASE c \in Room(to)
      <4>1. inbox'[c] = Append(inbox[c], event) /\ inbox[c] \in Seq(Record)
        BY <1>4, <3>2 DEF TypeOK
      <4>2. Len(inbox[c]) + 1 \in DOMAIN inbox'[c] /\ inbox'[c][Len(inbox[c]) + 1] = event
        BY <4>1
      <4>3. QED
        BY <3>1, <4>2 DEF EndCame
    <3>3. CASE c \notin Room(to)
      BY <1>4, <3>1, <3>3 DEF EndCame
    <3>4. QED
      BY <3>2, <3>3
  <2>3. QED
    BY <2>1, <2>2
<1>8. QED
  BY <1>1, <1>6, <1>7 DEF EndInv, Newest, TypeOK

LEMMA EndClients ==
  ASSUME TypeOK, EndInv, NEW c \in Connection, Connect(c) \/ Disconnect(c) \/ HubSignsOff(c) \/ Write(c)
  PROVE  EndInv'
<1>1. UNCHANGED <<sideOf, hand, unread, world, missed>>
  BY DEF Connect, Disconnect, HubSignsOff, Write, observed, game, topics
<1>2. \A d : EndComing(d)' <=> EndComing(d)
  BY <1>1 DEF EndComing
<1>3. audience' \subseteq subs'
  BY DEF Connect, Disconnect, HubSignsOff, Write, EndInv
<1>4. ASSUME NEW d \in audience' \cap open'
      PROVE  d \in audience \cap open /\ (EndCame(d) => EndCame(d)')
  <2>1. CASE Connect(c)
    BY <1>1, <2>1 DEF Connect, EndInv, EndCame
  <2>2. CASE Disconnect(c)
    BY <1>1, <2>2 DEF Disconnect, EndCame, TypeOK
  <2>3. CASE HubSignsOff(c)
    BY <1>1, <2>3 DEF HubSignsOff, EndCame, TypeOK
  <2>4. CASE Write(c)
    <3>1. d \in audience \cap open /\ heard \subseteq heard'
      BY <2>4 DEF Write
    <3>2. CASE d # c
      <4>1. inbox'[d] = inbox[d]
        BY <2>4, <3>1, <3>2 DEF Write, TypeOK
      <4>2. QED
        BY <1>1, <3>1, <4>1 DEF EndCame
    <3>3. CASE d = c
      <4> DEFINE s == inbox[c]
      <4>1. /\ s \in Seq(Record) /\ s # <<>> /\ inbox'[c] = Tail(s)
            /\ Head(s).over => c \in heard'
        BY <2>4 DEF Write, TypeOK
      <4>2. ASSUME NEW k \in DOMAIN s, s[k].over
            PROVE  c \in heard' \/ \E j \in DOMAIN inbox'[c] : inbox'[c][j].over
        <5>1. /\ Len(s) \in Nat \ {0} /\ DOMAIN s = 1..Len(s) /\ Head(s) = s[1]
              /\ DOMAIN Tail(s) = 1..(Len(s) - 1)
              /\ \A j \in 1..(Len(s) - 1) : Tail(s)[j] = s[j + 1]
          BY <4>1
        <5> HIDE DEF s
        <5>2. CASE k = 1
          BY <4>1, <4>2, <5>1, <5>2
        <5>3. CASE k # 1
          <6>1. k - 1 \in 1..(Len(s) - 1) /\ (k - 1) + 1 = k
            BY <4>2, <5>1, <5>3
          <6>2. Tail(s)[k - 1].over /\ k - 1 \in DOMAIN Tail(s)
            BY <4>2, <5>1, <6>1
          <6>3. QED
            BY <4>1, <6>2
        <5>4. QED
          BY <5>2, <5>3
      <4>3. QED
        BY <1>1, <3>1, <3>3, <4>2 DEF EndCame
    <3>4. QED
      BY <3>2, <3>3
  <2>5. QED
    BY <2>1, <2>2, <2>3, <2>4
<1>5. QED
  BY <1>1, <1>2, <1>3, <1>4 DEF EndInv, Newest

LEMMA EndStep ==
  ASSUME TypeOK, EndInv, [Next]_vars
  PROVE  EndInv'
<1>1. CASE UNCHANGED vars
  BY <1>1, EndFrame DEF vars, observed, game, topics
<1>2. CASE Turn
  BY <1>2, EndTurn DEF Turn
<1>3. CASE UpdateCache \/ Heartbeat \/ NewGame
  BY <1>3, EndGame
<1>4. CASE \E t \in Topic : SkipRecord(t) \/ RouterTakes(t)
  BY <1>4, EndRouter
<1>5. CASE RouterSends
  BY <1>5, EndCache, EndHub DEF RouterSends
<1>6. CASE \E c \in Connection : Connect(c) \/ Disconnect(c) \/ Write(c) \/ HubSignsOff(c)
  BY <1>6, EndClients
<1>7. QED
  BY <1>1, <1>2, <1>3, <1>4, <1>5, <1>6 DEF Next, RouterTakesAny

\* For any number of connections, any capacity of their channels, any lag and any records
\* skipped: when the records are through, every connection of both sides that was there at the
\* end and still is has been told, is about to be, or was too slow.
THEOREM EndIsHeard == Spec => []EndReachesListeners
<1>1. EndInv => EndReachesListeners
  <2> SUFFICES ASSUME EndInv, Quiet, world.over, NEW c \in audience \cap open
               PROVE  EndCame(c)
    BY DEF EndReachesListeners, EndCame
  <2>1. ~EndComing(c)
    BY DEF Quiet, EndComing, Topic
  <2>2. QED
    BY <2>1 DEF EndInv
<1>2. TypeOK /\ EndInv /\ [Next]_vars => (TypeOK /\ EndInv)'
  BY TypeStep, EndStep
<1>3. QED
  BY <1>1, <1>2, TypeInit, EndInit, PTL DEF Spec
=============================================================================
