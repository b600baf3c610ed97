----------------------------- MODULE EventFlow -----------------------------
(***************************************************************************)
(* The way of an event: AdvanceTurn and POST /game/start write to the      *)
(* topics, every instance's state consumer decodes them, api.EventRouter   *)
(* sends each to the Light stream, the Dark stream and the cache manager,  *)
(* and RunSSEHub copies the streams to the connected browsers.             *)
(*                                                                         *)
(* One instance is observed: the leader, whose engine also writes its      *)
(* cache, or a standby, which knows the game from the topics alone.  Of    *)
(* the world only the Ring Bearer's region is kept, of which the Dark Side *)
(* may learn only what detection tells it.  The unit, region and path      *)
(* topics stay silent: produceStateDeltaEvents compares a map with itself. *)
(* The buffers between the goroutines are left out: a record that waits in *)
(* front of a goroutine counts as one the goroutine before still holds.    *)
(***************************************************************************)
EXTENDS Integers, Sequences, FiniteSets

CONSTANTS
  Region, StartRegion,
  Nowhere,          \* the empty region
  Connection,       \* requests for GET /events
  Player, PlayerOf,
  InboxCapacity,    \* of a connection's channel, which drops what does not fit
  Prompt,           \* has the leader handled all records before it acts again, and every
                    \* instance before a new game?
  Lag,              \* records of a topic a standby may be behind when the leader acts
  MaxTurns,         \* bound on the turns played
  MaxUpsets         \* bound on new games, heartbeats and records that cannot be decoded

ASSUME RegionAssumption == StartRegion \in Region /\ Nowhere \notin Region

ASSUME ConnectionAssumption == PlayerOf \in [Connection -> Player]

ASSUME BoundAssumption ==
  /\ {InboxCapacity, MaxTurns} \subseteq Nat \ {0}
  /\ {Lag, MaxUpsets} \subseteq Nat
  /\ Prompt \in BOOLEAN

VARIABLES
  leading,   \* is the observed instance the leader?
  sideOf,    \* the side each connection asks for
  world,     \* the engine's game: its turn, the Ring Bearer's region, game over
  working,   \* AdvanceTurn between its last event and cache.Update, with its snapshot
  unread,    \* the records of each topic the router has not taken
  sighted,   \* history: the last detection published
  loaded,    \* topics whose schemas the consumer has: all but one when the game starts
  lost,      \* topics whose last record could not be decoded
  hand,      \* the event routeEvent holds and the channels it still has to send it to
  cache,     \* the instance's WorldStateCache
  open,      \* connections whose browser is there
  subs, inbox,  \* the hub's subscriptions and their channels
  heard,     \* history: connections whose browser was sent a game over
  missed,    \* history: connections the hub dropped the game over for
  audience,  \* history: connections the hub knew when the game ended
  played, upsets

observed == <<leading, sideOf>>
game == <<world, working>>
consumer == <<loaded, lost>>
topics == <<unread, sighted>>
budget == <<played, upsets>>
clients == <<open, subs, inbox, heard, missed, audience>>
vars == <<observed, game, topics, consumer, hand, cache, clients, budget>>

Topic == {"position", "detection", "broadcast", "session"}
Channel == {"light", "dark", "cache"}
Place == Region \cup {Nowhere}

\* unit is the region in the Ring Bearer's unit entry, region every other field with one.
Record == [topic : Topic, turn : Nat, unit : Place, region : Place, over : BOOLEAN]
Sighting == [region : Place, turn : Nat]
Cache == [turn : Nat, unit : Place, light : Place, dark : Sighting, over : BOOLEAN]
NoSighting == [region |-> Nowhere, turn |-> 0]
NoRecord == [topic |-> "session", turn |-> 0, unit |-> Nowhere, region |-> Nowhere, over |-> FALSE]
-----------------------------------------------------------------------------
FreshCache == [turn |-> 1, unit |-> Nowhere, light |-> StartRegion, dark |-> NoSighting, over |-> FALSE]

Init ==
  /\ leading \in BOOLEAN
  /\ sideOf \in [Connection -> {"light", "dark"}]
  /\ world = [turn |-> 1, region |-> StartRegion, over |-> FALSE]
  /\ working = <<>>
  /\ unread = [t \in Topic |-> <<>>]
  /\ sighted = NoSighting
  /\ \E t \in Topic : loaded = Topic \ {t}
  /\ lost = {}
  /\ hand = [record |-> NoRecord, left |-> <<>>]
  /\ cache = FreshCache
  /\ open = {} /\ subs = {}
  /\ inbox = [c \in Connection |-> <<>>]
  /\ heard = {}
  /\ missed = {} /\ audience = {}
  /\ played = 0 /\ upsets = 0

Upset == upsets < MaxUpsets /\ upsets' = upsets + 1 /\ UNCHANGED played

Quiet ==
  /\ \A t \in Topic : unread[t] = <<>>
  /\ hand.left = <<>>

EngineTurn == IF leading THEN cache.turn ELSE world.turn

Position(place, turn) ==
  [topic |-> "position", turn |-> turn, unit |-> Nowhere, region |-> place, over |-> FALSE]

\* A spotting names a path, a detection the region; the codec drops the kind of both.
Detection(place, turn) ==
  [topic |-> "detection", turn |-> turn, unit |-> Nowhere, region |-> place, over |-> FALSE]

WorldState(place, turn) ==
  [topic |-> "broadcast", turn |-> turn, unit |-> place, region |-> place, over |-> FALSE]

GameOver(turn) ==
  [topic |-> "broadcast", turn |-> turn, unit |-> Nowhere, region |-> Nowhere, over |-> TRUE]

Session(turn, over) ==
  [topic |-> "session", turn |-> turn, unit |-> Nowhere, region |-> Nowhere, over |-> over]

Ready ==
  /\ working = <<>>
  /\ Prompt /\ leading => Quiet
  /\ \A t \in Topic : Len(unread[t]) <= Lag

\* What detection records of one turn may say: on the way it may be spotted, at its end detected.
Sightings(place) == {<<>>, <<Nowhere>>, <<place>>, <<Nowhere, place>>}

\* AdvanceTurn up to cache.Update: the Ring Bearer stays or moves to `place', the detection
\* topic says what was `seen' of it, and the game goes on or ends.  `shown': the public unit
\* entry walks along as if it stood Nowhere, and arrives somewhere.
AdvanceTurn(place, shown, seen, over) ==
  LET turn == EngineTurn
      moved == place # world.region
  IN
  /\ Ready
  /\ ~world.over /\ (leading => ~cache.over)
  /\ played < MaxTurns /\ played' = played + 1
  /\ played' = MaxTurns => over
  /\ \A k \in DOMAIN seen : seen[k] = Nowhere => moved
  /\ unread' = [unread EXCEPT
       !["position"] = @ \o (IF moved THEN <<Position(place, turn)>> ELSE <<>>),
       !["detection"] = @ \o [k \in DOMAIN seen |-> Detection(seen[k], turn)],
       !["broadcast"] = Append(@, IF over THEN GameOver(turn) ELSE WorldState(place, turn + 1)),
       !["session"] = Append(@, Session(IF over THEN turn ELSE turn + 1, over))]
  /\ sighted' = IF seen = <<>> THEN sighted ELSE [region |-> seen[Len(seen)], turn |-> turn]
  /\ world' = [turn |-> IF over THEN turn ELSE turn + 1, region |-> place, over |-> over]
  /\ working' = IF leading THEN <<[turn |-> turn + 1, unit |-> IF shown THEN place ELSE cache.unit, light |-> place,
                                   dark |-> cache.dark, over |-> over]>>
                           ELSE <<>>
  /\ IF over
     THEN /\ audience' = subs /\ heard' = {} /\ missed' = {}
          /\ UNCHANGED <<open, subs, inbox>>
     ELSE UNCHANGED clients
  /\ UNCHANGED <<observed, consumer, hand, cache, upsets>>

\* cache.Update replaces the whole cache by what was computed from the snapshot.
UpdateCache ==
  /\ working # <<>>
  /\ cache' = Head(working)
  /\ working' = <<>>
  /\ UNCHANGED <<observed, world, topics, consumer, hand, clients, budget>>

\* manageLeadership repeats the turn of the leader's cache.
Heartbeat ==
  /\ Ready
  /\ Upset
  /\ unread' = [unread EXCEPT !["session"] = Append(@, Session(EngineTurn, world.over))]
  /\ UNCHANGED <<observed, game, sighted, consumer, hand, cache, clients>>

\* POST /game/start at the leader.
NewGame ==
  /\ Ready /\ (Prompt => Quiet)
  /\ Upset
  /\ world' = [turn |-> 1, region |-> StartRegion, over |-> FALSE]
  /\ cache' = IF leading THEN FreshCache ELSE cache
  /\ unread' = [unread EXCEPT !["broadcast"] = Append(@, WorldState(StartRegion, 1)),
                            !["session"] = Append(@, Session(1, FALSE))]
  /\ UNCHANGED <<observed, working, sighted, consumer, hand, clients>>

-----------------------------------------------------------------------------
\* The schema registry cannot be reached, and has not been before: the record is skipped.
\* Session records are plain JSON.
SkipRecord(t) ==
  /\ t # "session" /\ t \notin loaded
  /\ Upset
  /\ unread[t] # <<>>
  /\ unread' = [unread EXCEPT ![t] = Tail(@)]
  /\ lost' = lost \cup {t}
  /\ UNCHANGED <<observed, game, sighted, loaded, hand, cache, clients>>

MutRoute(t) ==
  [position |-> <<"light", "cache">>,
   detection |-> <<"dark">>,
   broadcast |-> <<"light", "dark", "cache">>,
   session |-> <<"cache", "light">>][t]

\* routeEvent's sends, in their order.
Route(t) ==
  [position |-> <<"light", "cache">>,
   detection |-> <<"dark", "cache">>,
   broadcast |-> <<"light", "dark", "cache">>,
   session |-> <<"cache", "light", "dark">>][t]

MutStripped(r) == [r EXCEPT !.unit = Nowhere]

\* StripRingBearerFromSnapshot; of a GameOver it leaves the turn and an empty world.
Stripped(r) == [r EXCEPT !.unit = Nowhere, !.region = Nowhere, !.over = FALSE]

CopyFor(c, r) == IF c = "dark" /\ r.topic = "broadcast" THEN Stripped(r) ELSE r

\* The consumer decodes the next record of any topic and the router takes it.
RouterTakes(t) ==
  /\ hand.left = <<>>
  /\ unread[t] # <<>>
  /\ hand' = [record |-> Head(unread[t]), left |-> Route(t)]
  /\ unread' = [unread EXCEPT ![t] = Tail(@)]
  /\ loaded' = loaded \cup {t}
  /\ lost' = lost \ {t}
  /\ UNCHANGED <<observed, game, sighted, cache, clients, budget>>

\* A GameOver is ignored, and a world never shows the Ring Bearer's unit anywhere.
AppliedWorld(c, r) ==
  IF r.over THEN c
  ELSE [c EXCEPT !.turn = r.turn, !.unit = Nowhere,
                 !.light = IF r.region # Nowhere THEN r.region ELSE @]

AppliedSession(c, r) == [c EXCEPT !.turn = r.turn, !.over = r.over]

\* applyEvent, of the topics that carry anything.
Applied(c, r) ==
  [position |-> [c EXCEPT !.light = r.region],
   detection |-> [c EXCEPT !.dark = [region |-> r.region, turn |-> r.turn]],
   broadcast |-> AppliedWorld(c, r),
   session |-> AppliedSession(c, r)][r.topic]

\* The sends block: a receiver that stops stops every topic.
Receives(c) == hand.left # <<>> /\ Head(hand.left) = c /\ hand' = [hand EXCEPT !.left = Tail(@)]

CacheManager ==
  /\ Receives("cache")
  /\ cache' = Applied(cache, hand.record)
  /\ UNCHANGED <<observed, game, topics, consumer, clients, budget>>

-----------------------------------------------------------------------------
\* GET /events, when the hub has taken the connection from newConnectionCh: one it has not
\* taken, or that a full channel dropped, is as good as none.  The streams do not depend on
\* the cache: the browsers of a standby stand for all.
Connect(c) ==
  /\ ~leading
  /\ c \notin subs
  /\ open' = open \cup {c}
  /\ subs' = subs \cup {c}
  /\ UNCHANGED <<observed, game, topics, consumer, hand, cache, inbox, heard, missed, audience, budget>>

\* The browser goes away.
Disconnect(c) ==
  /\ c \in open
  /\ open' = open \ {c}
  /\ inbox' = [inbox EXCEPT ![c] = <<>>]
  /\ UNCHANGED <<observed, game, topics, consumer, hand, cache, subs, heard, missed, audience, budget>>

\* All connections of the player are signed off, whichever of them was closed.  It never comes
\* to this when disconnectCh was full or the hub took the sign-off before the sign-up.  A
\* browser left without subscription is again as good as none.
HubSignsOff(c) ==
  /\ c \in subs \ open
  /\ subs' = {d \in subs : PlayerOf[d] # PlayerOf[c]}
  /\ open' = open \cap subs' /\ audience' = audience \cap subs'
  /\ inbox' = [d \in Connection |-> IF d \in subs' THEN inbox[d] ELSE <<>>]
  /\ UNCHANGED <<observed, game, topics, consumer, hand, cache, heard, missed, budget>>

\* The handler writes the next event to the browser.
Write(c) ==
  /\ c \in open
  /\ inbox[c] # <<>>
  /\ heard' = IF Head(inbox[c]).over THEN heard \cup {c} ELSE heard
  /\ inbox' = [inbox EXCEPT ![c] = Tail(@)]
  /\ UNCHANGED <<observed, game, topics, consumer, hand, cache, open, subs, missed, audience, budget>>

MutHubForwards(side) ==
  /\ Receives(side)
  /\ LET to == {c \in subs : sideOf[c] = side}
         event == CopyFor(side, hand.record)
     IN /\ \A c \in to : Len(inbox[c]) < InboxCapacity
        /\ inbox' = [c \in Connection |-> IF c \in to THEN Append(inbox[c], event) ELSE inbox[c]]
  /\ UNCHANGED <<observed, game, topics, consumer, cache, open, subs, heard, missed, audience, budget>>

MutRoom(to) == to

Room(to) == {c \in to : Len(inbox[c]) < InboxCapacity}

HubForwards(side) ==
  /\ Receives(side)
  /\ LET to == {c \in subs : sideOf[c] = side}
         room == Room(to)
         event == CopyFor(side, hand.record)
     IN /\ inbox' = [c \in Connection |-> IF c \in room THEN Append(inbox[c], event) ELSE inbox[c]]
        /\ missed' = IF event.over THEN missed \cup (to \ room) ELSE missed
  /\ UNCHANGED <<observed, game, topics, consumer, cache, open, subs, heard, audience, budget>>

Turn ==
  \E place \in Region, shown, over \in BOOLEAN :
    \E seen \in Sightings(place) : AdvanceTurn(place, shown, seen, over)

RouterTakesAny == \E t \in Topic : RouterTakes(t)

RouterSends == CacheManager \/ HubForwards("light") \/ HubForwards("dark")

Next ==
  \/ Turn \/ UpdateCache \/ Heartbeat \/ NewGame
  \/ \E t \in Topic : SkipRecord(t)
  \/ RouterTakesAny \/ RouterSends
  \/ \E c \in Connection : Connect(c) \/ Disconnect(c) \/ Write(c) \/ HubSignsOff(c)

\* The goroutines run and the consumer polls; select chooses as it likes.
Fairness ==
  /\ WF_vars(Turn) /\ WF_vars(UpdateCache)
  /\ WF_vars(RouterTakesAny) /\ WF_vars(RouterSends)
  /\ \A c \in Connection : WF_vars(Write(c))

Spec == Init /\ [][Next]_vars /\ Fairness

-----------------------------------------------------------------------------
\* Type invariant: every topic, channel and table holds values of its kind.
TypeOK ==
  /\ leading \in BOOLEAN /\ sideOf \in [Connection -> {"light", "dark"}]
  /\ world \in [turn : Nat, region : Region, over : BOOLEAN]
  /\ working \in Seq(Cache)
  /\ unread \in [Topic -> Seq(Record)] /\ sighted \in Sighting
  /\ loaded \subseteq Topic /\ lost \subseteq Topic
  /\ hand \in [record : Record, left : Seq(Channel)]
  /\ cache \in Cache
  /\ open \subseteq subs /\ subs \subseteq Connection
  /\ inbox \in [Connection -> Seq(Record)]
  /\ \A c \in Connection : Len(inbox[c]) <= InboxCapacity
  /\ heard \subseteq Connection /\ missed \subseteq Connection /\ audience \subseteq Connection
  /\ played \in Nat /\ upsets \in Nat

ForDark(r) == r.unit = Nowhere /\ (r.topic = "detection" \/ r.region = Nowhere)
ForLight(r) == r.topic # "detection"

\* handleGameState: the Light Side is shown the true region, the Dark Side the public entry.
GameState(side) ==
  [turn |-> cache.turn,
   unit |-> IF side = "light" THEN cache.light ELSE cache.unit,
   region |-> IF side = "light" THEN cache.light ELSE Nowhere,
   over |-> cache.over]

\* The region the Ring Bearer is in reaches a Dark browser in a detection only, neither from
\* the stream nor, at a standby, from GET /game/state; and detections stay with the Dark Side.
SecretKept ==
  /\ \A c \in Connection : \A k \in DOMAIN inbox[c] :
       IF sideOf[c] = "dark" THEN ForDark(inbox[c][k]) ELSE ForLight(inbox[c][k])
  /\ ~leading => GameState("dark").unit = Nowhere

\* Once the topics are drained, in whatever order they were read, a cache knows whether the
\* game is over, the turn, where the Ring Bearer is and where it was last detected, but for
\* records that could not be decoded, and for detections the leader's cache.Update wiped out.
CaughtUp ==
  Quiet /\ working = <<>> =>
    /\ cache.over = world.over
    /\ ~world.over => cache.turn = world.turn
    /\ ~world.over /\ lost \cap {"position", "broadcast"} = {} => cache.light = world.region
    /\ ~leading /\ "detection" \notin lost => cache.dark = sighted

\* The blocking sends between consumer, router, hub and cache manager never wedge, whatever
\* the browsers do.
Settles == <>[](Quiet /\ working = <<>>)

\* When the records are through, every connection the hub knew when the game ended has the end
\* before it or was told, on the Dark Side by the session record alone, unless it was closed,
\* taken for another of its player's, or too slow.
EndReachesListeners ==
  Quiet /\ world.over =>
    \A c \in audience \cap open :
      c \in heard \/ c \in missed \/ \E k \in DOMAIN inbox[c] : inbox[c][k].over
=============================================================================
