----------------------------- MODULE Leadership -----------------------------
(***************************************************************************)
(* Leader election among the Go instances (cmd/server/main.go) and the     *)
(* part of the turn engine that talks to the game.session topic.           *)
(*                                                                         *)
(* There is no coordinator: every instance keeps in its cache the last     *)
(* session record it consumed from game.session (one compacted partition,  *)
(* one consumer group per instance) and decides from it alone.  A record   *)
(* names a leader and carries the time of its heartbeat; a standby whose   *)
(* record is older than leaderHeartbeatTimeout publishes a claim with the  *)
(* next epoch, and starts its engine when, one election tick later, its    *)
(* cache still names it.                                                   *)
(*                                                                         *)
(* Time is discrete.  A record's `age' is the time since its heartbeat,    *)
(* capped just above Timeout, where every comparison has been decided.     *)
(***************************************************************************)
EXTENDS Integers, Sequences, FiniteSets

CONSTANTS
  Instance,        \* INSTANCE_ID of each engine
  Preferred,       \* LEADER_INSTANCE_ID, Nobody when unset
  Nobody,          \* the empty leaderId
  Deployments,     \* what may be started: the instances that run, those that come back after
                   \* a crash, and GameConfig.MaxTurns
  Timeout,         \* leaderHeartbeatTimeout
  ElectionPeriod,  \* leaderElectionInterval
  ClaimDelay,      \* 1.5 s plus jitter, used when there is no preferred leader
  Pause,           \* the sleep before the GameOver transaction
  Lag,             \* bound: a record reaches a running instance within Lag
  Overtaking,      \* may a record come back before its publisher's own UpdateSession?
  Phase,           \* how far into its period each ticker is at the start
  MaxCrashes,      \* bound on crashes
  MaxDecisions,    \* bound on how often an engine finds the game over
  MaxProduce,      \* bound on the time the produce after the sleep takes
  Announcements    \* GameOver messages one call may leave: 1, 2 when the transaction commits
                   \* but reports an error, 0 when the plain produce after it fails as well

ASSUME InstanceAssumption ==
  /\ Nobody \notin Instance
  /\ Preferred \in Instance \cup {Nobody}
  /\ Deployments \subseteq [running : SUBSET Instance, restartable : SUBSET Instance,
                            maxTurns : Nat \ {0}]

ASSUME TimeAssumption ==
  /\ {Timeout, ElectionPeriod, ClaimDelay, Pause, Lag, MaxProduce} \subseteq Nat
  /\ ElectionPeriod > 0
  /\ Phase \in [Instance -> 0 .. ElectionPeriod - 1]
  /\ Overtaking \in BOOLEAN

ASSUME CountAssumption ==
  /\ MaxCrashes \in Nat /\ MaxDecisions \in Nat
  /\ Announcements \subseteq {0, 1, 2}

VARIABLES
  up,        \* is the process running
  view,      \* the session and turn in the instance's WorldStateCache
  active,    \* leaderRuntime.active
  sent,      \* TurnProcessor.gameOverSent
  pc,        \* where the main goroutine is
  draft,     \* what it will write to the cache next
  queue,     \* records of game.session not yet applied to the cache
  topic,     \* the record compaction keeps: the last one, or none
  sinceTick, sinceStart, asleep,   \* timers of each instance
  announced, \* GameOver messages in game.broadcast
  decisions, \* how often an engine has found the game over
  crashes,
  returned,  \* history: the instances that came back after a crash
  deployment,
  overslept, \* history: has an engine slept for longer than the lease leaves room for
  led        \* history: which instance ran the engine under which epoch

timers == <<sinceTick, sinceStart, asleep>>
counts == <<announced, decisions, crashes, returned, deployment>>
vars == <<up, view, active, sent, pc, draft, queue, topic, timers, counts, overslept, led>>

Session == [leader : Instance \cup {Nobody}, epoch : Nat, turn : Nat, over : BOOLEAN, age : Nat]

\* The session of a cache built from the configuration: no leader, no heartbeat.
Fresh == [leader |-> Nobody, epoch |-> 0, turn |-> 1, over |-> FALSE, age |-> Timeout + 1]

MutStale(s) == s.leader = Nobody \/ s.age >= ElectionPeriod

Stale(s) == s.leader = Nobody \/ s.age > Timeout

MutClaimWindow(i) == Preferred \in {i, Nobody}

ClaimWindow(i) ==
  sinceStart[i] >= (IF Preferred = i THEN 0 ELSE IF Preferred # Nobody THEN Timeout ELSE ClaimDelay)

Beat(s, i, e) == [s EXCEPT !.leader = i, !.epoch = e, !.age = 0]

\* A crashed instance's group keeps its offset, and compaction leaves it the last record.
Publish(r) ==
  /\ queue' = [i \in Instance |-> IF up[i] THEN Append(queue[i], r) ELSE <<r>>]
  /\ topic' = <<r>>

At(i, place) == up[i] /\ pc[i] = place
Goto(i, place) == pc' = [pc EXCEPT ![i] = place]

-----------------------------------------------------------------------------
\* The containers start together; their tickers need not be in phase.
Init ==
  /\ deployment \in Deployments
  /\ up = [i \in Instance |-> i \in deployment.running]
  /\ view = [i \in Instance |-> Fresh]
  /\ active = [i \in Instance |-> FALSE]
  /\ sent = [i \in Instance |-> FALSE]
  /\ pc = [i \in Instance |-> "boot"]
  /\ draft = [i \in Instance |-> Fresh]
  /\ queue = [i \in Instance |-> <<>>]
  /\ topic = <<>>
  /\ sinceTick = Phase
  /\ sinceStart = [i \in Instance |-> 0]
  /\ asleep = [i \in Instance |-> 0]
  /\ announced = 0 /\ decisions = 0 /\ crashes = 0 /\ returned = {}
  /\ overslept = FALSE
  /\ led = {}

\* Publish a record naming i and remember to write it to i's own cache.
PublishAndApply(i, r) ==
  /\ Publish(r)
  /\ draft' = [draft EXCEPT ![i] = r]
  /\ Goto(i, "publish")
  /\ UNCHANGED <<up, view, active, sent, sinceStart, asleep, counts, overslept, led>>

\* bootstrapLeadership: the preferred instance claims at once if its cache names no leader.
Bootstrap(i) ==
  /\ At(i, "boot")
  /\ UNCHANGED sinceTick
  /\ \/ /\ Preferred \in {i, Nobody}
        /\ view[i].leader = Nobody
        /\ PublishAndApply(i, Beat(view[i], i, view[i].epoch + 1))
     \/ /\ Preferred \notin {i, Nobody} \/ view[i].leader # Nobody
        /\ Goto(i, "idle")
        /\ UNCHANGED <<up, view, active, sent, draft, queue, topic, sinceStart, asleep, counts, overslept, led>>

\* manageLeadership, on each firing of the election ticker.
OnElectionTick(i) ==
  /\ At(i, "idle")
  /\ sinceTick[i] = ElectionPeriod
  /\ sinceTick' = [sinceTick EXCEPT ![i] = 0]

Heartbeat(i) ==
  /\ OnElectionTick(i)
  /\ active[i]
  /\ view[i].leader = i \/ Stale(view[i])
  /\ PublishAndApply(i, Beat(view[i], i, view[i].epoch))

MutStepDown(i) ==
  /\ OnElectionTick(i)
  /\ active[i]
  /\ view[i].leader # i /\ ~Stale(view[i])
  /\ sent' = [sent EXCEPT ![i] = FALSE]
  /\ UNCHANGED <<up, view, active, pc, draft, queue, topic, sinceStart, asleep, counts, overslept, led>>

StepDown(i) ==
  /\ OnElectionTick(i)
  /\ active[i]
  /\ view[i].leader # i /\ ~Stale(view[i])
  /\ active' = [active EXCEPT ![i] = FALSE]
  /\ sent' = [sent EXCEPT ![i] = FALSE]
  /\ UNCHANGED <<up, view, pc, draft, queue, topic, sinceStart, asleep, counts, overslept, led>>

StartRuntime(i) ==
  /\ OnElectionTick(i)
  /\ ~active[i]
  /\ view[i].leader = i
  /\ active' = [active EXCEPT ![i] = TRUE]
  /\ led' = led \cup {<<i, view[i].epoch>>}
  /\ UNCHANGED <<up, view, sent, pc, draft, queue, topic, sinceStart, asleep, counts, overslept>>

MayClaim(i) == view[i].leader # i /\ Stale(view[i]) /\ ClaimWindow(i)

MutClaim(i) ==
  /\ OnElectionTick(i)
  /\ ~active[i]
  /\ MayClaim(i)
  /\ PublishAndApply(i, Beat(view[i], i, view[i].epoch))

Claim(i) ==
  /\ OnElectionTick(i)
  /\ ~active[i]
  /\ MayClaim(i)
  /\ PublishAndApply(i, Beat(view[i], i, view[i].epoch + 1))

StandBy(i) ==
  /\ OnElectionTick(i)
  /\ ~active[i]
  /\ view[i].leader # i /\ ~MayClaim(i)
  /\ UNCHANGED <<up, view, active, sent, pc, draft, queue, topic, sinceStart, asleep, counts, overslept, led>>

\* The UpdateSession call that follows a publication leaves the game-over fields alone.
ApplyOwn(i) ==
  /\ At(i, "publish")
  /\ view' = [view EXCEPT ![i] = [draft[i] EXCEPT !.over = view[i].over]]
  /\ Goto(i, "idle")
  /\ UNCHANGED <<up, active, sent, draft, queue, topic, timers, counts, overslept, led>>

\* The state consumer hands the next record to the cache manager, which copies every field.
\* The producer lingers 5 ms, so a record normally comes back after its publisher has applied it.
Deliver(i) ==
  /\ up[i]
  /\ queue[i] # <<>>
  /\ pc[i] = "publish" /\ Head(queue[i]) = draft[i] => Overtaking
  /\ view' = [view EXCEPT ![i] = Head(queue[i])]
  /\ queue' = [queue EXCEPT ![i] = Tail(@)]
  /\ UNCHANGED <<up, active, sent, pc, draft, topic, timers, counts, overslept, led>>

-----------------------------------------------------------------------------
\* AdvanceTurn, reduced to what it does with the session.  It reads the cache when it begins ...
MayAdvance(i) == At(i, "idle") /\ active[i] /\ ~sent[i] /\ ~view[i].over

\* ... and either the game goes on ...
NextTurn(i) ==
  /\ MayAdvance(i)
  /\ view[i].turn < deployment.maxTurns
  /\ draft' = [draft EXCEPT ![i] = [view[i] EXCEPT !.turn = @ + 1]]
  /\ Goto(i, "turn")
  /\ UNCHANGED <<up, view, active, sent, queue, topic, timers, counts, overslept, led>>

\* produceSessionTurn reads the cache again and names its own instance the leader.
PublishTurn(i) ==
  /\ At(i, "turn")
  /\ Publish([Beat(view[i], i, view[i].epoch) EXCEPT !.turn = draft[i].turn])
  /\ Goto(i, "update")
  /\ UNCHANGED <<up, view, active, sent, draft, timers, counts, overslept, led>>

\* ... or a side wins, or the turns are used up: gameOverSent is set before the 15 s sleep.
Decide(i) ==
  /\ MayAdvance(i)
  /\ decisions < MaxDecisions
  /\ decisions' = decisions + 1
  /\ sent' = [sent EXCEPT ![i] = TRUE]
  /\ draft' = [draft EXCEPT ![i] = [view[i] EXCEPT !.turn = @ + 1, !.over = TRUE]]
  /\ asleep' = [asleep EXCEPT ![i] = 0]
  /\ Goto(i, "pause")
  /\ UNCHANGED <<up, view, active, queue, topic, sinceTick, sinceStart, announced, crashes, returned,
                 deployment, overslept, led>>

\* A produce that fails ends the call, and with it the news that the game is over.
MutAnnounce(i) ==
  /\ At(i, "pause")
  /\ asleep[i] >= Pause
  /\ \E n \in Announcements :
       /\ announced' = announced + n
       /\ Goto(i, IF n = 0 THEN "update" ELSE "announced")
  /\ UNCHANGED <<up, view, active, sent, draft, queue, topic, timers, decisions, crashes, returned,
                 deployment, overslept, led>>

\* The transaction, or after an error the plain produce, whose own error is only logged.
Announce(i) ==
  /\ At(i, "pause")
  /\ asleep[i] >= Pause
  /\ \E n \in Announcements : announced' = announced + n
  /\ Goto(i, "announced")
  /\ UNCHANGED <<up, view, active, sent, draft, queue, topic, timers, decisions, crashes, returned,
                 deployment, overslept, led>>

\* produceGameOverSession reads the cache again for the epoch and names itself leader.
PublishOver(i) ==
  /\ At(i, "announced")
  /\ Publish([Beat(view[i], i, view[i].epoch) EXCEPT !.over = TRUE, !.turn = draft[i].turn - 1])
  /\ Goto(i, "update")
  /\ UNCHANGED <<up, view, active, sent, draft, timers, counts, overslept, led>>

\* cache.Update writes back the session AdvanceTurn read when it began.
CacheUpdate(i) ==
  /\ At(i, "update")
  /\ view' = [view EXCEPT ![i] = draft[i]]
  /\ Goto(i, "idle")
  /\ UNCHANGED <<up, active, sent, draft, queue, topic, timers, counts, overslept, led>>

-----------------------------------------------------------------------------
\* The last record may have been applied but not yet committed: it is then redelivered.
Crash(i) ==
  /\ up[i]
  /\ crashes < MaxCrashes
  /\ \E j \in Instance \ {i} : up[j]
  /\ crashes' = crashes + 1
  /\ up' = [up EXCEPT ![i] = FALSE]
  /\ active' = [active EXCEPT ![i] = FALSE]
  /\ sent' = [sent EXCEPT ![i] = FALSE]
  /\ view' = [view EXCEPT ![i] = Fresh]
  /\ draft' = [draft EXCEPT ![i] = Fresh]
  /\ Goto(i, "boot")
  /\ \E rest \in IF queue[i] = <<>> THEN {<<>>, topic} ELSE {topic} :
       queue' = [queue EXCEPT ![i] = rest]
  /\ sinceTick' = [sinceTick EXCEPT ![i] = 0]
  /\ sinceStart' = [sinceStart EXCEPT ![i] = 0]
  /\ asleep' = [asleep EXCEPT ![i] = 0]
  /\ UNCHANGED <<topic, announced, decisions, returned, deployment, overslept, led>>

Restart(i) ==
  /\ ~up[i]
  /\ i \in deployment.restartable
  /\ up' = [up EXCEPT ![i] = TRUE]
  /\ returned' = returned \cup {i}
  /\ UNCHANGED <<view, active, sent, pc, draft, queue, topic, timers, announced, decisions, crashes,
                 deployment, overslept, led>>

\* Due tickers fire, steps in progress finish and records arrive before time goes on.
MayWait(i) ==
  up[i] => /\ \/ pc[i] = "idle" /\ sinceTick[i] < ElectionPeriod
              \/ pc[i] = "pause" /\ asleep[i] < Pause + MaxProduce
           /\ queue[i] # <<>> => Head(queue[i]).age < Lag

Capped(n, cap) == IF n < cap THEN n + 1 ELSE cap
MutOlder(s) == [s EXCEPT !.age = @ - 1]
Older(s) == [s EXCEPT !.age = Capped(@, Timeout + 1)]
OlderAll(q) == [k \in DOMAIN q |-> Older(q[k])]

\* The last heartbeat before a sleep may be a period old, a standby sees it Lag late, and
\* starts a period after its claim: a longer sleep than this gives the lease away.
Nap == Timeout - Lag - 2 * ElectionPeriod

Oversleeps(i) == pc[i] = "pause" /\ asleep[i] >= Nap

Tick ==
  /\ \A i \in Instance : MayWait(i)
  /\ view' = [i \in Instance |-> Older(view[i])]
  /\ draft' = [i \in Instance |-> Older(draft[i])]
  /\ queue' = [i \in Instance |-> OlderAll(queue[i])]
  /\ topic' = OlderAll(topic)
  /\ sinceTick' = [i \in Instance |-> IF up[i] THEN Capped(sinceTick[i], ElectionPeriod) ELSE 0]
  /\ sinceStart' = [i \in Instance |-> IF up[i] THEN Capped(sinceStart[i], Timeout) ELSE 0]
  /\ asleep' = [i \in Instance |-> IF pc[i] = "pause" THEN asleep[i] + 1 ELSE asleep[i]]
  /\ overslept' = (overslept \/ \E i \in Instance : Oversleeps(i))
  /\ UNCHANGED <<up, active, sent, pc, counts, led>>

Step(i) ==
  \/ Bootstrap(i) \/ Heartbeat(i) \/ StepDown(i) \/ StartRuntime(i) \/ Claim(i) \/ StandBy(i)
  \/ ApplyOwn(i) \/ Deliver(i)
  \/ PublishTurn(i) \/ Announce(i) \/ PublishOver(i) \/ CacheUpdate(i)

Next ==
  \/ \E i \in Instance : Step(i)
  \/ \E i \in Instance : NextTurn(i) \/ Decide(i) \/ Crash(i) \/ Restart(i)
  \/ Tick

\* Goroutines and tickers run and time passes; turns and crashes just happen.
Fairness == WF_vars(Tick) /\ \A i \in Instance : WF_vars(Step(i))
Spec == Init /\ [][Next]_vars
FairSpec == Spec /\ Fairness

-----------------------------------------------------------------------------
Place == {"boot", "idle", "publish", "turn", "update", "pause", "announced"}

\* Type invariant of the election: every variable holds a value of its kind.
TypeOK ==
  /\ up \in [Instance -> BOOLEAN]
  /\ view \in [Instance -> Session]
  /\ active \in [Instance -> BOOLEAN]
  /\ sent \in [Instance -> BOOLEAN]
  /\ pc \in [Instance -> Place]
  /\ draft \in [Instance -> Session]
  /\ queue \in [Instance -> Seq(Session)]
  /\ topic \in Seq(Session)
  /\ sinceTick \in [Instance -> Nat] /\ sinceStart \in [Instance -> Nat]
  /\ asleep \in [Instance -> Nat]
  /\ announced \in Nat /\ decisions \in Nat /\ crashes \in Nat /\ returned \subseteq Instance
  /\ deployment \in Deployments
  /\ overslept \in BOOLEAN
  /\ led \subseteq Instance \X Nat

\* The lease: as long as every record arrives within Lag, no engine has overslept and the
\* preferred instance has not come back with an empty cache, two engines never run at once,
\* although nothing compares epochs and claims are not atomic.  With the code's 15 s sleep this
\* covers every turn up to the one that ends the game, and of that one's sleep the first part.
\* Any other instance may come back after the one crash; after two, a former leader that comes
\* back can start on its own old record beside its successor.
AtMostOneLeader ==
  Preferred \notin returned /\ ~overslept => Cardinality({i \in Instance : active[i]}) <= 1

\* Under the same conditions an epoch identifies one leader: two standbys that claim the
\* same epoch are told apart by the order of game.session before either starts.  A preferred
\* instance that comes back counts its epochs from its empty cache again.
OneLeaderPerEpoch ==
  Preferred \notin returned /\ ~overslept => \A a, b \in led : a[2] = b[2] => a[1] = b[1]

\* docs/project-specification.md, section 13: GameOver appears exactly once.
GameOverOnce == announced <= 1

\* Once no more crash comes, an engine that found the game over makes it known to every running
\* instance, whether its GameOver message got out once, twice or not at all, and whoever has
\* claimed the leadership while it slept.
EndIsRecorded ==
  \A j \in Instance :
    (crashes = MaxCrashes /\ \E i \in Instance : At(i, "pause")) ~> (~up[j] \/ view[j].over)

\* However leaders crash, some surviving instance runs the engine again and again.
LeaderReturns == []<>(\E i \in Instance : active[i])

\* The preferred instance that comes back claims at once, and the engine it takes over from runs
\* on until its own election tick, where it may have named itself again with the turn it closed;
\* but two engines do not run side by side for ever, one of them steps down.
OneLeaderAgain == []<>(Cardinality({i \in Instance : active[i]}) <= 1)
=============================================================================
