-------------------------- MODULE LeadershipProofs --------------------------
(***************************************************************************)
(* What the election guarantees.  Whatever the timing: sessions keep their *)
(* shape through crashes and compaction.  When records arrive in time and  *)
(* who has crashed stays away: one engine at a time and one leader an      *)
(* epoch, until an engine sleeps for longer than its lease.                *)
(***************************************************************************)
EXTENDS Leadership, SequenceTheorems, FiniteSetTheorems, TLAPS

-----------------------------------------------------------------------------
(* Sessions                                                                *)

LEMMA Times ==
  /\ Timeout \in Nat /\ ElectionPeriod \in Nat
  /\ Phase \in [Instance -> Nat]
BY TimeAssumption

LEMMA FreshType == Fresh \in Session /\ ~Fresh.over
<1>1. Timeout + 1 \in Nat
  BY Times
<1>2. QED
  BY <1>1 DEF Fresh, Session

LEMMA BeatType ==
  ASSUME NEW s \in Session, NEW i \in Instance, NEW e \in Nat
  PROVE  /\ Beat(s, i, e) \in Session /\ Beat(s, i, e).over = s.over
         /\ Beat(s, i, e).turn = s.turn
<1> DEFINE b == Beat(s, i, e)
<1>1. b = [s EXCEPT !.leader = i, !.epoch = e, !.age = 0]
  BY DEF Beat
<1>2. /\ b.leader = i /\ b.epoch = e /\ b.age = 0 /\ b.turn = s.turn /\ b.over = s.over
      /\ b = [leader |-> b.leader, epoch |-> b.epoch, turn |-> b.turn, over |-> b.over, age |-> b.age]
  BY <1>1 DEF Session
<1>3. s.turn \in Nat /\ s.over \in BOOLEAN
  BY DEF Session
<1>4. QED
  BY <1>2, <1>3 DEF Session

LEMMA OlderType ==
  ASSUME NEW s \in Session
  PROVE  Older(s) \in Session /\ Older(s).over = s.over /\ Older(s).turn = s.turn
<1> DEFINE a == Capped(s.age, Timeout + 1)
<1>1. a \in Nat
  BY Times DEF Session, Capped
<1>2. Older(s) = [s EXCEPT !.age = a]
  BY DEF Older
<1> HIDE DEF a
<1>3. QED
  BY <1>1, <1>2 DEF Session

LEMMA OlderAllType ==
  ASSUME NEW q \in Seq(Session)
  PROVE  OlderAll(q) \in Seq(Session)
<1>1. \A s \in Session : Older(s) \in Session
  BY OlderType
<1>2. QED
  BY <1>1 DEF OlderAll

\* What is published reaches a queue of every instance.
LEMMA PublishKeeps ==
  ASSUME NEW S, NEW r \in S, queue \in [Instance -> Seq(S)], Publish(r)
  PROVE  queue' \in [Instance -> Seq(S)] /\ topic' \in Seq(S)
<1>1. <<r>> \in Seq(S) /\ \A q \in Seq(S) : Append(q, r) \in Seq(S)
  OBVIOUS
<1>2. QED
  BY <1>1 DEF Publish

-----------------------------------------------------------------------------
(* Types                                                                   *)

LEMMA TypeInit == Init => TypeOK
<1> SUFFICES ASSUME Init PROVE TypeOK
  OBVIOUS
<1>1. view \in [Instance -> Session] /\ draft \in [Instance -> Session]
  BY FreshType DEF Init
<1>2. queue \in [Instance -> Seq(Session)] /\ topic \in Seq(Session)
  <2>1. <<>> \in Seq(Session)
    OBVIOUS
  <2>2. QED
    BY <2>1 DEF Init
<1>3. sinceTick \in [Instance -> Nat] /\ sinceStart \in [Instance -> Nat] /\ asleep \in [Instance -> Nat]
  BY Times DEF Init
<1>4. pc \in [Instance -> Place]
  BY DEF Init, Place
<1>5. overslept \in BOOLEAN
  BY Zenon DEF Init
<1>6. QED
  BY <1>1, <1>2, <1>3, <1>4, <1>5 DEF Init, TypeOK

LEMMA GotoType ==
  ASSUME TypeOK, NEW i \in Instance, NEW p \in Place, Goto(i, p)
  PROVE  pc' \in [Instance -> Place]
BY DEF TypeOK, Goto

LEMMA TickerType ==
  ASSUME TypeOK, NEW i \in Instance, OnElectionTick(i)
  PROVE  sinceTick' \in [Instance -> Nat]
BY DEF TypeOK, OnElectionTick

LEMMA PublishAndApplyTypes ==
  ASSUME TypeOK, NEW i \in Instance, NEW r \in Session, PublishAndApply(i, r),
         sinceTick' \in [Instance -> Nat]
  PROVE  TypeOK'
<1>1. queue' \in [Instance -> Seq(Session)] /\ topic' \in Seq(Session)
  BY PublishKeeps DEF PublishAndApply, TypeOK
<1>2. draft' \in [Instance -> Session]
  BY DEF PublishAndApply, TypeOK
<1>3. pc' \in [Instance -> Place]
  BY GotoType DEF PublishAndApply, Place
<1>4. UNCHANGED <<up, view, active, sent, sinceStart, asleep, counts, overslept, led>>
  BY DEF PublishAndApply
<1>5. QED
  BY <1>1, <1>2, <1>3, <1>4 DEF TypeOK, counts

LEMMA ViewBeat ==
  ASSUME TypeOK, NEW i \in Instance
  PROVE  /\ view[i] \in Session /\ view[i].epoch \in Nat
         /\ Beat(view[i], i, view[i].epoch) \in Session
         /\ Beat(view[i], i, view[i].epoch + 1) \in Session
         /\ Beat(view[i], i, view[i].epoch).over = view[i].over
         /\ Beat(view[i], i, view[i].epoch + 1).over = view[i].over
<1>1. view[i] \in Session
  BY DEF TypeOK
<1>2. view[i].epoch \in Nat /\ view[i].epoch + 1 \in Nat
  BY <1>1 DEF Session
<1>3. QED
  BY <1>1, <1>2, BeatType

LEMMA ElectionTypes ==
  ASSUME TypeOK, NEW i \in Instance,
         Bootstrap(i) \/ Heartbeat(i) \/ StepDown(i) \/ StartRuntime(i) \/ Claim(i) \/ StandBy(i)
  PROVE  TypeOK'
<1>1. ASSUME Bootstrap(i) PROVE TypeOK'
  <2>1. sinceTick' = sinceTick
    BY <1>1 DEF Bootstrap
  <2>2. CASE PublishAndApply(i, Beat(view[i], i, view[i].epoch + 1))
    <3>1. sinceTick' \in [Instance -> Nat]
      BY <2>1 DEF TypeOK
    <3>2. QED
      BY <2>2, <3>1, ViewBeat, PublishAndApplyTypes
  <2>3. CASE /\ Goto(i, "idle")
             /\ UNCHANGED <<up, view, active, sent, draft, queue, topic, sinceStart, asleep, counts, overslept, led>>
    <3>1. pc' \in [Instance -> Place]
      BY <2>3, GotoType DEF Place
    <3>2. QED
      BY <2>1, <2>3, <3>1 DEF TypeOK, counts
  <2>4. QED
    BY <1>1, <2>2, <2>3 DEF Bootstrap
<1>2. ASSUME Heartbeat(i) \/ Claim(i) PROVE TypeOK'
  <2>1. sinceTick' \in [Instance -> Nat]
    BY <1>2, TickerType DEF Heartbeat, Claim
  <2>2. \/ PublishAndApply(i, Beat(view[i], i, view[i].epoch))
        \/ PublishAndApply(i, Beat(view[i], i, view[i].epoch + 1))
    BY <1>2 DEF Heartbeat, Claim
  <2>3. QED
    BY <2>1, <2>2, ViewBeat, PublishAndApplyTypes
<1>3. ASSUME StepDown(i) \/ StandBy(i) PROVE TypeOK'
  <2>1. sinceTick' \in [Instance -> Nat]
    BY <1>3, TickerType DEF StepDown, StandBy
  <2>2. active' \in [Instance -> BOOLEAN] /\ sent' \in [Instance -> BOOLEAN]
    BY <1>3 DEF StepDown, StandBy, TypeOK
  <2>3. UNCHANGED <<up, view, pc, draft, queue, topic, sinceStart, asleep, counts, overslept, led>>
    BY <1>3 DEF StepDown, StandBy
  <2>4. QED
    BY <2>1, <2>2, <2>3 DEF TypeOK, counts
<1>4. ASSUME StartRuntime(i) PROVE TypeOK'
  <2>1. sinceTick' \in [Instance -> Nat]
    BY <1>4, TickerType DEF StartRuntime
  <2>2. active' \in [Instance -> BOOLEAN] /\ led' \subseteq Instance \X Nat
    <3>1. active' \in [Instance -> BOOLEAN]
      BY <1>4 DEF StartRuntime, TypeOK
    <3>2. <<i, view[i].epoch>> \in Instance \X Nat
      BY ViewBeat
    <3>3. led' = led \cup {<<i, view[i].epoch>>} /\ led \subseteq Instance \X Nat
      BY <1>4 DEF StartRuntime, TypeOK
    <3>4. QED
      BY <3>1, <3>2, <3>3
  <2>3. UNCHANGED <<up, view, sent, pc, draft, queue, topic, sinceStart, asleep, counts, overslept>>
    BY <1>4 DEF StartRuntime
  <2>4. QED
    BY <2>1, <2>2, <2>3 DEF TypeOK, counts
<1>5. QED
  BY <1>1, <1>2, <1>3, <1>4

LEMMA SessionTypes ==
  ASSUME TypeOK, NEW i \in Instance, ApplyOwn(i) \/ Deliver(i) \/ CacheUpdate(i)
  PROVE  TypeOK'
<1>1. view' \in [Instance -> Session]
  <2>1. CASE ApplyOwn(i)
    <3>1. view' = [view EXCEPT ![i] = [draft[i] EXCEPT !.over = view[i].over]]
      BY <2>1 DEF ApplyOwn
    <3>2. draft[i] \in Session /\ view[i].over \in BOOLEAN
      BY DEF TypeOK, Session
    <3>3. [draft[i] EXCEPT !.over = view[i].over] \in Session
      BY <3>2 DEF Session
    <3>4. QED
      BY <3>1, <3>3 DEF TypeOK
  <2>2. CASE Deliver(i)
    <3>1. queue[i] \in Seq(Session) /\ queue[i] # <<>> /\ view' = [view EXCEPT ![i] = Head(queue[i])]
      BY <2>2 DEF Deliver, TypeOK
    <3>2. Head(queue[i]) \in Session
      BY <3>1, HeadTailProperties
    <3>3. QED
      BY <3>1, <3>2 DEF TypeOK
  <2>3. CASE CacheUpdate(i)
    BY <2>3 DEF CacheUpdate, TypeOK
  <2>4. QED
    BY <2>1, <2>2, <2>3
<1>2. queue' \in [Instance -> Seq(Session)]
  <2>1. CASE Deliver(i)
    <3>1. queue[i] \in Seq(Session) /\ queue[i] # <<>> /\ queue' = [queue EXCEPT ![i] = Tail(queue[i])]
      BY <2>1 DEF Deliver, TypeOK
    <3>2. Tail(queue[i]) \in Seq(Session)
      BY <3>1, HeadTailProperties
    <3>3. QED
      BY <3>1, <3>2 DEF TypeOK
  <2>2. CASE ApplyOwn(i) \/ CacheUpdate(i)
    BY <2>2 DEF ApplyOwn, CacheUpdate, TypeOK
  <2>3. QED
    BY <2>1, <2>2
<1>3. pc' \in [Instance -> Place]
  <2>1. Goto(i, "idle") \/ UNCHANGED pc
    BY DEF ApplyOwn, Deliver, CacheUpdate
  <2>2. QED
    BY <2>1, GotoType DEF Place, TypeOK
<1>4. UNCHANGED <<up, active, sent, draft, topic, timers, counts, overslept, led>>
  BY DEF ApplyOwn, Deliver, CacheUpdate
<1>5. QED
  BY <1>1, <1>2, <1>3, <1>4 DEF TypeOK, timers, counts

LEMMA NextTurnTypes ==
  ASSUME TypeOK, NEW i \in Instance, NextTurn(i)
  PROVE  TypeOK'
<1> DEFINE after == [view[i] EXCEPT !.turn = @ + 1]
<1>1. view[i] \in Session /\ view[i].turn + 1 \in Nat
  BY DEF TypeOK, Session
<1>2. after \in Session
  BY <1>1 DEF Session
<1>3. draft' = [draft EXCEPT ![i] = after]
  BY DEF NextTurn
<1> HIDE DEF after
<1>4. draft' \in [Instance -> Session]
  BY <1>2, <1>3 DEF TypeOK
<1>5. pc' \in [Instance -> Place]
  BY GotoType DEF NextTurn, Place
<1>6. UNCHANGED <<up, view, active, sent, queue, topic, timers, counts, overslept, led>>
  BY DEF NextTurn
<1>7. QED
  BY <1>4, <1>5, <1>6 DEF TypeOK, timers, counts

\* The record of the next turn names its publisher and the turn it has closed.
LEMMA TurnRecord ==
  ASSUME TypeOK, NEW i \in Instance
  PROVE  LET r == [Beat(view[i], i, view[i].epoch) EXCEPT !.turn = draft[i].turn]
         IN  r \in Session /\ r.leader = i /\ r.epoch = view[i].epoch /\ r.age = 0
<1> DEFINE b == Beat(view[i], i, view[i].epoch)
           t == draft[i].turn
           r == [b EXCEPT !.turn = t]
<1>1. b \in Session /\ draft[i] \in Session
  BY ViewBeat DEF TypeOK
<1>2. t \in Nat
  BY <1>1 DEF Session
<1>3. b.leader = i /\ b.epoch = view[i].epoch /\ b.age = 0
  BY ViewBeat DEF Beat, Session
<1> HIDE DEF b, t
<1>4. r \in Session /\ r.leader = i /\ r.epoch = view[i].epoch /\ r.age = 0
  BY <1>1, <1>2, <1>3 DEF Session
<1>5. QED
  BY <1>4 DEF b, t

LEMMA PublishTurnTypes ==
  ASSUME TypeOK, NEW i \in Instance, PublishTurn(i)
  PROVE  TypeOK'
<1> DEFINE r == [Beat(view[i], i, view[i].epoch) EXCEPT !.turn = draft[i].turn]
<1>1. r \in Session
  BY TurnRecord
<1>2. Publish(r)
  BY DEF PublishTurn
<1> HIDE DEF r
<1>3. queue' \in [Instance -> Seq(Session)] /\ topic' \in Seq(Session)
  BY <1>1, <1>2, PublishKeeps DEF TypeOK
<1>4. pc' \in [Instance -> Place]
  BY GotoType DEF PublishTurn, Place
<1>5. UNCHANGED <<up, view, active, sent, draft, timers, counts, overslept, led>>
  BY DEF PublishTurn
<1>6. QED
  BY <1>3, <1>4, <1>5 DEF TypeOK, timers, counts

LEMMA DecideTypes ==
  ASSUME TypeOK, NEW i \in Instance, Decide(i)
  PROVE  TypeOK'
<1> DEFINE after == [view[i] EXCEPT !.turn = @ + 1, !.over = TRUE]
<1>1. view[i] \in Session /\ view[i].turn + 1 \in Nat
  BY DEF TypeOK, Session
<1>2. after \in Session
  BY <1>1 DEF Session
<1>3. draft' = [draft EXCEPT ![i] = after]
  BY DEF Decide
<1> HIDE DEF after
<1>4. draft' \in [Instance -> Session]
  BY <1>2, <1>3 DEF TypeOK
<1>5. pc' \in [Instance -> Place]
  BY GotoType DEF Decide, Place
<1>6. sent' \in [Instance -> BOOLEAN]
  BY DEF Decide, TypeOK
<1>7. asleep' \in [Instance -> Nat] /\ decisions' \in Nat
  BY DEF Decide, TypeOK
<1>8. UNCHANGED <<up, view, active, queue, topic, sinceTick, sinceStart, announced, crashes, returned,
                  deployment, overslept, led>>
  BY DEF Decide
<1>9. QED
  BY <1>4, <1>5, <1>6, <1>7, <1>8 DEF TypeOK

LEMMA AnnounceTypes ==
  ASSUME TypeOK, NEW i \in Instance, Announce(i)
  PROVE  TypeOK'
<1>1. PICK n \in Announcements : announced' = announced + n
  BY DEF Announce
<1>2. n \in {0, 1, 2}
  BY CountAssumption
<1>3. announced' \in Nat
  BY <1>1, <1>2 DEF TypeOK
<1>4. pc' \in [Instance -> Place]
  BY GotoType DEF Announce, Place
<1>5. UNCHANGED <<up, view, active, sent, draft, queue, topic, timers, decisions, crashes, returned,
                  deployment, overslept, led>>
  BY DEF Announce
<1>6. QED
  BY <1>3, <1>4, <1>5 DEF TypeOK, timers

LEMMA PublishOverTypes ==
  ASSUME TypeOK, NEW i \in Instance, draft[i].turn > 0, PublishOver(i)
  PROVE  TypeOK'
<1> DEFINE b == Beat(view[i], i, view[i].epoch)
           t == draft[i].turn - 1
           r == [b EXCEPT !.over = TRUE, !.turn = t]
<1>1. draft[i] \in Session
  BY DEF TypeOK
<1>2. draft[i].turn \in Nat
  BY <1>1 DEF Session
<1>3. t \in Nat
  BY <1>2
<1>4. b \in Session
  BY ViewBeat
<1>5. Publish(r)
  BY DEF PublishOver
<1> HIDE DEF b, t
<1>6. r \in Session
  BY <1>3, <1>4 DEF Session
<1> HIDE DEF r
<1>7. queue' \in [Instance -> Seq(Session)] /\ topic' \in Seq(Session)
  BY <1>5, <1>6, PublishKeeps DEF TypeOK
<1>8. pc' \in [Instance -> Place]
  BY GotoType DEF PublishOver, Place
<1>9. UNCHANGED <<up, view, active, sent, draft, timers, counts, overslept, led>>
  BY DEF PublishOver
<1>10. QED
  BY <1>7, <1>8, <1>9 DEF TypeOK, timers, counts

\* What is left for a crashed instance.
LEMMA CrashQueue ==
  ASSUME NEW S, NEW i \in Instance, queue \in [Instance -> Seq(S)], topic \in Seq(S), Crash(i)
  PROVE  queue' \in [Instance -> Seq(S)] /\ topic' \in Seq(S)
<1>1. PICK rest \in IF queue[i] = <<>> THEN {<<>>, topic} ELSE {topic} : queue' = [queue EXCEPT ![i] = rest]
  BY DEF Crash
<1>2. <<>> \in Seq(S)
  OBVIOUS
<1>3. rest \in Seq(S)
  BY <1>1, <1>2
<1>4. topic' = topic
  BY DEF Crash
<1>5. QED
  BY <1>1, <1>3, <1>4

LEMMA CrashTypes ==
  ASSUME TypeOK, NEW i \in Instance, Crash(i) \/ Restart(i)
  PROVE  TypeOK'
<1>1. CASE Crash(i)
  <2>1. queue' \in [Instance -> Seq(Session)] /\ topic' \in Seq(Session)
    BY <1>1, CrashQueue DEF TypeOK
  <2>2. view' \in [Instance -> Session] /\ draft' \in [Instance -> Session]
    BY <1>1, FreshType DEF Crash, TypeOK
  <2>3. pc' \in [Instance -> Place]
    BY <1>1, GotoType DEF Crash, Place
  <2>4. /\ up' \in [Instance -> BOOLEAN] /\ active' \in [Instance -> BOOLEAN]
        /\ sent' \in [Instance -> BOOLEAN]
    BY <1>1 DEF Crash, TypeOK
  <2>5. /\ sinceTick' \in [Instance -> Nat] /\ sinceStart' \in [Instance -> Nat]
        /\ asleep' \in [Instance -> Nat] /\ crashes' \in Nat
    BY <1>1 DEF Crash, TypeOK
  <2>6. UNCHANGED <<announced, decisions, returned, deployment, overslept, led>>
    BY <1>1 DEF Crash
  <2>7. QED
    BY <2>1, <2>2, <2>3, <2>4, <2>5, <2>6 DEF TypeOK
<1>2. CASE Restart(i)
  <2>1. up' \in [Instance -> BOOLEAN] /\ returned' \subseteq Instance
    BY <1>2 DEF Restart, TypeOK
  <2>2. UNCHANGED <<view, active, sent, pc, draft, queue, topic, timers, announced, decisions, crashes,
                    deployment, overslept, led>>
    BY <1>2 DEF Restart
  <2>3. QED
    BY <2>1, <2>2 DEF TypeOK, timers
<1>3. QED
  BY <1>1, <1>2

LEMMA TickTypes ==
  ASSUME TypeOK, Tick
  PROVE  TypeOK'
<1>1. view' \in [Instance -> Session] /\ draft' \in [Instance -> Session]
  BY OlderType DEF Tick, TypeOK
<1>2. queue' \in [Instance -> Seq(Session)] /\ topic' \in Seq(Session)
  <2>1. \A q \in Seq(Session) : OlderAll(q) \in Seq(Session)
    BY OlderAllType
  <2>2. QED
    BY <2>1 DEF Tick, TypeOK
<1>3. /\ sinceTick' \in [Instance -> Nat] /\ sinceStart' \in [Instance -> Nat]
      /\ asleep' \in [Instance -> Nat]
  <2>1. \A cap, n \in Nat : Capped(n, cap) \in Nat
    BY DEF Capped
  <2>2. sinceTick' \in [Instance -> Nat]
    BY <2>1, Times DEF Tick, TypeOK
  <2>3. sinceStart' \in [Instance -> Nat]
    BY <2>1, Times DEF Tick, TypeOK
  <2>4. asleep' \in [Instance -> Nat]
    BY DEF Tick, TypeOK
  <2>5. QED
    BY <2>2, <2>3, <2>4
<1>4. UNCHANGED <<up, active, sent, pc, counts, led>> /\ overslept' \in BOOLEAN
  BY DEF Tick
<1>5. QED
  BY <1>1, <1>2, <1>3, <1>4 DEF TypeOK, counts

-----------------------------------------------------------------------------
(* The end of a game is one of its turns.                                  *)

\* The end of a game is decided after some turn.
DecidedInv == \A i \in Instance : pc[i] \in {"pause", "announced"} => draft[i].turn > 0

LEMMA DecidedInit == Init => DecidedInv
BY DEF Init, DecidedInv

\* The places of the other instances are their own.
LEMMA GotoElsewhere ==
  ASSUME TypeOK, NEW i \in Instance, NEW p, Goto(i, p)
  PROVE  pc'[i] = p /\ \A j \in Instance \ {i} : pc'[j] = pc[j]
BY DEF TypeOK, Goto

LEMMA DecidedStep ==
  ASSUME TypeOK, DecidedInv, [Next]_vars
  PROVE  DecidedInv'
<1>1. ASSUME NEW i \in Instance, NEW r, PublishAndApply(i, r)
      PROVE  DecidedInv'
  <2>1. draft' = [draft EXCEPT ![i] = r] /\ Goto(i, "publish")
    BY <1>1 DEF PublishAndApply
  <2>2. pc'[i] = "publish" /\ \A j \in Instance \ {i} : pc'[j] = pc[j] /\ draft'[j] = draft[j]
    BY <2>1, GotoElsewhere DEF TypeOK
  <2>3. QED
    BY <2>2 DEF DecidedInv
<1>2. ASSUME NEW i \in Instance, NEW p, p \notin {"pause", "announced"}, Goto(i, p),
             \A j \in Instance \ {i} : draft'[j] = draft[j]
      PROVE  DecidedInv'
  BY <1>2, GotoElsewhere DEF DecidedInv
<1>3. CASE UNCHANGED <<pc, draft>>
  BY <1>3 DEF DecidedInv
<1>4. ASSUME NEW i \in Instance, Step(i)
      PROVE  DecidedInv'
  <2>1. CASE Bootstrap(i)
    <3>1. \/ PublishAndApply(i, Beat(view[i], i, view[i].epoch + 1))
          \/ Goto(i, "idle") /\ UNCHANGED draft
      BY <2>1 DEF Bootstrap
    <3>2. QED
      BY <3>1, <1>1, <1>2
  <2>2. CASE Heartbeat(i) \/ Claim(i)
    BY <2>2, <1>1 DEF Heartbeat, Claim
  <2>3. CASE StepDown(i) \/ StartRuntime(i) \/ StandBy(i) \/ Deliver(i)
    BY <2>3, <1>3 DEF StepDown, StartRuntime, StandBy, Deliver
  <2>4. CASE ApplyOwn(i) \/ CacheUpdate(i)
    BY <2>4, <1>2 DEF ApplyOwn, CacheUpdate
  <2>5. CASE PublishOver(i) \/ PublishTurn(i)
    BY <2>5, <1>2 DEF PublishOver, PublishTurn
  <2>6. CASE Announce(i)
    <3>1. Goto(i, "announced") /\ UNCHANGED draft /\ pc[i] = "pause"
      BY <2>6 DEF Announce, At
    <3>2. QED
      BY <3>1, GotoElsewhere DEF DecidedInv
  <2>7. QED
    BY <1>4, <2>1, <2>2, <2>3, <2>4, <2>5, <2>6 DEF Step
<1>5. ASSUME NEW i \in Instance, NextTurn(i)
      PROVE  DecidedInv'
  <2>1. Goto(i, "turn") /\ \A j \in Instance \ {i} : draft'[j] = draft[j]
    BY <1>5 DEF NextTurn, TypeOK
  <2>2. QED
    BY <2>1, <1>2
<1>6. ASSUME NEW i \in Instance, Decide(i)
      PROVE  DecidedInv'
  <2>1. view[i] \in Session /\ draft \in [Instance -> Session]
    BY DEF TypeOK
  <2>2. draft'[i].turn = view[i].turn + 1 /\ \A j \in Instance \ {i} : draft'[j] = draft[j]
    BY <1>6, <2>1 DEF Decide, Session
  <2>3. draft'[i].turn > 0
    BY <2>1, <2>2 DEF Session
  <2>4. Goto(i, "pause")
    BY <1>6 DEF Decide
  <2>5. QED
    BY <2>2, <2>3, <2>4, GotoElsewhere DEF DecidedInv
<1>7. ASSUME NEW i \in Instance, Crash(i)
      PROVE  DecidedInv'
  <2>1. Goto(i, "boot") /\ \A j \in Instance \ {i} : draft'[j] = draft[j]
    BY <1>7 DEF Crash, TypeOK
  <2>2. QED
    BY <2>1, <1>2
<1>8. ASSUME NEW i \in Instance, Restart(i)
      PROVE  DecidedInv'
  BY <1>3, <1>8 DEF Restart
<1>9. CASE Tick
  <2>1. UNCHANGED pc /\ \A i \in Instance : draft'[i] = Older(draft[i]) /\ draft[i] \in Session
    BY <1>9 DEF Tick, TypeOK
  <2>2. \A i \in Instance : draft'[i].turn = draft[i].turn
    BY <2>1, OlderType
  <2>3. QED
    BY <2>1, <2>2 DEF DecidedInv
<1>10. CASE UNCHANGED vars
  BY <1>3, <1>10 DEF vars
<1>11. QED
  BY <1>4, <1>5, <1>6, <1>7, <1>8, <1>9, <1>10 DEF Next

LEMMA TypeStep ==
  ASSUME TypeOK, DecidedInv, [Next]_vars
  PROVE  TypeOK'
<1>1. ASSUME NEW i \in Instance, Step(i)
      PROVE  TypeOK'
  <2>1. CASE PublishOver(i)
    <3>1. draft[i].turn > 0
      BY <2>1 DEF PublishOver, At, DecidedInv
    <3>2. QED
      BY <2>1, <3>1, PublishOverTypes
  <2>2. QED
    BY <1>1, <2>1, ElectionTypes, SessionTypes, PublishTurnTypes, AnnounceTypes DEF Step
<1>2. ASSUME NEW i \in Instance, NextTurn(i) \/ Decide(i) \/ Crash(i) \/ Restart(i)
      PROVE  TypeOK'
  BY <1>2, NextTurnTypes, DecideTypes, CrashTypes
<1>3. CASE UNCHANGED vars
  BY <1>3 DEF vars, timers, counts, TypeOK
<1>4. QED
  BY <1>1, <1>2, <1>3, TickTypes DEF Next

LEMMA Typed == Spec => [](TypeOK /\ DecidedInv)
BY TypeInit, DecidedInit, TypeStep, DecidedStep, PTL DEF Spec

\* Sessions, records and timers keep their shape through crashes, restarts and compaction; the
\* last turn of a game is one that was played.
THEOREM TypeCorrect == Spec => []TypeOK
BY Typed, PTL

-----------------------------------------------------------------------------
(* The lease.  The session topic is in one of three conditions: nobody has *)
(* claimed yet (Silent); one instance is named by the last record and by   *)
(* every record on its way, and what the others know is recent (Led); or   *)
(* no engine runs and claims compete, at most Lag apart (Contest).         *)

\* The longest time between two records of a leader that has not overslept: a nap may fall
\* between two ticks.
Room == 2 * ElectionPeriod + Nap

\* A record arrives before half a period has passed and after its publisher's own update, the
\* timeout is longer than two periods and the delay, and an instance that has crashed stays away.
LeaseConditions ==
  /\ Preferred \in Instance
  /\ ~Overtaking
  /\ 2 * Lag < ElectionPeriod
  /\ 2 * ElectionPeriod + Lag <= Timeout
  /\ \A d \in Deployments : d.restartable = {}

Index(j) == 1 .. Len(queue[j])

\* Records arrive in their order, and the last one is what compaction keeps.
Queued(j) ==
  /\ \A k \in Index(j) : queue[j][k].age <= Lag /\ queue[j][k].leader # Nobody
  /\ \A k, l \in Index(j) : k <= l => queue[j][l].age <= queue[j][k].age
  /\ queue[j] # <<>> => topic # <<>> /\ queue[j][Len(queue[j])] = topic[1]

UpToDate(j) ==
  queue[j] = <<>> /\ topic # <<>> /\ ~active[j] =>
    /\ view[j].leader = topic[1].leader
    /\ view[j].epoch = topic[1].epoch
    /\ view[j].age = topic[1].age

Placed(j) ==
  /\ active[j] \/ pc[j] \in {"boot", "idle", "publish"}
  /\ pc[j] = "publish" =>
       /\ draft[j].leader = j /\ draft[j].age = 0
       /\ \E k \in Index(j) : queue[j][k] = draft[j]
  /\ pc[j] \in {"pause", "announced"} => asleep[j] <= Nap

Coherent ==
  /\ topic # <<>> => Len(topic) = 1 /\ topic[1].leader # Nobody
  /\ \A j \in Instance : (active[j] => up[j]) /\ sinceTick[j] <= ElectionPeriod
  /\ \A j \in Instance : up[j] => Queued(j) /\ UpToDate(j) /\ Placed(j)

\* A record is on its way, and what the cache holds is not yet stale when it arrives.
Expecting(c) ==
  /\ queue[c] # <<>>
  /\ \/ view[c].leader # Nobody /\ view[c].age <= Room + queue[c][1].age
     \/ c # Preferred /\ sinceStart[c] <= queue[c][1].age

Silent ==
  /\ topic = <<>> /\ led = {}
  /\ \A j \in Instance : up[j] =>
       ~active[j] /\ view[j].leader = Nobody /\ pc[j] \in {"boot", "idle"} /\ queue[j] = <<>>
  /\ up[Preferred] => pc[Preferred] = "boot" /\ \A j \in Instance : sinceStart[j] = 0

\* How old the last record of a leader may be.
Slack(i) ==
  IF active[i] THEN ElectionPeriod + sinceTick[i] + (IF pc[i] \in {"pause", "announced"} THEN asleep[i] ELSE 0)
  ELSE sinceTick[i]

\* The session names the leader and the epoch that the topic names.
Titled(s) == s.leader = topic[1].leader /\ s.epoch = topic[1].epoch

Follower(c) ==
  /\ ~active[c] /\ pc[c] \in {"boot", "idle"} /\ (c = Preferred => pc[c] # "boot")
  /\ view[c].leader # c
  /\ queue[c] = <<>> \/ Expecting(c)

Led(i) ==
  /\ up[i] /\ topic # <<>> /\ topic[1].leader = i
  /\ \A j \in Instance : up[j] => \A k \in Index(j) : Titled(queue[j][k])
  /\ pc[i] # "boot"
  /\ pc[i] # "publish" => Titled(view[i])
  /\ pc[i] \in {"publish", "turn", "update", "pause", "announced"} => Titled(draft[i])
  /\ topic[1].age <= Slack(i)
  /\ \A l \in led : l[2] < topic[1].epoch \/ l = <<i, topic[1].epoch>>
  /\ \A c \in Instance \ {i} : up[c] => Follower(c)

Claimant(j) ==
  up[j] /\ (view[j].leader = j \/ pc[j] = "publish" \/ \E k \in Index(j) : queue[j][k].leader = j)

\* The claim of j, made sinceTick[j] ago, is known to c or on its way.
Informed(j, c) ==
  \/ \E k \in Index(c) : queue[c][k].age = sinceTick[j]
  \/ /\ view[c].leader # Nobody /\ view[c].age <= sinceTick[j]
     /\ \A k \in Index(c) : queue[c][k].age <= sinceTick[j]

Past(n) == \A l \in led : l[2] <= n

Rival(j) ==
  /\ topic[1].leader = j => topic[1].age = sinceTick[j] /\ \A l \in led : l[2] < topic[1].epoch
  /\ \A k \in Index(j) : IF queue[j][k].leader = j THEN queue[j][k].age = sinceTick[j]
                         ELSE sinceTick[j] <= queue[j][k].age + Lag
  /\ \A c \in Instance \ {j} : up[c] => Informed(j, c)

Contest ==
  /\ topic # <<>> /\ Past(topic[1].epoch)
  /\ up[Preferred] => pc[Preferred] # "boot"
  /\ \A c \in Instance : ~active[c]
  /\ \A c \in Instance : up[c] =>
       (Expecting(c) \/ Past(view[c].epoch)) /\ \A k \in Index(c) : Past(queue[c][k].epoch)
  /\ \A j \in Instance : Claimant(j) => Rival(j)

LeaseInv ==
  /\ Coherent
  /\ Silent \/ Contest \/ \E i \in Instance : Led(i)
  /\ \A a, b \in led : a[2] = b[2] => a[1] = b[1]

-----------------------------------------------------------------------------
LEMMA Numbers ==
  /\ Timeout \in Nat /\ ElectionPeriod \in Nat /\ Lag \in Nat
  /\ Nap \in Int /\ Room \in Int /\ Room + Lag = Timeout /\ Room = 2 * ElectionPeriod + Nap
  /\ LeaseConditions => Nap \in Nat /\ Room \in Nat
BY TimeAssumption DEF Room, Nap, LeaseConditions

LEMMA Fields == \A s \in Session : s.age \in Nat /\ s.epoch \in Nat
BY DEF Session

LEMMA Records ==
  ASSUME TypeOK, NEW j \in Instance
  PROVE  /\ view[j] \in Session /\ draft[j] \in Session
         /\ queue[j] \in Seq(Session) /\ Len(queue[j]) \in Nat
         /\ queue[j] = <<>> <=> Len(queue[j]) = 0
         /\ \A k \in Index(j) : queue[j][k] \in Session
         /\ queue[j] # <<>> => 1 \in Index(j) /\ Len(queue[j]) \in Index(j)
         /\ sinceTick[j] \in Nat /\ sinceStart[j] \in Nat /\ asleep[j] \in Nat
<1>1. /\ view[j] \in Session /\ draft[j] \in Session /\ queue[j] \in Seq(Session)
      /\ sinceTick[j] \in Nat /\ sinceStart[j] \in Nat /\ asleep[j] \in Nat
  BY DEF TypeOK
<1>2. Len(queue[j]) \in Nat /\ \A k \in Index(j) : queue[j][k] \in Session
  BY <1>1 DEF Index
<1>3. queue[j] = <<>> <=> Len(queue[j]) = 0
  BY <1>1, EmptySeq
<1>4. queue[j] # <<>> => 1 \in Index(j) /\ Len(queue[j]) \in Index(j)
  BY <1>2, <1>3 DEF Index
<1>5. QED
  BY <1>1, <1>2, <1>3, <1>4

LEMMA LastRecord ==
  ASSUME TypeOK, topic # <<>>
  PROVE  topic[1] \in Session /\ topic[1].age \in Nat /\ topic[1].epoch \in Nat
<1>1. topic \in Seq(Session) /\ Len(topic) # 0 /\ Len(topic) \in Nat
  BY EmptySeq DEF TypeOK
<1>2. topic[1] \in Session
  BY <1>1
<1>3. QED
  BY <1>2, Fields

\* What a publication does to the topic and to the queue of a running instance.
LEMMA Grows ==
  ASSUME TypeOK, NEW r \in Session, Publish(r), NEW j \in Instance, up[j]
  PROVE  /\ topic' # <<>> /\ Len(topic') = 1 /\ topic'[1] = r
         /\ Len(queue'[j]) = Len(queue[j]) + 1 /\ queue'[j] # <<>>
         /\ \A k \in Index(j) : k \in Index(j)' /\ queue'[j][k] = queue[j][k]
         /\ \A k \in Index(j)' : k \in Index(j) \/ k = Len(queue[j]) + 1
         /\ Len(queue[j]) + 1 \in Index(j)' /\ queue'[j][Len(queue[j]) + 1] = r
<1>1. queue'[j] = Append(queue[j], r) /\ topic' = <<r>>
  BY DEF Publish
<1>2. queue[j] \in Seq(Session) /\ Len(queue[j]) \in Nat
  BY Records
<1>3. /\ Len(queue'[j]) = Len(queue[j]) + 1
      /\ \A k \in 1 .. Len(queue[j]) : queue'[j][k] = queue[j][k]
      /\ queue'[j][Len(queue[j]) + 1] = r
  BY <1>1, <1>2, AppendProperties
<1>4. queue'[j] \in Seq(Session)
  BY <1>1, <1>2, AppendProperties
<1>5. queue'[j] # <<>>
  BY <1>2, <1>3, <1>4, EmptySeq
<1>6. topic' # <<>> /\ Len(topic') = 1 /\ topic'[1] = r
  BY <1>1
<1>7. QED
  BY <1>2, <1>3, <1>5, <1>6 DEF Index

LEMMA CoherentPublish ==
  ASSUME TypeOK, Coherent, NEW i \in Instance, up[i], NEW r \in Session, r.age = 0, r.leader # Nobody,
         Publish(r), UNCHANGED <<up, view, active, asleep>>,
         \A j \in Instance \ {i} : pc'[j] = pc[j] /\ draft'[j] = draft[j],
         \/ pc'[i] = "publish" /\ draft'[i] = r /\ r.leader = i
         \/ pc'[i] = "update" /\ active[i],
         \A j \in Instance : sinceTick'[j] <= ElectionPeriod
  PROVE  Coherent'
<1>1. topic' # <<>> /\ Len(topic') = 1 /\ topic'[1] = r
  BY Grows
<1>2. ASSUME NEW j \in Instance, up[j]
      PROVE  Queued(j)'
  <2> DEFINE n == Len(queue[j])
  <2>1. Queued(j) /\ n \in Nat /\ Len(queue'[j]) = n + 1
    BY <1>2, Records, Grows DEF Coherent
  <2>2. /\ \A k \in Index(j) : k \in Index(j)' /\ queue'[j][k] = queue[j][k]
        /\ \A k \in Index(j)' : k \in Index(j) \/ k = n + 1
        /\ queue'[j][n + 1] = r
    BY <1>2, Grows
  <2>3. \A k \in Index(j) : queue[j][k].age \in Nat /\ k <= n
    BY Records, Fields DEF Index
  <2>4. \A k \in Index(j)' : queue'[j][k].age <= Lag /\ queue'[j][k].leader # Nobody
    BY <2>1, <2>2, Numbers DEF Queued
  <2>5. \A k \in Index(j) : queue'[j][k].age >= 0
    BY <2>2, <2>3
  <2>6. \A k, l \in Index(j) : k <= l => queue'[j][l].age <= queue'[j][k].age
    BY <2>1, <2>2 DEF Queued
  <2>7. \A k \in Index(j) : ~(n + 1 <= k)
    BY <2>1 DEF Index
  <2>8. queue'[j][n + 1].age = 0
    BY <2>2
  <2>9. \A k, l \in Index(j)' : k <= l => queue'[j][l].age <= queue'[j][k].age
    BY <2>2, <2>5, <2>6, <2>7, <2>8
  <2>10. QED
    BY <1>1, <2>1, <2>2, <2>4, <2>9 DEF Queued
<1>3. ASSUME NEW j \in Instance, up[j]
      PROVE  UpToDate(j)'
  BY <1>3, Grows DEF UpToDate
<1>4. ASSUME NEW j \in Instance, up[j]
      PROVE  Placed(j)'
  <2>1. CASE j = i
    BY <1>4, <2>1, Grows DEF Placed
  <2>2. CASE j # i
    <3>1. Placed(j) /\ pc'[j] = pc[j] /\ draft'[j] = draft[j] /\ UNCHANGED <<active, asleep>>
      BY <1>4, <2>2 DEF Coherent
    <3>2. \A k \in Index(j) : k \in Index(j)' /\ queue'[j][k] = queue[j][k]
      BY <1>4, Grows
    <3>3. QED
      BY <3>1, <3>2 DEF Placed
  <2>3. QED
    BY <2>1, <2>2
<1>5. QED
  BY <1>1, <1>2, <1>3, <1>4 DEF Coherent

\* Steps that send and apply no record.
LEMMA CoherentQuiet ==
  ASSUME Coherent, NEW i \in Instance, up[i], UNCHANGED <<up, view, queue, topic>>,
         \A j \in Instance \ {i} : /\ pc'[j] = pc[j] /\ draft'[j] = draft[j] /\ asleep'[j] = asleep[j]
                                   /\ active'[j] = active[j],
         active[i] => active'[i], Placed(i)',
         \A j \in Instance : sinceTick'[j] <= ElectionPeriod
  PROVE  Coherent'
<1>1. ASSUME NEW j \in Instance, up[j]
      PROVE  Queued(j)'
  BY <1>1 DEF Coherent, Queued, Index
<1>2. ASSUME NEW j \in Instance, up[j]
      PROVE  UpToDate(j)'
  <2>1. UpToDate(j) /\ (active[j] => active'[j])
    BY <1>2 DEF Coherent
  <2>2. QED
    BY <2>1 DEF UpToDate
<1>3. ASSUME NEW j \in Instance, up[j], j # i
      PROVE  Placed(j)'
  BY <1>3 DEF Coherent, Placed, Index
<1>4. QED
  BY <1>1, <1>2, <1>3 DEF Coherent

\* After a publication or a turn the cache holds what was written.
LEMMA CoherentApply ==
  ASSUME TypeOK, Coherent, NEW i \in Instance, up[i], UNCHANGED <<up, queue, topic, draft, active, timers>>,
         \A j \in Instance \ {i} : pc'[j] = pc[j] /\ view'[j] = view[j],
         pc'[i] = "idle", active[i] \/ pc[i] = "publish"
  PROVE  Coherent'
<1>1. ASSUME NEW j \in Instance, up[j]
      PROVE  Queued(j)'
  BY <1>1 DEF Coherent, Queued, Index
<1>2. ASSUME NEW j \in Instance, up[j]
      PROVE  UpToDate(j)'
  <2>1. CASE j # i
    BY <1>2, <2>1 DEF Coherent, UpToDate
  <2>2. CASE j = i
    <3>1. pc[i] = "publish" => Index(i) # {}
      BY DEF Coherent, Placed
    <3>2. pc[i] = "publish" => queue[i] # <<>>
      BY <3>1, Records DEF Index
    <3>3. QED
      BY <2>2, <3>2 DEF UpToDate
  <2>3. QED
    BY <2>1, <2>2
<1>3. ASSUME NEW j \in Instance, up[j]
      PROVE  Placed(j)'
  BY <1>3 DEF Coherent, Placed, Index, timers
<1>4. QED
  BY <1>1, <1>2, <1>3 DEF Coherent, timers

\* What a delivery takes from the queue.
LEMMA Shrinks ==
  ASSUME TypeOK, NEW i \in Instance, Deliver(i)
  PROVE  /\ 1 \in Index(i) /\ view'[i] = queue[i][1]
         /\ Len(queue'[i]) = Len(queue[i]) - 1 /\ queue'[i] \in Seq(Session)
         /\ \A k \in Index(i)' : k + 1 \in Index(i) /\ queue'[i][k] = queue[i][k + 1]
         /\ \A k \in Index(i) : k = 1 \/ (k - 1 \in Index(i)' /\ queue'[i][k - 1] = queue[i][k])
         /\ \A j \in Instance \ {i} : view'[j] = view[j] /\ queue'[j] = queue[j]
<1>1. /\ queue[i] # <<>> /\ view'[i] = Head(queue[i]) /\ queue'[i] = Tail(queue[i])
      /\ \A j \in Instance \ {i} : view'[j] = view[j] /\ queue'[j] = queue[j]
  BY DEF Deliver, TypeOK
<1>2. queue[i] \in Seq(Session) /\ Len(queue[i]) \in Nat /\ 1 \in Index(i)
  BY <1>1, Records
<1>3. Head(queue[i]) = queue[i][1]
  BY <1>2
<1>4. /\ Tail(queue[i]) \in Seq(Session) /\ Len(Tail(queue[i])) = Len(queue[i]) - 1
      /\ \A k \in 1 .. Len(Tail(queue[i])) : Tail(queue[i])[k] = queue[i][k + 1]
  BY <1>1, <1>2, HeadTailProperties
<1>5. \A k \in Index(i)' : k + 1 \in Index(i) /\ queue'[i][k] = queue[i][k + 1]
  BY <1>1, <1>2, <1>4 DEF Index
<1>6. \A k \in Index(i) : k = 1 \/ (k - 1 \in Index(i)' /\ queue'[i][k - 1] = queue[i][k])
  <2>1. \A k \in Index(i) : k = 1 \/ k - 1 \in Index(i)'
    BY <1>1, <1>2, <1>4 DEF Index
  <2>2. \A k \in Index(i) : k = 1 \/ queue'[i][k - 1] = queue[i][(k - 1) + 1]
    BY <1>5, <2>1
  <2>3. \A k \in Index(i) : (k - 1) + 1 = k
    BY DEF Index
  <2>4. QED
    BY <2>1, <2>2, <2>3
<1>7. QED
  BY <1>1, <1>2, <1>3, <1>4, <1>5, <1>6

LEMMA CoherentDeliver ==
  ASSUME TypeOK, Coherent, ~Overtaking, NEW i \in Instance, Deliver(i)
  PROVE  Coherent'
<1> DEFINE n == Len(queue[i])
<1>1. /\ UNCHANGED <<up, active, sent, pc, draft, topic, timers, counts, overslept, led>> /\ up[i]
      /\ ~(pc[i] = "publish" /\ queue[i][1] = draft[i])
  <2>1. queue[i] \in Seq(Session) /\ queue[i] # <<>>
    BY Records DEF Deliver
  <2>2. Head(queue[i]) = queue[i][1]
    BY <2>1
  <2>3. QED
    BY <2>2 DEF Deliver
<1>2. Queued(i) /\ Placed(i) /\ n \in Nat /\ n # 0
  BY <1>1, Records, Shrinks DEF Coherent
<1>3. Queued(i)'
  <2>1. /\ \A k \in Index(i)' : k + 1 \in Index(i) /\ queue'[i][k] = queue[i][k + 1]
        /\ \A k \in Index(i)' : k \in Nat
    BY Shrinks DEF Index
  <2>2. \A k \in Index(i)' : queue'[i][k].age <= Lag /\ queue'[i][k].leader # Nobody
    BY <1>2, <2>1 DEF Queued
  <2>3. \A k, l \in Index(i)' : k <= l => k + 1 <= l + 1
    BY <2>1
  <2>4. \A k, l \in Index(i)' : k <= l => queue'[i][l].age <= queue'[i][k].age
    BY <1>2, <2>1, <2>3 DEF Queued
  <2>5. ASSUME queue'[i] # <<>>
        PROVE  topic # <<>> /\ queue'[i][Len(queue'[i])] = topic[1]
    <3>1. queue'[i] \in Seq(Session) /\ Len(queue'[i]) = n - 1
      BY Shrinks
    <3>2. n - 1 # 0
      BY <2>5, <3>1, EmptySeq
    <3>3. n \in Index(i) /\ n # 1
      BY <1>2, <3>2 DEF Index
    <3>4. queue'[i][n - 1] = queue[i][n]
      BY <3>3, Shrinks
    <3>5. queue[i] # <<>>
      BY <1>2, Records
    <3>6. QED
      BY <1>2, <3>1, <3>4, <3>5 DEF Queued
  <2>6. QED
    BY <1>1, <2>2, <2>4, <2>5 DEF Queued
<1>4. UpToDate(i)'
  <2>1. SUFFICES ASSUME queue'[i] = <<>>, topic # <<>>
                 PROVE  view'[i] = topic[1]
    BY <1>1 DEF UpToDate
  <2>2. n = 1
    <3>1. n - 1 = 0
      BY <2>1, Shrinks, EmptySeq
    <3>2. QED
      BY <1>2, <3>1
  <2>3. queue[i] # <<>>
    BY <1>2, Records
  <2>4. QED
    BY <1>2, <2>2, <2>3, Shrinks DEF Queued
<1>5. Placed(i)'
  <2>1. ASSUME pc[i] = "publish"
        PROVE  \E k \in Index(i)' : queue'[i][k] = draft[i]
    <3>1. PICK k \in Index(i) : queue[i][k] = draft[i]
      BY <1>2, <2>1 DEF Placed
    <3>2. k # 1
      BY <1>1, <2>1, <3>1
    <3>3. QED
      BY <3>1, <3>2, Shrinks
  <2>2. QED
    BY <1>1, <1>2, <2>1 DEF Placed, timers
<1>6. ASSUME NEW j \in Instance \ {i}, up[j]
      PROVE  Queued(j)' /\ UpToDate(j)' /\ Placed(j)'
  <2>1. queue'[j] = queue[j] /\ view'[j] = view[j]
    BY Shrinks
  <2>2. Queued(j) /\ UpToDate(j) /\ Placed(j)
    BY <1>6 DEF Coherent
  <2>3. QED
    BY <1>1, <2>1, <2>2 DEF Queued, UpToDate, Placed, Index, timers
<1>7. QED
  BY <1>1, <1>3, <1>4, <1>5, <1>6 DEF Coherent, timers

LEMMA CoherentCrash ==
  ASSUME TypeOK, Coherent, NEW i \in Instance, Crash(i)
  PROVE  Coherent'
<1>1. /\ UNCHANGED <<topic, announced, returned, deployment, led>>
      /\ ~up'[i] /\ ~active'[i] /\ sinceTick'[i] = 0
      /\ \A j \in Instance \ {i} :
           /\ up'[j] = up[j] /\ active'[j] = active[j] /\ sent'[j] = sent[j] /\ view'[j] = view[j]
           /\ draft'[j] = draft[j] /\ queue'[j] = queue[j]
           /\ sinceTick'[j] = sinceTick[j] /\ asleep'[j] = asleep[j]
  BY DEF Crash, TypeOK
<1>2. \A j \in Instance \ {i} : pc'[j] = pc[j]
  BY GotoElsewhere DEF Crash
<1>3. ASSUME NEW j \in Instance \ {i}, up[j]
      PROVE  Queued(j)' /\ UpToDate(j)' /\ Placed(j)'
  BY <1>1, <1>2, <1>3 DEF Coherent, Queued, UpToDate, Placed, Index
<1>4. QED
  BY <1>1, <1>3, Numbers DEF Coherent

LEMMA OlderFields ==
  ASSUME NEW s \in Session
  PROVE  /\ Older(s).leader = s.leader /\ Older(s).epoch = s.epoch
         /\ Older(s).age = IF s.age < Timeout + 1 THEN s.age + 1 ELSE Timeout + 1
<1> DEFINE a == Capped(s.age, Timeout + 1)
<1>1. a = IF s.age < Timeout + 1 THEN s.age + 1 ELSE Timeout + 1
  BY DEF Capped
<1>2. Older(s) = [s EXCEPT !.age = a]
  BY DEF Older
<1> HIDE DEF a
<1>3. QED
  BY <1>1, <1>2 DEF Session

LEMMA OlderAllFields ==
  ASSUME NEW q \in Seq(Session)
  PROVE  /\ OlderAll(q) \in Seq(Session) /\ Len(OlderAll(q)) = Len(q) /\ (OlderAll(q) = <<>> <=> q = <<>>)
         /\ \A k \in 1 .. Len(q) : OlderAll(q)[k] = Older(q[k])
<1>1. OlderAll(q) \in Seq(Session)
  BY OlderAllType
<1>2. OlderAll(q) = [k \in DOMAIN q |-> Older(q[k])] /\ DOMAIN q = 1 .. Len(q) /\ Len(q) \in Nat
  BY DEF OlderAll
<1>3. DOMAIN OlderAll(q) = 1 .. Len(OlderAll(q)) /\ Len(OlderAll(q)) \in Nat
  BY <1>1
<1>4. Len(OlderAll(q)) = Len(q)
  BY <1>2, <1>3
<1>5. QED
  BY <1>1, <1>2, <1>4, EmptySeq

\* What a unit of time does to a running instance.
LEMMA Aging ==
  ASSUME TypeOK, Tick, NEW j \in Instance
  PROVE  /\ view'[j] = Older(view[j]) /\ draft'[j] = Older(draft[j])
         /\ Len(queue'[j]) = Len(queue[j]) /\ Index(j)' = Index(j) /\ (queue'[j] = <<>> <=> queue[j] = <<>>)
         /\ \A k \in Index(j) : queue'[j][k] = Older(queue[j][k])
         /\ up[j] =>
              /\ \/ pc[j] = "idle" /\ sinceTick[j] < ElectionPeriod /\ asleep'[j] = asleep[j]
                 \/ /\ pc[j] = "pause" /\ asleep'[j] = asleep[j] + 1
                    /\ ~overslept' => asleep[j] < Nap
              /\ sinceTick'[j] = IF sinceTick[j] < ElectionPeriod THEN sinceTick[j] + 1 ELSE ElectionPeriod
              /\ sinceStart'[j] = IF sinceStart[j] < Timeout THEN sinceStart[j] + 1 ELSE Timeout
              /\ queue[j] # <<>> => queue[j][1].age < Lag
<1>1. /\ view'[j] = Older(view[j]) /\ draft'[j] = Older(draft[j])
      /\ queue'[j] = OlderAll(queue[j]) /\ queue[j] \in Seq(Session)
  BY DEF Tick, TypeOK
<1>2. /\ Len(queue'[j]) = Len(queue[j]) /\ (queue'[j] = <<>> <=> queue[j] = <<>>)
      /\ \A k \in Index(j) : queue'[j][k] = Older(queue[j][k])
  BY <1>1, OlderAllFields DEF Index
<1>3. Index(j)' = Index(j)
  BY <1>2 DEF Index
<1>4. ASSUME up[j]
      PROVE  /\ \/ pc[j] = "idle" /\ sinceTick[j] < ElectionPeriod /\ asleep'[j] = asleep[j]
                \/ /\ pc[j] = "pause" /\ asleep'[j] = asleep[j] + 1
                   /\ ~overslept' => asleep[j] < Nap
             /\ sinceTick'[j] = IF sinceTick[j] < ElectionPeriod THEN sinceTick[j] + 1 ELSE ElectionPeriod
             /\ sinceStart'[j] = IF sinceStart[j] < Timeout THEN sinceStart[j] + 1 ELSE Timeout
             /\ queue[j] # <<>> => queue[j][1].age < Lag
  <2>1. MayWait(j)
    BY DEF Tick
  <2>2. \/ pc[j] = "idle" /\ sinceTick[j] < ElectionPeriod
        \/ pc[j] = "pause"
    BY <1>4, <2>1 DEF MayWait
  <2>3. queue[j] # <<>> => Head(queue[j]).age < Lag
    BY <1>4, <2>1 DEF MayWait
  <2>4. queue[j] # <<>> => Head(queue[j]) = queue[j][1]
    BY <1>1
  <2>5. /\ sinceTick'[j] = Capped(sinceTick[j], ElectionPeriod)
        /\ sinceStart'[j] = Capped(sinceStart[j], Timeout)
        /\ asleep'[j] = IF pc[j] = "pause" THEN asleep[j] + 1 ELSE asleep[j]
    BY <1>4 DEF Tick
  <2>6. pc[j] = "pause" /\ ~overslept' => asleep[j] < Nap
    <3>1. asleep[j] \in Nat
      BY Records
    <3>2. pc[j] = "pause" /\ ~overslept' => ~(asleep[j] >= Nap)
      BY DEF Tick, Oversleeps
    <3>3. QED
      BY <3>1, <3>2, Numbers
  <2>7. QED
    BY <2>2, <2>3, <2>4, <2>5, <2>6 DEF Capped
<1>5. QED
  BY <1>1, <1>2, <1>3, <1>4

LEMMA AgingTopic ==
  ASSUME TypeOK, Tick
  PROVE  /\ UNCHANGED <<up, active, sent, pc, counts, led>>
         /\ topic' # <<>> <=> topic # <<>>
         /\ topic # <<>> => Len(topic') = Len(topic) /\ topic'[1] = Older(topic[1])
<1>1. topic \in Seq(Session) /\ topic' = OlderAll(topic) /\ UNCHANGED <<up, active, sent, pc, counts, led>>
  BY DEF TypeOK, Tick
<1>2. topic # <<>> => 1 \in 1 .. Len(topic)
  <2>1. Len(topic) \in Nat /\ (topic # <<>> => Len(topic) # 0)
    BY <1>1, EmptySeq
  <2>2. QED
    BY <2>1
<1>3. QED
  BY <1>1, <1>2, OlderAllFields

\* What is on its way is younger than Lag before time passes.
LEMMA AgingRecords ==
  ASSUME TypeOK, Coherent, LeaseConditions, Tick, NEW j \in Instance, up[j], NEW k \in Index(j)
  PROVE  /\ queue[j][k].age \in Nat /\ queue[j][k].age < Lag /\ queue[j][k].age < Timeout
         /\ queue'[j][k].age = queue[j][k].age + 1
         /\ queue'[j][k].leader = queue[j][k].leader /\ queue'[j][k].epoch = queue[j][k].epoch
<1>1. Len(queue[j]) \in Nat /\ k \in 1 .. Len(queue[j])
  BY Records DEF Index
<1>2. 1 \in Index(j) /\ 1 <= k /\ queue[j] # <<>>
  BY <1>1, Records DEF Index
<1>3. queue[j][1] \in Session /\ queue[j][k] \in Session
  BY <1>2, Records
<1>4. queue[j][1].age \in Nat /\ queue[j][k].age \in Nat
  BY <1>3, Fields
<1>5. queue[j][k].age <= queue[j][1].age
  BY <1>2 DEF Coherent, Queued
<1>6. queue[j][1].age < Lag
  BY <1>2, Aging
<1>7. queue[j][k].age < Lag /\ queue[j][k].age < Timeout
  BY <1>4, <1>5, <1>6, Numbers DEF LeaseConditions, Room
<1>8. queue'[j][k] = Older(queue[j][k])
  BY Aging
<1>9. QED
  BY <1>3, <1>4, <1>7, <1>8, OlderFields, Numbers

LEMMA CoherentTick ==
  ASSUME TypeOK, Coherent, LeaseConditions, Tick, ~overslept'
  PROVE  Coherent'
<1>1. /\ UNCHANGED <<up, active, pc>>
      /\ topic' # <<>> <=> topic # <<>>
      /\ topic # <<>> => Len(topic') = Len(topic) /\ topic'[1] = Older(topic[1])
  BY AgingTopic
<1>2. topic # <<>> => topic'[1].leader = topic[1].leader
  BY <1>1, LastRecord, OlderFields
<1>3. ASSUME NEW j \in Instance
      PROVE  (active[j] => up[j]) /\ sinceTick'[j] <= ElectionPeriod
  <2>1. sinceTick'[j] = IF up[j] THEN Capped(sinceTick[j], ElectionPeriod) ELSE 0
    BY DEF Tick
  <2>2. QED
    BY <2>1, Records, Numbers DEF Coherent, Capped
<1>4. ASSUME NEW j \in Instance, up[j]
      PROVE  Queued(j)'
  <2>1. Queued(j) /\ Len(queue[j]) \in Nat
    BY <1>4, Records DEF Coherent
  <2>2. /\ Len(queue'[j]) = Len(queue[j]) /\ Index(j)' = Index(j) /\ (queue'[j] = <<>> <=> queue[j] = <<>>)
        /\ \A k \in Index(j) : queue'[j][k] = Older(queue[j][k])
    BY Aging
  <2>3. \A k \in Index(j) : /\ queue[j][k].age \in Nat /\ queue[j][k].age < Lag
                            /\ queue'[j][k].age = queue[j][k].age + 1
                            /\ queue'[j][k].leader = queue[j][k].leader
    BY <1>4, AgingRecords
  <2>4. \A k \in Index(j) : queue'[j][k].age <= Lag /\ queue'[j][k].leader # Nobody
    BY <2>1, <2>3, Numbers DEF Queued
  <2>5. \A k, l \in Index(j) : k <= l => queue'[j][l].age <= queue'[j][k].age
    BY <2>1, <2>3 DEF Queued
  <2>6. queue[j] # <<>> => queue'[j][Len(queue[j])] = Older(topic[1])
    BY <2>1, <2>2, Records DEF Queued
  <2>7. QED
    BY <1>1, <2>1, <2>2, <2>4, <2>5, <2>6 DEF Queued
<1>5. ASSUME NEW j \in Instance, up[j]
      PROVE  UpToDate(j)'
  <2>1. SUFFICES ASSUME queue'[j] = <<>>, topic' # <<>>, ~active[j]
                 PROVE  /\ view'[j].leader = topic'[1].leader
                        /\ view'[j].epoch = topic'[1].epoch
                        /\ view'[j].age = topic'[1].age
    BY <1>1 DEF UpToDate
  <2>2. queue[j] = <<>> /\ topic # <<>> /\ view'[j] = Older(view[j])
    BY <1>1, <2>1, Aging
  <2>3. view[j].leader = topic[1].leader /\ view[j].epoch = topic[1].epoch /\ view[j].age = topic[1].age
    BY <1>5, <2>1, <2>2 DEF Coherent, UpToDate
  <2>4. view[j] \in Session /\ topic[1] \in Session
    BY <2>2, Records, LastRecord
  <2>5. QED
    BY <1>1, <2>2, <2>3, <2>4, OlderFields
<1>6. ASSUME NEW j \in Instance, up[j]
      PROVE  Placed(j)'
  <2>1. \/ pc[j] = "idle"
        \/ pc[j] = "pause" /\ asleep[j] < Nap /\ asleep'[j] = asleep[j] + 1
    BY <1>6, Aging
  <2>2. asleep[j] \in Nat /\ Placed(j)
    BY <1>6, Records DEF Coherent
  <2>3. QED
    BY <1>1, <2>1, <2>2, Numbers DEF Placed
<1>7. QED
  BY <1>1, <1>2, <1>3, <1>4, <1>5, <1>6 DEF Coherent

\* i publishes the record r, and goes on to write its own cache.
Posts(i, r) ==
  /\ up[i] /\ r \in Session /\ r.age = 0 /\ r.leader = i /\ Publish(r)
  /\ UNCHANGED <<up, view, active, sent, sinceStart, asleep, counts, overslept, led>>
  /\ \A j \in Instance \ {i} : pc'[j] = pc[j] /\ draft'[j] = draft[j] /\ sinceTick'[j] = sinceTick[j]
  /\ sinceTick'[i] \in Nat /\ sinceTick'[i] <= ElectionPeriod
  /\ \/ pc'[i] = "publish" /\ draft'[i] = r
     \/ pc'[i] = "update" /\ active[i]

LEMMA BeatFields ==
  ASSUME NEW s \in Session, NEW i \in Instance, NEW e \in Nat
  PROVE  /\ Beat(s, i, e) \in Session
         /\ Beat(s, i, e).leader = i /\ Beat(s, i, e).epoch = e /\ Beat(s, i, e).age = 0
<1>1. Beat(s, i, e) = [s EXCEPT !.leader = i, !.epoch = e, !.age = 0]
  BY DEF Beat
<1>2. QED
  BY <1>1, BeatType DEF Session

LEMMA PublishAndApplyPosts ==
  ASSUME TypeOK, Coherent, NEW i \in Instance, NEW e \in Nat, up[i],
         PublishAndApply(i, Beat(view[i], i, e)),
         UNCHANGED sinceTick \/ sinceTick' = [sinceTick EXCEPT ![i] = 0]
  PROVE  /\ Posts(i, Beat(view[i], i, e))
         /\ pc'[i] = "publish" /\ draft'[i] = Beat(view[i], i, e)
<1> DEFINE r == Beat(view[i], i, e)
<1>1. view[i] \in Session
  BY Records
<1>2. r \in Session /\ r.leader = i /\ r.age = 0
  BY <1>1, BeatFields
<1>3. /\ Publish(r) /\ draft' = [draft EXCEPT ![i] = r] /\ Goto(i, "publish")
      /\ UNCHANGED <<up, view, active, sent, sinceStart, asleep, counts, overslept, led>>
  BY DEF PublishAndApply
<1> HIDE DEF r
<1>4. draft'[i] = r /\ \A j \in Instance \ {i} : draft'[j] = draft[j]
  BY <1>3 DEF TypeOK
<1>5. pc'[i] = "publish" /\ \A j \in Instance \ {i} : pc'[j] = pc[j]
  BY <1>3, GotoElsewhere
<1>6. sinceTick'[i] = sinceTick[i] \/ sinceTick'[i] = 0
  BY DEF TypeOK
<1>7. \A j \in Instance \ {i} : sinceTick'[j] = sinceTick[j]
  BY DEF TypeOK
<1>8. sinceTick'[i] \in Nat /\ sinceTick'[i] <= ElectionPeriod
  BY <1>6, Records, Numbers DEF Coherent
<1>9. Posts(i, r)
  BY <1>2, <1>3, <1>4, <1>5, <1>7, <1>8 DEF Posts
<1>10. QED
  BY <1>4, <1>5, <1>9 DEF r

LEMMA CoherentPosts ==
  ASSUME TypeOK, Coherent, NEW i \in Instance, NEW r, Posts(i, r)
  PROVE  Coherent'
<1>1. r \in Session /\ r.age = 0 /\ r.leader = i /\ r.leader # Nobody /\ Publish(r)
  BY InstanceAssumption DEF Posts
<1>2. \A j \in Instance : sinceTick'[j] <= ElectionPeriod
  BY DEF Posts, Coherent
<1>3. QED
  BY <1>1, <1>2, CoherentPublish DEF Posts

-----------------------------------------------------------------------------
(* Nobody has claimed yet.                                                 *)

\* Behind a first record every queue holds that record alone.
LEMMA FirstRecord ==
  ASSUME TypeOK, Silent, NEW i \in Instance, NEW r, Posts(i, r), NEW j \in Instance, up[j]
  PROVE  /\ topic' # <<>> /\ topic'[1] = r /\ queue'[j] # <<>>
         /\ 1 \in Index(j)' /\ queue'[j][1] = r /\ \A k \in Index(j)' : queue'[j][k] = r
<1>1. queue[j] = <<>> /\ r \in Session /\ Publish(r)
  BY DEF Silent, Posts
<1>2. Len(queue[j]) = 0 /\ Index(j) = {}
  BY <1>1, Records DEF Index
<1>3. QED
  BY <1>1, <1>2, Grows

LEMMA SilentBootstrap ==
  ASSUME TypeOK, LeaseConditions, Silent, NEW i \in Instance, NEW r, i = Preferred,
         Posts(i, r), pc'[i] = "publish", draft'[i] = r
  PROVE  Led(i)'
<1>1. up[i] /\ ~active'[i] /\ \A j \in Instance : sinceStart'[j] = 0
  BY DEF Silent, Posts
<1>2. topic' # <<>> /\ topic'[1] = r /\ r.leader = i /\ r.age = 0
  BY <1>1, FirstRecord DEF Posts
<1>3. \A j \in Instance : up'[j] => \A k \in Index(j)' : queue'[j][k] = r
  BY FirstRecord DEF Posts
<1>4. topic'[1].age <= Slack(i)'
  BY <1>1, <1>2 DEF Slack, Posts
<1>5. ASSUME NEW c \in Instance \ {i}, up[c]
      PROVE  Follower(c)'
  <2>1. ~active'[c] /\ pc'[c] \in {"boot", "idle"} /\ view'[c].leader # c
    BY <1>5, InstanceAssumption DEF Silent, Posts
  <2>2. queue'[c] # <<>> /\ queue'[c][1] = r
    BY <1>5, FirstRecord
  <2>3. sinceStart'[c] <= queue'[c][1].age
    BY <1>1, <1>2, <2>2
  <2>4. QED
    BY <2>1, <2>2, <2>3 DEF Follower, Expecting
<1>6. led' = {} /\ up' = up
  BY DEF Silent, Posts
<1>7. \A j \in Instance : up'[j] => \A k \in Index(j)' : Titled(queue[j][k])'
  BY <1>2, <1>3 DEF Titled
<1>8. Titled(draft[i])'
  BY <1>2 DEF Titled
<1>9. QED
  BY <1>1, <1>2, <1>4, <1>5, <1>6, <1>7, <1>8 DEF Led

LEMMA SilentClaim ==
  ASSUME TypeOK, Coherent, Silent, NEW i \in Instance, NEW r, ~up[Preferred],
         Posts(i, r), pc'[i] = "publish", draft'[i] = r, sinceTick'[i] = 0
  PROVE  Contest'
<1>1. up' = up /\ view' = view /\ active' = active /\ led' = {} /\ up[i]
  BY DEF Silent, Posts
<1>2. topic' # <<>> /\ topic'[1] = r /\ r.leader = i /\ r.age = 0
  BY <1>1, FirstRecord DEF Posts
<1>3. \A j \in Instance : ~active'[j]
  BY <1>1 DEF Silent, Coherent
<1>4. \A n : Past(n)'
  BY <1>1 DEF Past
<1>5. ASSUME NEW j \in Instance \ {i}
      PROVE  ~Claimant(j)'
  <2>1. SUFFICES ASSUME up[j]
                 PROVE  /\ view'[j].leader # j /\ pc'[j] # "publish"
                        /\ \A k \in Index(j)' : queue'[j][k].leader # j
    BY <1>1 DEF Claimant
  <2>2. view[j].leader = Nobody /\ pc'[j] # "publish"
    BY <2>1 DEF Silent, Posts
  <2>3. \A k \in Index(j)' : queue'[j][k] = r
    BY <2>1, FirstRecord
  <2>4. QED
    BY <1>1, <1>2, <2>2, <2>3, InstanceAssumption
<1>6. Rival(i)'
  <2>1. \A k \in Index(i)' : queue'[i][k] = r
    BY <1>1, FirstRecord
  <2>2. ASSUME NEW c \in Instance \ {i}, up[c]
        PROVE  Informed(i, c)'
    <3>1. 1 \in Index(c)' /\ queue'[c][1] = r
      BY <2>2, FirstRecord
    <3>2. QED
      BY <1>2, <3>1 DEF Informed
  <2>3. QED
    BY <1>1, <1>2, <2>1, <2>2 DEF Rival
<1>7. QED
  BY <1>1, <1>2, <1>3, <1>4, <1>5, <1>6 DEF Contest

-----------------------------------------------------------------------------
(* The steps, by what they do to the session.                              *)

\* i sends and applies no record.
Rests(i) ==
  /\ up[i] /\ UNCHANGED <<up, view, queue, topic, sinceStart>>
  /\ \A j \in Instance \ {i} :
       /\ pc'[j] = pc[j] /\ draft'[j] = draft[j] /\ active'[j] = active[j]
       /\ sinceTick'[j] = sinceTick[j] /\ asleep'[j] = asleep[j]
  /\ sinceTick'[i] \in {0, sinceTick[i]}

LEMMA CoherentRests ==
  ASSUME TypeOK, Coherent, NEW i \in Instance, Rests(i), active[i] => active'[i], Placed(i)'
  PROVE  Coherent'
<1>1. \A j \in Instance : sinceTick'[j] <= ElectionPeriod
  BY Numbers DEF Rests, Coherent
<1>2. QED
  BY <1>1, CoherentQuiet DEF Rests

LEMMA BootstrapMoves ==
  ASSUME TypeOK, Coherent, LeaseConditions, NEW i \in Instance, Bootstrap(i)
  PROVE  /\ pc[i] = "boot" /\ Coherent'
         /\ \/ /\ i = Preferred /\ view[i].leader = Nobody
               /\ \E r : Posts(i, r) /\ pc'[i] = "publish" /\ draft'[i] = r
            \/ /\ i # Preferred \/ view[i].leader # Nobody
               /\ Rests(i) /\ pc'[i] = "idle"
               /\ UNCHANGED <<active, sent, draft, sinceTick, asleep, counts, overslept, led>>
<1>1. up[i] /\ pc[i] = "boot" /\ UNCHANGED sinceTick
  BY DEF Bootstrap, At
<1>2. Preferred # Nobody
  BY InstanceAssumption DEF LeaseConditions
<1>3. CASE /\ Preferred \in {i, Nobody} /\ view[i].leader = Nobody
           /\ PublishAndApply(i, Beat(view[i], i, view[i].epoch + 1))
  <2>1. view[i].epoch + 1 \in Nat
    BY Records, Fields
  <2>2. Posts(i, Beat(view[i], i, view[i].epoch + 1)) /\ pc'[i] = "publish"
        /\ draft'[i] = Beat(view[i], i, view[i].epoch + 1)
    BY <1>1, <1>3, <2>1, PublishAndApplyPosts
  <2>3. Coherent'
    BY <2>2, CoherentPosts
  <2>4. QED
    BY <1>1, <1>2, <1>3, <2>2, <2>3
<1>4. CASE /\ Preferred \notin {i, Nobody} \/ view[i].leader # Nobody
           /\ Goto(i, "idle")
           /\ UNCHANGED <<up, view, active, sent, draft, queue, topic, sinceStart, asleep, counts, overslept, led>>
  <2>1. pc'[i] = "idle" /\ \A j \in Instance \ {i} : pc'[j] = pc[j]
    BY <1>4, GotoElsewhere
  <2>2. Rests(i)
    BY <1>1, <1>4, <2>1 DEF Rests
  <2>3. Placed(i)'
    BY <2>1 DEF Placed
  <2>4. Coherent'
    BY <1>4, <2>2, <2>3, CoherentRests
  <2>5. QED
    BY <1>1, <1>4, <2>1, <2>2, <2>4
<1>5. QED
  BY <1>3, <1>4 DEF Bootstrap

LEMMA TickerMoves ==
  ASSUME TypeOK, Coherent, NEW i \in Instance, OnElectionTick(i)
  PROVE  /\ up[i] /\ pc[i] = "idle" /\ sinceTick[i] = ElectionPeriod
         /\ sinceTick'[i] = 0 /\ \A j \in Instance \ {i} : sinceTick'[j] = sinceTick[j]
BY DEF OnElectionTick, At, TypeOK

LEMMA HeartbeatMoves ==
  ASSUME TypeOK, Coherent, NEW i \in Instance, Heartbeat(i)
  PROVE  /\ pc[i] = "idle" /\ active[i] /\ Coherent'
         /\ \E r : Posts(i, r) /\ r.epoch = view[i].epoch /\ pc'[i] = "publish" /\ draft'[i] = r
<1>1. /\ OnElectionTick(i) /\ active[i] /\ sinceTick' = [sinceTick EXCEPT ![i] = 0]
      /\ PublishAndApply(i, Beat(view[i], i, view[i].epoch))
  BY DEF Heartbeat, OnElectionTick
<1>2. up[i] /\ pc[i] = "idle"
  BY <1>1, TickerMoves
<1>3. view[i] \in Session /\ view[i].epoch \in Nat
  BY Records, Fields
<1>4. Posts(i, Beat(view[i], i, view[i].epoch)) /\ pc'[i] = "publish"
      /\ draft'[i] = Beat(view[i], i, view[i].epoch)
  BY <1>1, <1>2, <1>3, PublishAndApplyPosts
<1>5. Beat(view[i], i, view[i].epoch).epoch = view[i].epoch
  BY <1>3, BeatFields
<1>6. Coherent'
  BY <1>4, CoherentPosts
<1>7. QED
  BY <1>1, <1>2, <1>4, <1>5, <1>6

LEMMA ClaimMoves ==
  ASSUME TypeOK, Coherent, NEW i \in Instance, Claim(i)
  PROVE  /\ up[i] /\ pc[i] = "idle" /\ ~active[i] /\ MayClaim(i) /\ Coherent'
         /\ sinceTick[i] = ElectionPeriod /\ sinceTick'[i] = 0
         /\ \E r : Posts(i, r) /\ r.epoch = view[i].epoch + 1 /\ pc'[i] = "publish" /\ draft'[i] = r
<1>1. /\ OnElectionTick(i) /\ ~active[i] /\ MayClaim(i) /\ sinceTick' = [sinceTick EXCEPT ![i] = 0]
      /\ PublishAndApply(i, Beat(view[i], i, view[i].epoch + 1))
  BY DEF Claim, OnElectionTick
<1>2. up[i] /\ pc[i] = "idle" /\ sinceTick[i] = ElectionPeriod /\ sinceTick'[i] = 0
  BY <1>1, TickerMoves
<1>3. view[i] \in Session /\ view[i].epoch + 1 \in Nat
  BY Records, Fields
<1>4. Posts(i, Beat(view[i], i, view[i].epoch + 1)) /\ pc'[i] = "publish"
      /\ draft'[i] = Beat(view[i], i, view[i].epoch + 1)
  BY <1>1, <1>2, <1>3, PublishAndApplyPosts
<1>5. Beat(view[i], i, view[i].epoch + 1).epoch = view[i].epoch + 1
  BY <1>3, BeatFields
<1>6. Coherent'
  BY <1>4, CoherentPosts
<1>7. QED
  BY <1>1, <1>2, <1>4, <1>5, <1>6

LEMMA StartRuntimeMoves ==
  ASSUME TypeOK, Coherent, NEW i \in Instance, StartRuntime(i)
  PROVE  /\ Rests(i) /\ pc[i] = "idle" /\ ~active[i] /\ view[i].leader = i /\ Coherent'
         /\ sinceTick[i] = ElectionPeriod /\ sinceTick'[i] = 0 /\ active'[i]
         /\ led' = led \cup {<<i, view[i].epoch>>}
         /\ UNCHANGED <<pc, draft, sent, asleep, counts>>
<1>1. /\ OnElectionTick(i) /\ ~active[i] /\ view[i].leader = i
      /\ active' = [active EXCEPT ![i] = TRUE] /\ led' = led \cup {<<i, view[i].epoch>>}
      /\ UNCHANGED <<up, view, sent, pc, draft, queue, topic, sinceStart, asleep, counts, overslept>>
  BY DEF StartRuntime
<1>2. active'[i] /\ \A j \in Instance \ {i} : active'[j] = active[j]
  BY <1>1 DEF TypeOK
<1>3. /\ up[i] /\ pc[i] = "idle" /\ sinceTick[i] = ElectionPeriod
      /\ sinceTick'[i] = 0 /\ \A j \in Instance \ {i} : sinceTick'[j] = sinceTick[j]
  BY <1>1, TickerMoves
<1>4. Rests(i)
  BY <1>1, <1>2, <1>3 DEF Rests
<1>5. Placed(i)'
  BY <1>1, <1>2, <1>3 DEF Placed
<1>6. Coherent'
  BY <1>2, <1>4, <1>5, CoherentRests
<1>7. QED
  BY <1>1, <1>2, <1>3, <1>4, <1>6

LEMMA StandByMoves ==
  ASSUME TypeOK, Coherent, NEW i \in Instance, StandBy(i)
  PROVE  /\ Rests(i) /\ pc[i] = "idle" /\ ~active[i] /\ view[i].leader # i /\ Coherent'
         /\ sinceTick[i] = ElectionPeriod /\ sinceTick'[i] = 0
         /\ UNCHANGED <<active, pc, draft, sent, asleep, counts, overslept, led>>
<1>1. /\ OnElectionTick(i) /\ ~active[i] /\ view[i].leader # i
      /\ UNCHANGED <<up, view, active, sent, pc, draft, queue, topic, sinceStart, asleep, counts, overslept, led>>
  BY DEF StandBy
<1>2. /\ up[i] /\ pc[i] = "idle" /\ sinceTick[i] = ElectionPeriod
      /\ sinceTick'[i] = 0 /\ \A j \in Instance \ {i} : sinceTick'[j] = sinceTick[j]
  BY <1>1, TickerMoves
<1>3. Rests(i)
  BY <1>1, <1>2 DEF Rests
<1>4. Placed(i)'
  BY <1>1, <1>2 DEF Placed
<1>5. Coherent'
  BY <1>1, <1>3, <1>4, CoherentRests
<1>6. QED
  BY <1>1, <1>2, <1>3, <1>5

LEMMA NextTurnMoves ==
  ASSUME TypeOK, Coherent, NEW i \in Instance, NextTurn(i)
  PROVE  /\ Rests(i) /\ pc[i] = "idle" /\ active[i] /\ Coherent' /\ pc'[i] = "turn"
         /\ draft'[i].leader = view[i].leader /\ draft'[i].epoch = view[i].epoch
         /\ UNCHANGED <<active, timers, led>>
<1> DEFINE after == [view[i] EXCEPT !.turn = @ + 1]
<1>1. /\ up[i] /\ pc[i] = "idle" /\ active[i]
      /\ draft' = [draft EXCEPT ![i] = after] /\ Goto(i, "turn")
      /\ UNCHANGED <<up, view, active, sent, queue, topic, timers, counts, overslept, led>>
  BY DEF NextTurn, MayAdvance, At
<1>2. view[i] \in Session
  BY Records
<1>3. after.leader = view[i].leader /\ after.epoch = view[i].epoch
  BY <1>2 DEF Session
<1> HIDE DEF after
<1>4. draft'[i] = after /\ \A j \in Instance \ {i} : draft'[j] = draft[j]
  BY <1>1 DEF TypeOK
<1>5. pc'[i] = "turn" /\ \A j \in Instance \ {i} : pc'[j] = pc[j]
  BY <1>1, GotoElsewhere
<1>6. Rests(i)
  BY <1>1, <1>4, <1>5 DEF Rests, timers
<1>7. Placed(i)'
  BY <1>1, <1>5 DEF Placed
<1>8. Coherent'
  BY <1>1, <1>6, <1>7, CoherentRests DEF timers
<1>9. QED
  BY <1>1, <1>3, <1>4, <1>5, <1>6, <1>8

LEMMA PublishTurnMoves ==
  ASSUME TypeOK, Coherent, NEW i \in Instance, PublishTurn(i)
  PROVE  /\ pc[i] = "turn" /\ active[i] /\ Coherent' /\ UNCHANGED <<draft, timers>>
         /\ \E r : Posts(i, r) /\ r.epoch = view[i].epoch /\ pc'[i] = "update"
<1> DEFINE r == [Beat(view[i], i, view[i].epoch) EXCEPT !.turn = draft[i].turn]
<1>1. /\ up[i] /\ pc[i] = "turn" /\ Publish(r) /\ Goto(i, "update")
      /\ UNCHANGED <<up, view, active, sent, draft, timers, counts, overslept, led>>
  BY DEF PublishTurn, At
<1>2. r \in Session /\ r.leader = i /\ r.epoch = view[i].epoch /\ r.age = 0
  BY TurnRecord
<1> HIDE DEF r
<1>3. pc'[i] = "update" /\ \A j \in Instance \ {i} : pc'[j] = pc[j]
  BY <1>1, GotoElsewhere
<1>4. active[i]
  BY <1>1 DEF Coherent, Placed
<1>5. UNCHANGED <<sinceTick, sinceStart, asleep>> /\ sinceTick'[i] \in Nat /\ sinceTick'[i] <= ElectionPeriod
  BY <1>1, Records DEF Coherent, timers
<1>6. Posts(i, r)
  BY <1>1, <1>2, <1>3, <1>4, <1>5 DEF Posts
<1>7. Coherent'
  BY <1>6, CoherentPosts
<1>8. QED
  BY <1>1, <1>2, <1>3, <1>4, <1>6, <1>7

LEMMA DecideMoves ==
  ASSUME TypeOK, Coherent, LeaseConditions, NEW i \in Instance, Decide(i)
  PROVE  /\ Rests(i) /\ pc[i] = "idle" /\ active[i] /\ ~sent[i] /\ Coherent'
         /\ pc'[i] = "pause" /\ asleep'[i] = 0
         /\ draft'[i].leader = view[i].leader /\ draft'[i].epoch = view[i].epoch
         /\ sent' = [sent EXCEPT ![i] = TRUE]
         /\ UNCHANGED <<active, sinceTick, led>>
<1> DEFINE end == [view[i] EXCEPT !.turn = @ + 1, !.over = TRUE]
<1>1. /\ up[i] /\ pc[i] = "idle" /\ active[i] /\ ~sent[i]
      /\ draft' = [draft EXCEPT ![i] = end] /\ asleep' = [asleep EXCEPT ![i] = 0]
      /\ Goto(i, "pause") /\ sent' = [sent EXCEPT ![i] = TRUE]
      /\ UNCHANGED <<up, view, active, queue, topic, sinceTick, sinceStart, led>>
  BY DEF Decide, MayAdvance, At
<1>2. view[i] \in Session
  BY Records
<1>3. end.leader = view[i].leader /\ end.epoch = view[i].epoch
  BY <1>2 DEF Session
<1> HIDE DEF end
<1>4. draft'[i] = end /\ \A j \in Instance \ {i} : draft'[j] = draft[j]
  BY <1>1 DEF TypeOK
<1>5. pc'[i] = "pause" /\ \A j \in Instance \ {i} : pc'[j] = pc[j]
  BY <1>1, GotoElsewhere
<1>6. asleep'[i] = 0 /\ \A j \in Instance \ {i} : asleep'[j] = asleep[j]
  BY <1>1 DEF TypeOK
<1>7. Rests(i)
  BY <1>1, <1>4, <1>5, <1>6 DEF Rests
<1>8. Placed(i)'
  BY <1>1, <1>5, <1>6, Numbers DEF Placed
<1>9. Coherent'
  BY <1>1, <1>7, <1>8, CoherentRests
<1>10. QED
  BY <1>1, <1>3, <1>4, <1>5, <1>6, <1>7, <1>9

LEMMA AnnounceMoves ==
  ASSUME TypeOK, Coherent, NEW i \in Instance, Announce(i)
  PROVE  /\ Rests(i) /\ pc[i] = "pause" /\ active[i] /\ Coherent'
         /\ pc'[i] = "announced"
         /\ UNCHANGED <<active, sent, draft, timers, crashes, led>>
<1>1. /\ up[i] /\ pc[i] = "pause" /\ Goto(i, "announced")
      /\ UNCHANGED <<up, view, active, sent, draft, queue, topic, timers, crashes, led>>
  BY DEF Announce, At
<1>2. pc'[i] = "announced" /\ \A j \in Instance \ {i} : pc'[j] = pc[j]
  BY <1>1, GotoElsewhere
<1>3. active[i] /\ asleep[i] <= Nap
  BY <1>1 DEF Coherent, Placed
<1>4. Rests(i)
  BY <1>1, <1>2 DEF Rests, timers
<1>5. Placed(i)'
  BY <1>1, <1>2, <1>3 DEF Placed, timers
<1>6. Coherent'
  BY <1>1, <1>4, <1>5, CoherentRests
<1>7. QED
  BY <1>1, <1>2, <1>3, <1>4, <1>6

LEMMA PublishOverMoves ==
  ASSUME TypeOK, DecidedInv, Coherent, NEW i \in Instance, PublishOver(i)
  PROVE  /\ pc[i] = "announced" /\ active[i] /\ Coherent' /\ UNCHANGED <<draft, timers>>
         /\ \E r : Posts(i, r) /\ r.epoch = view[i].epoch /\ pc'[i] = "update"
<1> DEFINE b == Beat(view[i], i, view[i].epoch)
           t == draft[i].turn - 1
           r == [b EXCEPT !.over = TRUE, !.turn = t]
<1>1. /\ up[i] /\ pc[i] = "announced" /\ Publish(r) /\ Goto(i, "update")
      /\ UNCHANGED <<up, view, active, sent, draft, timers, counts, overslept, led>>
  BY DEF PublishOver, At
<1>2. view[i] \in Session /\ view[i].epoch \in Nat /\ draft[i] \in Session /\ draft[i].turn > 0
  BY <1>1, Records DEF Session, DecidedInv
<1>3. t \in Nat
  BY <1>2 DEF Session
<1>4. b \in Session /\ b.leader = i /\ b.epoch = view[i].epoch /\ b.age = 0
  BY <1>2, BeatFields
<1> HIDE DEF b, t
<1>5. r \in Session /\ r.leader = i /\ r.epoch = view[i].epoch /\ r.age = 0
  BY <1>3, <1>4 DEF Session
<1> HIDE DEF r
<1>6. pc'[i] = "update" /\ \A j \in Instance \ {i} : pc'[j] = pc[j]
  BY <1>1, GotoElsewhere
<1>7. active[i]
  BY <1>1 DEF Coherent, Placed
<1>8. UNCHANGED <<sinceTick, sinceStart, asleep>> /\ sinceTick'[i] \in Nat /\ sinceTick'[i] <= ElectionPeriod
  BY <1>1, Records DEF Coherent, timers
<1>9. Posts(i, r)
  BY <1>1, <1>5, <1>6, <1>7, <1>8 DEF Posts
<1>10. Coherent'
  BY <1>9, CoherentPosts
<1>11. QED
  BY <1>1, <1>5, <1>6, <1>7, <1>9, <1>10

LEMMA ApplyMoves ==
  ASSUME TypeOK, Coherent, NEW i \in Instance, ApplyOwn(i) \/ CacheUpdate(i)
  PROVE  /\ up[i] /\ pc[i] \in {"publish", "update"} /\ pc'[i] = "idle" /\ Coherent'
         /\ pc[i] = "update" => active[i]
         /\ view'[i].leader = draft[i].leader /\ view'[i].epoch = draft[i].epoch
         /\ view'[i].age = draft[i].age
         /\ \A j \in Instance \ {i} : pc'[j] = pc[j] /\ view'[j] = view[j]
         /\ UNCHANGED <<up, active, sent, draft, queue, topic, timers, counts, overslept, led>>
<1>1. /\ up[i] /\ pc[i] \in {"publish", "update"} /\ Goto(i, "idle")
      /\ UNCHANGED <<up, active, sent, draft, queue, topic, timers, counts, overslept, led>>
      /\ \/ view' = [view EXCEPT ![i] = [draft[i] EXCEPT !.over = view[i].over]]
         \/ view' = [view EXCEPT ![i] = draft[i]]
  BY DEF ApplyOwn, CacheUpdate, At
<1>2. draft[i] \in Session
  BY Records
<1>3. \A b : LET s == [draft[i] EXCEPT !.over = b]
             IN  s.leader = draft[i].leader /\ s.epoch = draft[i].epoch /\ s.age = draft[i].age
  BY <1>2 DEF Session
<1>4. /\ view'[i] = draft[i] \/ \E b : view'[i] = [draft[i] EXCEPT !.over = b]
      /\ \A j \in Instance \ {i} : view'[j] = view[j]
  BY <1>1 DEF TypeOK
<1>5. view'[i].leader = draft[i].leader /\ view'[i].epoch = draft[i].epoch /\ view'[i].age = draft[i].age
  BY <1>3, <1>4
<1>6. pc'[i] = "idle" /\ \A j \in Instance \ {i} : pc'[j] = pc[j]
  BY <1>1, GotoElsewhere
<1>7. active[i] \/ pc[i] = "publish"
  BY <1>1 DEF Coherent, Placed
<1>8. Coherent'
  BY <1>1, <1>4, <1>6, <1>7, CoherentApply
<1>9. QED
  BY <1>1, <1>4, <1>5, <1>6, <1>7, <1>8

LEMMA CrashMoves ==
  ASSUME TypeOK, Coherent, NEW i \in Instance, Crash(i)
  PROVE  /\ Coherent' /\ ~up'[i] /\ ~active'[i]
         /\ UNCHANGED <<topic, led>>
         /\ \A j \in Instance \ {i} :
              /\ up'[j] = up[j] /\ active'[j] = active[j] /\ view'[j] = view[j] /\ pc'[j] = pc[j]
              /\ draft'[j] = draft[j] /\ queue'[j] = queue[j] /\ asleep'[j] = asleep[j]
              /\ sinceTick'[j] = sinceTick[j] /\ sinceStart'[j] = sinceStart[j]
         /\ sinceStart'[i] = 0
<1>1. /\ ~up'[i] /\ ~active'[i] /\ UNCHANGED <<topic, led>> /\ sinceStart'[i] = 0
      /\ \A j \in Instance \ {i} :
           /\ up'[j] = up[j] /\ active'[j] = active[j] /\ view'[j] = view[j]
           /\ draft'[j] = draft[j] /\ queue'[j] = queue[j] /\ asleep'[j] = asleep[j]
           /\ sinceTick'[j] = sinceTick[j] /\ sinceStart'[j] = sinceStart[j]
  BY DEF Crash, TypeOK
<1>2. \A j \in Instance \ {i} : pc'[j] = pc[j]
  BY GotoElsewhere DEF Crash
<1>3. QED
  BY <1>1, <1>2, CoherentCrash

Regime == Silent \/ Contest \/ \E i \in Instance : Led(i)

LEMMA NoReturn ==
  ASSUME TypeOK, LeaseConditions, NEW i \in Instance
  PROVE  ~Restart(i)
BY DEF TypeOK, LeaseConditions, Restart

LEMMA SilentKept ==
  ASSUME Silent, UNCHANGED <<topic, led>>,
         \A j \in Instance : up'[j] => /\ up[j] /\ active'[j] = active[j] /\ pc'[j] \in {"boot", "idle"}
                                       /\ view'[j].leader = view[j].leader /\ queue'[j] = <<>>,
         up'[Preferred] => pc'[Preferred] = "boot" /\ \A j \in Instance : sinceStart'[j] = 0
  PROVE  Silent'
BY DEF Silent

LEMMA SilentElection ==
  ASSUME TypeOK, Coherent, LeaseConditions, Silent, NEW i \in Instance, Bootstrap(i) \/ Claim(i) \/ StandBy(i)
  PROVE  Coherent' /\ Regime' /\ led' = led
<1>1. Preferred \in Instance /\ Preferred # Nobody
  BY InstanceAssumption DEF LeaseConditions
<1>2. CASE Bootstrap(i)
  <2>1. Coherent' /\ pc[i] = "boot" /\ up[i]
    BY <1>2, BootstrapMoves DEF Bootstrap, At
  <2>2. CASE i = Preferred /\ \E r : Posts(i, r) /\ pc'[i] = "publish" /\ draft'[i] = r
    <3>1. Led(i)' /\ led' = led
      BY <2>2, SilentBootstrap DEF Posts
    <3>2. QED
      BY <2>1, <3>1 DEF Regime
  <2>3. CASE /\ i # Preferred \/ view[i].leader # Nobody
             /\ Rests(i) /\ pc'[i] = "idle"
             /\ UNCHANGED <<active, sent, draft, sinceTick, asleep, counts, overslept, led>>
    <3>1. i # Preferred
      BY <2>1, <2>3 DEF Silent
    <3>2. Silent'
      BY <1>1, <2>3, <3>1, SilentKept DEF Rests, Silent
    <3>3. QED
      BY <2>1, <2>3, <3>2 DEF Regime
  <2>4. QED
    BY <1>2, <2>2, <2>3, BootstrapMoves
<1>3. CASE Claim(i)
  <2>1. /\ up[i] /\ pc[i] = "idle" /\ MayClaim(i) /\ Coherent' /\ sinceTick'[i] = 0
        /\ \E r : Posts(i, r) /\ pc'[i] = "publish" /\ draft'[i] = r
    BY <1>3, ClaimMoves
  <2>2. ~up[Preferred]
    <3>1. SUFFICES ASSUME up[Preferred] PROVE FALSE
      OBVIOUS
    <3>2. i # Preferred /\ sinceStart[i] = 0
      BY <2>1, <3>1 DEF Silent
    <3>3. sinceStart[i] >= Timeout
      BY <1>1, <2>1, <3>2 DEF MayClaim, ClaimWindow
    <3>4. QED
      BY <3>2, <3>3, Numbers, TimeAssumption DEF LeaseConditions, Room
  <2>3. Contest' /\ led' = led
    BY <2>1, <2>2, SilentClaim DEF Posts
  <2>4. QED
    BY <2>1, <2>3 DEF Regime
<1>4. CASE StandBy(i)
  <2>1. /\ Rests(i) /\ Coherent'
        /\ UNCHANGED <<active, pc, draft, sent, asleep, counts, overslept, led>>
    BY <1>4, StandByMoves
  <2>2. Silent'
    BY <1>1, <2>1, SilentKept DEF Rests, Silent
  <2>3. QED
    BY <2>1, <2>2 DEF Regime
<1>5. QED
  BY <1>2, <1>3, <1>4

LEMMA SilentRest ==
  ASSUME TypeOK, Coherent, LeaseConditions, Silent, NEW i \in Instance
  PROVE  /\ ~Heartbeat(i) /\ ~StepDown(i) /\ ~StartRuntime(i) /\ ~NextTurn(i) /\ ~Decide(i)
         /\ ~ApplyOwn(i) /\ ~Deliver(i) /\ ~PublishTurn(i) /\ ~Announce(i) /\ ~PublishOver(i) /\ ~CacheUpdate(i)
<1>1. up[i] => ~active[i] /\ view[i].leader # i /\ pc[i] \in {"boot", "idle"} /\ queue[i] = <<>>
  BY InstanceAssumption DEF Silent
<1>2. ~Heartbeat(i) /\ ~StepDown(i) /\ ~StartRuntime(i) /\ ~NextTurn(i) /\ ~Decide(i)
  BY <1>1 DEF Heartbeat, StepDown, StartRuntime, NextTurn, Decide, OnElectionTick, MayAdvance, At
<1>3. ~ApplyOwn(i) /\ ~Deliver(i) /\ ~PublishTurn(i) /\ ~Announce(i) /\ ~PublishOver(i) /\ ~CacheUpdate(i)
  BY <1>1 DEF ApplyOwn, Deliver, PublishTurn, Announce, PublishOver, CacheUpdate, At
<1>4. QED
  BY <1>2, <1>3

LEMMA SilentCrash ==
  ASSUME TypeOK, Coherent, LeaseConditions, Silent, NEW i \in Instance, Crash(i)
  PROVE  Coherent' /\ Regime' /\ led' = led
<1>1. /\ Coherent' /\ ~up'[i] /\ UNCHANGED <<topic, led>> /\ sinceStart'[i] = 0
      /\ \A j \in Instance \ {i} :
            /\ up'[j] = up[j] /\ active'[j] = active[j] /\ view'[j] = view[j] /\ pc'[j] = pc[j]
            /\ queue'[j] = queue[j] /\ sinceStart'[j] = sinceStart[j]
  BY CrashMoves
<1>2. Silent'
  BY <1>1, SilentKept DEF Silent, LeaseConditions
<1>3. QED
  BY <1>1, <1>2 DEF Regime

LEMMA SilentTick ==
  ASSUME TypeOK, Coherent, LeaseConditions, Silent, Tick, ~overslept'
  PROVE  Coherent' /\ Regime' /\ led' = led
<1>1. UNCHANGED <<up, active, pc, led>> /\ topic' = <<>>
  BY AgingTopic DEF Silent
<1>2. \A j \in Instance : view'[j].leader = view[j].leader
  BY Aging, Records, OlderFields
<1>3. \A j \in Instance : up[j] => queue'[j] = <<>>
  BY Aging DEF Silent
<1>4. ~up[Preferred]
  BY Aging DEF Silent, LeaseConditions
<1>5. Silent'
  BY <1>1, <1>2, <1>3, <1>4, SilentKept DEF Silent
<1>6. QED
  BY <1>1, <1>5, CoherentTick DEF Regime

-----------------------------------------------------------------------------
(* One instance is named by the last record and by all that are on their way. *)

LEMMA LedFacts ==
  ASSUME TypeOK, Coherent, LeaseConditions, NEW i \in Instance, Led(i)
  PROVE  /\ topic[1] \in Session /\ topic[1].age \in Nat /\ topic[1].epoch \in Nat
         /\ Slack(i) \in Nat /\ Slack(i) <= Room /\ topic[1].age <= Room
<1>1. topic[1] \in Session /\ topic[1].age \in Nat /\ topic[1].epoch \in Nat
  BY LastRecord DEF Led
<1>2. /\ sinceTick[i] \in Nat /\ asleep[i] \in Nat /\ sinceTick[i] <= ElectionPeriod
      /\ pc[i] \in {"pause", "announced"} => asleep[i] <= Nap
  BY Records DEF Coherent, Placed, Led
<1>3. Slack(i) \in Nat /\ Slack(i) <= Room
  BY <1>2, Numbers DEF Slack, Room
<1>4. topic[1].age <= Slack(i)
  BY DEF Led
<1>5. QED
  BY <1>1, <1>3, <1>4, Numbers

\* A follower knows a record, or awaits one, that is too recent to claim over.
LEMMA FollowersWait ==
  ASSUME TypeOK, Coherent, LeaseConditions, NEW c \in Instance, up[c], Expecting(c)
  PROVE  ~MayClaim(c)
<1>1. queue[c] # <<>> /\ 1 \in Index(c)
  BY Records DEF Expecting
<1>2. queue[c][1].age \in Nat /\ queue[c][1].age <= Lag
  BY <1>1, Records, Fields DEF Coherent, Queued
<1>3. view[c].age \in Nat /\ sinceStart[c] \in Nat
  BY Records, Fields
<1>4. Preferred # Nobody
  BY InstanceAssumption DEF LeaseConditions
<1>5. CASE view[c].leader # Nobody /\ view[c].age <= Room + queue[c][1].age
  <2>1. view[c].age <= Timeout
    BY <1>2, <1>3, <1>5, Numbers DEF LeaseConditions
  <2>2. QED
    BY <1>3, <1>5, <2>1, Numbers DEF MayClaim, Stale
<1>6. CASE c # Preferred /\ sinceStart[c] <= queue[c][1].age
  <2>1. ~(sinceStart[c] >= Timeout)
    BY <1>2, <1>3, <1>6, Numbers DEF LeaseConditions, Room
  <2>2. QED
    BY <1>4, <1>6, <2>1 DEF MayClaim, ClaimWindow
<1>7. QED
  BY <1>5, <1>6 DEF Expecting

LEMMA LedNoClaim ==
  ASSUME TypeOK, Coherent, LeaseConditions, NEW i \in Instance, Led(i), NEW c \in Instance
  PROVE  ~Claim(c)
<1>1. SUFFICES ASSUME Claim(c) PROVE FALSE
  OBVIOUS
<1>2. up[c] /\ pc[c] = "idle" /\ ~active[c] /\ MayClaim(c)
  BY <1>1, ClaimMoves
<1>3. c # i
  BY <1>2 DEF Led, Titled, MayClaim
<1>4. Follower(c) /\ topic # <<>>
  BY <1>2, <1>3 DEF Led
<1>5. queue[c] = <<>>
  BY <1>2, <1>4, FollowersWait DEF Follower
<1>6. view[c].leader = topic[1].leader /\ view[c].age = topic[1].age /\ topic[1].leader # Nobody
  BY <1>2, <1>4, <1>5 DEF Coherent, UpToDate
<1>7. topic[1].age \in Nat /\ topic[1].age <= Timeout
  BY LedFacts, Numbers DEF LeaseConditions
<1>8. QED
  BY <1>2, <1>6, <1>7, Numbers DEF MayClaim, Stale

LEMMA LedPosts ==
  ASSUME TypeOK, Coherent, LeaseConditions, NEW i \in Instance, Led(i), NEW r, Posts(i, r),
         r.epoch = view[i].epoch, pc[i] \in {"idle", "turn", "announced"},
         draft'[i].leader = i /\ draft'[i].epoch = view[i].epoch, pc'[i] \in {"publish", "update"}
  PROVE  Led(i)' /\ led' = led
<1>1. /\ up[i] /\ UNCHANGED <<up, view, active, sinceStart, led>> /\ r \in Session /\ Publish(r)
      /\ r.leader = i /\ r.age = 0
      /\ \A j \in Instance \ {i} : pc'[j] = pc[j]
  BY DEF Posts
<1>2. topic' # <<>> /\ topic'[1] = r
  BY <1>1, Grows
<1>3. view[i].leader = i /\ view[i].epoch = topic[1].epoch /\ topic[1].leader = i /\ r.epoch = topic[1].epoch
  BY DEF Led, Titled
<1>4. ASSUME NEW j \in Instance, up[j]
      PROVE  \A k \in Index(j)' : Titled(queue[j][k])'
  <2>1. /\ \A k \in Index(j)' : k \in Index(j) \/ k = Len(queue[j]) + 1
        /\ \A k \in Index(j) : queue'[j][k] = queue[j][k]
        /\ queue'[j][Len(queue[j]) + 1] = r
    BY <1>1, <1>4, Grows
  <2>2. \A k \in Index(j) : queue[j][k].leader = i /\ queue[j][k].epoch = topic[1].epoch
    BY <1>3, <1>4 DEF Led, Titled
  <2>3. QED
    BY <1>1, <1>2, <1>3, <2>1, <2>2 DEF Titled
<1>5. Titled(view[i])' /\ Titled(draft[i])'
  BY <1>1, <1>2, <1>3 DEF Titled
<1>6. topic'[1].age <= Slack(i)'
  <2>1. sinceTick'[i] \in Nat /\ asleep'[i] = asleep[i] /\ asleep[i] \in Nat
    BY Records DEF Posts
  <2>2. Slack(i)' >= 0
    BY <2>1, Numbers DEF Slack
  <2>3. QED
    BY <1>1, <1>2, <2>2
<1>7. \A l \in led' : l[2] < topic'[1].epoch \/ l = <<i, topic'[1].epoch>>
  BY <1>1, <1>2, <1>3 DEF Led
<1>8. ASSUME NEW c \in Instance \ {i}, up[c]
      PROVE  Follower(c)'
  <2>1. Follower(c) /\ topic # <<>>
    BY <1>8 DEF Led
  <2>2. /\ queue'[c] # <<>> /\ 1 \in Index(c)'
        /\ queue[c] # <<>> => queue'[c][1] = queue[c][1]
        /\ queue[c] = <<>> => queue'[c][1] = r
    <3>1. Len(queue[c]) \in Nat /\ (queue[c] = <<>> <=> Len(queue[c]) = 0) /\ (queue[c] # <<>> => 1 \in Index(c))
      BY Records
    <3>2. /\ queue'[c] # <<>> /\ Len(queue'[c]) = Len(queue[c]) + 1
          /\ \A k \in Index(c) : k \in Index(c)' /\ queue'[c][k] = queue[c][k]
          /\ queue'[c][Len(queue[c]) + 1] = r
      BY <1>1, <1>8, Grows
    <3>3. queue[c] = <<>> => Len(queue[c]) + 1 = 1
      BY <3>1
    <3>4. 1 \in Index(c)'
      BY <3>1, <3>2 DEF Index
    <3>5. QED
      BY <3>1, <3>2, <3>3, <3>4
  <2>3. Expecting(c)'
    <3>1. CASE queue[c] # <<>>
      BY <1>1, <2>1, <2>2, <3>1 DEF Follower, Expecting
    <3>2. CASE queue[c] = <<>>
      <4>1. view[c].leader # Nobody /\ view[c].age = topic[1].age
        BY <1>3, <1>8, <2>1, <3>2, InstanceAssumption DEF Coherent, UpToDate, Follower
      <4>2. view[c].age <= Room + 0
        BY <4>1, LedFacts, Numbers
      <4>3. QED
        BY <1>1, <2>2, <3>2, <4>1, <4>2 DEF Expecting
    <3>3. QED
      BY <3>1, <3>2
  <2>4. QED
    BY <1>1, <2>1, <2>3 DEF Follower
<1>9. QED
  BY <1>1, <1>2, <1>4, <1>5, <1>6, <1>7, <1>8 DEF Led

\* The leader moves on without a record.
LEMMA LedRests ==
  ASSUME TypeOK, NEW i \in Instance, Led(i), Rests(i), pc[i] \in {"idle", "pause"},
         pc'[i] \in {"idle", "turn", "pause", "announced"},
         pc'[i] \in {"turn", "pause", "announced"} => Titled(draft'[i]),
         topic[1].age <= Slack(i)',
         \A l \in led' : l[2] < topic[1].epoch \/ l = <<i, topic[1].epoch>>
  PROVE  Led(i)'
<1>1. /\ UNCHANGED <<up, view, queue, topic, sinceStart>>
      /\ \A j \in Instance \ {i} : pc'[j] = pc[j] /\ active'[j] = active[j]
  BY DEF Rests
<1>2. \A j \in Instance : Index(j)' = Index(j)
  BY <1>1 DEF Index
<1>3. \A s : Titled(s) => s.leader = topic'[1].leader /\ s.epoch = topic'[1].epoch
  BY <1>1 DEF Titled
<1>4. \A j \in Instance : up'[j] => \A k \in Index(j)' : Titled(queue[j][k])'
  BY <1>1, <1>2 DEF Led, Titled
<1>5. Titled(view[i])' /\ (pc'[i] \in {"turn", "pause", "announced"} => Titled(draft[i])')
  BY <1>1 DEF Led, Titled
<1>6. ASSUME NEW c \in Instance \ {i}, up'[c]
      PROVE  Follower(c)'
  BY <1>1, <1>6 DEF Led, Follower, Expecting
<1>7. QED
  BY <1>1, <1>4, <1>5, <1>6 DEF Led

LEMMA FollowerRests ==
  ASSUME NEW i \in Instance, Led(i), NEW c \in Instance \ {i}, Rests(c), ~active'[c], pc'[c] = "idle",
         led' = led
  PROVE  Led(i)'
<1>1. /\ UNCHANGED <<up, view, queue, topic, sinceStart>>
      /\ \A j \in Instance \ {c} : /\ pc'[j] = pc[j] /\ active'[j] = active[j] /\ draft'[j] = draft[j]
                                   /\ sinceTick'[j] = sinceTick[j] /\ asleep'[j] = asleep[j]
  BY DEF Rests
<1>2. \A j \in Instance : up'[j] => \A k \in Index(j)' : Titled(queue[j][k])'
  BY <1>1 DEF Led, Titled, Index
<1>3. pc'[i] = pc[i] /\ UNCHANGED <<view, topic>> /\ draft'[i] = draft[i] /\ Slack(i)' = Slack(i)
  BY <1>1 DEF Slack
<1>4. ASSUME NEW d \in Instance \ {i}, up'[d]
      PROVE  Follower(d)'
  BY <1>1, <1>4 DEF Led, Follower, Expecting
<1>5. QED
  BY <1>1, <1>2, <1>3, <1>4 DEF Led, Titled

LEMMA LedElection ==
  ASSUME TypeOK, Coherent, LeaseConditions, NEW i \in Instance, Led(i), NEW c \in Instance,
         Bootstrap(c) \/ Heartbeat(c) \/ StandBy(c)
  PROVE  Coherent' /\ Led(i)' /\ led' = led
<1>1. CASE Bootstrap(c)
  <2>1. pc[c] = "boot" /\ Coherent' /\ up[c]
    BY <1>1, BootstrapMoves DEF Bootstrap, At
  <2>2. c # i /\ c # Preferred
    BY <2>1 DEF Led, Follower
  <2>3. Rests(c) /\ pc'[c] = "idle" /\ UNCHANGED <<active, led>>
    BY <1>1, <2>2, BootstrapMoves
  <2>4. ~active[c]
    BY <2>1, <2>2 DEF Led, Follower
  <2>5. QED
    BY <2>1, <2>2, <2>3, <2>4, FollowerRests
<1>2. CASE Heartbeat(c)
  <2>1. /\ pc[c] = "idle" /\ active[c] /\ Coherent'
        /\ \E r : Posts(c, r) /\ r.epoch = view[c].epoch /\ pc'[c] = "publish" /\ draft'[c] = r
    BY <1>2, HeartbeatMoves
  <2>2. c = i
    BY <2>1 DEF Led, Follower, Coherent
  <2>3. PICK r : Posts(i, r) /\ r.epoch = view[i].epoch /\ pc'[i] = "publish" /\ draft'[i] = r
    BY <2>1, <2>2
  <2>4. draft'[i].leader = i /\ draft'[i].epoch = view[i].epoch
    BY <2>3 DEF Posts
  <2>5. QED
    BY <2>1, <2>2, <2>3, <2>4, LedPosts
<1>3. CASE StandBy(c)
  <2>1. /\ Rests(c) /\ pc[c] = "idle" /\ ~active[c] /\ view[c].leader # c /\ Coherent'
        /\ UNCHANGED <<active, pc, led>>
    BY <1>3, StandByMoves
  <2>2. c # i
    BY <2>1 DEF Led, Titled
  <2>3. QED
    BY <2>1, <2>2, FollowerRests
<1>4. QED
  BY <1>1, <1>2, <1>3

LEMMA LedStart ==
  ASSUME TypeOK, Coherent, LeaseConditions, NEW i \in Instance, Led(i), NEW c \in Instance, StartRuntime(c)
  PROVE  Coherent' /\ Led(i)' /\ led' = led \cup {<<i, topic'[1].epoch>>}
<1>1. /\ Rests(c) /\ pc[c] = "idle" /\ ~active[c] /\ view[c].leader = c /\ Coherent' /\ up[c]
      /\ sinceTick[c] = ElectionPeriod /\ sinceTick'[c] = 0 /\ active'[c]
      /\ led' = led \cup {<<c, view[c].epoch>>} /\ UNCHANGED <<pc, draft, asleep>>
  BY StartRuntimeMoves DEF Rests
<1>2. c = i
  BY <1>1 DEF Led, Follower
<1>3. view[i].epoch = topic[1].epoch /\ topic' = topic
  BY <1>1, <1>2 DEF Led, Titled, Rests
<1>4. topic[1].age <= Slack(i)'
  <2>1. topic[1].age <= ElectionPeriod
    BY <1>1, <1>2 DEF Led, Slack
  <2>2. Slack(i)' = ElectionPeriod
    BY <1>1, <1>2, Numbers DEF Slack
  <2>3. QED
    BY <2>1, <2>2
<1>5. \A l \in led' : l[2] < topic[1].epoch \/ l = <<i, topic[1].epoch>>
  BY <1>1, <1>2, <1>3 DEF Led
<1>6. Led(i)'
  BY <1>1, <1>2, <1>4, <1>5, LedRests
<1>7. QED
  BY <1>1, <1>2, <1>3, <1>6

LEMMA LedNoStepDown ==
  ASSUME TypeOK, Coherent, LeaseConditions, NEW i \in Instance, Led(i), NEW c \in Instance
  PROVE  ~StepDown(c)
<1>1. SUFFICES ASSUME StepDown(c) PROVE FALSE
  OBVIOUS
<1>2. active[c] /\ up[c] /\ pc[c] = "idle" /\ view[c].leader # c
  BY <1>1 DEF StepDown, OnElectionTick, At
<1>3. QED
  BY <1>2 DEF Led, Follower, Titled

LEMMA LedTurn ==
  ASSUME TypeOK, DecidedInv, Coherent, LeaseConditions, NEW i \in Instance, Led(i), NEW c \in Instance,
         NextTurn(c) \/ PublishTurn(c) \/ Decide(c) \/ Announce(c) \/ PublishOver(c)
  PROVE  Coherent' /\ Led(i)' /\ led' = led
<1>1. active[c] /\ up[c]
  BY NextTurnMoves, PublishTurnMoves, DecideMoves, AnnounceMoves, PublishOverMoves DEF Coherent
<1>2. c = i
  BY <1>1 DEF Led, Follower
<1>3. /\ topic[1].age <= Slack(i)
      /\ \A l \in led : l[2] < topic[1].epoch \/ l = <<i, topic[1].epoch>>
      /\ pc[i] # "publish" => view[i].leader = i /\ Titled(view[i])
      /\ pc[i] \in {"turn", "announced", "pause"} => draft[i].leader = i /\ Titled(draft[i])
  BY DEF Led, Titled
<1>4. CASE NextTurn(c)
  <2>1. /\ Rests(i) /\ pc[i] = "idle" /\ Coherent' /\ pc'[i] = "turn"
        /\ draft'[i].leader = view[i].leader /\ draft'[i].epoch = view[i].epoch
        /\ UNCHANGED <<active, timers, led>>
    BY <1>2, <1>4, NextTurnMoves
  <2>2. Slack(i)' = Slack(i)
    BY <2>1 DEF Slack, timers
  <2>3. Titled(draft'[i])
    BY <1>3, <2>1 DEF Titled
  <2>4. QED
    BY <1>3, <2>1, <2>2, <2>3, LedRests
<1>5. CASE PublishTurn(c) \/ PublishOver(c)
  <2>1. /\ pc[i] \in {"turn", "announced"} /\ Coherent' /\ draft' = draft
        /\ \E r : Posts(i, r) /\ r.epoch = view[i].epoch /\ pc'[i] = "update"
    BY <1>2, <1>5, PublishTurnMoves, PublishOverMoves
  <2>2. draft'[i].leader = i /\ draft'[i].epoch = view[i].epoch
    BY <1>3, <2>1 DEF Titled
  <2>3. QED
    BY <2>1, <2>2, LedPosts
<1>6. CASE Decide(c)
  <2>1. /\ Rests(i) /\ pc[i] = "idle" /\ Coherent' /\ pc'[i] = "pause" /\ asleep'[i] = 0
        /\ draft'[i].leader = view[i].leader /\ draft'[i].epoch = view[i].epoch
        /\ UNCHANGED <<active, sinceTick, led>>
    BY <1>2, <1>6, DecideMoves
  <2>2. Slack(i)' = Slack(i)
    BY <1>1, <1>2, <2>1, Records, Numbers DEF Slack
  <2>3. Titled(draft'[i])
    BY <1>3, <2>1 DEF Titled
  <2>4. QED
    BY <1>3, <2>1, <2>2, <2>3, LedRests
<1>7. CASE Announce(c)
  <2>1. /\ Rests(i) /\ pc[i] = "pause" /\ Coherent' /\ pc'[i] = "announced"
        /\ UNCHANGED <<active, draft, timers, led>>
    BY <1>2, <1>7, AnnounceMoves
  <2>2. Slack(i)' = Slack(i)
    BY <2>1 DEF Slack, timers
  <2>3. QED
    BY <1>3, <2>1, <2>2, LedRests
<1>8. QED
  BY <1>4, <1>5, <1>6, <1>7

LEMMA LedApply ==
  ASSUME TypeOK, Coherent, LeaseConditions, NEW i \in Instance, Led(i), NEW c \in Instance,
         ApplyOwn(c) \/ CacheUpdate(c)
  PROVE  Coherent' /\ Led(i)' /\ led' = led
<1>1. /\ up[c] /\ pc[c] \in {"publish", "update"} /\ pc'[c] = "idle" /\ Coherent'
      /\ view'[c].leader = draft[c].leader /\ view'[c].epoch = draft[c].epoch
      /\ \A j \in Instance \ {c} : pc'[j] = pc[j] /\ view'[j] = view[j]
      /\ UNCHANGED <<up, active, draft, queue, topic, timers, led>>
  BY ApplyMoves
<1>2. c = i
  BY <1>1 DEF Led, Follower
<1>3. Titled(draft[i]) /\ topic[1].age <= Slack(i)
  BY <1>1, <1>2 DEF Led
<1>4. Titled(view[i])'
  BY <1>1, <1>2, <1>3 DEF Titled
<1>5. Slack(i)' = Slack(i)
  BY <1>1, <1>2 DEF Slack, timers
<1>6. \A j \in Instance : up'[j] => \A k \in Index(j)' : Titled(queue[j][k])'
  BY <1>1 DEF Led, Titled, Index
<1>7. ASSUME NEW d \in Instance \ {i}, up'[d]
      PROVE  Follower(d)'
  BY <1>1, <1>2, <1>7 DEF Led, Follower, Expecting, timers
<1>8. Led(i)'
  BY <1>1, <1>2, <1>3, <1>4, <1>5, <1>6, <1>7 DEF Led
<1>9. QED
  BY <1>1, <1>8

LEMMA LedDeliver ==
  ASSUME TypeOK, Coherent, LeaseConditions, NEW i \in Instance, Led(i), NEW c \in Instance, Deliver(c)
  PROVE  Coherent' /\ Led(i)' /\ led' = led
<1>1. Coherent'
  BY CoherentDeliver DEF LeaseConditions
<1>2. up[c] /\ UNCHANGED <<up, active, pc, draft, topic, timers, led>>
  BY DEF Deliver
<1>3. /\ 1 \in Index(c) /\ view'[c] = queue[c][1]
      /\ \A k \in Index(c)' : k + 1 \in Index(c) /\ queue'[c][k] = queue[c][k + 1]
      /\ \A j \in Instance \ {c} : view'[j] = view[j] /\ queue'[j] = queue[j]
  BY Shrinks
<1>4. Titled(view'[c]) /\ topic[1].leader = i
  BY <1>2, <1>3 DEF Led
<1>5. \A j \in Instance : up'[j] => \A k \in Index(j)' : Titled(queue[j][k])'
  <2>1. ASSUME NEW j \in Instance, up'[j], j # c
        PROVE  \A k \in Index(j)' : Titled(queue[j][k])'
    <3>1. Index(j)' = Index(j) /\ queue'[j] = queue[j]
      BY <1>3, <2>1 DEF Index
    <3>2. QED
      BY <1>2, <2>1, <3>1 DEF Led, Titled
  <2>2. \A k \in Index(c)' : Titled(queue[c][k])'
    BY <1>2, <1>3 DEF Led, Titled
  <2>3. QED
    BY <2>1, <2>2
<1>6. pc[i] # "publish" => Titled(view[i])'
  BY <1>2, <1>3, <1>4 DEF Led, Titled
<1>7. ASSUME NEW d \in Instance \ {i}, up'[d]
      PROVE  Follower(d)'
  <2>1. CASE d # c
    BY <1>2, <1>3, <1>7, <2>1 DEF Led, Follower, Expecting, timers
  <2>2. CASE d = c
    <3>1. view'[c].leader = i /\ view'[c].leader # Nobody
      BY <1>4, InstanceAssumption DEF Titled
    <3>2. ~active'[c] /\ pc'[c] \in {"boot", "idle"} /\ (c = Preferred => pc'[c] # "boot")
      BY <1>2, <1>7, <2>2 DEF Led, Follower
    <3>3. ASSUME queue'[c] # <<>>
          PROVE  Expecting(c)'
      <4>1. queue'[c] \in Seq(Session) /\ Len(queue'[c]) \in Nat /\ Len(queue'[c]) # 0
        BY <3>3, Shrinks, EmptySeq
      <4>2. 1 \in Index(c)'
        BY <4>1 DEF Index
      <4>3. queue'[c][1] = queue[c][1 + 1] /\ 1 + 1 \in Index(c)
        BY <1>3, <4>2
      <4>4. queue'[c][1].age \in Nat
        BY <4>3, Records, Fields
      <4>5. view'[c].age \in Nat /\ view'[c].age <= Lag
        BY <1>2, <1>3, Records, Fields DEF Coherent, Queued
      <4>6. view'[c].age <= Room + queue'[c][1].age
        BY <4>4, <4>5, Numbers DEF LeaseConditions, Room
      <4>7. QED
        BY <3>1, <3>3, <4>6 DEF Expecting
    <3>4. QED
      BY <1>7, <2>2, <3>1, <3>2, <3>3 DEF Follower
  <2>3. QED
    BY <2>1, <2>2
<1>8. Slack(i)' = Slack(i)
  BY <1>2 DEF Slack, timers
<1>9. Titled(draft[i])' <=> Titled(draft[i])
  BY <1>2 DEF Titled
<1>10. Led(i)'
  BY <1>2, <1>5, <1>6, <1>7, <1>8, <1>9 DEF Led
<1>11. QED
  BY <1>1, <1>2, <1>10

LEMMA LedCrash ==
  ASSUME TypeOK, Coherent, LeaseConditions, NEW i \in Instance, Led(i), NEW c \in Instance, Crash(c)
  PROVE  Coherent' /\ Regime' /\ led' = led
<1>1. /\ Coherent' /\ ~up'[c] /\ ~active'[c] /\ UNCHANGED <<topic, led>>
      /\ \A j \in Instance \ {c} :
            /\ up'[j] = up[j] /\ active'[j] = active[j] /\ view'[j] = view[j] /\ pc'[j] = pc[j]
            /\ draft'[j] = draft[j] /\ queue'[j] = queue[j] /\ asleep'[j] = asleep[j]
            /\ sinceTick'[j] = sinceTick[j] /\ sinceStart'[j] = sinceStart[j]
  BY CrashMoves
<1>2. \A j \in Instance \ {c} : Index(j)' = Index(j) /\ (Expecting(j)' <=> Expecting(j))
  BY <1>1 DEF Index, Expecting
<1>3. CASE c # i
  <2>1. \A j \in Instance : up'[j] => \A k \in Index(j)' : Titled(queue[j][k])'
    BY <1>1, <1>2 DEF Led, Titled
  <2>2. ASSUME NEW d \in Instance \ {i}, up'[d]
        PROVE  Follower(d)'
    BY <1>1, <1>2, <2>2 DEF Led, Follower
  <2>3. Slack(i)' = Slack(i) /\ (Titled(view[i])' <=> Titled(view[i])) /\ (Titled(draft[i])' <=> Titled(draft[i]))
    BY <1>1, <1>3 DEF Slack, Titled
  <2>4. Led(i)'
    BY <1>1, <1>3, <2>1, <2>2, <2>3 DEF Led
  <2>5. QED
    BY <1>1, <2>4 DEF Regime
<1>4. CASE c = i
  <2>1. topic[1].epoch \in Nat /\ topic # <<>> /\ topic[1].leader = i
    BY LedFacts DEF Led
  <2>2. \A l \in led : l[2] \in Nat
    BY DEF TypeOK
  <2>3. \A l \in led : l[2] <= topic[1].epoch
    BY <2>1, <2>2 DEF Led
  <2>4. \A n : n = topic[1].epoch => Past(n)'
    BY <1>1, <2>3 DEF Past
  <2>5. ASSUME NEW d \in Instance
        PROVE  ~active'[d]
    BY <1>1, <1>4 DEF Led, Follower, Coherent
  <2>6. ASSUME NEW d \in Instance \ {i}, up[d]
        PROVE  /\ Expecting(d)' \/ Past(view[d].epoch)'
               /\ \A k \in Index(d)' : Past(queue[d][k].epoch)'
               /\ ~Claimant(d)'
    <3>1. Follower(d) /\ UpToDate(d) /\ ~active[d]
      BY <2>6 DEF Led, Follower, Coherent
    <3>2. /\ view'[d] = view[d] /\ queue'[d] = queue[d] /\ pc'[d] = pc[d] /\ Index(d)' = Index(d)
          /\ Expecting(d)' <=> Expecting(d)
      BY <1>1, <1>2, <1>4
    <3>3. \A k \in Index(d) : queue[d][k].leader = i /\ queue[d][k].epoch = topic[1].epoch
      BY <2>1, <2>6 DEF Led, Titled
    <3>4. Expecting(d)' \/ view'[d].epoch = topic[1].epoch
      BY <2>1, <3>1, <3>2 DEF Follower, UpToDate
    <3>5. ~Claimant(d)'
      BY <3>1, <3>2, <3>3 DEF Claimant, Follower
    <3>6. QED
      BY <2>4, <3>2, <3>3, <3>4, <3>5
  <2>7. \A d \in Instance : up'[d] => d # i /\ up[d]
    BY <1>1, <1>4
  <2>8. up'[Preferred] => pc'[Preferred] # "boot"
    BY <1>1, <1>4, <2>7 DEF Led, Follower, LeaseConditions
  <2>9. Contest'
    BY <1>1, <2>1, <2>4, <2>5, <2>6, <2>7, <2>8 DEF Contest, Claimant
  <2>10. QED
    BY <1>1, <2>9 DEF Regime
<1>5. QED
  BY <1>3, <1>4

LEMMA ExpectingTick ==
  ASSUME TypeOK, Coherent, LeaseConditions, Tick, NEW c \in Instance, up[c], Expecting(c)
  PROVE  Expecting(c)'
<1>1. queue[c] # <<>> /\ 1 \in Index(c) /\ queue'[c] # <<>>
  BY Records, Aging DEF Expecting
<1>2. queue[c][1].age \in Nat /\ queue'[c][1].age = queue[c][1].age + 1
  BY <1>1, AgingRecords
<1>3. /\ view'[c].leader = view[c].leader /\ view[c].age \in Nat
      /\ view'[c].age \in Nat /\ view'[c].age <= view[c].age + 1
  <2>1. view[c] \in Session /\ view'[c] = Older(view[c])
    BY Records, Aging
  <2>2. QED
    BY <2>1, OlderFields, Fields, Numbers
<1>4. sinceStart[c] \in Nat /\ sinceStart'[c] \in Nat /\ sinceStart'[c] <= sinceStart[c] + 1
  BY Records, Aging, Numbers
<1>5. CASE view[c].leader # Nobody /\ view[c].age <= Room + queue[c][1].age
  BY <1>1, <1>2, <1>3, <1>5, Numbers DEF Expecting
<1>6. CASE c # Preferred /\ sinceStart[c] <= queue[c][1].age
  BY <1>1, <1>2, <1>4, <1>6 DEF Expecting
<1>7. QED
  BY <1>5, <1>6 DEF Expecting

LEMMA LedTick ==
  ASSUME TypeOK, Coherent, LeaseConditions, NEW i \in Instance, Led(i), Tick, ~overslept'
  PROVE  Coherent' /\ Led(i)' /\ led' = led
<1>1. /\ UNCHANGED <<up, active, pc, led>> /\ topic # <<>> /\ topic' # <<>> /\ topic'[1] = Older(topic[1])
  BY AgingTopic DEF Led
<1>2. topic[1] \in Session /\ topic[1].age \in Nat
  BY LedFacts
<1>3. /\ topic'[1].leader = topic[1].leader /\ topic'[1].epoch = topic[1].epoch
      /\ topic'[1].age \in Nat /\ topic'[1].age <= topic[1].age + 1
  BY <1>1, <1>2, OlderFields, Numbers
<1>4. \A j \in Instance : up'[j] => \A k \in Index(j)' : Titled(queue[j][k])'
  BY <1>1, <1>3, Aging, AgingRecords DEF Led, Titled
<1>5. \A s \in Session : Older(s).leader = s.leader /\ Older(s).epoch = s.epoch
  BY OlderFields
<1>6. /\ view'[i].leader = view[i].leader /\ view'[i].epoch = view[i].epoch
      /\ draft'[i].leader = draft[i].leader /\ draft'[i].epoch = draft[i].epoch
  BY <1>5, Records, Aging
<1>7. topic'[1].age <= Slack(i)'
  <2>1. topic[1].age <= Slack(i) /\ up[i]
    BY DEF Led
  <2>2. sinceTick[i] \in Nat /\ asleep[i] \in Nat /\ sinceTick[i] <= ElectionPeriod
    BY Records DEF Coherent
  <2>3. CASE pc[i] = "idle" /\ sinceTick[i] < ElectionPeriod
    <3>1. sinceTick'[i] = sinceTick[i] + 1
      BY <2>1, <2>3, Aging
    <3>2. /\ Slack(i) = IF active[i] THEN ElectionPeriod + sinceTick[i] + 0 ELSE sinceTick[i]
          /\ Slack(i)' = IF active[i] THEN ElectionPeriod + sinceTick'[i] + 0 ELSE sinceTick'[i]
      BY <1>1, <2>3 DEF Slack
    <3>3. Slack(i)' = Slack(i) + 1 /\ Slack(i) \in Nat
      BY <2>2, <3>1, <3>2, Numbers
    <3>4. QED
      BY <1>2, <1>3, <2>1, <3>3
  <2>4. CASE pc[i] = "pause" /\ asleep[i] < Nap /\ asleep'[i] = asleep[i] + 1
    <3>1. active[i]
      BY <2>1, <2>4 DEF Coherent, Placed
    <3>2. sinceTick'[i] \in Nat /\ sinceTick'[i] >= sinceTick[i]
      <4>1. ElectionPeriod \in Nat
        BY Numbers
      <4>2. sinceTick'[i] = IF sinceTick[i] < ElectionPeriod THEN sinceTick[i] + 1 ELSE ElectionPeriod
        BY <2>1, Aging
      <4>3. QED
        BY <2>2, <4>1, <4>2
    <3>3. Slack(i) = ElectionPeriod + sinceTick[i] + asleep[i]
      BY <2>4, <3>1 DEF Slack
    <3>4. Slack(i)' = ElectionPeriod + sinceTick'[i] + asleep[i] + 1
      BY <1>1, <2>2, <2>4, <3>1, <3>2, Numbers DEF Slack
    <3>5. QED
      BY <1>2, <1>3, <2>1, <2>2, <3>2, <3>3, <3>4, Numbers
  <2>5. QED
    BY <2>1, <2>3, <2>4, Aging
<1>8. ASSUME NEW c \in Instance \ {i}, up[c]
      PROVE  Follower(c)'
  <2>1. Follower(c) /\ view'[c].leader = view[c].leader /\ (queue'[c] = <<>> <=> queue[c] = <<>>)
    BY <1>5, <1>8, Records, Aging DEF Led
  <2>2. QED
    BY <1>1, <1>8, <2>1, ExpectingTick DEF Follower
<1>9. Led(i)'
  BY <1>1, <1>3, <1>4, <1>6, <1>7, <1>8 DEF Led, Titled
<1>10. QED
  BY <1>1, <1>9, CoherentTick

-----------------------------------------------------------------------------
(* No engine runs, and those that claim do so at most Lag apart.           *)

LEMMA ContestPlaces ==
  ASSUME Coherent, Contest, NEW c \in Instance, up[c]
  PROVE  ~active[c] /\ pc[c] \in {"boot", "idle", "publish"} /\ (pc[c] = "boot" => c # Preferred)
BY DEF Coherent, Contest, Placed

\* An instance that an election tick finds without the lead has no claim on its way.
LEMMA NoClaimPending ==
  ASSUME TypeOK, Coherent, LeaseConditions, Contest, NEW c \in Instance,
         sinceTick[c] = ElectionPeriod, view[c].leader # c, pc[c] = "idle"
  PROVE  ~Claimant(c)
<1>1. SUFFICES ASSUME up[c], NEW k \in Index(c), queue[c][k].leader = c PROVE FALSE
  BY DEF Claimant
<1>2. Claimant(c)
  BY <1>1 DEF Claimant
<1>3. queue[c][k].age = ElectionPeriod
  BY <1>1, <1>2 DEF Contest, Rival
<1>4. queue[c][k].age <= Lag
  BY <1>1 DEF Coherent, Queued
<1>5. QED
  BY <1>3, <1>4, Numbers DEF LeaseConditions

LEMMA ContestRests ==
  ASSUME LeaseConditions, Contest, NEW c \in Instance, Rests(c), ~active'[c], pc'[c] = "idle", led' = led,
         Claimant(c) => sinceTick'[c] = sinceTick[c]
  PROVE  Contest'
<1>1. /\ UNCHANGED <<up, view, queue, topic, sinceStart, led>>
      /\ \A j \in Instance \ {c} : /\ pc'[j] = pc[j] /\ active'[j] = active[j]
                                   /\ sinceTick'[j] = sinceTick[j]
  BY DEF Rests
<1>2. \A j \in Instance : Index(j)' = Index(j) /\ (Expecting(j)' <=> Expecting(j))
  BY <1>1 DEF Index, Expecting
<1>3. \A n : Past(n)' <=> Past(n)
  BY <1>1 DEF Past
<1>4. \A j \in Instance : Claimant(j)' => Claimant(j) /\ sinceTick'[j] = sinceTick[j]
  BY <1>1, <1>2 DEF Claimant
<1>5. ASSUME NEW j \in Instance, Claimant(j)'
      PROVE  Rival(j)'
  <2>1. Rival(j) /\ sinceTick'[j] = sinceTick[j]
    BY <1>4, <1>5 DEF Contest
  <2>2. \A d \in Instance : Informed(j, d)' <=> Informed(j, d)
    BY <1>1, <1>2, <2>1 DEF Informed
  <2>3. QED
    BY <1>1, <1>2, <2>1, <2>2 DEF Rival
<1>6. \A d \in Instance : up'[d] => /\ Expecting(d)' \/ Past(view[d].epoch)'
                                    /\ \A k \in Index(d)' : Past(queue[d][k].epoch)'
  BY <1>1, <1>2, <1>3 DEF Contest, Past
<1>7. topic' # <<>> /\ Past(topic[1].epoch)'
  BY <1>1, <1>3 DEF Contest, Past
<1>8. \A d \in Instance : ~active'[d]
  BY <1>1 DEF Contest
<1>9. up'[Preferred] => pc'[Preferred] # "boot"
  BY <1>1 DEF Contest, LeaseConditions
<1>10. QED
  BY <1>5, <1>6, <1>7, <1>8, <1>9 DEF Contest

\* Who finds its cache stale although j has claimed has j's record before it.
LEMMA ClaimsAreClose ==
  ASSUME TypeOK, Coherent, LeaseConditions, NEW j \in Instance, NEW c \in Instance, up[c],
         Informed(j, c), Stale(view[c])
  PROVE  sinceTick[j] <= Lag
<1>1. CASE \E k \in Index(c) : queue[c][k].age = sinceTick[j]
  BY <1>1 DEF Coherent, Queued
<1>2. CASE view[c].leader # Nobody /\ view[c].age <= sinceTick[j]
  <2>1. view[c].age \in Nat /\ sinceTick[j] \in Nat /\ sinceTick[j] <= ElectionPeriod
    BY Records, Fields DEF Coherent
  <2>2. view[c].age > Timeout
    BY <1>2 DEF Stale
  <2>3. QED
    BY <1>2, <2>1, <2>2, Numbers DEF LeaseConditions, Room
<1>3. QED
  BY <1>1, <1>2 DEF Informed

LEMMA ExpectingGrows ==
  ASSUME TypeOK, NEW i \in Instance, NEW r, Posts(i, r), NEW c \in Instance, up[c], Expecting(c)
  PROVE  Expecting(c)'
<1>1. queue[c] # <<>> /\ 1 \in Index(c) /\ r \in Session /\ Publish(r)
  BY Records DEF Expecting, Posts
<1>2. queue'[c] # <<>> /\ queue'[c][1] = queue[c][1]
  BY <1>1, Grows
<1>3. QED
  BY <1>2 DEF Expecting, Posts

LEMMA ContestClaim ==
  ASSUME TypeOK, Coherent, LeaseConditions, Contest, NEW c \in Instance, Claim(c)
  PROVE  Coherent' /\ Contest' /\ led' = led
<1>1. /\ up[c] /\ pc[c] = "idle" /\ ~active[c] /\ MayClaim(c) /\ Coherent'
      /\ sinceTick[c] = ElectionPeriod /\ sinceTick'[c] = 0
  BY ClaimMoves
<1>2. PICK r : Posts(c, r) /\ r.epoch = view[c].epoch + 1 /\ pc'[c] = "publish" /\ draft'[c] = r
  BY ClaimMoves
<1>3. /\ UNCHANGED <<up, view, active, sinceStart, led>> /\ r \in Session /\ Publish(r)
      /\ r.leader = c /\ r.age = 0
      /\ \A j \in Instance \ {c} : pc'[j] = pc[j] /\ sinceTick'[j] = sinceTick[j]
  BY <1>2 DEF Posts
<1>4. topic' # <<>> /\ topic'[1] = r
  BY <1>1, <1>3, Grows
<1>5. ~Claimant(c) /\ Stale(view[c])
  BY <1>1, NoClaimPending DEF MayClaim
<1>6. /\ \A l \in led : l[2] \in Nat /\ l[2] < r.epoch
      /\ \A n : Past(n)' <=> Past(n)
      /\ Past(r.epoch)
  <2>1. Past(view[c].epoch)
    BY <1>1, FollowersWait DEF Contest
  <2>2. view[c].epoch \in Nat /\ \A l \in led : l[2] \in Nat
    BY Records, Fields DEF TypeOK
  <2>3. \A l \in led : l[2] < r.epoch /\ l[2] <= r.epoch
    BY <1>2, <2>1, <2>2 DEF Past
  <2>4. QED
    BY <1>3, <2>2, <2>3 DEF Past
<1>7. ASSUME NEW d \in Instance, up[d]
      PROVE  /\ \A k \in Index(d)' : (k \in Index(d) /\ queue'[d][k] = queue[d][k]) \/ queue'[d][k] = r
             /\ \A k \in Index(d) : k \in Index(d)' /\ queue'[d][k] = queue[d][k]
             /\ \E k \in Index(d)' : queue'[d][k] = r
  BY <1>3, <1>7, Grows
<1>8. ASSUME NEW d \in Instance, up[d]
      PROVE  /\ Expecting(d)' \/ Past(view[d].epoch)'
             /\ \A k \in Index(d)' : Past(queue[d][k].epoch)'
  <2>1. Expecting(d)' \/ Past(view[d].epoch)'
    <3>1. CASE Expecting(d)
      BY <1>2, <1>8, <3>1, ExpectingGrows
    <3>2. CASE Past(view[d].epoch)
      BY <1>3, <3>2 DEF Past
    <3>3. QED
      BY <1>8, <3>1, <3>2 DEF Contest
  <2>2. \A k \in Index(d)' : Past(queue[d][k].epoch)'
    <3>1. \A k \in Index(d) : Past(queue[d][k].epoch)
      BY <1>8 DEF Contest
    <3>2. \A k \in Index(d)' : Past(queue'[d][k].epoch)
      BY <1>6, <1>7, <1>8, <3>1
    <3>3. QED
      BY <1>3, <3>2 DEF Past
  <2>3. QED
    BY <2>1, <2>2
<1>9. Rival(c)'
  <2>1. \A k \in Index(c)' : IF queue'[c][k].leader = c THEN queue'[c][k].age = sinceTick'[c]
                             ELSE sinceTick'[c] <= queue'[c][k].age + Lag
    <3>1. \A k \in Index(c) : queue[c][k].leader # c /\ queue[c][k].age \in Nat
      BY <1>1, <1>5, Records, Fields DEF Claimant
    <3>2. QED
      BY <1>1, <1>3, <1>7, <3>1, Numbers
  <2>2. ASSUME NEW d \in Instance \ {c}, up[d]
        PROVE  Informed(c, d)'
    BY <1>1, <1>3, <1>7, <2>2 DEF Informed
  <2>3. QED
    BY <1>1, <1>3, <1>4, <1>6, <2>1, <2>2 DEF Rival
<1>10. ASSUME NEW j \in Instance \ {c}, Claimant(j)'
       PROVE  Rival(j)'
  <2>1. up[j] /\ Claimant(j) /\ sinceTick'[j] = sinceTick[j]
    BY <1>3, <1>7, <1>10 DEF Claimant
  <2>2. Rival(j) /\ sinceTick[j] \in Nat
    BY <2>1, Records DEF Contest
  <2>3. sinceTick[j] <= Lag
    BY <1>1, <1>5, <2>2, ClaimsAreClose DEF Rival
  <2>4. \A k \in Index(j)' : IF queue'[j][k].leader = j THEN queue'[j][k].age = sinceTick'[j]
                             ELSE sinceTick'[j] <= queue'[j][k].age + Lag
    BY <1>3, <1>7, <2>1, <2>2, <2>3, Numbers DEF Rival
  <2>5. ASSUME NEW d \in Instance \ {j}, up[d]
        PROVE  Informed(j, d)'
    <3>1. Informed(j, d)
      BY <2>2, <2>5 DEF Rival
    <3>2. CASE \E k \in Index(d) : queue[d][k].age = sinceTick[j]
      BY <1>7, <2>1, <2>5, <3>2 DEF Informed
    <3>3. CASE /\ view[d].leader # Nobody /\ view[d].age <= sinceTick[j]
               /\ \A k \in Index(d) : queue[d][k].age <= sinceTick[j]
      <4>1. \A k \in Index(d)' : queue'[d][k].age <= sinceTick[j]
        BY <1>3, <1>7, <2>2, <2>5, <3>3
      <4>2. QED
        BY <1>3, <2>1, <3>3, <4>1 DEF Informed
    <3>4. QED
      BY <3>1, <3>2, <3>3 DEF Informed
  <2>6. topic'[1].leader # j
    BY <1>3, <1>4
  <2>7. QED
    BY <1>3, <2>4, <2>5, <2>6 DEF Rival
<1>11. Contest'
  <2>1. Past(topic[1].epoch)'
    BY <1>3, <1>4, <1>6 DEF Past
  <2>2. up'[Preferred] => pc'[Preferred] # "boot"
    BY <1>2, <1>3 DEF Contest, LeaseConditions
  <2>3. \A d \in Instance : ~active'[d]
    BY <1>3 DEF Contest
  <2>4. QED
    BY <1>3, <1>4, <1>8, <1>9, <1>10, <2>1, <2>2, <2>3 DEF Contest
<1>12. QED
  BY <1>1, <1>3, <1>11

\* The claimant that finds itself named when its period is over has been heard by everyone.
LEMMA ContestStart ==
  ASSUME TypeOK, Coherent, LeaseConditions, Contest, NEW c \in Instance, StartRuntime(c)
  PROVE  Coherent' /\ Led(c)' /\ led' = led \cup {<<c, topic'[1].epoch>>}
<1>1. /\ Rests(c) /\ pc[c] = "idle" /\ ~active[c] /\ view[c].leader = c /\ Coherent'
      /\ sinceTick[c] = ElectionPeriod /\ sinceTick'[c] = 0 /\ active'[c]
      /\ led' = led \cup {<<c, view[c].epoch>>} /\ UNCHANGED <<pc, draft, asleep>>
  BY StartRuntimeMoves
<1>2. /\ up[c] /\ UNCHANGED <<up, view, queue, topic, sinceStart>>
      /\ \A j \in Instance \ {c} : active'[j] = active[j]
  BY <1>1 DEF Rests
<1>3. Claimant(c) /\ Rival(c)
  BY <1>1, <1>2 DEF Claimant, Contest
<1>4. queue[c] = <<>>
  <2>1. SUFFICES ASSUME queue[c] # <<>> PROVE FALSE
    OBVIOUS
  <2>2. 1 \in Index(c)
    BY <2>1, Records
  <2>3. queue[c][1].age \in Nat /\ queue[c][1].age <= Lag
    BY <1>2, <2>2, Records, Fields DEF Coherent, Queued
  <2>4. queue[c][1].age = ElectionPeriod \/ ElectionPeriod <= queue[c][1].age + Lag
    BY <1>1, <1>3, <2>2 DEF Rival
  <2>5. QED
    BY <2>3, <2>4, Numbers DEF LeaseConditions
<1>5. /\ topic # <<>> /\ topic[1].leader = c /\ topic[1].epoch = view[c].epoch
      /\ topic[1].age = ElectionPeriod /\ \A l \in led : l[2] < topic[1].epoch
  <2>1. topic # <<>>
    BY DEF Contest
  <2>2. topic[1].leader = c /\ topic[1].epoch = view[c].epoch
    BY <1>1, <1>2, <1>4, <2>1 DEF Coherent, UpToDate
  <2>3. QED
    BY <1>1, <1>3, <2>1, <2>2 DEF Rival
<1>6. ASSUME NEW d \in Instance, up[d]
      PROVE  queue[d] = <<>> /\ Index(d) = {}
  <2>1. ASSUME queue[d] # <<>>
        PROVE  FALSE
    <3>1. Len(queue[d]) \in Index(d)
      BY <2>1, Records
    <3>2. queue[d][Len(queue[d])].age <= Lag /\ queue[d][Len(queue[d])] = topic[1]
      BY <1>6, <2>1, <3>1 DEF Coherent, Queued
    <3>3. QED
      BY <1>5, <3>2, Numbers DEF LeaseConditions
  <2>2. Len(queue[d]) = 0
    BY <2>1, Records
  <2>3. QED
    BY <2>1, <2>2 DEF Index
<1>7. ASSUME NEW d \in Instance \ {c}, up[d]
      PROVE  Follower(d)'
  <2>1. ~active[d] /\ pc[d] \in {"boot", "idle", "publish"} /\ (pc[d] = "boot" => d # Preferred)
    BY <1>7, ContestPlaces
  <2>2. pc[d] # "publish"
    BY <1>6, <1>7 DEF Coherent, Placed
  <2>3. view[d].leader = c
    BY <1>5, <1>6, <1>7, <2>1 DEF Coherent, UpToDate
  <2>4. QED
    BY <1>1, <1>2, <1>6, <1>7, <2>1, <2>2, <2>3 DEF Follower
<1>8. topic'[1].age <= Slack(c)'
  <2>1. Slack(c)' = ElectionPeriod
    BY <1>1, Numbers DEF Slack
  <2>2. QED
    BY <1>2, <1>5, <2>1, Numbers
<1>9. \A j \in Instance : up'[j] => \A k \in Index(j)' : Titled(queue[j][k])'
  <2>1. \A j \in Instance : Index(j)' = Index(j)
    BY <1>2 DEF Index
  <2>2. QED
    BY <1>2, <1>6, <2>1
<1>10. Titled(view[c])'
  BY <1>1, <1>2, <1>5 DEF Titled
<1>11. \A l \in led' : l[2] < topic'[1].epoch \/ l = <<c, topic'[1].epoch>>
  BY <1>1, <1>2, <1>5
<1>12. Led(c)'
  BY <1>1, <1>2, <1>5, <1>7, <1>8, <1>9, <1>10, <1>11 DEF Led
<1>13. QED
  BY <1>1, <1>2, <1>5, <1>12

LEMMA ContestElection ==
  ASSUME TypeOK, Coherent, LeaseConditions, Contest, NEW c \in Instance, Bootstrap(c) \/ StandBy(c)
  PROVE  Coherent' /\ Contest' /\ led' = led
<1>1. CASE Bootstrap(c)
  <2>1. pc[c] = "boot" /\ Coherent' /\ up[c]
    BY <1>1, BootstrapMoves DEF Bootstrap, At
  <2>2. c # Preferred /\ ~active[c]
    BY <2>1, ContestPlaces
  <2>3. Rests(c) /\ pc'[c] = "idle" /\ UNCHANGED <<active, sinceTick, led>>
    BY <1>1, <2>2, BootstrapMoves
  <2>4. QED
    BY <2>1, <2>2, <2>3, ContestRests
<1>2. CASE StandBy(c)
  <2>1. /\ Rests(c) /\ pc[c] = "idle" /\ ~active[c] /\ view[c].leader # c /\ Coherent'
        /\ sinceTick[c] = ElectionPeriod /\ UNCHANGED <<active, pc, led>>
    BY <1>2, StandByMoves
  <2>2. ~Claimant(c)
    BY <2>1, NoClaimPending
  <2>3. QED
    BY <2>1, <2>2, ContestRests
<1>3. QED
  BY <1>1, <1>2

LEMMA ContestNoEngine ==
  ASSUME TypeOK, DecidedInv, Coherent, LeaseConditions, Contest, NEW c \in Instance
  PROVE  /\ ~Heartbeat(c) /\ ~StepDown(c) /\ ~NextTurn(c) /\ ~Decide(c)
         /\ ~PublishTurn(c) /\ ~Announce(c) /\ ~PublishOver(c) /\ ~CacheUpdate(c)
<1>1. ~active[c]
  BY DEF Contest
<1>2. ~StepDown(c)
  BY <1>1 DEF StepDown
<1>3. ~CacheUpdate(c)
  BY <1>1, ApplyMoves DEF CacheUpdate, At
<1>4. QED
  BY <1>1, <1>2, <1>3, HeartbeatMoves, NextTurnMoves, PublishTurnMoves, DecideMoves, AnnounceMoves, PublishOverMoves

LEMMA ContestApply ==
  ASSUME TypeOK, Coherent, LeaseConditions, Contest, NEW c \in Instance, ApplyOwn(c)
  PROVE  Coherent' /\ Contest' /\ led' = led
<1>1. /\ up[c] /\ pc[c] = "publish" /\ pc'[c] = "idle" /\ Coherent'
      /\ view'[c].leader = draft[c].leader /\ view'[c].epoch = draft[c].epoch /\ view'[c].age = draft[c].age
      /\ \A j \in Instance \ {c} : pc'[j] = pc[j] /\ view'[j] = view[j]
      /\ UNCHANGED <<up, active, draft, queue, topic, timers, led>>
  BY ApplyMoves DEF ApplyOwn, At
<1>2. PICK own \in Index(c) : queue[c][own] = draft[c]
  BY <1>1 DEF Coherent, Placed
<1>3. draft[c].leader = c /\ draft[c].age = 0 /\ c # Nobody
  BY <1>1, InstanceAssumption DEF Coherent, Placed
<1>4. /\ UNCHANGED <<sinceTick, sinceStart>>
      /\ \A j \in Instance : Index(j)' = Index(j)
      /\ \A n : Past(n)' <=> Past(n)
  BY <1>1 DEF Index, timers, Past
<1>5. \A j \in Instance : Claimant(j)' => Claimant(j)
  BY <1>1, <1>3, <1>4 DEF Claimant
<1>6. ASSUME NEW j \in Instance, Claimant(j)'
      PROVE  Rival(j)'
  <2>1. Rival(j) /\ sinceTick[j] \in Nat
    BY <1>5, <1>6, Records DEF Contest
  <2>2. ASSUME NEW d \in Instance \ {j}, up[d]
        PROVE  Informed(j, d)'
    <3>1. Informed(j, d)
      BY <2>1, <2>2 DEF Rival
    <3>2. view'[d] = view[d] \/ (view'[d].leader # Nobody /\ view'[d].age <= sinceTick[j])
      BY <1>1, <1>3, <2>1
    <3>3. QED
      BY <1>1, <1>4, <3>1, <3>2 DEF Informed
  <2>3. QED
    BY <1>1, <1>4, <2>1, <2>2 DEF Rival
<1>7. ASSUME NEW d \in Instance, up[d]
      PROVE  /\ Expecting(d)' \/ Past(view[d].epoch)'
             /\ \A k \in Index(d)' : Past(queue[d][k].epoch)'
  <2>1. (Expecting(d) \/ Past(view[d].epoch)) /\ \A k \in Index(d) : Past(queue[d][k].epoch)
    BY <1>7 DEF Contest
  <2>2. \A k \in Index(d)' : Past(queue[d][k].epoch)'
    BY <1>1, <1>4, <2>1 DEF Past
  <2>3. CASE d = c
    <3>1. Past(view'[c].epoch)
      BY <1>1, <1>2, <2>1, <2>3
    <3>2. QED
      BY <1>1, <2>2, <2>3, <3>1 DEF Past
  <2>4. CASE d # c
    BY <1>1, <1>4, <2>1, <2>2, <2>4 DEF Past, Expecting
  <2>5. QED
    BY <2>3, <2>4
<1>8. Contest'
  <2>1. Past(topic[1].epoch)'
    BY <1>1 DEF Contest, Past
  <2>2. up'[Preferred] => pc'[Preferred] # "boot"
    BY <1>1 DEF Contest, LeaseConditions
  <2>3. QED
    BY <1>1, <1>6, <1>7, <2>1, <2>2 DEF Contest
<1>9. QED
  BY <1>1, <1>8

LEMMA ContestDeliver ==
  ASSUME TypeOK, Coherent, LeaseConditions, Contest, NEW c \in Instance, Deliver(c)
  PROVE  Coherent' /\ Contest' /\ led' = led
<1>1. Coherent'
  BY CoherentDeliver DEF LeaseConditions
<1>2. up[c] /\ UNCHANGED <<up, active, pc, draft, topic, sinceTick, sinceStart, led>>
  BY DEF Deliver, timers
<1>3. /\ 1 \in Index(c) /\ view'[c] = queue[c][1]
      /\ \A k \in Index(c)' : k + 1 \in Index(c) /\ queue'[c][k] = queue[c][k + 1]
      /\ \A k \in Index(c) : k = 1 \/ (k - 1 \in Index(c)' /\ queue'[c][k - 1] = queue[c][k])
      /\ \A j \in Instance \ {c} : view'[j] = view[j] /\ queue'[j] = queue[j]
  BY Shrinks
<1>4. /\ \A j \in Instance \ {c} : Index(j)' = Index(j)
      /\ \A n : Past(n)' <=> Past(n)
  BY <1>2, <1>3 DEF Index, Past
<1>5. /\ view'[c].leader # Nobody
      /\ \A k \in Index(c) : queue[c][k].age <= queue[c][1].age
  <2>1. Len(queue[c]) \in Nat /\ \A k \in Index(c) : 1 <= k
    BY Records DEF Index
  <2>2. QED
    BY <1>2, <1>3, <2>1 DEF Coherent, Queued
<1>6. \A j \in Instance : Claimant(j)' => Claimant(j)
  <2>1. Claimant(c)' => Claimant(c)
    BY <1>2, <1>3 DEF Claimant
  <2>2. \A j \in Instance \ {c} : Claimant(j)' => Claimant(j)
    BY <1>2, <1>3, <1>4 DEF Claimant
  <2>3. QED
    BY <2>1, <2>2
<1>7. ASSUME NEW j \in Instance, Claimant(j)'
      PROVE  Rival(j)'
  <2>1. Rival(j) /\ sinceTick[j] \in Nat
    BY <1>6, <1>7, Records DEF Contest
  <2>2. \A k \in Index(j)' : IF queue'[j][k].leader = j THEN queue'[j][k].age = sinceTick[j]
                             ELSE sinceTick[j] <= queue'[j][k].age + Lag
    <3>1. CASE j = c
      BY <1>3, <2>1, <3>1 DEF Rival
    <3>2. CASE j # c
      BY <1>3, <1>4, <2>1, <3>2 DEF Rival
    <3>3. QED
      BY <3>1, <3>2
  <2>3. ASSUME NEW d \in Instance \ {j}, up[d]
        PROVE  Informed(j, d)'
    <3>1. Informed(j, d)
      BY <2>1, <2>3 DEF Rival
    <3>2. CASE d # c
      BY <1>2, <1>3, <1>4, <3>1, <3>2 DEF Informed
    <3>3. CASE d = c
      <4>1. ASSUME queue[c][1].age <= sinceTick[j]
            PROVE  Informed(j, c)'
        <5>1. \A k \in Index(c) : queue[c][k].age <= sinceTick[j]
          <6>1. \A k \in Index(c) : queue[c][k].age \in Nat
            BY Records, Fields
          <6>2. QED
            BY <1>3, <1>5, <2>1, <4>1, <6>1
        <5>2. \A k \in Index(c)' : queue'[c][k].age <= sinceTick[j]
          BY <1>3, <5>1
        <5>3. QED
          BY <1>2, <1>3, <1>5, <4>1, <5>2 DEF Informed
      <4>2. CASE \E k \in Index(c) : queue[c][k].age = sinceTick[j]
        <5>1. PICK k \in Index(c) : queue[c][k].age = sinceTick[j]
          BY <4>2
        <5>2. CASE k = 1
          BY <2>1, <3>3, <4>1, <5>1, <5>2
        <5>3. CASE k # 1
          BY <1>2, <1>3, <3>3, <5>1, <5>3 DEF Informed
        <5>4. QED
          BY <5>2, <5>3
      <4>3. CASE \A k \in Index(c) : queue[c][k].age <= sinceTick[j]
        BY <1>3, <3>3, <4>1, <4>3
      <4>4. QED
        BY <3>1, <3>3, <4>2, <4>3 DEF Informed
    <3>4. QED
      BY <3>2, <3>3
  <2>4. QED
    BY <1>2, <2>1, <2>2, <2>3 DEF Rival
<1>8. ASSUME NEW d \in Instance, up[d]
      PROVE  /\ Expecting(d)' \/ Past(view[d].epoch)'
             /\ \A k \in Index(d)' : Past(queue[d][k].epoch)'
  <2>1. (Expecting(d) \/ Past(view[d].epoch)) /\ \A k \in Index(d) : Past(queue[d][k].epoch)
    BY <1>8 DEF Contest
  <2>2. CASE d = c
    <3>1. Past(view'[c].epoch) /\ \A k \in Index(c)' : Past(queue'[c][k].epoch)
      BY <1>3, <2>1, <2>2
    <3>2. QED
      BY <1>2, <2>2, <3>1 DEF Past
  <2>3. CASE d # c
    BY <1>2, <1>3, <1>4, <2>1, <2>3 DEF Past, Expecting
  <2>4. QED
    BY <2>2, <2>3
<1>9. Contest'
  BY <1>2, <1>7, <1>8 DEF Contest, Past
<1>10. QED
  BY <1>1, <1>2, <1>9

LEMMA ContestCrash ==
  ASSUME TypeOK, Coherent, LeaseConditions, Contest, NEW c \in Instance, Crash(c)
  PROVE  Coherent' /\ Contest' /\ led' = led
<1>1. /\ Coherent' /\ ~up'[c] /\ ~active'[c] /\ UNCHANGED <<topic, led>>
      /\ \A j \in Instance \ {c} :
            /\ up'[j] = up[j] /\ active'[j] = active[j] /\ view'[j] = view[j] /\ pc'[j] = pc[j]
            /\ queue'[j] = queue[j]
            /\ sinceTick'[j] = sinceTick[j] /\ sinceStart'[j] = sinceStart[j]
  BY CrashMoves
<1>2. /\ \A j \in Instance \ {c} : Index(j)' = Index(j) /\ (Expecting(j)' <=> Expecting(j))
      /\ \A n : Past(n)' <=> Past(n)
  BY <1>1 DEF Index, Expecting, Past
<1>3. \A j \in Instance : Claimant(j)' => j # c /\ Claimant(j)
  BY <1>1, <1>2 DEF Claimant
<1>4. ASSUME NEW j \in Instance, Claimant(j)'
      PROVE  Rival(j)'
  <2>1. Rival(j) /\ j # c
    BY <1>3, <1>4 DEF Contest
  <2>2. ASSUME NEW d \in Instance \ {j}, up'[d]
        PROVE  Informed(j, d)'
    <3>1. d # c /\ up[d]
      BY <1>1, <2>2
    <3>2. Informed(j, d)
      BY <2>1, <2>2, <3>1 DEF Rival
    <3>3. QED
      BY <1>1, <1>2, <2>1, <3>1, <3>2 DEF Informed
  <2>3. QED
    BY <1>1, <1>2, <2>1, <2>2 DEF Rival
<1>5. ASSUME NEW d \in Instance, up'[d]
      PROVE  /\ Expecting(d)' \/ Past(view[d].epoch)'
             /\ \A k \in Index(d)' : Past(queue[d][k].epoch)'
  <2>1. d # c /\ up[d]
    BY <1>1, <1>5
  <2>2. (Expecting(d) \/ Past(view[d].epoch)) /\ \A k \in Index(d) : Past(queue[d][k].epoch)
    BY <2>1 DEF Contest
  <2>3. QED
    BY <1>1, <1>2, <2>1, <2>2 DEF Past
<1>6. Contest'
  <2>1. Past(topic[1].epoch)' /\ topic' # <<>>
    BY <1>1 DEF Contest, Past
  <2>2. up'[Preferred] => pc'[Preferred] # "boot"
    BY <1>1 DEF Contest, LeaseConditions
  <2>3. \A d \in Instance : ~active'[d]
    BY <1>1 DEF Contest
  <2>4. QED
    BY <1>4, <1>5, <2>1, <2>2, <2>3 DEF Contest
<1>7. QED
  BY <1>1, <1>6

LEMMA ContestTick ==
  ASSUME TypeOK, Coherent, LeaseConditions, Contest, Tick, ~overslept'
  PROVE  Coherent' /\ Contest' /\ led' = led
<1>1. /\ UNCHANGED <<up, active, pc, led>> /\ topic # <<>> /\ topic' # <<>> /\ topic'[1] = Older(topic[1])
  BY AgingTopic DEF Contest
<1>2. topic[1] \in Session
  BY LastRecord, <1>1
<1>3. \A s \in Session : /\ Older(s).leader = s.leader /\ Older(s).epoch = s.epoch
                         /\ s.age \in Nat /\ (s.age < Timeout => Older(s).age = s.age + 1)
  BY OlderFields, Fields, Numbers
<1>4. /\ \A j \in Instance : /\ view[j] \in Session /\ view'[j] = Older(view[j])
                             /\ Index(j)' = Index(j)
      /\ \A n : Past(n)' <=> Past(n)
  BY <1>1, Records, Aging DEF Past
<1>5. ASSUME NEW j \in Instance, up[j]
      PROVE  /\ sinceTick[j] \in Nat /\ sinceTick[j] < ElectionPeriod /\ sinceTick'[j] = sinceTick[j] + 1
             /\ sinceTick[j] < Timeout
             /\ \A k \in Index(j) : /\ queue[j][k].age \in Nat
                                    /\ queue'[j][k].age = queue[j][k].age + 1
                                    /\ queue'[j][k].leader = queue[j][k].leader
                                    /\ queue'[j][k].epoch = queue[j][k].epoch
  <2>1. pc[j] # "pause"
    BY <1>5, ContestPlaces
  <2>2. sinceTick[j] \in Nat /\ sinceTick[j] < ElectionPeriod /\ sinceTick'[j] = sinceTick[j] + 1
    BY <1>5, <2>1, Records, Aging
  <2>3. sinceTick[j] < Timeout
    BY <2>2, Numbers DEF LeaseConditions, Room
  <2>4. \A k \in Index(j) : /\ queue[j][k].age \in Nat
                            /\ queue'[j][k].age = queue[j][k].age + 1
                            /\ queue'[j][k].leader = queue[j][k].leader
                            /\ queue'[j][k].epoch = queue[j][k].epoch
    BY <1>5, AgingRecords
  <2>5. QED
    BY <2>2, <2>3, <2>4
<1>6. \A j \in Instance : Claimant(j)' => up[j] /\ Claimant(j)
  BY <1>1, <1>3, <1>4, <1>5 DEF Claimant
<1>7. ASSUME NEW j \in Instance, Claimant(j)'
      PROVE  Rival(j)'
  <2>1. Rival(j) /\ up[j]
    BY <1>6, <1>7 DEF Contest
  <2>2. sinceTick[j] \in Nat /\ sinceTick[j] < Timeout /\ sinceTick'[j] = sinceTick[j] + 1
    BY <1>5, <2>1
  <2>3. topic'[1].leader = j => topic'[1].age = sinceTick'[j] /\ \A l \in led' : l[2] < topic'[1].epoch
    BY <1>1, <1>2, <1>3, <2>1, <2>2 DEF Rival
  <2>4. \A k \in Index(j)' : IF queue'[j][k].leader = j THEN queue'[j][k].age = sinceTick'[j]
                             ELSE sinceTick'[j] <= queue'[j][k].age + Lag
    BY <1>4, <1>5, <2>1, <2>2, Numbers DEF Rival
  <2>5. ASSUME NEW d \in Instance \ {j}, up[d]
        PROVE  Informed(j, d)'
    <3>1. Informed(j, d)
      BY <2>1, <2>5 DEF Rival
    <3>2. CASE \E k \in Index(d) : queue[d][k].age = sinceTick[j]
      BY <1>4, <1>5, <2>2, <2>5, <3>2 DEF Informed
    <3>3. CASE /\ view[d].leader # Nobody /\ view[d].age <= sinceTick[j]
               /\ \A k \in Index(d) : queue[d][k].age <= sinceTick[j]
      <4>1. view[d].age \in Nat /\ view[d].age < Timeout
        BY <1>3, <1>4, <2>2, <3>3, Numbers
      <4>2. view'[d].leader = view[d].leader /\ view'[d].age = view[d].age + 1
        BY <1>3, <1>4, <4>1
      <4>3. view'[d].age <= sinceTick'[j]
        BY <2>2, <3>3, <4>1, <4>2
      <4>4. \A k \in Index(d)' : queue'[d][k].age <= sinceTick'[j]
        BY <1>4, <1>5, <2>2, <2>5, <3>3
      <4>5. QED
        BY <3>3, <4>2, <4>3, <4>4 DEF Informed
    <3>4. QED
      BY <3>1, <3>2, <3>3 DEF Informed
  <2>6. QED
    BY <1>1, <2>3, <2>4, <2>5 DEF Rival
<1>8. ASSUME NEW d \in Instance, up[d]
      PROVE  /\ Expecting(d)' \/ Past(view[d].epoch)'
             /\ \A k \in Index(d)' : Past(queue[d][k].epoch)'
  <2>1. (Expecting(d) \/ Past(view[d].epoch)) /\ \A k \in Index(d) : Past(queue[d][k].epoch)
    BY <1>8 DEF Contest
  <2>2. view'[d].epoch = view[d].epoch
    BY <1>3, <1>4
  <2>3. \A k \in Index(d) : queue'[d][k].epoch = queue[d][k].epoch
    BY <1>5, <1>8
  <2>4. \A k \in Index(d)' : Past(queue[d][k].epoch)'
    BY <1>1, <1>4, <2>1, <2>3 DEF Past
  <2>5. Expecting(d)' \/ Past(view[d].epoch)'
    BY <1>1, <1>8, <2>1, <2>2, ExpectingTick DEF Past
  <2>6. QED
    BY <2>4, <2>5
<1>9. Past(topic[1].epoch)'
  <2>1. topic'[1].epoch = topic[1].epoch
    BY <1>1, <1>2, <1>3
  <2>2. QED
    BY <1>1, <2>1 DEF Contest, Past
<1>10. Contest'
  BY <1>1, <1>7, <1>8, <1>9 DEF Contest
<1>11. QED
  BY <1>1, <1>10, CoherentTick

-----------------------------------------------------------------------------
(* One leader.                                                             *)

LEMMA LeaseInit == LeaseConditions /\ Init => LeaseInv
<1> SUFFICES ASSUME LeaseConditions, Init PROVE LeaseInv
  OBVIOUS
<1>1. /\ topic = <<>> /\ led = {}
      /\ \A j \in Instance : /\ ~active[j] /\ view[j].leader = Nobody /\ pc[j] = "boot" /\ queue[j] = <<>>
                             /\ sinceStart[j] = 0
  BY DEF Init, Fresh, LeaseConditions
<1>2. \A j \in Instance : sinceTick[j] <= ElectionPeriod
  BY TimeAssumption DEF Init
<1>3. \A j \in Instance : Index(j) = {}
  BY <1>1 DEF Index
<1>4. Coherent
  BY <1>1, <1>2, <1>3 DEF Coherent, Queued, UpToDate, Placed
<1>5. Silent
  BY <1>1 DEF Silent, LeaseConditions
<1>6. QED
  BY <1>1, <1>4, <1>5 DEF LeaseInv

\* What a step may do to the topic's condition, and when it starts an engine.
LEMMA RegimeStep ==
  ASSUME TypeOK, DecidedInv, LeaseConditions, LeaseInv, Next, ~overslept'
  PROVE  /\ Coherent' /\ Regime'
         /\ led' = led \/ \E j \in Instance : Led(j)' /\ led' = led \cup {<<j, topic'[1].epoch>>}
<1>1. CASE Silent
  <2>1. ASSUME NEW i \in Instance, Step(i)
        PROVE  Coherent' /\ Regime' /\ led' = led
    BY <1>1, <2>1, SilentElection, SilentRest DEF Step, LeaseInv
  <2>2. ASSUME NEW i \in Instance, NextTurn(i) \/ Decide(i) \/ Crash(i) \/ Restart(i)
        PROVE  Coherent' /\ Regime' /\ led' = led
    BY <1>1, <2>2, SilentRest, SilentCrash, NoReturn DEF LeaseInv
  <2>3. QED
    BY <1>1, <2>1, <2>2, SilentTick DEF Next, LeaseInv
<1>2. CASE Contest
  <2>1. ASSUME NEW i \in Instance, Step(i)
        PROVE  /\ Coherent' /\ Regime'
               /\ led' = led \/ (Led(i)' /\ led' = led \cup {<<i, topic'[1].epoch>>})
    BY <1>2, <2>1, ContestElection, ContestStart, ContestClaim, ContestApply, ContestDeliver, ContestNoEngine
       DEF Step, LeaseInv, Regime
  <2>2. ASSUME NEW i \in Instance, NextTurn(i) \/ Decide(i) \/ Crash(i) \/ Restart(i)
        PROVE  Coherent' /\ Regime' /\ led' = led
    BY <1>2, <2>2, ContestNoEngine, ContestCrash, NoReturn DEF LeaseInv, Regime
  <2>3. Tick => Coherent' /\ Regime' /\ led' = led
    BY <1>2, ContestTick DEF LeaseInv, Regime
  <2>4. QED
    BY <2>1, <2>2, <2>3 DEF Next
<1>3. ASSUME NEW l \in Instance, Led(l)
      PROVE  /\ Coherent' /\ Regime'
             /\ led' = led \/ \E j \in Instance : Led(j)' /\ led' = led \cup {<<j, topic'[1].epoch>>}
  <2>1. ASSUME NEW i \in Instance, Step(i)
        PROVE  /\ Coherent' /\ Regime'
               /\ led' = led \/ (Led(l)' /\ led' = led \cup {<<l, topic'[1].epoch>>})
    BY <1>3, <2>1, LedElection, LedNoStepDown, LedStart, LedNoClaim, LedApply, LedDeliver, LedTurn
       DEF Step, LeaseInv, Regime
  <2>2. ASSUME NEW i \in Instance, NextTurn(i) \/ Decide(i) \/ Crash(i) \/ Restart(i)
        PROVE  Coherent' /\ Regime' /\ led' = led
    BY <1>3, <2>2, LedTurn, LedCrash, NoReturn DEF LeaseInv, Regime
  <2>3. Tick => Coherent' /\ Regime' /\ led' = led
    BY <1>3, LedTick DEF LeaseInv, Regime
  <2>4. QED
    BY <2>1, <2>2, <2>3 DEF Next
<1>4. QED
  BY <1>1, <1>2, <1>3 DEF LeaseInv

LEMMA LeaseStep ==
  ASSUME TypeOK, DecidedInv, LeaseConditions, LeaseInv, [Next]_vars, ~overslept'
  PROVE  LeaseInv'
<1>1. CASE Next
  <2>1. /\ Coherent' /\ Regime'
        /\ led' = led \/ \E j \in Instance : Led(j)' /\ led' = led \cup {<<j, topic'[1].epoch>>}
    BY <1>1, RegimeStep
  <2>2. \A a, b \in led : a[2] = b[2] => a[1] = b[1]
    BY DEF LeaseInv
  <2>3. \A a, b \in led' : a[2] = b[2] => a[1] = b[1]
    <3>1. CASE led' = led
      BY <2>2, <3>1
    <3>2. ASSUME NEW j \in Instance, Led(j)', led' = led \cup {<<j, topic'[1].epoch>>}
          PROVE  \A a, b \in led' : a[2] = b[2] => a[1] = b[1]
      <4>1. TypeOK'
        BY TypeStep
      <4>2. topic'[1].epoch \in Nat
        <5>1. topic' \in Seq(Session) /\ topic' # <<>>
          BY <3>2, <4>1 DEF TypeOK, Led
        <5>2. Len(topic') \in Nat /\ Len(topic') # 0
          BY <5>1, EmptySeq
        <5>3. topic'[1] \in Session
          BY <5>1, <5>2
        <5>4. QED
          BY <5>3, Fields
      <4>3. \A l \in led' : l[2] < topic'[1].epoch \/ l = <<j, topic'[1].epoch>>
        BY <3>2 DEF Led
      <4>4. QED
        BY <2>2, <3>2, <4>2, <4>3
    <3>3. QED
      BY <2>1, <3>1, <3>2
  <2>4. QED
    BY <2>1, <2>3 DEF LeaseInv, Regime
<1>2. CASE UNCHANGED vars
  <2>1. /\ UNCHANGED <<up, view, active, pc, draft, queue, topic, sinceTick, sinceStart, asleep, led>>
    BY <1>2 DEF vars, timers
  <2>2. \A j \in Instance : Index(j)' = Index(j)
    BY <2>1 DEF Index
  <2>3. Coherent'
    BY <2>1, <2>2 DEF LeaseInv, Coherent, Queued, UpToDate, Placed
  <2>4. \A j \in Instance : Expecting(j)' <=> Expecting(j)
    BY <2>1 DEF Expecting
  <2>5. Silent => Silent'
    BY <2>1 DEF Silent
  <2>6. ASSUME NEW i \in Instance, Led(i)
        PROVE  Led(i)'
    BY <2>1, <2>2, <2>4, <2>6 DEF Led, Titled, Slack, Follower
  <2>7. ASSUME Contest
        PROVE  Contest'
    <3>1. \A j \in Instance : Claimant(j)' => Claimant(j)
      BY <2>1, <2>2 DEF Claimant
    <3>2. \A j, d \in Instance : Informed(j, d)' <=> Informed(j, d)
      BY <2>1, <2>2 DEF Informed
    <3>3. \A j \in Instance : Rival(j)' <=> Rival(j)
      BY <2>1, <2>2, <3>2 DEF Rival
    <3>4. QED
      BY <2>1, <2>2, <2>4, <2>7, <3>1, <3>3 DEF Contest, Past
  <2>8. QED
    BY <2>1, <2>3, <2>5, <2>6, <2>7 DEF LeaseInv
<1>3. QED
  BY <1>1, <1>2

\* Who has overslept stays so.
LEMMA Oversleeping ==
  ASSUME [Next]_vars, overslept
  PROVE  overslept'
<1>1. ASSUME NEW i \in Instance, Step(i)
      PROVE  overslept' = overslept
  BY <1>1 DEF Step, Bootstrap, Heartbeat, StepDown, StartRuntime, Claim, StandBy, ApplyOwn, Deliver,
              PublishTurn, Announce, PublishOver, CacheUpdate, PublishAndApply
<1>2. ASSUME NEW i \in Instance, NextTurn(i) \/ Decide(i) \/ Crash(i) \/ Restart(i)
      PROVE  overslept' = overslept
  BY <1>2 DEF NextTurn, Decide, Crash, Restart
<1>3. Tick => overslept'
  BY DEF Tick
<1>4. QED
  BY <1>1, <1>2, <1>3 DEF Next, vars

LEMMA Leased ==
  ASSUME LeaseConditions
  PROVE  Spec => [](TypeOK /\ DecidedInv /\ (overslept \/ LeaseInv))
<1>1. TypeOK /\ DecidedInv /\ (overslept \/ LeaseInv) /\ [Next]_vars => (overslept' \/ LeaseInv')
  BY LeaseStep, Oversleeping
<1>2. QED
  BY <1>1, LeaseInit, Typed, PTL DEF Spec

LEMMA OneEngine ==
  ASSUME LeaseInv
  PROVE  \A i, j \in Instance : active[i] /\ active[j] => i = j
<1>1. Silent => \A i \in Instance : ~active[i]
  BY DEF LeaseInv, Coherent, Silent
<1>2. Contest => \A i \in Instance : ~active[i]
  BY DEF Contest
<1>3. ASSUME NEW l \in Instance, Led(l)
      PROVE  \A i \in Instance : active[i] => i = l
  BY <1>3 DEF LeaseInv, Coherent, Led, Follower
<1>4. QED
  BY <1>1, <1>2, <1>3 DEF LeaseInv

\* For any number of instances and of crashes, at any moment: if records arrive within half an
\* election period, two periods and the delay fit in the timeout and who has crashed stays away
\* (all true of the code's 3 s and 15 s), two engines never run at once until one of them has
\* slept for longer than the rest of its lease, although nothing compares epochs and claims are
\* not atomic.
THEOREM OneLeaderAtATime ==
  ASSUME LeaseConditions
  PROVE  Spec => []AtMostOneLeader
<1>1. overslept \/ LeaseInv => AtMostOneLeader
  <2> SUFFICES ASSUME LeaseInv
               PROVE  Cardinality({i \in Instance : active[i]}) <= 1
    BY DEF AtMostOneLeader
  <2>1. CASE {i \in Instance : active[i]} = {}
    BY <2>1, FS_EmptySet
  <2>2. CASE {i \in Instance : active[i]} # {}
    <3>1. PICK l \in Instance : active[l]
      BY <2>2
    <3>2. {i \in Instance : active[i]} = {l}
      BY <3>1, OneEngine
    <3>3. Cardinality({l}) = 1
      BY FS_Singleton
    <3>4. QED
      BY <3>2, <3>3
  <2>3. QED
    BY <2>1, <2>2
<1>2. QED
  BY <1>1, Leased, PTL

\* Under the same conditions and until then no two leaders ever run under one epoch, although the epoch of a
\* claim is only what the claimant's cache holds and one more: what an engine ran under is in
\* the topic and, before they can claim, in everyone's cache.
THEOREM EpochsHaveOneLeader ==
  ASSUME LeaseConditions
  PROVE  Spec => []OneLeaderPerEpoch
<1>1. overslept \/ LeaseInv => OneLeaderPerEpoch
  BY DEF LeaseInv, OneLeaderPerEpoch
<1>2. QED
  BY <1>1, Leased, PTL
=============================================================================
