------------------------- MODULE DelayQueueProofs -------------------------
(***************************************************************************)
(* Proofs about DelayQueue, for any number of workers, tasks and faults,   *)
(* any limit and any clock.                                                *)
(*                                                                         *)
(* Everything but the type invariant is proved for tasks with ids of their *)
(* own, as generated ids are: with a reused id the statements are false.   *)
(***************************************************************************)
EXTENDS DelayQueue, FiniteSetTheorems, TLAPS

DistinctIds == \A t, u \in Tasks : IdOf[t] = IdOf[u] => t = u

-----------------------------------------------------------------------------
(* The inductive invariant. *)

\* The call w is inside has claimed id with ZREM and is not done with it.
Owns(w, id) ==
  call[w].op \in {"load", "publish", "restore", "delete"} /\ call[w].id = id

\* The task that is scheduled under id was to be released at n or before.
DueBy(id, n) == \E t \in DOMAIN asked : IdOf[t] = id /\ asked[t] <= n

\* An envelope says what delay() was asked for.
Genuine(env) == env.task \in DOMAIN asked /\ env.at = asked[env.task]

\* So is what a running call knows.
FrameRecorded(f) ==
  /\ f.op \in {"zadd", "undo", "publish", "restore", "delete"} => Genuine(f.env)
  /\ f.op \in {"publish", "restore", "delete"} => f.id = IdOf[f.env.task]
  /\ f.op \in {"claim", "load", "publish", "restore", "delete"} =>
       \A e \in f.todo : DueBy(e.id, now)
  /\ f.op \in {"load", "publish", "restore", "delete"} => DueBy(f.id, now)

\* Everything that Redis and the running calls know of a task is what its
\* delay() was called with, or later.
Recorded ==
  /\ \A id \in DOMAIN payload : IdOf[payload[id].task] = id /\ Genuine(payload[id])
  /\ \A id \in DOMAIN zset : DueBy(id, zset[id])
  /\ \A w \in Workers : FrameRecorded(call[w])
  /\ accepted \subseteq DOMAIN asked
  /\ \A t \in Tasks : released[t] > 0 => t \in DOMAIN asked

\* An id is in the sorted set or held by the one call that claimed it.
OneHolder ==
  \A w \in Workers, id \in Ids :
    Owns(w, id) => ~Has(zset, id) /\ \A v \in Workers : Owns(v, id) => v = w

Waits(w) == call[w].op \in {"zadd", "undo"}

\* delay() runs once for a task, which is not accepted before it returns ...
OneDelay ==
  \A w \in Workers :
    Waits(w) =>
      /\ call[w].env.task \notin accepted
      /\ \A v \in Workers :
           Waits(v) /\ call[v].env.task = call[w].env.task => v = w

\* ... and which nobody can have scanned, claimed or released before its ZADD.
Unscheduled ==
  \A w \in Workers :
    call[w].op = "zadd" =>
      LET t == call[w].env.task
      IN /\ Has(payload, IdOf[t]) /\ payload[IdOf[t]].task = t
         /\ ~Has(zset, IdOf[t]) /\ \A v \in Workers : ~Owns(v, IdOf[t])
         /\ released[t] = 0

\* schedule_due deletes what it has published.
Published == \A w \in Workers : call[w].op = "delete" => released[call[w].env.task] > 0

Exclusive == OneHolder /\ OneDelay /\ Unscheduled /\ Published

IInv == TypeOK /\ Recorded /\ Exclusive

-----------------------------------------------------------------------------
(* What the parts of a step do. *)

\* SET and ZADD write one key, DELETE and ZREM remove one.
LEMMA Putting ==
  ASSUME NEW m, NEW k, NEW x
  PROVE  /\ DOMAIN Put(m, k, x) = DOMAIN m \cup {k}
         /\ Put(m, k, x)[k] = x
         /\ \A j \in DOMAIN m : j # k => Put(m, k, x)[j] = m[j]
BY DEF Put

LEMMA Removing ==
  ASSUME NEW m, NEW k
  PROVE  /\ DOMAIN Remove(m, k) = DOMAIN m \ {k}
         /\ \A j \in DOMAIN m : j # k => Remove(m, k)[j] = m[j]
BY DEF Remove

\* The frames of a call, by the command it is about to send.
LEMMA FrameFields ==
  ASSUME NEW f \in Frame
  PROVE  /\ f.op \in {"idle", "zadd", "undo", "claim", "load", "publish", "restore", "delete"}
         /\ f.op = "idle" => f = Idle
         /\ f.op \in {"zadd", "undo", "publish", "restore", "delete"} => f.env \in Envelope
         /\ f.op \in {"claim", "load", "publish", "restore", "delete"} =>
              f.now \in Time /\ f.todo \in SUBSET Entry
         /\ f.op \in {"load", "publish", "restore", "delete"} => f.id \in Ids
BY DEF Frame, Idle

LEMMA DelayingFrame ==
  ASSUME NEW op \in {"zadd", "undo"}, NEW env \in Envelope
  PROVE  /\ Delaying(op, env) \in Frame
         /\ Delaying(op, env).op = op
         /\ Delaying(op, env).env = env
BY DEF Delaying, Frame

LEMMA ScanningFrame ==
  ASSUME NEW n \in Time, NEW todo \in SUBSET Entry
  PROVE  /\ Scanning(n, todo) \in Frame
         /\ Scanning(n, todo).op \in {"idle", "claim"}
         /\ Scanning(n, todo).op = "claim" => Scanning(n, todo).todo = todo
BY DEF Scanning, Frame, Idle

LEMMA LoadingFrame ==
  ASSUME NEW f \in Frame, f.op = "claim", NEW e \in Entry
  PROVE  /\ Loading(f, e) \in Frame
         /\ Loading(f, e).op = "load"
         /\ Loading(f, e).id = e.id
         /\ Loading(f, e).todo = f.todo \ {e}
<1>1. f.now \in Time /\ f.todo \in SUBSET Entry
  BY FrameFields
<1>2. e.id \in Ids
  BY DEF Entry
<1> QED BY <1>1, <1>2 DEF Loading, Frame

LEMMA ReleasingFrame ==
  ASSUME NEW f \in Frame, f.op \in {"load", "publish", "restore", "delete"},
         NEW op \in {"publish", "restore", "delete"}, NEW env \in Envelope
  PROVE  /\ Releasing(op, f, env) \in Frame
         /\ Releasing(op, f, env).op = op
         /\ Releasing(op, f, env).id = f.id
         /\ Releasing(op, f, env).env = env
         /\ Releasing(op, f, env).todo = f.todo
<1>1. f.now \in Time /\ f.todo \in SUBSET Entry /\ f.id \in Ids
  BY FrameFields
<1> QED BY <1>1 DEF Releasing, Frame

LEMMA IdleFrame == Idle \in Frame /\ Idle.op = "idle"
BY DEF Frame, Idle

LEMMA Going ==
  ASSUME TypeOK, NEW w \in Workers, NEW f \in Frame, Goto(w, f)
  PROVE  /\ call' \in [Workers -> Frame]
         /\ call'[w] = f
         /\ \A v \in Workers : v # w => call'[v] = call[v]
BY DEF TypeOK, Goto

\* A fault is counted.
LEMMA Faulting ==
  ASSUME TypeOK, NEW kind, Fault(kind)
  PROVE  faults' = faults + 1 /\ faults' \in 0..MaxFaults
BY ConstantsAssumption DEF TypeOK, Fault

-----------------------------------------------------------------------------
(* The steps of a call, by where it goes and what it does to each variable.  *)

Quiet == UNCHANGED <<asked, now>>
Calm == UNCHANGED faults
Faulty == faults' = faults + 1

Scans(w) ==
  /\ call[w].op = "idle" /\ call'[w].op = "claim" /\ call'[w].todo \subseteq Due
  /\ Calm /\ UNCHANGED <<zset, payload, accepted, released>>

Schedules(w) ==
  /\ call[w].op = "zadd" /\ call'[w].op = "idle"
  /\ zset' = Put(zset, IdOf[call[w].env.task], call[w].env.at)
  /\ accepted' = accepted \cup {call[w].env.task}
  /\ Calm /\ UNCHANGED <<payload, released>>

FailsToSchedule(w) ==
  /\ call[w].op = "zadd" /\ call'[w].op = "undo" /\ call'[w].env = call[w].env
  /\ \/ zset' = Put(zset, IdOf[call[w].env.task], call[w].env.at)
     \/ UNCHANGED zset
  /\ Faulty /\ UNCHANGED <<payload, accepted, released>>

Undoes(w) ==
  /\ call[w].op = "undo" /\ call'[w].op = "idle"
  /\ payload' = Remove(payload, IdOf[call[w].env.task])
  /\ Calm \/ Faulty
  /\ UNCHANGED <<zset, accepted, released>>

Skips(w) ==
  /\ call[w].op = "claim" /\ call'[w].op \in {"idle", "claim"}
  /\ call'[w].op = "claim" => call'[w].todo \subseteq call[w].todo
  /\ Calm /\ UNCHANGED <<zset, payload, accepted, released>>

Takes(w) ==
  /\ call[w].op = "claim" /\ call'[w].op = "load"
  /\ call'[w].todo \subseteq call[w].todo
  /\ \E e \in call[w].todo : call'[w].id = e.id
  /\ Has(zset, call'[w].id)
  /\ zset' = Remove(zset, call'[w].id)
  /\ Calm /\ UNCHANGED <<payload, accepted, released>>

TakesUnanswered(w) ==
  /\ call[w].op = "claim" /\ call'[w].op = "idle"
  /\ \E id \in Ids : zset' = Remove(zset, id)
  /\ Faulty /\ UNCHANGED <<payload, accepted, released>>

Loads(w) ==
  /\ call[w].op = "load" /\ call'[w].op = "publish"
  /\ call'[w].id = call[w].id /\ call'[w].todo = call[w].todo
  /\ Has(payload, call[w].id) /\ call'[w].env = payload[call[w].id]
  /\ Calm /\ UNCHANGED <<zset, payload, accepted, released>>

CannotLoad(w) ==
  /\ call[w].op = "load" /\ call'[w].op = "idle"
  /\ Has(payload, call[w].id) => payload[call[w].id].task \in Unreadable
  /\ Calm /\ UNCHANGED <<zset, payload, accepted, released>>

\* The call goes on to op with the entry and the envelope it has.
Keeps(w, op) ==
  /\ call'[w].op = op
  /\ call'[w].id = call[w].id
  /\ call'[w].todo = call[w].todo
  /\ call'[w].env = call[w].env

Publishes(w) ==
  /\ call[w].op = "publish" /\ Keeps(w, "delete")
  /\ Released(call[w].env)
  /\ Calm /\ UNCHANGED <<zset, payload, accepted>>

FailsToPublish(w) ==
  /\ call[w].op = "publish" /\ Keeps(w, "restore")
  /\ Released(call[w].env) \/ UNCHANGED released
  /\ Faulty /\ UNCHANGED <<zset, payload, accepted>>

PutsBack(w) ==
  /\ call[w].op = "restore" /\ call'[w].op = "idle"
  /\ zset' = Put(zset, call[w].id, Score(call[w].env, call[w].now))
  /\ Calm \/ Faulty
  /\ UNCHANGED <<payload, accepted, released>>

Deletes(w) ==
  /\ call[w].op = "delete" /\ call'[w].op \in {"idle", "claim"}
  /\ call'[w].op = "claim" => call'[w].todo = call[w].todo
  /\ payload' = Remove(payload, call[w].id)
  /\ Calm \/ Faulty
  /\ UNCHANGED <<zset, accepted, released>>

Drops(w) ==
  /\ call[w].op # "idle" /\ call'[w].op = "idle"
  /\ Faulty /\ UNCHANGED <<zset, payload, accepted, released>>

Edge(w) ==
  \/ Scans(w) \/ Schedules(w) \/ FailsToSchedule(w) \/ Undoes(w)
  \/ Skips(w) \/ Takes(w) \/ TakesUnanswered(w)
  \/ Loads(w) \/ CannotLoad(w)
  \/ Publishes(w) \/ FailsToPublish(w) \/ PutsBack(w) \/ Deletes(w)
  \/ Drops(w)

\* Only w's call moves, and nothing outside Redis, calls and history does.
Moves(w) ==
  /\ call' \in [Workers -> Frame]
  /\ \A v \in Workers : v # w => call'[v] = call[v]
  /\ faults' \in 0..MaxFaults

LEMMA DelayingEdges ==
  ASSUME TypeOK, NEW w \in Workers,
         Schedule(w) \/ ScheduleRaises(w) \/ Undo(w) \/ UndoRaises(w)
  PROVE  Moves(w) /\ Quiet /\ Edge(w)
<1> DEFINE env == call[w].env
<1>1. call[w] \in Frame /\ faults \in 0..MaxFaults
  BY DEF TypeOK
<1>2. env \in Envelope
  BY <1>1, FrameFields DEF Schedule, ScheduleRaises, Undo, UndoRaises
<1>3. CASE Schedule(w)
  <2>1. Goto(w, Idle)
    BY <1>3 DEF Schedule
  <2>2. Moves(w) /\ call'[w].op = "idle"
    BY <1>1, <1>3, <2>1, Going, IdleFrame DEF Moves, Schedule
  <2>3. Schedules(w) /\ Quiet
    BY <1>3, <2>2 DEF Schedule, AddToSchedule, Schedules, Quiet, Calm
  <2> QED BY <2>2, <2>3 DEF Edge
<1>4. CASE ScheduleRaises(w)
  <2>1. Goto(w, Delaying("undo", env))
    BY <1>4 DEF ScheduleRaises
  <2>2. Faulty /\ faults' \in 0..MaxFaults
    BY <1>4, Faulting DEF ScheduleRaises, Raises, Faulty
  <2>3. Moves(w) /\ call'[w].op = "undo" /\ call'[w].env = env
    BY <1>2, <2>1, <2>2, Going, DelayingFrame DEF Moves
  <2>4. FailsToSchedule(w) /\ Quiet
    BY <1>4, <2>2, <2>3
    DEF ScheduleRaises, Raises, AddToSchedule, FailsToSchedule, Quiet, history
  <2> QED BY <2>3, <2>4 DEF Edge
<1>5. CASE Undo(w)
  <2>1. Goto(w, Idle)
    BY <1>5 DEF Undo
  <2>2. Moves(w) /\ call'[w].op = "idle"
    BY <1>1, <1>5, <2>1, Going, IdleFrame DEF Moves, Undo
  <2>3. Undoes(w) /\ Quiet
    BY <1>5, <2>2 DEF Undo, DropEnvelope, Undoes, Quiet, Calm, history
  <2> QED BY <2>2, <2>3 DEF Edge
<1>6. CASE UndoRaises(w)
  <2>1. Goto(w, Idle)
    BY <1>6 DEF UndoRaises
  <2>2. Faulty /\ faults' \in 0..MaxFaults
    BY <1>6, Faulting DEF UndoRaises, Raises, Faulty
  <2>3. Moves(w) /\ call'[w].op = "idle"
    BY <2>1, <2>2, Going, IdleFrame DEF Moves
  <2>4. (Undoes(w) \/ Drops(w)) /\ Quiet
    BY <1>6, <2>2, <2>3
    DEF UndoRaises, Raises, DropEnvelope, Undoes, Drops, Quiet, history
  <2> QED BY <2>3, <2>4 DEF Edge
<1> QED BY <1>3, <1>4, <1>5, <1>6

LEMMA ScanningEdges ==
  ASSUME TypeOK, NEW w \in Workers,
         ScheduleDue(w) \/ Claim(w) \/ ClaimRaises(w)
  PROVE  Moves(w) /\ Quiet /\ Edge(w)
<1>1. call[w] \in Frame /\ faults \in 0..MaxFaults /\ now \in Time
  BY DEF TypeOK, Time
<1>2. CASE ScheduleDue(w)
  <2>1. PICK todo \in SUBSET Due : todo # {} /\ Goto(w, Scanning(now, todo))
    BY <1>2 DEF ScheduleDue
  <2>2. todo \in SUBSET Entry
    BY <2>1 DEF Due
  <2>3. /\ Moves(w)
        /\ call'[w] = Scanning(now, todo)
        /\ call'[w].op \in {"idle", "claim"}
    BY <1>1, <1>2, <2>1, <2>2, Going, ScanningFrame DEF Moves, ScheduleDue
  <2>4. call'[w].op = "claim" /\ call'[w].todo = todo
    BY <2>1, <2>3 DEF Scanning
  <2>5. Scans(w) /\ Quiet
    BY <1>2, <2>1, <2>4, IdleFrame DEF ScheduleDue, Scans, Quiet, Calm, redis, history
  <2> QED BY <2>3, <2>5 DEF Edge
<1>3. ASSUME Claim(w) \/ ClaimRaises(w)
      PROVE  call[w].op = "claim" /\ call[w].now \in Time /\ call[w].todo \in SUBSET Entry
  BY <1>1, <1>3, FrameFields DEF Claim, ClaimRaises
<1>4. CASE Claim(w)
  <2>1. PICK e \in Earliest(call[w].todo) :
          \/ /\ ~Has(zset, e.id)
             /\ Goto(w, Scanning(call[w].now, call[w].todo \ {e}))
             /\ UNCHANGED zset
          \/ /\ Has(zset, e.id)
             /\ zset' = Remove(zset, e.id)
             /\ Goto(w, Loading(call[w], e))
    BY <1>4 DEF Claim
  <2>2. e \in call[w].todo /\ e \in Entry
    BY <1>3, <1>4, <2>1 DEF Earliest
  <2>3. CASE Goto(w, Scanning(call[w].now, call[w].todo \ {e})) /\ UNCHANGED zset
    <3> DEFINE rest == call[w].todo \ {e}
    <3>1. call[w].now \in Time /\ rest \in SUBSET Entry
      BY <1>3, <1>4
    <3>2. Goto(w, Scanning(call[w].now, rest)) /\ UNCHANGED faults
      BY <1>4, <2>3 DEF Claim
    <3> HIDE DEF rest
    <3>3. /\ Moves(w)
          /\ call'[w].op \in {"idle", "claim"}
          /\ call'[w].op = "claim" => call'[w].todo = rest
      BY <1>1, <3>2, <3>1, Going, ScanningFrame DEF Moves
    <3>4. Skips(w) /\ Quiet
      BY <1>3, <1>4, <2>3, <3>3 DEF Claim, Skips, Quiet, Calm, history, rest
    <3> QED BY <3>3, <3>4 DEF Edge
  <2>4. CASE /\ Has(zset, e.id)
             /\ zset' = Remove(zset, e.id)
             /\ Goto(w, Loading(call[w], e))
    <3>1. /\ Moves(w)
          /\ call'[w].op = "load"
          /\ call'[w].id = e.id
          /\ call'[w].todo = call[w].todo \ {e}
      BY <1>1, <1>3, <1>4, <2>2, <2>4, Going, LoadingFrame DEF Moves, Claim
    <3>2. Takes(w) /\ Quiet
      BY <1>3, <1>4, <2>2, <2>4, <3>1 DEF Claim, Takes, Quiet, Calm, history
    <3> QED BY <3>1, <3>2 DEF Edge
  <2> QED BY <2>1, <2>3, <2>4
<1>5. CASE ClaimRaises(w)
  <2>1. PICK e \in Earliest(call[w].todo) :
          Raises(zset' = Remove(zset, e.id), UNCHANGED zset)
    BY <1>5 DEF ClaimRaises
  <2>2. e.id \in Ids
    BY <1>3, <1>5, <2>1 DEF Earliest, Entry
  <2>3. Faulty /\ faults' \in 0..MaxFaults
    BY <2>1, Faulting DEF Raises, Faulty
  <2>4. Moves(w) /\ call'[w].op = "idle"
    BY <1>5, <2>3, Going, IdleFrame DEF Moves, ClaimRaises
  <2>5. (TakesUnanswered(w) \/ Drops(w)) /\ Quiet
    BY <1>5, <2>1, <2>2, <2>3, <2>4
    DEF ClaimRaises, Raises, TakesUnanswered, Drops, Quiet, history
  <2> QED BY <2>4, <2>5 DEF Edge
<1> QED BY <1>2, <1>4, <1>5

LEMMA ReleasingEdges ==
  ASSUME TypeOK, NEW w \in Workers,
         Load(w) \/ Publish(w) \/ PublishRaises(w)
  PROVE  Moves(w) /\ Quiet /\ Edge(w)
<1>1. call[w] \in Frame /\ faults \in 0..MaxFaults
  BY DEF TypeOK
<1>2. CASE Load(w)
  <2>1. call[w].op = "load"
    BY <1>2 DEF Load
  <2>2. CASE /\ Has(payload, call[w].id)
             /\ Goto(w, Releasing("publish", call[w], payload[call[w].id]))
    <3>1. payload[call[w].id] \in Envelope
      BY <2>2 DEF TypeOK, Has
    <3>2. /\ Moves(w)
          /\ call'[w].op = "publish"
          /\ call'[w].id = call[w].id
          /\ call'[w].env = payload[call[w].id]
          /\ call'[w].todo = call[w].todo
      BY <1>1, <1>2, <2>1, <2>2, <3>1, Going, ReleasingFrame DEF Moves, Load
    <3>3. Loads(w) /\ Quiet
      BY <1>2, <2>2, <3>2 DEF Load, Loads, Quiet, Calm, redis, history
    <3> QED BY <3>2, <3>3 DEF Edge
  <2>3. CASE /\ ~(Has(payload, call[w].id) /\ payload[call[w].id].task \notin Unreadable)
             /\ Goto(w, Idle)
    <3>1. Moves(w) /\ call'[w].op = "idle"
      BY <1>1, <1>2, <2>3, Going, IdleFrame DEF Moves, Load
    <3>2. CannotLoad(w) /\ Quiet
      BY <1>2, <2>3, <3>1 DEF Load, CannotLoad, Quiet, Calm, redis, history
    <3> QED BY <3>1, <3>2 DEF Edge
  <2> QED BY <1>2, <2>2, <2>3 DEF Load
<1>3. ASSUME NEW op \in {"restore", "delete"}, call[w].op = "publish",
             Goto(w, Releasing(op, call[w], call[w].env)), faults' \in 0..MaxFaults
      PROVE  Moves(w) /\ Keeps(w, op)
  <2>1. call[w].env \in Envelope
    BY <1>1, <1>3, FrameFields
  <2> QED BY <1>1, <1>3, <2>1, Going, ReleasingFrame DEF Moves, Keeps
<1>4. CASE Publish(w)
  <2>1. Moves(w) /\ Keeps(w, "delete")
    BY <1>1, <1>3, <1>4 DEF Publish
  <2>2. Publishes(w) /\ Quiet
    BY <1>4, <2>1 DEF Publish, Publishes, Quiet, Calm, redis
  <2> QED BY <2>1, <2>2 DEF Edge
<1>5. CASE PublishRaises(w)
  <2>1. Faulty /\ faults' \in 0..MaxFaults
    BY <1>5, Faulting DEF PublishRaises, Raises, Faulty
  <2>2. Moves(w) /\ Keeps(w, "restore")
    BY <1>1, <1>3, <1>5, <2>1 DEF PublishRaises
  <2>3. FailsToPublish(w) /\ Quiet
    BY <1>5, <2>1, <2>2 DEF PublishRaises, Raises, FailsToPublish, Quiet, redis
  <2> QED BY <2>2, <2>3 DEF Edge
<1> QED BY <1>2, <1>4, <1>5

LEMMA EndingEdges ==
  ASSUME TypeOK, NEW w \in Workers,
         \/ Restore(w) \/ RestoreRaises(w) \/ DeletePayload(w) \/ DeleteRaises(w)
         \/ LoadRaises(w) \/ Crash(w)
  PROVE  Moves(w) /\ Quiet /\ Edge(w)
<1>1. call[w] \in Frame /\ faults \in 0..MaxFaults
  BY DEF TypeOK
<1>2. CASE Restore(w)
  <2>1. Moves(w) /\ call'[w].op = "idle"
    BY <1>1, <1>2, Going, IdleFrame DEF Moves, Restore
  <2>2. PutsBack(w) /\ Quiet
    BY <1>2, <2>1 DEF Restore, PutBack, PutsBack, Quiet, Calm, history
  <2> QED BY <2>1, <2>2 DEF Edge
<1>3. ASSUME RestoreRaises(w) \/ DeleteRaises(w) \/ LoadRaises(w) \/ Crash(w)
      PROVE  Faulty /\ Moves(w) /\ call'[w].op = "idle"
  <2>1. Faulty /\ faults' \in 0..MaxFaults
    BY <1>3, Faulting DEF RestoreRaises, DeleteRaises, LoadRaises, Crash, Raises, Faulty
  <2>2. Goto(w, Idle)
    BY <1>3 DEF RestoreRaises, DeleteRaises, LoadRaises, Crash
  <2> QED BY <2>1, <2>2, Going, IdleFrame DEF Moves
<1>4. CASE RestoreRaises(w)
  <2>1. (PutsBack(w) \/ Drops(w)) /\ Quiet
    BY <1>3, <1>4 DEF RestoreRaises, PutBack, Raises, PutsBack, Drops, Quiet, history
  <2> QED BY <1>3, <1>4, <2>1 DEF Edge
<1>5. CASE DeletePayload(w)
  <2>1. call[w].now \in Time /\ call[w].todo \in SUBSET Entry
    BY <1>1, <1>5, FrameFields DEF DeletePayload
  <2>2. /\ Moves(w)
        /\ call'[w].op \in {"idle", "claim"}
        /\ call'[w].op = "claim" => call'[w].todo = call[w].todo
    BY <1>1, <1>5, <2>1, Going, ScanningFrame DEF Moves, DeletePayload
  <2>3. Deletes(w) /\ Quiet
    BY <1>5, <2>2 DEF DeletePayload, DropEnvelope, Deletes, Quiet, Calm, history
  <2> QED BY <2>2, <2>3 DEF Edge
<1>6. CASE DeleteRaises(w)
  <2>1. (Deletes(w) \/ Drops(w)) /\ Quiet
    BY <1>3, <1>6 DEF DeleteRaises, DropEnvelope, Raises, Deletes, Drops, Quiet, history
  <2> QED BY <1>3, <1>6, <2>1 DEF Edge
<1>7. CASE LoadRaises(w)
  <2>1. Drops(w) /\ Quiet
    BY <1>3, <1>7 DEF LoadRaises, Drops, Quiet, redis, history
  <2> QED BY <1>3, <1>7, <2>1 DEF Edge
<1>8. CASE Crash(w)
  <2>1. call[w].op # "idle"
    BY <1>1, <1>8, FrameFields DEF Crash
  <2>2. Drops(w) /\ Quiet
    BY <1>3, <1>8, <2>1 DEF Crash, Drops, Quiet, redis, history
  <2> QED BY <1>3, <1>8, <2>2 DEF Edge
<1> QED BY <1>2, <1>4, <1>5, <1>6, <1>7, <1>8

LEMMA Edges ==
  ASSUME TypeOK, NEW w \in Workers, ScheduleDue(w) \/ Step(w) \/ StepRaises(w)
  PROVE  Moves(w) /\ Quiet /\ Edge(w)
BY DelayingEdges, ScanningEdges, ReleasingEdges, EndingEdges DEF Step, StepRaises

\* A call of delay(), answered or not.
Asks(w, t, at) ==
  /\ call[w].op = "idle"
  /\ \/ /\ call'[w].op = "zadd" /\ call'[w].env = [task |-> t, at |-> at]
        /\ Calm
     \/ call'[w] = call[w] /\ Faulty
  /\ StoreEnvelope(t, at)
  /\ UNCHANGED <<zset, now, accepted, released>>

LEMMA AskingEdges ==
  ASSUME TypeOK, NEW w \in Workers, NEW t \in Tasks, NEW at \in Time,
         Delay(w, t, at) \/ DelayRaises(w, t, at)
  PROVE  Moves(w) /\ Asks(w, t, at)
<1>1. call[w] \in Frame /\ faults \in 0..MaxFaults
  BY DEF TypeOK
<1>2. CASE Delay(w, t, at)
  <2> DEFINE env == [task |-> t, at |-> at]
  <2>1. env \in Envelope
    BY DEF Envelope
  <2>2. Goto(w, Delaying("zadd", env)) /\ UNCHANGED faults
    BY <1>2 DEF Delay
  <2> HIDE DEF env
  <2>3. Moves(w) /\ call'[w].op = "zadd" /\ call'[w].env = env
    BY <1>1, <2>1, <2>2, Going, DelayingFrame DEF Moves
  <2> QED BY <1>2, <2>3, IdleFrame DEF Delay, Asks, Calm, env
<1>3. CASE DelayRaises(w, t, at)
  <2>1. Faulty /\ faults' \in 0..MaxFaults
    BY <1>3, Faulting DEF DelayRaises, Faulty
  <2> QED BY <1>1, <1>3, <2>1, IdleFrame DEF DelayRaises, Asks, Moves, TypeOK
<1> QED BY <1>2, <1>3

\* What each variable owes to the step of a call.
LEMMA EdgeEffects ==
  ASSUME NEW w \in Workers, Edge(w)
  PROVE  /\ \/ UNCHANGED payload
            \/ /\ Undoes(w) /\ call[w].op = "undo"
               /\ payload' = Remove(payload, IdOf[call[w].env.task])
            \/ /\ Deletes(w) /\ call[w].op = "delete"
               /\ payload' = Remove(payload, call[w].id)
         /\ \/ UNCHANGED zset
            \/ /\ Schedules(w) \/ FailsToSchedule(w)
               /\ call[w].op = "zadd"
               /\ zset' = Put(zset, IdOf[call[w].env.task], call[w].env.at)
            \/ /\ PutsBack(w) /\ call[w].op = "restore"
               /\ zset' = Put(zset, call[w].id, Score(call[w].env, call[w].now))
            \/ /\ Takes(w) \/ TakesUnanswered(w)
               /\ \E k : zset' = Remove(zset, k)
         /\ \/ UNCHANGED accepted
            \/ /\ Schedules(w) /\ call[w].op = "zadd"
               /\ accepted' = accepted \cup {call[w].env.task}
         /\ \/ UNCHANGED released
            \/ /\ Publishes(w) \/ FailsToPublish(w)
               /\ call[w].op = "publish"
               /\ Released(call[w].env)
         /\ Calm \/ Faulty
BY DEF Edge, Scans, Schedules, FailsToSchedule, Undoes, Skips, Takes, TakesUnanswered,
   Loads, CannotLoad, Publishes, FailsToPublish, PutsBack, Deletes, Drops

\* Every step is one of these.
LEMMA Steps ==
  ASSUME TypeOK, [Next]_vars
  PROVE  \/ UNCHANGED vars
         \/ Tick
         \/ \E w \in Workers :
              /\ Moves(w)
              /\ \/ \E t \in Tasks, at \in Time : Asks(w, t, at)
                 \/ Quiet /\ Edge(w)
BY Edges, AskingEdges DEF Next

-----------------------------------------------------------------------------
(* Types. *)

LEMMA EdgeTypes ==
  ASSUME TypeOK, NEW w \in Workers, Moves(w), Quiet, Edge(w)
  PROVE  TypeOK'
<1> DEFINE f == call[w]
<1>1. /\ f \in Frame
      /\ f.op \in {"zadd", "undo", "publish", "restore", "delete"} =>
           f.env \in Envelope /\ f.env.task \in Tasks /\ f.env.at \in Time
      /\ f.op \in {"load", "publish", "restore", "delete"} => f.id \in Ids /\ f.now \in Time
  <2>1. f \in Frame
    BY DEF TypeOK
  <2> HIDE DEF f
  <2>2. \A env \in Envelope : env.task \in Tasks /\ env.at \in Time
    BY DEF Envelope
  <2> QED BY <2>1, <2>2, FrameFields
<1> HIDE DEF f
<1>2. DOMAIN zset' \subseteq Ids /\ \A id \in DOMAIN zset' : zset'[id] \in Time
  <2>1. CASE UNCHANGED zset
    BY <2>1 DEF TypeOK
  <2>2. ASSUME NEW k \in Ids, NEW x \in Time, zset' = Put(zset, k, x)
        PROVE  DOMAIN zset' \subseteq Ids /\ \A id \in DOMAIN zset' : zset'[id] \in Time
    BY <2>2 DEF TypeOK, Put
  <2>3. ASSUME NEW k, zset' = Remove(zset, k)
        PROVE  DOMAIN zset' \subseteq Ids /\ \A id \in DOMAIN zset' : zset'[id] \in Time
    BY <2>3 DEF TypeOK, Remove
  <2>4. CASE \/ UNCHANGED zset
             \/ /\ f.op = "zadd"
                /\ zset' = Put(zset, IdOf[f.env.task], f.env.at)
             \/ /\ f.op = "restore"
                /\ zset' = Put(zset, f.id, Score(f.env, f.now))
             \/ \E k : zset' = Remove(zset, k)
    <3>1. CASE /\ f.op = "zadd"
               /\ zset' = Put(zset, IdOf[f.env.task], f.env.at)
      <4>1. IdOf[f.env.task] \in Ids /\ f.env.at \in Time
        BY <1>1, <3>1, ConstantsAssumption
      <4> QED BY <2>2, <3>1, <4>1
    <3>2. CASE /\ f.op = "restore"
               /\ zset' = Put(zset, f.id, Score(f.env, f.now))
      <4>1. f.id \in Ids /\ Score(f.env, f.now) \in Time
        BY <1>1, <3>2 DEF Score
      <4> QED BY <2>2, <3>2, <4>1
    <3> QED BY <2>1, <2>3, <2>4, <3>1, <3>2
  <2> QED
    BY <2>4, EdgeEffects DEF f
<1>3. DOMAIN payload' \subseteq Ids /\ \A id \in DOMAIN payload' : payload'[id] \in Envelope
  <2>1. \/ UNCHANGED payload
        \/ \E k : payload' = Remove(payload, k)
    BY EdgeEffects
  <2> QED BY <2>1 DEF TypeOK, Remove
<1>4. accepted' \subseteq Tasks /\ released' \in [Tasks -> Nat]
  <2>1. /\ \/ UNCHANGED accepted
           \/ f.op = "zadd" /\ accepted' = accepted \cup {f.env.task}
        /\ \/ UNCHANGED released
           \/ f.op = "publish" /\ Released(f.env)
    BY EdgeEffects DEF f
  <2> QED BY <1>1, <2>1 DEF TypeOK, Released
<1> QED BY <1>2, <1>3, <1>4 DEF TypeOK, Moves, Quiet

LEMMA AskingTypes ==
  ASSUME TypeOK, NEW w \in Workers, Moves(w), NEW t \in Tasks, NEW at \in Time, Asks(w, t, at)
  PROVE  TypeOK'
<1> DEFINE env == [task |-> t, at |-> at]
<1>1. env \in Envelope /\ IdOf[t] \in Ids
  BY ConstantsAssumption DEF Envelope
<1>2. asked' = Put(asked, t, at) /\ payload' = Put(payload, IdOf[t], env)
  BY DEF Asks, StoreEnvelope
<1> HIDE DEF env
<1>3. DOMAIN asked' \subseteq Tasks /\ \A u \in DOMAIN asked' : asked'[u] \in Time
  BY <1>2 DEF TypeOK, Put
<1>4. DOMAIN payload' \subseteq Ids /\ \A id \in DOMAIN payload' : payload'[id] \in Envelope
  BY <1>1, <1>2 DEF TypeOK, Put
<1> QED BY <1>3, <1>4 DEF TypeOK, Moves, Asks

LEMMA InitTypes == Init => TypeOK
<1> SUFFICES ASSUME Init PROVE TypeOK
  OBVIOUS
<1>1. DOMAIN Nothing = {}
  BY DEF Nothing
<1>2. call \in [Workers -> Frame]
  BY IdleFrame DEF Init
<1>3. 1 \in 1..MaxTime /\ 0 \in 0..MaxFaults
  BY ConstantsAssumption
<1> QED BY <1>1, <1>2, <1>3 DEF Init, TypeOK

LEMMA NextTypes == TypeOK /\ [Next]_vars => TypeOK'
<1> SUFFICES ASSUME TypeOK, [Next]_vars PROVE TypeOK'
  OBVIOUS
<1>1. CASE UNCHANGED vars
  BY <1>1 DEF vars, TypeOK
<1>2. CASE Tick
  <2>1. now' \in 1..MaxTime
    BY <1>2, ConstantsAssumption DEF Tick, TypeOK
  <2> QED BY <1>2, <2>1 DEF Tick, TypeOK, history
<1> QED BY <1>1, <1>2, Steps, EdgeTypes, AskingTypes

\* Every variable keeps its type: whatever calls of delay() and schedule_due
\* interleave and wherever they fail, Redis holds ids with envelopes and due
\* times only, and a call is always about to send one of its commands.
THEOREM TypeCorrect == Spec => []TypeOK
BY InitTypes, NextTypes, PTL DEF Spec

-----------------------------------------------------------------------------
(* What Redis and the calls know of a task. *)

\* delay() is asked for new tasks only, and the clock does not go back.
Grows ==
  /\ DOMAIN asked \subseteq DOMAIN asked'
  /\ \A t \in DOMAIN asked : asked'[t] = asked[t]
  /\ now <= now'

LEMMA LaterDue ==
  ASSUME TypeOK, NEW id, NEW n \in Int, NEW m \in Int, n <= m, DueBy(id, n)
  PROVE  DueBy(id, m)
<1>1. PICK t \in DOMAIN asked : IdOf[t] = id /\ asked[t] <= n
  BY DEF DueBy
<1>2. asked[t] \in Int
  BY DEF TypeOK, Time
<1>3. asked[t] <= m
  BY <1>1, <1>2
<1> QED BY <1>1, <1>3 DEF DueBy

LEMMA Growing ==
  ASSUME TypeOK, TypeOK', Grows
  PROVE  /\ \A id, n : DueBy(id, n) => DueBy(id, n)'
         /\ \A id : DueBy(id, now) => DueBy(id, now)'
         /\ \A env : Genuine(env) => Genuine(env)'
         /\ \A f : FrameRecorded(f) => FrameRecorded(f)'
<1>1. \A id, n : DueBy(id, n) => DueBy(id, n)'
  BY DEF DueBy, Grows
<1>2. ASSUME NEW id, DueBy(id, now) PROVE DueBy(id, now)'
  <2>1. PICK t \in DOMAIN asked : IdOf[t] = id /\ asked[t] <= now
    BY <1>2 DEF DueBy
  <2>2. asked[t] \in Int /\ now \in Int /\ now' \in Int
    BY DEF TypeOK, Time
  <2>3. t \in DOMAIN asked' /\ asked'[t] <= now'
    BY <2>1, <2>2 DEF Grows
  <2> QED BY <2>1, <2>3 DEF DueBy
<1>3. \A env : Genuine(env) => Genuine(env)'
  BY DEF Genuine, Grows
<1> QED BY <1>1, <1>2, <1>3 DEF FrameRecorded

LEMMA EdgeRecorded ==
  ASSUME TypeOK, TypeOK', Recorded, NEW w \in Workers, Moves(w), Quiet, Edge(w)
  PROVE  Recorded'
<1> DEFINE f == call[w]
<1>1. Grows
  BY DEF Quiet, Grows, TypeOK
<1>2. /\ FrameRecorded(f)
      /\ f.op \in {"zadd", "undo", "publish", "restore", "delete"} =>
           /\ f.env.task \in DOMAIN asked /\ f.env.at = asked[f.env.task]
           /\ f.env.at \in Time
      /\ f.op \in {"load", "publish", "restore", "delete"} => f.now \in Time
  BY FrameFields DEF Recorded, FrameRecorded, Genuine, TypeOK
<1>3. (\A id \in DOMAIN payload : IdOf[payload[id].task] = id /\ Genuine(payload[id]))'
  <2>1. (UNCHANGED payload) \/ \E k : payload' = Remove(payload, k)
    BY EdgeEffects
  <2>2. \A id \in DOMAIN payload' : id \in DOMAIN payload /\ payload'[id] = payload[id]
    BY <2>1 DEF Remove
  <2> QED BY <2>2 DEF Recorded, Genuine, Quiet
<1>4. (\A id \in DOMAIN zset : DueBy(id, zset[id]))'
  <2>1. CASE (UNCHANGED zset) \/ \E k : zset' = Remove(zset, k)
    <3>1. \A id \in DOMAIN zset' : id \in DOMAIN zset /\ zset'[id] = zset[id]
      BY <2>1 DEF Remove
    <3> QED BY <3>1 DEF Recorded, DueBy, Quiet
  <2>2. ASSUME NEW k, NEW x, zset' = Put(zset, k, x), DueBy(k, x)
        PROVE  (\A id \in DOMAIN zset : DueBy(id, zset[id]))'
    <3>1. /\ DOMAIN zset' = DOMAIN zset \cup {k}
          /\ zset'[k] = x
          /\ \A j \in DOMAIN zset : j # k => zset'[j] = zset[j]
      BY <2>2 DEF Put
    <3> QED BY <2>2, <3>1 DEF Recorded, DueBy, Quiet
  <2>3. CASE f.op = "zadd" /\ zset' = Put(zset, IdOf[f.env.task], f.env.at)
    <3>1. DueBy(IdOf[f.env.task], f.env.at)
      BY <1>2, <2>3 DEF DueBy, Time
    <3> QED BY <2>2, <2>3, <3>1
  <2>4. CASE f.op = "restore" /\ zset' = Put(zset, f.id, Score(f.env, f.now))
    <3>1. f.id = IdOf[f.env.task]
      BY <1>2, <2>4 DEF FrameRecorded
    <3>2. asked[f.env.task] <= Score(f.env, f.now)
      BY <1>2, <2>4 DEF Score, Time
    <3>3. DueBy(f.id, Score(f.env, f.now))
      BY <1>2, <2>4, <3>1, <3>2 DEF DueBy
    <3> QED BY <2>2, <2>4, <3>3
  <2> QED
    BY <2>1, <2>3, <2>4, EdgeEffects
<1>5. FrameRecorded(call[w])'
  <2> PICK g : g = call'[w]
    OBVIOUS
  <2>1. FrameRecorded(g)
    <3>1. CASE Scans(w)
      <4>1. ASSUME NEW e \in g.todo PROVE DueBy(e.id, now)
        <5>1. Has(zset, e.id) /\ zset[e.id] = e.at /\ e.at <= now /\ e.at \in Time
          BY <3>1 DEF Scans, Due, Entry
        <5>2. DueBy(e.id, e.at)
          BY <5>1 DEF Recorded, Has
        <5> QED BY <5>1, <5>2, LaterDue DEF TypeOK, Time
      <4> QED BY <3>1, <4>1 DEF Scans, FrameRecorded
    <3>2. CASE Takes(w)
      BY <1>2, <3>2 DEF Takes, FrameRecorded
    <3>3. CASE Loads(w)
      BY <1>2, <3>3 DEF Loads, FrameRecorded, Recorded, Has
    <3>4. CASE Publishes(w) \/ FailsToPublish(w)
      BY <1>2, <3>4 DEF Publishes, FailsToPublish, Keeps, FrameRecorded
    <3>5. CASE FailsToSchedule(w)
      BY <1>2, <3>5 DEF FailsToSchedule, FrameRecorded
    <3>6. CASE Skips(w) \/ Deletes(w)
      BY <1>2, <3>6 DEF Skips, Deletes, FrameRecorded
    <3>7. CASE g.op = "idle"
      BY <3>7 DEF FrameRecorded
    <3> QED
      BY <3>1, <3>2, <3>3, <3>4, <3>5, <3>6, <3>7
      DEF Edge, Schedules, Undoes, TakesUnanswered, CannotLoad, PutsBack, Drops
  <2>2. FrameRecorded(g)'
    BY <1>1, <2>1, Growing
  <2> QED BY <2>2
<1>6. \A v \in Workers : FrameRecorded(call[v])'
  <2>1. ASSUME NEW v \in Workers, v # w PROVE FrameRecorded(call[v])'
    <3>1. FrameRecorded(call[v])
      BY DEF Recorded
    <3>2. PICK h : h = call[v]
      OBVIOUS
    <3>3. FrameRecorded(h)'
      BY <1>1, <3>1, <3>2, Growing
    <3>4. call'[v] = h
      BY <2>1, <3>2 DEF Moves
    <3> QED BY <3>3, <3>4
  <2> QED BY <1>5, <2>1
<1>7. accepted' \subseteq DOMAIN asked'
  <2>1. \/ UNCHANGED accepted
        \/ f.op = "zadd" /\ accepted' = accepted \cup {f.env.task}
    BY EdgeEffects
  <2> QED BY <1>2, <2>1 DEF Recorded, Quiet
<1>8. \A t \in Tasks : released'[t] > 0 => t \in DOMAIN asked'
  <2>1. (UNCHANGED released) \/ (f.op = "publish" /\ Released(f.env))
    BY EdgeEffects
  <2> QED BY <1>2, <2>1 DEF Recorded, Quiet, Released, TypeOK
<1> QED BY <1>3, <1>4, <1>6, <1>7, <1>8 DEF Recorded

LEMMA AskingRecorded ==
  ASSUME TypeOK, TypeOK', Recorded, NEW w \in Workers, Moves(w),
         NEW t \in Tasks, NEW at \in Time, Asks(w, t, at)
  PROVE  Grows /\ Recorded'
<1> DEFINE env == [task |-> t, at |-> at]
<1>1. env.task = t /\ env.at = at
  OBVIOUS
<1>2. /\ asked' = Put(asked, t, at)
      /\ payload' = Put(payload, IdOf[t], env)
      /\ t \notin DOMAIN asked
      /\ UNCHANGED <<zset, now, accepted, released>>
      /\ \/ call'[w].op = "zadd" /\ call'[w].env = env
         \/ call'[w].op = "idle"
  BY DEF Asks, StoreEnvelope
<1> HIDE DEF env
<1>3. /\ DOMAIN asked' = DOMAIN asked \cup {t}
      /\ asked'[t] = at
      /\ \A u \in DOMAIN asked : asked'[u] = asked[u]
  BY <1>2 DEF Put
<1>4. Grows
  BY <1>2, <1>3 DEF Grows, TypeOK
<1>5. Genuine(env)'
  BY <1>1, <1>3 DEF Genuine
<1>6. (\A id \in DOMAIN payload : IdOf[payload[id].task] = id /\ Genuine(payload[id]))'
  <2>1. ASSUME NEW id \in DOMAIN payload'
        PROVE  (payload'[id] = env /\ id = IdOf[t]) \/ (id \in DOMAIN payload /\ payload'[id] = payload[id])
    BY <1>2 DEF Put
  <2>2. \A id \in DOMAIN payload : IdOf[payload[id].task] = id /\ Genuine(payload[id])
    BY DEF Recorded
  <2> QED BY <1>1, <1>3, <2>1, <2>2 DEF Genuine
<1>7. (\A id \in DOMAIN zset : DueBy(id, zset[id]))'
  BY <1>2, <1>3 DEF Recorded, DueBy
<1>8. (\A v \in Workers : FrameRecorded(call[v]))'
  <2>1. ASSUME NEW v \in Workers, v # w PROVE FrameRecorded(call[v])'
    <3>1. PICK h : h = call[v]
      OBVIOUS
    <3>2. FrameRecorded(h)'
      BY <1>4, <3>1, Growing DEF Recorded
    <3> QED BY <2>1, <3>1, <3>2 DEF Moves
  <2>2. FrameRecorded(call[w])'
    BY <1>2, <1>5 DEF FrameRecorded
  <2> QED BY <2>1, <2>2
<1> QED BY <1>2, <1>3, <1>4, <1>6, <1>7, <1>8 DEF Recorded

LEMMA TickRecorded ==
  ASSUME TypeOK, TypeOK', Recorded, Tick
  PROVE  Recorded'
<1>1. Grows
  BY DEF Tick, Grows, TypeOK, history
<1>2. (\A v \in Workers : FrameRecorded(call[v]))'
  <2>1. ASSUME NEW v \in Workers PROVE FrameRecorded(call[v])'
    <3>1. PICK h : h = call[v]
      OBVIOUS
    <3>2. FrameRecorded(h)'
      BY <1>1, <3>1, Growing DEF Recorded
    <3> QED BY <3>1, <3>2 DEF Tick
  <2> QED BY <2>1
<1> QED BY <1>2 DEF Recorded, Tick, history, DueBy, Genuine

-----------------------------------------------------------------------------
(* Who holds an id. *)

\* The facts about the frame of a call that the cases below use.
LEMMA Known ==
  ASSUME TypeOK, Recorded, NEW w \in Workers
  PROVE  /\ call[w].op \in {"zadd", "undo", "publish", "restore", "delete"} =>
              /\ call[w].env.task \in Tasks
              /\ call[w].env.task \in DOMAIN asked
              /\ IdOf[call[w].env.task] \in Ids
         /\ call[w].op \in {"publish", "restore", "delete"} =>
              call[w].id = IdOf[call[w].env.task]
         /\ call[w].op \in {"load", "publish", "restore", "delete"} =>
              call[w].id \in Ids /\ Owns(w, call[w].id)
<1>1. call[w] \in Frame /\ FrameRecorded(call[w])
  BY DEF TypeOK, Recorded
<1>2. DOMAIN asked \subseteq Tasks
  BY DEF TypeOK
<1> QED BY <1>1, <1>2, FrameFields, ConstantsAssumption DEF FrameRecorded, Genuine, Owns

\* A step of w changes what w holds: what it takes it did not hold before.
LEMMA Holding ==
  ASSUME TypeOK, NEW w \in Workers, Moves(w), Edge(w), NEW id
  PROVE  /\ \A v \in Workers : v # w => (Owns(v, id)' <=> Owns(v, id))
         /\ Owns(w, id)' => Owns(w, id) \/ (Takes(w) /\ id = call'[w].id)
<1>1. \A v \in Workers : v # w => (Owns(v, id)' <=> Owns(v, id))
  BY DEF Moves, Owns
<1>2. Owns(w, id)' => Owns(w, id) \/ (Takes(w) /\ id = call'[w].id)
  BY DEF Owns, Edge, Scans, Schedules, FailsToSchedule, Undoes, Skips, Takes, Keeps,
     TakesUnanswered, Loads, CannotLoad, Publishes, FailsToPublish, PutsBack, Deletes, Drops
<1> QED BY <1>1, <1>2

LEMMA EdgeOneHolder ==
  ASSUME TypeOK, Recorded, Exclusive, NEW w \in Workers, Moves(w), Edge(w)
  PROVE  OneHolder'
<1> DEFINE f == call[w]
<1>1. OneHolder /\ Unscheduled
  BY DEF Exclusive
<1>2. CASE Takes(w)
  <2>1. PICK k : k = call'[w].id
    OBVIOUS
  <2>2. Has(zset, k) /\ DOMAIN zset' = DOMAIN zset \ {k} /\ k \in Ids
    BY <1>2, <2>1 DEF Takes, Remove, Has, TypeOK
  <2>3. \A v \in Workers : ~Owns(v, k)
    BY <1>1, <2>2 DEF OneHolder
  <2>4. \A id \in Ids, v \in Workers : Owns(v, id)' => Owns(v, id) \/ (v = w /\ id = k)
    BY <2>1, Holding
  <2>5. \A id \in Ids : Owns(w, id)' => id = k
    BY <1>2, <2>1 DEF Owns, Takes
  <2> QED BY <1>1, <2>2, <2>3, <2>4, <2>5 DEF OneHolder, Has
<1>3. ASSUME ~Takes(w)
      PROVE  \A id \in Ids, v \in Workers : Owns(v, id)' => Owns(v, id)
  BY <1>3, Holding
<1>4. CASE DOMAIN zset' \subseteq DOMAIN zset /\ ~Takes(w)
  BY <1>1, <1>3, <1>4 DEF OneHolder, Has
<1>5. CASE f.op = "zadd" /\ zset' = Put(zset, IdOf[f.env.task], f.env.at) /\ ~Takes(w)
  <2>1. \A v \in Workers : ~Owns(v, IdOf[f.env.task])
    BY <1>1, <1>5 DEF Unscheduled
  <2>2. DOMAIN zset' = DOMAIN zset \cup {IdOf[f.env.task]}
    BY <1>5 DEF Put
  <2> QED BY <1>1, <1>3, <1>5, <2>1, <2>2 DEF OneHolder, Has
<1>6. CASE PutsBack(w)
  <2>1. PICK k \in Ids : k = f.id /\ Owns(w, k)
    BY <1>6, Known DEF PutsBack
  <2>2. \A v \in Workers : ~Owns(v, k)'
    <3>1. ~Owns(w, k)'
      BY <1>6 DEF PutsBack, Owns
    <3>2. \A v \in Workers : v # w => ~Owns(v, k)
      BY <1>1, <2>1 DEF OneHolder
    <3> QED BY <3>1, <3>2, Holding
  <2>3. DOMAIN zset' = DOMAIN zset \cup {k}
    BY <1>6, <2>1 DEF PutsBack, Put
  <2>4. ~Takes(w)
    BY <1>6 DEF PutsBack, Takes
  <2> QED BY <1>1, <1>3, <2>2, <2>3, <2>4 DEF OneHolder, Has
<1> QED
  <2>1. CASE (UNCHANGED zset) \/ \E k : zset' = Remove(zset, k)
    <3>1. DOMAIN zset' \subseteq DOMAIN zset
      BY <2>1 DEF Remove
    <3> QED BY <1>2, <1>4, <3>1
  <2> QED
    BY <1>2, <1>5, <1>6, <2>1, EdgeEffects

LEMMA EdgeOneDelay ==
  ASSUME TypeOK, Recorded, Exclusive, NEW w \in Workers, Moves(w), Edge(w)
  PROVE  OneDelay'
<1>1. OneDelay
  BY DEF Exclusive
<1>2. \A v \in Workers : v # w => call'[v] = call[v]
  BY DEF Moves
<1>3. /\ Waits(w)' => Waits(w) /\ call'[w].env = call[w].env /\ UNCHANGED accepted
      /\ \/ UNCHANGED accepted
         \/ Waits(w) /\ accepted' = accepted \cup {call[w].env.task}
  BY DEF Waits, Edge, Scans, Schedules, FailsToSchedule, Undoes, Skips, Takes, Keeps,
     TakesUnanswered, Loads, CannotLoad, Publishes, FailsToPublish, PutsBack, Deletes, Drops
<1>4. \A v \in Workers : Waits(v)' => Waits(v) /\ call'[v].env = call[v].env
  BY <1>2, <1>3 DEF Waits
<1>5. ASSUME NEW v \in Workers, Waits(v)' PROVE call'[v].env.task \notin accepted'
  <2>1. CASE v = w
    BY <1>1, <1>3, <1>5, <2>1 DEF OneDelay
  <2>2. CASE v # w
    BY <1>1, <1>3, <1>4, <1>5, <2>2 DEF OneDelay
  <2> QED BY <2>1, <2>2
<1>6. ASSUME NEW u \in Workers, NEW v \in Workers, Waits(u)', Waits(v)',
             call'[v].env.task = call'[u].env.task
      PROVE  v = u
  BY <1>1, <1>4, <1>6 DEF OneDelay
<1> QED BY <1>5, <1>6 DEF OneDelay

LEMMA EdgeUnscheduled ==
  ASSUME DistinctIds, TypeOK, Recorded, Exclusive, NEW w \in Workers, Moves(w), Edge(w)
  PROVE  Unscheduled'
<1> DEFINE f == call[w]
<1>1. OneHolder /\ OneDelay /\ Unscheduled
  BY DEF Exclusive
<1>2. SUFFICES ASSUME NEW v \in Workers, call'[v].op = "zadd",
                      NEW t, t = call'[v].env.task
               PROVE  /\ Has(payload, IdOf[t])' /\ payload'[IdOf[t]].task = t
                      /\ ~Has(zset, IdOf[t])' /\ \A u \in Workers : ~Owns(u, IdOf[t])'
                      /\ released'[t] = 0
  BY DEF Unscheduled
<1>3. call'[w].op # "zadd"
  BY DEF Edge, Scans, Schedules, FailsToSchedule, Undoes, Skips, Takes, Keeps,
     TakesUnanswered, Loads, CannotLoad, Publishes, FailsToPublish, PutsBack, Deletes, Drops
<1>4. v # w /\ call'[v] = call[v]
  BY <1>2, <1>3 DEF Moves
<1>5. /\ call[v].op = "zadd" /\ Waits(v) /\ call[v].env.task = t
      /\ t \in Tasks /\ IdOf[t] \in Ids
  BY <1>2, <1>4, Known DEF Waits
<1>6. /\ Has(payload, IdOf[t]) /\ payload[IdOf[t]].task = t
      /\ ~Has(zset, IdOf[t]) /\ \A u \in Workers : ~Owns(u, IdOf[t])
      /\ released[t] = 0
  BY <1>1, <1>5 DEF Unscheduled
<1>7. /\ f.op \in {"zadd", "undo"} => IdOf[f.env.task] # IdOf[t]
      /\ f.op \in {"publish", "restore", "delete"} => f.id # IdOf[t] /\ f.env.task # t
  <2>1. CASE f.op \in {"zadd", "undo"}
    <3>1. f.env.task # t /\ f.env.task \in Tasks
      BY <1>1, <1>4, <1>5, <2>1, Known DEF OneDelay, Waits
    <3> QED BY <1>5, <2>1, <3>1 DEF DistinctIds
  <2>2. CASE f.op \in {"publish", "restore", "delete"}
    <3>1. Owns(w, f.id) /\ f.id = IdOf[f.env.task]
      BY <2>2, Known
    <3> QED BY <1>6, <2>2, <3>1
  <2> QED BY <2>1, <2>2
<1>8. Has(payload, IdOf[t])' /\ payload'[IdOf[t]] = payload[IdOf[t]]
  <2>1. \/ UNCHANGED payload
        \/ \E k : k # IdOf[t] /\ payload' = Remove(payload, k)
    BY <1>7, EdgeEffects
  <2> QED BY <1>6, <2>1 DEF Remove, Has
<1>9. ~Has(zset, IdOf[t])'
  <2>1. \/ UNCHANGED zset
        \/ \E k : zset' = Remove(zset, k)
        \/ \E k, x : k # IdOf[t] /\ zset' = Put(zset, k, x)
    BY <1>7, EdgeEffects
  <2> QED BY <1>6, <2>1 DEF Remove, Put, Has
<1>10. \A u \in Workers : ~Owns(u, IdOf[t])'
  <2>1. \A u \in Workers : ~Owns(u, IdOf[t])
    BY <1>6
  <2>2. ~(Takes(w) /\ IdOf[t] = call'[w].id)
    BY <1>6 DEF Takes
  <2> QED BY <2>1, <2>2, Holding
<1>11. released'[t] = 0
  <2>1. (UNCHANGED released) \/ (f.op = "publish" /\ Released(f.env))
    BY EdgeEffects
  <2> QED BY <1>5, <1>6, <1>7, <2>1 DEF Released, TypeOK
<1> QED BY <1>6, <1>8, <1>9, <1>10, <1>11

LEMMA EdgePublished ==
  ASSUME TypeOK, Recorded, Exclusive, NEW w \in Workers, Moves(w), Edge(w)
  PROVE  Published'
<1>1. Published
  BY DEF Exclusive
<1>2. /\ (UNCHANGED released) \/ (call[w].op = "publish" /\ Released(call[w].env))
      /\ call'[w].op = "delete" => Publishes(w)
  BY DEF Edge, Scans, Schedules, FailsToSchedule, Undoes, Skips, Takes, Keeps,
     TakesUnanswered, Loads, CannotLoad, Publishes, FailsToPublish, PutsBack, Deletes, Drops
<1>3. \A t \in Tasks : released'[t] \in Nat /\ released[t] \in Nat /\ released'[t] >= released[t]
  BY <1>2, Known DEF Released, TypeOK
<1>4. ASSUME call'[w].op = "delete" PROVE released'[call'[w].env.task] > 0
  BY <1>2, <1>4, Known DEF Publishes, Keeps, Released, TypeOK
<1>5. ASSUME NEW v \in Workers, v # w, call'[v].op = "delete"
      PROVE  released'[call'[v].env.task] > 0
  <2>1. call'[v] = call[v] /\ call[v].op = "delete"
    BY <1>5 DEF Moves
  <2>2. call[v].env.task \in Tasks /\ released[call[v].env.task] > 0
    BY <1>1, <2>1, Known DEF Published
  <2> QED BY <1>3, <2>1, <2>2
<1> QED BY <1>4, <1>5 DEF Published

LEMMA AskingExclusive ==
  ASSUME DistinctIds, TypeOK, Recorded, Exclusive, NEW w \in Workers, Moves(w),
         NEW t \in Tasks, NEW at \in Time, Asks(w, t, at)
  PROVE  Exclusive'
<1> DEFINE env == [task |-> t, at |-> at]
<1>1. env.task = t
  OBVIOUS
<1>2. /\ payload' = Put(payload, IdOf[t], env)
      /\ t \notin DOMAIN asked
      /\ UNCHANGED <<zset, accepted, released>>
      /\ call[w].op = "idle"
      /\ \/ call'[w].op = "zadd" /\ call'[w].env = env
         \/ call'[w].op = "idle"
  BY DEF Asks, StoreEnvelope
<1> HIDE DEF env
<1>3. \A v \in Workers : v # w => call'[v] = call[v]
  BY DEF Moves
<1>4. \A v \in Workers :
        call'[v].op # "idle" /\ ~(v = w /\ call'[v].op = "zadd" /\ call'[v].env = env) =>
          v # w /\ call'[v] = call[v]
  BY <1>2, <1>3
<1>5. \A v \in Workers, id \in Ids : Owns(v, id)' => Owns(v, id)
  BY <1>2, <1>4 DEF Owns
<1>6. OneHolder'
  BY <1>2, <1>5 DEF OneHolder, Exclusive, Has
<1>7. \A v \in Workers : Waits(v) => call[v].env.task # t
  BY <1>2, Known DEF Waits
<1>8. OneDelay'
  <2>1. t \notin accepted
    BY <1>2 DEF Recorded
  <2> QED BY <1>1, <1>2, <1>4, <1>7, <2>1 DEF OneDelay, Exclusive, Waits
<1>9. /\ payload'[IdOf[t]].task = t /\ Has(payload, IdOf[t])'
      /\ \A id \in DOMAIN payload : id # IdOf[t] => Has(payload, id)' /\ payload'[id] = payload[id]
  BY <1>1, <1>2 DEF Put, Has
<1>10. ASSUME NEW v \in Workers, call'[v].op = "zadd", NEW u, u = call'[v].env.task
       PROVE  /\ Has(payload, IdOf[u])' /\ payload'[IdOf[u]].task = u
              /\ ~Has(zset, IdOf[u])' /\ \A x \in Workers : ~Owns(x, IdOf[u])'
              /\ released'[u] = 0
  <2>1. CASE v = w
    <3>1. u = t /\ IdOf[t] \in Ids
      BY <1>1, <1>2, <1>10, <2>1, ConstantsAssumption
    <3>2. \A n : ~DueBy(IdOf[t], n)
      BY <1>2 DEF DueBy, DistinctIds, TypeOK
    <3>3. ~Has(zset, IdOf[t])
      BY <3>2 DEF Recorded, Has
    <3>4. \A x \in Workers : ~Owns(x, IdOf[t])
      BY <3>2 DEF Recorded, FrameRecorded, Owns
    <3>5. released[t] = 0
      BY <1>2 DEF Recorded, TypeOK
    <3> QED BY <1>2, <1>5, <1>9, <3>1, <3>3, <3>4, <3>5 DEF Has
  <2>2. CASE v # w
    <3>1. call'[v] = call[v] /\ call[v].op = "zadd"
      BY <1>3, <1>10, <2>2
    <3>2. u \in Tasks /\ IdOf[u] \in Ids /\ IdOf[u] # IdOf[t]
      BY <1>7, <1>10, <3>1, Known DEF Waits, DistinctIds
    <3>3. /\ Has(payload, IdOf[u]) /\ payload[IdOf[u]].task = u
          /\ ~Has(zset, IdOf[u]) /\ \A x \in Workers : ~Owns(x, IdOf[u])
          /\ released[u] = 0
      BY <1>10, <3>1 DEF Unscheduled, Exclusive
    <3> QED BY <1>2, <1>5, <1>9, <3>2, <3>3 DEF Has
  <2> QED BY <2>1, <2>2
<1>11. Unscheduled'
  BY <1>10 DEF Unscheduled
<1>12. Published'
  BY <1>2, <1>4 DEF Published, Exclusive
<1> QED BY <1>6, <1>8, <1>11, <1>12 DEF Exclusive

LEMMA InitInv == Init => IInv
<1> SUFFICES ASSUME Init PROVE IInv
  OBVIOUS
<1>1. DOMAIN Nothing = {}
  BY DEF Nothing
<1>2. \A w \in Workers : call[w].op = "idle"
  BY IdleFrame DEF Init
<1>3. Recorded
  BY <1>1, <1>2 DEF Init, Recorded, FrameRecorded
<1>4. Exclusive
  BY <1>2 DEF Exclusive, OneHolder, OneDelay, Unscheduled, Published, Owns, Waits
<1> QED BY <1>3, <1>4, InitTypes DEF IInv

LEMMA NextInv == DistinctIds /\ IInv /\ [Next]_vars => IInv'
<1> SUFFICES ASSUME DistinctIds, IInv, [Next]_vars PROVE IInv'
  OBVIOUS
<1>1. TypeOK /\ Recorded /\ Exclusive /\ TypeOK'
  BY NextTypes DEF IInv
<1>2. CASE UNCHANGED vars
  <2>1. Recorded'
    BY <1>1, <1>2 DEF vars, Recorded, FrameRecorded, Genuine, DueBy
  <2>2. Exclusive'
    BY <1>1, <1>2
    DEF vars, Exclusive, OneHolder, OneDelay, Unscheduled, Published, Owns, Waits, Has
  <2> QED BY <1>1, <2>1, <2>2 DEF IInv
<1>3. CASE Tick
  <2>1. Exclusive'
    BY <1>1, <1>3 DEF Tick, history,
       Exclusive, OneHolder, OneDelay, Unscheduled, Published, Owns, Waits, Has
  <2> QED BY <1>1, <1>3, <2>1, TickRecorded DEF IInv
<1>4. ASSUME NEW w \in Workers, Moves(w),
             NEW t \in Tasks, NEW at \in Time, Asks(w, t, at)
      PROVE  IInv'
  BY <1>1, <1>4, AskingRecorded, AskingExclusive DEF IInv
<1>5. ASSUME NEW w \in Workers, Moves(w), Quiet, Edge(w)
      PROVE  IInv'
  BY <1>1, <1>5, EdgeRecorded, EdgeOneHolder, EdgeOneDelay, EdgeUnscheduled, EdgePublished
  DEF IInv, Exclusive
<1> QED BY <1>1, <1>2, <1>3, <1>4, <1>5, Steps

\* What Redis, the calls and the callers know of the tasks agrees: an id is in
\* the sorted set or held by one schedule_due, never both and never by two, and
\* carries the time and the task that delay() was called with.
THEOREM InvariantHolds ==
  ASSUME DistinctIds
  PROVE  Spec => []IInv
BY InitInv, NextInv, PTL DEF Spec

-----------------------------------------------------------------------------
(* Publishing before the time. *)

LEMMA StepNeverEarly ==
  ASSUME DistinctIds, IInv, [Next]_vars, NEW t \in Tasks, released'[t] > released[t]
  PROVE  asked[t] <= now
<1>1. TypeOK /\ Recorded /\ released[t] \in Nat
  BY DEF IInv, TypeOK
<1>2. PICK w \in Workers : call[w].op = "publish" /\ call[w].env.task = t
  <2>1. released' # released
    BY <1>1
  <2>2. PICK w \in Workers : Moves(w) /\ Quiet /\ Edge(w)
    BY <1>1, <2>1, Steps DEF vars, Tick, history, Asks
  <2>3. call[w].op = "publish" /\ Released(call[w].env)
    BY <2>1, <2>2, EdgeEffects
  <2>4. call[w].env.task = t
    BY <1>1, <2>3 DEF Released, TypeOK
  <2> QED BY <2>3, <2>4
<1>3. call[w].id = IdOf[t] /\ DueBy(call[w].id, now)
  BY <1>1, <1>2 DEF Recorded, FrameRecorded
<1>4. PICK u \in DOMAIN asked : IdOf[u] = IdOf[t] /\ asked[u] <= now
  BY <1>3 DEF DueBy
<1>5. u = t
  BY <1>1, <1>4 DEF DistinctIds, TypeOK
<1> QED BY <1>4, <1>5

\* No task is published before the time it was asked for, on any clock and with
\* any number of workers that scan, claim and put back the same entries.
THEOREM NeverEarlyHolds ==
  ASSUME DistinctIds
  PROVE  Spec => NeverEarly
<1>1. IInv /\ [Next]_vars
        => [\A t \in Tasks : released'[t] > released[t] => asked[t] <= now]_vars
  BY StepNeverEarly
<1> QED BY <1>1, InvariantHolds, PTL DEF Spec, NeverEarly

-----------------------------------------------------------------------------
(* Counting: each fault pays for one element. *)

Paid(S) == IsFiniteSet(S) /\ Cardinality(S) <= faults

LEMMA PaidSubset ==
  ASSUME TypeOK, NEW S, NEW T, Paid(S), T \subseteq S
  PROVE  Paid(T)
<1>1. IsFiniteSet(T) /\ Cardinality(T) <= Cardinality(S)
  BY FS_Subset DEF Paid
<1>2. Cardinality(S) \in Nat /\ Cardinality(T) \in Nat
  BY <1>1, FS_CardinalityType DEF Paid
<1> QED BY <1>1, <1>2 DEF Paid, TypeOK

LEMMA Pays ==
  ASSUME TypeOK, NEW S, NEW T, NEW x, Paid(S), Calm \/ Faulty,
         T \subseteq S \/ (Faulty /\ T \subseteq S \cup {x})
  PROVE  IsFiniteSet(T) /\ Cardinality(T) <= faults'
<1>1. Cardinality(S) \in Nat /\ faults \in Nat /\ Cardinality(S) <= faults
  BY FS_CardinalityType DEF Paid, TypeOK
<1>2. CASE T \subseteq S
  <2>1. Paid(T)
    BY <1>2, PaidSubset
  <2>2. Cardinality(T) \in Nat
    BY <2>1, FS_CardinalityType DEF Paid
  <2> QED BY <1>1, <2>1, <2>2 DEF Paid, Calm, Faulty
<1>3. CASE Faulty /\ T \subseteq S \cup {x}
  <2>1. /\ IsFiniteSet(S \cup {x})
        /\ Cardinality(S \cup {x}) = IF x \in S THEN Cardinality(S) ELSE Cardinality(S) + 1
    BY FS_AddElement DEF Paid
  <2>2. IsFiniteSet(T) /\ Cardinality(T) <= Cardinality(S \cup {x})
    BY <1>3, <2>1, FS_Subset
  <2>3. Cardinality(T) \in Nat
    BY <2>2, FS_CardinalityType
  <2> QED BY <1>1, <1>3, <2>1, <2>2, <2>3 DEF Faulty
<1> QED BY <1>2, <1>3

LEMMA PaysNothing == ASSUME Init PROVE Paid({})
BY FS_EmptySet DEF Init, Paid

-----------------------------------------------------------------------------
(* Where an id can be found. *)

\* A scan or the call that claimed it will come to the id.
Live(id) == Has(zset, id) \/ Claimed(id)

\* What w has claimed and not yet published.
Claims(w, id) == call[w].op \in {"load", "publish", "restore"} /\ call[w].id = id

LEMMA ClaimedBy ==
  \A id : /\ Claimed(id) <=> \E w \in Workers : Claims(w, id)
          /\ \A w \in Workers : Claims(w, id) => Owns(w, id)
BY DEF Claimed, Claims, Owns

\* The steps that let go of an id: only the last two do so without a fault.
LetsGo(w, id) ==
  \/ TakesUnanswered(w) /\ Has(zset, id) /\ zset' = Remove(zset, id)
  \/ Claims(w, id) /\ (Drops(w) \/ CannotLoad(w) \/ Publishes(w))

LEMMA StaysLive ==
  ASSUME TypeOK, NEW w \in Workers, Moves(w), Edge(w), NEW id, Live(id)
  PROVE  Live(id)' \/ LetsGo(w, id)
<1>1. CASE Claimed(id)
  <2>1. PICK v \in Workers : Claims(v, id)
    BY <1>1, ClaimedBy
  <2>2. CASE v # w
    <3>1. Claims(v, id)'
      BY <2>1, <2>2 DEF Claims, Moves
    <3> QED BY <3>1 DEF Live, Claimed, Claims
  <2>3. CASE v = w
    <3>1. \/ Claims(w, id)'
          \/ PutsBack(w)
          \/ Drops(w) \/ CannotLoad(w) \/ Publishes(w)
      BY <2>1, <2>3 DEF Claims, Edge, Scans, Schedules, FailsToSchedule, Undoes, Skips, Takes,
         Keeps, TakesUnanswered, Loads, FailsToPublish, Deletes
    <3>2. CASE PutsBack(w)
      BY <2>1, <2>3, <3>2 DEF PutsBack, Claims, Put, Live, Has
    <3>3. CASE Claims(w, id)'
      BY <3>3 DEF Live, Claimed, Claims
    <3> QED BY <2>1, <2>3, <3>1, <3>2, <3>3 DEF LetsGo
  <2> QED BY <2>2, <2>3
<1>2. CASE Has(zset, id)
  <2>1. CASE Takes(w) \/ TakesUnanswered(w)
    <3>1. PICK k : zset' = Remove(zset, k) /\ (Takes(w) => call'[w].id = k)
      BY <2>1 DEF Takes, TakesUnanswered
    <3>2. CASE k # id
      BY <1>2, <3>1, <3>2 DEF Remove, Has, Live
    <3>3. CASE k = id /\ Takes(w)
      BY <3>1, <3>3 DEF Takes, Live, Claimed
    <3> QED BY <1>2, <2>1, <3>1, <3>2, <3>3 DEF LetsGo
  <2>2. CASE (UNCHANGED zset) \/ \E k, x : zset' = Put(zset, k, x)
    BY <1>2, <2>2 DEF Put, Has, Live
  <2> QED
    BY <2>1, <2>2, EdgeEffects
<1> QED BY <1>1, <1>2 DEF Live

LEMMA BecomesLive ==
  ASSUME TypeOK, NEW w \in Workers, Moves(w), Edge(w), NEW id, Live(id)'
  PROVE  \/ Live(id)
         \/ (Schedules(w) \/ FailsToSchedule(w)) /\ id = IdOf[call[w].env.task]
<1>1. CASE Has(zset, id)'
  <2>1. CASE \/ UNCHANGED zset
             \/ \E k : zset' = Remove(zset, k)
    BY <1>1, <2>1 DEF Remove, Has, Live
  <2>2. CASE PutsBack(w)
    <3>1. Has(zset, id) \/ id = call[w].id
      BY <1>1, <2>2 DEF PutsBack, Put, Has
    <3> QED BY <2>2, <3>1 DEF PutsBack, Live, Claimed
  <2>3. CASE /\ Schedules(w) \/ FailsToSchedule(w)
             /\ zset' = Put(zset, IdOf[call[w].env.task], call[w].env.at)
    BY <1>1, <2>3 DEF Put, Has, Live
  <2> QED
    BY <2>1, <2>2, <2>3, EdgeEffects
<1>2. CASE Claimed(id)'
  <2>1. PICK v \in Workers : Claims(v, id)'
    BY <1>2 DEF Claimed, Claims
  <2>2. CASE v # w
    <3>1. Claims(v, id)
      BY <2>1, <2>2 DEF Claims, Moves
    <3> QED BY <3>1, ClaimedBy DEF Live
  <2>3. CASE v = w
    <3>1. Claims(w, id) \/ (Takes(w) /\ id = call'[w].id)
      BY <2>1, <2>3 DEF Claims, Edge, Scans, Schedules, FailsToSchedule, Undoes, Skips, Takes,
         Keeps, TakesUnanswered, Loads, CannotLoad, Publishes, FailsToPublish, PutsBack,
         Deletes, Drops
    <3> QED BY <3>1, ClaimedBy DEF Live, Takes
  <2> QED BY <2>2, <2>3
<1> QED BY <1>1, <1>2 DEF Live

LEMMA AskingLive ==
  ASSUME TypeOK, NEW w \in Workers, Moves(w), NEW t \in Tasks, NEW at \in Time,
         Asks(w, t, at), NEW id
  PROVE  Live(id)' <=> Live(id)
<1>1. UNCHANGED zset
  BY DEF Asks
<1>2. \A v \in Workers : Claims(v, id)' <=> Claims(v, id)
  BY DEF Claims, Moves, Asks
<1> QED BY <1>1, <1>2 DEF Live, Has, Claimed, Claims

\* A call that holds an id is the only place where it is.
LEMMA OnlyHolder ==
  ASSUME Exclusive, NEW w \in Workers, NEW id \in Ids, Owns(w, id)
  PROVE  ~Has(zset, id) /\ \A v \in Workers : v # w => ~Claims(v, id)
BY DEF Exclusive, OneHolder, Claims, Owns

-----------------------------------------------------------------------------
(* Losses. *)

\* A release that t still waits for.
Owed(t) == t \in accepted /\ released[t] = 0

LEMMA EdgeLoss ==
  ASSUME DistinctIds, IInv, NEW w \in Workers, Moves(w), Quiet, Edge(w),
         NEW t \in Tasks \ Unreadable, Owed(t)', ~Pending(t)', ~(Owed(t) /\ ~Pending(t))
  PROVE  /\ Faulty
         /\ \/ TakesUnanswered(w) /\ Has(zset, IdOf[t]) /\ zset' = Remove(zset, IdOf[t])
            \/ Drops(w) /\ Claims(w, IdOf[t])
<1> DEFINE f == call[w]
<1>1. TypeOK /\ Recorded /\ Exclusive /\ IdOf[t] \in Ids
  BY ConstantsAssumption DEF IInv
<1>2. t \in accepted \/ (Schedules(w) /\ t = f.env.task)
  BY EdgeEffects DEF Owed
<1>3. released[t] = 0
  <2>1. (UNCHANGED released) \/ (f.op = "publish" /\ Released(f.env))
    BY EdgeEffects
  <2> QED BY <1>1, <2>1 DEF Owed, Released, TypeOK
<1>4. ~Schedules(w) \/ t # f.env.task
  <2> SUFFICES ASSUME Schedules(w), t = f.env.task PROVE FALSE
    OBVIOUS
  <2>1. Has(payload, IdOf[t]) /\ payload[IdOf[t]].task = t
    BY <1>1 DEF Exclusive, Unscheduled, Schedules
  <2>2. Has(zset, IdOf[t])' /\ UNCHANGED payload
    BY DEF Schedules, Put, Has
  <2> QED BY <2>1, <2>2 DEF Pending, Has
<1>5. Owed(t) /\ Pending(t) /\ t \in accepted
  BY <1>2, <1>3, <1>4 DEF Owed
<1>6. f.op \in {"publish", "restore", "delete"} /\ f.id = IdOf[t] => f.env.task = t
  BY <1>1, Known DEF DistinctIds
<1>7. Has(payload, IdOf[t])' /\ payload'[IdOf[t]].task = t
  <2>1. ~(Undoes(w) /\ IdOf[f.env.task] = IdOf[t])
    <3>1. Undoes(w) => f.env.task \notin accepted /\ f.env.task \in Tasks
      BY <1>1, Known DEF Exclusive, OneDelay, Waits, Undoes
    <3> QED BY <1>5, <3>1 DEF DistinctIds
  <2>2. ~(Deletes(w) /\ f.id = IdOf[t])
    <3>1. Deletes(w) => released[f.env.task] > 0
      BY <1>1 DEF Exclusive, Published, Deletes
    <3> QED BY <1>3, <1>6, <3>1 DEF Deletes
  <2>3. \/ UNCHANGED payload
        \/ \E k : k # IdOf[t] /\ payload' = Remove(payload, k)
    BY <2>1, <2>2, EdgeEffects
  <2> QED BY <1>5, <2>3 DEF Pending, Remove, Has
<1>8. Live(IdOf[t]) /\ ~Live(IdOf[t])'
  BY <1>5, <1>7 DEF Pending, Live
<1>9. LetsGo(w, IdOf[t])
  BY <1>1, <1>8, StaysLive
<1>10. ~(Claims(w, IdOf[t]) /\ CannotLoad(w))
  BY <1>5 DEF Claims, CannotLoad, Pending
<1>11. ~(Claims(w, IdOf[t]) /\ Publishes(w))
  <2>1. Publishes(w) /\ f.env.task = t => released'[t] > 0
    BY <1>1, <1>3 DEF Publishes, Released, TypeOK
  <2> QED BY <1>6, <2>1 DEF Claims, Publishes, Owed
<1> QED BY <1>9, <1>10, <1>11 DEF LetsGo, TakesUnanswered, Drops

LEMMA AskingLoss ==
  ASSUME DistinctIds, IInv, NEW w \in Workers, Moves(w),
         NEW u \in Tasks, NEW at \in Time, Asks(w, u, at),
         NEW t \in Tasks, Owed(t)', ~Pending(t)'
  PROVE  Owed(t) /\ ~Pending(t)
<1>1. TypeOK /\ Recorded
  BY DEF IInv
<1>2. Owed(t)
  BY DEF Owed, Asks
<1>3. IdOf[t] # IdOf[u]
  BY <1>1, <1>2 DEF Owed, Recorded, Asks, StoreEnvelope, DistinctIds
<1>4. /\ Has(payload, IdOf[t])' <=> Has(payload, IdOf[t])
      /\ Has(payload, IdOf[t]) => payload'[IdOf[t]] = payload[IdOf[t]]
  BY <1>3 DEF Asks, StoreEnvelope, Put, Has
<1>5. Live(IdOf[t])' <=> Live(IdOf[t])
  BY <1>1, AskingLive
<1> QED BY <1>2, <1>4, <1>5 DEF Pending, Live

Missing == Lost \ Unreadable

LEMMA MissingIs ==
  ASSUME TypeOK
  PROVE  \A t : t \in Missing <=> t \in Tasks \ Unreadable /\ Owed(t) /\ ~Pending(t)
BY DEF Missing, Lost, Owed, TypeOK

LEMMA NextLoss ==
  ASSUME DistinctIds, IInv, IInv', [Next]_vars, Paid(Missing)
  PROVE  Paid(Missing)'
<1>1. TypeOK /\ TypeOK'
  BY DEF IInv
<1>2. PICK M : M = Missing'
  OBVIOUS
<1>3. \A t \in M : t \in Tasks \ Unreadable /\ Owed(t)' /\ ~Pending(t)'
  BY <1>1, <1>2 DEF Missing, Lost, Owed, TypeOK
<1>4. SUFFICES \/ M \subseteq Missing /\ (Calm \/ Faulty)
               \/ Faulty /\ \E x : M \subseteq Missing \cup {x}
  <2>1. ASSUME NEW x, Calm \/ Faulty, M \subseteq Missing \/ (Faulty /\ M \subseteq Missing \cup {x})
        PROVE  Paid(Missing)'
    <3>1. IsFiniteSet(M) /\ Cardinality(M) <= faults'
      BY <1>1, <2>1, Pays
    <3> QED BY <1>2, <3>1 DEF Paid
  <2> QED BY <2>1
<1>5. CASE (UNCHANGED vars) \/ Tick
  <2>1. UNCHANGED <<zset, payload, call, accepted, released, faults>>
    BY <1>5 DEF vars, Tick, history
  <2> QED BY <1>2, <2>1 DEF Missing, Lost, Pending, Claimed, Has, Calm
<1>6. ASSUME NEW w \in Workers, Moves(w), NEW t \in Tasks, NEW at \in Time, Asks(w, t, at)
      PROVE  M \subseteq Missing /\ (Calm \/ Faulty)
  <2>1. ASSUME NEW u \in M PROVE u \in Missing
    BY <1>1, <1>3, <1>6, <2>1, AskingLoss, MissingIs
  <2> QED BY <1>6, <2>1 DEF Asks
<1>7. ASSUME NEW w \in Workers, Moves(w), Quiet, Edge(w)
      PROVE  \/ M \subseteq Missing /\ (Calm \/ Faulty)
             \/ Faulty /\ \E x : M \subseteq Missing \cup {x}
  <2>1. Calm \/ Faulty
    BY <1>7, EdgeEffects
  <2>2. \A t \in M \ Missing :
          /\ Faulty
          /\ \/ TakesUnanswered(w) /\ Has(zset, IdOf[t]) /\ zset' = Remove(zset, IdOf[t])
             \/ Drops(w) /\ Claims(w, IdOf[t])
    BY <1>1, <1>3, <1>7, EdgeLoss, MissingIs
  <2>3. ASSUME NEW t \in M \ Missing, NEW u \in M \ Missing PROVE t = u
    <3>1. t \in Tasks /\ u \in Tasks
      BY <1>3
    <3>2. CASE call[w].op = "claim"
      <4>1. /\ Has(zset, IdOf[t]) /\ zset' = Remove(zset, IdOf[t])
            /\ Has(zset, IdOf[u]) /\ zset' = Remove(zset, IdOf[u])
        BY <2>2, <3>2 DEF Claims
      <4>2. /\ DOMAIN zset' = DOMAIN zset \ {IdOf[t]}
            /\ DOMAIN zset' = DOMAIN zset \ {IdOf[u]}
        BY <4>1 DEF Remove
      <4> QED BY <3>1, <4>1, <4>2 DEF Has, DistinctIds
    <3>3. CASE call[w].op # "claim"
      BY <2>2, <3>1, <3>3 DEF Claims, DistinctIds, TakesUnanswered
    <3> QED BY <3>2, <3>3
  <2>4. CASE M \ Missing = {}
    BY <2>1, <2>4
  <2>5. CASE M \ Missing # {}
    <3>1. PICK t : t \in M \ Missing
      BY <2>5
    <3>2. M \subseteq Missing \cup {t}
      BY <2>3, <3>1
    <3> QED BY <2>2, <3>1, <3>2
  <2> QED BY <2>4, <2>5
<1> QED BY <1>1, <1>5, <1>6, <1>7, Steps

LEMMA InitLoss == Init => Paid(Missing)
<1> SUFFICES ASSUME Init PROVE Paid(Missing)
  OBVIOUS
<1>1. Missing = {}
  BY DEF Init, Missing, Lost
<1> QED BY <1>1, PaysNothing

LEMMA LossInv == ASSUME DistinctIds PROVE Spec => []Paid(Missing)
<1>1. IInv /\ IInv' /\ [Next]_vars /\ Paid(Missing) => Paid(Missing)'
  BY NextLoss
<1> QED BY <1>1, InitLoss, InvariantHolds, PTL DEF Spec

\* Only faults lose tasks whose delay() returned, and each fault at most one,
\* whatever schedulers run side by side and wherever their calls fail.
THEOREM LossPerFaultHolds ==
  ASSUME DistinctIds
  PROVE  Spec => []LossPerFault
<1>1. Paid(Missing) => LossPerFault
  BY DEF Paid, Missing, LossPerFault
<1> QED BY <1>1, LossInv, PTL

-----------------------------------------------------------------------------
(* Duplicates. *)

\* Publications of t, with the one that a scan or a call still has before it.
Copies(t) == released[t] + (IF Live(IdOf[t]) THEN 1 ELSE 0)

Further == UNION {{<<t, n>> : n \in 2..Copies(t)} : t \in Tasks}

LEMMA CopiesNat == ASSUME TypeOK PROVE \A t \in Tasks : Copies(t) \in Nat
BY DEF Copies, TypeOK

LEMMA FurtherIs ==
  ASSUME TypeOK
  PROVE  \A x : x \in Further <=>
           \E t \in Tasks, n \in Int : x = <<t, n>> /\ 2 <= n /\ n <= Copies(t)
BY CopiesNat DEF Further

LEMMA EdgeCopies ==
  ASSUME DistinctIds, IInv, IInv', NEW w \in Workers, Moves(w), Edge(w), NEW t \in Tasks
  PROVE  \/ Copies(t)' <= Copies(t)
         \/ Copies(t)' <= 1
         \/ /\ FailsToPublish(w) /\ t = call[w].env.task
            /\ Copies(t)' <= Copies(t) + 1
<1> DEFINE f == call[w]
<1>1. TypeOK /\ TypeOK' /\ Recorded /\ Exclusive /\ IdOf[t] \in Ids
  BY ConstantsAssumption DEF IInv
<1>2. released[t] \in Nat /\ released'[t] \in Nat
  BY <1>1 DEF TypeOK
<1>3. Live(IdOf[t])' =>
        Live(IdOf[t]) \/ ((Schedules(w) \/ FailsToSchedule(w)) /\ IdOf[t] = IdOf[f.env.task])
  BY <1>1, BecomesLive
<1>4. CASE (Schedules(w) \/ FailsToSchedule(w)) /\ IdOf[t] = IdOf[f.env.task]
  <2>1. f.op = "zadd" /\ f.env.task = t
    BY <1>1, <1>4, Known DEF Schedules, FailsToSchedule, DistinctIds
  <2>2. released[t] = 0 /\ UNCHANGED released
    BY <1>1, <1>4, <2>1 DEF Exclusive, Unscheduled, Schedules, FailsToSchedule
  <2> QED BY <2>2 DEF Copies
<1>5. CASE Publishes(w) /\ t = f.env.task
  <2>1. f.op = "publish" /\ f.id = IdOf[t] /\ Owns(w, IdOf[t])
    BY <1>1, <1>5, Known DEF Publishes
  <2>2. Live(IdOf[t])
    BY <2>1 DEF Live, Claimed
  <2>3. ~Live(IdOf[t])'
    <3>1. ~Has(zset, IdOf[t])'
      BY <1>1, <1>5, <2>1, OnlyHolder DEF Publishes, Has
    <3>2. \A v \in Workers : ~Claims(v, IdOf[t])'
      BY <1>1, <1>5, <2>1, OnlyHolder DEF Publishes, Keeps, Claims, Moves
    <3> QED BY <3>1, <3>2 DEF Live, Claimed, Claims
  <2>4. released'[t] = released[t] + 1
    BY <1>1, <1>5 DEF Publishes, Released, TypeOK
  <2> QED BY <1>2, <2>2, <2>3, <2>4 DEF Copies
<1>6. CASE FailsToPublish(w) /\ t = f.env.task
  <2>1. f.id = IdOf[t] /\ f.op = "publish"
    BY <1>1, <1>6, Known DEF FailsToPublish
  <2>2. Live(IdOf[t])
    BY <2>1 DEF Live, Claimed
  <2>3. released'[t] <= released[t] + 1
    BY <1>1, <1>6 DEF FailsToPublish, Released, TypeOK
  <2> QED BY <1>2, <1>6, <2>2, <2>3 DEF Copies
<1>7. CASE /\ ~((Publishes(w) \/ FailsToPublish(w)) /\ t = f.env.task)
           /\ ~((Schedules(w) \/ FailsToSchedule(w)) /\ IdOf[t] = IdOf[f.env.task])
  <2>1. \/ UNCHANGED released
        \/ (Publishes(w) \/ FailsToPublish(w)) /\ Released(f.env)
    BY EdgeEffects
  <2>2. released'[t] = released[t]
    BY <1>1, <1>7, <2>1 DEF Released, TypeOK
  <2> QED BY <1>2, <1>3, <1>7, <2>2 DEF Copies
<1> QED BY <1>4, <1>5, <1>6, <1>7

LEMMA NextCopies ==
  ASSUME DistinctIds, IInv, IInv', [Next]_vars, Paid(Further)
  PROVE  Paid(Further)'
<1>1. TypeOK /\ TypeOK'
  BY DEF IInv
<1>2. PICK F : F = Further'
  OBVIOUS
<1>3. \A x \in F : \E t \in Tasks, n \in Int : x = <<t, n>> /\ 2 <= n /\ n <= Copies(t)'
  <2>1. \A t \in Tasks : Copies(t)' \in Nat
    BY <1>1 DEF Copies, TypeOK
  <2> QED BY <1>2, <2>1 DEF Further
<1>4. SUFFICES \/ F \subseteq Further /\ (Calm \/ Faulty)
               \/ Faulty /\ \E x : F \subseteq Further \cup {x}
  <2>1. ASSUME NEW x, Calm \/ Faulty, F \subseteq Further \/ (Faulty /\ F \subseteq Further \cup {x})
        PROVE  Paid(Further)'
    <3>1. IsFiniteSet(F) /\ Cardinality(F) <= faults'
      BY <1>1, <2>1, Pays
    <3> QED BY <1>2, <3>1 DEF Paid
  <2> QED BY <2>1
<1>5. ASSUME \A t \in Tasks : Copies(t)' = Copies(t)
      PROVE  F \subseteq Further
  BY <1>1, <1>3, <1>5, FurtherIs
<1>6. CASE (UNCHANGED vars) \/ Tick
  <2>1. UNCHANGED <<zset, call, released, faults>>
    BY <1>6 DEF vars, Tick, history
  <2>2. \A t \in Tasks : Copies(t)' = Copies(t)
    BY <2>1 DEF Copies, Live, Claimed, Has
  <2> QED BY <1>5, <2>1, <2>2 DEF Calm
<1>7. ASSUME NEW w \in Workers, Moves(w), NEW t \in Tasks, NEW at \in Time, Asks(w, t, at)
      PROVE  F \subseteq Further /\ (Calm \/ Faulty)
  <2>1. \A u \in Tasks : Live(IdOf[u])' <=> Live(IdOf[u])
    BY <1>1, <1>7, AskingLive
  <2>2. \A u \in Tasks : Copies(u)' = Copies(u)
    BY <1>7, <2>1 DEF Copies, Asks
  <2> QED BY <1>5, <1>7, <2>2 DEF Asks
<1>8. ASSUME NEW w \in Workers, Moves(w), Quiet, Edge(w)
      PROVE  \/ F \subseteq Further /\ (Calm \/ Faulty)
             \/ Faulty /\ \E x : F \subseteq Further \cup {x}
  <2>1. \A t \in Tasks : Copies(t) \in Nat /\ Copies(t)' \in Nat
    BY <1>1 DEF Copies, TypeOK
  <2>2. CASE FailsToPublish(w)
    <3>1. PICK x : x = <<call[w].env.task, Copies(call[w].env.task) + 1>>
      OBVIOUS
    <3>2. ASSUME NEW y \in F, y \notin Further PROVE y = x
      <4>1. PICK t \in Tasks, n \in Int : y = <<t, n>> /\ 2 <= n /\ n <= Copies(t)'
        BY <1>3
      <4>2. n > Copies(t)
        BY <1>1, <2>1, <3>2, <4>1, FurtherIs
      <4>3. t = call[w].env.task /\ Copies(t)' <= Copies(t) + 1
        BY <1>8, <2>1, <4>1, <4>2, EdgeCopies
      <4>4. n = Copies(t) + 1
        BY <2>1, <4>1, <4>2, <4>3
      <4> QED BY <3>1, <4>1, <4>3, <4>4
    <3>3. F \subseteq Further \cup {x}
      BY <3>2
    <3> QED BY <2>2, <3>3 DEF FailsToPublish
  <2>3. CASE ~FailsToPublish(w)
    <3>1. ASSUME NEW y \in F PROVE y \in Further
      <4>1. PICK t \in Tasks, n \in Int : y = <<t, n>> /\ 2 <= n /\ n <= Copies(t)'
        BY <1>3
      <4>2. n <= Copies(t)
        BY <1>8, <2>1, <2>3, <4>1, EdgeCopies
      <4> QED BY <1>1, <4>1, <4>2, FurtherIs
    <3>2. Calm \/ Faulty
      BY <1>8, EdgeEffects
    <3> QED BY <3>1, <3>2
  <2> QED BY <2>2, <2>3
<1> QED BY <1>1, <1>6, <1>7, <1>8, Steps

LEMMA InitCopies == Init => Paid(Further)
<1> SUFFICES ASSUME Init PROVE Paid(Further)
  OBVIOUS
<1>1. \A t \in Tasks : Copies(t) \in Nat /\ Copies(t) <= 1
  BY DEF Init, Copies
<1>2. Further = {}
  BY <1>1 DEF Further
<1> QED BY <1>2, PaysNothing

\* A task is published once; only a fault makes a further copy and each makes at
\* most one, so schedulers that scan the same entries never do.
THEOREM DuplicatePerFaultHolds ==
  ASSUME DistinctIds
  PROVE  Spec => []DuplicatePerFault
<1>1. IInv /\ IInv' /\ [Next]_vars /\ Paid(Further) => Paid(Further)'
  BY NextCopies
<1>2. IInv /\ Paid(Further) => DuplicatePerFault
  <2> SUFFICES ASSUME TypeOK, Paid(Further) PROVE DuplicatePerFault
    BY DEF IInv
  <2> DEFINE D == UNION {{<<t, n>> : n \in 2..released[t]} : t \in Tasks}
  <2>1. \A t \in Tasks : released[t] \in Nat /\ released[t] <= Copies(t)
    BY DEF Copies, TypeOK
  <2>2. D \subseteq Further
    BY <2>1, FurtherIs, CopiesNat
  <2>3. Paid(D)
    BY <2>2, PaidSubset
  <2> QED BY <2>3 DEF Paid, DuplicatePerFault
<1> QED BY <1>1, <1>2, InitCopies, InvariantHolds, PTL DEF Spec

-----------------------------------------------------------------------------
(* Debris. *)

\* The call w is inside will schedule the id, publish it or delete its key.
Attends(w, id) == Owns(w, id) \/ (Waits(w) /\ IdOf[call[w].env.task] = id)

LEMMA HandledBy ==
  /\ \A id : Handled(id) <=> \E w \in Workers : Attends(w, id)
  /\ \A id : Handled(id)' <=> \E w \in Workers : Attends(w, id)'
BY DEF Handled, Claimed, Attends, Owns, Waits

Orphaned(id) ==
  Has(payload, id) /\ ~Has(zset, id) /\ ~Handled(id) /\ payload[id].task \notin Unreadable

Undone(id) == \E w \in Workers : call[w].op = "undo" /\ IdOf[call[w].env.task] = id

\* An id that a fault has hit: its envelope is orphaned, its delay() is being
\* undone, or it will be found without its envelope.
Suspicious(id) == Orphaned(id) \/ Undone(id) \/ (Live(id) /\ ~Has(payload, id))

Suspects == {id \in Ids : Suspicious(id)}

\* The id that a step of w is about, if it is about one.
Concerns(w, id) ==
  \/ Attends(w, id)
  \/ Takes(w) /\ call'[w].id = id
  \/ TakesUnanswered(w) /\ Has(zset, id) /\ zset' = Remove(zset, id)

\* The rest of the ids are as before.
LEMMA Unconcerned ==
  ASSUME DistinctIds, IInv, NEW w \in Workers, Moves(w), Edge(w),
         NEW id \in Ids, ~Concerns(w, id), Suspicious(id)'
  PROVE  Suspicious(id)
<1> DEFINE f == call[w]
<1>1. TypeOK /\ Recorded /\ Exclusive
  BY DEF IInv
<1>2. /\ f.op \in {"zadd", "undo"} => IdOf[f.env.task] # id
      /\ f.op \in {"load", "publish", "restore", "delete"} => f.id # id
      /\ f.op \in {"zadd", "undo", "publish", "restore", "delete"} => IdOf[f.env.task] # id
  BY <1>1, Known DEF Concerns, Attends, Owns, Waits
<1>3. Has(payload, id)' <=> Has(payload, id)
  <2>1. (UNCHANGED payload) \/ \E k : k # id /\ payload' = Remove(payload, k)
    BY <1>2, EdgeEffects
  <2> QED BY <2>1 DEF Remove, Has
<1>4. Has(payload, id) => payload'[id] = payload[id]
  <2>1. (UNCHANGED payload) \/ \E k : k # id /\ payload' = Remove(payload, k)
    BY <1>2, EdgeEffects
  <2> QED BY <2>1 DEF Remove, Has
<1>5. Has(zset, id)' <=> Has(zset, id)
  <2>1. CASE UNCHANGED zset
    BY <2>1 DEF Has
  <2>2. CASE \E k, x : k # id /\ zset' = Put(zset, k, x)
    BY <2>2 DEF Put, Has
  <2>3. CASE Takes(w) \/ TakesUnanswered(w)
    <3>1. \E k : zset' = Remove(zset, k) /\ (k # id \/ ~Has(zset, id))
      BY <2>3 DEF Takes, TakesUnanswered, Concerns
    <3> QED BY <3>1 DEF Remove, Has
  <2> QED
    BY <1>2, <2>1, <2>2, <2>3, EdgeEffects
<1>6. \A v \in Workers : Attends(v, id) => Attends(v, id)'
  BY DEF Moves, Attends, Owns, Waits, Concerns
<1>7. Undone(id)' => Undone(id)
  <2>1. call'[w].op = "undo" => IdOf[call'[w].env.task] # id
    BY <1>2 DEF Edge, Scans, Schedules, FailsToSchedule, Undoes, Skips, Takes, Keeps,
       TakesUnanswered, Loads, CannotLoad, Publishes, FailsToPublish, PutsBack, Deletes, Drops
  <2> QED BY <2>1 DEF Undone, Moves
<1>8. Live(id)' => Live(id)
  BY <1>1, <1>2, BecomesLive DEF Schedules, FailsToSchedule
<1>9. Handled(id) => Handled(id)'
  BY <1>6, HandledBy
<1> QED BY <1>3, <1>4, <1>5, <1>7, <1>8, <1>9 DEF Suspicious, Orphaned

\* A step is about one id.
LEMMA OneConcern ==
  ASSUME NEW w \in Workers, Edge(w), NEW id, NEW other, Concerns(w, id), Concerns(w, other)
  PROVE  id = other
<1>1. CASE call[w].op = "claim" /\ call'[w].op = "idle"
  <2>1. /\ Has(zset, id) /\ zset' = Remove(zset, id)
        /\ Has(zset, other) /\ zset' = Remove(zset, other)
    BY <1>1 DEF Concerns, Attends, Owns, Waits, Takes
  <2>2. DOMAIN zset' = DOMAIN zset \ {id} /\ DOMAIN zset' = DOMAIN zset \ {other}
    BY <2>1 DEF Remove
  <2> QED BY <2>1, <2>2 DEF Has
<1>2. CASE ~(call[w].op = "claim" /\ call'[w].op = "idle")
  BY <1>2 DEF Concerns, Attends, Owns, Waits, Takes, TakesUnanswered
<1> QED BY <1>1, <1>2

\* The id that a step is about becomes suspicious by a fault only.
LEMMA Concerned ==
  ASSUME DistinctIds, IInv, NEW w \in Workers, Moves(w), Edge(w),
         NEW id \in Ids, Concerns(w, id), Suspicious(id)', ~Suspicious(id)
  PROVE  Faulty
<1> SUFFICES ASSUME ~Faulty PROVE FALSE
  OBVIOUS
<1> DEFINE f == call[w]
<1>1. TypeOK /\ Recorded /\ Exclusive
  BY DEF IInv
<1>2. /\ f.op \in {"zadd", "undo"} => IdOf[f.env.task] = id
      /\ f.op \in {"load", "publish", "restore", "delete"} => f.id = id
  BY DEF Concerns, Attends, Owns, Waits, Takes, TakesUnanswered
<1>3. Undone(id)' => Undone(id)
  <2>1. call'[w].op # "undo"
    BY DEF Edge, Scans, Schedules, FailsToSchedule, Undoes, Skips, Takes, Keeps,
       TakesUnanswered, Loads, CannotLoad, Publishes, FailsToPublish, PutsBack, Deletes, Drops
  <2> QED BY <2>1 DEF Undone, Moves
<1>4. CASE Schedules(w)
  <2>1. Has(payload, id)'
    BY <1>1, <1>2, <1>4 DEF Exclusive, Unscheduled, Schedules, Has
  <2>2. Has(zset, id)'
    BY <1>2, <1>4 DEF Schedules, Put, Has
  <2> QED BY <1>3, <2>1, <2>2 DEF Suspicious, Orphaned
<1>5. CASE Undoes(w)
  BY <1>2, <1>5 DEF Undoes, Suspicious, Undone
<1>6. CASE Takes(w)
  <2>1. call'[w].id = id /\ Has(zset, id) /\ UNCHANGED payload
    BY <1>6 DEF Takes, Concerns, Attends, Owns, Waits, TakesUnanswered
  <2>2. Attends(w, id)'
    BY <1>6, <2>1 DEF Takes, Attends, Owns
  <2>3. Handled(id)'
    BY <2>2, HandledBy
  <2>4. Has(payload, id)' <=> Has(payload, id)
    BY <2>1 DEF Has
  <2> QED BY <1>3, <2>1, <2>3, <2>4 DEF Suspicious, Orphaned, Live
<1>7. CASE Loads(w) \/ Publishes(w)
  <2>1. Attends(w, id)'
    BY <1>2, <1>7 DEF Loads, Publishes, Keeps, Attends, Owns
  <2>2. Handled(id)'
    BY <2>1, HandledBy
  <2>3. UNCHANGED payload /\ f.op \in {"load", "publish"}
    BY <1>7 DEF Loads, Publishes
  <2>4. Live(id)
    BY <1>2, <2>3 DEF Live, Claimed
  <2> QED BY <1>3, <2>2, <2>3, <2>4 DEF Suspicious, Orphaned, Has
<1>8. CASE CannotLoad(w)
  <2>1. Live(id) /\ UNCHANGED payload
    BY <1>2, <1>8 DEF CannotLoad, Live, Claimed
  <2> QED BY <1>2, <1>3, <1>8, <2>1 DEF CannotLoad, Suspicious, Orphaned, Has
<1>9. CASE PutsBack(w)
  <2>1. Live(id) /\ UNCHANGED payload
    BY <1>2, <1>9 DEF PutsBack, Live, Claimed
  <2>2. Has(zset, id)'
    BY <1>2, <1>9 DEF PutsBack, Put, Has
  <2> QED BY <1>3, <2>1, <2>2 DEF Suspicious, Orphaned, Has
<1>10. CASE Deletes(w)
  <2>1. f.op = "delete" /\ Owns(w, id)
    BY <1>2, <1>10 DEF Deletes, Owns
  <2>2. ~Live(id)
    <3>1. ~Has(zset, id) /\ \A v \in Workers : v # w => ~Claims(v, id)
      BY <1>1, <2>1, OnlyHolder
    <3> QED BY <2>1, <3>1, ClaimedBy DEF Live, Claims
  <2>3. ~Live(id)'
    BY <1>1, <1>10, <2>2, BecomesLive DEF Deletes, Schedules, FailsToSchedule
  <2>4. ~Has(payload, id)'
    BY <1>2, <1>10 DEF Deletes, Remove, Has
  <2> QED BY <1>3, <2>3, <2>4 DEF Suspicious, Orphaned
<1>11. CASE Scans(w) \/ Skips(w)
  BY <1>11 DEF Scans, Skips, Concerns, Attends, Owns, Waits, Takes, TakesUnanswered
<1> QED
  BY <1>4, <1>5, <1>6, <1>7, <1>8, <1>9, <1>10, <1>11
  DEF Edge, FailsToSchedule, TakesUnanswered, FailsToPublish, Drops

LEMMA AskingSuspects ==
  ASSUME DistinctIds, IInv, NEW w \in Workers, Moves(w),
         NEW t \in Tasks, NEW at \in Time, Asks(w, t, at),
         NEW id \in Ids, Suspicious(id)', ~Suspicious(id)
  PROVE  Faulty /\ id = IdOf[t]
<1>1. TypeOK
  BY DEF IInv
<1>2. Live(id)' <=> Live(id)
  BY <1>1, AskingLive
<1>3. Undone(id)' => Undone(id)
  BY DEF Undone, Asks, Moves
<1>4. UNCHANGED zset
  BY DEF Asks
<1>5. PICK env : env.task = t /\ payload' = Put(payload, IdOf[t], env)
                 /\ (Faulty \/ (call'[w].op = "zadd" /\ call'[w].env = env))
  <2>1. [task |-> t, at |-> at].task = t
    OBVIOUS
  <2> QED BY <2>1 DEF Asks, StoreEnvelope
<1>6. CASE id # IdOf[t]
  <2>1. /\ Has(payload, id)' <=> Has(payload, id)
        /\ Has(payload, id) => payload'[id] = payload[id]
    BY <1>5, <1>6 DEF Put, Has
  <2>2. \A v \in Workers : Attends(v, id) => Attends(v, id)'
    BY DEF Attends, Owns, Waits, Asks, Moves
  <2>3. Handled(id) => Handled(id)'
    BY <2>2, HandledBy
  <2> QED BY <1>2, <1>3, <1>4, <2>1, <2>3 DEF Suspicious, Orphaned, Has
<1>7. CASE id = IdOf[t] /\ ~Faulty
  <2>1. Attends(w, id)'
    BY <1>5, <1>7 DEF Attends, Waits
  <2>2. Handled(id)'
    BY <2>1, HandledBy
  <2>3. Has(payload, id)'
    BY <1>5, <1>7 DEF Put, Has
  <2> QED BY <1>3, <2>2, <2>3 DEF Suspicious, Orphaned
<1> QED BY <1>6, <1>7

LEMMA NextSuspects ==
  ASSUME DistinctIds, IInv, IInv', [Next]_vars, Paid(Suspects)
  PROVE  Paid(Suspects)'
<1>1. TypeOK /\ TypeOK'
  BY DEF IInv
<1>2. PICK S : S = Suspects'
  OBVIOUS
<1>3. \A id : id \in S <=> id \in Ids /\ Suspicious(id)'
  BY <1>2 DEF Suspects
<1>4. SUFFICES \/ S \subseteq Suspects /\ (Calm \/ Faulty)
               \/ Faulty /\ \E x : S \subseteq Suspects \cup {x}
  <2>1. ASSUME NEW x, Calm \/ Faulty, S \subseteq Suspects \/ (Faulty /\ S \subseteq Suspects \cup {x})
        PROVE  Paid(Suspects)'
    <3>1. IsFiniteSet(S) /\ Cardinality(S) <= faults'
      BY <1>1, <2>1, Pays
    <3> QED BY <1>2, <3>1 DEF Paid
  <2> QED BY <2>1
<1>5. CASE (UNCHANGED vars) \/ Tick
  <2>1. UNCHANGED <<zset, payload, call, faults>>
    BY <1>5 DEF vars, Tick, history
  <2>2. \A id : Suspicious(id)' <=> Suspicious(id)
    BY <2>1 DEF Suspicious, Orphaned, Undone, Live, Claimed, Handled, Has
  <2> QED BY <1>3, <2>1, <2>2 DEF Calm, Suspects
<1>6. ASSUME NEW w \in Workers, Moves(w), NEW t \in Tasks, NEW at \in Time, Asks(w, t, at)
      PROVE  \/ S \subseteq Suspects /\ (Calm \/ Faulty)
             \/ Faulty /\ \E x : S \subseteq Suspects \cup {x}
  <2>1. \A id \in S \ Suspects : Faulty /\ id = IdOf[t]
    BY <1>3, <1>6, AskingSuspects DEF Suspects
  <2>2. Calm \/ Faulty
    BY <1>6 DEF Asks
  <2>3. CASE S \subseteq Suspects
    BY <2>2, <2>3
  <2>4. CASE Faulty /\ S \subseteq Suspects \cup {IdOf[t]}
    BY <2>4
  <2> QED BY <2>1, <2>3, <2>4
<1>7. ASSUME NEW w \in Workers, Moves(w), Quiet, Edge(w)
      PROVE  \/ S \subseteq Suspects /\ (Calm \/ Faulty)
             \/ Faulty /\ \E x : S \subseteq Suspects \cup {x}
  <2>1. \A id \in S \ Suspects : Concerns(w, id) /\ Faulty
    BY <1>3, <1>7, Unconcerned, Concerned DEF Suspects
  <2>2. Calm \/ Faulty
    BY <1>7, EdgeEffects
  <2>3. CASE S \subseteq Suspects
    BY <2>2, <2>3
  <2>4. CASE ~(S \subseteq Suspects)
    <3>1. PICK x : x \in S \ Suspects
      BY <2>4
    <3>2. S \subseteq Suspects \cup {x}
      BY <1>7, <2>1, <3>1, OneConcern
    <3> QED BY <2>1, <3>1, <3>2
  <2> QED BY <2>3, <2>4
<1> QED BY <1>1, <1>5, <1>6, <1>7, Steps

LEMMA InitSuspects == Init => Paid(Suspects)
<1> SUFFICES ASSUME Init PROVE Paid(Suspects)
  OBVIOUS
<1>1. \A id : ~Has(payload, id) /\ ~Has(zset, id)
  BY DEF Init, Nothing, Has
<1>2. \A w \in Workers : call[w].op = "idle"
  BY IdleFrame DEF Init
<1>3. Suspects = {}
  BY <1>1, <1>2 DEF Suspects, Suspicious, Orphaned, Undone, Live, Claimed
<1> QED BY <1>3, PaysNothing

\* delay() and schedule_due leave the sorted set and the keys in step: a fault
\* leaves behind one key that nothing deletes or one entry without a key at most.
THEOREM DebrisPerFaultHolds ==
  ASSUME DistinctIds
  PROVE  Spec => []DebrisPerFault
<1>1. IInv /\ IInv' /\ [Next]_vars /\ Paid(Suspects) => Paid(Suspects)'
  BY NextSuspects
<1>2. IInv /\ Paid(Suspects) => DebrisPerFault
  <2> SUFFICES ASSUME TypeOK, Paid(Suspects) PROVE DebrisPerFault
    BY DEF IInv
  <2>1. Orphans \subseteq Suspects
    BY DEF Orphans, Suspects, Suspicious, Orphaned, Has, TypeOK
  <2>2. Ghosts \subseteq Suspects
    BY DEF Ghosts, Suspects, Suspicious, Live, Has, TypeOK
  <2>3. Orphans \cap Ghosts = {}
    BY DEF Orphans, Ghosts
  <2>4. Paid(Orphans) /\ Paid(Ghosts) /\ Paid(Orphans \cup Ghosts)
    BY <2>1, <2>2, PaidSubset
  <2>5. /\ Cardinality(Orphans \cup Ghosts)
             = Cardinality(Orphans) + Cardinality(Ghosts) - Cardinality(Orphans \cap Ghosts)
        /\ Cardinality(Orphans \cap Ghosts) = 0
    BY <2>3, <2>4, FS_Union, FS_EmptySet DEF Paid
  <2>6. Cardinality(Orphans) \in Nat /\ Cardinality(Ghosts) \in Nat
    BY <2>4, FS_CardinalityType DEF Paid
  <2>7. Cardinality(Orphans \cup Ghosts) <= faults
    BY <2>4 DEF Paid
  <2>8. Cardinality(Orphans) + Cardinality(Ghosts) <= faults
    BY <2>5, <2>6, <2>7
  <2> QED BY <2>8 DEF DebrisPerFault
<1> QED BY <1>1, <1>2, InitSuspects, InvariantHolds, PTL DEF Spec
=============================================================================
