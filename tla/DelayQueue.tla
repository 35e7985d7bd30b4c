----------------------------- MODULE DelayQueue -----------------------------
(***************************************************************************)
(* The delayed task scheduler (src/redqueue/backends/delay.py and its      *)
(* awaiting twin async_delay.py), one Redis command per step.              *)
(*                                                                         *)
(* A task is one call of delay().  It stores an envelope under a string    *)
(* key named after the message id and adds the id to a sorted set whose    *)
(* scores are the times at which messages become due.  schedule_due reads  *)
(* the due ids, claims each with ZREM, loads its envelope, publishes it    *)
(* and deletes the key.  Any number of workers call both.                  *)
(*                                                                         *)
(* The clock is shared and counts from 1, so that 0 is the one timestamp   *)
(* that Python takes for false.                                            *)
(***************************************************************************)
EXTENDS RedisKeys

CONSTANTS
  Workers,     \* callers of the client
  Tasks,       \* calls of delay()
  Ids,         \* message ids
  IdOf,        \* the message id of each task; a caller may give one id twice
  Unreadable,  \* tasks whose envelope the scheduler's _decode rejects
  Limit,       \* the limit argument of schedule_due
  MaxTime,     \* bound on the clock
  FaultKinds,  \* which faults may happen
  MaxFaults    \* bound on their number

(* The faults are those of ListQueue: a command that raises without effect *)
(* ("refused") or after it was executed ("reply_lost"), and the death of a *)
(* worker ("crash").  A task of the awaiting twin that is cancelled at an  *)
(* await skips the handlers of "except Exception", as a crash does.        *)
ASSUME ConstantsAssumption ==
  /\ IdOf \in [Tasks -> Ids]
  /\ Unreadable \subseteq Tasks
  /\ Limit \in Nat
  /\ MaxTime \in Nat \ {0}
  /\ FaultKinds \subseteq {"refused", "reply_lost", "crash"}
  /\ MaxFaults \in Nat

VARIABLES
  zset,      \* the sorted set "delayed": id to score
  payload,   \* the keys "payload:<id>": id to envelope
  now,       \* the clock
  call,      \* per worker: the locals of the call it is inside
  asked,     \* history: the available_at of each task that called delay()
  accepted,  \* history: tasks whose delay() returned
  released,  \* history: how often each task was published
  faults     \* number of faults so far

redis == <<zset, payload>>
history == <<asked, accepted, released>>
vars == <<zset, payload, now, call, asked, accepted, released, faults>>

Time == 0..MaxTime
Envelope == [task : Tasks, at : Time]
Entry == [id : Ids, at : Time]

(***************************************************************************)
(* op names the next Redis command of the call.  delay() is between its    *)
(* SET and its ZADD ("zadd") or about to undo the SET ("undo").            *)
(* schedule_due read the clock as "now" and has the entries todo left of   *)
(* its scan; between two commands on one entry it also has its id and,     *)
(* once loaded, its envelope.                                              *)
(***************************************************************************)
Idle == [op |-> "idle"]

Frame ==
  {Idle}
  \cup [op : {"zadd", "undo"}, env : Envelope]
  \cup [op : {"claim"}, now : Time, todo : SUBSET Entry]
  \cup [op : {"load"}, now : Time, todo : SUBSET Entry, id : Ids]
  \cup [op : {"publish", "restore", "delete"},
        now : Time, todo : SUBSET Entry, id : Ids, env : Envelope]

Delaying(op, env) == [op |-> op, env |-> env]

Scanning(n, todo) ==
  IF todo = {} THEN Idle ELSE [op |-> "claim", now |-> n, todo |-> todo]

Loading(f, e) ==
  [op |-> "load", now |-> f.now, todo |-> f.todo \ {e}, id |-> e.id]

Releasing(op, f, env) ==
  [op |-> op, now |-> f.now, todo |-> f.todo, id |-> f.id, env |-> env]

Init ==
  /\ zset = Nothing
  /\ payload = Nothing
  /\ now = 1
  /\ call = [w \in Workers |-> Idle]
  /\ asked = Nothing
  /\ accepted = {}
  /\ released = [t \in Tasks |-> 0]
  /\ faults = 0

-----------------------------------------------------------------------------
(* Time and faults. *)

Tick ==
  /\ now < MaxTime
  /\ now' = now + 1
  /\ UNCHANGED <<zset, payload, call, history, faults>>

Fault(kind) ==
  /\ kind \in FaultKinds
  /\ faults < MaxFaults
  /\ faults' = faults + 1

Goto(w, frame) == call' = [call EXCEPT ![w] = frame]

Crash(w) ==
  /\ call[w] # Idle
  /\ Fault("crash")
  /\ Goto(w, Idle)
  /\ UNCHANGED <<redis, now, history>>

\* A command raises: effect describes what Redis did if it was executed,
\* and same that it did nothing.
Raises(effect, same) ==
  \/ Fault("refused") /\ same
  \/ Fault("reply_lost") /\ effect

-----------------------------------------------------------------------------
(* delay() *)

\* A relative delay gives a time that is not past, run_at gives any time.
StoreEnvelope(t, at) ==
  /\ t \notin DOMAIN asked
  /\ asked' = Put(asked, t, at)
  /\ payload' = Put(payload, IdOf[t], [task |-> t, at |-> at])

Delay(w, t, at) ==
  /\ call[w] = Idle
  /\ StoreEnvelope(t, at)
  /\ Goto(w, Delaying("zadd", [task |-> t, at |-> at]))
  /\ UNCHANGED <<zset, now, accepted, released, faults>>

\* The SET was executed but raised: it is outside the try, so nothing is undone.
DelayRaises(w, t, at) ==
  /\ call[w] = Idle
  /\ Fault("reply_lost")
  /\ StoreEnvelope(t, at)
  /\ UNCHANGED <<zset, now, call, accepted, released>>

AddToSchedule(env) == zset' = Put(zset, IdOf[env.task], env.at)

Schedule(w) ==
  /\ call[w].op = "zadd"
  /\ AddToSchedule(call[w].env)
  /\ accepted' = accepted \cup {call[w].env.task}
  /\ Goto(w, Idle)
  /\ UNCHANGED <<payload, now, asked, released, faults>>

ScheduleRaises(w) ==
  /\ call[w].op = "zadd"
  /\ Raises(AddToSchedule(call[w].env), UNCHANGED zset)
  /\ Goto(w, Delaying("undo", call[w].env))
  /\ UNCHANGED <<payload, now, history>>

DropEnvelope(id) == payload' = Remove(payload, id)

\* delay() deletes the key it wrote and raises.
Undo(w) ==
  /\ call[w].op = "undo"
  /\ DropEnvelope(IdOf[call[w].env.task])
  /\ Goto(w, Idle)
  /\ UNCHANGED <<zset, now, history, faults>>

UndoRaises(w) ==
  /\ call[w].op = "undo"
  /\ Raises(DropEnvelope(IdOf[call[w].env.task]), UNCHANGED payload)
  /\ Goto(w, Idle)
  /\ UNCHANGED <<zset, now, history>>

-----------------------------------------------------------------------------
(* schedule_due: the scan and the claim of each entry. *)

\* Mutant: ZRANGEBYSCORE -inf (now, with an exclusive end.
DueBefore == {e \in Entry : Has(zset, e.id) /\ zset[e.id] = e.at /\ e.at < now}

\* Mutant: ZRANGEBYSCORE -inf now+1, a clock rounded up.
DueRoundedUp == {e \in Entry : Has(zset, e.id) /\ zset[e.id] = e.at /\ e.at <= now + 1}

Due == {e \in Entry : Has(zset, e.id) /\ zset[e.id] = e.at /\ e.at <= now}

\* ZRANGEBYSCORE -inf now LIMIT 0 limit: the earliest entries, in an order
\* of the ids where scores are equal.
Batch(todo) ==
  /\ todo \subseteq Due
  /\ Cardinality(todo) <= Limit
  /\ Cardinality(todo) < Limit => todo = Due
  /\ \A e \in todo, o \in Due \ todo : e.at <= o.at

\* Mutant: one ZREM for the whole batch, before the loop.
ClaimBatch(w) ==
  /\ call[w] = Idle
  /\ \E todo \in SUBSET Due :
       /\ Batch(todo)
       /\ todo # {}
       /\ zset' = [id \in DOMAIN zset \ {e.id : e \in todo} |-> zset[id]]
       /\ \E e \in todo : Goto(w, Loading([now |-> now, todo |-> todo], e))
  /\ UNCHANGED <<payload, now, history, faults>>

ScheduleDue(w) ==
  /\ call[w] = Idle
  /\ \E todo \in SUBSET Due :
       /\ Batch(todo)
       /\ todo # {}
       /\ Goto(w, Scanning(now, todo))
  /\ UNCHANGED <<redis, now, history, faults>>

Earliest(todo) == {e \in todo : \A o \in todo : e.at <= o.at}

\* Mutant: ZREM's reply is ignored.
ClaimUnchecked(w) ==
  /\ call[w].op = "claim"
  /\ \E e \in Earliest(call[w].todo) :
       /\ zset' = Remove(zset, e.id)
       /\ Goto(w, Loading(call[w], e))
  /\ UNCHANGED <<payload, now, history, faults>>

\* An id that another worker has claimed meanwhile is skipped.
Claim(w) ==
  /\ call[w].op = "claim"
  /\ \E e \in Earliest(call[w].todo) :
       \/ /\ ~Has(zset, e.id)
          /\ Goto(w, Scanning(call[w].now, call[w].todo \ {e}))
          /\ UNCHANGED zset
       \/ /\ Has(zset, e.id)
          /\ zset' = Remove(zset, e.id)
          /\ Goto(w, Loading(call[w], e))
  /\ UNCHANGED <<payload, now, history, faults>>

ClaimRaises(w) ==
  /\ call[w].op = "claim"
  /\ \E e \in Earliest(call[w].todo) :
       Raises(zset' = Remove(zset, e.id), UNCHANGED zset)
  /\ Goto(w, Idle)
  /\ UNCHANGED <<payload, now, history>>

-----------------------------------------------------------------------------
(* schedule_due: the release of a claimed entry.  Loading it is outside    *)
(* the try, so only a failed publish puts the entry back.                  *)

Load(w) ==
  /\ call[w].op = "load"
  /\ LET id == call[w].id
         readable == Has(payload, id) /\ payload[id].task \notin Unreadable
     IN \/ /\ readable
           /\ Goto(w, Releasing("publish", call[w], payload[id]))
        \/ /\ ~readable
           /\ Goto(w, Idle)
  /\ UNCHANGED <<redis, now, history, faults>>

LoadRaises(w) ==
  /\ call[w].op = "load"
  /\ Fault("refused")
  /\ Goto(w, Idle)
  /\ UNCHANGED <<redis, now, history>>

Released(env) == released' = [released EXCEPT ![env.task] = @ + 1]

\* Mutant: the key is deleted only after the last entry of the batch.
PublishKeepsKey(w) ==
  /\ call[w].op = "publish"
  /\ Released(call[w].env)
  /\ IF call[w].todo = {}
     THEN Goto(w, Releasing("delete", call[w], call[w].env))
     ELSE Goto(w, Scanning(call[w].now, call[w].todo))
  /\ UNCHANGED <<redis, now, asked, accepted, faults>>

Publish(w) ==
  /\ call[w].op = "publish"
  /\ Released(call[w].env)
  /\ Goto(w, Releasing("delete", call[w], call[w].env))
  /\ UNCHANGED <<redis, now, asked, accepted, faults>>

PublishRaises(w) ==
  /\ call[w].op = "publish"
  /\ Raises(Released(call[w].env), UNCHANGED released)
  /\ Goto(w, Releasing("restore", call[w], call[w].env))
  /\ UNCHANGED <<redis, now, asked, accepted>>

\* Mutant: the entry is put back one tick later than it was due.
ScoreLater(env, n) == env.at + 1

\* message.available_at or now_value
Score(env, n) == IF env.at = 0 THEN n ELSE env.at

PutBack(w) == zset' = Put(zset, call[w].id, Score(call[w].env, call[w].now))

\* schedule_due puts the entry back and raises what publish raised.
Restore(w) ==
  /\ call[w].op = "restore"
  /\ PutBack(w)
  /\ Goto(w, Idle)
  /\ UNCHANGED <<payload, now, history, faults>>

RestoreRaises(w) ==
  /\ call[w].op = "restore"
  /\ Raises(PutBack(w), UNCHANGED zset)
  /\ Goto(w, Idle)
  /\ UNCHANGED <<payload, now, history>>

DeletePayload(w) ==
  /\ call[w].op = "delete"
  /\ DropEnvelope(call[w].id)
  /\ Goto(w, Scanning(call[w].now, call[w].todo))
  /\ UNCHANGED <<zset, now, history, faults>>

DeleteRaises(w) ==
  /\ call[w].op = "delete"
  /\ Raises(DropEnvelope(call[w].id), UNCHANGED payload)
  /\ Goto(w, Idle)
  /\ UNCHANGED <<zset, now, history>>

-----------------------------------------------------------------------------
\* The next command of the call that w is inside, without a fault.
Step(w) ==
  \/ Schedule(w)
  \/ Undo(w)
  \/ Claim(w)
  \/ Load(w)
  \/ Publish(w)
  \/ Restore(w)
  \/ DeletePayload(w)

StepRaises(w) ==
  \/ ScheduleRaises(w)
  \/ UndoRaises(w)
  \/ ClaimRaises(w)
  \/ LoadRaises(w)
  \/ PublishRaises(w)
  \/ RestoreRaises(w)
  \/ DeleteRaises(w)
  \/ Crash(w)

Next ==
  \/ Tick
  \/ \E w \in Workers :
       \/ \E t \in Tasks, at \in Time : Delay(w, t, at) \/ DelayRaises(w, t, at)
       \/ ScheduleDue(w)
       \/ Step(w)
       \/ StepRaises(w)

Spec == Init /\ [][Next]_vars

\* Liveness assumes that time passes, that a call inside a client goes on to
\* its next command, and that somebody keeps calling schedule_due.
Fairness ==
  /\ WF_vars(Tick)
  /\ \A w \in Workers : WF_vars(Step(w))
  /\ SF_vars(\E w \in Workers : ScheduleDue(w))

FairSpec == Spec /\ Fairness
-----------------------------------------------------------------------------
(* Where the tasks are. *)

\* Some call has claimed the id and not yet published its message.
Claimed(id) ==
  \E w \in Workers : call[w].op \in {"load", "publish", "restore"} /\ call[w].id = id

\* The queue can still release t.
Pending(t) ==
  /\ Has(payload, IdOf[t])
  /\ payload[IdOf[t]].task = t
  /\ Has(zset, IdOf[t]) \/ Claimed(IdOf[t])

Lost == {t \in accepted : released[t] = 0 /\ ~Pending(t)}

\* Some call will still see to the key: it schedules it or deletes it.
Handled(id) ==
  \/ Claimed(id)
  \/ \E w \in Workers :
       \/ call[w].op \in {"zadd", "undo"} /\ IdOf[call[w].env.task] = id
       \/ call[w].op = "delete" /\ call[w].id = id

\* Envelopes that nothing will ever read or delete.
Orphans ==
  {id \in DOMAIN payload :
     ~Has(zset, id) /\ ~Handled(id) /\ payload[id].task \notin Unreadable}

\* Entries whose release can only raise "delayed payload is missing".
Ghosts == DOMAIN zset \ DOMAIN payload

-----------------------------------------------------------------------------
(* Properties. *)

\* Every variable has its type.
TypeOK ==
  /\ DOMAIN zset \subseteq Ids /\ \A id \in DOMAIN zset : zset[id] \in Time
  /\ DOMAIN payload \subseteq Ids /\ \A id \in DOMAIN payload : payload[id] \in Envelope
  /\ now \in 1..MaxTime
  /\ call \in [Workers -> Frame]
  /\ DOMAIN asked \subseteq Tasks /\ \A t \in DOMAIN asked : asked[t] \in Time
  /\ accepted \subseteq Tasks
  /\ released \in [Tasks -> Nat]
  /\ faults \in 0..MaxFaults

\* A task whose delay() returned is published in the end unless a fault hits
\* its release: each fault costs at most one such task, whatever schedulers
\* run side by side.
LossPerFault == Cardinality(Lost \ Unreadable) <= faults

\* A task is published once; each fault causes at most one further copy, so
\* schedulers that scan the same entries never cause one.
DuplicatePerFault ==
  Cardinality(UNION {{<<t, n>> : n \in 2..released[t]} : t \in Tasks}) <= faults

\* delay() and schedule_due leave the sorted set and the keys in step: each
\* fault leaves behind at most one key that nothing deletes or one entry that
\* makes a later schedule_due raise.
DebrisPerFault == Cardinality(Orphans) + Cardinality(Ghosts) <= faults

\* No task is published before its time, whenever it was scanned, claimed,
\* put back and claimed again.
NeverEarly ==
  [][\A t \in Tasks : released'[t] > released[t] => asked[t] <= now]_vars

\* A task whose delay() returned is published, or a fault lost it; an
\* unreadable envelope among those due does not stand in its way.
DueReleased ==
  \A t \in Tasks \ Unreadable :
    t \in accepted ~> (released[t] > 0 \/ t \in Lost)
=============================================================================
