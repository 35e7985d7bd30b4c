----------------------------- MODULE ListQueue -----------------------------
(***************************************************************************)
(* The Redis List backend (src/redqueue/backends/list.py and its awaiting  *)
(* twin async_list.py), one Redis command per step.                        *)
(*                                                                         *)
(* A message is its serialized envelope, abstracted to the identity of the *)
(* publish call that made it and its attempt counter: ack, nack, retry and *)
(* requeue_dead find an entry by comparing exactly these bytes.            *)
(*                                                                         *)
(* Workers are the threads, tasks or processes that call a client.  What a *)
(* call keeps in Python locals between two Redis commands is call[w]; the  *)
(* Message objects that consume and dead_letters gave the application are  *)
(* held[w].  A Message stays usable after an operation on it: an           *)
(* application may pass the same one to any second operation, so held[w]   *)
(* shrinks only when the process dies.                                     *)
(***************************************************************************)
EXTENDS RedisList, FiniteSets

CONSTANTS
  Workers,        \* callers of the client
  Ids,            \* identities of the messages that may be published
  Unreadable,     \* messages whose envelope the consumer's _decode rejects
  MaxRetries,     \* config.retry.max_retries
  MaxBatch,       \* bound on consume's batch_size
  Limit,          \* the limit argument of recover_stale and dead_letters
  BlocksForever,  \* consume is called with timeout None or 0 (BLMOVE ... 0)
  FaultKinds,     \* which faults may happen
  MaxFaults       \* bound on their number

(***************************************************************************)
(* "refused": the command raises and had no effect (connection refused,    *)
(* OOM command not allowed).  "reply_lost": Redis executed the command but *)
(* the caller sees an exception (timeout, connection reset).  Cancelling a *)
(* task of the awaiting twin at its await is one of these two.  "crash":   *)
(* the worker's process dies and starts again with nothing in memory.      *)
(***************************************************************************)
ASSUME ConstantsAssumption ==
  /\ Unreadable \subseteq Ids
  /\ MaxRetries \in Nat
  /\ MaxBatch \in Nat \ {0}
  /\ Limit \in Nat
  /\ BlocksForever \in BOOLEAN
  /\ FaultKinds \subseteq {"refused", "reply_lost", "crash"}
  /\ MaxFaults \in Nat

VARIABLES
  db,         \* the queue's three Redis lists
  call,       \* per worker: the locals of the client call it is inside
  held,       \* per worker: Messages returned by consume or dead_letters
  published,  \* history: ids in the order their LPUSH was executed
  delivered,  \* history: ids that were moved to processing at least once
  acked,      \* history: ids whose entry an ack removed
  faults      \* number of faults so far

vars == <<db, call, held, published, delivered, acked, faults>>

Keys == {"ready", "processing", "dead"}
Payload == [id : Ids, attempts : 0..MaxRetries]

(***************************************************************************)
(* A frame: op names the next command of the call; want and got are the    *)
(* batch loop's remaining count and collected messages; moving is the      *)
(* message between its LREM and its LPUSH (empty otherwise) and dest the   *)
(* key of that LPUSH; todo is what recover_stale has left of its snapshot. *)
(***************************************************************************)
Frame == [op : {"idle", "consume", "push", "recover"},
          want : 0..MaxBatch, got : SUBSET Payload,
          moving : SUBSET Payload, dest : Keys, todo : Seq(Payload)]

Idle == [op |-> "idle", want |-> 0, got |-> {},
         moving |-> {}, dest |-> "ready", todo |-> <<>>]

\* A call of consume that has got some messages and still wants n.
Consuming(n, got) == [op |-> "consume", want |-> n, got |-> got,
                      moving |-> {}, dest |-> "ready", todo |-> <<>>]

\* Between an LREM and the LPUSH of p to key.
Pushing(p, key, rest) == [op |-> "push", want |-> 0, got |-> {},
                          moving |-> {p}, dest |-> key, todo |-> rest]

\* The recovery loop with these entries left; with none left the call returns.
Recovering(rest) ==
  IF rest = <<>> THEN Idle ELSE [Idle EXCEPT !.op = "recover", !.todo = rest]

Init ==
  /\ db = [k \in Keys |-> <<>>]
  /\ call = [w \in Workers |-> Idle]
  /\ held = [w \in Workers |-> {}]
  /\ published = <<>>
  /\ delivered = {}
  /\ acked = {}
  /\ faults = 0

-----------------------------------------------------------------------------
(* Faults. *)

Fault(kind) ==
  /\ kind \in FaultKinds
  /\ faults < MaxFaults
  /\ faults' = faults + 1

\* A command of w's call raised: _execute wraps the exception, the call is
\* over and its locals are gone.
Raise(w) == call' = [call EXCEPT ![w] = Idle]

Crash(w) ==
  /\ Fault("crash")
  /\ call' = [call EXCEPT ![w] = Idle]
  /\ held' = [held EXCEPT ![w] = {}]
  /\ UNCHANGED <<db, published, delivered, acked>>

-----------------------------------------------------------------------------
(* publish and consume. *)

\* A publish that raises after a lost reply has the same effect as one that
\* returns, and one that was refused has none.
Publish(id) ==
  /\ id \notin Range(published)
  /\ db' = LPush(db, "ready", [id |-> id, attempts |-> 0])
  /\ published' = Append(published, id)
  /\ UNCHANGED <<call, held, delivered, acked, faults>>

Consume(w, n) ==
  /\ call[w] = Idle
  /\ call' = [call EXCEPT ![w] = Consuming(n, {})]
  /\ UNCHANGED <<db, held, published, delivered, acked, faults>>

\* consume returns what it collected.
Return(w, messages) ==
  /\ call' = [call EXCEPT ![w] = Idle]
  /\ held' = [held EXCEPT ![w] = @ \cup messages]

\* Mutant: a plain BRPOP.
PopReady ==
  /\ db["ready"] # <<>>
  /\ db' = [db EXCEPT !["ready"] = Front(@)]
  /\ delivered' = delivered \cup {Last(db["ready"]).id}

\* Mutant: BLMOVE ready processing LEFT LEFT.
TakeNewest ==
  /\ db["ready"] # <<>>
  /\ db' = [db EXCEPT !["ready"] = Tail(@),
                      !["processing"] = <<Head(db["ready"])>> \o @]
  /\ delivered' = delivered \cup {Head(db["ready"]).id}

\* BLMOVE ready processing RIGHT LEFT takes the entry at the right end.
TakeReady ==
  /\ db["ready"] # <<>>
  /\ db' = LMove(db, "ready", "processing")
  /\ delivered' = delivered \cup {Last(db["ready"]).id}

\* One BLMOVE of the loop.  When _decode raises, the entry is already in
\* processing and what the loop had collected is dropped with the exception.
MoveToProcessing(w) ==
  /\ call[w].op = "consume"
  /\ TakeReady
  /\ LET p == Last(db["ready"])
     IN \/ /\ p.id \in Unreadable
           /\ Raise(w)
           /\ UNCHANGED held
        \/ /\ p.id \notin Unreadable
           /\ call[w].want > 1
           /\ call' = [call EXCEPT ![w] =
                         Consuming(call[w].want - 1, call[w].got \cup {p})]
           /\ UNCHANGED held
        \/ /\ p.id \notin Unreadable
           /\ call[w].want = 1
           /\ Return(w, call[w].got \cup {p})
  /\ UNCHANGED <<published, acked, faults>>

\* Mutant: a time-out in the middle of a batch returns nothing.
ConsumeTimesOutEmpty(w) ==
  /\ call[w].op = "consume"
  /\ db["ready"] = <<>>
  /\ ~BlocksForever
  /\ Raise(w)
  /\ UNCHANGED <<db, held, published, delivered, acked, faults>>

\* Mutant: the batch loop continues where it should break.
ConsumeKeepsWaiting(w) ==
  /\ call[w].op = "consume"
  /\ db["ready"] = <<>>
  /\ UNCHANGED vars

ConsumeTimesOut(w) ==
  /\ call[w].op = "consume"
  /\ db["ready"] = <<>>
  /\ ~BlocksForever
  /\ Return(w, call[w].got)
  /\ UNCHANGED <<db, published, delivered, acked, faults>>

ConsumeRaises(w) ==
  /\ call[w].op = "consume"
  /\ \/ /\ Fault("refused")
        /\ UNCHANGED <<db, delivered>>
     \/ /\ Fault("reply_lost")
        /\ TakeReady
  /\ Raise(w)
  /\ UNCHANGED <<held, published, acked>>

-----------------------------------------------------------------------------
(* ack, nack, retry, requeue_dead: all start with LREM of the message's    *)
(* own bytes, and raise AckError without any effect when it removes none.  *)

\* Mutant: LREM's reply is ignored.
RemovesUnchecked(key, p) == TRUE

\* The code goes on only when LREM's reply is not 0 ("removed < 1").
Removes(key, p) == LRemFinds(db, key, p)

\* (An ack whose reply is lost has the effect of one that returns.)
Ack(w, p) ==
  /\ call[w] = Idle
  /\ p \in held[w]
  /\ Removes("processing", p)
  /\ db' = LRem(db, "processing", p)
  /\ acked' = acked \cup {p.id}
  /\ UNCHANGED <<call, held, published, delivered, faults>>

\* The LREM half of a move: p leaves key, q is to be pushed to dest.
StartMove(w, key, p, q, dest) ==
  /\ call[w] = Idle
  /\ Removes(key, p)
  /\ db' = LRem(db, key, p)
  /\ call' = [call EXCEPT ![w] = Pushing(q, dest, <<>>)]
  /\ UNCHANGED <<held, published, delivered, acked, faults>>

\* Mutant: the entry is pushed back as a new message, as the Stream backend does.
NackAfresh(w, p, requeue) ==
  /\ p \in held[w]
  /\ StartMove(w, "processing", p, [p EXCEPT !.attempts = 0],
               IF requeue THEN "ready" ELSE "dead")

Nack(w, p, requeue) ==
  /\ p \in held[w]
  /\ StartMove(w, "processing", p, p, IF requeue THEN "ready" ELSE "dead")

WithAttempt(p) == [p EXCEPT !.attempts = @ + 1]

\* Mutant: ">" for ">=".
ExhaustedOffByOne(p) == p.attempts > MaxRetries

Exhausted(p) == p.attempts >= MaxRetries

Retry(w, p) ==
  /\ p \in held[w]
  /\ \/ /\ Exhausted(p)
        /\ StartMove(w, "processing", p, p, "dead")
     \/ /\ ~Exhausted(p)
        /\ StartMove(w, "processing", p, WithAttempt(p), "ready")

\* Mutant: LRANGE 1 limit.
SnapshotOffByOne(key) ==
  IF db[key] = <<>> THEN <<>> ELSE Tail(LRange(db, key, Limit))

\* LRANGE 0 max(limit - 1, 0)
Snapshot(key) == LRange(db, key, IF Limit = 0 THEN 0 ELSE Limit - 1)

DeadLetters(w) ==
  /\ call[w] = Idle
  /\ \A i \in DOMAIN Snapshot("dead") : Snapshot("dead")[i].id \notin Unreadable
  /\ held' = [held EXCEPT ![w] =
                @ \cup {Snapshot("dead")[i] : i \in DOMAIN Snapshot("dead")}]
  /\ UNCHANGED <<db, call, published, delivered, acked, faults>>

RequeueDead(w, p) ==
  /\ p \in held[w]
  /\ StartMove(w, "dead", p, p, "ready")

\* The LREM of nack, retry or requeue_dead was executed but raised: the call
\* ends before its LPUSH.
RemovalReplyLost(w, key, p) ==
  /\ call[w] = Idle
  /\ p \in held[w]
  /\ Fault("reply_lost")
  /\ Removes(key, p)
  /\ db' = LRem(db, key, p)
  /\ UNCHANGED <<call, held, published, delivered, acked>>

-----------------------------------------------------------------------------
(* The LPUSH half of a move; recover_stale then goes on with its snapshot. *)

Push(w) ==
  /\ call[w].op = "push"
  /\ \E p \in call[w].moving : db' = LPush(db, call[w].dest, p)
  /\ call' = [call EXCEPT ![w] = Recovering(call[w].todo)]
  /\ UNCHANGED <<held, published, delivered, acked, faults>>

PushRaises(w) ==
  /\ call[w].op = "push"
  /\ \/ /\ Fault("refused")
        /\ UNCHANGED db
     \/ /\ Fault("reply_lost")
        /\ \E p \in call[w].moving : db' = LPush(db, call[w].dest, p)
  /\ Raise(w)
  /\ UNCHANGED <<held, published, delivered, acked>>

-----------------------------------------------------------------------------
(* recover_stale: requeue a snapshot of the processing list, entry by      *)
(* entry.  It does not look at how long an entry has been there.           *)

RecoverStale(w) ==
  /\ call[w] = Idle
  /\ Snapshot("processing") # <<>>
  /\ call' = [call EXCEPT ![w] = Recovering(Snapshot("processing"))]
  /\ UNCHANGED <<db, held, published, delivered, acked, faults>>

RecoverNext(w) ==
  /\ call[w].op = "recover"
  /\ LET p    == Head(call[w].todo)
         rest == Tail(call[w].todo)
     IN \/ /\ p.id \in Unreadable
           /\ Raise(w)
           /\ UNCHANGED db
        \/ /\ p.id \notin Unreadable
           /\ ~Removes("processing", p)
           /\ call' = [call EXCEPT ![w] = Recovering(rest)]
           /\ UNCHANGED db
        \/ /\ p.id \notin Unreadable
           /\ Removes("processing", p)
           /\ db' = LRem(db, "processing", p)
           /\ call' = [call EXCEPT ![w] = Pushing(p, "ready", rest)]
  /\ UNCHANGED <<held, published, delivered, acked, faults>>

RecoverRaises(w) ==
  /\ call[w].op = "recover"
  /\ LET p == Head(call[w].todo)
     IN /\ p.id \notin Unreadable
        /\ \/ /\ Fault("refused")
              /\ UNCHANGED db
           \/ /\ Fault("reply_lost")
              /\ Removes("processing", p)
              /\ db' = LRem(db, "processing", p)
  /\ Raise(w)
  /\ UNCHANGED <<held, published, delivered, acked>>

-----------------------------------------------------------------------------
(* The next command of a call that w is inside, without a fault. *)
Step(w) ==
  \/ MoveToProcessing(w)
  \/ ConsumeTimesOut(w)
  \/ Push(w)
  \/ RecoverNext(w)

\* Everything a worker may do, its faults included.
WorkerNext(w) ==
  \/ \E n \in 1..MaxBatch : Consume(w, n)
  \/ Step(w)
  \/ \E p \in held[w] : Ack(w, p) \/ Retry(w, p) \/ RequeueDead(w, p)
  \/ \E p \in held[w], requeue \in BOOLEAN : Nack(w, p, requeue)
  \/ DeadLetters(w)
  \/ RecoverStale(w)
  \/ ConsumeRaises(w)
  \/ \E p \in held[w], key \in {"processing", "dead"} :
       RemovalReplyLost(w, key, p)
  \/ PushRaises(w)
  \/ RecoverRaises(w)
  \/ Crash(w)

Next ==
  \/ \E id \in Ids : Publish(id)
  \/ \E w \in Workers : WorkerNext(w)

Spec == Init /\ [][Next]_vars

\* Liveness assumes that a call that is inside a client goes on to its next
\* command, and that some worker keeps calling recover_stale.
Fairness ==
  /\ \A w \in Workers : WF_vars(Step(w))
  /\ SF_vars(\E w \in Workers : RecoverStale(w))

FairSpec == Spec /\ Fairness
-----------------------------------------------------------------------------
(* Where the messages are. *)

IdsIn(list) == {list[i].id : i \in DOMAIN list}

Listed == UNION {IdsIn(db[k]) : k \in Keys}

MovingBy(w) == {p.id : p \in call[w].moving}

Moving == UNION {MovingBy(w) : w \in Workers}

\* Messages that are nowhere: no list holds them, no call is about to push
\* them and no ack removed them.
Lost == Range(published) \ (acked \cup Listed \cup Moving)

\* Some application code or running call still knows this processing entry.
Known(p) == \E w \in Workers : p \in held[w] \cup call[w].got

-----------------------------------------------------------------------------
(* Properties. *)

\* Every variable has its type; in particular no call chain makes an
\* attempt counter exceed max_retries.
TypeOK ==
  /\ db \in [Keys -> Seq(Payload)]
  /\ call \in [Workers -> Frame]
  /\ held \in [Workers -> SUBSET Payload]
  /\ published \in Seq(Ids)
  /\ delivered \subseteq Ids
  /\ acked \subseteq Ids
  /\ faults \in 0..MaxFaults

\* A message exists at most once: at one position of one list, or between the
\* LREM and the LPUSH of one call.  Stale handles, concurrent recoveries of
\* live entries and interrupted moves never duplicate it, because whoever
\* goes on to push first removed the only copy.
SingleCopy ==
  /\ \A k, m \in Keys : \A i \in DOMAIN db[k], j \in DOMAIN db[m] :
       db[k][i].id = db[m][j].id => k = m /\ i = j
  /\ Moving \cap Listed = {}
  /\ \A v, w \in Workers : v # w => MovingBy(v) \cap MovingBy(w) = {}

\* An acknowledged message never comes back: no list holds it and no call is
\* about to push it, although other workers may hold handles on it and other
\* recoveries may have it in their snapshot.
AckedGone == acked \cap (Listed \cup Moving) = {}

\* Each fault costs at most one message, so without faults none is lost by
\* any interleaving of the calls.
LossPerFault == Cardinality(Lost) <= faults

\* First deliveries happen in publish order, whatever is nacked, retried,
\* recovered or requeued in between: LPUSH and BLMOVE use opposite ends.
FirstDeliveryInOrder ==
  \A i, j \in DOMAIN published :
    (i < j /\ published[j] \in delivered) => published[i] \in delivered

\* As long as no call failed and no envelope was rejected, somebody can still
\* ack, nack or retry every entry of processing: consume gives its caller all
\* it took, also when it times out in the middle of a batch.
NoOrphan ==
  (faults = 0 /\ delivered \cap Unreadable = {}) =>
    \A i \in DOMAIN db["processing"] : Known(db["processing"][i])

\* No message is lost at all.
NoLoss == Lost = {}

\* Every client call returns or raises.
CallsReturn == \A w \in Workers : call[w] # Idle ~> call[w] = Idle

\* A readable entry of processing does not stay there for ever: recover_stale
\* reaches every one, whether its consumer is alive or not, unless an envelope
\* that _decode rejects is there too, which ends every recovery that meets it.
StrandedRecovered ==
  \A p \in Payload :
    (p.id \notin Unreadable /\ Contains(db["processing"], p))
      ~> \/ ~Contains(db["processing"], p)
         \/ IdsIn(db["processing"]) \cap Unreadable # {}

-----------------------------------------------------------------------------
(* What the lists promise about each message, see MessageLifecycle. *)

Entries ==
  (UNION {Range(db[k]) : k \in Keys}) \cup (UNION {call[w].moving : w \in Workers})

Place(id) ==
  CASE id \notin Range(published)           -> "new"
    [] id \in acked                         -> "acked"
    [] id \in Moving                        -> "moving"
    [] \E k \in Keys : id \in IdsIn(db[k]) -> CHOOSE k \in Keys : id \in IdsIn(db[k])
    [] OTHER                                -> "lost"

Lifecycle ==
  INSTANCE MessageLifecycle WITH
    place    <- [id \in Ids |-> Place(id)],
    attempts <- [id \in Ids |-> {p.attempts : p \in {q \in Entries : q.id = id}}]

\* Seen from outside, the lists make every message go through the life cycle.
ImplementsLifecycle == Lifecycle!Spec
=============================================================================
