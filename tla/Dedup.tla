-------------------------------- MODULE Dedup --------------------------------
(***************************************************************************)
(* Publish-time deduplication: QueueClient._publish_with_deduplication     *)
(* (src/redqueue/client.py, async_client.py) over DeduplicationBackend and *)
(* its awaiting twin (src/redqueue/deduplication.py), one Redis command    *)
(* per step.                                                               *)
(*                                                                         *)
(* A call is one publish() or delay() with a dedup_key; its message id is  *)
(* its own, so the call stands for the id.  The publish itself is one step *)
(* that is executed, refused or executed without a reply; refused also     *)
(* stands for a payload that cannot be encoded.                            *)
(***************************************************************************)
EXTENDS RedisKeys

CONSTANTS
  Calls,        \* calls of publish() or delay() with a dedup_key
  DedupKeys,    \* dedup keys after normalize_key
  KeyOf,        \* the key each call gives
  MaxExpiries,  \* bound on the number of keys whose TTL ends
  FaultKinds,   \* which faults may happen
  MaxFaults     \* bound on their number

Kinds == {"refused", "reply_lost", "crash"}

(* The faults are those of ListQueue.  A task of the awaiting twin that is *)
(* cancelled at an await skips the rollback, as a crash does.              *)
ASSUME ConstantsAssumption ==
  /\ KeyOf \in [Calls -> DedupKeys]
  /\ MaxExpiries \in Nat
  /\ FaultKinds \subseteq Kinds
  /\ MaxFaults \in Nat

VARIABLES
  reserved,  \* the keys "dedup:<key>": key to the id it stores
  pc,        \* per call: its next Redis command, or how it ended
  answer,    \* history: the id that each returned call got
  enqueued,  \* history: ids whose publish was executed
  expiries,  \* number of keys whose TTL ended
  faults     \* number of faults of each kind

vars == <<reserved, pc, answer, enqueued, expiries, faults>>

States == {"reserve", "get", "publish", "rollback", "returned", "failed"}

Init ==
  /\ reserved = Nothing
  /\ pc = [c \in Calls |-> "reserve"]
  /\ answer = Nothing
  /\ enqueued = {}
  /\ expiries = 0
  /\ faults = [kind \in Kinds |-> 0]

-----------------------------------------------------------------------------
(* Faults and the TTL. *)

AllFaults == faults["refused"] + faults["reply_lost"] + faults["crash"]

Fault(kind) ==
  /\ kind \in FaultKinds
  /\ AllFaults < MaxFaults
  /\ faults' = [faults EXCEPT ![kind] = @ + 1]

\* A command raises: effect describes what Redis did if it was executed,
\* and same that it did nothing.
Raises(effect, same) ==
  \/ Fault("refused") /\ same
  \/ Fault("reply_lost") /\ effect

Goto(c, state) == pc' = [pc EXCEPT ![c] = state]

Running(c) == pc[c] \in {"get", "publish", "rollback"}

Crash(c) ==
  /\ Running(c)
  /\ Fault("crash")
  /\ Goto(c, "failed")
  /\ UNCHANGED <<reserved, answer, enqueued, expiries>>

Expire(k) ==
  /\ Has(reserved, k)
  /\ expiries < MaxExpiries
  /\ reserved' = Remove(reserved, k)
  /\ expiries' = expiries + 1
  /\ UNCHANGED <<pc, answer, enqueued, faults>>

-----------------------------------------------------------------------------
(* reserve_or_get *)

\* Mutant: SET without NX.
ReserveAlways(c) ==
  /\ pc[c] = "reserve"
  /\ reserved' = Put(reserved, KeyOf[c], c)
  /\ Goto(c, "publish")
  /\ UNCHANGED <<answer, enqueued, expiries, faults>>

\* Mutant: the reply of SET NX is taken the wrong way round.
ReserveInverted(c) ==
  /\ pc[c] = "reserve"
  /\ \/ /\ ~Has(reserved, KeyOf[c])
        /\ reserved' = Put(reserved, KeyOf[c], c)
        /\ Goto(c, "get")
     \/ /\ Has(reserved, KeyOf[c])
        /\ Goto(c, "publish")
        /\ UNCHANGED reserved
  /\ UNCHANGED <<answer, enqueued, expiries, faults>>

\* SET NX with the TTL.
Reserve(c) ==
  /\ pc[c] = "reserve"
  /\ \/ /\ ~Has(reserved, KeyOf[c])
        /\ reserved' = Put(reserved, KeyOf[c], c)
        /\ Goto(c, "publish")
     \/ /\ Has(reserved, KeyOf[c])
        /\ Goto(c, "get")
        /\ UNCHANGED reserved
  /\ UNCHANGED <<answer, enqueued, expiries, faults>>

SetNX(c) ==
  reserved' = IF Has(reserved, KeyOf[c]) THEN reserved
              ELSE Put(reserved, KeyOf[c], c)

ReserveRaises(c) ==
  /\ pc[c] = "reserve"
  /\ Raises(SetNX(c), UNCHANGED reserved)
  /\ Goto(c, "failed")
  /\ UNCHANGED <<answer, enqueued, expiries>>

\* Mutant: the call returns the dedup key for the id.
ReturnKey(c, id) ==
  /\ Goto(c, "returned")
  /\ answer' = Put(answer, c, KeyOf[c])

Return(c, id) ==
  /\ Goto(c, "returned")
  /\ answer' = Put(answer, c, id)

\* Mutant: a key that is gone is reported as a duplicate of the call itself.
GetGoneReturns(c) ==
  /\ pc[c] = "get"
  /\ Return(c, IF Has(reserved, KeyOf[c]) THEN reserved[KeyOf[c]] ELSE c)
  /\ UNCHANGED <<reserved, enqueued, expiries, faults>>

\* The key may be gone again; then the call publishes without a reservation.
Get(c) ==
  /\ pc[c] = "get"
  /\ \/ /\ Has(reserved, KeyOf[c])
        /\ Return(c, reserved[KeyOf[c]])
     \/ /\ ~Has(reserved, KeyOf[c])
        /\ Goto(c, "publish")
        /\ UNCHANGED answer
  /\ UNCHANGED <<reserved, enqueued, expiries, faults>>

GetRaises(c) ==
  /\ pc[c] = "get"
  /\ Fault("refused")
  /\ Goto(c, "failed")
  /\ UNCHANGED <<reserved, answer, enqueued, expiries>>

-----------------------------------------------------------------------------
(* The publish, and the rollback when it raises. *)

Enqueue(c) == enqueued' = enqueued \cup {c}

Publish(c) ==
  /\ pc[c] = "publish"
  /\ Enqueue(c)
  /\ Return(c, c)
  /\ UNCHANGED <<reserved, expiries, faults>>

\* Mutant: no rollback.
PublishFails(c) ==
  /\ pc[c] = "publish"
  /\ Raises(Enqueue(c), UNCHANGED enqueued)
  /\ Goto(c, "failed")
  /\ UNCHANGED <<reserved, answer, expiries>>

PublishRaises(c) ==
  /\ pc[c] = "publish"
  /\ Raises(Enqueue(c), UNCHANGED enqueued)
  /\ Goto(c, "rollback")
  /\ UNCHANGED <<reserved, answer, expiries>>

\* DELETE, whoever holds the key by now.
Unreserve(c) == reserved' = Remove(reserved, KeyOf[c])

Rollback(c) ==
  /\ pc[c] = "rollback"
  /\ Unreserve(c)
  /\ Goto(c, "failed")
  /\ UNCHANGED <<answer, enqueued, expiries, faults>>

RollbackRaises(c) ==
  /\ pc[c] = "rollback"
  /\ Raises(Unreserve(c), UNCHANGED reserved)
  /\ Goto(c, "failed")
  /\ UNCHANGED <<answer, enqueued, expiries>>

-----------------------------------------------------------------------------
\* The next command of a call, without a fault.
Step(c) == Reserve(c) \/ Get(c) \/ Publish(c) \/ Rollback(c)

StepRaises(c) ==
  \/ ReserveRaises(c)
  \/ GetRaises(c)
  \/ PublishRaises(c)
  \/ RollbackRaises(c)
  \/ Crash(c)

Next ==
  \/ \E c \in Calls : Step(c) \/ StepRaises(c)
  \/ \E k \in DedupKeys : Expire(k)

Spec == Init /\ [][Next]_vars

\* Liveness assumes that a call inside a client goes on to its next command.
Fairness == \A c \in Calls : WF_vars(Running(c) /\ Step(c))

FairSpec == Spec /\ Fairness
-----------------------------------------------------------------------------
(* Properties. *)

EnqueuedFor(k) == {c \in enqueued : KeyOf[c] = k}

\* Ids that returned calls with key k were given.
AnswersFor(k) == {answer[c] : c \in {d \in DOMAIN answer : KeyOf[d] = k}}

\* Keys that make calls return the id of a message that was not published
\* and will not be.
Stuck ==
  {k \in DOMAIN reserved : reserved[k] \notin enqueued /\ pc[reserved[k]] = "failed"}

\* Every variable has its type.
TypeOK ==
  /\ DOMAIN reserved \subseteq DedupKeys
  /\ \A k \in DOMAIN reserved : reserved[k] \in Calls /\ KeyOf[reserved[k]] = k
  /\ pc \in [Calls -> States]
  /\ DOMAIN answer \subseteq Calls /\ \A c \in DOMAIN answer : answer[c] \in Calls
  /\ enqueued \subseteq Calls
  /\ expiries \in 0..MaxExpiries
  /\ faults \in [Kinds -> Nat] /\ AllFaults <= MaxFaults

\* While no TTL has ended and no command has failed, concurrent calls with one
\* key enqueue one message and all get its id.
OnceAndAgreed ==
  (expiries = 0 /\ AllFaults = 0) =>
    \A k \in DedupKeys :
      Cardinality(EnqueuedFor(k)) <= 1 /\ Cardinality(AnswersFor(k)) <= 1

\* While no command has failed, whatever keys expire, the id a call returned
\* is the id of a message that was published or is being published.
AnswerIsPublished ==
  AllFaults = 0 =>
    \A c \in DOMAIN answer : answer[c] \in enqueued \/ pc[answer[c]] = "publish"

\* A call that failed without publishing leaves its key reserved only if it
\* died, if its SET lost its reply, or if both its publish and its rollback
\* were refused.
StuckNeedsTwoRefusals ==
  2 * Cardinality(Stuck) <=
    faults["refused"] + 2 * (faults["reply_lost"] + faults["crash"])

\* A call that found its key reserved ends with a message published for the
\* key unless a command fails, although keys may expire at any time.
EveryCallDelivers ==
  \A c \in Calls :
    pc[c] = "get" ~> (EnqueuedFor(KeyOf[c]) # {} \/ AllFaults > 0)

\* In one TTL window one message is enqueued per key, faults or not.
OncePerWindow ==
  expiries = 0 => \A k \in DedupKeys : Cardinality(EnqueuedFor(k)) <= 1
=============================================================================
