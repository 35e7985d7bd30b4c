--------------------------- MODULE DelayedPublish ---------------------------
(***************************************************************************)
(* publish(delay=..., dedup_key=...) of a client: deduplication around the *)
(* delay scheduler (src/redqueue/client.py, async_client.py).  The call    *)
(* reserves its key, then delay() stores and schedules the message, and a  *)
(* delay() that raises makes the call roll the reservation back.  Other    *)
(* workers release what is due.                                            *)
(*                                                                         *)
(* Extends DelayQueue, whose delay() takes several steps, and composes it  *)
(* with Dedup, for which the publish is a single one.  A task is a call of *)
(* publish(); it is the worker that is inside delay() and stands for the   *)
(* id of its message.                                                      *)
(***************************************************************************)
EXTENDS DelayQueue

CONSTANTS
  Schedulers,   \* workers that call schedule_due
  DedupKeys, KeyOf, MaxExpiries,  \* as in Dedup
  MaxDedupFaults  \* bound on the faults that deduplication sees

ASSUME CompositionAssumption ==
  /\ Workers = Tasks \cup Schedulers
  /\ Tasks \cap Schedulers = {}
  /\ \A c, d \in Tasks : IdOf[c] = IdOf[d] => c = d
  /\ KeyOf \in [Tasks -> DedupKeys]
  /\ MaxExpiries \in Nat
  /\ MaxDedupFaults \in Nat

VARIABLES
  reserved, pc, answer, enqueued, expiries,  \* as in Dedup
  dedupFaults  \* the faults that deduplication sees

D == INSTANCE Dedup WITH
       Calls     <- Tasks,
       MaxFaults <- MaxDedupFaults,
       faults    <- dedupFaults

dedupVars == <<reserved, pc, answer, enqueued, expiries, dedupFaults>>
allVars == <<vars, dedupVars>>

PubInit == Init /\ D!Init

-----------------------------------------------------------------------------
(* A call: reservation, delay(), rollback. *)

\* delay() raises in the call, which goes on to its rollback.
Propagate(c) ==
  /\ D!Goto(c, "rollback")
  /\ UNCHANGED <<reserved, answer, enqueued, expiries>>

\* The SET of the envelope; a relative delay is never in the past.
Store(c) ==
  /\ pc[c] = "publish"
  /\ \E at \in now..MaxTime : Delay(c, c, at)
  /\ UNCHANGED dedupVars

\* Deduplication cannot tell a SET that was executed from one that was not:
\* either way nothing is scheduled.
StoreRaises(c) ==
  /\ pc[c] = "publish"
  /\ \/ /\ call[c] = Idle
        /\ c \notin DOMAIN asked
        /\ Fault("refused")
        /\ UNCHANGED <<zset, payload, now, call, history>>
     \/ \E at \in now..MaxTime : DelayRaises(c, c, at)
  /\ D!Fault("refused")
  /\ Propagate(c)

Enqueue(c) ==
  /\ Schedule(c)
  /\ D!Publish(c)

\* A ZADD that was executed has enqueued the message, although it raises.
EnqueueRaises(c) ==
  /\ ScheduleRaises(c)
  /\ IF Has(zset', IdOf[c])
     THEN D!Fault("reply_lost") /\ D!Enqueue(c)
     ELSE D!Fault("refused") /\ UNCHANGED enqueued
  /\ UNCHANGED <<reserved, pc, answer, expiries>>

\* Mutant: the handler of the failed ZADD does not raise it again.
WithdrawReturns(c) ==
  /\ Undo(c) \/ UndoRaises(c)
  /\ D!Return(c, c)
  /\ UNCHANGED <<reserved, enqueued, expiries, dedupFaults>>

\* The DELETE of the envelope, which may raise in its turn.
Withdraw(c) ==
  /\ Undo(c) \/ UndoRaises(c)
  /\ Propagate(c)
  /\ UNCHANGED dedupFaults

\* The process of the call dies, inside delay() or outside.
Dies(c) ==
  /\ D!Crash(c)
  /\ Goto(c, Idle)
  /\ UNCHANGED <<zset, payload, now, history, faults>>

-----------------------------------------------------------------------------
\* The next command of a call, without a fault.
CallStep(c) ==
  \/ (D!Reserve(c) \/ D!Get(c) \/ D!Rollback(c)) /\ UNCHANGED vars
  \/ Store(c)
  \/ Enqueue(c)
  \/ Withdraw(c)

CallRaises(c) ==
  \/ D!ReserveRaises(c) /\ UNCHANGED vars
  \/ D!GetRaises(c) /\ UNCHANGED vars
  \/ D!RollbackRaises(c) /\ UNCHANGED vars
  \/ StoreRaises(c)
  \/ EnqueueRaises(c)
  \/ Dies(c)

PubNext ==
  \/ \E c \in Tasks : CallStep(c) \/ CallRaises(c)
  \/ \E w \in Schedulers :
       (ScheduleDue(w) \/ Step(w) \/ StepRaises(w)) /\ UNCHANGED dedupVars
  \/ \E k \in DedupKeys : D!Expire(k) /\ UNCHANGED vars
  \/ Tick /\ UNCHANGED dedupVars

PubSpec == PubInit /\ [][PubNext]_allVars

\* Liveness assumes that time passes, that a call inside a client goes on to
\* its next command, and that somebody keeps calling schedule_due.
PubFairness ==
  /\ WF_allVars(Tick /\ UNCHANGED dedupVars)
  /\ \A c \in Tasks : WF_allVars(D!Running(c) /\ CallStep(c))
  /\ \A w \in Schedulers : WF_allVars(Step(w) /\ UNCHANGED dedupVars)
  /\ SF_allVars(\E w \in Schedulers : ScheduleDue(w) /\ UNCHANGED dedupVars)

PubFairSpec == PubSpec /\ PubFairness
-----------------------------------------------------------------------------
(* Properties. *)

NoFault == D!AllFaults = 0 /\ faults = 0

\* Every variable has its type, and only a call that publishes is inside
\* delay().
PubTypeOK ==
  /\ D!TypeOK
  /\ TypeOK
  /\ \A c \in Tasks : call[c] # Idle => pc[c] = "publish"

\* delay() is the single step that deduplication takes it for: with its undo
\* and whatever raises inside it, every call goes through the states of
\* Dedup, so that all that Dedup promises holds for delayed messages.
pcSeen == [c \in Tasks |-> IF call[c].op = "undo" THEN "rollback" ELSE pc[c]]

DedupSeen == INSTANCE Dedup WITH
  Calls     <- Tasks,
  MaxFaults <- MaxDedupFaults,
  faults    <- dedupFaults,
  pc        <- pcSeen

ImplementsDedup == DedupSeen!Spec

\* While no command failed and no TTL ended, one message is released per key,
\* whatever calls and schedulers run side by side.
ReleasedOnce ==
  NoFault /\ expiries = 0 =>
    \A k \in DedupKeys :
      /\ Cardinality({c \in Tasks : KeyOf[c] = k /\ released[c] > 0}) <= 1
      /\ \A c \in Tasks : released[c] <= 1

\* Unless a command fails, the id that a call returns, its own or that of the
\* call that had reserved the key, is in the end the id of a released message,
\* although the TTL may end while the message waits.
AnswerReleased ==
  \A c \in Tasks :
    pc[c] = "returned" ~>
      \/ Has(answer, c) /\ released[answer[c]] > 0
      \/ ~NoFault
=============================================================================
