-------------------------- MODULE MessageLifecycle --------------------------
(***************************************************************************)
(* What the queue promises about a message, without lists, calls or        *)
(* processes.  A message is published once; from then on it is in exactly  *)
(* one of ready, processing and dead, or on its way between two of them;   *)
(* only the moves below happen, to one message at a time; its attempt      *)
(* counter never goes down and is bounded; and once acknowledged it is     *)
(* gone for good.  A message may be lost, but only where a caller removed  *)
(* it to put it elsewhere.                                                 *)
(***************************************************************************)
EXTENDS Integers

CONSTANTS Ids, MaxRetries

VARIABLES
  place,     \* where each message is
  attempts   \* {n} when a copy of the message with attempt counter n exists

vars == <<place, attempts>>

Init ==
  /\ place = [id \in Ids |-> "new"]
  /\ attempts = [id \in Ids |-> {}]

Move(id, from, to, n) ==
  /\ place[id] = from
  /\ place' = [place EXCEPT ![id] = to]
  /\ attempts' = [attempts EXCEPT ![id] = n]

Publish(id) == Move(id, "new", "ready", {0})

Deliver(id) == Move(id, "ready", "processing", attempts[id])

Acknowledge(id) == Move(id, "processing", "acked", {})

\* nack, retry and recovery take a delivery back; retry counts it, within the
\* budget.
TakeBack(id) ==
  \/ Move(id, "processing", "moving", attempts[id])
  \/ \E n \in 0..MaxRetries - 1 :
       /\ attempts[id] = {n}
       /\ Move(id, "processing", "moving", {n + 1})

Revive(id) == Move(id, "dead", "moving", attempts[id])

PutDown(id) ==
  \E to \in {"ready", "dead"} : Move(id, "moving", to, attempts[id])

\* A caller dies, or its command fails, between taking and putting down.
Lose(id) ==
  \E from \in {"moving", "processing", "dead"} : Move(id, from, "lost", {})

Next ==
  \E id \in Ids :
    \/ Publish(id)
    \/ Deliver(id)
    \/ Acknowledge(id)
    \/ TakeBack(id)
    \/ Revive(id)
    \/ PutDown(id)
    \/ Lose(id)

Spec == Init /\ [][Next]_vars
=============================================================================
