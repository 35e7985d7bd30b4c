----------------------------- MODULE CliConsume -----------------------------
(***************************************************************************)
(* The command line (src/redqueue/cli.py) on a List queue.  Every command  *)
(* is a process that makes a client, calls it and ends.  publish is        *)
(* ListQueue's Publish; consume takes a batch, applies the action its      *)
(* flags name to one message after the other and lets the first exception  *)
(* end the process with a non-zero status.  The Message objects die with   *)
(* the process, and no command can get at a processing entry again.        *)
(*                                                                         *)
(* Such processes run beside other workers that may do everything          *)
(* ListQueue lets a worker do: recover entries while a process handles     *)
(* them, and consume, ack or move what it put back.                        *)
(***************************************************************************)
EXTENDS ListQueue

CONSTANTS
  Shells,   \* the workers that are command line processes, one after another
  Actions   \* what the flags of consume may ask for

ASSUME ShellsAssumption ==
  /\ Shells \subseteq Workers
  /\ Actions \subseteq {"none", "ack", "nack_requeue", "nack_dead_letter", "retry"}

VARIABLES
  process,  \* per shell: the running consume command
  dropped   \* history: processing entries whose last caller gave them up

cliVars == <<process, dropped>>
allVars == <<vars, cliVars>>

(***************************************************************************)
(* phase tells where handle_consume is, and batch what it has not handled  *)
(* yet, in the order of consumption: it fills up while consume runs and    *)
(* loses its head with every message handled.                              *)
(***************************************************************************)
NoProcess == [phase |-> "none", action |-> "none", batch |-> <<>>]

Phases == {"none", "consuming", "handling", "pushing", "failed"}

CliInit ==
  /\ Init
  /\ process = [s \in Shells |-> NoProcess]
  /\ dropped = {}

Goto(s, phase, batch) ==
  process' = [process EXCEPT ![s] =
                [phase |-> phase, action |-> process[s].action, batch |-> batch]]

\* Entries given up stay so until they leave the processing list.
GiveUp(gone) == dropped' = (dropped \cup gone) \cap IdsIn(db'["processing"])

-----------------------------------------------------------------------------
(* client.consume *)

Start(s, n, action) ==
  /\ process[s].phase = "none"
  /\ Consume(s, n)
  /\ process' = [process EXCEPT ![s] =
                   [phase |-> "consuming", action |-> action, batch |-> <<>>]]
  /\ GiveUp({})

Take(s) ==
  /\ process[s].phase = "consuming"
  /\ MoveToProcessing(s)
  /\ LET p == Last(db["ready"])
     IN IF p.id \in Unreadable
        THEN Goto(s, "failed", process[s].batch)
        ELSE Goto(s, IF call[s].want = 1 THEN "handling" ELSE "consuming",
                  Append(process[s].batch, p))
  /\ GiveUp({})

TimesOut(s) ==
  /\ process[s].phase = "consuming"
  /\ ConsumeTimesOut(s)
  /\ Goto(s, "handling", process[s].batch)
  /\ GiveUp({})

TakeRaises(s) ==
  /\ process[s].phase = "consuming"
  /\ ConsumeRaises(s)
  /\ Goto(s, "failed", process[s].batch)
  /\ GiveUp({})

-----------------------------------------------------------------------------
(* The loop over the batch. *)

Asked(s, actions) ==
  /\ process[s].phase = "handling"
  /\ process[s].batch # <<>>
  /\ process[s].action \in actions

Current(s) == Head(process[s].batch)
Others(s) == Tail(process[s].batch)

\* Mutant: the loop ends with the first message.
AckOnlyOne(s) ==
  /\ Asked(s, {"ack"})
  /\ Ack(s, Current(s))
  /\ Goto(s, "handling", <<>>)
  /\ GiveUp({})

AckNext(s) ==
  /\ Asked(s, {"ack"})
  /\ Ack(s, Current(s))
  /\ Goto(s, "handling", Others(s))
  /\ GiveUp({})

\* The LREM of nack or retry; its LPUSH follows.
RemoveNext(s) ==
  /\ \/ Asked(s, {"nack_requeue"}) /\ Nack(s, Current(s), TRUE)
     \/ Asked(s, {"nack_dead_letter"}) /\ Nack(s, Current(s), FALSE)
     \/ Asked(s, {"retry"}) /\ Retry(s, Current(s))
  /\ Goto(s, "pushing", process[s].batch)
  /\ GiveUp({})

\* Mutant: an AckError starts the loop over.
NotFoundStartsOver(s) ==
  /\ Asked(s, Actions \ {"none"})
  /\ ~Removes("processing", Current(s))
  /\ UNCHANGED allVars

\* Somebody else has removed the entry: AckError ends the loop.
NotFound(s) ==
  /\ Asked(s, Actions \ {"none"})
  /\ ~Removes("processing", Current(s))
  /\ Goto(s, "failed", process[s].batch)
  /\ UNCHANGED vars
  /\ GiveUp({})

RemoveRaises(s) ==
  /\ Asked(s, Actions \ {"none"})
  /\ \/ /\ Fault("refused")
        /\ UNCHANGED <<db, call, held, published, delivered, acked>>
     \/ /\ process[s].action # "ack"
        /\ RemovalReplyLost(s, "processing", Current(s))
     \/ /\ process[s].action = "ack"
        /\ Fault("reply_lost")
        /\ Removes("processing", Current(s))
        /\ db' = LRem(db, "processing", Current(s))
        /\ acked' = acked \cup {Current(s).id}
        /\ UNCHANGED <<call, held, published, delivered>>
  /\ Goto(s, "failed", process[s].batch)
  /\ GiveUp({})

\* A retry that ends in the dead letters raises RetryExceededError after its
\* LPUSH, and that ends the loop too.
PushNext(s) ==
  /\ process[s].phase = "pushing"
  /\ Push(s)
  /\ Goto(s, IF process[s].action = "retry" /\ call[s].dest = "dead"
             THEN "failed" ELSE "handling", Others(s))
  /\ GiveUp({})

PushNextRaises(s) ==
  /\ process[s].phase = "pushing"
  /\ PushRaises(s)
  /\ Goto(s, "failed", Others(s))
  /\ GiveUp({})

\* Mutant: an interrupt between LREM and LPUSH is taken for an exception of the
\* call, with the call left running.
ExitsInsideCall(s) ==
  /\ process[s].phase = "pushing"
  /\ process' = [process EXCEPT ![s] = NoProcess]
  /\ held' = [held EXCEPT ![s] = {}]
  /\ UNCHANGED <<db, call, published, delivered, acked, faults>>
  /\ GiveUp({})

\* The process ends after its loop, after an exception, or at once when no
\* action was asked for; what is left of its batch has no caller any more.
Exit(s) ==
  /\ \/ process[s].phase = "failed"
     \/ /\ process[s].phase = "handling"
        /\ process[s].batch = <<>> \/ process[s].action = "none"
  /\ process' = [process EXCEPT ![s] = NoProcess]
  /\ held' = [held EXCEPT ![s] = {}]
  /\ UNCHANGED <<db, call, published, delivered, acked, faults>>
  /\ GiveUp({process[s].batch[i].id : i \in DOMAIN process[s].batch})

Killed(s) ==
  /\ process[s].phase # "none"
  /\ Crash(s)
  /\ process' = [process EXCEPT ![s] = NoProcess]
  /\ GiveUp({process[s].batch[i].id : i \in DOMAIN process[s].batch})

-----------------------------------------------------------------------------
\* The next step of a process, without a fault.
Proceed(s) ==
  \/ Take(s)
  \/ TimesOut(s)
  \/ AckNext(s)
  \/ RemoveNext(s)
  \/ NotFound(s)
  \/ PushNext(s)
  \/ Exit(s)

\* Messages that a failing batch of an application drops.
Forgotten(w) == {p.id : p \in call[w].got \ (call'[w].got \cup held'[w])}

CliNext ==
  \/ /\ \E id \in Ids : Publish(id)
     /\ UNCHANGED process
     /\ GiveUp({})
  \/ \E w \in Workers \ Shells :
       /\ WorkerNext(w)
       /\ UNCHANGED process
       /\ GiveUp(Forgotten(w))
  \/ \E s \in Shells :
       \/ \E n \in 1..MaxBatch, action \in Actions : Start(s, n, action)
       \/ Proceed(s)
       \/ TakeRaises(s)
       \/ RemoveRaises(s)
       \/ PushNextRaises(s)
       \/ Killed(s)

CliSpec == CliInit /\ [][CliNext]_allVars

\* A running process goes on to its next step.
CliFairness == \A s \in Shells : WF_allVars(Proceed(s))

CliFairSpec == CliSpec /\ CliFairness
-----------------------------------------------------------------------------
(* Properties. *)

\* Some caller can still handle the entry.
Cared(p) ==
  \/ Known(p)
  \/ \E s \in Shells : \E i \in DOMAIN process[s].batch : process[s].batch[i] = p

\* Every variable has its type, and a process and the client call it is in
\* agree: it ends, handles the next message and fails between calls only, what
\* it has to handle is what consume gave it, and no Message outlives it.
CliTypeOK ==
  /\ dropped \subseteq Ids
  /\ \A s \in Shells :
       /\ process[s].phase \in Phases
       /\ process[s].action \in Actions \cup {"none"}
       /\ call[s].op = CASE process[s].phase = "consuming" -> "consume"
                         [] process[s].phase = "pushing"   -> "push"
                         [] OTHER                          -> "idle"
       /\ process[s].phase \in {"handling", "pushing"} =>
            Range(process[s].batch) \subseteq held[s]
       /\ process[s].phase = "none" => process[s] = NoProcess /\ held[s] = {}

\* A consume command that ends without an exception, having been asked to
\* ack, nack or retry, leaves nothing of its batch in processing: every
\* readable entry there is known to somebody, or was given up by a process
\* that failed or was not asked to handle it, unless a command failed.
OnlyFailuresStrand ==
  faults = 0 =>
    \A i \in DOMAIN db["processing"] :
      LET p == db["processing"][i]
      IN p.id \in Unreadable \/ p.id \in dropped \/ Cared(p)

\* Every consume command ends, whatever other workers do to its messages.
ProcessesEnd == \A s \in Shells : process[s].phase # "none" ~> process[s].phase = "none"
=============================================================================
