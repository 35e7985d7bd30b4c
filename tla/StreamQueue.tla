---------------------------- MODULE StreamQueue ----------------------------
(***************************************************************************)
(* The Redis Streams backend (src/redqueue/backends/stream.py and its      *)
(* awaiting twin async_stream.py), one Redis command per step, and the     *)
(* client's recover_stale on top of it.                                    *)
(*                                                                         *)
(* A stream is a log that is never trimmed.  Its consumer group has a      *)
(* cursor (what XREADGROUP ">" has handed out) and a pending entries list. *)
(* Which consumer an entry is pending for makes no difference to any       *)
(* command the backend sends, so the list is a set of positions; idle are  *)
(* those whose idle time has reached min_idle_ms.                          *)
(*                                                                         *)
(* A Message is known by its raw_id, which is all that XACK looks at.  An  *)
(* application is taken to be done with one when an operation on it        *)
(* returned or raised AckError, and may repeat an operation that raised    *)
(* anything else.                                                          *)
(***************************************************************************)
EXTENDS Integers, Sequences, FiniteSets

CONSTANTS
  Workers,      \* callers of the client
  Ids,          \* identities of the messages that may be published
  Unreadable,   \* messages whose envelope the consumer's _decode rejects
  MaxRetries,   \* config.retry.max_retries
  MaxBatch,     \* bound on consume's batch_size
  Timeouts,     \* the timeouts of consume, in microseconds, other than None
  Limit,        \* the limit argument of recover_pending and dead_letters
  AutoClaim,    \* capabilities.supports_streams_auto_claim
  ClientDrops,  \* recovery goes through the client's recover_stale, which
                \* returns the number of claimed messages and not the messages
  MaxEntries,   \* bound on the length of a log
  MaxClaims,    \* bound up to which claims are counted
  FaultKinds,   \* which faults may happen
  MaxFaults     \* bound on their number

(* The faults are those of ListQueue. *)
ASSUME ConstantsAssumption ==
  /\ Unreadable \subseteq Ids
  /\ MaxRetries \in Nat
  /\ MaxBatch \in Nat \ {0}
  /\ Timeouts \subseteq Nat
  /\ Limit \in Nat \ {0}
  /\ AutoClaim \in BOOLEAN
  /\ ClientDrops \in BOOLEAN
  /\ MaxEntries \in Nat
  /\ MaxClaims \in Nat
  /\ FaultKinds \subseteq {"refused", "reply_lost", "crash"}
  /\ MaxFaults \in Nat

VARIABLES
  log,        \* the entries of the active and of the dead-letter stream
  cursor,     \* per stream: how many entries the group has handed out
  pel,        \* per stream: positions in the pending entries list
  idle,       \* positions of the active stream that may be claimed
  call,       \* per worker: the call it is inside
  held,       \* per worker: Messages it may still operate on
  published,  \* history: ids that were published
  acked,      \* history: ids of entries that an ack took off the list
  acks,       \* history: how many entries that were
  claims,     \* history: how many claimed messages were returned
  faults      \* number of faults so far

redis == <<log, cursor, pel, idle>>
history == <<published, acked, acks, claims>>
vars == <<log, cursor, pel, idle, call, held, published, acked, acks, claims, faults>>

Keys == {"stream", "dead"}
Raws == 1..MaxEntries
Payload == [id : Ids, attempts : 0..MaxRetries]
Handle == [key : Keys, raw : Raws]

\* A call waits for entries in XREADGROUP, or is between its XADD and its XACK
\* of the message it was given, or between XPENDING and XCLAIM.
Idle == [op |-> "idle"]
Frame ==
  {Idle}
    \cup [op : {"consume"}, count : 1..MaxBatch, timeout : Timeouts]
    \cup [op : {"ack"}, handle : Handle]
    \cup [op : {"claim"}, raws : SUBSET Raws]

Init ==
  /\ log = [k \in Keys |-> <<>>]
  /\ cursor = [k \in Keys |-> 0]
  /\ pel = [k \in Keys |-> {}]
  /\ idle = {}
  /\ call = [w \in Workers |-> Idle]
  /\ held = [w \in Workers |-> {}]
  /\ published = {}
  /\ acked = {}
  /\ acks = 0
  /\ claims = 0
  /\ faults = 0

-----------------------------------------------------------------------------
(* Redis commands and faults. *)

\* XADD
XAdd(k, p) ==
  /\ Len(log[k]) < MaxEntries
  /\ log' = [log EXCEPT ![k] = Append(@, p)]
  /\ UNCHANGED <<cursor, pel, idle>>

\* XREADGROUP ">" COUNT n: the new entries it returns.
NewEntries(k, n) == {r \in 1..Len(log[k]) : cursor[k] < r /\ r <= cursor[k] + n}

\* Mutant: XREADGROUP NOACK.
HandOutNoAck(k, raws) ==
  /\ raws # {}
  /\ cursor' = [cursor EXCEPT ![k] = @ + Cardinality(raws)]
  /\ UNCHANGED <<log, pel, idle>>

HandOut(k, raws) ==
  /\ raws # {}
  /\ cursor' = [cursor EXCEPT ![k] = @ + Cardinality(raws)]
  /\ pel' = [pel EXCEPT ![k] = @ \cup raws]
  /\ UNCHANGED <<log, idle>>

\* XACK
Acknowledge(h) ==
  /\ pel' = [pel EXCEPT ![h.key] = @ \ {h.raw}]
  /\ idle' = IF h.key = "stream" THEN idle \ {h.raw} ELSE idle
  /\ UNCHANGED <<log, cursor>>

Entry(h) == log[h.key][h.raw]

\* _decode raises for the first unreadable entry and the others of the same
\* reply are dropped with the exception.
Decoded(k, raws) ==
  IF \E r \in raws : log[k][r].id \in Unreadable THEN {}
  ELSE {[key |-> k, raw |-> r] : r \in raws}

Give(w, handles) == held' = [held EXCEPT ![w] = @ \cup handles]
Done(w, h) == held' = [held EXCEPT ![w] = @ \ {h}]

Fault(kind) ==
  /\ kind \in FaultKinds
  /\ faults < MaxFaults
  /\ faults' = faults + 1

Crash(w) ==
  /\ call[w] # Idle \/ held[w] # {}
  /\ Fault("crash")
  /\ call' = [call EXCEPT ![w] = Idle]
  /\ held' = [held EXCEPT ![w] = {}]
  /\ UNCHANGED <<redis, history>>

-----------------------------------------------------------------------------
(* publish, consume, ack *)

\* A publish that raises after a lost reply has the same effect.
Publish(id) ==
  /\ id \notin published
  /\ XAdd("stream", [id |-> id, attempts |-> 0])
  /\ published' = published \cup {id}
  /\ UNCHANGED <<call, held, acked, acks, claims, faults>>

Return(w) == call' = [call EXCEPT ![w] = Idle]

\* Mutant: the timeout is cut to seconds before it is converted.
BlockSeconds(timeout) == (timeout \div 1000000) * 1000

\* The BLOCK of XREADGROUP in milliseconds.  0 waits without limit; with a
\* timeout of None there is no BLOCK, and no waiting.
Block(timeout) == timeout \div 1000

\* There are no entries yet.
Wait(w, n, timeout) ==
  /\ call[w] = Idle
  /\ NewEntries("stream", n) = {}
  /\ call' = [call EXCEPT ![w] = [op |-> "consume", count |-> n, timeout |-> timeout]]
  /\ UNCHANGED <<redis, held, history, faults>>

WaitEnds(w) ==
  /\ call[w].op = "consume"
  /\ Block(call[w].timeout) > 0
  /\ NewEntries("stream", call[w].count) = {}
  /\ Return(w)
  /\ UNCHANGED <<redis, held, history, faults>>

Waiting(w, n) == call[w].op = "consume" /\ call[w].count = n

\* Redis serves a waiting call as soon as an entry arrives, here at any time.
Consume(w, n) ==
  LET raws == NewEntries("stream", n) IN
  /\ call[w] = Idle \/ Waiting(w, n)
  /\ HandOut("stream", raws)
  /\ Give(w, Decoded("stream", raws))
  /\ Return(w)
  /\ UNCHANGED <<history, faults>>

ConsumeRaises(w, n) ==
  /\ \/ /\ call[w] = Idle \/ Waiting(w, n)
        /\ Fault("reply_lost")
        /\ HandOut("stream", NewEntries("stream", n))
     \/ /\ Waiting(w, n)
        /\ Fault("refused")
        /\ UNCHANGED redis
  /\ Return(w)
  /\ UNCHANGED <<held, history>>

\* Takes the message off the list, or raises AckError without any effect.
Ack(w, h) ==
  /\ call[w] = Idle
  /\ h.key = "stream"
  /\ Acknowledge(h)
  /\ IF h.raw \in pel["stream"]
     THEN acked' = acked \cup {Entry(h).id} /\ acks' = acks + 1
     ELSE UNCHANGED <<acked, acks>>
  /\ Done(w, h)
  /\ UNCHANGED <<call, published, claims, faults>>

AckReplyLost(w, h) ==
  /\ call[w] = Idle
  /\ h.key = "stream"
  /\ h.raw \in pel["stream"]
  /\ Fault("reply_lost")
  /\ Acknowledge(h)
  /\ acked' = acked \cup {Entry(h).id}
  /\ acks' = acks + 1
  /\ UNCHANGED <<call, held, published, claims>>

-----------------------------------------------------------------------------
(* nack, retry, requeue_dead: XADD of a copy, then XACK of the original.   *)

Fresh(p) == [p EXCEPT !.attempts = 0]
WithAttempt(p) == [p EXCEPT !.attempts = @ + 1]

\* Mutant: ">" for ">=".
ExhaustedOffByOne(p) == p.attempts > MaxRetries

Exhausted(p) == p.attempts >= MaxRetries

\* The copies that the operations on h append, each with its stream.  nack
\* with requeue and requeue_dead publish the payload as a new message; retry
\* counts the attempt; nack without requeue and an exhausted retry move the
\* message to the dead-letter stream as it is.
Copies(h) ==
  IF h.key = "dead" THEN {<<"stream", Fresh(Entry(h))>>}
  ELSE {<<"stream", Fresh(Entry(h))>>, <<"dead", Entry(h)>>}
         \cup (IF Exhausted(Entry(h)) THEN {}
               ELSE {<<"stream", WithAttempt(Entry(h))>>})

Copy(w, h) ==
  /\ call[w] = Idle
  /\ \E c \in Copies(h) : XAdd(c[1], c[2])
  /\ call' = [call EXCEPT ![w] = [op |-> "ack", handle |-> h]]
  /\ UNCHANGED <<held, history, faults>>

\* The XADD was executed but raised: there is no XACK.
CopyRaises(w, h) ==
  /\ call[w] = Idle
  /\ Fault("reply_lost")
  /\ \E c \in Copies(h) : XAdd(c[1], c[2])
  /\ UNCHANGED <<call, held, history>>

\* Mutant: the call returns without its XACK.
ConfirmSkipped(w) ==
  /\ call[w].op = "ack"
  /\ Done(w, call[w].handle)
  /\ call' = [call EXCEPT ![w] = Idle]
  /\ UNCHANGED <<redis, history, faults>>

\* The XACK; when it acknowledges nothing, nack and retry raise AckError but
\* the copy stays.
Confirm(w) ==
  /\ call[w].op = "ack"
  /\ Acknowledge(call[w].handle)
  /\ Done(w, call[w].handle)
  /\ call' = [call EXCEPT ![w] = Idle]
  /\ UNCHANGED <<history, faults>>

ConfirmRaises(w) ==
  /\ call[w].op = "ack"
  /\ \/ Fault("refused") /\ UNCHANGED redis
     \/ Fault("reply_lost") /\ Acknowledge(call[w].handle)
  /\ call' = [call EXCEPT ![w] = Idle]
  /\ UNCHANGED <<held, history>>

-----------------------------------------------------------------------------
(* Recovery and dead letters. *)

\* The idle time of a pending entry reaches min_idle_ms.
Age(r) ==
  /\ r \in pel["stream"] \ idle
  /\ idle' = idle \cup {r}
  /\ UNCHANGED <<log, cursor, pel, call, held, history, faults>>

FirstOf(raws, n) == {r \in raws : Cardinality({q \in raws : q < r}) < n}

Least(m, n) == IF m <= n THEN m ELSE n

\* The call claims the pending entries raws, which are idle, and returns.
Claimed(w, raws) ==
  LET messages == Decoded("stream", raws) IN
  /\ idle' = idle \ raws
  /\ IF ClientDrops THEN UNCHANGED <<held, claims>>
     ELSE /\ Give(w, messages)
          /\ claims' = Least(claims + Cardinality(messages), MaxClaims)
  /\ Return(w)
  /\ UNCHANGED <<log, cursor, pel, published, acked, acks, faults>>

\* XAUTOCLAIM from 0-0 takes the first idle entries.
Recover(w) ==
  /\ AutoClaim
  /\ call[w] = Idle
  /\ idle # {}
  /\ Claimed(w, FirstOf(idle, Limit))

\* Mutant: XPENDING with an exclusive start skips the first entry.
ListedAfterFirst == {r \in pel["stream"] : \E q \in pel["stream"] : q < r}

Listed == FirstOf(pel["stream"], Limit)

\* XPENDING lists the first entries, idle or not.
ListPending(w) ==
  /\ ~AutoClaim
  /\ call[w] = Idle
  /\ Listed # {}
  /\ call' = [call EXCEPT ![w] = [op |-> "claim", raws |-> Listed]]
  /\ UNCHANGED <<redis, held, history, faults>>

\* XCLAIM takes those of the listed entries that are still pending and idle.
Claim(w) ==
  /\ call[w].op = "claim"
  /\ Claimed(w, idle \cap call[w].raws)

RecoverRaises(w) ==
  /\ \/ /\ AutoClaim
        /\ call[w] = Idle
        /\ idle # {}
        /\ Fault("reply_lost")
        /\ idle' = idle \ FirstOf(idle, Limit)
     \/ /\ call[w].op = "claim"
        /\ Fault("reply_lost")
        /\ idle' = idle \ call[w].raws
     \/ /\ call[w].op = "claim"
        /\ Fault("refused")
        /\ UNCHANGED idle
  /\ Return(w)
  /\ UNCHANGED <<log, cursor, pel, held, history>>

\* dead_letters reads each dead letter once: it uses XREADGROUP ">" too.
DeadLetters(w) ==
  LET raws == NewEntries("dead", Limit) IN
  /\ call[w] = Idle
  /\ HandOut("dead", raws)
  /\ Give(w, Decoded("dead", raws))
  /\ UNCHANGED <<call, history, faults>>

DeadLettersRaises(w) ==
  /\ call[w] = Idle
  /\ Fault("reply_lost")
  /\ HandOut("dead", NewEntries("dead", Limit))
  /\ UNCHANGED <<call, held, history>>

-----------------------------------------------------------------------------
Next ==
  \/ \E id \in Ids : Publish(id)
  \/ \E r \in Raws : Age(r)
  \/ \E w \in Workers :
       \/ \E n \in 1..MaxBatch : Consume(w, n) \/ ConsumeRaises(w, n)
       \/ \E h \in held[w] :
            Ack(w, h) \/ AckReplyLost(w, h) \/ Copy(w, h) \/ CopyRaises(w, h)
       \/ Confirm(w)
       \/ ConfirmRaises(w)
       \/ \E n \in 1..MaxBatch, timeout \in Timeouts : Wait(w, n, timeout)
       \/ WaitEnds(w)
       \/ Recover(w)
       \/ ListPending(w)
       \/ Claim(w)
       \/ RecoverRaises(w)
       \/ DeadLetters(w)
       \/ DeadLettersRaises(w)
       \/ Crash(w)

Spec == Init /\ [][Next]_vars

\* Liveness assumes that a call inside a client goes on, that time passes
\* for pending entries, and that somebody keeps calling the recovery.
Fairness ==
  /\ \A w \in Workers : WF_vars(Confirm(w)) /\ WF_vars(Claim(w))
  /\ \A w \in Workers :
       WF_vars(WaitEnds(w) \/ \E n \in 1..MaxBatch : Waiting(w, n) /\ Consume(w, n))
  /\ \A r \in Raws : WF_vars(Age(r))
  /\ SF_vars(\E w \in Workers : Recover(w) \/ ListPending(w))

FairSpec == Spec /\ Fairness
-----------------------------------------------------------------------------
(* Where the messages are. *)

\* Entries that the group will hand out or has pending.
Live(k) == pel[k] \cup (cursor[k] + 1 .. Len(log[k]))

LiveIds == UNION {{log[k][r].id : r \in Live(k)} : k \in Keys}

\* Entries whose copy is written and whose XACK is the next command of a call.
Superseded == {call[w].handle : w \in {v \in Workers : call[v].op = "ack"}}

\* Copies that will be delivered, or can be recovered, one by one.
Standing == {h \in Handle : h.raw \in Live(h.key)} \ Superseded

\* Nobody can still ack, nack or retry the pending entry r.
Stranded(r) ==
  r \in pel["stream"] /\ \A w \in Workers : [key |-> "stream", raw |-> r] \notin held[w]

-----------------------------------------------------------------------------
(* Properties. *)

\* Every variable has its type; in particular no call chain makes an attempt
\* counter exceed max_retries.
TypeOK ==
  /\ log \in [Keys -> Seq(Payload)] /\ \A k \in Keys : Len(log[k]) <= MaxEntries
  /\ cursor \in [Keys -> 0..MaxEntries]
  /\ pel \in [Keys -> SUBSET Raws]
  /\ idle \subseteq pel["stream"]
  /\ call \in [Workers -> Frame]
  /\ held \in [Workers -> SUBSET Handle]
  /\ published \subseteq Ids
  /\ acked \subseteq Ids
  /\ acks \in Nat
  /\ claims \in 0..MaxClaims
  /\ faults \in 0..MaxFaults

\* No message is lost, whatever fails and in whatever order calls interleave:
\* until an ack took an entry of it off the list, a copy stands in one of the
\* two streams.  Copies are written before originals are acknowledged.
NeverLost == published \subseteq acked \cup LiveIds

\* Every copy of a message beyond the first has a cause: a fault, or a claim
\* that gave a second worker the same entry.  Each causes at most one.
CopiesHaveCauses ==
  claims < MaxClaims =>
    Cardinality(Standing) + acks <= Cardinality(published) + faults + claims

\* A readable pending entry that nobody holds a Message of is given to a
\* worker or leaves the list.
StrandedRecovered ==
  \A r \in Raws :
    (Stranded(r) /\ log["stream"][r].id \notin Unreadable) ~> ~Stranded(r)

\* A consume with a timeout of a millisecond or more does not wait for ever,
\* whoever takes the entries that arrive.
WaitingEnds ==
  \A w \in Workers :
    call[w].op = "consume" /\ call[w].timeout >= 1000 ~> call[w].op # "consume"
=============================================================================
