# RedQueue in TLA+

RedQueue (`src/src/redqueue`) is a Python message queue library on Redis: List
and Streams backends, delayed tasks, publish-time deduplication, each with a
synchronous and an asyncio client. It has no server of its own. Every
guarantee rests on short sequences of Redis commands that any number of
processes send side by side, and on what a process remembers between two of
them. This directory models those sequences, checks them with TLC and proves
part of the results with TLAPS.

## 1. Inventory

| Component | State | Operations | Hard behaviour |
|---|---|---|---|
| List backend (`backends/list.py`, `async_list.py`) | Redis lists `ready`, `processing`, `dead`; locals of running calls; `Message` objects of the application | publish, consume, ack, nack, retry, recover_stale, dead_letters, requeue_dead | LREM and LPUSH are two commands; recovery takes live entries; stale handles; poison entries |
| Streams backend (`backends/stream.py`, `async_stream.py`) | streams `stream`, `dead`; consumer group cursor and pending list of each | the same, with recover_pending | copy-then-acknowledge gives duplicates; claims; batches decoded after delivery |
| Delay scheduler (`backends/delay.py`, `async_delay.py`) | sorted set `delayed`, one key `payload:<id>` per task | delay, schedule_due | two structures kept in step without a transaction; several schedulers; the clock |
| Deduplication (`deduplication.py`, clients) | one key per dedup key, with a TTL | reserve_or_get, rollback around a publish | SET NX, GET, publish, DELETE are four commands; the TTL may end between any two |
| Message, envelope (`message.py`, `backends/base.py`) | immutable | encode, decode, with_attempt, with_backend | an envelope that cannot be decoded |
| Clients (`client.py`, `async_client.py`) | references to backends and the connection, `_closed` | the above, from_url, close | ownership of connections; backends created behind an await; creation that fails half-way; close beside running commands |
| Connection managers (`connection.py`) | one pool | client, close | shared pool, closed once |
| Configuration, compatibility, serialization (`config.py`, `compat.py`, `serialization.py`) | immutable | validation, version parsing, encode/decode | numeric edges |
| Monitoring (`monitoring.py`) | recorded events | emit | none: `QueueConfig` wraps every hook in `SafeMonitoringHook`, so that a hook that raises disturbs no call |
| Command line (`cli.py`) | none | one command per process | a batch loop that an error ends, after which no process knows the rest of the batch |

Interaction: an application calls a client; the client calls one backend, the
delay scheduler (which calls the backend's `publish` for due messages) and the
deduplication helper (which brackets a `publish` or `delay`). There are no
background threads and no locks: `recover_stale` and `schedule_due` run only
when somebody calls them. All shared state is in Redis.

What makes each part correct:

- List: a message is at one place; once acknowledged it does not come back; it
  is lost only where a caller died or failed in the middle of a move; first
  deliveries are in publish order; what is stranded can be recovered.
- Streams: nothing is ever lost; a second copy has a cause; what is stranded
  can be recovered.
- Delay: nothing is published early, twice, or not at all, except for what one
  fault can do; sorted set and keys stay in step.
- Deduplication: calls with one key in one TTL window publish one message and
  agree on its id; a failed call does not block its key. With a delay, a call
  that returns an id has scheduled that message, although two undo paths nest.
- Clients: whoever opened a connection closes it, also when making the client
  fails; nobody cuts another's connections; no operation runs on a backend that
  is not set up.
- Command line: a command that ends well has handled its whole batch, and every
  command ends.

## 2. Modules

| Module | Models |
|---|---|
| `RedisList` | LPUSH, LREM, BLMOVE, LRANGE as operators on functions from key to sequence |
| `ListQueue` | the List backend |
| `MessageLifecycle` | what the List backend promises about one message, without lists or calls |
| `ListQueueProofs` | the proofs about `ListQueue`: where a message is, and what is lost |
| `ListLifecycleProofs` | the proofs about `ListQueue`: order, orphans, the refinement |
| `RedisKeys` | SET, DEL, ZADD, ZREM as operators on partial functions |
| `DelayQueue` | the delay scheduler |
| `DelayQueueProofs` | the proofs about `DelayQueue` |
| `Dedup` | deduplication around a publish |
| `DedupProofs` | the proofs about `Dedup` |
| `DelayedPublish` | `publish(delay=..., dedup_key=...)`: `Dedup` composed with `DelayQueue` |
| `DelayedPublishProofs` | the proofs about `DelayedPublish` |
| `StreamQueue` | the Streams backend and the client's recovery on it |
| `ClientLifecycle` | making, using and closing clients and connection managers |
| `ClientLifecycleProofs` | the proofs about `ClientLifecycle` |
| `CliConsume` | the command line's publish and consume on a `ListQueue` |
| `CliConsumeProofs` | the proofs about `CliConsume` |
| `StreamQueueProofs` | the proofs about `StreamQueue` |
| `MC...` | the instances of these for TLC |

### Conventions shared by the models

- **One step per Redis command.** Between two commands of a call any other
  worker may run. `call[w]` is what the running call keeps in Python locals
  (`op` names its next command); its idle value means that the application is
  not inside the library. The synchronous and the asyncio backend send the same
  commands in the same order, so a worker is a thread, a process or a task.
- **Faults.** `refused`: a command raises and had no effect (connection
  refused, out of memory, encoding error before it). `reply_lost`: Redis
  executed it and the caller sees an exception. `crash`: the process dies with
  all it had in memory. An asyncio task cancelled at an await is the first or
  the second followed by the skipping of every `except Exception` handler,
  which is what a crash of that worker does too. `MaxFaults` bounds their
  number.
- **A command is applied at most once.** Clients built by `from_url` or by a
  connection manager use redis-py 6.4.0 pools, which do not resend a command.
  An application that passes in a Redis object with retries on timeouts leaves
  this assumption, and LPUSH may then be applied twice.
- **Data.** A message is the identity of the call that published it and its
  attempt counter. Payload, headers, trace id and timestamps are copied
  unchanged by every operation and are left out. Identities are distinct, as
  generated ids are, except where a run says otherwise. `Unreadable` is the set
  of messages whose envelope `_decode` rejects.
- Definitions commented "Mutant" are not part of the models: each is a
  plausible error in one definition, under which the property named in
  `PROJECT.json` fails.

### ListQueue

`db` holds the three lists. `consume` is one `MoveToProcessing` per BLMOVE of
its batch loop, ended by the batch size, a time-out (`ConsumeTimesOut`) or an
entry that cannot be decoded. `ack` is one LREM. `nack`, `retry` and
`requeue_dead` are an LREM (`StartMove`) and, after any number of other steps,
an LPUSH (`Push`), with the message in `call[w].moving` in between.
`recover_stale` takes a snapshot with LRANGE and then does the same for every
entry it still finds. `AckError` (LREM removed nothing) has no effect and is
the absence of a step. `held[w]` are the `Message` objects an application has;
it may use each one any number of times, also after an operation on it.
History variables: `published`, `delivered`, `acked`, `faults`.

`MessageLifecycle` is the abstract specification: a message is new, ready, in
processing, moving, dead, acked or lost, and only one message moves at a time.
`ListQueue!ImplementsLifecycle` maps the lists to it by looking where a copy is.

### StreamQueue

`log`, `cursor` and `pel` are a stream, what its group has handed out, and its
pending entries list; consumer names make no difference to any command sent,
so the list is a set. `Consume` is XREADGROUP; when there is nothing to read it
is `Wait`, and the call stays in the command until an entry comes or `WaitEnds`.
The timeout is converted as the code does it (`Block`): below a millisecond it
becomes BLOCK 0, which has no end, and `None` sends no BLOCK and does not wait.
`Copy` is the XADD of nack, retry (to the active or the dead stream) or
requeue_dead, `Confirm` the XACK that follows. Recovery is `Recover`
(XAUTOCLAIM) on servers that have it (`AutoClaim`), else `ListPending`
(XPENDING) and, after any number of other steps, `Claim` (XCLAIM). With
`ClientDrops` it is `QueueClient.recover_stale`, which returns only a number.
XAUTOCLAIM's limit on scanned entries is not modelled.
An application is done with a `Message` after an operation on it that returned
or raised AckError, and may repeat one that raised anything else; two `Message`
objects of one entry in one worker count as one.

### DelayQueue

`zset` and `payload` are the sorted set and the keys, `now` a clock that all
processes share. `Delay` is SET, `Schedule` ZADD, `Undo` the DELETE after a
failed ZADD. `ScheduleDue` reads the clock and scans, `Claim` is ZREM, `Load`
GET, `Publish` the backend's publish as one step, `DeletePayload` the final
DELETE, `Restore` the ZADD after a failed publish. The `now` argument of
`schedule_due`, which lets a caller release anything, is not modelled.

### Dedup

Each call has a program counter over SET NX (`Reserve`), `Get`, `Publish` and
`Rollback`; `Expire` ends a TTL at any moment. A refused publish is also one
whose payload cannot be encoded, so it needs no failing server.

### DelayedPublish

Extends `DelayQueue` and composes it with `D == INSTANCE Dedup`; a task of the one
is a call of the other, and its own worker while it is inside `delay()`. `Dedup`
takes the publish for one step; here it is the SET (`Store`), the ZADD (`Enqueue`)
and, when that raises, the DELETE (`Withdraw`). A call that is inside `delay()`
has `pc = "publish"`. `faults` counts the faults of the scheduler's commands and
`dedupFaults` those that deduplication sees; a ZADD that raises is both. A SET that raises, executed or not, is
for `Dedup` a refused publish; a ZADD that was executed and raised is one whose
reply was lost. `ImplementsDedup` says that every behaviour of the composition
is one of `Dedup`, so that what is checked there holds for delayed messages.

### ClientLifecycle

A client is made by `from_url` (`FromUrl`: INFO, `Configure`, group creation) or
by its constructor (`Construct`); `origin` says where its Redis object comes
from, whether the client owns it and which version its server has; a server
before 5.0.0 is refused when the backend is created. Every
command is a `Send`, which takes or opens a connection, and a reply or an
exception; a close disconnects the pool at once and sets `_closed` in a later
step (`Closed`), because it is awaited. `CleanUp` is the `except Exception`
around the creation of a client and of a backend on first use; `Cancel` is a
cancelled task, which passes it by. Connections are counted per pool (`idle`)
and per running command (`conn`); that a pool outlives its disconnection, that
closing an object bound to a shared pool leaves the pool alone, and that a
connection is closed when the command that awaits it is cancelled, is how
redis-py 6.4.0 behaves. The model is of the Streams backend: for lists no
command is sent while the backend is created, which is the same model without
the group. `_closed` is never tested by an operation, so neither is `closed`.

### CliConsume

Extends `ListQueue`. `Shells` are the workers that are command line processes,
one after another; `process[s]` is where `handle_consume` is and what it has not
handled yet. Each command it sends is a step of `ListQueue` by that worker; what
the module adds is the loop over the batch, the exceptions that end it
(`AckError`, `RetryExceededError`, `BackendUnavailableError`) and the end of the
process, with which all `Message` objects are gone. The other workers do all
that `ListQueue` lets them do, beside the running command.

## 3. Runs

Bounds: two workers are enough for every race here, because each decision is
made by the reply of one command (LREM, ZREM, XACK, SET NX) and a third worker
can only repeat what the second does; the proofs do not
depend on it. Two messages give order and mixed batches; the third of
`list_liveness` is the unreadable one in front of two readable ones. One fault
is enough to stop a call at each of its commands; two allow a fault during the
handling of another, which matters where there is a handler (`Delay*`, `Dedup*`,
`DelayedPublish`). `client_lifecycle` has three tasks because a creation, a
second one and a close can overlap. Symmetry is used for safety only.

| Run | Bounds | Shows |
|---|---|---|
| `list_safety` | 2 workers, 2 messages, 1 retry, batch 2, 1 fault of any kind | `SingleCopy`, `AckedGone`, `LossPerFault`, `FirstDeliveryInOrder`, `NoOrphan`; every step is one permitted move of at most one message (`ImplementsLifecycle`) |
| `list_liveness` | 3 messages, one unreadable, 1 crash, limit 2, batch 1 | calls with a timeout end; stranded entries are recovered unless an unreadable one is in the way |
| `cli_consume` | 1 command line process after another, 1 other worker, 2 messages, no retries left, 1 fault | only failures strand a message; every command ends |
| `stream_safety` | 2 workers, 2 messages, logs of 3 entries, 2 counted claims, 1 fault | nothing is lost; each further copy has a cause |
| `stream_liveness` | XPENDING/XCLAIM path, logs of 2 entries, consume without and with a timeout of 1 ms, 1 fault of any kind | stranded entries reach a worker again; a consume with a timeout ends |
| `delay_scheduler` | 2 workers, 2 tasks, one unreadable, clock 1..2, 2 faults | at most one loss, copy or leftover per fault; nothing early; every due task is released or hit by a fault |
| `dedup_safety` | 3 calls with one key, 1 with another, 2 expiries, 3 faults | agreement without faults; when a key stays blocked; a call that goes on ends with a published message |
| `delayed_publish` | 2 calls with one key, 2 schedulers, 1 expiry, 2 faults, 1 of them inside `delay` or the scheduler | the calls implement `Dedup`; one release per key; every returned id is released |
| `client_lifecycle` | 2 clients, 3 tasks, 1 fault | failed creation leaves no connection; operations find their group; closed clients hold nothing; only owners cut connections |

Runs that TLC is expected to refute, each a disagreement between code and
documentation (`findings` in `PROJECT.json` has the lines):

| Run | What happens |
|---|---|
| `delay_reuse` | a task rescheduled under its id while it is being released is published early |
| `dedup_twice` | a rollback between SET NX and GET lets two further calls publish |
| `stream_dropped` | `QueueClient.recover_stale` claims stream entries and drops the messages |

The models also contain the following behaviours of the code, which no run
singles out; a property that a run checks is worded so as to allow them.

- List: nack, retry, recover_stale and requeue_dead lose a message when their
  LPUSH is refused after their LREM (one of the losses that `LossPerFault`
  counts); an entry that cannot be decoded ends every `recover_stale` before
  the entries behind it (the exception in `StrandedRecovered`);
  `consume(timeout=None)` waits for ever on an empty list (`BlocksForever`);
  with a limit below the number of entries the oldest may never be recovered.
- Streams: a consume with a timeout below a millisecond waits without limit
  (`WaitingEnds` starts at one millisecond); an entry that cannot be decoded
  takes the readable ones of its reply with it, at every claim; listing dead letters hands them out, so that a
  second listing is empty; nack starts a new attempt counter.
- Delay: a GET that fails after ZREM loses the task (one of the losses that
  `LossPerFault` counts); a task scheduled anew under its id between a
  scheduler's publish and its DELETE loses its payload without any fault.
- Delay with deduplication: the TTL may end while the message still waits, so
  that a second call with the key schedules a second message.
- Clients: when a backend cannot be created on first use, the client is closed
  and stays usable; the next command opens connections again, and since
  `_closed` is set no later `close()` closes them. `ClosedIsReleased` exempts
  clients that were used after or during a close (`fate`).
- Command line: an `AckError` or `RetryExceededError` in the middle of a batch
  leaves the rest in processing, where no command of the command line reaches
  it (`dropped`, which `OnlyFailuresStrand` exempts).
- Deduplication: a duplicate call can return an id whose publish then fails; a
  SET NX whose reply is lost blocks its key; a late rollback deletes another
  call's reservation. `AnswerIsPublished`, `StuckNeedsTwoRefusals` and
  `OnceAndAgreed` say without which faults or expiries these cannot happen.

CHECK_DEADLOCK FALSE appears where the system may come to rest: all calls of a
bounded model made (`Delay*`, `Dedup*`), a log at its bound (`Stream*`), or
every client refused and the manager closed (`ClientLifecycle`).

### Fairness

- Weak fairness of the next command of a call, and of the end of a waiting
  XREADGROUP that has a limit: a running process goes on, and
  redis-py socket timeouts end a command that does not. A call may still fail
  by a fault instead. In `CliConsume` this is the next step of a running process;
  nothing makes anybody start one.
- Strong fairness of "some worker calls `recover_stale`" (or `recover_pending`,
  `schedule_due`): these run only when the application calls them. The
  documentation expects periodic calls; without them nothing is recovered.
- Weak fairness of the clock and of the idle time of pending entries.
- Nothing is assumed of the application: it may hold a message for ever.

## 4. Proofs

`ListQueueProofs` proves, for every number of workers, messages, retries and
faults and from `ConstantsAssumption` alone (for `LossIsBounded` and
`NothingIsLostWithoutFaults` also that `Ids` is finite):

- `TypeCorrect`: `Spec => []TypeOK`, in particular no chain of calls takes an
  attempt counter above `MaxRetries`.
- `MessagesAreUnique`: `Spec => []SingleCopy`.
- `AcknowledgedStaysGone`: `Spec => []AckedGone`.
- `LossIsBounded`: `Spec => []LossPerFault`.
- `NothingIsLostWithoutFaults`: if no fault can happen, `[](Lost = {})`.

`SingleCopy` and `AckedGone` are not inductive. That LREM takes away *the* copy
needs to know that there is one; that the copy which LPUSH puts back is the
only one needs to know that a call about to push holds at most one message
and that no list, nor another call, has it; and that a publish adds a first
copy needs to know that nothing exists that was not published. The inductive
invariant is therefore `TypeOK`, the shape of frames (`FrameOK`) and `Placed`,
the conjunction of `SingleCopy`, `AckedGone` and `Traced` (whatever is listed,
moving or acked was published). Lemmas about the list operators say which ids
LPUSH, LREM and BLMOVE add and remove; each action then preserves `Placed` by
what it does to these sets. The loss bound follows because only the steps that
count a fault can take an id out of "listed, moving or acked".

`ListLifecycleProofs` builds on these, again for every value of the constants:

- `NoEntryIsOrphaned`: `Spec => []NoOrphan`. Every action is classified once
  (`Kinds`) as a publish, or as a step of one worker that *rests*, *delivers*,
  *takes* or *puts* a message, with what it keeps of `held` and `got`. Without a
  fault a worker forgets only what a failing batch drops; that this is the one
  case needs that `got` is empty outside `consume` (`Tidy`).
- `FirstDeliveriesInOrder`: `Spec => []FirstDeliveryInOrder`. The invariant
  `QInv` describes the ready list: undelivered messages stand in it in publish
  order, behind whatever came back on its left, all of which was delivered
  before; and everything outside the ready list was delivered (`Elsewhere`).
  BLMOVE takes the rightmost entry, so the oldest undelivered one.
- `ListsImplementLifecycle`: `Spec => ImplementsLifecycle`. Each kind of step is
  shown to be one step of `MessageLifecycle` or a stutter under the refinement
  mapping, which needs that the places a message can be in exclude one another
  (`Settled`, which follows from `SingleCopy` and `AckedGone`).

`CliConsumeProofs` builds on both, for any number of processes and of workers
beside them:

- `ProcessesFitTheirCalls`: `CliSpec => []CliTypeOK`. The inductive form
  (`Fits`) says, for every phase of a process, where its client call is and that
  the rest of its batch is among the `Message` objects its consume has returned
  or is collecting; while it pushes, that the message in flight is the head of
  its batch and that nothing of an earlier recovery is left to do.
- `OnlyFailuresAbandon`: `CliSpec => []OnlyFailuresStrand`. The invariant is not
  inductive: a process still holds the `Message` objects it has settled, and
  these die with it. What a step keeps (`Attention`) is that an entry of
  processing is known *outside* the shells, or is in what a process has *still*
  to handle, or was given up. An ack takes the head off the batch and its entry
  off the list at once; a nack leaves the head in the batch until its LPUSH, and
  then `SingleCopy` of `ListQueue` says that no entry of processing was meant.

`DelayQueueProofs` proves, for any number of workers, tasks and faults, any
limit and any clock:

- `TypeCorrect`: `Spec => []TypeOK`.
- `NeverEarlyHolds`: `Spec => NeverEarly`.
- `LossPerFaultHolds`, `DuplicatePerFaultHolds`, `DebrisPerFaultHolds`:
  `Spec => []LossPerFault`, `[]DuplicatePerFault` and `[]DebrisPerFault`.

All but the first assume `DistinctIds`, that no two tasks have one id, as
generated ids do not. With a reused id they are false, which is what the run
`delay_reuse` shows. The inductive invariant is `TypeOK`, `Recorded` (what the
keys, the sorted set and the calls know of a task is what `delay()` was called
with, and a scanned entry was due when it was scanned) and `Exclusive` (an id
is in the sorted set or held by the one call whose ZREM removed it, and a task
that waits for its ZADD is known to no scheduler). The three bounds are
not inductive either; each is proved for a larger set, to which a step adds at
most one element and only at a fault (`Paid`): an entry that is scheduled or
claimed counts as a copy to come (`Further`), and a key that is about to be
undone, or one whose entry is scheduled or claimed while the key is gone, counts
as debris already (`Suspects`).

`DedupProofs` proves, for any number of calls and keys, of expiries and of
faults, from `ConstantsAssumption` and `FiniteSetTheorems`:

- `TypeCorrect`: `Spec => []TypeOK`.
- `AnswersAreOfMessages`: `Spec => []AnswerIsPublished`. While nothing fails,
  what a key stores is on its way too (`AllComing`), which is what makes the GET
  of a duplicate return something that is.
- `OneMessagePerKey`: `Spec => []OnceAndAgreed`. While nothing fails and no TTL
  ends, the key of every call that publishes or has published holds its id
  (`OneOwner`), so two of them cannot have one key.
- `StuckKeysArePaidFor`: `Spec => []StuckNeedsTwoRefusals`. The bound on stuck
  keys is not inductive, because the second refusal, that of the rollback,
  pays only half of a stuck key. `Accounted` counts the keys whose publish was
  refused and whose rollback is still to come (`Half`) once and the stuck ones
  twice; each fault adds at most what it pays for. It also needs that a call
  which waits for SET NX or GET holds no key (`HoldersPublish`).

`ClientLifecycleProofs` proves, for any number of clients, tasks and faults:

- `OperationsAreReady`: `Spec => []OperationsFindGroup`. The invariant is not
  inductive, because a call on a client with a stored backend starts its
  operation at once: a stored backend must mean that the group exists
  (`StoredFindsGroup`), which holds because only the reply that confirms the
  group stores one. All actions but `Call` and `Receive` either leave the calls
  alone or send one of them to a place where no operation is.

- `FailedMakingIsReleased` and `ClosedClientIsReleased`:
  `Spec => []FailedMakingReleases` and `[]ClosedIsReleased`. Both follow from
  `RInv`. Until a client is made, only its maker uses it (`MakerAlone`), so
  before the close in `CleanUp` its pool has one connection at most, and none
  that is not idle (`MakerTidy`); a disconnection then leaves none, and only a
  use of the client that the model marks as a revival opens another
  (`Released`).
- `OnlyOwnersCut`: `Spec => CutByOwner`, by the kinds of steps.
- `TypeCorrect`: `Spec => []TypeOK`. Its bound on the connections of a pool is
  not inductive: a command that ends gives its connection back, so idle and
  used ones count together (`Counted`).

The assumptions are `ConstantsAssumption` alone, which says that `Tasks` is
finite (there are finitely many calls at any time) and that no client is named
"shared", the name of the shared pool.

`StreamQueueProofs` proves, for any number of workers and messages, any batch
size and limit, logs of any length and any faults, from `ConstantsAssumption`
and `FiniteSetTheorems`:

- `TypeCorrect`: `Spec => []TypeOK`.
- `NothingIsEverLost`: `Spec => []NeverLost`.
- `EveryCopyHasACause`: `Spec => []CopiesHaveCauses`.

`NeverLost` says that a message which nobody acknowledged has a live entry, and
is not inductive: the entry may be one that a call has copied and acknowledges
next. The copy is then live too, but it in turn may have been claimed and
copied. What every step keeps is that the message has a *standing* entry, a live
one that no call is about to acknowledge after copying it (`HasStanding`): the
XADD of a copy takes the standing of the original away only after the new entry,
which no group has handed out and so no call can hold, stands for the same
message. An XACK by `ack` records the message as acknowledged; any other XACK is
of an entry that stood no longer. That new entries are held by nobody needs
`Shape`: the cursor never passes the end of the log, and pending entries and
`Message` objects are of entries before it.

`CopiesHaveCauses` bounds the standing copies, and is not inductive: when a claim
has given one entry to two workers, each may copy it. `Tally` therefore counts
*shares*: a worker's `Message` that it may still act on, or a standing copy that
no worker may act on. A publish, a fault or a claim adds one share; handing out
an entry, copying it and acknowledging the original turn one share into
another, and an ack ends one. Every standing copy has a share of its own, so
there are never more copies than shares. `Tally`, like the property, says nothing
once the claim counter has reached its bound.

`DelayedPublishProofs` proves, for any number of calls, schedulers and keys, of
expiries and of faults of either part, any limit and any clock, from
`ConstantsAssumption` of `DelayQueue` and `CompositionAssumption` (every call has
an id of its own, and a worker either calls `publish` or `schedule_due`):

- `PublishTypes`: `PubSpec => []PubTypeOK`.
- `DelayedPublishImplementsDedup`: `PubSpec => ImplementsDedup`. The refinement
  mapping shows a call that is about to undo its SET as one that is about to roll
  back (`pcSeen`). Each action is a step of `Dedup` or changes nothing that it
  sees; that the SET, the DELETE and every step of a scheduler are of the second
  kind needs that a call is inside `delay()` only where `Dedup` publishes, which
  is the last part of `PubTypeOK`. Types of what deduplication sees are proved on
  its side of the mapping and carried back.
- `OneReleasePerKey`: `PubSpec => []ReleasedOnce`. While no command has failed,
  each step is one of `DelayQueue` (`CalmSteps`), so its inductive invariant and
  its account of copies (`Further`, then empty) hold here too. What joins the
  parts is `EnqueuedFirst`: a message that was released, is scheduled or is
  claimed was enqueued in the eyes of `Dedup`, by its own call (`OwnDelay`). With
  `OneCaller`, the view that `Dedup` has of the key, two released messages of one
  key would both be the id it stores.

Only model-checked: liveness (outside the prover's reach), that is the properties
with `~>` of every component.

## 5. Not modelled

Which configuration values are rejected and how version texts are parsed
(pure functions of their arguments; the models keep accepted or rejected),
serialization (a call into a library), monitoring (hooks are isolated and
change no state), and the commands of the command line that make a single call
or only read: see `components` in `PROJECT.json`. Redis itself (persistence, failover,
eviction) is assumed not to lose what it acknowledged. `message_id` given twice
is modelled for delayed tasks (`delay_reuse`) and not for the List backend,
where entries with equal bytes would be interchangeable.

## 6. Plan

1. `ListQueue` with lifecycle, runs and safety proofs; `DelayQueue`, `Dedup`,
   `StreamQueue` with their runs. *(done)*
2. `DelayedPublish`, which composes `Dedup` and `DelayQueue`; `ClientLifecycle`
   with its proof; `CliConsume`; blocking reads and two-command recovery of
   `StreamQueue`, with the proofs of its `TypeOK` and `NeverLost`; the proofs
   about `Dedup`. *(done)*
3. Proofs: `CopiesHaveCauses` of `StreamQueue`; the type, loss, duplicate and
   debris bounds and `NeverEarly` of `DelayQueue`; the connections of
   `ClientLifecycle`; order, orphans and the refinement of `ListQueue`;
   `CliConsume`; `DelayedPublish` with its refinement of `Dedup`. *(done)*
4. Pure functions against reference definitions: `RetryConfig.next_delay`, the
   timeout conversion of the List backend, TTL arguments.
