--------------------------- MODULE ClientLifecycle ---------------------------
(***************************************************************************)
(* Clients, the connections they open and who closes them                  *)
(* (src/redqueue/client.py, async_client.py, connection.py), for the       *)
(* Streams backend, whose creation runs a command of its own.              *)
(*                                                                         *)
(* A client's Redis object comes from a URL, from the application or from  *)
(* a connection manager.  The first two have a pool of their own, which    *)
(* redis-py disconnects when the object is closed; the objects of a        *)
(* manager share its pool, and closing them leaves it alone.  A pool that  *)
(* was disconnected stays usable: the next command opens a connection.     *)
(*                                                                         *)
(* Tasks are the tasks or threads that share clients.  A command takes two *)
(* steps, Send and its reply, and a close two more, because others run     *)
(* while one awaits them.                                                  *)
(***************************************************************************)
EXTENDS Integers, FiniteSets

CONSTANTS
  Clients,
  Tasks,
  Sources,     \* where Redis objects come from
  Versions,    \* versions of their servers: major, minor, patch
  FaultKinds,  \* which faults may happen
  MaxFaults    \* bound on their number

(***************************************************************************)
(* "error": Redis answers a command with an error.  "timeout": a command   *)
(* fails and its connection is closed.  "cancel": the awaiting task is     *)
(* cancelled; redis-py closes the connection it awaits and no "except      *)
(* Exception" runs.  "close": disconnecting raises, after all was closed.  *)
(***************************************************************************)
ASSUME ConstantsAssumption ==
  /\ "shared" \notin Clients
  /\ IsFiniteSet(Tasks)
  /\ Sources \subseteq {"url", "direct", "manager"}
  /\ Versions \subseteq [1..3 -> Nat]
  /\ FaultKinds \subseteq {"error", "timeout", "cancel", "close"}
  /\ MaxFaults \in Nat

VARIABLES
  origin,   \* per client: where its Redis object comes from, and its server
  made,     \* per client: whether a call makes it, has made it or has raised
  stored,   \* per client: self.backend is not None
  closed,   \* per client: self._closed
  task,     \* per task: the call it is inside
  conn,     \* per task: the connection of the command it awaits
  idle,     \* per pool: open connections that no command uses
  groups,   \* clients whose queue is known to have its consumer group
  managerClosed,
  fate,     \* history: whether a client was closed and used again
  faults    \* number of faults so far

clients == <<origin, made, stored, closed>>
others == <<groups, managerClosed, fate>>
vars == <<clients, task, conn, idle, others, faults>>

Pools == Clients \cup {"shared"}

Origin == [source : {"url", "direct", "manager"}, owns : BOOLEAN, version : Versions]

Pool(c) ==
  IF c = "shared" \/ origin[c].source = "manager" THEN "shared" ELSE c

Places == {"idle", "info", "configure", "create", "operate", "failed",
           "closing", "closing_pool"}

\* at names the command or close of the call, on its client (or the
\* manager's pool).
Calling(at, on) == [at |-> at, on |-> on]

Idle == Calling("idle", "shared")

Init ==
  /\ origin \in [Clients -> Origin]
  /\ \A c \in Clients : origin[c].source \in Sources
  /\ made = [c \in Clients |-> "no"]
  /\ stored = [c \in Clients |-> FALSE]
  /\ closed = [c \in Clients |-> FALSE]
  /\ task = [t \in Tasks |-> Idle]
  /\ conn = [t \in Tasks |-> "none"]
  /\ idle = [p \in Pools |-> 0]
  /\ groups = {}
  /\ managerClosed = FALSE
  /\ fate = [c \in Clients |-> "open"]
  /\ faults = 0

Fault(kind) ==
  /\ kind \in FaultKinds
  /\ faults < MaxFaults
  /\ faults' = faults + 1

-----------------------------------------------------------------------------
(* Connections. *)

UsedBy(t, p) == conn[t] # "none" /\ Pool(task[t].on) = p

OpenIn(p) ==
  idle[p] + Cardinality({t \in Tasks : UsedBy(t, p) /\ conn[t] = "live"})

\* The pool is disconnected, the connections in use included.
Disconnect(p) ==
  /\ idle' = [idle EXCEPT ![p] = 0]
  /\ conn' = [t \in Tasks |-> IF UsedBy(t, p) THEN "cut" ELSE conn[t]]

\* Mutant: the object made from the manager's pool owns it.
OwnsEveryPool(c) == TRUE

\* Redis.close disconnects the pool: not of an object bound to a shared one.
OwnsPool(c) == origin[c].source # "manager"

\* The call of t goes on at another place.
Goto(t, at) ==
  task' = [task EXCEPT ![t] = IF at = "idle" THEN Idle ELSE Calling(at, task[t].on)]

\* The call of t begins to close c's Redis object.
CloseRedis(t, c) ==
  /\ task' = [task EXCEPT ![t] = Calling("closing", c)]
  /\ IF OwnsPool(c) THEN Disconnect(Pool(c)) ELSE UNCHANGED <<idle, conn>>

\* A call that makes a client raises: nobody ever gets the client.
NeverMade(c) ==
  made' = IF c \in Clients /\ made[c] = "making"
          THEN [made EXCEPT ![c] = "raised"] ELSE made

-----------------------------------------------------------------------------
(* Making a client. *)

FromUrl(t, c) ==
  /\ task[t] = Idle
  /\ made[c] = "no"
  /\ origin[c].source # "direct"
  /\ IF origin[c].source = "manager" /\ managerClosed
     THEN made' = [made EXCEPT ![c] = "raised"] /\ UNCHANGED task
     ELSE /\ made' = [made EXCEPT ![c] = "making"]
          /\ task' = [task EXCEPT ![t] = Calling("info", c)]
  /\ UNCHANGED <<origin, stored, closed, conn, idle, others, faults>>

\* The constructor of QueueClient creates its backend at once, that of
\* AsyncQueueClient leaves it to the first call.
Construct(t, c) ==
  /\ task[t] = Idle
  /\ made[c] = "no"
  /\ origin[c].source = "direct"
  /\ \/ /\ made' = [made EXCEPT ![c] = "making"]
        /\ task' = [task EXCEPT ![t] = Calling("create", c)]
     \/ /\ made' = [made EXCEPT ![c] = "ready"]
        /\ UNCHANGED task
  /\ UNCHANGED <<origin, stored, closed, conn, idle, others, faults>>

\* Mutant: a rejected configuration is raised at once.
ConfigureRaises(t) ==
  /\ task[t].at = "configure"
  /\ \/ Goto(t, "create") /\ UNCHANGED made
     \/ Goto(t, "idle") /\ NeverMade(task[t].on)
  /\ UNCHANGED <<origin, stored, closed, conn, idle, others, faults>>

\* QueueConfig accepts the options or rejects them.
Configure(t) ==
  /\ task[t].at = "configure"
  /\ Goto(t, "create") \/ Goto(t, "failed")
  /\ UNCHANGED <<clients, conn, idle, others, faults>>

\* The order of versions: the first part that differs decides.
AtLeast(v, w) ==
  v = w \/ \E i \in 1..3 : v[i] > w[i] /\ \A j \in 1..i-1 : v[j] = w[j]

SupportsStreams(c) == AtLeast(origin[c].version, <<5, 0, 0>>)

\* The constructor of the backend refuses a server that is too old.
Incompatible(t) ==
  /\ task[t].at = "create"
  /\ ~SupportsStreams(task[t].on)
  /\ Goto(t, "failed")
  /\ UNCHANGED <<clients, conn, idle, others, faults>>

\* What making a client has opened is closed when making it fails, and so is
\* a client whose backend cannot be created on first use.
CleanUp(t) ==
  LET c == task[t].on
  IN /\ task[t].at = "failed"
     /\ IF origin[c].owns /\ ~closed[c]
        THEN CloseRedis(t, c) /\ UNCHANGED made
        ELSE Goto(t, "idle") /\ NeverMade(c) /\ UNCHANGED <<idle, conn>>
     /\ UNCHANGED <<origin, stored, closed, others, faults>>

-----------------------------------------------------------------------------
(* Commands. *)

\* Mutant: the backend is stored before its group was created.
CallStoresFirst(t, c) ==
  /\ task[t] = Idle
  /\ made[c] = "ready"
  /\ task' = [task EXCEPT ![t] =
                Calling(IF stored[c] THEN "operate" ELSE "create", c)]
  /\ stored' = [stored EXCEPT ![c] = TRUE]
  /\ UNCHANGED <<origin, made, closed, conn, idle, others, faults>>

\* An operation of the client, which first needs the backend.
Call(t, c) ==
  /\ task[t] = Idle
  /\ made[c] = "ready"
  /\ task' = [task EXCEPT ![t] =
                Calling(IF stored[c] THEN "operate" ELSE "create", c)]
  /\ UNCHANGED <<clients, conn, idle, others, faults>>

\* A call that is about to send a command; only a server that has streams
\* gets XGROUP.
Ready(t) ==
  \/ task[t].at \in {"info", "operate"}
  \/ task[t].at = "create" /\ SupportsStreams(task[t].on)

\* The command gets an idle connection, or opens one.
Send(t) ==
  LET c == task[t].on
  IN /\ Ready(t)
     /\ conn[t] = "none"
     /\ conn' = [conn EXCEPT ![t] = "live"]
     /\ idle' = [idle EXCEPT ![Pool(c)] = IF @ = 0 THEN 0 ELSE @ - 1]
     /\ fate' = [fate EXCEPT ![c] =
                   IF @ = "over" \/ (\E u \in Tasks : task[u] = Calling("closing", c))
                   THEN "revived" ELSE @]
     /\ UNCHANGED <<clients, task, groups, managerClosed, faults>>

GiveBack(t) == idle' = [idle EXCEPT ![Pool(task[t].on)] = @ + 1]

Done(t) == conn' = [conn EXCEPT ![t] = "none"]

\* Mutant: the connection is given back and kept.
ReceiveKeeps(t) ==
  /\ conn[t] = "live"
  /\ GiveBack(t)
  /\ UNCHANGED <<clients, task, conn, others, faults>>

\* The reply of INFO, which may have no version that can be parsed.
InfoReply(t) ==
  /\ task[t].at = "info"
  /\ Goto(t, "configure") \/ Goto(t, "failed")
  /\ UNCHANGED <<made, stored, groups>>

\* The reply that confirms the group: only now the call stores the backend.
GroupReply(t) ==
  LET c == task[t].on
  IN /\ task[t].at = "create"
     /\ groups' = groups \cup {c}
     /\ stored' = [stored EXCEPT ![c] = TRUE]
     /\ made' = [made EXCEPT ![c] = "ready"]
     /\ Goto(t, IF made[c] = "making" THEN "idle" ELSE "operate")

\* An operation may send more commands or return.
OperationReply(t) ==
  /\ task[t].at = "operate"
  /\ UNCHANGED task \/ Goto(t, "idle")
  /\ UNCHANGED <<made, stored, groups>>

Receive(t) ==
  /\ conn[t] = "live"
  /\ GiveBack(t)
  /\ Done(t)
  /\ InfoReply(t) \/ GroupReply(t) \/ OperationReply(t)
  /\ UNCHANGED <<origin, closed, managerClosed, fate, faults>>

\* The command raises: its connection was cut, Redis answered with an error,
\* or the connection failed.
CommandRaises(t) ==
  /\ \/ conn[t] = "cut" /\ UNCHANGED <<idle, faults>>
     \/ conn[t] = "live" /\ Fault("error") /\ GiveBack(t)
     \/ conn[t] = "live" /\ Fault("timeout") /\ UNCHANGED idle
  /\ Done(t)
  /\ Goto(t, IF task[t].at = "operate" THEN "idle" ELSE "failed")
  /\ UNCHANGED <<clients, others>>

Cancel(t) ==
  /\ Fault("cancel")
  /\ conn[t] # "none" \/ task[t].at \in {"closing", "closing_pool"}
  /\ Done(t)
  /\ Goto(t, "idle")
  /\ NeverMade(task[t].on)
  /\ UNCHANGED <<origin, stored, closed, idle, others>>

-----------------------------------------------------------------------------
(* Closing. *)

\* Without the guards close returns at once.
Close(t, c) ==
  /\ task[t] = Idle
  /\ made[c] = "ready"
  /\ ~closed[c]
  /\ origin[c].owns
  /\ CloseRedis(t, c)
  /\ UNCHANGED <<clients, others, faults>>

Closed(t) ==
  LET c == task[t].on
  IN /\ task[t].at = "closing"
     /\ Goto(t, "idle")
     /\ NeverMade(c)
     /\ closed' = [closed EXCEPT ![c] = TRUE]
     /\ fate' = [fate EXCEPT ![c] = IF @ = "open" THEN "over" ELSE @]
     /\ UNCHANGED <<origin, stored, conn, idle, groups, managerClosed, faults>>

\* Mutant: a close that raises is not repeated.
CloseRaisesForGood(t) ==
  /\ task[t].at = "closing"
  /\ Fault("close")
  /\ Goto(t, "idle")
  /\ NeverMade(task[t].on)
  /\ closed' = [closed EXCEPT ![task[t].on] = TRUE]
  /\ UNCHANGED <<origin, stored, conn, idle, others>>

CloseRaises(t) ==
  /\ task[t].at \in {"closing", "closing_pool"}
  /\ Fault("close")
  /\ Goto(t, "idle")
  /\ NeverMade(task[t].on)
  /\ UNCHANGED <<origin, stored, closed, conn, idle, others>>

\* The manager closes its pool.
CloseManager(t) ==
  /\ task[t] = Idle
  /\ ~managerClosed
  /\ task' = [task EXCEPT ![t] = Calling("closing_pool", "shared")]
  /\ Disconnect("shared")
  /\ UNCHANGED <<clients, others, faults>>

ManagerClosed(t) ==
  /\ task[t].at = "closing_pool"
  /\ managerClosed' = TRUE
  /\ Goto(t, "idle")
  /\ UNCHANGED <<clients, conn, idle, groups, fate, faults>>

-----------------------------------------------------------------------------
Next ==
  \E t \in Tasks :
    \/ \E c \in Clients : FromUrl(t, c) \/ Construct(t, c) \/ Call(t, c) \/ Close(t, c)
    \/ Configure(t)
    \/ Incompatible(t)
    \/ CleanUp(t)
    \/ Send(t)
    \/ Receive(t)
    \/ CommandRaises(t)
    \/ Cancel(t)
    \/ Closed(t)
    \/ CloseRaises(t)
    \/ CloseManager(t)
    \/ ManagerClosed(t)

Spec == Init /\ [][Next]_vars
-----------------------------------------------------------------------------
(* Properties. *)

\* Every variable has its type; no connection is given back twice, and a
\* client is closed only when it owns its Redis object.
TypeOK ==
  /\ origin \in [Clients -> Origin]
  /\ made \in [Clients -> {"no", "making", "ready", "raised"}]
  /\ stored \in [Clients -> BOOLEAN]
  /\ closed \in [Clients -> BOOLEAN]
  /\ \A c \in Clients : closed[c] => origin[c].owns
  /\ task \in [Tasks -> [at : Places, on : Pools]]
  /\ conn \in [Tasks -> {"none", "live", "cut"}]
  /\ \A p \in Pools : idle[p] \in Nat /\ OpenIn(p) <= Cardinality(Tasks)
  /\ groups \subseteq Clients
  /\ managerClosed \in BOOLEAN
  /\ fate \in [Clients -> {"open", "over", "revived"}]
  /\ faults \in 0..MaxFaults

\* Making a client that owns its connections and raises, whether detection,
\* configuration or the first command failed, the close after it failed or
\* the task was cancelled, leaves no connection open: nobody else could close
\* it.
FailedMakingReleases ==
  \A c \in Clients :
    made[c] = "raised" /\ origin[c].owns /\ OwnsPool(c) => OpenIn(c) = 0

\* However many tasks use a new client at once, and whichever of them fails
\* to create the backend, no operation runs on it before its group exists.
OperationsFindGroup ==
  \A t \in Tasks : task[t].at = "operate" => task[t].on \in groups

\* Once close() has nothing to do any more and no call is running, no
\* connection of the client is open, unless a command was sent after or while
\* it was closed.  (A failed creation on first use closes it, too.)
ClosedIsReleased ==
  \A c \in Clients :
    (/\ closed[c] /\ OwnsPool(c)
     /\ \A t \in Tasks : task[t].on # c)
      => OpenIn(c) = 0 \/ fate[c] = "revived"

\* A running command loses its connection only to the close of its own client
\* or, when its pool is shared, of the manager: never to another client.
CutByOwner ==
  [][\A t \in Tasks :
       (conn[t] = "live" /\ conn'[t] = "cut") =>
         \E u \in Tasks :
           /\ task[u] # task'[u]
           /\ IF origin[task[t].on].source = "manager"
              THEN task'[u].at = "closing_pool"
              ELSE task'[u] = Calling("closing", task[t].on)]_vars
=============================================================================
