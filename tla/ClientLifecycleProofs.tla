------------------------ MODULE ClientLifecycleProofs ------------------------
(***************************************************************************)
(* Proofs about ClientLifecycle, for any number of clients, tasks and      *)
(* faults.                                                                 *)
(*                                                                         *)
(* OperationsFindGroup is not inductive: a task begins an operation at     *)
(* once when its client has a backend, so a stored backend must mean that  *)
(* the group is there.  That in turn holds because only the reply that     *)
(* confirms the group stores one.                                          *)
(*                                                                         *)
(* About connections, RInv says what the maker of a client, and then its   *)
(* close, leave in the pool; CutByOwner needs only which step cuts.        *)
(***************************************************************************)
EXTENDS ClientLifecycle, FiniteSetTheorems, TLAPS

\* The types the argument needs.
Typed ==
  /\ stored \in [Clients -> BOOLEAN]
  /\ task \in [Tasks -> [at : Places, on : Pools]]

\* A backend is stored only for a client whose group exists.
StoredFindsGroup == \A c \in Clients : stored[c] => c \in groups

IInv == Typed /\ StoredFindsGroup /\ OperationsFindGroup

-----------------------------------------------------------------------------
(* What the parts of an action do to the calls. *)

\* Going on elsewhere keeps the client of the call.
LEMMA GotoMoves ==
  ASSUME Typed, NEW t \in Tasks, NEW at \in Places, Goto(t, at)
  PROVE  /\ task' \in [Tasks -> [at : Places, on : Pools]]
         /\ \A u \in Tasks : u # t => task'[u] = task[u]
         /\ task'[t].at = at
         /\ at # "idle" => task'[t].on = task[t].on
BY DEF Typed, Goto, Calling, Idle, Pools, Places

\* A new call begins where it says, on its client.
LEMMA CallBegins ==
  ASSUME Typed, NEW t \in Tasks, NEW at \in Places, NEW on \in Pools,
         task' = [task EXCEPT ![t] = Calling(at, on)]
  PROVE  /\ task' \in [Tasks -> [at : Places, on : Pools]]
         /\ \A u \in Tasks : u # t => task'[u] = task[u]
         /\ task'[t].at = at
         /\ task'[t].on = on
BY DEF Typed, Calling

\* What the invariant needs of a step of t after which t is in no operation
\* that it was not in before.
LEMMA NoOperationBegins ==
  ASSUME IInv, NEW t \in Tasks,
         task' \in [Tasks -> [at : Places, on : Pools]],
         \A u \in Tasks : u # t => task'[u] = task[u],
         task'[t].at # "operate",
         UNCHANGED <<stored, groups>>
  PROVE  IInv'
BY DEF IInv, Typed, StoredFindsGroup, OperationsFindGroup

\* A step that moves no call and stores no backend.
LEMMA NoCallMoves ==
  ASSUME IInv, UNCHANGED <<task, stored, groups>>
  PROVE  IInv'
BY DEF IInv, Typed, StoredFindsGroup, OperationsFindGroup

LEMMA GotoElsewhere ==
  ASSUME IInv, NEW t \in Tasks, NEW at \in Places \ {"operate"}, Goto(t, at),
         UNCHANGED <<stored, groups>>
  PROVE  IInv'
<1>1. Typed
  BY DEF IInv
<1>2. at \in Places /\ at # "operate"
  OBVIOUS
<1> QED BY <1>1, <1>2, GotoMoves, NoOperationBegins

LEMMA BeginElsewhere ==
  ASSUME IInv, NEW t \in Tasks, NEW at \in Places \ {"operate"}, NEW on \in Pools,
         task' = [task EXCEPT ![t] = Calling(at, on)],
         UNCHANGED <<stored, groups>>
  PROVE  IInv'
<1>1. Typed
  BY DEF IInv
<1>2. at \in Places /\ at # "operate"
  OBVIOUS
<1>3. /\ task' \in [Tasks -> [at : Places, on : Pools]]
      /\ \A u \in Tasks : u # t => task'[u] = task[u]
      /\ task'[t].at = at
  BY <1>1, <1>2, CallBegins
<1> QED BY <1>2, <1>3, NoOperationBegins

-----------------------------------------------------------------------------
(* Each action preserves the invariant. *)

LEMMA MakingKeeps ==
  ASSUME IInv, NEW t \in Tasks, NEW c \in Clients, FromUrl(t, c) \/ Construct(t, c)
  PROVE  IInv'
<1>1. UNCHANGED <<stored, groups>>
  BY DEF FromUrl, Construct, others
<1>2. c \in Pools /\ {"info", "create"} \subseteq Places \ {"operate"}
  BY DEF Pools, Places
<1>3. \/ UNCHANGED task
      \/ task' = [task EXCEPT ![t] = Calling("info", c)]
      \/ task' = [task EXCEPT ![t] = Calling("create", c)]
  BY DEF FromUrl, Construct
<1> QED BY <1>1, <1>2, <1>3, NoCallMoves, BeginElsewhere

\* A call begins an operation only on a client whose backend is stored.
LEMMA CallKeeps ==
  ASSUME IInv, NEW t \in Tasks, NEW c \in Clients, Call(t, c)
  PROVE  IInv'
<1>1. UNCHANGED <<stored, groups>>
  BY DEF Call, clients, others
<1>2. c \in Pools /\ {"create", "operate"} \subseteq Places
  BY DEF Pools, Places
<1>3. CASE stored[c]
  <2>1. task' = [task EXCEPT ![t] = Calling("operate", c)]
    BY <1>3 DEF Call
  <2>2. /\ task' \in [Tasks -> [at : Places, on : Pools]]
        /\ \A u \in Tasks : u # t => task'[u] = task[u]
        /\ task'[t].on = c
    BY <1>2, <2>1, CallBegins DEF IInv
  <2>3. c \in groups
    BY <1>3 DEF IInv, StoredFindsGroup
  <2> QED BY <1>1, <2>2, <2>3 DEF IInv, Typed, StoredFindsGroup, OperationsFindGroup
<1>4. CASE ~stored[c]
  <2>1. task' = [task EXCEPT ![t] = Calling("create", c)]
    BY <1>4 DEF Call
  <2> QED BY <1>1, <1>2, <2>1, BeginElsewhere
<1> QED BY <1>3, <1>4

\* A reply that stores the backend confirms the group.
LEMMA ReplyKeeps ==
  ASSUME IInv, NEW t \in Tasks, Receive(t)
  PROVE  IInv'
<1> DEFINE c == task[t].on
<1>1. CASE task[t].at = "info"
  <2>1. UNCHANGED <<stored, groups>> /\ (Goto(t, "configure") \/ Goto(t, "failed"))
    BY <1>1 DEF Receive, InfoReply, GroupReply, OperationReply
  <2>2. {"configure", "failed"} \subseteq Places \ {"operate"}
    BY DEF Places
  <2> QED BY <2>1, <2>2, GotoElsewhere
<1>2. CASE task[t].at = "create"
  <2>1. /\ groups' = groups \cup {c}
        /\ stored' = [stored EXCEPT ![c] = TRUE]
        /\ Goto(t, "idle") \/ Goto(t, "operate")
    BY <1>2 DEF Receive, InfoReply, GroupReply, OperationReply
  <2>2. {"idle", "operate"} \subseteq Places
    BY DEF Places
  <2>3. /\ task' \in [Tasks -> [at : Places, on : Pools]]
        /\ \A u \in Tasks : u # t => task'[u] = task[u]
        /\ task'[t].at = "operate" => task'[t].on = c
    BY <2>1, <2>2, GotoMoves DEF IInv
  <2>4. stored' \in [Clients -> BOOLEAN]
    BY <2>1 DEF IInv, Typed
  <2>5. StoredFindsGroup'
    BY <2>1 DEF IInv, Typed, StoredFindsGroup
  <2>6. OperationsFindGroup'
    BY <2>1, <2>3 DEF IInv, OperationsFindGroup
  <2> QED BY <2>3, <2>4, <2>5, <2>6 DEF IInv, Typed
<1>3. CASE task[t].at = "operate"
  <2>1. UNCHANGED <<stored, groups>> /\ (UNCHANGED task \/ Goto(t, "idle"))
    BY <1>3 DEF Receive, InfoReply, GroupReply, OperationReply
  <2>2. "idle" \in Places \ {"operate"}
    BY DEF Places
  <2> QED BY <2>1, <2>2, NoCallMoves, GotoElsewhere
<1> QED BY <1>1, <1>2, <1>3 DEF Receive, InfoReply, GroupReply, OperationReply

LEMMA CloseKeeps ==
  ASSUME IInv, NEW t \in Tasks, NEW c \in Pools, CloseRedis(t, c),
         UNCHANGED <<stored, groups>>
  PROVE  IInv'
<1>1. "closing" \in Places \ {"operate"}
  BY DEF Places
<1>2. task' = [task EXCEPT ![t] = Calling("closing", c)]
  BY DEF CloseRedis
<1> QED BY <1>1, <1>2, BeginElsewhere

LEMMA CleanUpKeeps ==
  ASSUME IInv, NEW t \in Tasks, CleanUp(t)
  PROVE  IInv'
<1>1. UNCHANGED <<stored, groups>> /\ (CloseRedis(t, task[t].on) \/ Goto(t, "idle"))
  BY DEF CleanUp, others
<1>2. task[t].on \in Pools /\ "idle" \in Places \ {"operate"}
  BY DEF IInv, Typed, Places
<1> QED BY <1>1, <1>2, CloseKeeps, GotoElsewhere

\* The invariant is inductive.
LEMMA StepKeeps ==
  ASSUME IInv, [Next]_vars
  PROVE  IInv'
<1>1. {"idle", "create", "failed", "closing_pool"} \subseteq Places \ {"operate"}
  BY DEF Places
<1>2. "shared" \in Pools /\ Clients \subseteq Pools
  BY DEF Pools
<1>3. CASE UNCHANGED vars
  BY <1>3, NoCallMoves DEF vars, clients, others
<1>4. ASSUME NEW t \in Tasks, NEW c \in Clients,
             FromUrl(t, c) \/ Construct(t, c) \/ Call(t, c) \/ Close(t, c)
      PROVE  IInv'
  <2>1. CASE Close(t, c)
    <3>1. CloseRedis(t, c) /\ UNCHANGED <<stored, groups>>
      BY <2>1 DEF Close, clients, others
    <3> QED BY <1>2, <3>1, CloseKeeps
  <2> QED BY <1>4, <2>1, MakingKeeps, CallKeeps
<1>5. ASSUME NEW t \in Tasks, Configure(t) \/ Incompatible(t) \/ CommandRaises(t)
      PROVE  IInv'
  <2>1. /\ UNCHANGED <<stored, groups>>
        /\ \E at \in {"create", "failed", "idle"} : Goto(t, at)
    BY <1>5 DEF Configure, Incompatible, CommandRaises, clients, others
  <2> QED BY <1>1, <2>1, GotoElsewhere
<1>6. ASSUME NEW t \in Tasks,
             Cancel(t) \/ Closed(t) \/ CloseRaises(t) \/ ManagerClosed(t)
      PROVE  IInv'
  <2>1. UNCHANGED <<stored, groups>> /\ Goto(t, "idle")
    BY <1>6 DEF Cancel, Closed, CloseRaises, ManagerClosed, clients, others
  <2> QED BY <1>1, <2>1, GotoElsewhere
<1>7. ASSUME NEW t \in Tasks, Send(t)
      PROVE  IInv'
  BY <1>7, NoCallMoves DEF Send, clients
<1>8. ASSUME NEW t \in Tasks, CloseManager(t)
      PROVE  IInv'
  <2>1. /\ UNCHANGED <<stored, groups>>
        /\ task' = [task EXCEPT ![t] = Calling("closing_pool", "shared")]
    BY <1>8 DEF CloseManager, clients, others
  <2> QED BY <1>1, <1>2, <2>1, BeginElsewhere
<1> QED BY <1>3, <1>4, <1>5, <1>6, <1>7, <1>8, CleanUpKeeps, ReplyKeeps DEF Next

\* However many tasks use a new client at once and whichever of them fails to
\* create its backend (AsyncQueueClient._ensure_backend), no operation runs
\* before the consumer group exists.
THEOREM OperationsAreReady == Spec => []OperationsFindGroup
<1>1. Init => IInv
  BY DEF Init, IInv, Typed, StoredFindsGroup, OperationsFindGroup, Idle, Calling,
         Pools, Places
<1>2. IInv /\ [Next]_vars => IInv'
  BY StepKeeps
<1>3. IInv => OperationsFindGroup
  BY DEF IInv
<1> QED BY <1>1, <1>2, <1>3, PTL DEF Spec

-----------------------------------------------------------------------------
(* Connections.  Who may have one, and how many there are.                 *)

Types ==
  /\ origin \in [Clients -> Origin]
  /\ made \in [Clients -> {"no", "making", "ready", "raised"}]
  /\ stored \in [Clients -> BOOLEAN]
  /\ closed \in [Clients -> BOOLEAN]
  /\ task \in [Tasks -> [at : Places, on : Pools]]
  /\ conn \in [Tasks -> {"none", "live", "cut"}]
  /\ idle \in [Pools -> Nat]
  /\ groups \subseteq Clients
  /\ managerClosed \in BOOLEAN
  /\ fate \in [Clients -> {"open", "over", "revived"}]
  /\ faults \in 0..MaxFaults

\* A call has a client unless it is the manager's close, only a call that
\* sends a command has a connection, and only owners are closed.
Framed ==
  /\ \A t \in Tasks :
       /\ task[t].on = "shared" <=> task[t].at \in {"idle", "closing_pool"}
       /\ conn[t] # "none" => Ready(t)
       /\ task[t].at = "closing" => origin[task[t].on].owns
  /\ \A c \in Clients : closed[c] => origin[c].owns

\* No more connections in a pool than tasks.
Live(p) == {t \in Tasks : UsedBy(t, p) /\ conn[t] = "live"}

Counted == \A p \in Pools : idle[p] + Cardinality(Live(p)) <= Cardinality(Tasks)

\* Nobody but its maker uses a client that is being made.
MakerAlone ==
  \A c \in Clients :
    /\ made[c] \in {"no", "raised"} => \A t \in Tasks : task[t].on # c
    /\ made[c] = "making" => \A t, u \in Tasks : task[t].on = c /\ task[u].on = c => t = u
    /\ made[c] \in {"no", "making"} => ~closed[c]

\* The maker leaves at most one connection idle, and none while it awaits a
\* command or has begun to close.
MakerTidy ==
  \A c \in Clients :
    OwnsPool(c) =>
      /\ made[c] = "no" => idle[c] = 0
      /\ made[c] = "raised" /\ origin[c].owns => idle[c] = 0
      /\ made[c] = "making" =>
           /\ idle[c] <= 1
           /\ \A t \in Tasks :
                task[t].on = c /\ (conn[t] # "none" \/ task[t].at = "closing") => idle[c] = 0

\* Once a close has begun, the client has no usable connection unless it was
\* used again.
Over(c) == closed[c] \/ \E t \in Tasks : task[t] = Calling("closing", c)

Released ==
  \A c \in Clients :
    /\ closed[c] => fate[c] # "open"
    /\ OwnsPool(c) /\ Over(c) /\ fate[c] # "revived" =>
         /\ idle[c] = 0
         /\ \A t \in Tasks : task[t].on = c => conn[t] # "live"

RInv == Types /\ Framed /\ MakerAlone /\ MakerTidy /\ Released

-----------------------------------------------------------------------------
(* The kinds of step, as far as connections are concerned.                 *)

OthersStay(t) ==
  /\ task' \in [Tasks -> [at : Places, on : Pools]]
  /\ \A u \in Tasks : u # t => task'[u] = task[u]

\* t begins to use c.
Begins(t, c) ==
  /\ task[t].at = "idle" /\ OthersStay(t)
  /\ task'[t].on = c /\ task'[t].at \in {"info", "create", "operate"}
  /\ \/ made[c] = "no" /\ made' = [made EXCEPT ![c] = "making"]
     \/ made[c] = "ready" /\ made' = made
  /\ UNCHANGED <<origin, conn, idle, closed, fate>>

\* Making c needs no command.
Settles(c) ==
  /\ made[c] = "no"
  /\ \/ made' = [made EXCEPT ![c] = "raised"] /\ ~OwnsPool(c)
     \/ made' = [made EXCEPT ![c] = "ready"]
  /\ UNCHANGED <<origin, task, conn, idle, closed, fate>>

Walks(t) ==
  /\ conn[t] = "none" /\ OthersStay(t)
  /\ task[t].at \in {"configure", "create"}
  /\ task'[t].at \in {"create", "failed"} /\ task'[t].on = task[t].on
  /\ UNCHANGED <<origin, made, conn, idle, closed, fate>>

\* A call ends that awaits no command.
Ends(t) ==
  /\ conn[t] = "none" /\ OthersStay(t) /\ task'[t] = Idle
  /\ NeverMade(task[t].on)
  /\ \/ /\ task[t].at = "closing"
        /\ closed' = [closed EXCEPT ![task[t].on] = TRUE]
        /\ fate' = [fate EXCEPT ![task[t].on] = IF @ = "open" THEN "over" ELSE @]
     \/ task[t].at \in {"closing", "closing_pool"} /\ UNCHANGED <<closed, fate>>
     \/ /\ task[t].at = "failed" /\ (~origin[task[t].on].owns \/ closed[task[t].on])
        /\ UNCHANGED <<closed, fate>>
  /\ UNCHANGED <<origin, conn, idle>>

\* t begins to close c.
Closes(t, c) ==
  /\ origin[c].owns /\ ~closed[c]
  /\ \/ task[t].at = "idle" /\ made[c] = "ready"
     \/ task[t].at = "failed" /\ task[t].on = c
  /\ CloseRedis(t, c)
  /\ UNCHANGED <<origin, made, closed, fate>>

\* The command of t is over.
Frees(t) ==
  /\ conn[t] # "none" /\ Done(t) /\ OthersStay(t)
  /\ \/ task'[t] = Idle
     \/ task'[t].on = task[t].on /\ task'[t].at \in {"configure", "failed", "operate"}
  /\ \/ /\ idle' = idle \/ (conn[t] = "live" /\ GiveBack(t))
        /\ made' = made \/ made' = [made EXCEPT ![task[t].on] = "ready"]
     \/ idle' = idle /\ task'[t] = Idle /\ NeverMade(task[t].on)
  /\ UNCHANGED <<origin, closed, fate>>

Kind(t) ==
  \/ \E c \in Clients : Begins(t, c) \/ Settles(c) \/ Closes(t, c)
  \/ Walks(t) \/ Ends(t) \/ Send(t) \/ Frees(t) \/ CloseManager(t)

LEMMA TypesTyped == Types => Typed
BY DEF Types, Typed

LEMMA CallingFrame ==
  ASSUME Types, NEW t \in Tasks, NEW at \in Places, NEW on \in Pools
  PROVE  task[t] = Calling(at, on) <=> task[t].at = at /\ task[t].on = on
BY DEF Types, Calling

\* A call is inside a client, unless it is idle or closes the manager's pool.
LEMMA CallHasClient ==
  ASSUME Types, Framed, NEW t \in Tasks
  PROVE  /\ task[t].on \in Pools
         /\ task[t].at \notin {"idle", "closing_pool"} => task[t].on \in Clients
         /\ task[t].at \notin {"info", "create", "operate"} => conn[t] = "none"
         /\ task[t] = Idle <=> task[t].at = "idle"
         /\ task[t].on # "shared" => task[t].on \in Clients
<1>1. task[t].on \in Pools /\ "idle" \in Places /\ "shared" \in Pools
  BY DEF Types, Places, Pools
<1> QED BY <1>1, CallingFrame DEF Framed, Ready, Pools, Idle

LEMMA GotoKind ==
  ASSUME RInv, NEW t \in Tasks, NEW at \in Places, Goto(t, at)
  PROVE  /\ OthersStay(t) /\ task'[t].at = at
         /\ task' \in [Tasks -> [at : Places, on : Pools]]
         /\ at = "idle" => task'[t] = Idle
         /\ at # "idle" => task'[t].on = task[t].on
<1>1. Typed
  BY TypesTyped DEF RInv
<1>2. at = "idle" => task'[t] = Idle
  BY <1>1 DEF Goto, Typed
<1> QED BY <1>1, <1>2, GotoMoves DEF OthersStay

LEMMA CallKind ==
  ASSUME RInv, NEW t \in Tasks, NEW at \in Places, NEW on \in Pools,
         task' = [task EXCEPT ![t] = Calling(at, on)]
  PROVE  /\ OthersStay(t) /\ task'[t].at = at /\ task'[t].on = on
         /\ task' \in [Tasks -> [at : Places, on : Pools]]
         /\ task'[t] = Calling(at, on)
<1>1. Typed
  BY TypesTyped DEF RInv
<1>2. task'[t] = Calling(at, on)
  BY <1>1 DEF Typed
<1>3. /\ task' \in [Tasks -> [at : Places, on : Pools]]
      /\ \A u \in Tasks : u # t => task'[u] = task[u]
      /\ task'[t].at = at /\ task'[t].on = on
  BY <1>1, CallBegins
<1> QED BY <1>2, <1>3 DEF OthersStay

LEMMA MakingKinds ==
  ASSUME RInv, NEW t \in Tasks, NEW c \in Clients,
         FromUrl(t, c) \/ Construct(t, c) \/ Call(t, c) \/ Close(t, c)
  PROVE  Kind(t)
<1>1. Types /\ Framed /\ c \in Pools /\ {"info", "create", "operate"} \subseteq Places
  BY DEF RInv, Pools, Places
<1>2. task[t].at = "idle"
  BY <1>1, CallHasClient DEF FromUrl, Construct, Call, Close
<1>3. UNCHANGED <<origin, closed, fate>>
  BY DEF FromUrl, Construct, Call, Close, clients, others
<1>4. CASE FromUrl(t, c)
  <2>1. CASE origin[c].source = "manager" /\ managerClosed
    <3>1. Settles(c)
      BY <1>3, <1>4, <2>1 DEF FromUrl, Settles, OwnsPool
    <3> QED BY <3>1 DEF Kind
  <2>2. CASE ~(origin[c].source = "manager" /\ managerClosed)
    <3>1. /\ task' = [task EXCEPT ![t] = Calling("info", c)]
          /\ made' = [made EXCEPT ![c] = "making"]
          /\ made[c] = "no" /\ UNCHANGED <<conn, idle>>
      BY <1>4, <2>2 DEF FromUrl
    <3>2. OthersStay(t) /\ task'[t].at = "info" /\ task'[t].on = c
      BY <1>1, <3>1, CallKind
    <3>3. Begins(t, c)
      BY <1>2, <1>3, <3>1, <3>2 DEF Begins
    <3> QED BY <3>3 DEF Kind
  <2> QED BY <2>1, <2>2
<1>5. CASE Construct(t, c)
  <2>1. CASE task' = [task EXCEPT ![t] = Calling("create", c)] /\ made' = [made EXCEPT ![c] = "making"]
    <3>1. Begins(t, c)
      BY <1>1, <1>2, <1>3, <1>5, <2>1, CallKind DEF Construct, Begins
    <3> QED BY <3>1 DEF Kind
  <2>2. CASE UNCHANGED task /\ made' = [made EXCEPT ![c] = "ready"]
    <3>1. Settles(c)
      BY <1>3, <1>5, <2>2 DEF Construct, Settles
    <3> QED BY <3>1 DEF Kind
  <2> QED BY <1>5, <2>1, <2>2 DEF Construct
<1>6. CASE Call(t, c)
  <2>1. PICK at \in {"operate", "create"} : task' = [task EXCEPT ![t] = Calling(at, c)]
    BY <1>6 DEF Call
  <2>2. OthersStay(t) /\ task'[t].at = at /\ task'[t].on = c
    <3>1. at \in Places
      BY <1>1
    <3> QED BY <1>1, <2>1, <3>1, CallKind
  <2>3. Begins(t, c)
    BY <1>2, <1>3, <1>6, <2>2 DEF Call, Begins, clients
  <2> QED BY <2>3 DEF Kind
<1>7. CASE Close(t, c)
  <2>1. Closes(t, c)
    BY <1>2, <1>3, <1>7 DEF Close, Closes, clients
  <2> QED BY <2>1 DEF Kind
<1> QED BY <1>4, <1>5, <1>6, <1>7

LEMMA WalkKinds ==
  ASSUME RInv, NEW t \in Tasks, Configure(t) \/ Incompatible(t) \/ CleanUp(t)
  PROVE  Kind(t)
<1>1. Types /\ Framed /\ {"create", "failed", "idle"} \subseteq Places
  BY DEF RInv, Places
<1>2. CASE Configure(t) \/ Incompatible(t)
  <2>1. UNCHANGED <<origin, made, conn, idle, closed, fate>> /\ task[t].at \in {"configure", "create"}
    BY <1>2 DEF Configure, Incompatible, clients, others
  <2>2. conn[t] = "none"
    BY <1>1, <1>2 DEF Configure, Incompatible, Framed, Ready, Types
  <2>3. \E at \in {"create", "failed"} : Goto(t, at)
    BY <1>2 DEF Configure, Incompatible
  <2>4. Walks(t)
    BY <1>1, <2>1, <2>2, <2>3, GotoKind DEF Walks
  <2> QED BY <2>4 DEF Kind
<1>3. CASE CleanUp(t)
  <2>1. PICK c : c = task[t].on
    OBVIOUS
  <2>2. c \in Clients /\ conn[t] = "none"
    BY <1>1, <1>3, <2>1, CallHasClient DEF CleanUp
  <2>3. UNCHANGED <<origin, closed, fate>> /\ task[t].at = "failed"
    BY <1>3 DEF CleanUp, others
  <2>4. CASE origin[c].owns /\ ~closed[c]
    <3>1. Closes(t, c)
      BY <1>3, <2>1, <2>3, <2>4 DEF CleanUp, Closes
    <3> QED BY <2>2, <3>1 DEF Kind
  <2>5. CASE ~(origin[c].owns /\ ~closed[c])
    <3>1. Goto(t, "idle") /\ NeverMade(c) /\ UNCHANGED <<idle, conn>>
      BY <1>3, <2>1, <2>5 DEF CleanUp
    <3>2. ~origin[c].owns \/ closed[c]
      BY <1>1, <2>2, <2>5 DEF Types, Origin
    <3>3. OthersStay(t) /\ task'[t] = Idle
      BY <1>1, <3>1, GotoKind
    <3>4. Ends(t)
      BY <2>1, <2>2, <2>3, <3>1, <3>2, <3>3 DEF Ends
    <3> QED BY <3>4 DEF Kind
  <2> QED BY <2>4, <2>5
<1> QED BY <1>2, <1>3

LEMMA CommandKinds ==
  ASSUME RInv, NEW t \in Tasks, Receive(t) \/ CommandRaises(t) \/ Cancel(t)
  PROVE  Kind(t)
<1>1. Types /\ Framed /\ {"configure", "operate", "failed", "idle"} \subseteq Places
  BY DEF RInv, Places
<1>2. UNCHANGED <<origin, closed, fate>> /\ Done(t)
  BY DEF Receive, CommandRaises, Cancel, clients, others
<1>3. CASE Receive(t)
  <2>1. conn[t] = "live" /\ GiveBack(t)
    BY <1>3 DEF Receive
  <2>2. /\ OthersStay(t)
        /\ \/ task'[t] = Idle
           \/ task'[t].on = task[t].on /\ task'[t].at \in {"configure", "failed", "operate"}
    <3>1. \/ UNCHANGED task /\ task[t].at = "operate"
          \/ \E at \in {"configure", "operate", "failed", "idle"} : Goto(t, at)
      BY <1>3 DEF Receive, InfoReply, GroupReply, OperationReply
    <3>2. UNCHANGED task => OthersStay(t)
      BY <1>1 DEF OthersStay, Types
    <3>3. ASSUME NEW at \in {"configure", "operate", "failed", "idle"}, Goto(t, at)
          PROVE  /\ OthersStay(t)
                 /\ \/ task'[t] = Idle
                    \/ /\ task'[t].on = task[t].on
                       /\ task'[t].at \in {"configure", "failed", "operate"}
      BY <1>1, <3>3, GotoKind
    <3> QED BY <3>1, <3>2, <3>3
  <2>3. made' = made \/ made' = [made EXCEPT ![task[t].on] = "ready"]
    BY <1>3 DEF Receive, InfoReply, GroupReply, OperationReply
  <2>4. Frees(t)
    BY <1>2, <2>1, <2>2, <2>3 DEF Frees
  <2> QED BY <2>4 DEF Kind
<1>4. CASE CommandRaises(t)
  <2>1. conn[t] # "none" /\ (idle' = idle \/ (conn[t] = "live" /\ GiveBack(t))) /\ made' = made
    BY <1>4 DEF CommandRaises, clients
  <2>2. \E at \in {"idle", "failed"} : Goto(t, at)
    BY <1>4 DEF CommandRaises
  <2>3. Frees(t)
    BY <1>1, <1>2, <2>1, <2>2, GotoKind DEF Frees
  <2> QED BY <2>3 DEF Kind
<1>5. CASE Cancel(t)
  <2>1. /\ conn[t] # "none" \/ task[t].at \in {"closing", "closing_pool"}
        /\ Goto(t, "idle") /\ NeverMade(task[t].on) /\ idle' = idle
    BY <1>5 DEF Cancel
  <2>2. OthersStay(t) /\ task'[t] = Idle
    BY <1>1, <2>1, GotoKind
  <2>3. CASE conn[t] # "none"
    <3>1. Frees(t)
      BY <1>2, <2>1, <2>2, <2>3 DEF Frees
    <3> QED BY <3>1 DEF Kind
  <2>4. CASE conn[t] = "none"
    <3>1. conn' = conn
      BY <1>1, <1>2, <2>4 DEF Done, Types
    <3>2. Ends(t)
      BY <1>2, <2>1, <2>2, <2>4, <3>1 DEF Ends
    <3> QED BY <3>2 DEF Kind
  <2> QED BY <2>3, <2>4
<1> QED BY <1>3, <1>4, <1>5

LEMMA CloseKinds ==
  ASSUME RInv, NEW t \in Tasks, Closed(t) \/ CloseRaises(t) \/ ManagerClosed(t)
  PROVE  Kind(t)
<1>1. Types /\ Framed /\ "idle" \in Places
  BY DEF RInv, Places
<1>2. /\ task[t].at \in {"closing", "closing_pool"}
      /\ Goto(t, "idle") /\ UNCHANGED <<origin, conn, idle>>
  BY DEF Closed, CloseRaises, ManagerClosed, clients, others
<1>3. conn[t] = "none" /\ OthersStay(t) /\ task'[t] = Idle
  BY <1>1, <1>2, GotoKind, CallHasClient
<1>4. NeverMade(task[t].on)
  <2>1. CASE ManagerClosed(t)
    <3>1. task[t].on \notin Clients
      BY <1>1, <2>1, ConstantsAssumption DEF ManagerClosed, Framed
    <3> QED BY <2>1, <3>1 DEF ManagerClosed, clients, NeverMade
  <2> QED BY <2>1 DEF Closed, CloseRaises
<1>5. Ends(t)
  BY <1>2, <1>3, <1>4 DEF Closed, CloseRaises, ManagerClosed, Ends, clients, others
<1> QED BY <1>5 DEF Kind

LEMMA Kinds ==
  ASSUME RInv, [Next]_vars
  PROVE  UNCHANGED vars \/ \E t \in Tasks : Kind(t)
<1>1. ASSUME NEW t \in Tasks, Send(t) \/ CloseManager(t)
      PROVE  Kind(t)
  BY <1>1 DEF Kind
<1> QED BY <1>1, MakingKinds, WalkKinds, CommandKinds, CloseKinds DEF Next

-----------------------------------------------------------------------------
(* What a step does to the connections.                                    *)

\* The pool that closing c disconnects is its own.
LEMMA OwnPool ==
  ASSUME NEW c \in Clients
  PROVE  OwnsPool(c) => Pool(c) = c
BY ConstantsAssumption DEF OwnsPool, Pool

LEMMA SharedPool ==
  ASSUME NEW c \in Clients
  PROVE  ~OwnsPool(c) => Pool(c) = "shared"
BY DEF OwnsPool, Pool

LEMMA PoolOfUser ==
  ASSUME Types, Framed, NEW t \in Tasks, NEW c \in Clients
  PROVE  Pool(task[t].on) = c <=> task[t].on = c /\ OwnsPool(c)
<1>1. task[t].on \in Pools
  BY CallHasClient
<1> QED BY <1>1, ConstantsAssumption DEF Pool, Pools, OwnsPool

\* What disconnecting a pool does.
LEMMA Cutting ==
  ASSUME Types, NEW p \in Pools, Disconnect(p)
  PROVE  /\ idle' \in [Pools -> Nat] /\ conn' \in [Tasks -> {"none", "live", "cut"}]
         /\ idle'[p] = 0 /\ \A q \in Pools : q # p => idle'[q] = idle[q]
         /\ \A t \in Tasks : IF UsedBy(t, p) THEN conn'[t] = "cut" ELSE conn'[t] = conn[t]
BY DEF Types, Disconnect

LEMMA CloseRedisDoes ==
  ASSUME RInv, NEW t \in Tasks, NEW c \in Clients, CloseRedis(t, c)
  PROVE  /\ OthersStay(t) /\ task'[t] = Calling("closing", c)
         /\ task'[t].at = "closing" /\ task'[t].on = c
         /\ task' \in [Tasks -> [at : Places, on : Pools]]
         /\ idle' \in [Pools -> Nat] /\ conn' \in [Tasks -> {"none", "live", "cut"}]
         /\ \A u \in Tasks : conn'[u] = conn[u] \/ (conn[u] # "none" /\ conn'[u] = "cut")
         /\ OwnsPool(c) => /\ idle'[c] = 0
                           /\ \A u \in Tasks : task[u].on = c => conn'[u] # "live"
         /\ \A d \in Clients : OwnsPool(d) /\ d # c => idle'[d] = idle[d]
         /\ \A p \in Pools : idle'[p] <= idle[p]
         /\ \A u \in Tasks : conn[u] = "live" /\ conn'[u] = "cut" =>
              OwnsPool(c) /\ task[u].on = c
<1>1. Types /\ Framed /\ "closing" \in Places /\ Clients \subseteq Pools
  BY DEF RInv, Places, Pools
<1>2. /\ OthersStay(t) /\ task'[t] = Calling("closing", c)
      /\ task'[t].at = "closing" /\ task'[t].on = c
      /\ task' \in [Tasks -> [at : Places, on : Pools]]
  <2>1. task' = [task EXCEPT ![t] = Calling("closing", c)]
    BY DEF CloseRedis
  <2> QED BY <1>1, <2>1, CallKind
<1>3. CASE OwnsPool(c)
  <2>1. Disconnect(c)
    BY <1>3, OwnPool DEF CloseRedis
  <2>2. \A u \in Tasks : task[u].on = c => (UsedBy(u, c) <=> conn[u] # "none")
    BY <1>1, <1>3, PoolOfUser DEF UsedBy
  <2>3. \A u \in Tasks : UsedBy(u, c) => conn[u] # "none" /\ task[u].on = c
    BY <1>1, PoolOfUser DEF UsedBy
  <2>4. \A p \in Pools : idle'[p] <= idle[p]
    <3>1. \A p \in Pools : idle'[p] = idle[p] \/ idle'[p] = 0
      BY <1>1, <2>1, Cutting
    <3>2. \A p \in Pools : idle[p] \in Nat
      BY <1>1 DEF Types
    <3> QED BY <3>1, <3>2
  <2>5. \A u \in Tasks : conn'[u] = conn[u] \/ (UsedBy(u, c) /\ conn'[u] = "cut")
    BY <1>1, <2>1, Cutting
  <2>6. \A u \in Tasks : task[u].on = c => conn'[u] # "live"
    BY <1>1, <2>1, <2>2, Cutting
  <2>7. \A u \in Tasks : conn[u] = "live" /\ conn'[u] = "cut" => task[u].on = c
    BY <2>3, <2>5
  <2>8. /\ idle' \in [Pools -> Nat] /\ conn' \in [Tasks -> {"none", "live", "cut"}]
        /\ idle'[c] = 0 /\ \A d \in Clients : d # c => idle'[d] = idle[d]
    BY <1>1, <2>1, Cutting
  <2> QED BY <1>2, <1>3, <2>3, <2>4, <2>5, <2>6, <2>7, <2>8
<1>4. CASE ~OwnsPool(c)
  <2>1. UNCHANGED <<idle, conn>>
    BY <1>4 DEF CloseRedis
  <2>2. /\ \A p \in Pools : idle[p] \in Nat /\ idle[p] <= idle[p]
        /\ idle \in [Pools -> Nat] /\ conn \in [Tasks -> {"none", "live", "cut"}]
    BY <1>1 DEF Types
  <2>3. "live" # "cut"
    OBVIOUS
  <2> QED BY <1>2, <1>4, <2>1, <2>2, <2>3
<1> QED BY <1>3, <1>4

LEMMA CloseManagerDoes ==
  ASSUME RInv, NEW t \in Tasks, CloseManager(t)
  PROVE  /\ OthersStay(t) /\ task[t].at = "idle"
         /\ task'[t].at = "closing_pool" /\ task'[t].on = "shared"
         /\ task' \in [Tasks -> [at : Places, on : Pools]]
         /\ idle' \in [Pools -> Nat] /\ conn' \in [Tasks -> {"none", "live", "cut"}]
         /\ \A u \in Tasks : conn'[u] = conn[u] \/ (conn[u] # "none" /\ conn'[u] = "cut")
         /\ \A c \in Clients : idle'[c] = idle[c]
         /\ \A p \in Pools : idle'[p] <= idle[p]
         /\ \A u \in Tasks : conn[u] = "live" /\ conn'[u] = "cut" =>
              origin[task[u].on].source = "manager"
         /\ UNCHANGED <<clients, others, faults>>
<1>1. Types /\ Framed /\ "closing_pool" \in Places /\ "shared" \in Pools
  BY DEF RInv, Places, Pools
<1>2. /\ OthersStay(t)
      /\ task'[t].at = "closing_pool" /\ task'[t].on = "shared"
      /\ task' \in [Tasks -> [at : Places, on : Pools]]
  <2>1. task' = [task EXCEPT ![t] = Calling("closing_pool", "shared")]
    BY DEF CloseManager
  <2> QED BY <1>1, <2>1, CallKind
<1>3. task[t].at = "idle"
  BY <1>1, CallHasClient DEF CloseManager
<1>4. Clients \subseteq Pools /\ "shared" \notin Clients
  BY ConstantsAssumption DEF Pools
<1>5. /\ idle' \in [Pools -> Nat] /\ conn' \in [Tasks -> {"none", "live", "cut"}]
      /\ \A c \in Clients : idle'[c] = idle[c]
      /\ \A u \in Tasks : conn'[u] = conn[u] \/ (conn[u] # "none" /\ conn'[u] = "cut")
  BY <1>1, <1>4, Cutting DEF CloseManager, UsedBy
<1>6. \A p \in Pools : idle'[p] <= idle[p]
  <2>1. \A p \in Pools : idle'[p] = idle[p] \/ idle'[p] = 0
    BY <1>1, Cutting DEF CloseManager
  <2>2. \A p \in Pools : idle[p] \in Nat
    BY <1>1 DEF Types
  <2> QED BY <2>1, <2>2
<1>7. ASSUME NEW u \in Tasks, conn[u] = "live", conn'[u] = "cut"
      PROVE  origin[task[u].on].source = "manager"
  <2>1. UsedBy(u, "shared")
    BY <1>1, <1>7, Cutting DEF CloseManager
  <2>2. task[u].on \in Clients
    BY <1>1, <1>7, CallHasClient
  <2> QED BY <1>4, <2>1, <2>2 DEF UsedBy, Pool
<1> QED BY <1>2, <1>3, <1>5, <1>6, <1>7 DEF CloseManager

\* A command opens a connection or takes an idle one.
LEMMA SendDoes ==
  ASSUME RInv, NEW t \in Tasks, Send(t)
  PROVE  /\ task[t].on \in Clients /\ Pool(task[t].on) \in Pools
         /\ conn[t] = "none" /\ conn'[t] = "live"
         /\ \A u \in Tasks : u # t => conn'[u] = conn[u]
         /\ conn' \in [Tasks -> {"none", "live", "cut"}]
         /\ idle' \in [Pools -> Nat]
         /\ idle'[Pool(task[t].on)] =
              IF idle[Pool(task[t].on)] = 0 THEN 0 ELSE idle[Pool(task[t].on)] - 1
         /\ \A p \in Pools : p # Pool(task[t].on) => idle'[p] = idle[p]
         /\ fate' \in [Clients -> {"open", "over", "revived"}]
         /\ \A c \in Clients : c # task[t].on => fate'[c] = fate[c]
         /\ Over(task[t].on) /\ fate[task[t].on] # "open" => fate'[task[t].on] = "revived"
         /\ (\E u \in Tasks : task[u] = Calling("closing", task[t].on)) =>
              fate'[task[t].on] = "revived"
         /\ fate'[task[t].on] = fate[task[t].on] \/ fate'[task[t].on] = "revived"
         /\ UNCHANGED <<origin, made, closed, task>>
<1>1. Types /\ Framed
  BY DEF RInv
<1>2. task[t].on \in Clients
  BY <1>1, CallHasClient DEF Send, Ready
<1>3. PICK c \in Clients : c = task[t].on
  BY <1>2
<1>4. PICK p \in Pools : p = Pool(c)
  BY <1>3 DEF Pool, Pools
<1>5. /\ conn[t] = "none" /\ conn' = [conn EXCEPT ![t] = "live"]
      /\ idle' = [idle EXCEPT ![p] = IF @ = 0 THEN 0 ELSE @ - 1]
      /\ UNCHANGED <<origin, made, closed, task>>
  BY <1>3, <1>4 DEF Send, clients
<1>6. fate' = [fate EXCEPT ![c] =
                 IF @ = "over" \/ (\E u \in Tasks : task[u] = Calling("closing", c))
                 THEN "revived" ELSE @]
  BY <1>3 DEF Send
<1>7. /\ conn' \in [Tasks -> {"none", "live", "cut"}] /\ conn'[t] = "live"
      /\ \A u \in Tasks : u # t => conn'[u] = conn[u]
  BY <1>1, <1>5 DEF Types
<1>8. /\ idle' \in [Pools -> Nat]
      /\ idle'[p] = IF idle[p] = 0 THEN 0 ELSE idle[p] - 1
      /\ \A q \in Pools : q # p => idle'[q] = idle[q]
  BY <1>1, <1>5 DEF Types
<1>9. /\ fate' \in [Clients -> {"open", "over", "revived"}]
      /\ \A d \in Clients : d # c => fate'[d] = fate[d]
      /\ fate[c] = "over" => fate'[c] = "revived"
      /\ (\E u \in Tasks : task[u] = Calling("closing", c)) => fate'[c] = "revived"
      /\ fate'[c] = fate[c] \/ fate'[c] = "revived"
  BY <1>1, <1>6 DEF Types
<1>10. fate[c] # "open" => fate[c] = "over" \/ fate[c] = "revived"
  BY <1>1 DEF Types
<1> QED BY <1>3, <1>4, <1>5, <1>7, <1>8, <1>9, <1>10

\* Its end gives it back, at most.
LEMMA FreesDoes ==
  ASSUME RInv, NEW t \in Tasks, Frees(t)
  PROVE  /\ task[t].on \in Clients /\ Pool(task[t].on) \in Pools
         /\ conn'[t] = "none"
         /\ \A u \in Tasks : u # t => conn'[u] = conn[u]
         /\ conn' \in [Tasks -> {"none", "live", "cut"}]
         /\ idle' \in [Pools -> Nat]
         /\ \/ idle' = idle
            \/ /\ conn[t] = "live"
               /\ idle'[Pool(task[t].on)] = idle[Pool(task[t].on)] + 1
         /\ \A p \in Pools : p # Pool(task[t].on) => idle'[p] = idle[p]
<1>1. Types /\ Framed
  BY DEF RInv
<1>2. task[t].on \in Clients
  BY <1>1, CallHasClient DEF Frees
<1>3. PICK p \in Pools : p = Pool(task[t].on)
  BY <1>2 DEF Pool, Pools
<1>4. /\ conn' \in [Tasks -> {"none", "live", "cut"}] /\ conn'[t] = "none"
      /\ \A u \in Tasks : u # t => conn'[u] = conn[u]
  BY <1>1 DEF Frees, Done, Types
<1>5. \/ idle' = idle
      \/ conn[t] = "live" /\ idle' = [idle EXCEPT ![p] = @ + 1]
  BY <1>3 DEF Frees, GiveBack
<1>6. /\ idle' \in [Pools -> Nat]
      /\ idle' = idle \/ (conn[t] = "live" /\ idle'[p] = idle[p] + 1)
      /\ \A q \in Pools : q # p => idle'[q] = idle[q]
  BY <1>1, <1>5 DEF Types
<1> QED BY <1>2, <1>3, <1>4, <1>6

-----------------------------------------------------------------------------
(* Each part of the invariant.                                             *)

LEMMA NeverMadeDoes ==
  ASSUME Types, NEW c \in Pools, NeverMade(c)
  PROVE  /\ made' \in [Clients -> {"no", "making", "ready", "raised"}]
         /\ \A d \in Clients : d # c => made'[d] = made[d]
         /\ c \in Clients => \/ made[c] = "making" /\ made'[c] = "raised"
                             \/ made[c] # "making" /\ made'[c] = made[c]
BY DEF Types, NeverMade

LEMMA ClosesDoes ==
  ASSUME RInv, NEW t \in Tasks, NEW c \in Clients, Closes(t, c)
  PROVE  conn[t] = "none" /\ (task[t].at = "idle" \/ task[t].on = c)
BY CallHasClient DEF RInv, Closes

\* The types of what the kinds of step change.
KindTypes ==
  /\ made \in [Clients -> {"no", "making", "ready", "raised"}]
  /\ closed \in [Clients -> BOOLEAN]
  /\ task \in [Tasks -> [at : Places, on : Pools]]
  /\ conn \in [Tasks -> {"none", "live", "cut"}]
  /\ idle \in [Pools -> Nat]
  /\ fate \in [Clients -> {"open", "over", "revived"}]

LEMMA TypesStep ==
  ASSUME RInv, [Next]_vars
  PROVE  Types'
<1>1. Types /\ Framed
  BY DEF RInv
<1>2. /\ stored' \in [Clients -> BOOLEAN] /\ groups' \subseteq Clients
      /\ managerClosed' \in BOOLEAN
      /\ faults' \in 0..MaxFaults
  <2>1. CASE UNCHANGED <<stored, groups, managerClosed, faults>>
    BY <1>1, <2>1 DEF Types
  <2>2. ASSUME NEW t \in Tasks, Receive(t)
        PROVE  /\ stored' \in [Clients -> BOOLEAN] /\ groups' \subseteq Clients
               /\ UNCHANGED <<managerClosed, faults>>
    <3>1. task[t].at = "create" => task[t].on \in Clients
      BY <1>1, CallHasClient
    <3> QED BY <1>1, <2>2, <3>1 DEF Receive, InfoReply, GroupReply, OperationReply, Types
  <2>3. ASSUME NEW t \in Tasks, CommandRaises(t) \/ Cancel(t) \/ CloseRaises(t)
        PROVE  /\ UNCHANGED <<stored, groups, managerClosed>>
               /\ faults' \in 0..MaxFaults
    <3>1. \A kind : Fault(kind) => faults' \in 0..MaxFaults
      BY <1>1, ConstantsAssumption DEF Types, Fault
    <3> QED BY <1>1, <2>3, <3>1 DEF CommandRaises, Cancel, CloseRaises, Types, clients, others
  <2>4. ASSUME NEW t \in Tasks, ManagerClosed(t)
        PROVE  UNCHANGED <<stored, groups, faults>> /\ managerClosed' = TRUE
    BY <2>4 DEF ManagerClosed, clients
  <2>5. ASSUME NEW t \in Tasks, NEW c \in Clients,
               FromUrl(t, c) \/ Construct(t, c) \/ Call(t, c) \/ Close(t, c)
        PROVE  UNCHANGED <<stored, groups, managerClosed, faults>>
    BY <2>5 DEF FromUrl, Construct, Call, Close, clients, others
  <2>6. ASSUME NEW t \in Tasks,
               \/ Configure(t) \/ Incompatible(t) \/ CleanUp(t) \/ Send(t)
               \/ Closed(t) \/ CloseManager(t)
        PROVE  UNCHANGED <<stored, groups, managerClosed, faults>>
    BY <2>6 DEF Configure, Incompatible, CleanUp, Send, Closed, CloseManager, clients, others
  <2> QED BY <1>1, <2>1, <2>2, <2>3, <2>4, <2>5, <2>6 DEF Next, vars, clients, others, Types
<1>3. ASSUME NEW t \in Tasks, Kind(t)
      PROVE  origin' = origin /\ KindTypes'
  <2>1. ASSUME NEW c \in Clients, Begins(t, c) \/ Settles(c)
        PROVE  origin' = origin /\ KindTypes'
    BY <1>1, <2>1 DEF Types, KindTypes, Begins, Settles, OthersStay
  <2>2. ASSUME NEW c \in Clients, Closes(t, c)
        PROVE  origin' = origin /\ KindTypes'
    BY <1>1, <2>2, CloseRedisDoes DEF Types, KindTypes, Closes
  <2>3. CASE Walks(t)
    BY <1>1, <2>3 DEF Types, KindTypes, Walks, OthersStay
  <2>4. CASE Ends(t)
    <3>1. task[t].on \in Pools
      BY <1>1, CallHasClient
    <3>2. made' \in [Clients -> {"no", "making", "ready", "raised"}]
      BY <1>1, <2>4, <3>1, NeverMadeDoes DEF Ends
    <3>3. closed' \in [Clients -> BOOLEAN] /\ fate' \in [Clients -> {"open", "over", "revived"}]
      BY <1>1, <2>4 DEF Types, Ends
    <3> QED BY <1>1, <2>4, <3>2, <3>3 DEF Types, KindTypes, Ends, OthersStay
  <2>5. CASE Send(t)
    BY <1>1, <2>5, SendDoes DEF Types, KindTypes
  <2>6. CASE Frees(t)
    <3>1. made' \in [Clients -> {"no", "making", "ready", "raised"}]
      BY <1>1, <2>6, FreesDoes, NeverMadeDoes, CallHasClient DEF Types, KindTypes, Frees
    <3> QED BY <1>1, <2>6, <3>1, FreesDoes DEF Types, KindTypes, Frees, OthersStay
  <2>7. CASE CloseManager(t)
    BY <1>1, <2>7, CloseManagerDoes DEF Types, KindTypes, clients, others
  <2> QED BY <1>3, <2>1, <2>2, <2>3, <2>4, <2>5, <2>6, <2>7 DEF Kind
<1> QED BY <1>1, <1>2, <1>3, Kinds DEF Types, KindTypes, vars, clients, others

LEMMA FramedStep ==
  ASSUME RInv, NEW t \in Tasks, Kind(t)
  PROVE  Framed'
<1>1. Types /\ Framed /\ (\A c \in Clients : closed[c] => origin[c].owns)
  BY DEF RInv, Framed
<1>2. "shared" \notin Clients
  BY ConstantsAssumption
<1>3. Idle.at = "idle" /\ Idle.on = "shared"
  BY DEF Idle, Calling
<1>4. ASSUME origin' = origin, OthersStay(t),
             \A u \in Tasks : conn'[u] = conn[u] \/ (conn[u] # "none" /\ conn'[u] = "cut")
                              \/ u = t,
             task'[t].on = "shared" <=> task'[t].at \in {"idle", "closing_pool"},
             conn'[t] # "none" => Ready(t)',
             task'[t].at = "closing" => origin[task'[t].on].owns,
             \A c \in Clients : closed'[c] => origin[c].owns
      PROVE  Framed'
  <2> SUFFICES ASSUME NEW u \in Tasks
               PROVE  /\ task'[u].on = "shared" <=> task'[u].at \in {"idle", "closing_pool"}
                      /\ conn'[u] # "none" => Ready(u)'
                      /\ task'[u].at = "closing" => origin'[task'[u].on].owns
    BY <1>4 DEF Framed
  <2>1. CASE u = t
    BY <1>4, <2>1
  <2>2. CASE u # t
    <3>1. task'[u] = task[u] /\ (conn'[u] # "none" => conn[u] # "none")
      BY <1>4, <2>2 DEF OthersStay
    <3>2. Ready(u)' <=> Ready(u)
      BY <1>4, <3>1 DEF Ready, SupportsStreams
    <3> QED BY <1>1, <1>4, <3>1, <3>2 DEF Framed
  <2> QED BY <2>1, <2>2
<1>5. ASSUME NEW c \in Clients, Begins(t, c)
      PROVE  Framed'
  <2>1. conn[t] = "none"
    BY <1>1, <1>5, CallHasClient DEF Begins
  <2> QED BY <1>1, <1>2, <1>4, <1>5, <2>1 DEF Begins
<1>6. ASSUME NEW c \in Clients, Settles(c)
      PROVE  Framed'
  BY <1>1, <1>6 DEF Settles, Framed, Ready, SupportsStreams
<1>7. ASSUME NEW c \in Clients, Closes(t, c)
      PROVE  Framed'
  <2>1. /\ OthersStay(t) /\ task'[t].at = "closing" /\ task'[t].on = c
        /\ \A u \in Tasks : conn'[u] = conn[u] \/ (conn[u] # "none" /\ conn'[u] = "cut")
    BY <1>7, CloseRedisDoes DEF Closes
  <2>2. conn[t] = "none"
    BY <1>7, ClosesDoes
  <2> QED BY <1>1, <1>2, <1>4, <1>7, <2>1, <2>2 DEF Closes
<1>8. CASE Walks(t)
  <2>1. task[t].on # "shared"
    BY <1>1, <1>8 DEF Walks, Framed
  <2> QED BY <1>1, <1>4, <1>8, <2>1 DEF Walks
<1>9. CASE Ends(t)
  <2>1. \A c \in Clients : closed'[c] => origin[c].owns
    <3>1. task[t].at = "closing" => origin[task[t].on].owns
      BY <1>1 DEF Framed
    <3> QED BY <1>1, <1>9, <3>1 DEF Ends, Types
  <2> QED BY <1>3, <1>4, <1>9, <2>1 DEF Ends
<1>10. CASE Send(t)
  <2>1. Ready(t) /\ UNCHANGED <<origin, closed, task>> /\ \A u \in Tasks : u # t => conn'[u] = conn[u]
    BY <1>10, SendDoes DEF Send
  <2>2. \A u \in Tasks : Ready(u)' <=> Ready(u)
    BY <2>1 DEF Ready, SupportsStreams
  <2> QED BY <1>1, <2>1, <2>2 DEF Framed
<1>11. CASE Frees(t)
  <2>1. conn'[t] = "none" /\ (\A u \in Tasks : u # t => conn'[u] = conn[u])
        /\ task[t].on # "shared"
    BY <1>2, <1>11, FreesDoes
  <2> QED BY <1>1, <1>3, <1>4, <1>11, <2>1 DEF Frees
<1>12. CASE CloseManager(t)
  <2>1. conn[t] = "none"
    BY <1>1, <1>12, CallHasClient, CloseManagerDoes
  <2> QED BY <1>1, <1>4, <1>12, <2>1, CloseManagerDoes DEF clients
<1> QED BY <1>5, <1>6, <1>7, <1>8, <1>9, <1>10, <1>11, <1>12 DEF Kind

LEMMA MakerAloneStep ==
  ASSUME RInv, NEW t \in Tasks, Kind(t)
  PROVE  MakerAlone'
<1>1. Types /\ Framed /\ MakerAlone
  BY DEF RInv
<1>2. "shared" \notin Clients /\ Idle.on = "shared"
  BY ConstantsAssumption DEF Idle, Calling
\* Nobody comes to a client that was not made, or made by another.
<1>3. ASSUME OthersStay(t),
             NEW c \in Clients,
             task'[t].on = c => task[t].on = c,
             made'[c] = made[c],
             made[c] \in {"no", "making"} => closed'[c] = closed[c]
      PROVE  /\ made'[c] \in {"no", "raised"} => \A u \in Tasks : task'[u].on # c
             /\ made'[c] = "making" =>
                  \A u, v \in Tasks : task'[u].on = c /\ task'[v].on = c => u = v
             /\ made'[c] \in {"no", "making"} => ~closed'[c]
  <2>1. \A u \in Tasks : task'[u].on = c => task[u].on = c
    BY <1>3 DEF OthersStay
  <2> QED BY <1>1, <1>3, <2>1 DEF MakerAlone
<1>4. ASSUME NEW c \in Clients, Begins(t, c)
      PROVE  MakerAlone'
  <2>1. CASE made[c] = "no" /\ made' = [made EXCEPT ![c] = "making"]
    <3>1. made'[c] = "making" /\ \A d \in Clients : d # c => made'[d] = made[d]
      BY <1>1, <2>1 DEF Types
    <3>2. \A u \in Tasks : task'[u].on = c => u = t
      BY <1>1, <1>4, <2>1 DEF Begins, OthersStay, MakerAlone
    <3>3. ~closed[c]
      BY <1>1, <2>1 DEF MakerAlone
    <3> QED BY <1>3, <1>4, <3>1, <3>2, <3>3 DEF Begins, MakerAlone
  <2>2. CASE made[c] = "ready" /\ made' = made
    BY <1>3, <1>4, <2>2 DEF Begins, MakerAlone
  <2> QED BY <1>4, <2>1, <2>2 DEF Begins
<1>5. ASSUME NEW c \in Clients, Settles(c)
      PROVE  MakerAlone'
  BY <1>1, <1>5 DEF Settles, MakerAlone, Types
<1>6. ASSUME NEW c \in Clients, Closes(t, c)
      PROVE  MakerAlone'
  <2>1. OthersStay(t) /\ task'[t].on = c
    BY <1>6, CloseRedisDoes DEF Closes
  <2>2. task[t].on = c \/ made[c] = "ready"
    BY <1>6 DEF Closes
  <2> QED BY <1>3, <1>6, <2>1, <2>2 DEF Closes, MakerAlone
<1>7. CASE Walks(t)
  BY <1>3, <1>7 DEF Walks, MakerAlone
<1>8. CASE Ends(t)
  <2>1. PICK c \in Pools : c = task[t].on
    BY <1>1, CallHasClient
  <2>2. /\ OthersStay(t) /\ task'[t].on = "shared" /\ NeverMade(c)
        /\ \A d \in Clients : d # c => closed'[d] = closed[d]
    BY <1>1, <1>2, <1>8, <2>1 DEF Ends, Types
  <2>3. /\ \A d \in Clients : d # c => made'[d] = made[d]
        /\ c \in Clients => \/ made[c] = "making" /\ made'[c] = "raised"
                            \/ made[c] # "making" /\ made'[c] = made[c]
    BY <1>1, <2>2, NeverMadeDoes
  <2>4. ASSUME c \in Clients, made[c] = "making"
        PROVE  \A u \in Tasks : task'[u].on # c
    BY <1>1, <1>2, <2>1, <2>2, <2>4 DEF MakerAlone, OthersStay
  <2>5. c \in Clients => made[c] # "no"
    BY <1>1, <2>1 DEF MakerAlone
  <2> QED BY <1>2, <1>3, <2>2, <2>3, <2>4, <2>5 DEF MakerAlone
<1>9. CASE Send(t)
  BY <1>1, <1>9, SendDoes DEF MakerAlone
<1>10. CASE Frees(t)
  <2>1. PICK c \in Clients : c = task[t].on
    BY <1>10, FreesDoes
  <2>2. /\ OthersStay(t) /\ task'[t].on \in {"shared", c} /\ closed' = closed
    BY <1>2, <1>10, <2>1 DEF Frees
  <2>3. CASE made' = made
    BY <1>2, <1>3, <2>1, <2>2, <2>3 DEF MakerAlone
  <2>4. CASE made' = [made EXCEPT ![c] = "ready"]
    <3>1. made'[c] = "ready" /\ \A d \in Clients : d # c => made'[d] = made[d]
      BY <1>1, <2>4 DEF Types
    <3> QED BY <1>2, <1>3, <2>1, <2>2, <3>1 DEF MakerAlone
  <2>5. CASE task'[t].on = "shared" /\ NeverMade(c)
    <3>1. /\ \A d \in Clients : d # c => made'[d] = made[d]
          /\ \/ made[c] = "making" /\ made'[c] = "raised"
             \/ made[c] # "making" /\ made'[c] = made[c]
      BY <1>1, <2>5, NeverMadeDoes DEF Pools
    <3>2. ASSUME made[c] = "making"
          PROVE  \A u \in Tasks : task'[u].on # c
      BY <1>1, <1>2, <2>1, <2>2, <2>5, <3>2 DEF MakerAlone, OthersStay
    <3> QED BY <1>2, <1>3, <2>1, <2>2, <2>5, <3>1, <3>2 DEF MakerAlone
  <2> QED BY <1>2, <1>10, <2>1, <2>3, <2>4, <2>5 DEF Frees
<1>11. CASE CloseManager(t)
  BY <1>2, <1>3, <1>11, CloseManagerDoes DEF MakerAlone, clients
<1> QED BY <1>4, <1>5, <1>6, <1>7, <1>8, <1>9, <1>10, <1>11 DEF Kind

\* What a step does to the maker's pool when it is not the maker's.
LEMMA MakerTidyStep ==
  ASSUME RInv, NEW t \in Tasks, Kind(t)
  PROVE  MakerTidy'
<1>1. Types /\ Framed /\ MakerAlone /\ MakerTidy /\ Clients \subseteq Pools
  BY DEF RInv, Pools
<1>2. "shared" \notin Clients /\ Idle.on = "shared"
  BY ConstantsAssumption DEF Idle, Calling
<1> DEFINE Neat(c) ==
      OwnsPool(c) =>
        /\ made[c] = "no" => idle[c] = 0
        /\ made[c] = "raised" /\ origin[c].owns => idle[c] = 0
        /\ made[c] = "making" =>
             /\ idle[c] <= 1
             /\ \A u \in Tasks :
                  task[u].on = c /\ (conn[u] # "none" \/ task[u].at = "closing") => idle[c] = 0
<1>3. MakerTidy <=> \A c \in Clients : Neat(c)
  BY DEF MakerTidy
<1>4. MakerTidy' <=> \A c \in Clients : Neat(c)'
  BY DEF MakerTidy
\* A client that t leaves alone.
<1>5. ASSUME NEW c \in Clients, origin' = origin, OthersStay(t),
             task'[t].on # c,
             made'[c] = made[c], OwnsPool(c) => idle'[c] = idle[c],
             \A u \in Tasks : u # t => conn'[u] = conn[u] \/ conn[u] # "none"
      PROVE  Neat(c)'
  <2>1. \A u \in Tasks : task'[u].on = c => task'[u] = task[u] /\ (conn'[u] # "none" => conn[u] # "none")
    BY <1>5 DEF OthersStay
  <2>2. OwnsPool(c)' <=> OwnsPool(c)
    BY <1>5 DEF OwnsPool
  <2> QED BY <1>1, <1>5, <2>1, <2>2 DEF MakerTidy
<1>6. ASSUME NEW c \in Clients, Begins(t, c)
      PROVE  MakerTidy'
  <2>1. CASE made[c] = "no" /\ made' = [made EXCEPT ![c] = "making"]
    <3>1. made'[c] = "making" /\ \A d \in Clients : d # c => made'[d] = made[d]
      BY <1>1, <2>1 DEF Types
    <3>2. OwnsPool(c)' => idle'[c] = 0
      BY <1>1, <1>6, <2>1 DEF MakerTidy, OwnsPool, Begins
    <3>3. Neat(c)'
      BY <3>1, <3>2
    <3>4. \A d \in Clients : d # c => Neat(d)'
      BY <1>5, <1>6, <3>1 DEF Begins
    <3> QED BY <1>4, <3>3, <3>4
  <2>2. CASE made[c] = "ready" /\ made' = made
    <3>1. Neat(c)'
      BY <2>2
    <3>2. \A d \in Clients : d # c => Neat(d)'
      BY <1>5, <1>6, <2>2 DEF Begins
    <3> QED BY <1>4, <3>1, <3>2
  <2> QED BY <1>6, <2>1, <2>2 DEF Begins
<1>7. ASSUME NEW c \in Clients, Settles(c)
      PROVE  MakerTidy'
  BY <1>1, <1>7 DEF Settles, MakerTidy, Types, OwnsPool
<1>8. ASSUME NEW c \in Clients, Closes(t, c)
      PROVE  MakerTidy'
  <2>1. /\ OthersStay(t) /\ task'[t].on = c /\ UNCHANGED <<origin, made>>
        /\ \A u \in Tasks : conn'[u] = conn[u] \/ (conn[u] # "none" /\ conn'[u] = "cut")
        /\ OwnsPool(c) => idle'[c] = 0
        /\ \A d \in Clients : OwnsPool(d) /\ d # c => idle'[d] = idle[d]
    BY <1>8, CloseRedisDoes DEF Closes
  <2>2. OwnsPool(c)' => idle'[c] = 0
    BY <2>1 DEF OwnsPool
  <2>3. Neat(c)'
    BY <2>2
  <2>4. \A d \in Clients : d # c => Neat(d)'
    BY <1>5, <2>1
  <2> QED BY <1>4, <2>3, <2>4
<1>9. CASE Walks(t)
  <2>1. \A u \in Tasks : task'[u].on = task[u].on /\ (task'[u].at = "closing" => task[u].at = "closing")
    BY <1>9 DEF Walks, OthersStay
  <2> QED BY <1>1, <1>9, <2>1 DEF Walks, MakerTidy, OwnsPool
<1>10. CASE Ends(t)
  <2>1. PICK c \in Pools : c = task[t].on
    BY <1>1, CallHasClient
  <2>2. /\ OthersStay(t) /\ task'[t].on = "shared" /\ NeverMade(c)
        /\ UNCHANGED <<origin, conn, idle>>
    BY <1>2, <1>10, <2>1 DEF Ends
  <2>3. /\ \A d \in Clients : d # c => made'[d] = made[d]
        /\ c \in Clients => \/ made[c] = "making" /\ made'[c] = "raised"
                            \/ made[c] # "making" /\ made'[c] = made[c]
    BY <1>1, <2>2, NeverMadeDoes
  <2>4. \A d \in Clients : d # c => Neat(d)'
    BY <1>2, <1>5, <2>2, <2>3
  <2>5. ASSUME c \in Clients, made[c] = "making"
        PROVE  Neat(c)'
    <3>1. ~closed[c] /\ made'[c] = "raised"
      BY <1>1, <2>3, <2>5 DEF MakerAlone
    <3>2. OwnsPool(c) /\ origin[c].owns => idle[c] = 0
      BY <1>1, <1>2, <1>10, <2>1, <2>5, <3>1 DEF Ends, MakerTidy, Framed
    <3> QED BY <2>2, <3>1, <3>2 DEF OwnsPool
  <2>6. ASSUME c \in Clients, made[c] # "making"
        PROVE  Neat(c)'
    BY <1>2, <1>5, <2>2, <2>3, <2>6
  <2> QED BY <1>4, <2>4, <2>5, <2>6
<1>11. CASE Send(t)
  <2>1. PICK c \in Clients : c = task[t].on
    BY <1>11, SendDoes
  <2>2. /\ UNCHANGED <<origin, made, task>> /\ \A u \in Tasks : u # t => conn'[u] = conn[u]
        /\ \A p \in Pools : p # Pool(c) => idle'[p] = idle[p]
        /\ idle'[Pool(c)] = IF idle[Pool(c)] = 0 THEN 0 ELSE idle[Pool(c)] - 1
    BY <1>11, <2>1, SendDoes
  <2>3. OthersStay(t)
    BY <1>1, <2>2 DEF OthersStay, Types
  <2>4. ASSUME NEW d \in Clients, d # c
        PROVE  Neat(d)'
    <3>1. OwnsPool(d) => d # Pool(c)
      BY <1>2, <2>4, OwnPool, SharedPool
    <3> QED BY <1>1, <1>5, <2>1, <2>2, <2>3, <2>4, <3>1
  <2>5. Neat(c)'
    <3>1. CASE OwnsPool(c)
      <4>1. idle'[c] = IF idle[c] = 0 THEN 0 ELSE idle[c] - 1
        BY <2>2, <3>1, OwnPool
      <4>2. made[c] \notin {"no", "raised"}
        BY <1>1, <2>1 DEF MakerAlone
      <4>3. made[c] = "making" => idle[c] <= 1 /\ idle[c] \in Nat
        BY <1>1, <3>1 DEF MakerTidy, Types
      <4>4. made[c] = "making" => idle'[c] = 0
        BY <4>1, <4>3
      <4> QED BY <2>2, <4>2, <4>4
    <3>2. CASE ~OwnsPool(c)
      BY <2>2, <3>2 DEF OwnsPool
    <3> QED BY <3>1, <3>2
  <2> QED BY <1>4, <2>4, <2>5
<1>12. CASE Frees(t)
  <2>1. PICK c \in Clients : c = task[t].on
    BY <1>12, FreesDoes
  <2>2. /\ OthersStay(t) /\ task'[t].on \in {"shared", c} /\ origin' = origin
        /\ task'[t].on = c => task'[t].at # "closing"
        /\ conn'[t] = "none" /\ conn[t] # "none" /\ \A u \in Tasks : u # t => conn'[u] = conn[u]
        /\ \A p \in Pools : p # Pool(c) => idle'[p] = idle[p]
        /\ idle' = idle \/ idle'[Pool(c)] = idle[Pool(c)] + 1
    BY <1>2, <1>12, <2>1, FreesDoes DEF Frees
  <2>3. /\ \A d \in Clients : d # c => made'[d] = made[d]
        /\ \/ made'[c] = made[c]
           \/ made'[c] = "ready"
           \/ made[c] = "making" /\ made'[c] = "raised" /\ idle' = idle
    BY <1>1, <1>12, <2>1, NeverMadeDoes DEF Frees, Types
  <2>4. ASSUME NEW d \in Clients, d # c
        PROVE  Neat(d)'
    <3>1. OwnsPool(d) => d # Pool(c)
      BY <1>2, <2>4, OwnPool, SharedPool
    <3> QED BY <1>1, <1>2, <1>5, <2>2, <2>3, <2>4, <3>1
  <2>5. Neat(c)'
    <3>1. CASE OwnsPool(c)
      <4>1. idle' = idle \/ idle'[c] = idle[c] + 1
        BY <2>2, <3>1, OwnPool
      <4>2. made[c] \notin {"no", "raised"}
        BY <1>1, <2>1 DEF MakerAlone
      <4>3. made[c] = "making" => idle[c] = 0 /\ \A u \in Tasks : task[u].on = c => u = t
        BY <1>1, <2>1, <2>2, <3>1 DEF MakerTidy, MakerAlone
      <4>4. made[c] = "making" => \A u \in Tasks : task'[u].on = c => u = t
        BY <2>1, <2>2, <4>3 DEF OthersStay
      <4>5. made'[c] = "raised" => made[c] = "making" /\ idle' = idle
        BY <2>3, <4>2
      <4>6. made'[c] = "making" => made[c] = "making"
        BY <2>3
      <4>7. made'[c] # "no"
        BY <2>3, <4>2
      <4>8. made[c] = "making" => idle'[c] <= 1
        BY <4>1, <4>3
      <4> QED BY <2>2, <4>3, <4>4, <4>5, <4>6, <4>7, <4>8
    <3>2. CASE ~OwnsPool(c)
      BY <2>2, <3>2 DEF OwnsPool
    <3> QED BY <3>1, <3>2
  <2> QED BY <1>4, <2>4, <2>5
<1>13. CASE CloseManager(t)
  <2>1. \A d \in Clients : Neat(d)'
    BY <1>1, <1>2, <1>5, <1>13, CloseManagerDoes DEF clients
  <2> QED BY <1>4, <2>1
<1> QED BY <1>6, <1>7, <1>8, <1>9, <1>10, <1>11, <1>12, <1>13 DEF Kind

LEMMA ReleasedStep ==
  ASSUME RInv, NEW t \in Tasks, Kind(t)
  PROVE  Released'
<1>1. Types /\ Framed /\ Released /\ Clients \subseteq Pools
  BY DEF RInv, Pools
<1>2. "shared" \notin Clients /\ Idle.on = "shared" /\ Idle.at = "idle"
  BY ConstantsAssumption DEF Idle, Calling
<1> DEFINE Rel(c) ==
      /\ closed[c] => fate[c] # "open"
      /\ OwnsPool(c) /\ Over(c) /\ fate[c] # "revived" =>
           idle[c] = 0 /\ \A u \in Tasks : task[u].on = c => conn[u] # "live"
<1>3. Released <=> \A c \in Clients : Rel(c)
  BY DEF Released
<1>4. Released' <=> \A c \in Clients : Rel(c)'
  BY DEF Released
\* A client that t does not close, and to which it brings no connection.
<1>5. ASSUME NEW c \in Clients, origin' = origin, OthersStay(t),
             task'[t].at # "closing" \/ task'[t].on # c,
             closed'[c] = closed[c], fate'[c] = fate[c],
             OwnsPool(c) => \/ idle'[c] = idle[c]
                            \/ conn[t] = "live" /\ task[t].on = c,
             \A u \in Tasks : u # t => conn'[u] = conn[u] \/ conn'[u] = "cut",
             conn'[t] # "live" \/ task'[t].on # c
      PROVE  Rel(c)'
  <2>1. Over(c)' => Over(c)
    <3>1. Calling("closing", c).at = "closing" /\ Calling("closing", c).on = c
      BY DEF Calling
    <3> QED BY <1>5, <3>1 DEF Over, OthersStay
  <2>2. \A u \in Tasks : task'[u].on = c /\ conn'[u] = "live" => task[u].on = c /\ conn[u] = "live"
    BY <1>5 DEF OthersStay
  <2>3. OwnsPool(c)' <=> OwnsPool(c)
    BY <1>5 DEF OwnsPool
  <2>4. ASSUME OwnsPool(c)', Over(c)', fate'[c] # "revived"
        PROVE  idle'[c] = 0 /\ \A u \in Tasks : task'[u].on = c => conn'[u] # "live"
    <3>1. OwnsPool(c) /\ Over(c) /\ fate[c] # "revived"
      BY <1>5, <2>1, <2>3, <2>4
    <3>2. idle[c] = 0 /\ \A u \in Tasks : task[u].on = c => conn[u] # "live"
      BY <1>1, <3>1 DEF Released
    <3> QED BY <1>5, <2>2, <3>1, <3>2
  <2> QED BY <1>1, <1>5, <2>4 DEF Released
<1>6. ASSUME NEW c \in Clients, Begins(t, c)
      PROVE  Released'
  <2>1. conn[t] = "none" /\ task'[t].at # "closing"
    BY <1>1, <1>6, CallHasClient DEF Begins
  <2> QED BY <1>4, <1>5, <1>6, <2>1 DEF Begins
<1>7. ASSUME NEW c \in Clients, Settles(c)
      PROVE  Released'
  BY <1>1, <1>7 DEF Settles, Released, OwnsPool, Over
<1>8. ASSUME NEW c \in Clients, Closes(t, c)
      PROVE  Released'
  <2>1. /\ OthersStay(t) /\ task'[t].on = c /\ UNCHANGED <<origin, closed, fate>>
        /\ \A u \in Tasks : conn'[u] = conn[u] \/ conn'[u] = "cut"
        /\ OwnsPool(c) => idle'[c] = 0 /\ \A u \in Tasks : task[u].on = c => conn'[u] # "live"
        /\ \A d \in Clients : OwnsPool(d) /\ d # c => idle'[d] = idle[d]
    BY <1>8, CloseRedisDoes DEF Closes
  <2>2. conn[t] = "none"
    BY <1>8, ClosesDoes
  <2>3. Rel(c)'
    <3>1. OwnsPool(c)' <=> OwnsPool(c)
      BY <2>1 DEF OwnsPool
    <3>2. OwnsPool(c) => \A u \in Tasks : task'[u].on = c => conn'[u] # "live"
      BY <2>1, <2>2 DEF OthersStay
    <3> QED BY <1>1, <2>1, <3>1, <3>2 DEF Released
  <2>4. \A d \in Clients : d # c => Rel(d)'
    BY <1>5, <2>1
  <2> QED BY <1>4, <2>3, <2>4
<1>9. CASE Walks(t)
  BY <1>4, <1>5, <1>9 DEF Walks
<1>10. CASE Ends(t)
  <2>1. /\ OthersStay(t) /\ task'[t].on = "shared" /\ task'[t].at = "idle" /\ conn[t] = "none"
        /\ UNCHANGED <<origin, conn, idle>>
    BY <1>2, <1>10 DEF Ends
  <2>2. CASE UNCHANGED <<closed, fate>>
    BY <1>2, <1>4, <1>5, <2>1, <2>2
  <2>3. CASE /\ task[t].at = "closing"
             /\ closed' = [closed EXCEPT ![task[t].on] = TRUE]
             /\ fate' = [fate EXCEPT ![task[t].on] = IF @ = "open" THEN "over" ELSE @]
    <3>1. PICK c \in Clients : c = task[t].on
      BY <1>1, <2>3, CallHasClient
    <3>2. /\ \A d \in Clients : d # c => closed'[d] = closed[d] /\ fate'[d] = fate[d]
          /\ fate'[c] = IF fate[c] = "open" THEN "over" ELSE fate[c]
      BY <1>1, <2>3, <3>1 DEF Types
    <3>3. \A d \in Clients : d # c => Rel(d)'
      BY <1>2, <1>5, <2>1, <3>2
    <3>4. Rel(c)'
      <4>1. task[t] = Calling("closing", c)
        BY <1>1, <2>3, <3>1, CallingFrame DEF Places
      <4>2. Over(c) /\ (fate'[c] # "revived" => fate[c] # "revived") /\ fate'[c] # "open"
        BY <3>2, <4>1 DEF Over
      <4>3. OwnsPool(c)' <=> OwnsPool(c)
        BY <2>1 DEF OwnsPool
      <4>4. \A u \in Tasks : task'[u].on = c => task[u].on = c
        BY <1>2, <2>1 DEF OthersStay
      <4> QED BY <1>1, <2>1, <4>2, <4>3, <4>4 DEF Released
    <3> QED BY <1>4, <3>3, <3>4
  <2> QED BY <1>10, <2>2, <2>3 DEF Ends
<1>11. CASE Send(t)
  <2>1. PICK c \in Clients : c = task[t].on
    BY <1>11, SendDoes
  <2>2. /\ UNCHANGED <<origin, closed, task>> /\ \A u \in Tasks : u # t => conn'[u] = conn[u]
        /\ \A p \in Pools : p # Pool(c) => idle'[p] = idle[p]
        /\ \A d \in Clients : d # c => fate'[d] = fate[d]
        /\ fate'[c] = fate[c] \/ fate'[c] = "revived"
        /\ Over(c) /\ fate[c] # "open" => fate'[c] = "revived"
        /\ (\E u \in Tasks : task[u] = Calling("closing", c)) => fate'[c] = "revived"
        /\ Ready(t)
    BY <1>11, <2>1, SendDoes DEF Send
  <2>3. OthersStay(t) /\ task[t].at # "closing"
    BY <1>1, <2>2 DEF OthersStay, Types, Ready
  <2>4. ASSUME NEW d \in Clients, d # c
        PROVE  Rel(d)'
    <3>1. OwnsPool(d) => d # Pool(c)
      BY <1>2, <2>4, OwnPool, SharedPool
    <3> QED BY <1>1, <1>5, <2>1, <2>2, <2>3, <2>4, <3>1
  <2>5. Rel(c)'
    <3>1. closed[c] => fate[c] # "open"
      BY <1>1 DEF Released
    <3>2. Over(c) => fate'[c] = "revived"
      BY <2>2, <3>1 DEF Over
    <3>3. Over(c)' => Over(c)
      BY <2>2 DEF Over
    <3> QED BY <2>2, <3>1, <3>2, <3>3
  <2> QED BY <1>4, <2>4, <2>5
<1>12. CASE Frees(t)
  <2>1. PICK c \in Clients : c = task[t].on
    BY <1>12, FreesDoes
  <2>2. /\ OthersStay(t) /\ task'[t].at # "closing" /\ UNCHANGED <<origin, closed, fate>>
        /\ conn'[t] = "none" /\ \A u \in Tasks : u # t => conn'[u] = conn[u]
        /\ \A p \in Pools : p # Pool(c) => idle'[p] = idle[p]
        /\ idle' = idle \/ conn[t] = "live"
    BY <1>2, <1>12, <2>1, FreesDoes DEF Frees
  <2>3. ASSUME NEW d \in Clients
        PROVE  Rel(d)'
    <3>1. OwnsPool(d) /\ d # c => d # Pool(c)
      BY <1>2, OwnPool, SharedPool
    <3>2. OwnsPool(d) => \/ idle'[d] = idle[d]
                         \/ conn[t] = "live" /\ task[t].on = d
      BY <1>1, <2>1, <2>2, <3>1
    <3> QED BY <1>5, <2>2, <3>2
  <2> QED BY <1>4, <2>3
<1>13. CASE CloseManager(t)
  <2>1. \A d \in Clients : Rel(d)'
    <3>1. conn'[t] # "live"
      BY <1>1, <1>13, CloseManagerDoes, CallHasClient
    <3> QED BY <1>2, <1>5, <1>13, <3>1, CloseManagerDoes DEF clients, others
  <2> QED BY <1>4, <2>1
<1> QED BY <1>6, <1>7, <1>8, <1>9, <1>10, <1>11, <1>12, <1>13 DEF Kind

LEMMA RInvInvariant == Spec => []RInv
<1>1. Init => RInv
  <2> SUFFICES ASSUME Init PROVE RInv
    OBVIOUS
  <2>1. Types
    <3>1. Idle \in [at : Places, on : Pools]
      BY DEF Idle, Calling, Pools, Places
    <3>2. faults \in 0..MaxFaults
      BY ConstantsAssumption DEF Init
    <3> QED BY <3>1, <3>2 DEF Init, Types
  <2>2. /\ \A t \in Tasks : task[t].on = "shared" /\ task[t].at = "idle" /\ conn[t] = "none"
        /\ \A c \in Clients : made[c] = "no" /\ ~closed[c] /\ idle[c] = 0 /\ c # "shared"
    BY ConstantsAssumption DEF Init, Idle, Calling, Pools
  <2>3. \A c \in Clients : ~Over(c)
    BY <2>2 DEF Over, Calling
  <2>4. Framed
    BY <2>2 DEF Framed
  <2>5. MakerAlone /\ MakerTidy
    BY <2>2 DEF MakerAlone, MakerTidy
  <2>6. Released
    BY <2>2, <2>3 DEF Released
  <2> QED BY <2>1, <2>4, <2>5, <2>6 DEF RInv
<1>2. RInv /\ [Next]_vars => RInv'
  <2> SUFFICES ASSUME RInv, [Next]_vars PROVE RInv'
    OBVIOUS
  <2>1. CASE UNCHANGED vars
    <3>1. UNCHANGED <<origin, made, closed, task, conn, idle, fate>>
      BY <2>1 DEF vars, clients, others
    <3>2. Framed' /\ MakerAlone' /\ MakerTidy' /\ Released'
      BY <3>1 DEF RInv, Framed, MakerAlone, MakerTidy, Released, Over, OwnsPool, Ready,
                  SupportsStreams
    <3> QED BY <3>2, TypesStep DEF RInv
  <2>2. ASSUME NEW t \in Tasks, Kind(t)
        PROVE  RInv'
    BY <2>2, TypesStep, FramedStep, MakerAloneStep, MakerTidyStep, ReleasedStep DEF RInv
  <2> QED BY <2>1, <2>2, Kinds
<1> QED BY <1>1, <1>2, PTL DEF Spec

-----------------------------------------------------------------------------
\* Nobody has a connection of a pool when none is idle and no task uses one.
LEMMA NoneOpen ==
  ASSUME NEW p \in Pools, idle[p] = 0, \A t \in Tasks : ~(UsedBy(t, p) /\ conn[t] = "live")
  PROVE  OpenIn(p) = 0
<1>1. {t \in Tasks : UsedBy(t, p) /\ conn[t] = "live"} = {}
  OBVIOUS
<1>2. Cardinality({t \in Tasks : UsedBy(t, p) /\ conn[t] = "live"}) = 0
  BY <1>1, FS_EmptySet
<1> QED BY <1>2 DEF OpenIn

\* A making that raises, for whatever reason and however often other tasks use
\* other clients meanwhile, leaves no connection of its client open
\* (QueueClient.from_url, AsyncQueueClient.from_url, close on failure).
THEOREM FailedMakingIsReleased == Spec => []FailedMakingReleases
<1>1. RInv => FailedMakingReleases
  <2> SUFFICES ASSUME RInv, NEW c \in Clients,
                      made[c] = "raised", origin[c].owns, OwnsPool(c)
               PROVE  OpenIn(c) = 0
    BY DEF FailedMakingReleases
  <2>1. idle[c] = 0 /\ \A t \in Tasks : task[t].on # c
    BY DEF RInv, MakerTidy, MakerAlone
  <2>2. \A t \in Tasks : ~UsedBy(t, c)
    BY <2>1, PoolOfUser DEF RInv, UsedBy
  <2>3. c \in Pools
    BY DEF Pools
  <2> QED BY <2>1, <2>2, <2>3, NoneOpen
<1> QED BY <1>1, RInvInvariant, PTL

\* When close() was called and every call on the client is over, none of its
\* connections is open, unless somebody used it during or after the close.
THEOREM ClosedClientIsReleased == Spec => []ClosedIsReleased
<1>1. RInv => ClosedIsReleased
  <2> SUFFICES ASSUME RInv, NEW c \in Clients, closed[c], OwnsPool(c),
                      \A t \in Tasks : task[t].on # c, fate[c] # "revived"
               PROVE  OpenIn(c) = 0
    BY DEF ClosedIsReleased
  <2>1. idle[c] = 0
    BY DEF RInv, Released, Over
  <2>2. \A t \in Tasks : ~UsedBy(t, c)
    BY PoolOfUser DEF RInv, UsedBy
  <2>3. c \in Pools
    BY DEF Pools
  <2> QED BY <2>1, <2>2, <2>3, NoneOpen
<1> QED BY <1>1, RInvInvariant, PTL

-----------------------------------------------------------------------------
(* Nobody is cut off by a stranger.                                        *)

LEMMA CutStep ==
  ASSUME RInv, NEW u \in Tasks, Kind(u),
         NEW t \in Tasks, conn[t] = "live", conn'[t] = "cut"
  PROVE  /\ task[u] # task'[u]
         /\ IF origin[task[t].on].source = "manager"
            THEN task'[u].at = "closing_pool"
            ELSE task'[u] = Calling("closing", task[t].on)
<1>1. ASSUME NEW c \in Clients, Closes(u, c)
      PROVE  /\ task[u].at # task'[u].at
             /\ origin[task[t].on].source # "manager"
             /\ task'[u] = Calling("closing", task[t].on)
  <2>1. task[u].at \in {"idle", "failed"}
    BY <1>1 DEF Closes
  <2>2. /\ task'[u] = Calling("closing", c) /\ task'[u].at = "closing"
        /\ OwnsPool(c) /\ task[t].on = c
    BY <1>1, CloseRedisDoes DEF Closes
  <2> QED BY <2>1, <2>2 DEF OwnsPool
<1>2. CASE CloseManager(u)
  BY <1>2, CloseManagerDoes
<1>3. CASE Send(u)
  BY <1>3, SendDoes
<1>4. CASE Frees(u)
  BY <1>4, FreesDoes
<1>5. ~Walks(u) /\ ~Ends(u) /\ \A c \in Clients : ~Begins(u, c) /\ ~Settles(c)
  BY DEF Walks, Ends, Begins, Settles
<1> QED BY <1>1, <1>2, <1>3, <1>4, <1>5 DEF Kind

\* However many clients share a manager's pool or the process, a running
\* command loses its connection only when its own client is closed or, on a
\* shared pool, when the manager is.
THEOREM OnlyOwnersCut == Spec => CutByOwner
<1> DEFINE Cut ==
      \A t \in Tasks :
        (conn[t] = "live" /\ conn'[t] = "cut") =>
          \E u \in Tasks :
            /\ task[u] # task'[u]
            /\ IF origin[task[t].on].source = "manager"
               THEN task'[u].at = "closing_pool"
               ELSE task'[u] = Calling("closing", task[t].on)
<1>1. RInv /\ [Next]_vars => [Cut]_vars
  <2> SUFFICES ASSUME RInv, [Next]_vars, ~UNCHANGED vars,
                      NEW t \in Tasks, conn[t] = "live", conn'[t] = "cut"
               PROVE  \E u \in Tasks :
                        /\ task[u] # task'[u]
                        /\ IF origin[task[t].on].source = "manager"
                           THEN task'[u].at = "closing_pool"
                           ELSE task'[u] = Calling("closing", task[t].on)
    OBVIOUS
  <2>1. PICK u \in Tasks : Kind(u)
    BY Kinds
  <2> QED BY <2>1, CutStep
<1> QED BY <1>1, RInvInvariant, PTL DEF Spec, CutByOwner

-----------------------------------------------------------------------------
(* How many connections there are.                                         *)

LEMMA LiveIsFinite ==
  ASSUME NEW p
  PROVE  /\ IsFiniteSet(Live(p)) /\ Cardinality(Live(p)) \in Nat
         /\ Cardinality(Tasks) \in Nat /\ Cardinality(Live(p)) <= Cardinality(Tasks)
<1>1. IsFiniteSet(Tasks) /\ Live(p) \subseteq Tasks
  BY ConstantsAssumption DEF Live
<1> QED BY <1>1, FS_Subset, FS_CardinalityType

LEMMA LiveShrinks ==
  ASSUME RInv, RInv', Counted, NEW t \in Tasks, OthersStay(t), origin' = origin,
         \A u \in Tasks : u # t => conn'[u] = conn[u] \/ conn'[u] = "cut",
         conn'[t] # "live",
         \A p \in Pools : idle'[p] <= idle[p]
  PROVE  Counted'
<1> SUFFICES ASSUME NEW p \in Pools
             PROVE  idle'[p] + Cardinality(Live(p)') <= Cardinality(Tasks)
  BY DEF Counted
<1>1. \A c : Pool(c)' = Pool(c)
  BY DEF Pool
<1>2. Live(p)' \subseteq Live(p)
  BY <1>1 DEF Live, UsedBy, OthersStay
<1>3. PICK S : S = Live(p)'
  OBVIOUS
<1>4. Cardinality(S) <= Cardinality(Live(p)) /\ Cardinality(S) \in Nat
  BY <1>2, <1>3, LiveIsFinite, FS_Subset, FS_CardinalityType
<1>5. idle[p] \in Nat /\ idle'[p] \in Nat
  BY DEF RInv, Types
<1>6. idle'[p] <= idle[p] /\ idle[p] + Cardinality(Live(p)) <= Cardinality(Tasks)
  BY DEF Counted
<1>7. Cardinality(Live(p)) \in Nat /\ Cardinality(Tasks) \in Nat
  BY LiveIsFinite
<1> QED BY <1>3, <1>4, <1>5, <1>6, <1>7

LEMMA CountedSend ==
  ASSUME RInv, RInv', Counted, NEW t \in Tasks, Send(t)
  PROVE  Counted'
<1> SUFFICES ASSUME NEW p \in Pools
             PROVE  idle'[p] + Cardinality(Live(p)') <= Cardinality(Tasks)
  BY DEF Counted
<1>1. UNCHANGED <<origin, task>> /\ \A c : Pool(c)' = Pool(c)
  BY SendDoes DEF Pool
<1>2. PICK S : S = Live(p)'
  OBVIOUS
<1>3. conn[t] = "none" /\ conn'[t] = "live" /\ \A u \in Tasks : u # t => conn'[u] = conn[u]
  BY SendDoes
<1>4. t \notin Live(p)
  BY <1>3 DEF Live
<1>5. PICK n, m : n = Cardinality(Live(p)) /\ m = Cardinality(Tasks)
  OBVIOUS
<1>6. /\ n \in Nat /\ m \in Nat /\ idle[p] \in Nat /\ idle'[p] \in Nat
      /\ idle[p] + n <= m
  BY <1>5, LiveIsFinite DEF RInv, Types, Counted
<1>7. CASE p = Pool(task[t].on)
  <2>1. S = Live(p) \cup {t}
    BY <1>1, <1>2, <1>3, <1>7 DEF Live, UsedBy
  <2>2. Cardinality(S) = n + 1
    BY <1>4, <1>5, <2>1, LiveIsFinite, FS_AddElement
  <2>3. S \subseteq Tasks
    BY <2>1 DEF Live
  <2>4. Cardinality(S) <= m
    BY <1>5, <2>3, ConstantsAssumption, FS_Subset
  <2>5. idle'[p] = IF idle[p] = 0 THEN 0 ELSE idle[p] - 1
    BY <1>7, SendDoes
  <2> QED BY <1>2, <1>5, <1>6, <2>2, <2>4, <2>5
<1>8. CASE p # Pool(task[t].on)
  <2>1. S = Live(p)
    BY <1>1, <1>2, <1>3, <1>8 DEF Live, UsedBy
  <2>2. idle'[p] = idle[p]
    BY <1>8, SendDoes
  <2> QED BY <1>2, <1>5, <1>6, <2>1, <2>2
<1> QED BY <1>7, <1>8

LEMMA CountedFrees ==
  ASSUME RInv, RInv', Counted, NEW t \in Tasks, Frees(t)
  PROVE  Counted'
<1>1. OthersStay(t) /\ origin' = origin
  BY DEF Frees
<1>2. conn'[t] = "none" /\ \A u \in Tasks : u # t => conn'[u] = conn[u]
  BY FreesDoes
<1>3. CASE idle' = idle
  <2>1. \A p \in Pools : idle'[p] <= idle[p]
    BY <1>3 DEF RInv, Types
  <2> QED BY <1>1, <1>2, <2>1, LiveShrinks
<1>4. CASE conn[t] = "live" /\ idle'[Pool(task[t].on)] = idle[Pool(task[t].on)] + 1
  <2> SUFFICES ASSUME NEW p \in Pools
               PROVE  idle'[p] + Cardinality(Live(p)') <= Cardinality(Tasks)
    BY DEF Counted
  <2>1. \A c : Pool(c)' = Pool(c)
    BY <1>1 DEF Pool
  <2>2. PICK S : S = Live(p)'
    OBVIOUS
  <2>3. PICK n, m : n = Cardinality(Live(p)) /\ m = Cardinality(Tasks)
    OBVIOUS
  <2>4. /\ n \in Nat /\ m \in Nat /\ idle[p] \in Nat /\ idle'[p] \in Nat
        /\ idle[p] + n <= m
    BY <2>3, LiveIsFinite DEF RInv, Types, Counted
  <2>5. S = Live(p) \ {t}
    BY <1>1, <1>2, <2>1, <2>2 DEF Live, UsedBy, OthersStay
  <2>6. CASE p = Pool(task[t].on)
    <3>1. t \in Live(p)
      BY <1>4, <2>6 DEF Live, UsedBy
    <3>2. Cardinality(S) = n - 1
      BY <2>3, <2>5, <3>1, LiveIsFinite, FS_RemoveElement
    <3> QED BY <1>4, <2>2, <2>3, <2>4, <2>6, <3>2
  <2>7. CASE p # Pool(task[t].on)
    <3>1. t \notin Live(p)
      BY <2>7 DEF Live, UsedBy
    <3>2. S = Live(p)
      BY <2>5, <3>1
    <3>3. idle'[p] = idle[p]
      BY <2>7, FreesDoes
    <3> QED BY <2>2, <2>3, <2>4, <3>2, <3>3
  <2> QED BY <2>6, <2>7
<1> QED BY <1>3, <1>4, FreesDoes

LEMMA CountedStep ==
  ASSUME RInv, RInv', Counted, [Next]_vars
  PROVE  Counted'
<1>1. Types /\ Framed
  BY DEF RInv
<1>2. \A p \in Pools : idle' = idle => idle'[p] <= idle[p]
  BY <1>1 DEF Types
<1>3. CASE UNCHANGED <<origin, task, conn, idle>>
  <2>1. \A p \in Pools : Live(p)' = Live(p)
    BY <1>3 DEF Live, UsedBy, Pool
  <2> QED BY <1>3, <2>1 DEF Counted
<1>4. ASSUME NEW t \in Tasks, Kind(t)
      PROVE  Counted'
  <2>1. ASSUME NEW c \in Clients, Begins(t, c)
        PROVE  Counted'
    <3>1. conn[t] = "none"
      BY <1>1, <2>1, CallHasClient DEF Begins
    <3> QED BY <1>2, <2>1, <3>1, LiveShrinks DEF Begins
  <2>2. ASSUME NEW c \in Clients, Settles(c)
        PROVE  Counted'
    BY <1>3, <2>2 DEF Settles
  <2>3. ASSUME NEW c \in Clients, Closes(t, c)
        PROVE  Counted'
    <3>1. conn[t] = "none"
      BY <2>3, ClosesDoes
    <3> QED BY <2>3, <3>1, CloseRedisDoes, LiveShrinks DEF Closes
  <2>4. CASE Walks(t)
    BY <1>2, <2>4, LiveShrinks DEF Walks
  <2>5. CASE Ends(t)
    BY <1>2, <2>5, LiveShrinks DEF Ends
  <2>6. CASE CloseManager(t)
    <3>1. conn[t] = "none"
      BY <1>1, <2>6, CloseManagerDoes, CallHasClient
    <3> QED BY <2>6, <3>1, CloseManagerDoes, LiveShrinks DEF clients
  <2> QED BY <1>4, <2>1, <2>2, <2>3, <2>4, <2>5, <2>6, CountedSend, CountedFrees DEF Kind
<1> QED BY <1>3, <1>4, Kinds DEF vars, clients

\* Every variable keeps its type; in particular no connection is given back
\* twice, for then a pool would have more of them than tasks ever used at once,
\* and only clients that own their Redis object are closed.
THEOREM TypeCorrect == Spec => []TypeOK
<1>1. Init => Counted
  <2> SUFFICES ASSUME Init, NEW p \in Pools
               PROVE  idle[p] + Cardinality(Live(p)) <= Cardinality(Tasks)
    BY DEF Counted
  <2>1. Live(p) = {}
    BY DEF Init, Live
  <2>2. Cardinality(Live(p)) = 0
    BY <2>1, FS_EmptySet
  <2>3. idle[p] = 0 /\ Cardinality(Tasks) \in Nat
    BY LiveIsFinite DEF Init
  <2> QED BY <2>2, <2>3
<1>2. RInv /\ RInv' /\ Counted /\ [Next]_vars => Counted'
  BY CountedStep
<1>3. RInv /\ Counted => TypeOK
  <2> SUFFICES ASSUME RInv, Counted PROVE TypeOK
    OBVIOUS
  <2>1. \A p \in Pools : idle[p] \in Nat /\ OpenIn(p) <= Cardinality(Tasks)
    BY DEF RInv, Types, Counted, Live, OpenIn
  <2>2. \A c \in Clients : closed[c] => origin[c].owns
    BY DEF RInv, Framed
  <2> QED BY <2>1, <2>2 DEF RInv, Types, TypeOK
<1> QED BY <1>1, <1>2, <1>3, RInvInvariant, PTL DEF Spec
=============================================================================
