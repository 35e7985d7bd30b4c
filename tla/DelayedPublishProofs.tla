------------------------ MODULE DelayedPublishProofs ------------------------
(***************************************************************************)
(* Proofs about DelayedPublish, for any number of calls, schedulers, keys, *)
(* expiries and faults, any limit and any clock.                           *)
(*                                                                         *)
(* What Dedup promises is proved of the calls as deduplication sees them,  *)
(* by the refinement; what the scheduler promises comes from               *)
(* DelayQueueProofs while no command fails, because then every step of the *)
(* composition is one of DelayQueue.                                       *)
(***************************************************************************)
EXTENDS DelayedPublish, DelayQueueProofs

LEMMA TasksWork == Tasks \subseteq Workers /\ Schedulers \subseteq Workers
BY CompositionAssumption

LEMMA Typed ==
  ASSUME PubTypeOK
  PROVE  /\ TypeOK
         /\ pc \in [Tasks -> D!States]
         /\ call \in [Workers -> Frame]
         /\ \A c \in Tasks : call[c].op # "idle" => pc[c] = "publish"
<1>1. \A c \in Tasks : call[c].op # "idle" => call[c] # Idle
  BY IdleFrame
<1> QED BY <1>1 DEF PubTypeOK, D!TypeOK, TypeOK

-----------------------------------------------------------------------------
(* The calls as deduplication sees them. *)

LEMMA Seen ==
  ASSUME PubTypeOK, NEW c \in Tasks
  PROVE  /\ call[c].op = "undo" => pcSeen[c] = "rollback"
         /\ call[c].op # "undo" => pcSeen[c] = pc[c]
         /\ pc[c] # "publish" => call[c] = Idle /\ pcSeen[c] = pc[c]
<1>1. pc[c] # "publish" => call[c] = Idle
  BY DEF PubTypeOK
<1> QED BY <1>1, IdleFrame DEF pcSeen

\* Deduplication sees a call go on when that call alone has changed.
LEMMA SeenGoes ==
  ASSUME NEW c \in Tasks, NEW st,
         \A d \in Tasks : d # c => pc'[d] = pc[d] /\ call'[d] = call[d],
         call'[c].op = "undo" => st = "rollback",
         call'[c].op # "undo" => st = pc'[c]
  PROVE  DedupSeen!Goto(c, st)
<1>1. \A d \in Tasks : pcSeen'[d] = IF d = c THEN st ELSE pcSeen[d]
  BY DEF pcSeen
<1>2. pcSeen = [d \in Tasks |-> pcSeen[d]] /\ pcSeen' = [d \in Tasks |-> pcSeen'[d]]
  BY DEF pcSeen
<1>3. pcSeen' = [pcSeen EXCEPT ![c] = st]
  BY <1>1, <1>2
<1> QED BY <1>3 DEF DedupSeen!Goto

LEMMA SeenStays ==
  ASSUME \A d \in Tasks : /\ call'[d].op = "undo" <=> call[d].op = "undo"
                          /\ call'[d].op # "undo" => pc'[d] = pc[d]
  PROVE  UNCHANGED pcSeen
BY DEF pcSeen

-----------------------------------------------------------------------------
(* Types: the scheduler's variables, and where each call is. *)

\* A step of one call c: what it may do to the pcs and to the frames.
CallMoves(c) ==
  /\ pc' \in [Tasks -> D!States]
  /\ \A d \in Tasks : d # c => pc'[d] = pc[d] /\ call'[d] = call[d]
  /\ call'[c] # Idle => pc'[c] = "publish"

LEMMA PcGoes ==
  ASSUME PubTypeOK, NEW c \in Tasks, NEW st \in D!States, D!Goto(c, st)
  PROVE  /\ pc' \in [Tasks -> D!States]
         /\ pc'[c] = st
         /\ \A d \in Tasks : d # c => pc'[d] = pc[d]
BY Typed DEF D!Goto

LEMMA FrameGoes ==
  ASSUME PubTypeOK, NEW c \in Tasks, NEW f, Goto(c, f)
  PROVE  /\ call'[c] = f
         /\ \A w \in Workers : w # c => call'[w] = call[w]
BY Typed, TasksWork DEF Goto

\* While a call is outside delay(), the scheduler does not change.
LEMMA OutsideMoves ==
  ASSUME PubTypeOK, NEW c \in Tasks, UNCHANGED vars, pc[c] # "publish",
         \E st \in D!States : D!Goto(c, st)
  PROVE  CallMoves(c) /\ TypeOK'
<1>1. TypeOK'
  BY Typed, NextTypes
<1>2. UNCHANGED call /\ call[c] = Idle
  BY Seen DEF vars
<1> QED BY <1>1, <1>2, PcGoes DEF CallMoves

LEMMA StoreMoves ==
  ASSUME PubTypeOK, NEW c \in Tasks, Store(c)
  PROVE  CallMoves(c) /\ TypeOK' /\ [Next]_vars
<1>1. TypeOK /\ pc \in [Tasks -> D!States] /\ c \in Workers
  BY Typed, TasksWork
<1>2. PICK at \in now..MaxTime : Delay(c, c, at)
  BY DEF Store
<1>3. at \in Time
  BY <1>1, ConstantsAssumption DEF TypeOK, Time
<1>4. Next
  BY <1>1, <1>2, <1>3 DEF Next
<1>5. TypeOK'
  BY <1>1, <1>4, NextTypes
<1>6. pc[c] = "publish" /\ UNCHANGED pc
  BY DEF Store, dedupVars
<1>7. \A d \in Tasks : d # c => call'[d] = call[d]
  BY <1>2, FrameGoes, TasksWork DEF Delay
<1> QED BY <1>1, <1>4, <1>5, <1>6, <1>7 DEF CallMoves

LEMMA StoreRaisesMoves ==
  ASSUME PubTypeOK, NEW c \in Tasks, StoreRaises(c)
  PROVE  /\ CallMoves(c) /\ TypeOK'
         /\ UNCHANGED call /\ call[c] = Idle /\ pc'[c] = "rollback"
<1>1. TypeOK /\ c \in Workers
  BY Typed, TasksWork
<1>2. call[c] = Idle /\ UNCHANGED call
  BY DEF StoreRaises, DelayRaises
<1>3. TypeOK'
  <2>1. CASE Fault("refused") /\ UNCHANGED <<zset, payload, now, call, history>>
    BY <1>1, <2>1, Faulting DEF TypeOK, history
  <2>2. ASSUME NEW at \in now..MaxTime, DelayRaises(c, c, at) PROVE TypeOK'
    <3>1. at \in Time
      BY <1>1, ConstantsAssumption DEF TypeOK, Time
    <3>2. Next
      BY <1>1, <2>2, <3>1 DEF Next
    <3> QED BY <1>1, <3>2, NextTypes
  <2> QED BY <2>1, <2>2 DEF StoreRaises
<1>4. D!Goto(c, "rollback") /\ "rollback" \in D!States
  BY DEF StoreRaises, Propagate, D!States
<1> QED BY <1>2, <1>3, <1>4, PcGoes DEF CallMoves

\* The ZADD and its undo are steps of the scheduler's Next.
LEMMA InsideMoves ==
  ASSUME PubTypeOK, NEW c \in Tasks, Enqueue(c) \/ EnqueueRaises(c) \/ Withdraw(c)
  PROVE  /\ CallMoves(c) /\ TypeOK' /\ [Next]_vars
         /\ Enqueue(c) \/ Withdraw(c) => call'[c] = Idle
         /\ EnqueueRaises(c) => call'[c].op = "undo"
         /\ Enqueue(c) \/ EnqueueRaises(c) => call[c].op = "zadd"
         /\ Withdraw(c) => call[c].op = "undo" /\ pc'[c] = "rollback"
         /\ Enqueue(c) => pc'[c] = "returned"
         /\ pc[c] = "publish" /\ (EnqueueRaises(c) => pc'[c] = "publish")
<1>1. TypeOK /\ c \in Workers
  BY Typed, TasksWork
<1>2. Next
  BY <1>1 DEF Enqueue, EnqueueRaises, Withdraw, Next, Step, StepRaises
<1>3. TypeOK'
  BY <1>1, <1>2, NextTypes
<1>4. {"returned", "rollback"} \subseteq D!States
  BY DEF D!States
<1>5. CASE Enqueue(c)
  <2>1. Goto(c, Idle) /\ call[c].op = "zadd" /\ D!Goto(c, "returned")
    BY <1>5 DEF Enqueue, Schedule, D!Publish, D!Return
  <2> QED BY <1>2, <1>3, <1>4, <1>5, <2>1, Typed, PcGoes, FrameGoes, TasksWork
      DEF CallMoves, EnqueueRaises, ScheduleRaises, Withdraw, Undo, UndoRaises
<1>6. CASE EnqueueRaises(c)
  <2>1. /\ Goto(c, Delaying("undo", call[c].env)) /\ call[c].op = "zadd"
        /\ UNCHANGED pc
    BY <1>6 DEF EnqueueRaises, ScheduleRaises
  <2>2. call'[c].op = "undo"
    BY <2>1, FrameGoes DEF Delaying
  <2>3. call'[c] # Idle
    BY <2>2, IdleFrame
  <2>4. ~Enqueue(c) /\ ~Withdraw(c)
    BY <1>1, <2>1, <2>2, <2>3, FrameGoes DEF Enqueue, Schedule, Withdraw, Undo, UndoRaises
  <2> QED BY <1>2, <1>3, <2>1, <2>2, <2>4, Typed, FrameGoes, TasksWork DEF CallMoves
<1>7. CASE Withdraw(c)
  <2>1. Goto(c, Idle) /\ call[c].op = "undo" /\ D!Goto(c, "rollback")
    BY <1>7 DEF Withdraw, Undo, UndoRaises, Propagate
  <2> QED BY <1>2, <1>3, <1>4, <1>7, <2>1, Typed, PcGoes, FrameGoes, TasksWork
      DEF CallMoves, Enqueue, Schedule, EnqueueRaises, ScheduleRaises
<1> QED BY <1>5, <1>6, <1>7

LEMMA DyingMoves ==
  ASSUME PubTypeOK, NEW c \in Tasks, Dies(c)
  PROVE  CallMoves(c) /\ TypeOK' /\ call'[c] = Idle /\ pc'[c] = "failed"
<1>1. TypeOK /\ c \in Workers /\ "failed" \in D!States
  BY Typed, TasksWork DEF D!States
<1>2. D!Goto(c, "failed") /\ Goto(c, Idle)
  BY DEF Dies, D!Crash
<1>3. call' \in [Workers -> Frame]
  BY <1>1, <1>2, Going, IdleFrame
<1>4. TypeOK'
  BY <1>1, <1>3 DEF Dies, TypeOK, history
<1> QED BY <1>1, <1>2, <1>4, PcGoes, FrameGoes, TasksWork DEF CallMoves

\* What a scheduler, the clock or a TTL does leaves every call where it is.
LEMMA OthersMove ==
  ASSUME PubTypeOK,
         \/ /\ \E w \in Schedulers : ScheduleDue(w) \/ Step(w) \/ StepRaises(w)
            /\ UNCHANGED dedupVars
         \/ Tick /\ UNCHANGED dedupVars
         \/ \E k \in DedupKeys : D!Expire(k) /\ UNCHANGED vars
         \/ UNCHANGED allVars
  PROVE  /\ TypeOK' /\ [Next]_vars
         /\ UNCHANGED pc
         /\ \A d \in Tasks : call'[d] = call[d]
<1>1. [Next]_vars /\ UNCHANGED pc
  BY TasksWork DEF Next, dedupVars, allVars, D!Expire
<1>2. TypeOK'
  BY <1>1, Typed, NextTypes
<1>3. ASSUME NEW w \in Schedulers, ScheduleDue(w) \/ Step(w) \/ StepRaises(w)
      PROVE  \A d \in Tasks : call'[d] = call[d]
  <2>1. Moves(w)
    BY <1>3, Typed, TasksWork, Edges
  <2>2. \A d \in Tasks : d \in Workers /\ d # w
    BY TasksWork, CompositionAssumption
  <2> QED BY <2>1, <2>2 DEF Moves
<1>4. (UNCHANGED vars) \/ Tick \/ (UNCHANGED allVars) => UNCHANGED call
  BY DEF vars, allVars, Tick
<1> QED BY <1>1, <1>2, <1>3, <1>4

-----------------------------------------------------------------------------
(* Each step is one that deduplication takes, or one it does not see. *)

LEMMA OutsideRefines ==
  ASSUME PubTypeOK, NEW c \in Tasks, UNCHANGED vars
  PROVE  /\ D!Reserve(c) => DedupSeen!Reserve(c)
         /\ D!Get(c) => DedupSeen!Get(c)
         /\ D!Rollback(c) => DedupSeen!Rollback(c)
         /\ D!ReserveRaises(c) => DedupSeen!ReserveRaises(c)
         /\ D!GetRaises(c) => DedupSeen!GetRaises(c)
         /\ D!RollbackRaises(c) => DedupSeen!RollbackRaises(c)
<1> SUFFICES ASSUME pc[c] # "publish"
             PROVE  /\ D!Reserve(c) => DedupSeen!Reserve(c)
                    /\ D!Get(c) => DedupSeen!Get(c)
                    /\ D!Rollback(c) => DedupSeen!Rollback(c)
                    /\ D!ReserveRaises(c) => DedupSeen!ReserveRaises(c)
                    /\ D!GetRaises(c) => DedupSeen!GetRaises(c)
                    /\ D!RollbackRaises(c) => DedupSeen!RollbackRaises(c)
  BY DEF D!Reserve, D!Get, D!Rollback, D!ReserveRaises, D!GetRaises, D!RollbackRaises
<1>1. UNCHANGED call /\ call[c] = Idle /\ pcSeen[c] = pc[c]
  BY Seen DEF vars
<1>2. ASSUME NEW st \in D!States, D!Goto(c, st)
      PROVE  DedupSeen!Goto(c, st)
  BY <1>1, <1>2, PcGoes, SeenGoes, IdleFrame
<1>3. {"get", "publish", "returned", "failed"} \subseteq D!States
  BY DEF D!States
<1> HIDE DEF pcSeen
<1>4. D!Reserve(c) => DedupSeen!Reserve(c)
  BY <1>1, <1>2, <1>3
  DEF D!Reserve, D!Has, D!Put, DedupSeen!Reserve, DedupSeen!Has, DedupSeen!Put
<1>5. D!Get(c) => DedupSeen!Get(c)
  BY <1>1, <1>2, <1>3
  DEF D!Get, D!Return, D!Has, D!Put,
      DedupSeen!Get, DedupSeen!Return, DedupSeen!Has, DedupSeen!Put
<1>6. D!Rollback(c) => DedupSeen!Rollback(c)
  BY <1>1, <1>2, <1>3
  DEF D!Rollback, D!Unreserve, D!Remove,
      DedupSeen!Rollback, DedupSeen!Unreserve, DedupSeen!Remove
<1>7. D!ReserveRaises(c) => DedupSeen!ReserveRaises(c)
  BY <1>1, <1>2, <1>3
  DEF D!ReserveRaises, D!Raises, D!SetNX, D!Has, D!Put, D!Fault, D!AllFaults,
      DedupSeen!ReserveRaises, DedupSeen!Raises, DedupSeen!SetNX, DedupSeen!Has,
      DedupSeen!Put, DedupSeen!Fault, DedupSeen!AllFaults
<1>8. D!GetRaises(c) => DedupSeen!GetRaises(c)
  BY <1>1, <1>2, <1>3
  DEF D!GetRaises, D!Fault, D!AllFaults,
      DedupSeen!GetRaises, DedupSeen!Fault, DedupSeen!AllFaults
<1>9. D!RollbackRaises(c) => DedupSeen!RollbackRaises(c)
  BY <1>1, <1>2, <1>3
  DEF D!RollbackRaises, D!Raises, D!Unreserve, D!Remove, D!Fault, D!AllFaults,
      DedupSeen!RollbackRaises, DedupSeen!Raises, DedupSeen!Unreserve,
      DedupSeen!Remove, DedupSeen!Fault, DedupSeen!AllFaults
<1> QED BY <1>4, <1>5, <1>6, <1>7, <1>8, <1>9

LEMMA StoreRefines ==
  ASSUME PubTypeOK, NEW c \in Tasks, Store(c)
  PROVE  UNCHANGED DedupSeen!vars
<1>1. PICK at \in now..MaxTime : Delay(c, c, at)
  BY DEF Store
<1>2. \A d \in Tasks : d # c => call'[d] = call[d]
  BY StoreMoves DEF CallMoves
<1>3. call[c] = Idle /\ call'[c] = Delaying("zadd", [task |-> c, at |-> at])
  BY <1>1, FrameGoes DEF Delay
<1>4. call[c].op # "undo" /\ call'[c].op # "undo"
  BY <1>3, IdleFrame DEF Delaying
<1>5. UNCHANGED pcSeen
  BY <1>2, <1>4, SeenStays DEF Store, dedupVars
<1> QED BY <1>5 DEF Store, dedupVars, DedupSeen!vars

LEMMA StoreRaisesRefines ==
  ASSUME PubTypeOK, NEW c \in Tasks, StoreRaises(c)
  PROVE  DedupSeen!PublishRaises(c)
<1>1. /\ call[c] = Idle /\ UNCHANGED call /\ pc'[c] = "rollback" /\ pc[c] = "publish"
      /\ \A d \in Tasks : d # c => pc'[d] = pc[d] /\ call'[d] = call[d]
  BY StoreRaisesMoves DEF CallMoves, StoreRaises
<1>2. DedupSeen!Goto(c, "rollback")
  BY <1>1, SeenGoes, IdleFrame
<1>3. pcSeen[c] = "publish"
  BY <1>1, Seen, IdleFrame
<1>4. /\ D!Fault("refused")
      /\ UNCHANGED <<reserved, answer, enqueued, expiries>>
  BY DEF StoreRaises, Propagate
<1> HIDE DEF pcSeen
<1> QED BY <1>2, <1>3, <1>4
    DEF D!Fault, D!AllFaults, DedupSeen!PublishRaises, DedupSeen!Raises, DedupSeen!Fault,
        DedupSeen!AllFaults

LEMMA EnqueueRefines ==
  ASSUME PubTypeOK, NEW c \in Tasks, Enqueue(c)
  PROVE  DedupSeen!Publish(c)
<1>1. /\ call[c].op = "zadd" /\ call'[c] = Idle /\ pc'[c] = "returned" /\ pc[c] = "publish"
      /\ \A d \in Tasks : d # c => pc'[d] = pc[d] /\ call'[d] = call[d]
  BY InsideMoves DEF CallMoves
<1>2. DedupSeen!Goto(c, "returned")
  BY <1>1, SeenGoes, IdleFrame
<1>3. pcSeen[c] = "publish"
  BY <1>1, Seen
<1>4. D!Publish(c)
  BY DEF Enqueue
<1> HIDE DEF pcSeen
<1> QED BY <1>2, <1>3, <1>4
    DEF D!Publish, D!Return, D!Enqueue, D!Put, DedupSeen!Publish, DedupSeen!Return,
        DedupSeen!Enqueue, DedupSeen!Put

LEMMA EnqueueRaisesRefines ==
  ASSUME PubTypeOK, NEW c \in Tasks, EnqueueRaises(c)
  PROVE  DedupSeen!PublishRaises(c)
<1>1. /\ call[c].op = "zadd" /\ call'[c].op = "undo" /\ pc[c] = "publish"
      /\ \A d \in Tasks : d # c => pc'[d] = pc[d] /\ call'[d] = call[d]
  BY InsideMoves DEF CallMoves
<1>2. DedupSeen!Goto(c, "rollback")
  BY <1>1, SeenGoes
<1>3. pcSeen[c] = "publish"
  BY <1>1, Seen
<1>4. /\ \/ D!Fault("reply_lost") /\ D!Enqueue(c)
         \/ D!Fault("refused") /\ UNCHANGED enqueued
      /\ UNCHANGED <<reserved, answer, expiries>>
  BY DEF EnqueueRaises
<1> HIDE DEF pcSeen
<1> QED BY <1>2, <1>3, <1>4
    DEF D!Fault, D!AllFaults, D!Enqueue, DedupSeen!PublishRaises, DedupSeen!Raises,
        DedupSeen!Fault, DedupSeen!AllFaults, DedupSeen!Enqueue

LEMMA WithdrawRefines ==
  ASSUME PubTypeOK, NEW c \in Tasks, Withdraw(c)
  PROVE  UNCHANGED DedupSeen!vars
<1>1. /\ call[c].op = "undo" /\ call'[c] = Idle /\ pc'[c] = "rollback"
      /\ \A d \in Tasks : d # c => pc'[d] = pc[d] /\ call'[d] = call[d]
  BY InsideMoves DEF CallMoves
<1>2. DedupSeen!Goto(c, "rollback")
  BY <1>1, SeenGoes, IdleFrame
<1>3. pcSeen[c] = "rollback" /\ pcSeen = [d \in Tasks |-> pcSeen[d]]
  BY <1>1 DEF pcSeen
<1>4. UNCHANGED pcSeen
  BY <1>2, <1>3 DEF DedupSeen!Goto
<1>5. UNCHANGED <<reserved, answer, enqueued, expiries, dedupFaults>>
  BY DEF Withdraw, Propagate
<1> QED BY <1>4, <1>5 DEF DedupSeen!vars

LEMMA DiesRefines ==
  ASSUME PubTypeOK, NEW c \in Tasks, Dies(c)
  PROVE  DedupSeen!Crash(c)
<1>1. /\ call'[c] = Idle /\ pc'[c] = "failed"
      /\ \A d \in Tasks : d # c => pc'[d] = pc[d] /\ call'[d] = call[d]
  BY DyingMoves DEF CallMoves
<1>2. DedupSeen!Goto(c, "failed")
  BY <1>1, SeenGoes, IdleFrame
<1>3. pcSeen[c] \in {"get", "publish", "rollback"}
  BY Seen DEF Dies, D!Crash, D!Running
<1>4. D!Fault("crash") /\ UNCHANGED <<reserved, answer, enqueued, expiries>>
  BY DEF Dies, D!Crash
<1> HIDE DEF pcSeen
<1> QED BY <1>2, <1>3, <1>4
    DEF D!Fault, D!AllFaults, DedupSeen!Crash, DedupSeen!Running, DedupSeen!Fault,
        DedupSeen!AllFaults

LEMMA CallRefines ==
  ASSUME PubTypeOK, NEW c \in Tasks
  PROVE  /\ CallStep(c) => DedupSeen!Step(c) \/ UNCHANGED DedupSeen!vars
         /\ CallRaises(c) => DedupSeen!StepRaises(c)
<1>1. ASSUME CallStep(c) PROVE DedupSeen!Step(c) \/ UNCHANGED DedupSeen!vars
  BY <1>1, OutsideRefines, StoreRefines, EnqueueRefines, WithdrawRefines
  DEF CallStep, DedupSeen!Step
<1>2. ASSUME CallRaises(c) PROVE DedupSeen!StepRaises(c)
  BY <1>2, OutsideRefines, StoreRaisesRefines, EnqueueRaisesRefines, DiesRefines
  DEF CallRaises, DedupSeen!StepRaises
<1> QED BY <1>1, <1>2

LEMMA OthersRefine ==
  ASSUME PubTypeOK,
         \/ /\ \E w \in Schedulers : ScheduleDue(w) \/ Step(w) \/ StepRaises(w)
            /\ UNCHANGED dedupVars
         \/ Tick /\ UNCHANGED dedupVars
         \/ \E k \in DedupKeys : D!Expire(k) /\ UNCHANGED vars
         \/ UNCHANGED allVars
  PROVE  (\E k \in DedupKeys : DedupSeen!Expire(k)) \/ UNCHANGED DedupSeen!vars
<1>1. UNCHANGED pcSeen
  BY OthersMove, SeenStays
<1>2. (UNCHANGED dedupVars) \/ (\E k \in DedupKeys : D!Expire(k)) \/ UNCHANGED allVars
  OBVIOUS
<1> QED BY <1>1, <1>2
    DEF allVars, dedupVars, D!Expire, D!Has, D!Remove,
        DedupSeen!Expire, DedupSeen!Has, DedupSeen!Remove, DedupSeen!vars

LEMMA StepRefines ==
  ASSUME PubTypeOK, [PubNext]_allVars
  PROVE  [DedupSeen!Next]_(DedupSeen!vars)
<1>1. CASE \E c \in Tasks : CallStep(c) \/ CallRaises(c)
  BY <1>1, CallRefines DEF DedupSeen!Next
<1>2. CASE ~\E c \in Tasks : CallStep(c) \/ CallRaises(c)
  <2>1. \/ /\ \E w \in Schedulers : ScheduleDue(w) \/ Step(w) \/ StepRaises(w)
           /\ UNCHANGED dedupVars
        \/ Tick /\ UNCHANGED dedupVars
        \/ \E k \in DedupKeys : D!Expire(k) /\ UNCHANGED vars
        \/ UNCHANGED allVars
    BY <1>2 DEF PubNext
  <2> QED BY <2>1, OthersRefine DEF DedupSeen!Next
<1> QED BY <1>1, <1>2

LEMMA InitRefines == PubInit => DedupSeen!Init
<1> SUFFICES ASSUME PubInit PROVE DedupSeen!Init
  OBVIOUS
<1>1. \A c \in Tasks : call[c] = Idle /\ pc[c] = "reserve"
  BY TasksWork DEF PubInit, Init, D!Init
<1>2. pcSeen = [c \in Tasks |-> "reserve"]
  BY <1>1, IdleFrame DEF pcSeen
<1> QED BY <1>2 
    DEF PubInit, D!Init, D!Kinds, D!Nothing, DedupSeen!Init, DedupSeen!Kinds, DedupSeen!Nothing

-----------------------------------------------------------------------------
(* Types: what deduplication sees. *)

LEMMA SeenFaulting ==
  ASSUME DedupSeen!TypeOK, NEW kind, DedupSeen!Fault(kind)
  PROVE  /\ dedupFaults' \in [DedupSeen!Kinds -> Nat]
         /\ DedupSeen!AllFaults' = DedupSeen!AllFaults + 1
         /\ DedupSeen!AllFaults' <= MaxDedupFaults
<1>1. kind \in DedupSeen!Kinds
  BY ConstantsAssumption DEF DedupSeen!Fault, DedupSeen!Kinds
<1>2. /\ dedupFaults' = [dedupFaults EXCEPT ![kind] = @ + 1]
      /\ dedupFaults \in [DedupSeen!Kinds -> Nat]
      /\ DedupSeen!AllFaults < MaxDedupFaults
      /\ MaxDedupFaults \in Nat
  BY CompositionAssumption DEF DedupSeen!Fault, DedupSeen!TypeOK
<1>3. /\ dedupFaults' \in [DedupSeen!Kinds -> Nat]
      /\ dedupFaults'[kind] = dedupFaults[kind] + 1
      /\ \A other \in DedupSeen!Kinds : other # kind => dedupFaults'[other] = dedupFaults[other]
  BY <1>1, <1>2
<1>4. DedupSeen!AllFaults' = DedupSeen!AllFaults + 1
  BY <1>1, <1>2, <1>3 DEF DedupSeen!AllFaults, DedupSeen!Kinds
<1>5. DedupSeen!AllFaults \in Nat
  BY <1>2 DEF DedupSeen!AllFaults, DedupSeen!Kinds
<1> QED BY <1>2, <1>3, <1>4, <1>5

LEMMA SeenCalm ==
  ASSUME DedupSeen!TypeOK, UNCHANGED dedupFaults
  PROVE  /\ dedupFaults' \in [DedupSeen!Kinds -> Nat]
         /\ DedupSeen!AllFaults' = DedupSeen!AllFaults
         /\ DedupSeen!AllFaults' <= MaxDedupFaults
BY DEF DedupSeen!TypeOK, DedupSeen!AllFaults

\* The call that sees itself at from goes on to state to.
SeenEdge(c, from, to) == pcSeen[c] = from /\ DedupSeen!Goto(c, to)

\* What a step of call c may do to the keys.
KeysChange(c) ==
  \/ UNCHANGED reserved
  \/ ~Has(reserved, KeyOf[c]) /\ reserved' = Put(reserved, KeyOf[c], c)
  \/ reserved' = Remove(reserved, KeyOf[c])

\* What it may do to the answers.
AnswersChange(c) ==
  \/ UNCHANGED answer
  \/ answer' = Put(answer, c, c)
  \/ Has(reserved, KeyOf[c]) /\ answer' = Put(answer, c, reserved[KeyOf[c]])

LEMMA KeysTyped ==
  ASSUME DedupSeen!TypeOK, NEW c \in Tasks, KeysChange(c)
  PROVE  /\ DOMAIN reserved' \subseteq DedupKeys
         /\ \A k \in DOMAIN reserved' :
              reserved'[k] \in Tasks /\ KeyOf[reserved'[k]] = k
<1>1. KeyOf[c] \in DedupKeys
  BY CompositionAssumption
<1>2. CASE UNCHANGED reserved
  BY <1>2 DEF DedupSeen!TypeOK
<1>3. CASE reserved' = Put(reserved, KeyOf[c], c)
  <2>1. /\ DOMAIN reserved' = DOMAIN reserved \cup {KeyOf[c]}
        /\ reserved'[KeyOf[c]] = c
        /\ \A j \in DOMAIN reserved : j # KeyOf[c] => reserved'[j] = reserved[j]
    BY <1>3 DEF Put
  <2> QED BY <1>1, <2>1 DEF DedupSeen!TypeOK
<1>4. CASE reserved' = Remove(reserved, KeyOf[c])
  <2>1. /\ DOMAIN reserved' = DOMAIN reserved \ {KeyOf[c]}
        /\ \A j \in DOMAIN reserved : j # KeyOf[c] => reserved'[j] = reserved[j]
    BY <1>4 DEF Remove
  <2> QED BY <2>1 DEF DedupSeen!TypeOK
<1> QED BY <1>2, <1>3, <1>4 DEF KeysChange

LEMMA AnswersTyped ==
  ASSUME DedupSeen!TypeOK, NEW c \in Tasks, AnswersChange(c)
  PROVE  DOMAIN answer' \subseteq Tasks /\ \A d \in DOMAIN answer' : answer'[d] \in Tasks
<1>1. ASSUME NEW id \in Tasks, answer' = Put(answer, c, id)
      PROVE  DOMAIN answer' \subseteq Tasks /\ \A d \in DOMAIN answer' : answer'[d] \in Tasks
  <2>1. /\ DOMAIN answer' = DOMAIN answer \cup {c}
        /\ answer'[c] = id
        /\ \A d \in DOMAIN answer : d # c => answer'[d] = answer[d]
    BY <1>1 DEF Put
  <2> QED BY <1>1, <2>1 DEF DedupSeen!TypeOK
<1>2. Has(reserved, KeyOf[c]) => reserved[KeyOf[c]] \in Tasks
  BY DEF DedupSeen!TypeOK, Has
<1>3. CASE UNCHANGED answer
  BY <1>3 DEF DedupSeen!TypeOK
<1> QED BY <1>1, <1>2, <1>3 DEF AnswersChange

LEMMA SeenSteps ==
  ASSUME NEW c \in Tasks, DedupSeen!Step(c)
  PROVE  /\ UNCHANGED <<dedupFaults, expiries>>
         /\ \/ /\ SeenEdge(c, "reserve", "publish")
               /\ ~Has(reserved, KeyOf[c]) /\ reserved' = Put(reserved, KeyOf[c], c)
               /\ UNCHANGED <<answer, enqueued>>
            \/ /\ SeenEdge(c, "reserve", "get")
               /\ Has(reserved, KeyOf[c])
               /\ UNCHANGED <<reserved, answer, enqueued>>
            \/ /\ SeenEdge(c, "get", "returned")
               /\ Has(reserved, KeyOf[c]) /\ answer' = Put(answer, c, reserved[KeyOf[c]])
               /\ UNCHANGED <<reserved, enqueued>>
            \/ /\ SeenEdge(c, "get", "publish")
               /\ ~Has(reserved, KeyOf[c])
               /\ UNCHANGED <<reserved, answer, enqueued>>
            \/ /\ SeenEdge(c, "publish", "returned")
               /\ enqueued' = enqueued \cup {c} /\ answer' = Put(answer, c, c)
               /\ UNCHANGED reserved
            \/ /\ SeenEdge(c, "rollback", "failed")
               /\ reserved' = Remove(reserved, KeyOf[c])
               /\ UNCHANGED <<answer, enqueued>>
<1> HIDE DEF pcSeen
<1> QED BY DEF DedupSeen!Step, DedupSeen!Reserve, DedupSeen!Get, DedupSeen!Publish,
       DedupSeen!Rollback, DedupSeen!Unreserve, DedupSeen!Return, DedupSeen!Enqueue,
       DedupSeen!Has, DedupSeen!Put, DedupSeen!Remove, Has, Put, Remove, SeenEdge

LEMMA SeenRaises ==
  ASSUME NEW c \in Tasks, DedupSeen!StepRaises(c)
  PROVE  /\ UNCHANGED <<answer, expiries>>
         /\ KeysChange(c)
         /\ enqueued' \subseteq enqueued \cup {c}
         /\ \E kind : DedupSeen!Fault(kind)
         /\ \E st \in {"failed", "rollback"} : DedupSeen!Goto(c, st)
<1> HIDE DEF pcSeen
<1> QED BY DEF DedupSeen!StepRaises, DedupSeen!ReserveRaises, DedupSeen!GetRaises,
       DedupSeen!PublishRaises, DedupSeen!RollbackRaises, DedupSeen!Crash, DedupSeen!Raises,
       DedupSeen!SetNX, DedupSeen!Unreserve, DedupSeen!Enqueue,
       DedupSeen!Has, DedupSeen!Put, DedupSeen!Remove, Has, Put, Remove, KeysChange

LEMMA SeenMoves ==
  ASSUME DedupSeen!TypeOK, NEW c \in Tasks, NEW st, DedupSeen!Goto(c, st)
  PROVE  /\ pcSeen'[c] = st
         /\ \A d \in Tasks : d # c => pcSeen'[d] = pcSeen[d]
         /\ st \in DedupSeen!States => pcSeen' \in [Tasks -> DedupSeen!States]
<1> HIDE DEF pcSeen
<1> QED BY DEF DedupSeen!Goto, DedupSeen!TypeOK

LEMMA SeenStepTyped ==
  ASSUME DedupSeen!TypeOK, NEW c \in Tasks, DedupSeen!Step(c) \/ DedupSeen!StepRaises(c)
  PROVE  DedupSeen!TypeOK'
<1>1. /\ KeysChange(c)
      /\ AnswersChange(c)
      /\ enqueued' \subseteq enqueued \cup {c}
      /\ UNCHANGED expiries
      /\ (UNCHANGED dedupFaults) \/ \E kind : DedupSeen!Fault(kind)
      /\ \E st \in DedupSeen!States : DedupSeen!Goto(c, st)
  <2>1. CASE DedupSeen!Step(c)
    BY <2>1, SeenSteps DEF KeysChange, AnswersChange, SeenEdge, DedupSeen!States
  <2>2. CASE DedupSeen!StepRaises(c)
    BY <2>2, SeenRaises DEF AnswersChange, DedupSeen!States
  <2> QED BY <2>1, <2>2
<1>2. pcSeen' \in [Tasks -> DedupSeen!States]
  BY <1>1, SeenMoves
<1>3. dedupFaults' \in [DedupSeen!Kinds -> Nat] /\ DedupSeen!AllFaults' <= MaxDedupFaults
  BY <1>1, SeenFaulting, SeenCalm
<1>4. enqueued' \subseteq Tasks /\ expiries' \in 0..MaxExpiries
  BY <1>1 DEF DedupSeen!TypeOK
<1>5. /\ DOMAIN reserved' \subseteq DedupKeys
      /\ \A k \in DOMAIN reserved' :
           reserved'[k] \in Tasks /\ KeyOf[reserved'[k]] = k
  BY <1>1, KeysTyped
<1>6. DOMAIN answer' \subseteq Tasks /\ \A d \in DOMAIN answer' : answer'[d] \in Tasks
  BY <1>1, AnswersTyped
<1> HIDE DEF pcSeen
<1> QED BY <1>2, <1>3, <1>4, <1>5, <1>6 DEF DedupSeen!TypeOK

LEMMA SeenExpireTyped ==
  ASSUME DedupSeen!TypeOK, NEW k \in DedupKeys, DedupSeen!Expire(k)
  PROVE  DedupSeen!TypeOK'
<1>1. /\ DOMAIN reserved' = DOMAIN reserved \ {k}
      /\ \A j \in DOMAIN reserved : j # k => reserved'[j] = reserved[j]
  BY DEF DedupSeen!Expire, DedupSeen!Remove
<1>2. expiries' \in 0..MaxExpiries
  BY CompositionAssumption DEF DedupSeen!TypeOK, DedupSeen!Expire
<1>3. /\ UNCHANGED <<pcSeen, answer, enqueued, dedupFaults>>
      /\ dedupFaults' \in [DedupSeen!Kinds -> Nat]
      /\ DedupSeen!AllFaults' <= MaxDedupFaults
  BY SeenCalm DEF DedupSeen!Expire
<1> HIDE DEF pcSeen
<1> QED BY <1>1, <1>2, <1>3 DEF DedupSeen!TypeOK

LEMMA SeenNextTyped ==
  ASSUME DedupSeen!TypeOK, [DedupSeen!Next]_(DedupSeen!vars)
  PROVE  DedupSeen!TypeOK'
<1>1. ASSUME UNCHANGED DedupSeen!vars PROVE DedupSeen!TypeOK'
  <2>1. /\ UNCHANGED <<reserved, pcSeen, answer, enqueued, expiries, dedupFaults>>
        /\ dedupFaults' \in [DedupSeen!Kinds -> Nat]
        /\ DedupSeen!AllFaults' <= MaxDedupFaults
    BY <1>1, SeenCalm DEF DedupSeen!vars
  <2> HIDE DEF pcSeen
  <2> QED BY <2>1 DEF DedupSeen!TypeOK
<1> QED BY <1>1, SeenStepTyped, SeenExpireTyped DEF DedupSeen!Next

\* The two views of the calls have the same type.
LEMMA SeenTyped ==
  /\ pc \in [Tasks -> D!States] /\ D!TypeOK => DedupSeen!TypeOK
  /\ (pc \in [Tasks -> D!States] /\ DedupSeen!TypeOK => D!TypeOK)'
<1>1. pc \in [Tasks -> D!States] => pcSeen \in [Tasks -> DedupSeen!States]
  BY DEF pcSeen, D!States, DedupSeen!States
<1> HIDE DEF pcSeen
<1> QED BY <1>1
    DEF DedupSeen!TypeOK, D!TypeOK, D!AllFaults, DedupSeen!AllFaults, D!Kinds,
        DedupSeen!Kinds

LEMMA CallKeeps ==
  ASSUME PubTypeOK, NEW c \in Tasks, CallStep(c) \/ CallRaises(c)
  PROVE  CallMoves(c) /\ TypeOK'
<1>1. {"get", "publish", "returned", "failed"} \subseteq D!States
  BY DEF D!States
<1>2. ASSUME UNCHANGED vars,
             \/ D!Reserve(c) \/ D!Get(c) \/ D!Rollback(c)
             \/ D!ReserveRaises(c) \/ D!GetRaises(c) \/ D!RollbackRaises(c)
      PROVE  CallMoves(c) /\ TypeOK'
  <2>1. pc[c] # "publish" /\ \E st \in D!States : D!Goto(c, st)
    BY <1>1, <1>2
    DEF D!Reserve, D!Get, D!Return, D!Rollback, D!ReserveRaises, D!GetRaises, D!RollbackRaises
  <2> QED BY <1>2, <2>1, OutsideMoves
<1> QED BY <1>2, StoreMoves, StoreRaisesMoves, InsideMoves, DyingMoves DEF CallStep, CallRaises

LEMMA InitKeeps == PubInit => PubTypeOK
<1> SUFFICES ASSUME PubInit PROVE PubTypeOK
  OBVIOUS
<1>1. TypeOK
  BY InitTypes DEF PubInit
<1>2. \A c \in Tasks : call[c] = Idle
  BY TasksWork DEF PubInit, Init
<1>3. D!TypeOK
  BY CompositionAssumption
  DEF PubInit, D!Init, D!TypeOK, D!Nothing, D!States, D!AllFaults, D!Kinds
<1> QED BY <1>1, <1>2, <1>3 DEF PubTypeOK

LEMMA NextKeeps == PubTypeOK /\ [PubNext]_allVars => PubTypeOK'
<1> SUFFICES ASSUME PubTypeOK, [PubNext]_allVars PROVE PubTypeOK'
  OBVIOUS
<1>1. DedupSeen!TypeOK
  BY Typed, SeenTyped DEF PubTypeOK
<1>2. DedupSeen!TypeOK'
  BY <1>1, StepRefines, SeenNextTyped
<1>3. /\ TypeOK'
      /\ pc' \in [Tasks -> D!States]
      /\ \A d \in Tasks : call'[d] # Idle => pc'[d] = "publish"
  <2>1. ASSUME NEW c \in Tasks, CallStep(c) \/ CallRaises(c)
        PROVE  /\ TypeOK'
               /\ pc' \in [Tasks -> D!States]
               /\ \A d \in Tasks : call'[d] # Idle => pc'[d] = "publish"
    BY <2>1, CallKeeps DEF CallMoves, PubTypeOK
  <2>2. CASE ~\E c \in Tasks : CallStep(c) \/ CallRaises(c)
    <3>1. \/ /\ \E w \in Schedulers : ScheduleDue(w) \/ Step(w) \/ StepRaises(w)
             /\ UNCHANGED dedupVars
          \/ Tick /\ UNCHANGED dedupVars
          \/ \E k \in DedupKeys : D!Expire(k) /\ UNCHANGED vars
          \/ UNCHANGED allVars
      BY <2>2 DEF PubNext
    <3>2. TypeOK' /\ UNCHANGED pc /\ \A d \in Tasks : call'[d] = call[d]
      BY <3>1, OthersMove
    <3> QED BY <3>2, Typed DEF PubTypeOK
  <2> QED BY <2>1, <2>2
<1>4. D!TypeOK'
  BY <1>2, <1>3, SeenTyped
<1> QED BY <1>3, <1>4 DEF PubTypeOK

\* Every variable of a delayed publish with a dedup key keeps its type, and a
\* call is inside delay() only between its reservation and its rollback.
THEOREM PublishTypes == PubSpec => []PubTypeOK
BY InitKeeps, NextKeeps, PTL DEF PubSpec

\* delay(), its undo and all that can raise inside it are for deduplication one
\* publish that succeeds, is refused or loses its reply: every behaviour of
\* delayed publishing is one of Dedup.
THEOREM DelayedPublishImplementsDedup == PubSpec => ImplementsDedup
<1>1. PubTypeOK /\ [PubNext]_allVars => [DedupSeen!Next]_(DedupSeen!vars)
  BY StepRefines
<1> QED BY <1>1, InitRefines, PublishTypes, PTL DEF PubSpec, ImplementsDedup, DedupSeen!Spec

-----------------------------------------------------------------------------
(* Without faults every step is one of the scheduler's. *)

LEMMA FaultsSeen ==
  /\ D!AllFaults = DedupSeen!AllFaults
  /\ D!AllFaults' = DedupSeen!AllFaults'
BY DEF D!AllFaults, DedupSeen!AllFaults

\* Faults only add up, and a call raises only at one.
LEMMA CalmBefore ==
  ASSUME PubTypeOK, [PubNext]_allVars, NoFault'
  PROVE  NoFault /\ \A c \in Tasks : ~CallRaises(c) /\ ~DedupSeen!StepRaises(c)
<1>1. /\ DedupSeen!TypeOK
      /\ faults \in Nat
      /\ D!AllFaults' = 0 /\ faults' = 0
  BY Typed, SeenTyped DEF PubTypeOK, TypeOK, NoFault
<1>2. DedupSeen!AllFaults \in Nat
  BY <1>1 DEF DedupSeen!TypeOK, DedupSeen!AllFaults, DedupSeen!Kinds
<1>3. ASSUME NEW c \in Tasks, DedupSeen!StepRaises(c) PROVE FALSE
  <2>1. PICK kind : DedupSeen!Fault(kind)
    BY <1>3, SeenRaises
  <2>2. DedupSeen!AllFaults' = DedupSeen!AllFaults + 1
    BY <1>1, <2>1, SeenFaulting
  <2> QED BY <1>1, <1>2, <2>2, FaultsSeen
<1>4. \A c \in Tasks : ~CallRaises(c)
  BY <1>3, CallRefines
<1>5. UNCHANGED dedupFaults
  <2>1. ASSUME NEW c \in Tasks, DedupSeen!Step(c) PROVE UNCHANGED dedupFaults
    BY <2>1, SeenSteps
  <2>2. ASSUME NEW k \in DedupKeys, DedupSeen!Expire(k) PROVE UNCHANGED dedupFaults
    BY <2>2 DEF DedupSeen!Expire
  <2>3. ASSUME UNCHANGED DedupSeen!vars PROVE UNCHANGED dedupFaults
    BY <2>3 DEF DedupSeen!vars
  <2>4. [DedupSeen!Next]_(DedupSeen!vars)
    BY StepRefines
  <2> QED BY <1>3, <2>1, <2>2, <2>3, <2>4 DEF DedupSeen!Next
<1>6. D!AllFaults = 0
  BY <1>1, <1>5 DEF D!AllFaults
<1>7. faults' = faults \/ faults' = faults + 1
  <2>1. ASSUME NEW c \in Tasks, CallStep(c) PROVE faults' = faults \/ faults' = faults + 1
    BY <2>1 DEF CallStep, vars, Store, Delay, Enqueue, Schedule, Withdraw, Undo, UndoRaises,
       Raises, Fault
  <2>2. CASE [Next]_vars
    <3>1. TypeOK
      BY Typed
    <3>2. ASSUME NEW w \in Workers, Edge(w) PROVE faults' = faults \/ faults' = faults + 1
      BY <3>2, EdgeEffects DEF Calm, Faulty
    <3>3. ASSUME NEW w \in Workers, NEW t \in Tasks, NEW at \in Time, Asks(w, t, at)
          PROVE  faults' = faults \/ faults' = faults + 1
      BY <3>3 DEF Asks, Calm, Faulty
    <3>4. (UNCHANGED vars) \/ Tick => faults' = faults
      BY DEF vars, Tick
    <3> QED BY <2>2, <3>1, <3>2, <3>3, <3>4, Steps
  <2>3. CASE ~\E c \in Tasks : CallStep(c) \/ CallRaises(c)
    <3>1. [Next]_vars
      BY <2>3, OthersMove DEF PubNext
    <3> QED BY <2>2, <3>1
  <2> QED BY <1>4, <2>1, <2>3
<1>8. faults = 0
  BY <1>1, <1>7
<1> QED BY <1>3, <1>4, <1>6, <1>8 DEF NoFault

\* What a step without a fault is: to the scheduler, and to who is inside delay().
LEMMA CalmSteps ==
  ASSUME PubTypeOK, [PubNext]_allVars, NoFault'
  PROVE  /\ [Next]_vars
         /\ \/ UNCHANGED vars /\ enqueued' = enqueued
            \/ Tick /\ enqueued' = enqueued
            \/ /\ enqueued' = enqueued
               /\ \E w \in Schedulers : Moves(w) /\ Quiet /\ Edge(w)
            \/ \E c \in Tasks :
                 \/ /\ enqueued' = enqueued
                    /\ \E at \in Time : Delay(c, c, at) /\ Moves(c) /\ Asks(c, c, at)
                 \/ /\ Moves(c) /\ Quiet /\ Edge(c) /\ call'[c] = Idle
                    /\ \/ call[c].op = "zadd" /\ enqueued' = enqueued \cup {c}
                       \/ call[c].op = "undo" /\ enqueued' = enqueued
<1>1. TypeOK
  BY Typed
<1>2. CASE ~\E c \in Tasks : CallStep(c) \/ CallRaises(c)
  <2>1. \/ /\ \E w \in Schedulers : ScheduleDue(w) \/ Step(w) \/ StepRaises(w)
           /\ UNCHANGED dedupVars
        \/ Tick /\ UNCHANGED dedupVars
        \/ \E k \in DedupKeys : D!Expire(k) /\ UNCHANGED vars
        \/ UNCHANGED allVars
    BY <1>2 DEF PubNext
  <2>2. [Next]_vars
    BY <2>1, OthersMove
  <2>3. enqueued' = enqueued
    BY <2>1 DEF dedupVars, D!Expire, allVars
  <2>4. \A w \in Schedulers :
          ScheduleDue(w) \/ Step(w) \/ StepRaises(w) => Moves(w) /\ Quiet /\ Edge(w)
    BY <1>1, TasksWork, Edges
  <2> QED BY <2>1, <2>2, <2>3, <2>4 DEF allVars
<1>3. ASSUME NEW c \in Tasks, CallStep(c)
      PROVE  /\ [Next]_vars
             /\ \/ UNCHANGED vars /\ enqueued' = enqueued
                \/ /\ enqueued' = enqueued
                   /\ \E at \in Time : Delay(c, c, at) /\ Moves(c) /\ Asks(c, c, at)
                \/ /\ Moves(c) /\ Quiet /\ Edge(c) /\ call'[c] = Idle
                   /\ \/ call[c].op = "zadd" /\ enqueued' = enqueued \cup {c}
                      \/ call[c].op = "undo" /\ enqueued' = enqueued
  <2>1. c \in Workers
    BY TasksWork
  <2>2. CASE Store(c)
    <3>1. PICK at \in now..MaxTime : Delay(c, c, at)
      BY <2>2 DEF Store
    <3>2. at \in Time
      BY <1>1, ConstantsAssumption DEF TypeOK, Time
    <3>3. Moves(c) /\ Asks(c, c, at)
      BY <1>1, <2>1, <3>1, <3>2, AskingEdges
    <3>4. enqueued' = enqueued
      BY <2>2 DEF Store, dedupVars
    <3> QED BY <2>2, <3>1, <3>2, <3>3, <3>4, StoreMoves
  <2>3. CASE Enqueue(c)
    <3>1. Moves(c) /\ Quiet /\ Edge(c)
      BY <1>1, <2>1, <2>3, Edges DEF Enqueue, Step
    <3>2. enqueued' = enqueued \cup {c}
      BY <2>3 DEF Enqueue, D!Publish, D!Enqueue
    <3> QED BY <2>3, <3>1, <3>2, InsideMoves
  <2>4. CASE Withdraw(c)
    <3>1. Moves(c) /\ Quiet /\ Edge(c)
      BY <1>1, <2>1, <2>4, Edges DEF Withdraw, Step, StepRaises
    <3>2. enqueued' = enqueued
      BY <2>4 DEF Withdraw, Propagate
    <3> QED BY <2>4, <3>1, <3>2, InsideMoves
  <2>5. CASE (D!Reserve(c) \/ D!Get(c) \/ D!Rollback(c)) /\ UNCHANGED vars
    BY <2>5 DEF D!Reserve, D!Get, D!Rollback
  <2> QED BY <1>3, <2>2, <2>3, <2>4, <2>5 DEF CallStep
<1> QED BY <1>2, <1>3, CalmBefore

-----------------------------------------------------------------------------
(* The inductive invariant while no command has failed. *)

\* A worker is inside delay() only as the call whose message it stores.
OwnDelay == \A w \in Workers : Waits(w) => w \in Tasks /\ call[w].env.task = w

\* A message that was released or can be was enqueued by its call.
EnqueuedFirst == \A t \in Tasks : Copies(t) > 0 => t \in enqueued

CalmInv == IInv /\ Paid(Further) /\ OwnDelay /\ EnqueuedFirst

LEMMA IdsDiffer == DistinctIds
BY CompositionAssumption DEF DistinctIds

LEMMA NextOwnDelay ==
  ASSUME PubTypeOK, [PubNext]_allVars, NoFault', OwnDelay
  PROVE  OwnDelay'
<1>1. (UNCHANGED vars) \/ Tick => UNCHANGED call
  BY DEF vars, Tick
<1>2. CASE UNCHANGED call
  BY <1>2 DEF OwnDelay, Waits
<1>3. ASSUME NEW w \in Schedulers, Moves(w), Edge(w) PROVE OwnDelay'
  <2>1. w \in Workers /\ w \notin Tasks
    BY TasksWork, CompositionAssumption
  <2>2. ~Waits(w)
    BY <2>1 DEF OwnDelay
  <2>3. ~Waits(w)'
    BY <1>3, <2>2 DEF Waits, Edge, Scans, Schedules, FailsToSchedule, Undoes, Skips, Takes,
       Keeps, TakesUnanswered, Loads, CannotLoad, Publishes, FailsToPublish, PutsBack,
       Deletes, Drops
  <2> QED BY <1>3, <2>3 DEF OwnDelay, Waits, Moves
<1>4. ASSUME NEW c \in Tasks, NEW at \in Time, Delay(c, c, at), Moves(c) PROVE OwnDelay'
  <2>1. call'[c] = Delaying("zadd", [task |-> c, at |-> at])
    BY <1>4, FrameGoes DEF Delay
  <2>2. call'[c].env.task = c
    BY <2>1 DEF Delaying
  <2> QED BY <1>4, <2>2 DEF OwnDelay, Waits, Moves
<1>5. ASSUME NEW c \in Tasks, Moves(c), call'[c] = Idle PROVE OwnDelay'
  BY <1>5, IdleFrame DEF OwnDelay, Waits, Moves
<1> QED BY <1>1, <1>2, <1>3, <1>4, <1>5, CalmSteps

\* Only the ZADD of its call makes a message that can be released.
LEMMA EdgeGains ==
  ASSUME IInv, IInv', NEW w \in Workers, Moves(w), Edge(w), NEW t \in Tasks, Copies(t)' > 0
  PROVE  Copies(t) > 0 \/ (call[w].op = "zadd" /\ call[w].env.task = t)
<1>1. TypeOK /\ TypeOK' /\ Recorded /\ released[t] \in Nat /\ released'[t] \in Nat
  BY DEF IInv, TypeOK
<1>2. Live(IdOf[t]) => Copies(t) > 0
  BY <1>1 DEF Copies
<1>3. CASE Live(IdOf[t])' /\ ~Live(IdOf[t])
  <2>1. /\ Schedules(w) \/ FailsToSchedule(w)
        /\ IdOf[t] = IdOf[call[w].env.task]
    BY <1>1, <1>3, BecomesLive
  <2>2. call[w].op = "zadd"
    BY <2>1 DEF Schedules, FailsToSchedule
  <2> QED BY <1>1, <2>1, <2>2, Known, IdsDiffer DEF DistinctIds
<1>4. CASE released'[t] > 0 /\ released[t] = 0
  <2>1. call[w].op = "publish" /\ Released(call[w].env)
    BY <1>1, <1>4, EdgeEffects
  <2>2. call[w].env.task = t
    BY <1>1, <1>4, <2>1 DEF Released, TypeOK
  <2>3. call[w].id = IdOf[t]
    BY <1>1, <2>1, <2>2, Known
  <2>4. Live(IdOf[t])
    BY <2>1, <2>3 DEF Live, Claimed
  <2> QED BY <1>2, <2>4
<1>5. released[t] > 0 => Copies(t) > 0
  BY <1>1 DEF Copies
<1>6. Live(IdOf[t])' \/ released'[t] > 0
  BY <1>1 DEF Copies
<1> QED BY <1>1, <1>2, <1>3, <1>4, <1>5, <1>6

LEMMA NextEnqueuedFirst ==
  ASSUME PubTypeOK, [PubNext]_allVars, NoFault', IInv, IInv', OwnDelay, EnqueuedFirst
  PROVE  EnqueuedFirst'
<1>1. TypeOK
  BY Typed
<1>2. ASSUME enqueued' = enqueued, (UNCHANGED vars) \/ Tick PROVE EnqueuedFirst'
  <2>1. UNCHANGED <<zset, call, released>>
    BY <1>2 DEF vars, Tick, history
  <2>2. \A t \in Tasks : Copies(t)' = Copies(t)
    BY <2>1 DEF Copies, Live, Claimed, Has
  <2> QED BY <1>2, <2>2 DEF EnqueuedFirst
<1>3. ASSUME NEW c \in Tasks, NEW at \in Time, Moves(c), Asks(c, c, at), enqueued' = enqueued
      PROVE  EnqueuedFirst'
  <2>1. \A t \in Tasks : Live(IdOf[t])' <=> Live(IdOf[t])
    BY <1>1, <1>3, TasksWork, AskingLive
  <2>2. \A t \in Tasks : Copies(t)' = Copies(t)
    BY <1>3, <2>1 DEF Copies, Asks
  <2> QED BY <1>3, <2>2 DEF EnqueuedFirst
<1>4. ASSUME NEW w \in Workers, Moves(w), Edge(w), enqueued \subseteq enqueued',
             call[w].op = "zadd" => w \in enqueued'
      PROVE  EnqueuedFirst'
  <2>1. ASSUME NEW t \in Tasks, Copies(t)' > 0 PROVE t \in enqueued'
    <3>1. Copies(t) > 0 \/ (call[w].op = "zadd" /\ call[w].env.task = t)
      BY <1>4, <2>1, EdgeGains
    <3>2. call[w].op = "zadd" => call[w].env.task = w
      BY DEF OwnDelay, Waits
    <3> QED BY <1>4, <3>1, <3>2 DEF EnqueuedFirst
  <2> QED BY <2>1 DEF EnqueuedFirst
<1>5. ASSUME NEW w \in Schedulers, Moves(w), Edge(w), enqueued' = enqueued
      PROVE  EnqueuedFirst'
  <2>1. w \in Workers /\ w \notin Tasks
    BY TasksWork, CompositionAssumption
  <2>2. call[w].op # "zadd"
    BY <2>1 DEF OwnDelay, Waits
  <2> QED BY <1>4, <1>5, <2>1, <2>2
<1>6. ASSUME NEW c \in Tasks, Moves(c), Edge(c),
             \/ call[c].op = "zadd" /\ enqueued' = enqueued \cup {c}
             \/ call[c].op = "undo" /\ enqueued' = enqueued
      PROVE  EnqueuedFirst'
  BY <1>4, <1>6, TasksWork
<1> QED BY <1>2, <1>3, <1>5, <1>6, CalmSteps

LEMMA NextCalmInv ==
  ASSUME PubTypeOK, [PubNext]_allVars, NoFault => CalmInv
  PROVE  (NoFault => CalmInv)'
<1> SUFFICES ASSUME NoFault' PROVE CalmInv'
  OBVIOUS
<1>1. CalmInv /\ [Next]_vars
  BY CalmBefore, CalmSteps
<1>2. IInv'
  BY <1>1, NextInv, IdsDiffer DEF CalmInv
<1>3. Paid(Further)'
  BY <1>1, <1>2, NextCopies, IdsDiffer DEF CalmInv
<1>4. OwnDelay' /\ EnqueuedFirst'
  BY <1>1, <1>2, NextOwnDelay, NextEnqueuedFirst DEF CalmInv
<1> QED BY <1>2, <1>3, <1>4 DEF CalmInv

LEMMA InitCalmInv == PubInit => CalmInv
<1> SUFFICES ASSUME PubInit PROVE CalmInv
  OBVIOUS
<1>1. IInv /\ Paid(Further)
  BY InitInv, InitCopies DEF PubInit
<1>2. OwnDelay
  BY IdleFrame DEF PubInit, Init, OwnDelay, Waits
<1>3. \A t \in Tasks : Copies(t) = 0
  <2>1. \A id : ~Live(id)
    BY IdleFrame DEF PubInit, Init, Live, Claimed, Has, Nothing
  <2> QED BY <2>1 DEF PubInit, Init, Copies
<1> QED BY <1>1, <1>2, <1>3 DEF CalmInv, EnqueuedFirst

-----------------------------------------------------------------------------
(* One call per key, without faults and in one TTL window. *)

OneWindow == NoFault /\ expiries = 0

\* The message of a call is enqueued or is about to be.
SeenComing(id) == id \in enqueued \/ pcSeen[id] = "publish"

\* The key holds the id of the call that publishes for it, and the others find
\* it there.
OneCaller ==
  \A c \in Tasks :
    /\ pcSeen[c] \notin {"rollback", "failed"}
    /\ SeenComing(c) => Has(reserved, KeyOf[c]) /\ reserved[KeyOf[c]] = c
    /\ pcSeen[c] = "get" => Has(reserved, KeyOf[c])

LEMMA StepOneCaller ==
  ASSUME DedupSeen!TypeOK, OneCaller, NEW c \in Tasks, DedupSeen!Step(c)
  PROVE  OneCaller'
<1> HIDE DEF pcSeen
<1>1. \A d \in Tasks :
        /\ pcSeen[d] \notin {"rollback", "failed"}
        /\ SeenComing(d) => KeyOf[d] \in DOMAIN reserved /\ reserved[KeyOf[d]] = d
        /\ pcSeen[d] = "get" => KeyOf[d] \in DOMAIN reserved
  BY DEF OneCaller, Has
<1>2. ASSUME NEW st, DedupSeen!Goto(c, st)
      PROVE  /\ \A d \in Tasks : d # c => pcSeen'[d] = pcSeen[d]
             /\ pcSeen'[c] = st
  BY <1>2, SeenMoves
<1>3. CASE /\ SeenEdge(c, "reserve", "publish")
           /\ ~Has(reserved, KeyOf[c]) /\ reserved' = Put(reserved, KeyOf[c], c)
           /\ UNCHANGED <<answer, enqueued>>
  <2>1. /\ DOMAIN reserved' = DOMAIN reserved \cup {KeyOf[c]}
        /\ reserved'[KeyOf[c]] = c
        /\ \A j \in DOMAIN reserved : reserved'[j] = reserved[j]
    BY <1>3 DEF Put, Has
  <2>2. /\ \A d \in Tasks : d # c =>
             (pcSeen'[d] = pcSeen[d] /\ (SeenComing(d)' <=> SeenComing(d)))
        /\ pcSeen'[c] = "publish"
    BY <1>2, <1>3 DEF SeenEdge, SeenComing
  <2> QED BY <1>1, <1>3, <2>1, <2>2 DEF OneCaller, Has
<1>4. CASE /\ SeenEdge(c, "reserve", "get")
           /\ Has(reserved, KeyOf[c])
           /\ UNCHANGED <<reserved, answer, enqueued>>
  <2>1. /\ \A d \in Tasks : d # c => pcSeen'[d] = pcSeen[d]
        /\ pcSeen'[c] = "get"
        /\ \A d \in Tasks : SeenComing(d)' => SeenComing(d)
    BY <1>2, <1>4 DEF SeenEdge, SeenComing
  <2> QED BY <1>1, <1>4, <2>1 DEF OneCaller, Has
<1>5. CASE /\ SeenEdge(c, "get", "returned")
           /\ UNCHANGED <<reserved, enqueued>>
  <2>1. /\ \A d \in Tasks : d # c => pcSeen'[d] = pcSeen[d]
        /\ pcSeen'[c] = "returned"
        /\ \A d \in Tasks : SeenComing(d)' => SeenComing(d)
    BY <1>2, <1>5 DEF SeenEdge, SeenComing
  <2> QED BY <1>1, <1>5, <2>1 DEF OneCaller, Has
<1>6. ~(pcSeen[c] = "get" /\ ~Has(reserved, KeyOf[c]))
  BY <1>1 DEF Has
<1>7. CASE /\ SeenEdge(c, "publish", "returned")
           /\ enqueued' = enqueued \cup {c}
           /\ UNCHANGED reserved
  <2>1. /\ \A d \in Tasks : d # c => pcSeen'[d] = pcSeen[d]
        /\ pcSeen'[c] = "returned"
        /\ \A d \in Tasks : SeenComing(d)' => SeenComing(d)
        /\ SeenComing(c)
    BY <1>2, <1>7 DEF SeenEdge, SeenComing
  <2> QED BY <1>1, <1>7, <2>1 DEF OneCaller, Has
<1>8. pcSeen[c] # "rollback"
  BY <1>1
<1> QED BY <1>3, <1>4, <1>5, <1>6, <1>7, <1>8, SeenSteps DEF SeenEdge

LEMMA NextOneCaller ==
  ASSUME PubTypeOK, [PubNext]_allVars, OneWindow => OneCaller
  PROVE  (OneWindow => OneCaller)'
<1> SUFFICES ASSUME OneWindow' PROVE OneCaller'
  OBVIOUS
<1>1. NoFault /\ \A c \in Tasks : ~DedupSeen!StepRaises(c)
  BY CalmBefore DEF OneWindow
<1>2. DedupSeen!TypeOK /\ [DedupSeen!Next]_(DedupSeen!vars) /\ expiries' = 0
  BY Typed, SeenTyped, StepRefines DEF PubTypeOK, OneWindow
<1>3. ASSUME UNCHANGED DedupSeen!vars PROVE OneCaller'
  <2>1. UNCHANGED <<reserved, pcSeen, enqueued, expiries>>
    BY <1>3 DEF DedupSeen!vars
  <2> HIDE DEF pcSeen
  <2> QED BY <1>1, <1>2, <2>1 DEF OneWindow, OneCaller, SeenComing, Has
<1>4. ASSUME NEW k \in DedupKeys, DedupSeen!Expire(k) PROVE FALSE
  BY <1>2, <1>4 DEF DedupSeen!Expire, DedupSeen!TypeOK
<1>5. ASSUME NEW c \in Tasks, DedupSeen!Step(c) PROVE OneCaller'
  <2>1. OneCaller
    BY <1>1, <1>2, <1>5, SeenSteps DEF OneWindow
  <2> QED BY <1>2, <1>5, <2>1, StepOneCaller
<1> QED BY <1>1, <1>2, <1>3, <1>4, <1>5 DEF DedupSeen!Next

LEMMA InitOneCaller == PubInit => OneCaller
<1> SUFFICES ASSUME PubInit PROVE OneCaller
  OBVIOUS
<1>1. DedupSeen!Init
  BY InitRefines
<1>2. pcSeen = [c \in Tasks |-> "reserve"] /\ enqueued = {}
  BY <1>1 DEF DedupSeen!Init
<1> HIDE DEF pcSeen
<1> QED BY <1>2 DEF OneCaller, SeenComing

\* A set whose members are all one value has at most one.
LEMMA AtMostOne ==
  ASSUME NEW x, NEW S, S \subseteq {x}
  PROVE  Cardinality(S) <= 1
<1>1. S = {} \/ S = {x}
  OBVIOUS
<1>2. Cardinality({}) = 0 /\ Cardinality({x}) = 1
  BY FS_EmptySet, FS_Singleton
<1>3. Cardinality(S) = 0 \/ Cardinality(S) = 1
  BY <1>1, <1>2
<1> QED BY <1>3

LEMMA OneRelease ==
  ASSUME CalmInv, OneCaller, faults = 0, NEW k \in DedupKeys
  PROVE  /\ Cardinality({c \in Tasks : KeyOf[c] = k /\ released[c] > 0}) <= 1
         /\ \A c \in Tasks : released[c] <= 1
<1>1. TypeOK /\ \A t \in Tasks : released[t] \in Nat /\ Copies(t) \in Nat
  BY CopiesNat DEF CalmInv, IInv, TypeOK
<1>2. Further = {}
  <2>1. IsFiniteSet(Further) /\ Cardinality(Further) <= 0
    BY DEF CalmInv, Paid
  <2>2. Cardinality(Further) \in Nat
    BY <2>1, FS_CardinalityType
  <2>3. Cardinality(Further) = 0
    BY <2>1, <2>2
  <2> QED BY <2>1, <2>3, FS_EmptySet
<1>3. \A t \in Tasks : released[t] <= Copies(t)
  BY <1>1 DEF Copies
<1>4. ASSUME NEW t \in Tasks PROVE released[t] <= 1
  <2>1. ~(2 <= Copies(t))
    <3>1. 2 <= Copies(t) => <<t, Copies(t)>> \in Further
      BY <1>1, FurtherIs
    <3> QED BY <1>2, <3>1
  <2> QED BY <1>1, <1>3, <2>1
<1>5. \A t \in Tasks : released[t] > 0 => reserved[KeyOf[t]] = t
  BY <1>1, <1>3 DEF CalmInv, EnqueuedFirst, OneCaller, SeenComing
<1>6. PICK x : x = reserved[k]
  OBVIOUS
<1>7. {c \in Tasks : KeyOf[c] = k /\ released[c] > 0} \subseteq {x}
  BY <1>5, <1>6
<1> QED BY <1>4, <1>7, AtMostOne

\* As long as no command fails and no TTL ends, delayed publishes with one dedup
\* key release one message once, however many calls race for the key and however
\* many schedulers race for the entry.
THEOREM OneReleasePerKey == PubSpec => []ReleasedOnce
<1>1. PubInit => (NoFault => CalmInv) /\ (OneWindow => OneCaller)
  BY InitCalmInv, InitOneCaller
<1>2. PubTypeOK /\ [PubNext]_allVars /\ (NoFault => CalmInv) /\ (OneWindow => OneCaller)
        => (NoFault => CalmInv)' /\ (OneWindow => OneCaller)'
  BY NextCalmInv, NextOneCaller
<1>3. (NoFault => CalmInv) /\ (OneWindow => OneCaller) => ReleasedOnce
  BY OneRelease DEF ReleasedOnce, OneWindow, NoFault
<1> QED BY <1>1, <1>2, <1>3, PublishTypes, PTL DEF PubSpec
=============================================================================
