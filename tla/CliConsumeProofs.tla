-------------------------- MODULE CliConsumeProofs --------------------------
(***************************************************************************)
(* Proofs about CliConsume, for any number of shells and other workers,    *)
(* any batch size and any number of faults: a process and the client call  *)
(* it is in agree, and no entry of processing is abandoned unless a        *)
(* command failed or a process gave it up.                                 *)
(*                                                                         *)
(* OnlyFailuresStrand is not inductive.  Its Cared counts the Messages     *)
(* that a process has handled already, which die with the process; what    *)
(* the steps preserve is that an entry is known outside the shells or      *)
(* still in the batch of one.                                              *)
(***************************************************************************)
EXTENDS CliConsume, ListLifecycleProofs

-----------------------------------------------------------------------------
(* The inductive invariant. *)

Processes == [phase : Phases, action : Actions \cup {"none"}, batch : Seq(Payload)]

\* What phase a process is in, and what its client does, agree.
Fits(s) ==
  /\ process[s].phase = "consuming" =>
       call[s].op = "consume" /\ Range(process[s].batch) \subseteq call[s].got
  /\ process[s].phase = "pushing" =>
       /\ call[s].op = "push" /\ call[s].todo = <<>>
       /\ process[s].batch # <<>> /\ MovingBy(s) = {Head(process[s].batch).id}
       /\ Range(process[s].batch) \subseteq held[s]
  /\ process[s].phase = "handling" =>
       call[s].op = "idle" /\ Range(process[s].batch) \subseteq held[s]
  /\ process[s].phase = "failed" => call[s].op = "idle"
  /\ process[s].phase = "none" =>
       call[s].op = "idle" /\ process[s] = NoProcess /\ held[s] = {}

\* A worker outside the shells knows p, or a process has still to handle it.
Attended(p) ==
  \/ \E w \in Workers \ Shells : p \in held[w] \cup call[w].got
  \/ \E s \in Shells : p \in Range(process[s].batch)

Looked(p) == p.id \in Unreadable \/ p.id \in dropped \/ Attended(p)

Attention == faults = 0 => \A p \in Range(db["processing"]) : Looked(p)

KInv ==
  /\ JInv
  /\ process \in [Shells -> Processes]
  /\ dropped \subseteq Ids
  /\ \A s \in Shells : Fits(s)
  /\ Attention

-----------------------------------------------------------------------------
(* Batches, processes and what is given up. *)

LEMMA BatchParts ==
  ASSUME NEW b \in Seq(Payload)
  PROVE  /\ <<>> \in Seq(Payload) /\ Range(<<>>) = {}
         /\ b # <<>> => /\ Head(b) \in Range(b) /\ Tail(b) \in Seq(Payload)
                        /\ Range(b) = {Head(b)} \cup Range(Tail(b))
         /\ \A p \in Payload : /\ Append(b, p) \in Seq(Payload)
                               /\ Range(Append(b, p)) = Range(b) \cup {p}
<1>1. <<>> \in Seq(Payload) /\ Range(<<>>) = {}
  BY DEF Range
<1>2. ASSUME b # <<>>
      PROVE  /\ Head(b) \in Range(b) /\ Tail(b) \in Seq(Payload)
             /\ Range(b) = {Head(b)} \cup Range(Tail(b))
  <2>1. /\ Len(b) \in Nat \ {0} /\ DOMAIN b = 1..Len(b)
        /\ Tail(b) \in Seq(Payload) /\ Head(b) = b[1]
        /\ DOMAIN Tail(b) = 1..Len(b) - 1
        /\ \A i \in 1..Len(b) - 1 : Tail(b)[i] = b[i + 1]
    BY <1>2
  <2>2. \A i \in DOMAIN b : i = 1 \/ (i - 1 \in DOMAIN Tail(b) /\ b[i] = Tail(b)[i - 1])
    BY <2>1
  <2>3. \A i \in DOMAIN Tail(b) : i + 1 \in DOMAIN b /\ Tail(b)[i] = b[i + 1]
    BY <2>1
  <2>4. 1 \in DOMAIN b
    BY <2>1
  <2> QED BY <2>1, <2>2, <2>3, <2>4 DEF Range
<1>3. ASSUME NEW p \in Payload
      PROVE  Append(b, p) \in Seq(Payload) /\ Range(Append(b, p)) = Range(b) \cup {p}
  <2>1. /\ Append(b, p) \in Seq(Payload) /\ Len(b) \in Nat /\ DOMAIN b = 1..Len(b)
        /\ DOMAIN Append(b, p) = 1..Len(b) + 1
        /\ Append(b, p)[Len(b) + 1] = p
        /\ \A i \in 1..Len(b) : Append(b, p)[i] = b[i]
    OBVIOUS
  <2>2. \A i \in DOMAIN Append(b, p) : i \in DOMAIN b \/ i = Len(b) + 1
    BY <2>1
  <2>3. \A i \in DOMAIN b : i \in DOMAIN Append(b, p)
    BY <2>1
  <2>4. Len(b) + 1 \in DOMAIN Append(b, p)
    BY <2>1
  <2> QED BY <2>1, <2>2, <2>3, <2>4 DEF Range
<1> QED BY <1>1, <1>2, <1>3

\* Going on to a phase.
LEMMA GotoIs ==
  ASSUME KInv, NEW s \in Shells, NEW ph \in Phases, NEW b \in Seq(Payload), Goto(s, ph, b)
  PROVE  /\ process' \in [Shells -> Processes]
         /\ process'[s].phase = ph /\ process'[s].batch = b
         /\ process'[s].action = process[s].action
         /\ \A v \in Shells : v # s => process'[v] = process[v]
<1> DEFINE r == [phase |-> ph, action |-> process[s].action, batch |-> b]
<1>1. process' = [process EXCEPT ![s] = r] /\ process \in [Shells -> Processes]
  BY DEF Goto, KInv
<1>2. r \in Processes /\ r.phase = ph /\ r.batch = b /\ r.action = process[s].action
  BY <1>1 DEF Processes
<1> HIDE DEF r
<1> QED BY <1>1, <1>2

LEMMA ProcessIs ==
  ASSUME KInv, NEW s \in Shells
  PROVE  /\ process[s].phase \in Phases /\ process[s].batch \in Seq(Payload)
         /\ process[s].action \in Actions \cup {"none"}
         /\ s \in Workers
         /\ Fits(s)
BY ShellsAssumption DEF KInv, Processes

LEMMA GivingUp ==
  ASSUME NEW gone, GiveUp(gone)
  PROVE  /\ dropped' \subseteq IdsIn(db'["processing"])
         /\ (dropped \cup gone) \cap IdsIn(db'["processing"]) \subseteq dropped'
BY DEF GiveUp

LEMMA ListedIds ==
  ASSUME JInv, NEW k \in Keys
  PROVE  IdsIn(db[k]) = {p.id : p \in Range(db[k])} /\ IdsIn(db[k]) \subseteq Ids
<1>1. db[k] \in Seq(Payload)
  BY DEF JInv, IInv, TypeOK
<1>2. \A i \in DOMAIN db[k] : db[k][i] \in Payload
  BY <1>1
<1>3. \A p \in Payload : p.id \in Ids
  BY DEF Payload
<1> QED BY <1>2, <1>3 DEF IdsIn, Range

\* The Messages of another worker stay, and no one forgets any without a fault.
LEMMA HeldElsewhere ==
  ASSUME TypeOK, NEW w \in Workers, WorkerNext(w)
  PROVE  /\ \A v \in Workers : v # w => held'[v] = held[v]
         /\ faults' = faults => held[w] \subseteq held'[w]
<1>1. \/ held' = held
      \/ \E S : held' = [held EXCEPT ![w] = @ \cup S]
      \/ held' = [held EXCEPT ![w] = {}] /\ faults' = faults + 1
  <2>1. CASE \/ \E n \in 1..MaxBatch : Consume(w, n)
             \/ Step(w)
    BY <2>1 DEF Consume, Step, MoveToProcessing, ConsumeTimesOut, Push, RecoverNext, Return
  <2>2. CASE \/ \E p \in held[w] : Ack(w, p) \/ Retry(w, p) \/ RequeueDead(w, p)
             \/ \E p \in held[w], requeue \in BOOLEAN : Nack(w, p, requeue)
             \/ \E p \in held[w], key \in {"processing", "dead"} :
                  RemovalReplyLost(w, key, p)
    BY <2>2 DEF Ack, Retry, RequeueDead, Nack, RemovalReplyLost, StartMove
  <2>3. CASE DeadLetters(w) \/ RecoverStale(w) \/ ConsumeRaises(w) \/ PushRaises(w)
               \/ RecoverRaises(w) \/ Crash(w)
    BY <2>3 DEF DeadLetters, RecoverStale, ConsumeRaises, PushRaises, RecoverRaises, Crash,
                Fault
  <2> QED BY <2>1, <2>2, <2>3 DEF WorkerNext
<1>2. faults \in Nat
  BY ConstantsAssumption DEF TypeOK
<1> QED BY <1>1, <1>2 DEF TypeOK

\* A process whose worker does nothing still fits.
LEMMA FitsElsewhere ==
  ASSUME NEW s \in Shells, Fits(s), process'[s] = process[s],
         call'[s] = call[s], held'[s] = held[s]
  PROVE  Fits(s)'
BY DEF Fits, MovingBy

-----------------------------------------------------------------------------
(* What a step must show. *)

\* A step without a fault that forgets no entry.
Keeps ==
  /\ faults' = faults
  /\ \A p \in Range(db'["processing"]) :
       /\ p \in Range(db["processing"]) \/ p.id \in Unreadable \/ Attended(p)'
       /\ p \in Range(db["processing"]) /\ Attended(p) =>
            Attended(p)' \/ p.id \in dropped'

LEMMA KInvKept ==
  ASSUME KInv, JInv', process' \in [Shells -> Processes],
         \A s \in Shells : Fits(s)',
         NEW gone, GiveUp(gone),
         Faulty \/ Keeps
  PROVE  KInv'
<1>1. "processing" \in Keys
  BY DEF Keys
<1>2. JInv' => /\ IdsIn(db'["processing"]) = {p.id : p \in Range(db'["processing"])}
               /\ IdsIn(db'["processing"]) \subseteq Ids
  <2>1. \A k \in Keys : /\ db'[k] \in Seq(Payload)
                        /\ \A i \in DOMAIN db'[k] : db'[k][i] \in Payload
    <3>1. db' \in [Keys -> Seq(Payload)]
      BY DEF JInv, IInv, TypeOK
    <3>2. \A k \in Keys : db'[k] \in Seq(Payload)
      BY <3>1
    <3> QED BY <3>2
  <2>2. \A p \in Payload : p.id \in Ids
    BY DEF Payload
  <2> QED BY <1>1, <2>1, <2>2 DEF IdsIn, Range
<1>3. dropped' \subseteq Ids
  BY <1>2, GivingUp
<1>4. Attention'
  <2>1. CASE Faulty
    <3>1. faults \in Nat /\ faults' = faults + 1
      BY <2>1, ConstantsAssumption DEF KInv, JInv, IInv, TypeOK, Faulty
    <3> QED BY <3>1 DEF Attention
  <2>2. CASE Keeps
    <3> SUFFICES ASSUME faults' = 0, NEW p \in Range(db'["processing"])
                 PROVE  Looked(p)'
      BY DEF Attention
    <3>1. CASE p \notin Range(db["processing"])
      BY <2>2, <3>1 DEF Keeps, Looked
    <3>2. CASE p \in Range(db["processing"])
      <4>1. Looked(p)
        BY <2>2, <3>2 DEF Keeps, KInv, Attention
      <4>2. p.id \in IdsIn(db'["processing"])
        BY <1>2
      <4>3. p.id \in dropped => p.id \in dropped'
        BY <4>2, GivingUp
      <4> QED BY <2>2, <3>2, <4>1, <4>3 DEF Keeps, Looked
    <3> QED BY <3>1, <3>2
  <2> QED BY <2>1, <2>2
<1> QED BY <1>3, <1>4 DEF KInv

-----------------------------------------------------------------------------
(* The application's steps and those of workers outside the shells. *)

LEMMA PublishKeepsAttention ==
  ASSUME KInv, NEW id \in Ids, Publish(id), process' = process, GiveUp({})
  PROVE  KInv'
<1>1. JInv'
  BY JInvStep DEF KInv, Next
<1>2. UNCHANGED <<call, held, faults>> /\ db'["processing"] = db["processing"]
  <2>1. db' = [db EXCEPT !["ready"] = <<[id |-> id, attempts |-> 0]>> \o @]
        /\ db \in [Keys -> Seq(Payload)]
    BY DEF Publish, LPush, KInv, JInv, IInv, TypeOK
  <2> QED BY <2>1 DEF Publish, Keys
<1>3. \A s \in Shells : Fits(s)'
  BY <1>2, FitsElsewhere DEF KInv
<1>4. Keeps
  BY <1>2 DEF Keeps, Attended
<1>5. process' \in [Shells -> Processes]
  BY DEF KInv
<1> QED BY <1>1, <1>3, <1>4, <1>5, KInvKept

LEMMA WorkerKeepsAttention ==
  ASSUME KInv, NEW w \in Workers \ Shells, WorkerNext(w), process' = process,
         GiveUp(Forgotten(w))
  PROVE  KInv'
<1>1. [Next]_vars
  BY DEF Next
<1>2. JInv'
  BY <1>1, JInvStep DEF KInv
<1>3. Kind(w)
  BY ConsumeKinds, HandleKinds, PushKinds, RecoverKinds DEF KInv, WorkerNext, Step
<1>4. /\ \A v \in Workers : v # w => held'[v] = held[v]
      /\ faults' = faults => held[w] \subseteq held'[w]
  BY HeldElsewhere DEF KInv, JInv, IInv
<1>5. \A v \in Workers : v # w => call'[v] = call[v]
  BY <1>3 DEF Kind, OnlyMoves
<1>6. \A s \in Shells : Fits(s)'
  BY <1>4, <1>5, ShellsAssumption, FitsElsewhere DEF KInv
<1>7. process' \in [Shells -> Processes]
  BY DEF KInv
<1>8. \/ Faulty
      \/ /\ faults' = faults
         /\ \A p \in Range(db'["processing"]) :
              \/ p \in Range(db["processing"])
              \/ p.id \in Unreadable
              \/ p \in call'[w].got \cup held'[w]
  <2>1. db \in Lists /\ OneCopy(db)
    BY SingleCopyParts DEF KInv, JInv, IInv, Placed, TypeOK, Lists
  <2>2. CASE Rests(w)
    BY <2>2 DEF Rests, Remembers
  <2>3. CASE Delivers(w)
    <3>1. \A p \in Range(db'["processing"]) :
            p \in Range(db["processing"]) \/ p = Last(db["ready"])
      BY <2>1, <2>3, LMoveEntries DEF Delivers, TakeReady
    <3> QED BY <2>3, <3>1 DEF Delivers, Remembers
  <2>4. ASSUME NEW key \in {"processing", "dead"}, NEW p \in Payload, Takes(w, key, p)
        PROVE  /\ Faulty \/ faults' = faults
               /\ Range(db'["processing"]) \subseteq Range(db["processing"])
    BY <2>1, <2>4, LRemEntries DEF Takes, Remembers, Removes, Keys
  <2>5. ASSUME NEW key \in {"ready", "dead"}, NEW p \in Payload, Puts(w, key, p)
        PROVE  /\ Faulty \/ faults' = faults
               /\ Range(db'["processing"]) \subseteq Range(db["processing"])
    BY <2>1, <2>5, LPushEntries DEF Puts, Remembers, Keys
  <2> QED BY <1>3, <2>2, <2>3, <2>4, <2>5 DEF Kind
<1>9. CASE faults' = faults /\ ~Faulty
  <2>1. ASSUME NEW p \in Range(db'["processing"]), Attended(p)
        PROVE  Attended(p)' \/ p.id \in dropped'
    <3>1. CASE \E s \in Shells : p \in Range(process[s].batch)
      BY <3>1 DEF Attended
    <3>2. CASE \E v \in Workers \ Shells : v # w /\ p \in held[v] \cup call[v].got
      BY <3>2, <1>4, <1>5 DEF Attended
    <3>3. CASE p \in held[w]
      BY <3>3, <1>4, <1>9 DEF Attended
    <3>4. CASE p \in call[w].got
      <4>1. p \in call'[w].got \cup held'[w] \/ p.id \in Forgotten(w)
        BY <3>4 DEF Forgotten
      <4>2. p.id \in IdsIn(db'["processing"])
        BY DEF IdsIn, Range
      <4> QED BY <4>1, <4>2, GivingUp DEF Attended
    <3> QED BY <2>1, <3>1, <3>2, <3>3, <3>4 DEF Attended
  <2>2. \A p \in Range(db'["processing"]) :
          p \in Range(db["processing"]) \/ p.id \in Unreadable \/ Attended(p)'
    BY <1>8, <1>9 DEF Attended
  <2>3. Keeps
    BY <1>9, <2>1, <2>2 DEF Keeps
  <2> QED BY <1>2, <1>6, <1>7, <2>3, KInvKept
<1>10. CASE Faulty
  BY <1>2, <1>6, <1>7, <1>10, KInvKept
<1> QED BY <1>8, <1>9, <1>10

-----------------------------------------------------------------------------
(* The steps of a process. *)

\* It moves alone, and hands on or gives up what it had to handle.
LEMMA ShellKept ==
  ASSUME KInv, NEW s \in Shells, JInv', OnlyMoves(s),
         \A v \in Workers : v # s => held'[v] = held[v],
         process' \in [Shells -> Processes],
         \A v \in Shells : v # s => process'[v] = process[v],
         Fits(s)', NEW gone, GiveUp(gone),
         \/ Faulty
         \/ /\ faults' = faults
            /\ \A p \in Range(db'["processing"]) :
                 /\ \/ p \in Range(db["processing"])
                    \/ p.id \in Unreadable
                    \/ p \in Range(process'[s].batch)
                 /\ p \in Range(process[s].batch) =>
                      p \in Range(process'[s].batch) \/ p.id \in gone
  PROVE  KInv'
<1>1. \A v \in Workers : v # s => call'[v] = call[v]
  BY DEF OnlyMoves
<1>2. \A v \in Shells : Fits(v)'
  <2>1. ASSUME NEW v \in Shells, v # s
        PROVE  Fits(v)'
    BY <1>1, <2>1, ShellsAssumption, FitsElsewhere DEF KInv
  <2> QED BY <2>1
<1>3. CASE Faulty
  BY <1>2, <1>3, KInvKept
<1>4. CASE /\ faults' = faults
           /\ \A p \in Range(db'["processing"]) :
                /\ \/ p \in Range(db["processing"])
                   \/ p.id \in Unreadable
                   \/ p \in Range(process'[s].batch)
                /\ p \in Range(process[s].batch) =>
                     p \in Range(process'[s].batch) \/ p.id \in gone
  <2>1. ASSUME NEW p \in Range(db'["processing"]), Attended(p)
        PROVE  Attended(p)' \/ p.id \in dropped'
    <3>1. CASE \E v \in Workers \ Shells : p \in held[v] \cup call[v].got
      BY <3>1, <1>1 DEF Attended
    <3>2. CASE \E v \in Shells : v # s /\ p \in Range(process[v].batch)
      BY <3>2 DEF Attended
    <3>3. CASE p \in Range(process[s].batch)
      <4>1. p.id \in IdsIn(db'["processing"])
        BY DEF IdsIn, Range
      <4> QED BY <4>1, <3>3, <1>4, GivingUp DEF Attended
    <3> QED BY <2>1, <3>1, <3>2, <3>3 DEF Attended
  <2>2. \A p \in Range(db'["processing"]) :
          p \in Range(db["processing"]) \/ p.id \in Unreadable \/ Attended(p)'
    BY <1>4 DEF Attended
  <2>3. Keeps
    BY <1>4, <2>1, <2>2 DEF Keeps
  <2> QED BY <1>2, <2>3, KInvKept
<1> QED BY <1>3, <1>4

\* What is known of a process's step that is a step of its client.
LEMMA ClientStep ==
  ASSUME KInv, NEW s \in Shells, WorkerNext(s)
  PROVE  /\ JInv' /\ OnlyMoves(s)
         /\ \A v \in Workers : v # s => held'[v] = held[v]
         /\ faults' = faults => held[s] \subseteq held'[s]
         /\ call'[s] \in Frame
<1>1. s \in Workers
  BY ShellsAssumption
<1>2. [Next]_vars
  BY <1>1 DEF Next
<1>3. JInv'
  BY <1>2, JInvStep DEF KInv
<1>4. Kind(s)
  BY <1>1, ConsumeKinds, HandleKinds, PushKinds, RecoverKinds DEF KInv, WorkerNext, Step
<1>5. call'[s] \in Frame
  BY <1>1, <1>3 DEF JInv, IInv, TypeOK
<1> QED BY <1>1, <1>3, <1>4, <1>5, HeldElsewhere DEF Kind, KInv, JInv, IInv

\* What the commands leave of the processing list.
LEMMA ProcessingIs ==
  ASSUME KInv,
         \/ db'["processing"] = db["processing"]
         \/ TakeReady
         \/ \E p : Removes("processing", p) /\ db' = LRem(db, "processing", p)
  PROVE  /\ \A p \in Range(db'["processing"]) :
              p \in Range(db["processing"]) \/ (TakeReady /\ p = Last(db["ready"]))
         /\ TakeReady => Last(db["ready"]) \in Payload
         /\ \A p : Removes("processing", p) /\ db' = LRem(db, "processing", p) =>
              p \notin Range(db'["processing"])
<1>1. db \in Lists /\ OneCopy(db) /\ "processing" \in Keys
  BY SingleCopyParts DEF KInv, JInv, IInv, Placed, TypeOK, Lists, Keys
<1>2. TakeReady => /\ Range(db'["processing"]) = Range(db["processing"]) \cup {Last(db["ready"])}
                   /\ Last(db["ready"]) \in Payload
  BY <1>1, LMoveEntries DEF TakeReady
<1>3. \A p : Removes("processing", p) /\ db' = LRem(db, "processing", p) =>
        Range(db'["processing"]) = Range(db["processing"]) \ {p}
  BY <1>1, LRemEntries DEF Removes
<1> QED BY <1>2, <1>3

LEMMA StartKeeps ==
  ASSUME KInv, NEW s \in Shells, NEW n \in 1..MaxBatch, NEW action \in Actions,
         Start(s, n, action)
  PROVE  KInv'
<1> DEFINE r == [phase |-> "consuming", action |-> action, batch |-> <<>>]
<1>1. WorkerNext(s)
  BY DEF Start, WorkerNext
<1>2. process[s].phase = "none" /\ process' = [process EXCEPT ![s] = r] /\ GiveUp({})
  BY DEF Start
<1>3. r \in Processes /\ r.phase = "consuming" /\ Range(r.batch) = {}
  BY BatchParts DEF Processes, Phases, Range
<1> HIDE DEF r
<1>4. /\ process' \in [Shells -> Processes] /\ process'[s] = r
      /\ \A v \in Shells : v # s => process'[v] = process[v]
  BY <1>2, <1>3 DEF KInv
<1>5. Range(process[s].batch) = {}
  BY <1>2, ProcessIs DEF Fits, NoProcess, Range
<1>6. call'[s].op = "consume"
  <2>1. s \in Workers /\ call' = [call EXCEPT ![s] = Consuming(n, {})]
    BY ShellsAssumption DEF Start, Consume
  <2>2. call'[s] = Consuming(n, {})
    BY <2>1 DEF KInv, JInv, IInv, TypeOK
  <2> QED BY <2>2 DEF Consuming
<1>7. Fits(s)'
  BY <1>3, <1>4, <1>6 DEF Fits
<1>8. UNCHANGED <<db, faults>>
  BY DEF Start, Consume
<1> QED BY <1>1, <1>2, <1>4, <1>5, <1>7, <1>8, ClientStep, ShellKept

LEMMA TakeKeeps ==
  ASSUME KInv, NEW s \in Shells, Take(s)
  PROVE  KInv'
<1> DEFINE p == Last(db["ready"])
           b == process[s].batch
<1>1. WorkerNext(s) /\ MoveToProcessing(s) /\ TakeReady /\ GiveUp({}) /\ faults' = faults
  BY DEF Take, WorkerNext, Step, MoveToProcessing
<1>2. /\ p \in Payload
      /\ \A q \in Range(db'["processing"]) : q \in Range(db["processing"]) \/ q = p
  BY <1>1, ProcessingIs
<1>3. /\ s \in Workers /\ b \in Seq(Payload) /\ Range(b) \subseteq call[s].got
      /\ call \in [Workers -> Frame] /\ held \in [Workers -> SUBSET Payload]
      /\ call[s].want >= 1
  BY ProcessIs DEF Take, Fits, KInv, JInv, IInv, TypeOK, FrameOK
<1>4. /\ Append(b, p) \in Seq(Payload) /\ Range(Append(b, p)) = Range(b) \cup {p}
      /\ {"consuming", "handling", "failed"} \subseteq Phases
  BY <1>2, <1>3, BatchParts DEF Phases
<1>5. CASE p.id \in Unreadable
  <2>1. Goto(s, "failed", b)
    BY <1>5 DEF Take
  <2>2. /\ process' \in [Shells -> Processes]
        /\ process'[s].phase = "failed" /\ process'[s].batch = b
        /\ \A v \in Shells : v # s => process'[v] = process[v]
    BY <1>3, <1>4, <2>1, GotoIs
  <2>3. call'[s].op = "idle"
    BY <1>1, <1>3, <1>5 DEF MoveToProcessing, Raise, Idle
  <2>4. Fits(s)'
    BY <2>2, <2>3 DEF Fits
  <2> QED BY <1>1, <1>2, <1>5, <2>2, <2>4, ClientStep, ShellKept
<1>6. CASE p.id \notin Unreadable /\ call[s].want > 1
  <2>1. Goto(s, "consuming", Append(b, p))
    BY <1>6 DEF Take
  <2>2. /\ process' \in [Shells -> Processes]
        /\ process'[s].phase = "consuming" /\ process'[s].batch = Append(b, p)
        /\ \A v \in Shells : v # s => process'[v] = process[v]
    BY <1>4, <2>1, GotoIs
  <2>3. call'[s] = Consuming(call[s].want - 1, call[s].got \cup {p})
    BY <1>1, <1>3, <1>6 DEF MoveToProcessing
  <2>4. call'[s].op = "consume" /\ call'[s].got = call[s].got \cup {p}
    BY <2>3 DEF Consuming
  <2>5. Fits(s)'
    BY <1>3, <1>4, <2>2, <2>4 DEF Fits
  <2> QED BY <1>1, <1>2, <1>4, <2>2, <2>5, ClientStep, ShellKept
<1>7. CASE p.id \notin Unreadable /\ call[s].want = 1
  <2>1. Goto(s, "handling", Append(b, p))
    BY <1>7 DEF Take
  <2>2. /\ process' \in [Shells -> Processes]
        /\ process'[s].phase = "handling" /\ process'[s].batch = Append(b, p)
        /\ \A v \in Shells : v # s => process'[v] = process[v]
    BY <1>4, <2>1, GotoIs
  <2>3. Return(s, call[s].got \cup {p})
    BY <1>1, <1>7 DEF MoveToProcessing
  <2>4. call'[s] = Idle /\ held'[s] = held[s] \cup (call[s].got \cup {p})
    BY <1>3, <2>3 DEF Return
  <2>5. Fits(s)'
    BY <1>3, <1>4, <2>2, <2>4 DEF Fits, Idle
  <2> QED BY <1>1, <1>2, <1>4, <2>2, <2>5, ClientStep, ShellKept
<1>8. call[s].want > 1 \/ call[s].want = 1
  <2>1. call[s].want \in Nat
    BY <1>3, ConstantsAssumption DEF Frame
  <2> QED BY <1>3, <2>1
<1> QED BY <1>5, <1>6, <1>7, <1>8

LEMMA TimesOutKeeps ==
  ASSUME KInv, NEW s \in Shells, TimesOut(s)
  PROVE  KInv'
<1> DEFINE b == process[s].batch
<1>1. WorkerNext(s) /\ ConsumeTimesOut(s) /\ GiveUp({}) /\ Goto(s, "handling", b)
  BY DEF TimesOut, WorkerNext, Step
<1>2. /\ s \in Workers /\ b \in Seq(Payload) /\ Range(b) \subseteq call[s].got
      /\ call \in [Workers -> Frame] /\ held \in [Workers -> SUBSET Payload]
      /\ "handling" \in Phases
  BY ProcessIs DEF TimesOut, Fits, KInv, JInv, IInv, TypeOK, Phases
<1>3. /\ process' \in [Shells -> Processes]
      /\ process'[s].phase = "handling" /\ process'[s].batch = b
      /\ \A v \in Shells : v # s => process'[v] = process[v]
  BY <1>1, <1>2, GotoIs
<1>4. call'[s] = Idle /\ held'[s] = held[s] \cup call[s].got
  BY <1>1, <1>2 DEF ConsumeTimesOut, Return
<1>5. Fits(s)'
  BY <1>2, <1>3, <1>4 DEF Fits, Idle
<1>6. UNCHANGED <<db, faults>>
  BY <1>1 DEF ConsumeTimesOut
<1> QED BY <1>1, <1>3, <1>5, <1>6, ClientStep, ShellKept

LEMMA TakeRaisesKeeps ==
  ASSUME KInv, NEW s \in Shells, TakeRaises(s)
  PROVE  KInv'
<1> DEFINE b == process[s].batch
<1>1. WorkerNext(s) /\ ConsumeRaises(s) /\ GiveUp({}) /\ Goto(s, "failed", b)
  BY DEF TakeRaises, WorkerNext
<1>2. /\ s \in Workers /\ b \in Seq(Payload) /\ "failed" \in Phases
      /\ call \in [Workers -> Frame]
  BY ProcessIs DEF KInv, JInv, IInv, TypeOK, Phases
<1>3. /\ process' \in [Shells -> Processes] /\ process'[s].phase = "failed"
      /\ \A v \in Shells : v # s => process'[v] = process[v]
  BY <1>1, <1>2, GotoIs
<1>4. call'[s] = Idle /\ Faulty
  BY <1>1, <1>2 DEF ConsumeRaises, Raise, Fault, Faulty
<1>5. Fits(s)'
  BY <1>3, <1>4 DEF Fits, Idle
<1> QED BY <1>1, <1>3, <1>4, <1>5, ClientStep, ShellKept

\* LREM adds no entry.
LEMMA RemovedNotTaken ==
  ASSUME KInv, NEW p, Removes("processing", p), db' = LRem(db, "processing", p)
  PROVE  Range(db'["processing"]) \subseteq Range(db["processing"])
<1>1. db \in Lists /\ OneCopy(db) /\ "processing" \in Keys
  BY SingleCopyParts DEF KInv, JInv, IInv, Placed, TypeOK, Lists, Keys
<1> QED BY <1>1, LRemEntries DEF Removes

\* What the loop works on: the head of its batch, which the worker holds.
LEMMA AskedIs ==
  ASSUME KInv, NEW s \in Shells, NEW actions, Asked(s, actions)
  PROVE  /\ process[s].phase = "handling"
         /\ s \in Workers /\ call[s].op = "idle"
         /\ process[s].batch \in Seq(Payload)
         /\ Current(s) \in Payload /\ Current(s) \in held[s]
         /\ Others(s) \in Seq(Payload)
         /\ Range(process[s].batch) = {Current(s)} \cup Range(Others(s))
         /\ Range(process[s].batch) \subseteq held[s]
<1>1. /\ process[s].phase = "handling" /\ process[s].batch # <<>>
      /\ s \in Workers /\ process[s].batch \in Seq(Payload)
      /\ call[s].op = "idle" /\ Range(process[s].batch) \subseteq held[s]
  BY ProcessIs DEF Asked, Fits
<1>2. /\ Current(s) \in Range(process[s].batch) /\ Others(s) \in Seq(Payload)
      /\ Range(process[s].batch) = {Current(s)} \cup Range(Others(s))
  BY <1>1, BatchParts DEF Current, Others
<1>3. held[s] \subseteq Payload
  BY <1>1 DEF KInv, JInv, IInv, TypeOK
<1> QED BY <1>1, <1>2, <1>3

LEMMA AckNextKeeps ==
  ASSUME KInv, NEW s \in Shells, AckNext(s)
  PROVE  KInv'
<1> DEFINE b == process[s].batch
<1>1. PICK p : p = Current(s)
  OBVIOUS
<1>2. /\ s \in Workers /\ call[s].op = "idle" /\ p \in held[s]
      /\ Others(s) \in Seq(Payload) /\ Range(b) = {p} \cup Range(Others(s))
      /\ Range(b) \subseteq held[s] /\ "handling" \in Phases
  BY <1>1, AskedIs DEF AckNext, Phases
<1>3. Ack(s, p) /\ Goto(s, "handling", Others(s)) /\ GiveUp({})
  BY <1>1 DEF AckNext
<1>4. /\ WorkerNext(s) /\ Removes("processing", p) /\ db' = LRem(db, "processing", p)
      /\ UNCHANGED <<call, held, faults>>
  BY <1>2, <1>3 DEF Ack, WorkerNext
<1>5. PICK rest : rest = Others(s)
  OBVIOUS
<1>6. /\ process' \in [Shells -> Processes]
      /\ process'[s].phase = "handling" /\ process'[s].batch = rest
      /\ \A v \in Shells : v # s => process'[v] = process[v]
  BY <1>2, <1>3, <1>5, GotoIs
<1>7. Fits(s)'
  BY <1>2, <1>4, <1>5, <1>6 DEF Fits
<1>8. /\ \A q \in Range(db'["processing"]) : q \in Range(db["processing"])
      /\ p \notin Range(db'["processing"])
  BY <1>4, RemovedNotTaken, ProcessingIs
<1> QED BY <1>2, <1>3, <1>4, <1>5, <1>6, <1>7, <1>8, ClientStep, ShellKept

LEMMA RemoveNextKeeps ==
  ASSUME KInv, NEW s \in Shells, RemoveNext(s)
  PROVE  KInv'
<1> DEFINE b == process[s].batch
<1>1. PICK p : p = Current(s)
  OBVIOUS
<1>2. /\ s \in Workers /\ call[s].op = "idle" /\ p \in held[s] /\ p \in Payload
      /\ b \in Seq(Payload) /\ b # <<>> /\ Head(b) = p
      /\ Range(b) \subseteq held[s] /\ "pushing" \in Phases
  BY <1>1, AskedIs DEF RemoveNext, Asked, Current, Phases
<1>3. /\ Goto(s, "pushing", b) /\ GiveUp({})
      /\ Nack(s, p, TRUE) \/ Nack(s, p, FALSE) \/ Retry(s, p)
  BY <1>1 DEF RemoveNext
<1>4. WorkerNext(s)
  BY <1>2, <1>3 DEF WorkerNext
<1>5. \E dest \in Keys : \E q : q.id = p.id /\ StartMove(s, "processing", p, q, dest)
  <2>1. WithAttempt(p).id = p.id
    BY <1>2 DEF WithAttempt, Payload
  <2>2. "ready" \in Keys /\ "dead" \in Keys
    BY DEF Keys
  <2> QED BY <1>3, <2>1, <2>2 DEF Nack, Retry
<1>6. PICK dest, q : q.id = p.id /\ StartMove(s, "processing", p, q, dest)
  BY <1>5
<1>7. /\ Removes("processing", p) /\ db' = LRem(db, "processing", p)
      /\ UNCHANGED <<held, faults>>
      /\ call' = [call EXCEPT ![s] = Pushing(q, dest, <<>>)]
  BY <1>6 DEF StartMove
<1>8. call'[s] = Pushing(q, dest, <<>>)
  BY <1>2, <1>7 DEF KInv, JInv, IInv, TypeOK
<1>9. /\ call'[s].op = "push" /\ call'[s].todo = <<>> /\ call'[s].moving = {q}
  BY <1>8 DEF Pushing
<1>10. MovingBy(s)' = {p.id}
  BY <1>6, <1>9 DEF MovingBy
<1>11. /\ process' \in [Shells -> Processes]
       /\ process'[s].phase = "pushing" /\ process'[s].batch = b
       /\ \A v \in Shells : v # s => process'[v] = process[v]
  BY <1>2, <1>3, GotoIs
<1>12. Fits(s)'
  BY <1>2, <1>7, <1>9, <1>10, <1>11 DEF Fits
<1>13. \A r \in Range(db'["processing"]) : r \in Range(db["processing"])
  BY <1>7, RemovedNotTaken
<1> QED BY <1>3, <1>4, <1>7, <1>11, <1>12, <1>13, ClientStep, ShellKept

\* A step that changes neither the lists nor a call.
LEMMA ClientRests ==
  ASSUME KInv, NEW s \in Shells, call[s].op = "idle",
         UNCHANGED <<db, call, published, delivered, acked>>,
         held' \in [Workers -> SUBSET Payload],
         faults' = faults \/ \E kind : Fault(kind)
  PROVE  JInv' /\ OnlyMoves(s)
<1>1. /\ s \in Workers /\ IInv /\ TypeOK /\ call[s] \in Frame /\ FrameOK(call[s])
      /\ call[s].moving = {} /\ call[s].op # "push"
  BY ShellsAssumption, HandEmpty DEF KInv, JInv, IInv, TypeOK
<1>2. call' = [call EXCEPT ![s] = call[s]]
  BY <1>1 DEF TypeOK
<1>3. faults' = faults \/ (faults' = faults + 1 /\ faults' \in 0..MaxFaults)
  BY <1>1, FaultIsCounted
<1>4. PICK f : f = call[s]
  OBVIOUS
<1>5. Preserved
  BY <1>1, <1>2, <1>3, <1>4, QuietStep
<1> QED BY <1>5 DEF KInv, JInv, AllTidy, Preserved, OnlyMoves

LEMMA NotFoundKeeps ==
  ASSUME KInv, NEW s \in Shells, NotFound(s)
  PROVE  KInv'
<1> DEFINE b == process[s].batch
<1>1. s \in Workers /\ call[s].op = "idle" /\ b \in Seq(Payload) /\ "failed" \in Phases
  BY AskedIs DEF NotFound, Phases
<1>2. /\ Goto(s, "failed", b) /\ GiveUp({})
      /\ UNCHANGED <<db, call, held, published, delivered, acked, faults>>
  BY DEF NotFound, vars
<1>3. /\ process' \in [Shells -> Processes]
      /\ process'[s].phase = "failed" /\ process'[s].batch = b
      /\ \A v \in Shells : v # s => process'[v] = process[v]
  BY <1>1, <1>2, GotoIs
<1>4. Fits(s)'
  BY <1>1, <1>2, <1>3 DEF Fits
<1>5. held' \in [Workers -> SUBSET Payload]
  BY <1>2 DEF KInv, JInv, IInv, TypeOK
<1>6. JInv' /\ OnlyMoves(s)
  BY <1>1, <1>2, <1>5, ClientRests
<1> QED BY <1>2, <1>3, <1>4, <1>6, ShellKept

LEMMA RemoveRaisesKeeps ==
  ASSUME KInv, NEW s \in Shells, RemoveRaises(s)
  PROVE  KInv'
<1> DEFINE b == process[s].batch
<1>1. PICK p : p = Current(s)
  OBVIOUS
<1>2. /\ s \in Workers /\ call[s].op = "idle" /\ p \in held[s] /\ p \in Payload
      /\ b \in Seq(Payload) /\ "failed" \in Phases
  BY <1>1, AskedIs DEF RemoveRaises, Phases
<1>3. Goto(s, "failed", b) /\ GiveUp({})
  BY DEF RemoveRaises
<1>4. /\ process' \in [Shells -> Processes] /\ process'[s].phase = "failed"
      /\ \A v \in Shells : v # s => process'[v] = process[v]
  BY <1>2, <1>3, GotoIs
<1>5. UNCHANGED <<call, held>> /\ Faulty
  BY DEF RemoveRaises, RemovalReplyLost, Fault, Faulty
<1>6. Fits(s)'
  BY <1>2, <1>4, <1>5 DEF Fits
<1>7. JInv' /\ OnlyMoves(s)
  <2>1. CASE Fault("refused") /\ UNCHANGED <<db, call, held, published, delivered, acked>>
    <3>1. held' \in [Workers -> SUBSET Payload]
      BY <2>1 DEF KInv, JInv, IInv, TypeOK
    <3> QED BY <1>2, <2>1, <3>1, ClientRests
  <2>2. CASE RemovalReplyLost(s, "processing", p)
    <3>1. WorkerNext(s)
      BY <1>2, <2>2 DEF WorkerNext
    <3> QED BY <3>1, ClientStep
  <2>3. CASE /\ Fault("reply_lost")
             /\ Removes("processing", p)
             /\ db' = LRem(db, "processing", p)
             /\ acked' = acked \cup {p.id}
             /\ UNCHANGED <<call, held, published, delivered>>
    <3>1. PICK f : f = call[s]
      OBVIOUS
    <3>2. /\ IInv /\ TypeOK /\ f \in Frame /\ FrameOK(f)
          /\ f.moving = {} /\ call[s].op # "push"
      BY <1>2, <3>1, HandEmpty DEF KInv, JInv, IInv, TypeOK
    <3>3. call' = [call EXCEPT ![s] = f]
      BY <2>3, <3>1, <3>2 DEF TypeOK
    <3>4. faults' = faults + 1 /\ faults' \in 0..MaxFaults /\ "processing" \in Keys
      BY <2>3, <3>2, FaultIsCounted DEF Keys
    <3>5. Preserved
      BY <1>2, <2>3, <3>2, <3>3, <3>4, RemovalStep
    <3> QED BY <2>3, <3>5 DEF KInv, JInv, AllTidy, Preserved, OnlyMoves
  <2> QED BY <1>1, <2>1, <2>2, <2>3 DEF RemoveRaises
<1>8. \A v \in Workers : v # s => held'[v] = held[v]
  BY <1>5
<1> QED BY <1>3, <1>4, <1>5, <1>6, <1>7, <1>8, ShellKept

\* What the process is about to push back: the head of its batch.
LEMMA PushedIs ==
  ASSUME KInv, NEW s \in Shells, process[s].phase = "pushing"
  PROVE  /\ s \in Workers /\ call[s].op = "push" /\ call[s].todo = <<>>
         /\ process[s].batch \in Seq(Payload)
         /\ Others(s) \in Seq(Payload)
         /\ Range(process[s].batch) = {Current(s)} \cup Range(Others(s))
         /\ Range(process[s].batch) \subseteq held[s]
         /\ Current(s) \notin Range(db["processing"])
         /\ \E p \in Payload : call[s].moving = {p}
         /\ call[s].dest \in {"ready", "dead"}
<1>1. /\ s \in Workers /\ call[s].op = "push" /\ call[s].todo = <<>>
      /\ process[s].batch \in Seq(Payload) /\ process[s].batch # <<>>
      /\ Range(process[s].batch) \subseteq held[s]
      /\ MovingBy(s) = {Current(s).id}
  BY ProcessIs DEF Fits, Current
<1>2. /\ Others(s) \in Seq(Payload)
      /\ Range(process[s].batch) = {Current(s)} \cup Range(Others(s))
  BY <1>1, BatchParts DEF Current, Others
<1>3. Current(s).id \notin Listed
  BY <1>1 DEF Moving, KInv, JInv, IInv, Placed, SingleCopy
<1>4. Current(s) \notin Range(db["processing"])
  BY <1>3 DEF Listed, IdsIn, Range, Keys
<1> QED BY <1>1, <1>2, <1>4, HandEmpty DEF KInv

LEMMA PushNextKeeps ==
  ASSUME KInv, NEW s \in Shells, PushNext(s)
  PROVE  KInv'
<1>1. /\ process[s].phase = "pushing" /\ Push(s) /\ GiveUp({})
      /\ WorkerNext(s)
  BY DEF PushNext, WorkerNext, Step
<1>2. PICK rest, p : rest = Others(s) /\ p = Current(s)
  OBVIOUS
<1>3. /\ s \in Workers /\ call[s].todo = <<>> /\ rest \in Seq(Payload)
      /\ Range(process[s].batch) = {p} \cup Range(rest)
      /\ Range(process[s].batch) \subseteq held[s]
      /\ p \notin Range(db["processing"])
      /\ call[s].dest \in {"ready", "dead"}
  BY <1>1, <1>2, PushedIs
<1>4. PICK q \in Payload : call[s].moving = {q}
  BY <1>1, PushedIs
<1>5. PICK ph \in {"failed", "handling"} : Goto(s, ph, rest)
  BY <1>2 DEF PushNext
<1>6. ph \in Phases
  BY DEF Phases
<1>7. /\ process' \in [Shells -> Processes]
      /\ process'[s].phase = ph /\ process'[s].batch = rest
      /\ \A v \in Shells : v # s => process'[v] = process[v]
  BY <1>3, <1>5, <1>6, GotoIs
<1>8. call'[s].op = "idle"
  <2>1. call' = [call EXCEPT ![s] = Idle]
    BY <1>1, <1>3 DEF Push, Recovering
  <2>2. call'[s] = Idle
    BY <1>3, <2>1 DEF KInv, JInv, IInv, TypeOK
  <2> QED BY <2>2, TidyFrames
<1>9. UNCHANGED <<held, faults>>
  BY <1>1 DEF Push
<1>10. Fits(s)'
  BY <1>3, <1>7, <1>8, <1>9 DEF Fits
<1>11. db'["processing"] = db["processing"]
  <2>1. PICK key \in {"ready", "dead"} : key = call[s].dest
    BY <1>3
  <2>2. db' = LPush(db, key, q)
    BY <1>1, <1>4, <2>1 DEF Push
  <2>3. db \in Lists /\ "processing" \in Keys /\ key \in Keys
    BY DEF KInv, JInv, IInv, TypeOK, Lists, Keys
  <2> QED BY <2>2, <2>3, LPushEntries
<1> QED BY <1>1, <1>3, <1>7, <1>9, <1>10, <1>11, ClientStep, ShellKept

LEMMA PushNextRaisesKeeps ==
  ASSUME KInv, NEW s \in Shells, PushNextRaises(s)
  PROVE  KInv'
<1>1. /\ process[s].phase = "pushing" /\ PushRaises(s) /\ GiveUp({})
      /\ WorkerNext(s)
  BY DEF PushNextRaises, WorkerNext
<1>2. PICK rest : rest = Others(s)
  OBVIOUS
<1>3. /\ s \in Workers /\ rest \in Seq(Payload) /\ "failed" \in Phases
      /\ call \in [Workers -> Frame]
  BY <1>1, <1>2, PushedIs DEF Phases, KInv, JInv, IInv, TypeOK
<1>4. Goto(s, "failed", rest)
  BY <1>2 DEF PushNextRaises
<1>5. /\ process' \in [Shells -> Processes] /\ process'[s].phase = "failed"
      /\ \A v \in Shells : v # s => process'[v] = process[v]
  BY <1>3, <1>4, GotoIs
<1>6. call'[s] = Idle /\ Faulty
  BY <1>1, <1>3 DEF PushRaises, Raise, Fault, Faulty
<1>7. Fits(s)'
  BY <1>5, <1>6, TidyFrames DEF Fits
<1> QED BY <1>1, <1>5, <1>6, <1>7, ClientStep, ShellKept

\* The process is over: what its batch still held is given up.
LEMMA GoneIs ==
  ASSUME KInv, NEW s \in Shells, process' = [process EXCEPT ![s] = NoProcess]
  PROVE  /\ process' \in [Shells -> Processes] /\ process'[s] = NoProcess
         /\ \A v \in Shells : v # s => process'[v] = process[v]
         /\ NoProcess.phase = "none"
         /\ \A p \in Range(process[s].batch) :
              p.id \in {process[s].batch[i].id : i \in DOMAIN process[s].batch}
<1>1. NoProcess \in Processes /\ NoProcess.phase = "none"
  BY BatchParts DEF NoProcess, Processes, Phases
<1>2. \A p \in Range(process[s].batch) :
        p.id \in {process[s].batch[i].id : i \in DOMAIN process[s].batch}
  BY DEF Range
<1> HIDE DEF NoProcess
<1> QED BY <1>1, <1>2 DEF KInv

LEMMA ExitKeeps ==
  ASSUME KInv, NEW s \in Shells, Exit(s)
  PROVE  KInv'
<1> DEFINE b == process[s].batch
<1>1. /\ process' = [process EXCEPT ![s] = NoProcess]
      /\ held' = [held EXCEPT ![s] = {}]
      /\ UNCHANGED <<db, call, published, delivered, acked, faults>>
  BY DEF Exit
<1>2. PICK gone : gone = {b[i].id : i \in DOMAIN b}
  OBVIOUS
<1>3. GiveUp(gone)
  BY <1>2 DEF Exit
<1>4. /\ process' \in [Shells -> Processes] /\ process'[s] = NoProcess
      /\ \A v \in Shells : v # s => process'[v] = process[v]
      /\ process'[s].phase = "none"
      /\ \A p \in Range(b) : p.id \in gone
  BY <1>1, <1>2, GoneIs
<1>5. s \in Workers /\ call[s].op = "idle"
  BY ProcessIs DEF Exit, Fits
<1>6. /\ held' \in [Workers -> SUBSET Payload] /\ held'[s] = {}
      /\ \A v \in Workers : v # s => held'[v] = held[v]
  BY <1>1, <1>5 DEF KInv, JInv, IInv, TypeOK
<1>7. Fits(s)'
  BY <1>1, <1>4, <1>5, <1>6 DEF Fits
<1>8. JInv' /\ OnlyMoves(s)
  BY <1>1, <1>5, <1>6, ClientRests
<1> QED BY <1>1, <1>3, <1>4, <1>6, <1>7, <1>8, ShellKept

LEMMA KilledKeeps ==
  ASSUME KInv, NEW s \in Shells, Killed(s)
  PROVE  KInv'
<1> DEFINE b == process[s].batch
<1>1. /\ process' = [process EXCEPT ![s] = NoProcess]
      /\ Crash(s) /\ WorkerNext(s) /\ Faulty
  BY DEF Killed, WorkerNext, Crash, Fault, Faulty
<1>2. PICK gone : gone = {b[i].id : i \in DOMAIN b}
  OBVIOUS
<1>3. GiveUp(gone)
  BY <1>2 DEF Killed
<1>4. /\ process' \in [Shells -> Processes] /\ process'[s] = NoProcess
      /\ \A v \in Shells : v # s => process'[v] = process[v]
      /\ process'[s].phase = "none"
  BY <1>1, GoneIs
<1>5. s \in Workers
  BY ShellsAssumption
<1>6. call'[s] = Idle /\ held'[s] = {}
  BY <1>1, <1>5 DEF Crash, KInv, JInv, IInv, TypeOK
<1>7. Fits(s)'
  BY <1>4, <1>6, TidyFrames DEF Fits
<1> QED BY <1>1, <1>3, <1>4, <1>7, ClientStep, ShellKept

-----------------------------------------------------------------------------
(* The theorems. *)

LEMMA InitKInv == CliInit => KInv
<1> SUFFICES ASSUME CliInit PROVE KInv
  OBVIOUS
<1>1. \A w \in Workers : call[w] = Idle /\ held[w] = {}
  BY DEF CliInit, Init
<1>2. JInv
  <2>1. AllTidy
    BY <1>1, TidyFrames DEF AllTidy
  <2> QED BY <2>1, InitPlaces DEF CliInit, JInv
<1>3. NoProcess \in Processes /\ NoProcess.phase = "none"
  BY BatchParts DEF NoProcess, Processes, Phases
<1>4. \A s \in Shells : process[s] = NoProcess
  BY DEF CliInit
<1>5. process \in [Shells -> Processes] /\ dropped \subseteq Ids
  <2> HIDE DEF NoProcess
  <2> QED BY <1>3 DEF CliInit
<1>6. \A s \in Shells : Fits(s)
  BY <1>1, <1>3, <1>4, ShellsAssumption, TidyFrames DEF Fits
<1>7. Range(db["processing"]) = {}
  BY DEF CliInit, Init, Keys, Range
<1> QED BY <1>2, <1>5, <1>6, <1>7 DEF KInv, Attention

LEMMA KInvStutters ==
  ASSUME KInv, UNCHANGED allVars
  PROVE  KInv'
<1>1. UNCHANGED vars /\ UNCHANGED <<process, dropped>>
  BY DEF allVars, cliVars
<1>2. JInv'
  BY <1>1, JInvStep DEF KInv
<1>3. UNCHANGED <<db, call, held, published, delivered, acked, faults>>
  BY <1>1 DEF vars
<1>4. \A s \in Shells : Fits(s)'
  BY <1>1, <1>3, FitsElsewhere DEF KInv
<1>5. Attention'
  BY <1>1, <1>3 DEF KInv, Attention, Looked, Attended
<1> QED BY <1>1, <1>2, <1>4, <1>5 DEF KInv

LEMMA KInvStep ==
  ASSUME KInv, [CliNext]_allVars
  PROVE  KInv'
<1>1. ASSUME NEW id \in Ids, Publish(id), UNCHANGED process, GiveUp({})
      PROVE  KInv'
  BY <1>1, PublishKeepsAttention
<1>2. ASSUME NEW w \in Workers \ Shells, WorkerNext(w), UNCHANGED process,
             GiveUp(Forgotten(w))
      PROVE  KInv'
  BY <1>2, WorkerKeepsAttention
<1>3. ASSUME NEW s \in Shells, NEW n \in 1..MaxBatch, NEW action \in Actions,
             Start(s, n, action)
      PROVE  KInv'
  BY <1>3, StartKeeps
<1>4. ASSUME NEW s \in Shells, Proceed(s)
      PROVE  KInv'
  BY <1>4, TakeKeeps, TimesOutKeeps, AckNextKeeps, RemoveNextKeeps, NotFoundKeeps,
     PushNextKeeps, ExitKeeps DEF Proceed
<1>5. ASSUME NEW s \in Shells,
             TakeRaises(s) \/ RemoveRaises(s) \/ PushNextRaises(s) \/ Killed(s)
      PROVE  KInv'
  BY <1>5, TakeRaisesKeeps, RemoveRaisesKeeps, PushNextRaisesKeeps, KilledKeeps
<1> QED BY <1>1, <1>2, <1>3, <1>4, <1>5, KInvStutters DEF CliNext

LEMMA KInvInvariant == CliSpec => []KInv
<1>1. CliInit => KInv
  BY InitKInv
<1>2. KInv /\ [CliNext]_allVars => KInv'
  BY KInvStep
<1> QED BY <1>1, <1>2, PTL DEF CliSpec

\* A process and the client call it is in agree (_handle_consume): it ends,
\* handles the next message and fails between calls only, what it has to
\* handle is what consume gave it, and no Message outlives it.
THEOREM ProcessesFitTheirCalls == CliSpec => []CliTypeOK
<1>1. KInv => CliTypeOK
  <2> SUFFICES ASSUME KInv PROVE CliTypeOK
    OBVIOUS
  <2> SUFFICES ASSUME NEW s \in Shells
               PROVE  /\ process[s].phase \in Phases
                      /\ process[s].action \in Actions \cup {"none"}
                      /\ call[s].op = CASE process[s].phase = "consuming" -> "consume"
                                        [] process[s].phase = "pushing"   -> "push"
                                        [] OTHER                          -> "idle"
                      /\ process[s].phase \in {"handling", "pushing"} =>
                           Range(process[s].batch) \subseteq held[s]
                      /\ process[s].phase = "none" =>
                           process[s] = NoProcess /\ held[s] = {}
    BY DEF CliTypeOK, KInv
  <2>1. process[s].phase \in Phases /\ process[s].action \in Actions \cup {"none"} /\ Fits(s)
    BY ProcessIs
  <2>2. CASE process[s].phase = "consuming"
    BY <2>1, <2>2 DEF Fits
  <2>3. CASE process[s].phase = "pushing"
    BY <2>1, <2>3 DEF Fits
  <2>4. CASE process[s].phase \in {"none", "handling", "failed"}
    BY <2>1, <2>4 DEF Fits
  <2> QED BY <2>1, <2>2, <2>3, <2>4 DEF Phases
<1> QED BY <1>1, KInvInvariant, PTL

\* A consume command that ends without an exception, having been asked to ack,
\* nack or retry, leaves nothing of its batch in processing (_handle_consume):
\* whatever is there is known to a caller, unreadable, or was given up by a
\* process that failed or was not asked to handle it.
THEOREM OnlyFailuresAbandon == CliSpec => []OnlyFailuresStrand
<1>1. KInv => OnlyFailuresStrand
  <2> SUFFICES ASSUME KInv, faults = 0, NEW i \in DOMAIN db["processing"]
               PROVE  LET p == db["processing"][i]
                      IN p.id \in Unreadable \/ p.id \in dropped \/ Cared(p)
    BY DEF OnlyFailuresStrand
  <2>1. PICK p : p = db["processing"][i]
    OBVIOUS
  <2>2. Looked(p)
    BY <2>1 DEF KInv, Attention, Range
  <2>3. Attended(p) => Cared(p)
    BY DEF Attended, Cared, Known, Range
  <2> QED BY <2>1, <2>2, <2>3 DEF Looked
<1> QED BY <1>1, KInvInvariant, PTL
=============================================================================
