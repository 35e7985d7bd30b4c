------------------------- MODULE StreamQueueProofs -------------------------
(***************************************************************************)
(* Proofs about StreamQueue, for any number of workers and messages, any   *)
(* batch size and limit, logs of any length and any number of faults.      *)
(*                                                                         *)
(* NeverLost is not inductive: the live entry it finds may be the one that *)
(* a call has copied and acknowledges next.  What the steps preserve is    *)
(* that a message has a standing entry, one that no call is about to       *)
(* acknowledge after copying it.                                           *)
(*                                                                         *)
(* CopiesHaveCauses counts standing copies, but one that two workers hold  *)
(* may become two; what a step adds only at a publish, a fault or a claim  *)
(* is the number of shares: a Message that its holder may still act on, or *)
(* a standing copy that nobody may act on.                                 *)
(***************************************************************************)
EXTENDS StreamQueue, FiniteSetTheorems, TLAPS

\* Entries that XREADGROUP has handed out.
Handed == {h \in Handle : h.raw <= cursor[h.key]}

\* The group hands out existing entries only, and every Message is of one
\* that was handed out.
Shape ==
  /\ \A k \in Keys : cursor[k] <= Len(log[k]) /\ pel[k] \subseteq 1..cursor[k]
  /\ \A w \in Workers : held[w] \subseteq Handed
  /\ \A w \in Workers : call[w].op = "ack" => call[w].handle \in Handed

\* A message that was not acknowledged has a standing entry.
HasStanding ==
  \A id \in published \ acked : \E h \in Standing : Entry(h).id = id

IInv == TypeOK /\ Shape /\ HasStanding

\* Logs only grow.
Grown ==
  \A k \in Keys :
    /\ Len(log[k]) <= Len(log'[k])
    /\ \A r \in 1..Len(log[k]) : log'[k][r] = log[k][r]

-----------------------------------------------------------------------------
(* Redis commands. *)

\* XADD adds one entry at the end, which no group has handed out.
LEMMA AddingEntry ==
  ASSUME TypeOK, Shape, NEW k \in Keys, NEW p \in Payload, XAdd(k, p)
  PROVE  LET new == [key |-> k, raw |-> Len(log[k]) + 1]
         IN /\ log' \in [Keys -> Seq(Payload)]
            /\ \A j \in Keys : Len(log'[j]) <= MaxEntries /\ cursor[j] <= Len(log'[j])
            /\ Grown
            /\ \A j \in Keys : Live(j) \subseteq Live(j)'
            /\ new \in Handle \ Handed
            /\ new.raw \in Live(k)'
            /\ log'[k][new.raw] = p
<1> DEFINE n == Len(log[k])
<1>1. /\ log \in [Keys -> Seq(Payload)]
      /\ \A j \in Keys : Len(log[j]) \in Nat /\ Len(log[j]) <= MaxEntries
      /\ cursor \in [Keys -> 0..MaxEntries]
      /\ MaxEntries \in Nat
  BY ConstantsAssumption DEF TypeOK
<1>2. /\ n + 1 <= MaxEntries
      /\ log' = [log EXCEPT ![k] = Append(@, p)]
      /\ cursor' = cursor /\ pel' = pel
  BY <1>1 DEF XAdd
<1>3. /\ log' \in [Keys -> Seq(Payload)]
      /\ log'[k] = Append(log[k], p)
      /\ \A j \in Keys : j # k => log'[j] = log[j]
  BY <1>1, <1>2
<1>4. /\ Len(log'[k]) = n + 1
      /\ log'[k][n + 1] = p
      /\ \A r \in 1..n : log'[k][r] = log[k][r]
  BY <1>1, <1>3
<1>5. \A j \in Keys : /\ Len(log[j]) <= Len(log'[j])
                      /\ Len(log'[j]) <= MaxEntries
                      /\ Len(log'[j]) \in Nat
  BY <1>1, <1>2, <1>3, <1>4
<1>6. Grown
  BY <1>3, <1>4, <1>5 DEF Grown
<1>7. \A j \in Keys : cursor[j] <= Len(log[j])
  BY DEF Shape
<1>8. \A j \in Keys : Live(j) \subseteq Live(j)'
  BY <1>1, <1>2, <1>5 DEF Live
<1>9. [key |-> k, raw |-> n + 1] \in Handle \ Handed
  BY <1>1, <1>2, <1>7 DEF Handle, Handed, Raws
<1>10. n + 1 \in Live(k)'
  BY <1>1, <1>2, <1>4, <1>7 DEF Live
<1>11. \A j \in Keys : cursor[j] <= Len(log'[j])
  BY <1>1, <1>5, <1>7
<1> QED BY <1>3, <1>4, <1>5, <1>6, <1>8, <1>9, <1>10, <1>11

\* XREADGROUP moves entries from beyond the cursor to the pending ones.
LEMMA HandingOut ==
  ASSUME TypeOK, Shape, NEW k \in Keys, NEW n \in Nat, HandOut(k, NewEntries(k, n))
  PROVE  /\ log' = log /\ idle' = idle
         /\ cursor' \in [Keys -> 0..MaxEntries]
         /\ pel' \in [Keys -> SUBSET Raws]
         /\ \A j \in Keys : /\ cursor[j] <= cursor'[j]
                            /\ cursor'[j] <= Len(log[j])
                            /\ pel[j] \subseteq pel'[j]
                            /\ pel'[j] \subseteq 1..cursor'[j]
                            /\ Live(j)' = Live(j)
         /\ NewEntries(k, n) \subseteq 1..cursor'[k]
<1> DEFINE raws == NewEntries(k, n)
           new == IF cursor[k] + n <= Len(log[k]) THEN cursor[k] + n ELSE Len(log[k])
<1>1. /\ log \in [Keys -> Seq(Payload)]
      /\ \A j \in Keys : Len(log[j]) \in Nat /\ Len(log[j]) <= MaxEntries
      /\ cursor \in [Keys -> 0..MaxEntries]
      /\ pel \in [Keys -> SUBSET Raws]
      /\ MaxEntries \in Nat
      /\ \A j \in Keys : cursor[j] <= Len(log[j]) /\ pel[j] \subseteq 1..cursor[j]
  BY ConstantsAssumption DEF TypeOK, Shape
<1>2. /\ log' = log /\ idle' = idle
      /\ cursor' = [cursor EXCEPT ![k] = @ + Cardinality(raws)]
      /\ pel' = [pel EXCEPT ![k] = @ \cup raws]
  BY DEF HandOut
<1>3. new \in Nat /\ cursor[k] <= new /\ new <= Len(log[k])
  BY <1>1
<1>4. raws = cursor[k] + 1 .. new
  BY <1>1 DEF NewEntries
<1>5. Cardinality(raws) = new - cursor[k]
  <2>1. cursor[k] + 1 \in Int /\ new \in Int
    BY <1>1, <1>3
  <2>2. Cardinality(raws) = IF cursor[k] + 1 > new THEN 0 ELSE new - (cursor[k] + 1) + 1
    BY <1>4, <2>1, FS_Interval
  <2> QED BY <1>1, <1>3, <2>2
<1> HIDE DEF raws, new
<1>6. cursor[k] \in Nat
  BY <1>1
<1>7. cursor'[k] = new /\ \A j \in Keys : j # k => cursor'[j] = cursor[j]
  BY <1>1, <1>2, <1>3, <1>5, <1>6
<1>8. pel'[k] = pel[k] \cup raws /\ \A j \in Keys : j # k => pel'[j] = pel[j]
  BY <1>1, <1>2
<1>9. cursor' \in [Keys -> 0..MaxEntries]
  BY <1>1, <1>2, <1>3, <1>7
<1>10. raws \subseteq 1..new /\ raws \subseteq Raws
  BY <1>1, <1>3, <1>4, <1>6 DEF Raws
<1>11. pel' \in [Keys -> SUBSET Raws]
  BY <1>1, <1>2, <1>10
<1>12. Live(k)' = Live(k)
  BY <1>1, <1>2, <1>3, <1>4, <1>6, <1>7, <1>8 DEF Live
<1>13. \A j \in Keys : j # k => Live(j)' = Live(j)
  BY <1>1, <1>2, <1>7, <1>8 DEF Live
<1>14. /\ cursor[k] <= cursor'[k]
       /\ cursor'[k] <= Len(log[k])
       /\ pel'[k] \subseteq 1..cursor'[k]
  <2>1. pel[k] \subseteq 1..new
    BY <1>1, <1>3, <1>6
  <2>2. pel'[k] \subseteq 1..cursor'[k]
    BY <1>7, <1>8, <1>10, <2>1
  <2> QED BY <1>3, <1>7, <2>2
<1>15. \A j \in Keys : j # k => /\ cursor[j] <= cursor'[j]
                                /\ cursor'[j] <= Len(log[j])
                                /\ pel'[j] \subseteq 1..cursor'[j]
  BY <1>1, <1>7, <1>8
<1> QED BY <1>2, <1>7, <1>8, <1>9, <1>10, <1>11, <1>12, <1>13, <1>14, <1>15 DEF raws

-----------------------------------------------------------------------------
(* What a step may do to the standing entries. *)

\* A standing entry exists, and stays what it was while logs grow.
LEMMA StandingExists ==
  ASSUME TypeOK, Shape, NEW h \in Standing
  PROVE  /\ h \in Handle
         /\ h.key \in Keys
         /\ h.raw \in 1..Len(log[h.key])
         /\ Entry(h) \in Payload
         /\ Grown => Entry(h)' = Entry(h)
<1>1. /\ log \in [Keys -> Seq(Payload)]
      /\ \A j \in Keys : Len(log[j]) \in Nat
      /\ cursor \in [Keys -> Nat]
      /\ \A j \in Keys : cursor[j] <= Len(log[j]) /\ pel[j] \subseteq 1..cursor[j]
  BY ConstantsAssumption DEF TypeOK, Shape
<1>2. h \in Handle /\ h.key \in Keys /\ h.raw \in Live(h.key)
  BY DEF Standing, Handle
<1>3. h.raw \in 1..Len(log[h.key])
  BY <1>1, <1>2 DEF Live
<1>4. log[h.key][h.raw] \in Payload
  BY <1>1, <1>2, <1>3
<1> QED BY <1>2, <1>3, <1>4 DEF Entry, Grown

\* Every standing entry stays, was acknowledged by its holder or has a
\* standing copy: then no message without a standing entry appears.
LEMMA StandingKept ==
  ASSUME IInv, Grown, published' = published, acked \subseteq acked',
         \A h \in Standing :
           \/ h \in Standing'
           \/ Entry(h).id \in acked'
           \/ \E g \in Standing' : Entry(g)'.id = Entry(h).id
  PROVE  HasStanding'
<1> SUFFICES ASSUME NEW id \in published', id \notin acked'
             PROVE  \E g \in Standing' : Entry(g)'.id = id
  BY DEF HasStanding
<1>1. PICK h \in Standing : Entry(h).id = id
  BY DEF IInv, HasStanding
<1>2. Entry(h)' = Entry(h)
  BY StandingExists DEF IInv
<1> QED BY <1>1, <1>2

\* A step that keeps the live entries, and makes no call supersede one.
LEMMA NothingSuperseded ==
  ASSUME IInv, log' = log, published' = published, acked' = acked,
         \A k \in Keys : Live(k)' = Live(k),
         Superseded' \subseteq Superseded
  PROVE  HasStanding'
<1>1. \A k \in Keys : Len(log[k]) \in Nat
  BY DEF IInv, TypeOK
<1>2. Grown
  BY <1>1 DEF Grown
<1>3. Standing \subseteq Standing'
  BY DEF Standing, Handle
<1> QED BY <1>2, <1>3, StandingKept

-----------------------------------------------------------------------------
(* Steps that leave the logs and the lists of the groups alone. *)

\* A call that ends or starts to wait supersedes nothing.
LEMMA CallChanges ==
  ASSUME TypeOK, NEW w \in Workers, NEW f \in Frame, f.op # "ack",
         call' = [call EXCEPT ![w] = f]
  PROVE  /\ call' \in [Workers -> Frame]
         /\ \A v \in Workers : call'[v].op = "ack" => call'[v] = call[v]
BY DEF TypeOK

LEMMA IdleIsFrame == Idle \in Frame /\ Idle.op # "ack"
BY DEF Frame, Idle

LEMMA Returning ==
  ASSUME TypeOK, NEW w \in Workers, Return(w)
  PROVE  /\ call' \in [Workers -> Frame]
         /\ \A v \in Workers : call'[v].op = "ack" => call'[v] = call[v]
BY IdleIsFrame, CallChanges DEF Return

LEMMA Faulting ==
  ASSUME TypeOK, NEW kind, Fault(kind)
  PROVE  faults' \in 0..MaxFaults
BY ConstantsAssumption DEF TypeOK, Fault

\* A step that changes calls, Messages and idle times only.
LEMMA CallsOnly ==
  ASSUME IInv,
         call' \in [Workers -> Frame],
         \A v \in Workers : call'[v].op = "ack" => call'[v] = call[v],
         held' \in [Workers -> SUBSET Handle],
         \A v \in Workers : held'[v] \subseteq Handed,
         UNCHANGED <<log, cursor, pel, published, acked, acks>>,
         idle' \subseteq pel["stream"],
         claims' \in 0..MaxClaims,
         faults' \in 0..MaxFaults
  PROVE  IInv'
<1>1. TypeOK'
  BY DEF IInv, TypeOK
<1>2. Handed' = Handed
  BY DEF Handed, Handle
<1>3. Shape'
  BY <1>2 DEF IInv, Shape
<1>4. Superseded' \subseteq Superseded
  BY DEF Superseded
<1>5. \A k \in Keys : Live(k)' = Live(k)
  BY DEF Live
<1>6. HasStanding'
  BY <1>4, <1>5, NothingSuperseded
<1> QED BY <1>1, <1>3, <1>6 DEF IInv

\* What CallsOnly asks of the parts that a step leaves alone.
LEMMA PartsHold ==
  ASSUME IInv
  PROVE  /\ call \in [Workers -> Frame]
         /\ held \in [Workers -> SUBSET Handle]
         /\ \A v \in Workers : held[v] \subseteq Handed
         /\ idle \subseteq pel["stream"]
         /\ claims \in 0..MaxClaims
         /\ faults \in 0..MaxFaults
BY DEF IInv, TypeOK, Shape

LEMMA AgeKeeps ==
  ASSUME IInv, NEW r \in Raws, Age(r)
  PROVE  IInv'
<1>1. /\ idle' \subseteq pel["stream"]
      /\ UNCHANGED <<log, cursor, pel, call, held, published, acked, acks, claims, faults>>
  BY PartsHold DEF Age, history
<1> QED BY <1>1, PartsHold, CallsOnly

LEMMA WaitKeeps ==
  ASSUME IInv, NEW w \in Workers, NEW n \in 1..MaxBatch, NEW timeout \in Timeouts,
         Wait(w, n, timeout)
  PROVE  IInv'
<1> DEFINE f == [op |-> "consume", count |-> n, timeout |-> timeout]
<1>1. f \in Frame /\ f.op # "ack"
  BY DEF Frame
<1>2. /\ call' = [call EXCEPT ![w] = f]
      /\ UNCHANGED <<log, cursor, pel, idle, held, published, acked, acks, claims, faults>>
  BY DEF Wait, redis, history
<1>3. /\ call' \in [Workers -> Frame]
      /\ \A v \in Workers : call'[v].op = "ack" => call'[v] = call[v]
  BY <1>1, <1>2, CallChanges DEF IInv
<1> QED BY <1>2, <1>3, PartsHold, CallsOnly

LEMMA WaitEndsKeeps ==
  ASSUME IInv, NEW w \in Workers, WaitEnds(w)
  PROVE  IInv'
<1>1. /\ Return(w)
      /\ UNCHANGED <<log, cursor, pel, idle, held, published, acked, acks, claims, faults>>
  BY DEF WaitEnds, redis, history
<1>2. /\ call' \in [Workers -> Frame]
      /\ \A v \in Workers : call'[v].op = "ack" => call'[v] = call[v]
  BY <1>1, Returning DEF IInv
<1> QED BY <1>1, <1>2, PartsHold, CallsOnly

LEMMA ListPendingKeeps ==
  ASSUME IInv, NEW w \in Workers, ListPending(w)
  PROVE  IInv'
<1> DEFINE f == [op |-> "claim", raws |-> Listed]
<1>1. f \in Frame /\ f.op # "ack"
  <2>1. Listed \subseteq Raws
    BY DEF IInv, TypeOK, Listed, FirstOf, Keys
  <2> QED BY <2>1 DEF Frame
<1>2. /\ call' = [call EXCEPT ![w] = f]
      /\ UNCHANGED <<log, cursor, pel, idle, held, published, acked, acks, claims, faults>>
  BY DEF ListPending, redis, history
<1>3. /\ call' \in [Workers -> Frame]
      /\ \A v \in Workers : call'[v].op = "ack" => call'[v] = call[v]
  BY <1>1, <1>2, CallChanges DEF IInv
<1> QED BY <1>2, <1>3, PartsHold, CallsOnly

LEMMA CrashKeeps ==
  ASSUME IInv, NEW w \in Workers, Crash(w)
  PROVE  IInv'
<1>1. /\ call' = [call EXCEPT ![w] = Idle]
      /\ held' = [held EXCEPT ![w] = {}]
      /\ Fault("crash")
      /\ UNCHANGED <<log, cursor, pel, idle, published, acked, acks, claims>>
  BY DEF Crash, redis, history
<1>2. /\ call' \in [Workers -> Frame]
      /\ \A v \in Workers : call'[v].op = "ack" => call'[v] = call[v]
  BY <1>1, IdleIsFrame, CallChanges DEF IInv
<1>3. faults' \in 0..MaxFaults
  BY <1>1, Faulting DEF IInv
<1>4. /\ held' \in [Workers -> SUBSET Handle]
      /\ \A v \in Workers : held'[v] \subseteq Handed
  BY <1>1, PartsHold
<1> QED BY <1>1, <1>2, <1>3, <1>4, PartsHold, CallsOnly

-----------------------------------------------------------------------------
(* Steps that give entries to a worker. *)

\* The Messages made from entries are of entries that were handed out, and
\* they can be counted.
LEMMA DecodedHandles ==
  ASSUME TypeOK, NEW k \in Keys, NEW raws \in SUBSET Raws
  PROVE  /\ Decoded(k, raws) \subseteq {[key |-> k, raw |-> r] : r \in raws}
         /\ Decoded(k, raws) \subseteq Handle
         /\ Cardinality(Decoded(k, raws)) \in Nat
<1> DEFINE all == {[key |-> k, raw |-> r] : r \in raws}
           f == [r \in raws |-> [key |-> k, raw |-> r]]
<1>1. Decoded(k, raws) \subseteq all
  BY DEF Decoded
<1>2. all \subseteq Handle
  BY DEF Handle
<1>3. IsFiniteSet(raws)
  <2>1. IsFiniteSet(Raws)
    BY ConstantsAssumption, FS_Interval DEF Raws
  <2> QED BY <2>1, FS_Subset
<1>4. f \in Surjection(raws, all)
  BY DEF Surjection
<1>5. IsFiniteSet(all)
  BY <1>3, <1>4, FS_Surjection
<1>6. Cardinality(Decoded(k, raws)) \in Nat
  BY <1>1, <1>5, FS_Subset, FS_CardinalityType
<1> QED BY <1>1, <1>2, <1>6

LEMMA Giving ==
  ASSUME TypeOK, NEW w \in Workers, NEW handles \in SUBSET Handle,
         NEW Ok, handles \subseteq Ok, \A v \in Workers : held[v] \subseteq Ok,
         Give(w, handles)
  PROVE  /\ held' \in [Workers -> SUBSET Handle]
         /\ \A v \in Workers : held'[v] \subseteq Ok
BY DEF TypeOK, Give

LEMMA ClaimedKeeps ==
  ASSUME IInv, NEW w \in Workers, NEW raws \in SUBSET idle, Claimed(w, raws)
  PROVE  IInv'
<1> DEFINE messages == Decoded("stream", raws)
<1>1. /\ idle' = idle \ raws
      /\ Return(w)
      /\ UNCHANGED <<log, cursor, pel, published, acked, acks, faults>>
      /\ \/ UNCHANGED <<held, claims>>
         \/ /\ Give(w, messages)
            /\ claims' = Least(claims + Cardinality(messages), MaxClaims)
  BY DEF Claimed
<1>2. /\ "stream" \in Keys
      /\ raws \subseteq pel["stream"] /\ raws \in SUBSET Raws
      /\ \A r \in raws : r <= cursor["stream"]
  <2>1. pel["stream"] \subseteq 1..cursor["stream"] /\ cursor["stream"] \in Nat
    BY DEF IInv, TypeOK, Shape, Keys
  <2> QED BY <2>1 DEF IInv, TypeOK, Keys
<1>3. messages \subseteq {[key |-> "stream", raw |-> r] : r \in raws}
  BY <1>2, DecodedHandles DEF IInv
<1>4. messages \in SUBSET Handle /\ Cardinality(messages) \in Nat
  BY <1>2, DecodedHandles DEF IInv
<1> HIDE DEF messages
<1>5. messages \subseteq Handed
  BY <1>2, <1>3, <1>4 DEF Handed
<1>6. /\ held' \in [Workers -> SUBSET Handle]
      /\ \A v \in Workers : held'[v] \subseteq Handed
  BY <1>1, <1>4, <1>5, PartsHold, Giving DEF IInv
<1>7. claims' \in 0..MaxClaims
  BY <1>1, <1>4, PartsHold, ConstantsAssumption DEF Least
<1>8. /\ call' \in [Workers -> Frame]
      /\ \A v \in Workers : call'[v].op = "ack" => call'[v] = call[v]
  BY <1>1, Returning DEF IInv
<1>9. idle' \subseteq pel["stream"]
  BY <1>1, PartsHold
<1> QED BY <1>1, <1>6, <1>7, <1>8, <1>9, PartsHold, CallsOnly

LEMMA RecoverKeeps ==
  ASSUME IInv, NEW w \in Workers, Recover(w) \/ Claim(w)
  PROVE  IInv'
<1>1. FirstOf(idle, Limit) \in SUBSET idle
  BY DEF FirstOf
<1>2. idle \cap call[w].raws \in SUBSET idle
  OBVIOUS
<1>3. Claimed(w, FirstOf(idle, Limit)) \/ Claimed(w, idle \cap call[w].raws)
  BY DEF Recover, Claim
<1> QED BY <1>1, <1>2, <1>3, ClaimedKeeps

LEMMA RecoverRaisesKeeps ==
  ASSUME IInv, NEW w \in Workers, RecoverRaises(w)
  PROVE  IInv'
<1>1. /\ \E kind : Fault(kind)
      /\ idle' \subseteq idle
      /\ Return(w)
      /\ UNCHANGED <<log, cursor, pel, held, published, acked, acks, claims>>
  BY DEF RecoverRaises, history
<1>2. faults' \in 0..MaxFaults
  BY <1>1, Faulting DEF IInv
<1>3. /\ call' \in [Workers -> Frame]
      /\ \A v \in Workers : call'[v].op = "ack" => call'[v] = call[v]
  BY <1>1, Returning DEF IInv
<1>4. idle' \subseteq pel["stream"]
  BY <1>1, PartsHold
<1> QED BY <1>1, <1>2, <1>3, <1>4, PartsHold, CallsOnly

\* Entries are handed out, to a worker or, when the reply is lost, to nobody.
LEMMA HandedOutKeeps ==
  ASSUME IInv, NEW k \in Keys, NEW n \in Nat, NEW w \in Workers,
         HandOut(k, NewEntries(k, n)),
         UNCHANGED held \/ Give(w, Decoded(k, NewEntries(k, n))),
         call' \in [Workers -> Frame],
         \A v \in Workers : call'[v].op = "ack" => call'[v] = call[v],
         UNCHANGED history,
         faults' \in 0..MaxFaults
  PROVE  IInv'
<1> DEFINE raws == NewEntries(k, n)
           messages == Decoded(k, raws)
<1>1. /\ log' = log /\ idle' = idle
      /\ cursor' \in [Keys -> 0..MaxEntries]
      /\ pel' \in [Keys -> SUBSET Raws]
      /\ \A j \in Keys : /\ cursor[j] <= cursor'[j]
                         /\ cursor'[j] <= Len(log[j])
                         /\ pel[j] \subseteq pel'[j]
                         /\ pel'[j] \subseteq 1..cursor'[j]
                         /\ Live(j)' = Live(j)
      /\ raws \subseteq 1..cursor'[k]
  BY HandingOut DEF IInv
<1>2. \A j \in Keys : cursor[j] \in Nat /\ cursor'[j] \in Nat
  BY <1>1, ConstantsAssumption DEF IInv, TypeOK
<1>3. Handed \subseteq Handed'
  BY <1>1, <1>2 DEF Handed, Handle, Raws
<1>4. raws \in SUBSET Raws
  BY <1>1, <1>2, ConstantsAssumption DEF Raws
<1>5. /\ messages \subseteq {[key |-> k, raw |-> r] : r \in raws}
      /\ messages \in SUBSET Handle
  BY <1>4, DecodedHandles DEF IInv
<1>6. messages \subseteq Handed'
  BY <1>1, <1>2, <1>5 DEF Handed
<1>7. \A v \in Workers : held[v] \subseteq Handed'
  BY <1>3, PartsHold
<1>8. /\ held' \in [Workers -> SUBSET Handle]
      /\ \A v \in Workers : held'[v] \subseteq Handed'
  BY <1>5, <1>6, <1>7, PartsHold, Giving DEF IInv
<1>9. \A v \in Workers : call'[v].op = "ack" => call'[v].handle \in Handed'
  BY <1>3 DEF IInv, Shape
<1>10. Shape'
  BY <1>1, <1>8, <1>9 DEF Shape
<1>11. TypeOK'
  BY <1>1, <1>8 DEF IInv, TypeOK, history, Keys
<1>12. Superseded' \subseteq Superseded
  BY DEF Superseded
<1>13. HasStanding'
  BY <1>1, <1>12, NothingSuperseded DEF history
<1> QED BY <1>10, <1>11, <1>13 DEF IInv

LEMMA ConsumeKeeps ==
  ASSUME IInv, NEW w \in Workers, NEW n \in 1..MaxBatch,
         Consume(w, n) \/ ConsumeRaises(w, n)
  PROVE  IInv'
<1>1. /\ Return(w)
      /\ UNCHANGED history
      /\ faults' = faults \/ \E kind : Fault(kind)
      /\ \/ HandOut("stream", NewEntries("stream", n))
         \/ UNCHANGED redis /\ UNCHANGED held
      /\ UNCHANGED held \/ Give(w, Decoded("stream", NewEntries("stream", n)))
  BY DEF Consume, ConsumeRaises
<1>2. /\ call' \in [Workers -> Frame]
      /\ \A v \in Workers : call'[v].op = "ack" => call'[v] = call[v]
  BY <1>1, Returning DEF IInv
<1>3. faults' \in 0..MaxFaults
  BY <1>1, PartsHold, Faulting DEF IInv
<1>4. "stream" \in Keys /\ n \in Nat
  BY DEF Keys
<1>5. CASE HandOut("stream", NewEntries("stream", n))
  BY <1>1, <1>2, <1>3, <1>4, <1>5, HandedOutKeeps
<1>6. CASE UNCHANGED redis /\ UNCHANGED held
  <2>1. UNCHANGED <<log, cursor, pel, idle, held, published, acked, acks, claims>>
    BY <1>1, <1>6 DEF redis, history
  <2> QED BY <2>1, <1>2, <1>3, PartsHold, CallsOnly
<1> QED BY <1>1, <1>5, <1>6

LEMMA DeadLettersKeeps ==
  ASSUME IInv, NEW w \in Workers, DeadLetters(w) \/ DeadLettersRaises(w)
  PROVE  IInv'
<1>1. /\ call' = call
      /\ UNCHANGED history
      /\ faults' = faults \/ \E kind : Fault(kind)
      /\ HandOut("dead", NewEntries("dead", Limit))
      /\ UNCHANGED held \/ Give(w, Decoded("dead", NewEntries("dead", Limit)))
  BY DEF DeadLetters, DeadLettersRaises
<1>2. faults' \in 0..MaxFaults
  BY <1>1, PartsHold, Faulting DEF IInv
<1>3. "dead" \in Keys /\ Limit \in Nat
  BY ConstantsAssumption DEF Keys
<1>4. call' \in [Workers -> Frame]
  BY <1>1, PartsHold
<1> QED BY <1>1, <1>2, <1>3, <1>4, HandedOutKeeps

-----------------------------------------------------------------------------
(* Steps that append an entry. *)

\* The new entry stands, and so do the old ones that no call supersedes.
LEMMA AppendedStands ==
  ASSUME TypeOK, Shape, NEW k \in Keys, NEW p \in Payload, XAdd(k, p),
         Superseded' \subseteq Handed
  PROVE  /\ \E g \in Standing' : Entry(g)' = p
         /\ \A g \in Standing : g \in Superseded' \/ g \in Standing'
<1>1. \A j \in Keys : Live(j) \subseteq Live(j)'
  BY AddingEntry
<1>2. PICK new : /\ new \in Handle \ Handed
                 /\ new.key = k
                 /\ new.raw \in Live(k)'
                 /\ log'[k][new.raw] = p
  BY AddingEntry
<1>3. new \in Standing'
  BY <1>2 DEF Standing
<1>4. Entry(new)' = p
  BY <1>2 DEF Entry
<1>5. \A g \in Standing : g \in Superseded' \/ g \in Standing'
  BY <1>1 DEF Standing, Handle
<1> QED BY <1>3, <1>4, <1>5

LEMMA AppendShape ==
  ASSUME IInv, NEW k \in Keys, NEW p \in Payload, XAdd(k, p),
         held' = held, call' \in [Workers -> Frame],
         \A v \in Workers : call'[v].op = "ack" => call'[v].handle \in Handed,
         published' \in SUBSET Ids,
         UNCHANGED <<acked, acks, claims>>,
         faults' \in 0..MaxFaults
  PROVE  TypeOK' /\ Shape' /\ Grown /\ Superseded' \subseteq Handed
<1>1. /\ log' \in [Keys -> Seq(Payload)]
      /\ \A j \in Keys : Len(log'[j]) <= MaxEntries /\ cursor[j] <= Len(log'[j])
      /\ Grown
  BY AddingEntry DEF IInv
<1>2. UNCHANGED <<cursor, pel, idle>>
  BY DEF XAdd
<1>3. TypeOK'
  BY <1>1, <1>2 DEF IInv, TypeOK
<1>4. Handed' = Handed
  BY <1>2 DEF Handed, Handle
<1>5. Shape'
  BY <1>1, <1>2, <1>4 DEF IInv, Shape
<1>6. Superseded' \subseteq Handed
  BY DEF Superseded
<1> QED BY <1>1, <1>3, <1>5, <1>6

LEMMA PublishKeeps ==
  ASSUME IInv, NEW id \in Ids, Publish(id)
  PROVE  IInv'
<1> DEFINE p == [id |-> id, attempts |-> 0]
<1>1. "stream" \in Keys /\ p \in Payload
  BY ConstantsAssumption DEF Keys, Payload
<1>2. /\ XAdd("stream", p)
      /\ published' = published \cup {id}
      /\ UNCHANGED <<call, held, acked, acks, claims, faults>>
  BY DEF Publish
<1>3. p.id = id
  OBVIOUS
<1> HIDE DEF p
<1>4. published' \in SUBSET Ids
  BY <1>2 DEF IInv, TypeOK
<1>5. \A v \in Workers : call'[v].op = "ack" => call'[v].handle \in Handed
  BY <1>2 DEF IInv, Shape
<1>6. TypeOK' /\ Shape' /\ Grown /\ Superseded' \subseteq Handed
  BY <1>1, <1>2, <1>4, <1>5, PartsHold, AppendShape
<1>7. /\ \E g \in Standing' : Entry(g)' = p
      /\ \A g \in Standing : g \in Superseded' \/ g \in Standing'
  BY <1>1, <1>2, <1>6, AppendedStands DEF IInv
<1>8. \A g \in Standing : g \in Standing' /\ Entry(g)' = Entry(g)
  <2>1. Superseded' = Superseded
    BY <1>2 DEF Superseded
  <2>2. \A g \in Standing : g \notin Superseded
    BY DEF Standing
  <2> QED BY <1>6, <1>7, <2>1, <2>2, StandingExists DEF IInv
<1>9. HasStanding'
  <2> SUFFICES ASSUME NEW i \in published', i \notin acked'
               PROVE  \E g \in Standing' : Entry(g)'.id = i
    BY DEF HasStanding
  <2>1. CASE i = id
    BY <2>1, <1>3, <1>7
  <2>2. CASE i # id
    <3>1. PICK g \in Standing : Entry(g).id = i
      BY <2>2, <1>2 DEF IInv, HasStanding
    <3> QED BY <3>1, <1>8
  <2> QED BY <2>1, <2>2
<1> QED BY <1>6, <1>9 DEF IInv

\* The copies of an entry are of the same message.
LEMMA CopiesAreOf ==
  ASSUME TypeOK, Shape, NEW h \in Handed, NEW c \in Copies(h)
  PROVE  c[1] \in Keys /\ c[2] \in Payload /\ c[2].id = Entry(h).id
<1>1. Entry(h) \in Payload
  <2>1. h \in Handle /\ h.key \in Keys /\ h.raw \in Nat \ {0}
    BY ConstantsAssumption DEF Handed, Handle, Raws
  <2>2. /\ log[h.key] \in Seq(Payload)
        /\ cursor[h.key] \in Nat
        /\ cursor[h.key] <= Len(log[h.key])
        /\ h.raw <= cursor[h.key]
    BY <2>1, ConstantsAssumption DEF TypeOK, Shape, Handed
  <2>3. h.raw \in 1..Len(log[h.key])
    BY <2>1, <2>2
  <2> QED BY <2>2, <2>3 DEF Entry
<1> DEFINE e == Entry(h)
<1>2. e.id \in Ids /\ e.attempts \in 0..MaxRetries
  BY <1>1 DEF Payload
<1>3. Fresh(e) \in Payload /\ Fresh(e).id = e.id
  BY <1>1, <1>2, ConstantsAssumption DEF Fresh, Payload
<1>4. ~Exhausted(e) => WithAttempt(e) \in Payload /\ WithAttempt(e).id = e.id
  BY <1>1, <1>2, ConstantsAssumption DEF WithAttempt, Payload, Exhausted
<1>5. \/ c = <<"stream", Fresh(e)>>
      \/ c = <<"dead", e>>
      \/ c = <<"stream", WithAttempt(e)>> /\ ~Exhausted(e)
  BY DEF Copies
<1>6. {"stream", "dead"} \subseteq Keys
  BY DEF Keys
<1> HIDE DEF e
<1>7. c[2] \in Payload /\ c[2].id = e.id /\ c[1] \in Keys
  BY <1>1, <1>3, <1>4, <1>5, <1>6 DEF e
<1> QED BY <1>7 DEF e

LEMMA CopyKeeps ==
  ASSUME IInv, NEW w \in Workers, NEW h \in held[w], Copy(w, h) \/ CopyRaises(w, h)
  PROVE  IInv'
<1> DEFINE f == [op |-> "ack", handle |-> h]
<1>1. h \in Handed /\ h \in Handle
  BY DEF IInv, Shape, Handed
<1>2. PICK c \in Copies(h) : XAdd(c[1], c[2])
  BY DEF Copy, CopyRaises
<1>3. c[1] \in Keys /\ c[2] \in Payload /\ c[2].id = Entry(h).id
  BY <1>1, CopiesAreOf DEF IInv
<1>4. /\ UNCHANGED <<held, published, acked, acks, claims>>
      /\ faults' = faults \/ \E kind : Fault(kind)
      /\ call' = call \/ call' = [call EXCEPT ![w] = f]
  BY DEF Copy, CopyRaises, history
<1>5. f \in Frame /\ f.handle = h
  BY <1>1 DEF Frame
<1> HIDE DEF f
<1>6. /\ call' \in [Workers -> Frame]
      /\ \A v \in Workers : call'[v] = call[v] \/ call'[v] = f
  BY <1>4, <1>5, PartsHold
<1>7. \A v \in Workers : call'[v].op = "ack" => call'[v].handle \in Handed
  BY <1>1, <1>5, <1>6 DEF IInv, Shape
<1>8. faults' \in 0..MaxFaults
  BY <1>4, PartsHold, Faulting DEF IInv
<1>9. published' \in SUBSET Ids
  BY <1>4 DEF IInv, TypeOK
<1>10. TypeOK' /\ Shape' /\ Grown /\ Superseded' \subseteq Handed
  BY <1>2, <1>3, <1>4, <1>6, <1>7, <1>8, <1>9, AppendShape
<1>11. /\ \E g \in Standing' : Entry(g)' = c[2]
       /\ \A g \in Standing : g \in Superseded' \/ g \in Standing'
  BY <1>2, <1>3, <1>10, AppendedStands DEF IInv
<1>12. Superseded' \subseteq Superseded \cup {h}
  BY <1>5, <1>6 DEF Superseded
<1>13. ASSUME NEW g \in Standing
       PROVE  g \in Standing' \/ \E i \in Standing' : Entry(i)'.id = Entry(g).id
  <2>1. g \notin Superseded
    BY DEF Standing
  <2> QED BY <1>3, <1>11, <1>12, <2>1
<1>14. HasStanding'
  BY <1>4, <1>10, <1>13, StandingKept
<1> QED BY <1>10, <1>14 DEF IInv

-----------------------------------------------------------------------------
(* Steps that acknowledge an entry. *)

\* XACK takes one entry off the pending ones and touches no other.
LEMMA Acknowledging ==
  ASSUME TypeOK, Shape, NEW h \in Handed, Acknowledge(h)
  PROVE  /\ log' = log /\ cursor' = cursor
         /\ pel' \in [Keys -> SUBSET Raws]
         /\ idle' \subseteq pel'["stream"]
         /\ \A j \in Keys : pel'[j] \subseteq pel[j]
         /\ \A g \in Handle : g # h /\ g.raw \in Live(g.key) => g.raw \in Live(g.key)'
<1>1. /\ h \in Handle /\ h.key \in Keys
      /\ pel \in [Keys -> SUBSET Raws] /\ idle \subseteq pel["stream"]
      /\ "stream" \in Keys
  BY DEF TypeOK, Handed, Handle, Keys
<1>2. /\ log' = log /\ cursor' = cursor
      /\ pel' = [pel EXCEPT ![h.key] = @ \ {h.raw}]
      /\ idle' = IF h.key = "stream" THEN idle \ {h.raw} ELSE idle
  BY DEF Acknowledge
<1>3. /\ pel'[h.key] = pel[h.key] \ {h.raw}
      /\ \A j \in Keys : j # h.key => pel'[j] = pel[j]
      /\ pel' \in [Keys -> SUBSET Raws]
  BY <1>1, <1>2
<1>4. idle' \subseteq pel'["stream"]
  BY <1>1, <1>2, <1>3
<1>5. ASSUME NEW g \in Handle, g # h, g.raw \in Live(g.key)
      PROVE  g.raw \in Live(g.key)'
  <2>1. g.key # h.key \/ g.raw # h.raw
    BY <1>1, <1>5 DEF Handle
  <2>2. g.key \in Keys
    BY DEF Handle
  <2>3. CASE g.key # h.key
    BY <2>2, <2>3, <1>2, <1>3, <1>5 DEF Live
  <2>4. CASE g.key = h.key /\ g.raw # h.raw
    BY <2>4, <1>2, <1>3, <1>5 DEF Live
  <2> QED BY <2>1, <2>3, <2>4
<1> QED BY <1>1, <1>2, <1>3, <1>4, <1>5

LEMMA AcknowledgeKeeps ==
  ASSUME IInv, NEW h \in Handed, Acknowledge(h),
         call' \in [Workers -> Frame],
         \A v \in Workers : call'[v].op = "ack" => call'[v] = call[v],
         held' \in [Workers -> SUBSET Handle],
         \A v \in Workers : held'[v] \subseteq held[v],
         published' = published,
         acked' \in SUBSET Ids, acked \subseteq acked', acks' \in Nat,
         claims' \in 0..MaxClaims,
         faults' \in 0..MaxFaults,
         h \in Standing => Entry(h).id \in acked'
  PROVE  IInv'
<1>1. /\ log' = log /\ cursor' = cursor
      /\ pel' \in [Keys -> SUBSET Raws]
      /\ idle' \subseteq pel'["stream"]
      /\ \A j \in Keys : pel'[j] \subseteq pel[j]
      /\ \A g \in Handle : g # h /\ g.raw \in Live(g.key) => g.raw \in Live(g.key)'
  BY Acknowledging DEF IInv
<1>2. TypeOK'
  BY <1>1 DEF IInv, TypeOK
<1>3. Handed' = Handed
  BY <1>1 DEF Handed, Handle
<1>4. Shape'
  <2>1. \A k \in Keys : cursor'[k] <= Len(log'[k]) /\ pel'[k] \subseteq 1..cursor'[k]
    BY <1>1 DEF IInv, Shape
  <2>2. \A v \in Workers : held'[v] \subseteq Handed'
    BY <1>3 DEF IInv, Shape
  <2>3. \A v \in Workers : call'[v].op = "ack" => call'[v].handle \in Handed'
    BY <1>3 DEF IInv, Shape
  <2> QED BY <2>1, <2>2, <2>3 DEF Shape
<1>5. Grown
  <2>1. \A k \in Keys : Len(log[k]) \in Nat
    BY DEF IInv, TypeOK
  <2> QED BY <1>1, <2>1 DEF Grown
<1>6. Superseded' \subseteq Superseded
  BY DEF Superseded
<1>7. \A g \in Standing : g = h \/ g \in Standing'
  BY <1>1, <1>6 DEF Standing
<1>8. HasStanding'
  BY <1>5, <1>7, StandingKept
<1> QED BY <1>2, <1>4, <1>8 DEF IInv

\* The entry of a Message is pending or gone: when XACK takes it off the
\* list, its message is acknowledged.
LEMMA AckKeeps ==
  ASSUME IInv, NEW w \in Workers, NEW h \in held[w], Ack(w, h) \/ AckReplyLost(w, h)
  PROVE  IInv'
<1>1. h \in Handed /\ h \in Handle /\ h.key = "stream" /\ "stream" \in Keys
  BY DEF IInv, Shape, Handed, Ack, AckReplyLost, Keys
<1>2. /\ Acknowledge(h)
      /\ call' = call /\ published' = published /\ claims' = claims
      /\ faults' = faults \/ \E kind : Fault(kind)
      /\ held' = held \/ Done(w, h)
      /\ \/ acked' = acked \cup {Entry(h).id} /\ acks' = acks + 1
         \/ h.raw \notin pel["stream"] /\ UNCHANGED <<acked, acks>>
  BY DEF Ack, AckReplyLost
<1>3. /\ held' \in [Workers -> SUBSET Handle]
      /\ \A v \in Workers : held'[v] \subseteq held[v]
  BY <1>2, PartsHold DEF Done
<1>4. faults' \in 0..MaxFaults
  BY <1>2, PartsHold, Faulting DEF IInv
<1>5. h.raw \in Live("stream") => h.raw \in pel["stream"]
  <2>1. cursor["stream"] \in Nat /\ h.raw <= cursor["stream"] /\ h.raw \in Nat
    BY <1>1, ConstantsAssumption DEF IInv, TypeOK, Handed, Handle, Raws
  <2>2. h.raw \notin cursor["stream"] + 1 .. Len(log["stream"])
    BY <2>1
  <2> QED BY <2>2 DEF Live
<1>6. h \in Standing => Entry(h).id \in acked'
  BY <1>1, <1>2, <1>5 DEF Standing
<1>7. acked' \in SUBSET Ids /\ acked \subseteq acked' /\ acks' \in Nat
  <2>1. Entry(h).id \in Ids
    <3>1. <<"stream", Fresh(Entry(h))>> \in Copies(h)
      BY <1>1 DEF Copies
    <3>2. /\ <<"stream", Fresh(Entry(h))>>[2] \in Payload
          /\ <<"stream", Fresh(Entry(h))>>[2].id = Entry(h).id
      BY <3>1, <1>1, CopiesAreOf DEF IInv
    <3> QED BY <3>2 DEF Payload
  <2> QED BY <1>2, <2>1 DEF IInv, TypeOK
<1> QED BY <1>1, <1>2, <1>3, <1>4, <1>6, <1>7, PartsHold, AcknowledgeKeeps

LEMMA ConfirmKeeps ==
  ASSUME IInv, NEW w \in Workers, Confirm(w) \/ ConfirmRaises(w)
  PROVE  IInv'
<1> DEFINE h == call[w].handle
<1>1. call[w].op = "ack" /\ h \in Handed
  BY DEF IInv, Shape, Confirm, ConfirmRaises
<1>2. /\ Acknowledge(h) \/ UNCHANGED redis
      /\ call' = [call EXCEPT ![w] = Idle]
      /\ held' = held \/ Done(w, h)
      /\ UNCHANGED history
      /\ faults' = faults \/ \E kind : Fault(kind)
      /\ UNCHANGED redis => held' = held \/ Acknowledge(h)
  BY DEF Confirm, ConfirmRaises
<1>3. h \notin Standing
  BY <1>1 DEF Standing, Superseded
<1> HIDE DEF h
<1>4. /\ call' \in [Workers -> Frame]
      /\ \A v \in Workers : call'[v].op = "ack" => call'[v] = call[v]
  BY <1>2, IdleIsFrame, CallChanges DEF IInv
<1>5. faults' \in 0..MaxFaults
  BY <1>2, PartsHold, Faulting DEF IInv
<1>6. /\ held' \in [Workers -> SUBSET Handle]
      /\ \A v \in Workers : held'[v] \subseteq held[v]
  BY <1>2, PartsHold DEF Done
<1>7. UNCHANGED <<published, acked, acks, claims>>
  BY <1>2 DEF history
<1>8. acked' \in SUBSET Ids /\ acks' \in Nat
  BY <1>7 DEF IInv, TypeOK
<1>9. CASE Acknowledge(h)
  BY <1>1, <1>3, <1>4, <1>5, <1>6, <1>7, <1>8, <1>9, PartsHold, AcknowledgeKeeps
<1>10. CASE UNCHANGED redis
  <2>1. UNCHANGED <<log, cursor, pel, idle>>
    BY <1>10 DEF redis
  <2>2. \A v \in Workers : held'[v] \subseteq Handed
    BY <1>6, PartsHold
  <2> QED BY <2>1, <2>2, <1>4, <1>5, <1>6, <1>7, PartsHold, CallsOnly
<1> QED BY <1>2, <1>9, <1>10

-----------------------------------------------------------------------------
(* The invariant is inductive. *)

LEMMA InitHolds == Init => IInv
<1> SUFFICES ASSUME Init PROVE IInv
  OBVIOUS
<1>1. TypeOK
  BY IdleIsFrame, ConstantsAssumption DEF Init, TypeOK, Raws
<1>2. Shape
  BY DEF Init, Shape, Idle, Handed
<1>3. HasStanding
  BY DEF Init, HasStanding
<1> QED BY <1>1, <1>2, <1>3 DEF IInv

LEMMA StepKeeps == IInv /\ [Next]_vars => IInv'
<1> SUFFICES ASSUME IInv, [Next]_vars PROVE IInv'
  OBVIOUS
<1>1. CASE UNCHANGED vars
  <2>1. UNCHANGED <<log, cursor, pel, idle, call, held, published, acked, acks, claims, faults>>
    BY <1>1 DEF vars
  <2> QED BY <2>1, PartsHold, CallsOnly
<1>2. CASE \E id \in Ids : Publish(id)
  BY <1>2, PublishKeeps
<1>3. CASE \E r \in Raws : Age(r)
  BY <1>3, AgeKeeps
<1>4. ASSUME NEW w \in Workers,
             \/ \E n \in 1..MaxBatch : Consume(w, n) \/ ConsumeRaises(w, n)
             \/ \E h \in held[w] :
                  Ack(w, h) \/ AckReplyLost(w, h) \/ Copy(w, h) \/ CopyRaises(w, h)
             \/ Confirm(w)
             \/ ConfirmRaises(w)
             \/ \E n \in 1..MaxBatch, timeout \in Timeouts : Wait(w, n, timeout)
             \/ WaitEnds(w)
             \/ Recover(w)
             \/ ListPending(w)
             \/ Claim(w)
             \/ RecoverRaises(w)
             \/ DeadLetters(w)
             \/ DeadLettersRaises(w)
             \/ Crash(w)
      PROVE  IInv'
  BY <1>4, ConsumeKeeps, AckKeeps, CopyKeeps, ConfirmKeeps, WaitKeeps, WaitEndsKeeps,
     RecoverKeeps, ListPendingKeeps, RecoverRaisesKeeps, DeadLettersKeeps, CrashKeeps
<1> QED BY <1>1, <1>2, <1>3, <1>4 DEF Next

\* Every variable keeps its type; in particular no chain of nacks, retries and
\* recoveries takes an attempt counter above max_retries, and only pending
\* entries are claimed.
THEOREM TypeCorrect == Spec => []TypeOK
<1>1. IInv => TypeOK
  BY DEF IInv
<1> QED BY <1>1, InitHolds, StepKeeps, PTL DEF Spec

\* No message of a stream is lost, whatever fails, whoever claims what and in
\* whatever order calls interleave: nack, retry and requeue_dead write the copy
\* before they acknowledge the original.
THEOREM NothingIsEverLost == Spec => []NeverLost
<1>1. IInv => NeverLost
  <2> SUFFICES ASSUME IInv, NEW id \in published, id \notin acked
               PROVE  id \in LiveIds
    BY DEF NeverLost
  <2>1. PICK h \in Standing : Entry(h).id = id
    BY DEF IInv, HasStanding
  <2>2. h.key \in Keys /\ h.raw \in Live(h.key)
    BY DEF Standing, Handle
  <2> QED BY <2>1, <2>2 DEF LiveIds, Entry
<1> QED BY <1>1, InitHolds, StepKeeps, PTL DEF Spec

-----------------------------------------------------------------------------
(* Counting copies.                                                        *)
(*                                                                         *)
(* CopiesHaveCauses is not inductive: it bounds the standing copies, and   *)
(* says nothing of the Messages that workers still hold, each of which can *)
(* be acknowledged or copied once more.  What is counted instead is        *)
(* shares: a Message that its holder may act on, and a standing copy of    *)
(* which there is no such Message.                                         *)

\* The next command of w acknowledges h, which it has copied.
Confirms(w, h) == call[w].op = "ack" /\ call[w].handle = h

ActsOn(w, h) == h \in held[w] /\ ~Confirms(w, h)

Unheld(h) == h \in Standing /\ \A w \in Workers : ~ActsOn(w, h)

Nobody == CHOOSE n : n \notin Workers

Shares ==
  {s \in (Workers \cup {Nobody}) \X Handle :
     IF s[1] = Nobody THEN Unheld(s[2]) ELSE ActsOn(s[1], s[2])}

\* A call keeps the Message that it is about to acknowledge.
Holding == \A w \in Workers : call[w].op = "ack" => call[w].handle \in held[w]

\* There are at most as many shares and acks as messages, faults and claims.
Tally ==
  /\ IsFiniteSet(Shares)
  /\ IsFiniteSet(published)
  /\ claims < MaxClaims =>
       Cardinality(Shares) + acks <= Cardinality(published) + faults + claims

CInv == IInv /\ Holding /\ Tally

LEMMA NobodyIsNoWorker == Nobody \notin Workers
BY NoSetContainsEverything DEF Nobody

LEMMA SharesAre ==
  /\ \A w \in Workers, h \in Handle : <<w, h>> \in Shares <=> ActsOn(w, h)
  /\ \A h \in Handle : <<Nobody, h>> \in Shares <=> Unheld(h)
BY NobodyIsNoWorker DEF Shares

\* Where a step puts the shares.
LEMMA SharesWithin ==
  ASSUME NEW Z,
         \A h \in Handle : Unheld(h)' => <<Nobody, h>> \in Z,
         \A w \in Workers, h \in Handle : ActsOn(w, h)' => <<w, h>> \in Z
  PROVE  Shares' \subseteq Z
<1> SUFFICES ASSUME NEW s \in Shares' PROVE s \in Z
  OBVIOUS
<1>1. PICK v \in Workers \cup {Nobody}, h \in Handle :
         s = <<v, h>> /\ IF v = Nobody THEN Unheld(h)' ELSE ActsOn(v, h)'
  BY DEF Shares
<1> QED BY <1>1

\* A copy stands if it is live and no call is about to acknowledge it.
LEMMA StandingIs ==
  ASSUME NEW h \in Handle
  PROVE  /\ h \in Standing <=>
              h.raw \in Live(h.key) /\ \A w \in Workers : ~Confirms(w, h)
         /\ h \in Standing' <=>
              h.raw \in Live(h.key)' /\ \A w \in Workers : ~Confirms(w, h)'
BY DEF Standing, Superseded, Confirms

-----------------------------------------------------------------------------
(* Sets that lose, gain or exchange an element. *)

LEMMA NoMore ==
  ASSUME NEW X, NEW Y, IsFiniteSet(X), Y \subseteq X
  PROVE  IsFiniteSet(Y) /\ Cardinality(Y) <= Cardinality(X)
BY FS_Subset

LEMMA OneMore ==
  ASSUME NEW X, NEW Y, IsFiniteSet(X), NEW b, Y \subseteq X \cup {b}
  PROVE  IsFiniteSet(Y) /\ Cardinality(Y) <= Cardinality(X) + 1
<1>1. /\ IsFiniteSet(X \cup {b})
      /\ Cardinality(X \cup {b}) = Cardinality(X) \/ Cardinality(X \cup {b}) = Cardinality(X) + 1
  BY FS_AddElement
<1>2. IsFiniteSet(Y) /\ Cardinality(Y) <= Cardinality(X \cup {b})
  BY <1>1, FS_Subset
<1> QED BY <1>1, <1>2, FS_CardinalityType

LEMMA OneLess ==
  ASSUME NEW X, NEW Y, IsFiniteSet(X), NEW a \in X, Y \subseteq X \ {a}
  PROVE  IsFiniteSet(Y) /\ Cardinality(Y) + 1 <= Cardinality(X)
<1>1. IsFiniteSet(X \ {a}) /\ Cardinality(X \ {a}) = Cardinality(X) - 1
  BY FS_RemoveElement
<1>2. IsFiniteSet(Y) /\ Cardinality(Y) <= Cardinality(X \ {a})
  BY <1>1, FS_Subset
<1> QED BY <1>1, <1>2, FS_CardinalityType

LEMMA Exchanged ==
  ASSUME NEW X, NEW Y, IsFiniteSet(X), NEW a \in X, NEW b, Y \subseteq (X \ {a}) \cup {b}
  PROVE  IsFiniteSet(Y) /\ Cardinality(Y) <= Cardinality(X)
<1>1. IsFiniteSet(X \ {a}) /\ Cardinality(X \ {a}) + 1 <= Cardinality(X)
  BY OneLess
<1>2. IsFiniteSet(Y) /\ Cardinality(Y) <= Cardinality(X \ {a}) + 1
  BY <1>1, OneMore
<1> QED BY <1>1, <1>2, FS_CardinalityType

\* The shares of w in the entries that make up a set of Messages.
LEMMA ManyMore ==
  ASSUME NEW X, NEW Y, IsFiniteSet(X), NEW w, NEW M, IsFiniteSet(M),
         Y \subseteq X \cup {<<w, h>> : h \in M}
  PROVE  IsFiniteSet(Y) /\ Cardinality(Y) <= Cardinality(X) + Cardinality(M)
<1> DEFINE Z == {<<w, h>> : h \in M}
           f == [h \in M |-> <<w, h>>]
<1>1. f \in Surjection(M, Z)
  BY DEF Surjection
<1>2. IsFiniteSet(Z) /\ Cardinality(Z) <= Cardinality(M)
  BY <1>1, FS_Surjection
<1> HIDE DEF Z
<1>3. /\ IsFiniteSet(X \cup Z) /\ IsFiniteSet(X \cap Z)
      /\ Cardinality(X \cup Z) = Cardinality(X) + Cardinality(Z) - Cardinality(X \cap Z)
  BY <1>2, FS_Union, FS_Subset
<1>4. IsFiniteSet(Y) /\ Cardinality(Y) <= Cardinality(X \cup Z)
  BY <1>3, FS_Subset DEF Z
<1>5. PICK n \in Nat : n = Cardinality(X \cap Z)
  BY <1>3, FS_CardinalityType
<1> QED BY <1>2, <1>3, <1>4, <1>5, FS_CardinalityType

-----------------------------------------------------------------------------
(* What a step must show. *)

\* Acks and faults aside, the tally is about the number of shares.
LEMMA TallyKept ==
  ASSUME CInv, IInv', IsFiniteSet(Shares'), published' = published, claims' = claims,
         Cardinality(Shares') + acks' + faults <= Cardinality(Shares) + acks + faults'
  PROVE  Tally'
<1>1. /\ acks \in Nat /\ acks' \in Nat /\ faults \in Nat /\ faults' \in Nat
      /\ claims \in Nat /\ MaxClaims \in Nat
  BY ConstantsAssumption DEF CInv, IInv, TypeOK
<1>2. PICK m \in Nat, n \in Nat, p \in Nat :
        m = Cardinality(Shares) /\ n = Cardinality(Shares') /\ p = Cardinality(published)
  BY FS_CardinalityType DEF CInv, Tally
<1>3. claims < MaxClaims => m + acks <= p + faults + claims
  BY <1>2 DEF CInv, Tally
<1>4. n + acks' + faults <= m + acks + faults'
  BY <1>2
<1>5. claims' < MaxClaims => n + acks' <= p + faults' + claims'
  BY <1>1, <1>2, <1>3, <1>4
<1>6. IsFiniteSet(published')
  BY DEF CInv, Tally
<1> QED BY <1>2, <1>5, <1>6 DEF Tally

LEMMA Counts ==
  ASSUME CInv
  PROVE  /\ acks \in Nat /\ faults \in Nat /\ claims \in Nat /\ MaxClaims \in Nat
         /\ Cardinality(Shares) \in Nat /\ Cardinality(published) \in Nat
         /\ IsFiniteSet(Shares) /\ IsFiniteSet(published)
BY FS_CardinalityType, ConstantsAssumption DEF CInv, IInv, TypeOK, Tally

LEMMA FaultCounts ==
  ASSUME NEW kind, Fault(kind)
  PROVE  faults' = faults + 1
BY DEF Fault

\* A step that gives nobody a Message and moves no entry in or out.
LEMMA SharesStay ==
  ASSUME CInv, IInv',
         held' = held, published' = published, acks' = acks, claims' = claims,
         faults' = faults \/ faults' = faults + 1,
         \A k \in Keys : Live(k)' = Live(k),
         \A v \in Workers : /\ call'[v].op = "ack" => call'[v] = call[v]
                            /\ call[v].op = "ack" => call'[v] = call[v]
  PROVE  Holding' /\ Tally'
<1>1. \A v \in Workers, h \in Handle : Confirms(v, h)' <=> Confirms(v, h)
  BY DEF Confirms
<1>2. \A h \in Handle : h.key \in Keys
  BY DEF Handle
<1>3. \A h \in Handle : h \in Standing' <=> h \in Standing
  BY <1>1, <1>2, StandingIs
<1>4. \A v \in Workers, h \in Handle : ActsOn(v, h)' <=> ActsOn(v, h)
  BY <1>1 DEF ActsOn
<1>5. \A h \in Handle : Unheld(h)' <=> Unheld(h)
  BY <1>3, <1>4 DEF Unheld
<1>6. Shares' \subseteq Shares
  BY <1>4, <1>5, SharesAre, SharesWithin
<1>7. IsFiniteSet(Shares') /\ Cardinality(Shares') <= Cardinality(Shares)
  BY <1>6, NoMore, Counts
<1>8. Holding'
  BY DEF CInv, Holding
<1> QED BY <1>7, <1>8, Counts, FS_CardinalityType, TallyKept

-----------------------------------------------------------------------------
(* Steps that move no entry in or out of a stream. *)

LEMMA WithoutMessages ==
  ASSUME CInv, IInv',
         \/ \E r \in Raws : Age(r)
         \/ \E w \in Workers :
              \/ \E n \in 1..MaxBatch, timeout \in Timeouts : Wait(w, n, timeout)
              \/ WaitEnds(w)
              \/ ListPending(w)
              \/ RecoverRaises(w)
  PROVE  Holding' /\ Tally'
<1>1. /\ UNCHANGED <<log, cursor, pel, held, published, acked, acks, claims>>
      /\ faults' = faults \/ faults' = faults + 1
  BY FaultCounts DEF Age, Wait, WaitEnds, ListPending, RecoverRaises, redis, history
<1>2. \/ call' = call
      \/ \E w \in Workers : \E f :
           call' = [call EXCEPT ![w] = f] /\ f.op # "ack" /\ call[w].op # "ack"
  BY DEF Age, Wait, WaitEnds, ListPending, RecoverRaises, Return, Idle
<1>3. \A v \in Workers : /\ call'[v].op = "ack" => call'[v] = call[v]
                         /\ call[v].op = "ack" => call'[v] = call[v]
  BY <1>2, PartsHold DEF CInv
<1>4. \A k \in Keys : Live(k)' = Live(k)
  BY <1>1 DEF Live
<1> QED BY <1>1, <1>3, <1>4, SharesStay

\* What XREADGROUP hands out stood, and nobody held it.
LEMMA NewStand ==
  ASSUME IInv, Holding, NEW k \in Keys, NEW n \in Nat, NEW r \in NewEntries(k, n)
  PROVE  /\ [key |-> k, raw |-> r] \in Handle
         /\ Unheld([key |-> k, raw |-> r])
<1> DEFINE h == [key |-> k, raw |-> r]
<1>1. /\ log[k] \in Seq(Payload) /\ Len(log[k]) \in Nat /\ Len(log[k]) <= MaxEntries
      /\ cursor[k] \in Nat /\ MaxEntries \in Nat
  BY ConstantsAssumption DEF IInv, TypeOK
<1>2. r \in 1..Len(log[k]) /\ cursor[k] < r
  BY DEF NewEntries
<1>3. h \in Handle /\ h.key = k /\ h.raw = r
  BY <1>1, <1>2 DEF Handle, Raws
<1>4. h \notin Handed
  BY <1>1, <1>2, <1>3 DEF Handed
<1>5. h.raw \in Live(h.key)
  BY <1>1, <1>2, <1>3 DEF Live
<1>6. \A v \in Workers : h \notin held[v]
  BY <1>4 DEF IInv, Shape
<1>7. \A v \in Workers : ~Confirms(v, h)
  BY <1>6 DEF Holding, Confirms
<1> QED BY <1>3, <1>5, <1>6, <1>7, StandingIs DEF Unheld, ActsOn

\* Handing out turns the share that is nobody's into the worker's.
LEMMA HandOutShares ==
  ASSUME CInv, IInv', NEW w \in Workers, NEW k \in Keys, NEW n \in Nat,
         HandOut(k, NewEntries(k, n)),
         Give(w, Decoded(k, NewEntries(k, n))),
         call[w].op # "ack",
         \A v \in Workers : /\ call'[v].op = "ack" => call'[v] = call[v]
                            /\ call[v].op = "ack" => call'[v] = call[v],
         UNCHANGED history, faults' = faults
  PROVE  Holding' /\ Tally'
<1> DEFINE M == Decoded(k, NewEntries(k, n))
<1>1. \A j \in Keys : Live(j)' = Live(j)
  BY HandingOut DEF CInv, IInv
<1>2. \A h \in M : h \in Handle /\ Unheld(h)
  BY NewStand DEF Decoded, CInv
<1>3. held' = [held EXCEPT ![w] = @ \cup M]
  BY DEF Give
<1> HIDE DEF M
<1>4. /\ held'[w] = held[w] \cup M
      /\ \A v \in Workers : v # w => held'[v] = held[v]
  BY <1>3, PartsHold DEF CInv
<1>5. \A v \in Workers, h \in Handle : Confirms(v, h)' <=> Confirms(v, h)
  BY DEF Confirms
<1>6. \A h \in Handle : h \in Standing' <=> h \in Standing
  <2>1. \A h \in Handle : h.key \in Keys
    BY DEF Handle
  <2> QED BY <1>1, <1>5, <2>1, StandingIs
<1>7. ~\E h : Confirms(w, h)
  BY DEF Confirms
<1>8. \A v \in Workers, h \in Handle :
        ActsOn(v, h)' <=> ActsOn(v, h) \/ (v = w /\ h \in M)
  BY <1>4, <1>5, <1>7 DEF ActsOn
<1>9. \A h \in Handle : Unheld(h)' => Unheld(h) /\ h \notin M
  BY <1>6, <1>8 DEF Unheld
<1> DEFINE f == [s \in Shares' |-> IF s[1] = w /\ s[2] \in M THEN <<Nobody, s[2]>> ELSE s]
<1>10. ASSUME NEW s \in Shares'
       PROVE  /\ f[s] \in Shares
              /\ s[1] = w /\ s[2] \in M => f[s] = <<Nobody, s[2]>>
              /\ ~(s[1] = w /\ s[2] \in M) => f[s] = s /\ ~(s[1] = Nobody /\ s[2] \in M)
              /\ s = <<s[1], s[2]>>
  <2>1. PICK v \in Workers \cup {Nobody}, h \in Handle :
          s = <<v, h>> /\ IF v = Nobody THEN Unheld(h)' ELSE ActsOn(v, h)'
    BY DEF Shares
  <2>2. CASE v = Nobody
    BY <2>1, <2>2, <1>9, SharesAre, NobodyIsNoWorker
  <2>3. CASE v \in Workers /\ ~(v = w /\ h \in M)
    BY <2>1, <2>3, <1>8, SharesAre, NobodyIsNoWorker
  <2>4. CASE v = w /\ h \in M
    BY <2>1, <2>4, <1>2, SharesAre, NobodyIsNoWorker
  <2> QED BY <2>1, <2>2, <2>3, <2>4
<1>11. f \in [Shares' -> Shares]
  BY <1>10
<1>12. ASSUME NEW s \in Shares', NEW t \in Shares', f[s] = f[t]
       PROVE  s = t
  <2> HIDE DEF f
  <2>1. CASE s[1] = w /\ s[2] \in M /\ t[1] = w /\ t[2] \in M
    BY <2>1, <1>10, <1>12
  <2>2. CASE s[1] = w /\ s[2] \in M /\ ~(t[1] = w /\ t[2] \in M)
    BY <2>2, <1>10, <1>12
  <2>3. CASE ~(s[1] = w /\ s[2] \in M) /\ t[1] = w /\ t[2] \in M
    BY <2>3, <1>10, <1>12
  <2>4. CASE ~(s[1] = w /\ s[2] \in M) /\ ~(t[1] = w /\ t[2] \in M)
    BY <2>4, <1>10, <1>12
  <2> QED BY <2>1, <2>2, <2>3, <2>4
<1>13. f \in Injection(Shares', Shares)
  <2> HIDE DEF f
  <2> QED BY <1>11, <1>12 DEF Injection, IsInjective
<1>14. IsFiniteSet(Shares') /\ Cardinality(Shares') <= Cardinality(Shares)
  <2> HIDE DEF f
  <2> QED BY <1>13, FS_Injection, Counts
<1>15. Holding'
  BY <1>4, PartsHold DEF CInv, Holding
<1>16. UNCHANGED <<published, acks, claims>>
  BY DEF history
<1> QED BY <1>14, <1>15, <1>16, Counts, FS_CardinalityType, TallyKept

\* Handing out whose reply is lost, or whose entries cannot be decoded.
LEMMA HandOutToNobody ==
  ASSUME CInv, IInv', NEW k \in Keys, NEW n \in Nat,
         HandOut(k, NewEntries(k, n)), held' = held,
         \A v \in Workers : /\ call'[v].op = "ack" => call'[v] = call[v]
                            /\ call[v].op = "ack" => call'[v] = call[v],
         UNCHANGED history, faults' = faults \/ faults' = faults + 1
  PROVE  Holding' /\ Tally'
<1>1. \A j \in Keys : Live(j)' = Live(j)
  BY HandingOut DEF CInv, IInv
<1>2. UNCHANGED <<published, acks, claims>>
  BY DEF history
<1> QED BY <1>1, <1>2, SharesStay

LEMMA ConsumeCounts ==
  ASSUME CInv, IInv', NEW w \in Workers, NEW n \in 1..MaxBatch,
         Consume(w, n) \/ ConsumeRaises(w, n)
  PROVE  Holding' /\ Tally'
<1>1. Return(w) /\ call[w].op # "ack"
  BY DEF Consume, ConsumeRaises, Idle, Waiting
<1>2. \A v \in Workers : /\ call'[v].op = "ack" => call'[v] = call[v]
                         /\ call[v].op = "ack" => call'[v] = call[v]
  BY <1>1, PartsHold DEF CInv, Return, Idle
<1>3. "stream" \in Keys /\ n \in Nat
  BY DEF Keys
<1>4. CASE Consume(w, n)
  <2>1. /\ HandOut("stream", NewEntries("stream", n))
        /\ Give(w, Decoded("stream", NewEntries("stream", n)))
        /\ UNCHANGED <<history, faults>>
    BY <1>4 DEF Consume
  <2> QED BY <1>1, <1>2, <1>3, <2>1, HandOutShares
<1>5. CASE ConsumeRaises(w, n)
  <2>1. /\ HandOut("stream", NewEntries("stream", n)) \/ UNCHANGED redis
        /\ UNCHANGED held /\ UNCHANGED history /\ faults' = faults + 1
    BY <1>5, FaultCounts DEF ConsumeRaises
  <2>2. CASE HandOut("stream", NewEntries("stream", n))
    BY <1>2, <1>3, <2>1, <2>2, HandOutToNobody
  <2>3. CASE UNCHANGED redis
    <3>1. \A k \in Keys : Live(k)' = Live(k)
      BY <2>3 DEF redis, Live
    <3>2. UNCHANGED <<published, acks, claims>>
      BY <2>1 DEF history
    <3> QED BY <1>2, <2>1, <3>1, <3>2, SharesStay
  <2> QED BY <2>1, <2>2, <2>3
<1> QED BY <1>4, <1>5

LEMMA DeadLettersCounts ==
  ASSUME CInv, IInv', NEW w \in Workers, DeadLetters(w) \/ DeadLettersRaises(w)
  PROVE  Holding' /\ Tally'
<1>1. /\ HandOut("dead", NewEntries("dead", Limit))
      /\ call' = call /\ call[w].op # "ack" /\ UNCHANGED history
  BY DEF DeadLetters, DeadLettersRaises, Idle
<1>2. "dead" \in Keys /\ Limit \in Nat
  BY ConstantsAssumption DEF Keys
<1>3. CASE DeadLetters(w)
  <2>1. Give(w, Decoded("dead", NewEntries("dead", Limit))) /\ faults' = faults
    BY <1>3 DEF DeadLetters
  <2> QED BY <1>1, <1>2, <2>1, HandOutShares
<1>4. CASE DeadLettersRaises(w)
  <2>1. held' = held /\ faults' = faults + 1
    BY <1>4, FaultCounts DEF DeadLettersRaises
  <2> QED BY <1>1, <1>2, <2>1, HandOutToNobody
<1> QED BY <1>3, <1>4

LEMMA DecodedAreFinite ==
  ASSUME NEW k, NEW raws \in SUBSET Raws
  PROVE  IsFiniteSet(Decoded(k, raws))
<1> DEFINE all == {[key |-> k, raw |-> r] : r \in raws}
           f == [r \in raws |-> [key |-> k, raw |-> r]]
<1>1. IsFiniteSet(raws)
  <2>1. IsFiniteSet(Raws)
    BY ConstantsAssumption, FS_Interval DEF Raws
  <2> QED BY <2>1, FS_Subset
<1>2. f \in Surjection(raws, all)
  BY DEF Surjection
<1>3. IsFiniteSet(all)
  BY <1>1, <1>2, FS_Surjection
<1> QED BY <1>3, FS_Subset DEF Decoded

\* A claim gives its worker a share of each entry that it returns.
LEMMA ClaimedCounts ==
  ASSUME CInv, IInv', NEW w \in Workers, NEW raws \in SUBSET idle, Claimed(w, raws),
         call[w].op # "ack"
  PROVE  Holding' /\ Tally'
<1> DEFINE M == Decoded("stream", raws)
<1>1. /\ Return(w)
      /\ UNCHANGED <<log, cursor, pel, published, acked, acks, faults>>
      /\ \/ UNCHANGED <<held, claims>>
         \/ /\ held' = [held EXCEPT ![w] = @ \cup M]
            /\ claims' = Least(claims + Cardinality(M), MaxClaims)
  BY DEF Claimed, Give
<1>2. \A v \in Workers : /\ call'[v].op = "ack" => call'[v] = call[v]
                         /\ call[v].op = "ack" => call'[v] = call[v]
  BY <1>1, PartsHold DEF CInv, Return, Idle
<1>3. \A k \in Keys : Live(k)' = Live(k)
  BY <1>1 DEF Live
<1>4. CASE UNCHANGED <<held, claims>>
  BY <1>1, <1>2, <1>3, <1>4, SharesStay
<1>5. CASE /\ held' = [held EXCEPT ![w] = @ \cup M]
           /\ claims' = Least(claims + Cardinality(M), MaxClaims)
  <2>1. "stream" \in Keys /\ raws \in SUBSET Raws
    BY DEF CInv, IInv, TypeOK, Keys
  <2>2. M \subseteq {[key |-> "stream", raw |-> r] : r \in raws} /\ Cardinality(M) \in Nat
    BY <2>1, DecodedHandles DEF CInv, IInv
  <2>3. IsFiniteSet(M)
    BY <2>1, DecodedAreFinite
  <2> HIDE DEF M
  <2>4. \A v \in Workers, h \in Handle : Confirms(v, h)' <=> Confirms(v, h)
    BY <1>2 DEF Confirms
  <2>5. \A h \in Handle : h \in Standing' <=> h \in Standing
    <3>1. \A h \in Handle : h.key \in Keys
      BY DEF Handle
    <3> QED BY <1>3, <2>4, <3>1, StandingIs
  <2>6. \A v \in Workers, h \in Handle :
          /\ ActsOn(v, h)' => ActsOn(v, h) \/ (v = w /\ h \in M)
          /\ ActsOn(v, h) => ActsOn(v, h)'
    BY <1>5, <2>4, PartsHold DEF ActsOn, CInv
  <2>7. \A h \in Handle : Unheld(h)' => Unheld(h)
    BY <2>5, <2>6 DEF Unheld
  <2>8. Shares' \subseteq Shares \cup {<<w, h>> : h \in M}
    <3> DEFINE Z == Shares \cup {<<w, h>> : h \in M}
    <3>1. \A h \in Handle : Unheld(h)' => <<Nobody, h>> \in Z
      BY <2>7, SharesAre
    <3>2. \A v \in Workers, h \in Handle : ActsOn(v, h)' => <<v, h>> \in Z
      BY <2>6, SharesAre
    <3> HIDE DEF Z
    <3>3. Shares' \subseteq Z
      BY <3>1, <3>2, SharesWithin
    <3> QED BY <3>3 DEF Z
  <2>9. /\ IsFiniteSet(Shares')
        /\ Cardinality(Shares') <= Cardinality(Shares) + Cardinality(M)
    BY <2>3, <2>8, ManyMore, Counts
  <2>10. PICK m \in Nat, n \in Nat, p \in Nat, d \in Nat :
           /\ m = Cardinality(Shares) /\ n = Cardinality(Shares')
           /\ p = Cardinality(published) /\ d = Cardinality(M)
    BY <2>2, <2>9, Counts, FS_CardinalityType
  <2>11. n <= m + d
    BY <2>9, <2>10
  <2>12. claims < MaxClaims => m + acks <= p + faults + claims
    BY <2>10 DEF CInv, Tally
  <2>13. claims' < MaxClaims => claims' = claims + d /\ claims < MaxClaims
    BY <1>5, <2>10, Counts DEF Least
  <2>14. claims' < MaxClaims => n + acks <= p + faults + claims'
    BY <2>10, <2>11, <2>12, <2>13, Counts
  <2>15. Tally'
    BY <1>1, <2>9, <2>10, <2>14, Counts DEF Tally
  <2>16. Holding'
    BY <1>2, <1>5, PartsHold DEF CInv, Holding
  <2> QED BY <2>15, <2>16
<1> QED BY <1>1, <1>4, <1>5

LEMMA RecoverCounts ==
  ASSUME CInv, IInv', NEW w \in Workers, Recover(w) \/ Claim(w)
  PROVE  Holding' /\ Tally'
<1>1. /\ FirstOf(idle, Limit) \in SUBSET idle /\ idle \cap call[w].raws \in SUBSET idle
      /\ call[w].op # "ack"
  BY DEF FirstOf, Recover, Claim, Idle
<1>2. Claimed(w, FirstOf(idle, Limit)) \/ Claimed(w, idle \cap call[w].raws)
  BY DEF Recover, Claim
<1> QED BY <1>1, <1>2, ClaimedCounts

-----------------------------------------------------------------------------
(* Steps that append an entry. *)

\* The entry that XADD appends is the only one that becomes live.
LEMMA AddedOnly ==
  ASSUME IInv, NEW k \in Keys, NEW p \in Payload, XAdd(k, p)
  PROVE  \E new \in Handle \ Handed :
           \A h \in Handle : h.raw \in Live(h.key)' => h.raw \in Live(h.key) \/ h = new
<1> DEFINE n == Len(log[k])
           new == [key |-> k, raw |-> n + 1]
<1>1. /\ log \in [Keys -> Seq(Payload)]
      /\ \A j \in Keys : Len(log[j]) \in Nat /\ Len(log[j]) <= MaxEntries
      /\ cursor \in [Keys -> 0..MaxEntries]
      /\ MaxEntries \in Nat
  BY ConstantsAssumption DEF IInv, TypeOK
<1>2. /\ n + 1 <= MaxEntries
      /\ log' = [log EXCEPT ![k] = Append(@, p)]
      /\ cursor' = cursor /\ pel' = pel
  BY <1>1 DEF XAdd
<1>3. /\ Len(log'[k]) = n + 1
      /\ \A j \in Keys : j # k => Len(log'[j]) = Len(log[j])
  BY <1>1, <1>2
<1>4. cursor[k] <= n
  BY DEF IInv, Shape
<1>5. new \in Handle \ Handed
  BY <1>1, <1>2, <1>4 DEF Handle, Handed, Raws
<1>6. ASSUME NEW h \in Handle, h.raw \in Live(h.key)'
      PROVE  h.raw \in Live(h.key) \/ h = new
  <2>1. h.key \in Keys /\ h = [key |-> h.key, raw |-> h.raw]
    BY DEF Handle
  <2>2. CASE h.key # k
    BY <2>1, <2>2, <1>2, <1>3, <1>6 DEF Live
  <2>3. CASE h.key = k
    <3>1. h.raw \in pel[k] \/ h.raw \in cursor[k] + 1 .. n + 1
      BY <2>3, <1>2, <1>3, <1>6 DEF Live
    <3>2. CASE h.raw \in pel[k]
      BY <2>3, <3>2 DEF Live
    <3>3. CASE h.raw \in cursor[k] + 1 .. n
      BY <2>3, <3>3 DEF Live
    <3>4. CASE h.raw = n + 1
      BY <2>1, <2>3, <3>4
    <3> QED BY <3>1, <3>2, <3>3, <3>4, <1>1
  <2> QED BY <2>2, <2>3
<1> QED BY <1>5, <1>6

\* A step that appends an entry and changes nothing else of the Messages.
LEMMA AppendShares ==
  ASSUME CInv, NEW k \in Keys, NEW p \in Payload, XAdd(k, p), UNCHANGED <<call, held>>
  PROVE  /\ Holding'
         /\ IsFiniteSet(Shares') /\ Cardinality(Shares') <= Cardinality(Shares) + 1
<1>1. PICK new \in Handle :
        \A h \in Handle : h.raw \in Live(h.key)' => h.raw \in Live(h.key) \/ h = new
  BY AddedOnly DEF CInv
<1>2. \A v \in Workers, h \in Handle :
        (Confirms(v, h)' <=> Confirms(v, h)) /\ (ActsOn(v, h)' <=> ActsOn(v, h))
  BY DEF ActsOn, Confirms
<1>3. \A h \in Handle : h \in Standing' => h \in Standing \/ h = new
  BY <1>1, <1>2, StandingIs
<1>4. \A h \in Handle : Unheld(h)' => Unheld(h) \/ h = new
  BY <1>2, <1>3 DEF Unheld
<1>5. Shares' \subseteq Shares \cup {<<Nobody, new>>}
  <2> DEFINE Z == Shares \cup {<<Nobody, new>>}
  <2>1. \A h \in Handle : Unheld(h)' => <<Nobody, h>> \in Z
    BY <1>4, SharesAre
  <2>2. \A v \in Workers, h \in Handle : ActsOn(v, h)' => <<v, h>> \in Z
    BY <1>2, SharesAre
  <2> HIDE DEF Z
  <2>3. Shares' \subseteq Z
    BY <2>1, <2>2, SharesWithin
  <2> QED BY <2>3 DEF Z
<1>6. Holding'
  BY DEF CInv, Holding
<1> QED BY <1>5, <1>6, OneMore, Counts

LEMMA PublishCounts ==
  ASSUME CInv, IInv', NEW id \in Ids, Publish(id)
  PROVE  Holding' /\ Tally'
<1>1. "stream" \in Keys /\ [id |-> id, attempts |-> 0] \in Payload
  BY ConstantsAssumption DEF Keys, Payload
<1>2. /\ XAdd("stream", [id |-> id, attempts |-> 0])
      /\ id \notin published /\ published' = published \cup {id}
      /\ UNCHANGED <<call, held, acks, claims, faults>>
  BY DEF Publish
<1>3. /\ Holding'
      /\ IsFiniteSet(Shares') /\ Cardinality(Shares') <= Cardinality(Shares) + 1
  BY <1>1, <1>2, AppendShares
<1>4. IsFiniteSet(published') /\ Cardinality(published') = Cardinality(published) + 1
  BY <1>2, FS_AddElement, Counts
<1>5. PICK m \in Nat, n \in Nat, p \in Nat :
        m = Cardinality(Shares) /\ n = Cardinality(Shares') /\ p = Cardinality(published)
  BY <1>3, Counts, FS_CardinalityType
<1>6. claims < MaxClaims => m + acks <= p + faults + claims
  BY <1>5 DEF CInv, Tally
<1>7. n <= m + 1
  BY <1>3, <1>5
<1>8. claims < MaxClaims => n + acks <= p + 1 + faults + claims
  BY <1>5, <1>6, <1>7, Counts
<1> QED BY <1>2, <1>3, <1>4, <1>5, <1>8 DEF Tally

LEMMA CopyRaisesCounts ==
  ASSUME CInv, IInv', NEW w \in Workers, NEW h \in held[w], CopyRaises(w, h)
  PROVE  Holding' /\ Tally'
<1>1. h \in Handed
  BY DEF CInv, IInv, Shape
<1>2. PICK c \in Copies(h) : XAdd(c[1], c[2])
  BY DEF CopyRaises
<1>3. c[1] \in Keys /\ c[2] \in Payload
  BY <1>1, CopiesAreOf DEF CInv, IInv
<1>4. /\ UNCHANGED <<call, held, published, acks, claims>> /\ faults' = faults + 1
  BY FaultCounts DEF CopyRaises, history
<1>5. /\ Holding'
      /\ IsFiniteSet(Shares') /\ Cardinality(Shares') <= Cardinality(Shares) + 1
  BY <1>2, <1>3, <1>4, AppendShares
<1> QED BY <1>4, <1>5, Counts, FS_CardinalityType, TallyKept

\* Copying exchanges the share of the worker for the copy.
LEMMA CopyCounts ==
  ASSUME CInv, IInv', NEW w \in Workers, NEW h \in held[w], Copy(w, h)
  PROVE  Holding' /\ Tally'
<1>1. h \in Handed /\ h \in Handle
  BY DEF CInv, IInv, Shape, Handed
<1>2. PICK c \in Copies(h) : XAdd(c[1], c[2])
  BY DEF Copy
<1>3. c[1] \in Keys /\ c[2] \in Payload
  BY <1>1, CopiesAreOf DEF CInv, IInv
<1>4. /\ UNCHANGED <<held, published, acks, claims, faults>>
      /\ call[w].op # "ack"
      /\ call'[w].op = "ack" /\ call'[w].handle = h
      /\ \A v \in Workers : v # w => call'[v] = call[v]
  <2>1. call[w] = Idle /\ call' = [call EXCEPT ![w] = [op |-> "ack", handle |-> h]]
    BY DEF Copy
  <2>2. call'[w] = [op |-> "ack", handle |-> h] /\ \A v \in Workers : v # w => call'[v] = call[v]
    BY <2>1, PartsHold DEF CInv
  <2> QED BY <2>1, <2>2 DEF Copy, history, Idle
<1>5. PICK new \in Handle \ Handed :
        \A g \in Handle : g.raw \in Live(g.key)' => g.raw \in Live(g.key) \/ g = new
  BY <1>2, <1>3, AddedOnly DEF CInv
<1>6. \A v \in Workers, g \in Handle : Confirms(v, g)' <=> Confirms(v, g) \/ (v = w /\ g = h)
  BY <1>4 DEF Confirms
<1>7. \A v \in Workers, g \in Handle :
        ActsOn(v, g)' <=> ActsOn(v, g) /\ ~(v = w /\ g = h)
  BY <1>4, <1>6 DEF ActsOn
<1>8. ActsOn(w, h)
  BY <1>4 DEF ActsOn, Confirms
<1>9. \A g \in Handle : g \in Standing' => g # h /\ (g \in Standing \/ g = new)
  BY <1>5, <1>6, StandingIs
<1>10. \A g \in Handle : Unheld(g)' => Unheld(g) \/ g = new
  BY <1>7, <1>9 DEF Unheld
<1>11. Shares' \subseteq (Shares \ {<<w, h>>}) \cup {<<Nobody, new>>}
  <2> DEFINE Z == (Shares \ {<<w, h>>}) \cup {<<Nobody, new>>}
  <2>1. \A g \in Handle : Unheld(g)' => <<Nobody, g>> \in Z
    BY <1>10, SharesAre, NobodyIsNoWorker
  <2>2. \A v \in Workers, g \in Handle : ActsOn(v, g)' => <<v, g>> \in Z
    BY <1>7, SharesAre
  <2> HIDE DEF Z
  <2>3. Shares' \subseteq Z
    BY <2>1, <2>2, SharesWithin
  <2> QED BY <2>3 DEF Z
<1>12. <<w, h>> \in Shares
  BY <1>1, <1>8, SharesAre
<1>13. IsFiniteSet(Shares') /\ Cardinality(Shares') <= Cardinality(Shares)
  BY <1>11, <1>12, Exchanged, Counts
<1>14. Holding'
  BY <1>4 DEF CInv, Holding
<1> QED BY <1>4, <1>13, <1>14, Counts, FS_CardinalityType, TallyKept

-----------------------------------------------------------------------------
(* Steps that acknowledge an entry, and crashes. *)

\* XACK removes the entry for good, and adds none.
LEMMA AcknowledgedOnly ==
  ASSUME IInv, NEW h \in Handed, Acknowledge(h)
  PROVE  /\ h.raw \notin Live(h.key)'
         /\ \A g \in Handle : g.raw \in Live(g.key)' => g.raw \in Live(g.key)
<1>1. /\ h \in Handle /\ h.key \in Keys /\ pel \in [Keys -> SUBSET Raws]
      /\ \A j \in Keys : cursor[j] \in Nat
      /\ h.raw \in Nat /\ h.raw <= cursor[h.key]
  BY ConstantsAssumption DEF IInv, TypeOK, Handed, Handle, Raws
<1>2. /\ log' = log /\ cursor' = cursor
      /\ pel' = [pel EXCEPT ![h.key] = @ \ {h.raw}]
  BY DEF Acknowledge
<1>3. /\ pel'[h.key] = pel[h.key] \ {h.raw}
      /\ \A j \in Keys : pel'[j] \subseteq pel[j]
  BY <1>1, <1>2
<1>4. h.raw \notin cursor[h.key] + 1 .. Len(log[h.key])
  BY <1>1
<1>5. \A g \in Handle : g.key \in Keys
  BY DEF Handle
<1> QED BY <1>1, <1>2, <1>3, <1>4, <1>5 DEF Live

LEMMA AckCounts ==
  ASSUME CInv, IInv', NEW w \in Workers, NEW h \in held[w], Ack(w, h) \/ AckReplyLost(w, h)
  PROVE  Holding' /\ Tally'
<1>1. h \in Handed /\ h \in Handle
  BY DEF CInv, IInv, Shape, Handed
<1>2. /\ Acknowledge(h) /\ call[w].op # "ack"
      /\ UNCHANGED <<call, published, claims>>
  BY DEF Ack, AckReplyLost, Idle
<1>3. /\ h.raw \notin Live(h.key)'
      /\ \A g \in Handle : g.raw \in Live(g.key)' => g.raw \in Live(g.key)
  BY <1>1, <1>2, AcknowledgedOnly DEF CInv
<1>4. \A v \in Workers, g \in Handle : Confirms(v, g)' <=> Confirms(v, g)
  BY <1>2 DEF Confirms
<1>5. \A g \in Handle : g \in Standing' => g \in Standing /\ g # h
  BY <1>3, <1>4, StandingIs
<1>6. <<w, h>> \in Shares
  BY <1>1, <1>2, SharesAre DEF ActsOn, Confirms
<1>7. CASE Ack(w, h)
  <2>1. /\ held' = [held EXCEPT ![w] = @ \ {h}]
        /\ acks' = acks \/ acks' = acks + 1
        /\ faults' = faults
    BY <1>7 DEF Ack, Done
  <2>2. /\ held'[w] = held[w] \ {h}
        /\ \A v \in Workers : v # w => held'[v] = held[v]
    BY <2>1, PartsHold DEF CInv
  <2>3. \A v \in Workers, g \in Handle :
          ActsOn(v, g)' <=> ActsOn(v, g) /\ ~(v = w /\ g = h)
    BY <1>4, <2>2 DEF ActsOn
  <2>4. \A g \in Handle : Unheld(g)' => Unheld(g)
    BY <1>5, <2>3 DEF Unheld
  <2>5. Shares' \subseteq Shares \ {<<w, h>>}
    <3> DEFINE Z == Shares \ {<<w, h>>}
    <3>1. \A g \in Handle : Unheld(g)' => <<Nobody, g>> \in Z
      BY <2>4, SharesAre, NobodyIsNoWorker
    <3>2. \A v \in Workers, g \in Handle : ActsOn(v, g)' => <<v, g>> \in Z
      BY <2>3, SharesAre
    <3> HIDE DEF Z
    <3>3. Shares' \subseteq Z
      BY <3>1, <3>2, SharesWithin
    <3> QED BY <3>3 DEF Z
  <2>6. IsFiniteSet(Shares') /\ Cardinality(Shares') + 1 <= Cardinality(Shares)
    BY <1>6, <2>5, OneLess, Counts
  <2>7. Holding'
    BY <1>2, <2>2 DEF CInv, Holding
  <2> QED BY <1>2, <2>1, <2>6, <2>7, Counts, FS_CardinalityType, TallyKept
<1>8. CASE AckReplyLost(w, h)
  <2>1. held' = held /\ acks' = acks + 1 /\ faults' = faults + 1
    BY <1>8, FaultCounts DEF AckReplyLost
  <2>2. \A v \in Workers, g \in Handle : ActsOn(v, g)' <=> ActsOn(v, g)
    BY <1>4, <2>1 DEF ActsOn
  <2>3. \A g \in Handle : Unheld(g)' => Unheld(g)
    BY <1>5, <2>2 DEF Unheld
  <2>4. Shares' \subseteq Shares
    BY <2>2, <2>3, SharesAre, SharesWithin
  <2>5. IsFiniteSet(Shares') /\ Cardinality(Shares') <= Cardinality(Shares)
    BY <2>4, NoMore, Counts
  <2>6. Holding'
    BY <1>2, <2>1 DEF CInv, Holding
  <2> QED BY <1>2, <2>1, <2>5, <2>6, Counts, FS_CardinalityType, TallyKept
<1> QED BY <1>7, <1>8

LEMMA ConfirmCounts ==
  ASSUME CInv, IInv', NEW w \in Workers, Confirm(w)
  PROVE  Holding' /\ Tally'
<1>0. PICK h \in Handed : call[w].op = "ack" /\ h = call[w].handle
  BY DEF CInv, IInv, Shape, Confirm
<1>1. h \in held[w]
  BY <1>0 DEF CInv, Holding
<1>2. /\ Acknowledge(h)
      /\ call' = [call EXCEPT ![w] = Idle]
      /\ held' = [held EXCEPT ![w] = @ \ {h}]
      /\ UNCHANGED <<published, acks, claims, faults>>
  BY <1>0 DEF Confirm, Done, history
<1>3. Confirms(w, h)
  BY <1>0 DEF Confirms
<1>4. \A g : Confirms(w, g) => g = h
  BY <1>0 DEF Confirms
<1>5. /\ h.raw \notin Live(h.key)'
      /\ \A g \in Handle : g.raw \in Live(g.key)' => g.raw \in Live(g.key)
  BY <1>1, <1>2, AcknowledgedOnly DEF CInv
<1>6. /\ held'[w] = held[w] \ {h} /\ call'[w].op # "ack"
      /\ \A v \in Workers : v # w => held'[v] = held[v] /\ call'[v] = call[v]
  BY <1>2, PartsHold, IdleIsFrame DEF CInv
<1>7. \A v \in Workers, g \in Handle : Confirms(v, g) <=> Confirms(v, g)' \/ (v = w /\ g = h)
  BY <1>3, <1>4, <1>6 DEF Confirms
<1>8. \A g \in Handle : g \in Standing' => g \in Standing
  <2> SUFFICES ASSUME NEW g \in Handle, g \in Standing' PROVE g \in Standing
    OBVIOUS
  <2>1. g.raw \in Live(g.key)' /\ \A v \in Workers : ~Confirms(v, g)'
    BY StandingIs
  <2>2. g # h
    BY <1>5, <2>1
  <2> QED BY <1>5, <1>7, <2>1, <2>2, StandingIs
<1>9. \A v \in Workers, g \in Handle : ActsOn(v, g)' <=> ActsOn(v, g)
  BY <1>3, <1>4, <1>6, <1>7 DEF ActsOn
<1>10. \A g \in Handle : Unheld(g)' => Unheld(g)
  BY <1>8, <1>9 DEF Unheld
<1>11. Shares' \subseteq Shares
  BY <1>9, <1>10, SharesAre, SharesWithin
<1>12. IsFiniteSet(Shares') /\ Cardinality(Shares') <= Cardinality(Shares)
  BY <1>11, NoMore, Counts
<1>13. Holding'
  BY <1>6 DEF CInv, Holding
<1> QED BY <1>2, <1>12, <1>13, Counts, FS_CardinalityType, TallyKept

\* When the XACK fails, its worker may act on the Message again.
LEMMA ConfirmRaisesCounts ==
  ASSUME CInv, IInv', NEW w \in Workers, ConfirmRaises(w)
  PROVE  Holding' /\ Tally'
<1>0. PICK h \in Handed : call[w].op = "ack" /\ h = call[w].handle
  BY DEF CInv, IInv, Shape, ConfirmRaises
<1>1. h \in held[w] /\ h \in Handle
  BY <1>0 DEF CInv, Holding, Handed
<1>2. /\ Acknowledge(h) \/ UNCHANGED redis
      /\ call' = [call EXCEPT ![w] = Idle]
      /\ UNCHANGED <<held, published, acks, claims>>
      /\ faults' = faults + 1
  BY <1>0, FaultCounts DEF ConfirmRaises, history
<1>3. Confirms(w, h)
  BY <1>0 DEF Confirms
<1>4. \A g : Confirms(w, g) => g = h
  BY <1>0 DEF Confirms
<1>5. \A g \in Handle : g.raw \in Live(g.key)' => g.raw \in Live(g.key)
  <2>1. CASE Acknowledge(h)
    BY <1>1, <2>1, AcknowledgedOnly DEF CInv
  <2>2. CASE UNCHANGED redis
    BY <2>2 DEF redis, Live
  <2> QED BY <1>2, <2>1, <2>2
<1>6. /\ call'[w].op # "ack" /\ held' = held
      /\ \A v \in Workers : v # w => call'[v] = call[v]
  BY <1>2, PartsHold, IdleIsFrame DEF CInv
<1>7. \A v \in Workers, g \in Handle : Confirms(v, g) <=> Confirms(v, g)' \/ (v = w /\ g = h)
  BY <1>3, <1>4, <1>6 DEF Confirms
<1>8. \A v \in Workers, g \in Handle : ActsOn(v, g)' <=> ActsOn(v, g) \/ (v = w /\ g = h)
  BY <1>1, <1>3, <1>4, <1>6, <1>7 DEF ActsOn, Confirms
<1>9. \A g \in Handle : Unheld(g)' => Unheld(g)
  <2> SUFFICES ASSUME NEW g \in Handle, Unheld(g)' PROVE Unheld(g)
    OBVIOUS
  <2>1. g \in Standing' /\ \A v \in Workers : ~ActsOn(v, g)'
    BY DEF Unheld
  <2>2. g # h
    BY <1>8, <2>1
  <2>3. g \in Standing
    BY <1>5, <1>7, <2>1, <2>2, StandingIs
  <2> QED BY <1>8, <2>1, <2>3 DEF Unheld
<1>10. Shares' \subseteq Shares \cup {<<w, h>>}
  <2> DEFINE Z == Shares \cup {<<w, h>>}
  <2>1. \A g \in Handle : Unheld(g)' => <<Nobody, g>> \in Z
    BY <1>9, SharesAre
  <2>2. \A v \in Workers, g \in Handle : ActsOn(v, g)' => <<v, g>> \in Z
    BY <1>8, SharesAre
  <2> HIDE DEF Z
  <2>3. Shares' \subseteq Z
    BY <2>1, <2>2, SharesWithin
  <2> QED BY <2>3 DEF Z
<1>11. IsFiniteSet(Shares') /\ Cardinality(Shares') <= Cardinality(Shares) + 1
  BY <1>10, OneMore, Counts
<1>12. Holding'
  BY <1>6 DEF CInv, Holding
<1> QED BY <1>2, <1>11, <1>12, Counts, FS_CardinalityType, TallyKept

\* What a worker that dies held becomes nobody's, and so does the entry that
\* it had copied and not acknowledged.
LEMMA CrashCounts ==
  ASSUME CInv, IInv', NEW w \in Workers, Crash(w)
  PROVE  Holding' /\ Tally'
<1> DEFINE extra == <<Nobody, call[w].handle>>
           X == Shares \cup {extra}
<1>1. /\ call' = [call EXCEPT ![w] = Idle]
      /\ held' = [held EXCEPT ![w] = {}]
      /\ faults' = faults + 1
      /\ UNCHANGED <<log, cursor, pel, published, acks, claims>>
  BY FaultCounts DEF Crash, redis, history
<1>2. /\ call'[w].op # "ack" /\ held'[w] = {}
      /\ \A v \in Workers : v # w => call'[v] = call[v] /\ held'[v] = held[v]
  BY <1>1, PartsHold, IdleIsFrame DEF CInv
<1>3. \A v \in Workers, g \in Handle : Confirms(v, g)' <=> v # w /\ Confirms(v, g)
  BY <1>2 DEF Confirms
<1>4. \A v \in Workers, g \in Handle : ActsOn(v, g)' <=> v # w /\ ActsOn(v, g)
  BY <1>2, <1>3 DEF ActsOn
<1>5. \A g \in Handle : g \in Standing' => g \in Standing \/ Confirms(w, g)
  <2>1. \A k \in Keys : Live(k)' = Live(k)
    BY <1>1 DEF Live
  <2>2. \A g \in Handle : g.key \in Keys
    BY DEF Handle
  <2> QED BY <1>3, <2>1, <2>2, StandingIs
<1>6. \A g \in Handle : Unheld(g)' => Unheld(g) \/ Confirms(w, g) \/ ActsOn(w, g)
  BY <1>4, <1>5 DEF Unheld
<1>7. \A g : Confirms(w, g) => <<Nobody, g>> = extra
  BY DEF Confirms
<1> HIDE DEF extra
<1>8. /\ \A v \in Workers, g \in Handle : ActsOn(v, g) => <<v, g>> \in X
      /\ \A g \in Handle : Unheld(g) \/ Confirms(w, g) => <<Nobody, g>> \in X
  BY <1>7, SharesAre
<1>9. IsFiniteSet(X) /\ Cardinality(X) <= Cardinality(Shares) + 1
  BY OneMore, Counts
<1> HIDE DEF X
<1> DEFINE f == [s \in Shares' |-> IF s[1] = Nobody /\ ActsOn(w, s[2]) THEN <<w, s[2]>> ELSE s]
<1>10. ASSUME NEW s \in Shares'
       PROVE  /\ f[s] \in X
              /\ s[1] = Nobody /\ ActsOn(w, s[2]) => f[s] = <<w, s[2]>>
              /\ ~(s[1] = Nobody /\ ActsOn(w, s[2])) => f[s] = s
              /\ s = <<s[1], s[2]>> /\ s[1] # w
  <2>1. PICK v \in Workers \cup {Nobody}, g \in Handle :
          s = <<v, g>> /\ IF v = Nobody THEN Unheld(g)' ELSE ActsOn(v, g)'
    BY DEF Shares
  <2>2. CASE v = Nobody /\ ActsOn(w, g)
    BY <2>1, <2>2, <1>8, NobodyIsNoWorker
  <2>3. CASE v = Nobody /\ ~ActsOn(w, g)
    BY <2>1, <2>3, <1>6, <1>8, NobodyIsNoWorker
  <2>4. CASE v \in Workers
    BY <2>1, <2>4, <1>4, <1>8, NobodyIsNoWorker
  <2> QED BY <2>1, <2>2, <2>3, <2>4
<1>11. f \in [Shares' -> X]
  BY <1>10
<1>12. ASSUME NEW s \in Shares', NEW t \in Shares', f[s] = f[t]
       PROVE  s = t
  <2> HIDE DEF f
  <2>1. CASE s[1] = Nobody /\ ActsOn(w, s[2]) /\ t[1] = Nobody /\ ActsOn(w, t[2])
    BY <2>1, <1>10, <1>12
  <2>2. CASE s[1] = Nobody /\ ActsOn(w, s[2]) /\ ~(t[1] = Nobody /\ ActsOn(w, t[2]))
    BY <2>2, <1>10, <1>12
  <2>3. CASE ~(s[1] = Nobody /\ ActsOn(w, s[2])) /\ t[1] = Nobody /\ ActsOn(w, t[2])
    BY <2>3, <1>10, <1>12
  <2>4. CASE ~(s[1] = Nobody /\ ActsOn(w, s[2])) /\ ~(t[1] = Nobody /\ ActsOn(w, t[2]))
    BY <2>4, <1>10, <1>12
  <2> QED BY <2>1, <2>2, <2>3, <2>4
<1>13. f \in Injection(Shares', X)
  <2> HIDE DEF f
  <2> QED BY <1>11, <1>12 DEF Injection, IsInjective
<1> HIDE DEF f
<1>14. IsFiniteSet(Shares') /\ Cardinality(Shares') <= Cardinality(X)
  BY <1>9, <1>13, FS_Injection
<1>15. Holding'
  BY <1>2 DEF CInv, Holding
<1> QED BY <1>1, <1>9, <1>14, <1>15, Counts, FS_CardinalityType, TallyKept

-----------------------------------------------------------------------------
(* The tally is an invariant. *)

LEMMA InitCounts == Init => CInv
<1> SUFFICES ASSUME Init PROVE CInv
  OBVIOUS
<1>1. IInv
  BY InitHolds
<1>2. Holding
  BY DEF Init, Holding, Idle
<1>3. Shares = {}
  <2> SUFFICES ASSUME NEW s \in Shares PROVE FALSE
    OBVIOUS
  <2>1. PICK v \in Workers \cup {Nobody}, h \in Handle :
          IF v = Nobody THEN Unheld(h) ELSE ActsOn(v, h)
    BY DEF Shares
  <2>2. \A u \in Workers : ~ActsOn(u, h)
    BY DEF Init, ActsOn
  <2>3. h.key \in Keys
    BY DEF Handle
  <2>4. \A k \in Keys : Live(k) = {}
    <3> SUFFICES ASSUME NEW k \in Keys PROVE Live(k) = {}
      OBVIOUS
    <3>1. log[k] = <<>> /\ cursor[k] = 0 /\ pel[k] = {}
      BY DEF Init
    <3>2. 0 + 1 .. Len(<<>>) = {}
      OBVIOUS
    <3> QED BY <3>1, <3>2 DEF Live
  <2>5. ~Unheld(h)
    BY <2>3, <2>4, StandingIs DEF Unheld
  <2> QED BY <2>1, <2>2, <2>5
<1>4. Tally
  <2>1. published = {} /\ acks = 0 /\ claims = 0 /\ faults = 0
    BY DEF Init
  <2>2. IsFiniteSet({}) /\ Cardinality({}) = 0
    BY FS_EmptySet
  <2> QED BY <1>3, <2>1, <2>2 DEF Tally
<1> QED BY <1>1, <1>2, <1>4 DEF CInv

LEMMA StepCounts == CInv /\ [Next]_vars => CInv'
<1> SUFFICES ASSUME CInv, [Next]_vars PROVE CInv'
  OBVIOUS
<1>1. IInv'
  BY StepKeeps DEF CInv
<1>2. Holding' /\ Tally'
  <2>1. CASE UNCHANGED vars
    <3>1. UNCHANGED <<log, cursor, pel, call, held, published, acks, claims, faults>>
      BY <2>1 DEF vars
    <3>2. \A k \in Keys : Live(k)' = Live(k)
      BY <3>1 DEF Live
    <3> QED BY <1>1, <3>1, <3>2, SharesStay
  <2>2. CASE \E id \in Ids : Publish(id)
    BY <1>1, <2>2, PublishCounts
  <2>3. CASE \E r \in Raws : Age(r)
    BY <1>1, <2>3, WithoutMessages
  <2>4. ASSUME NEW w \in Workers,
               \/ \E n \in 1..MaxBatch : Consume(w, n) \/ ConsumeRaises(w, n)
               \/ \E h \in held[w] :
                    Ack(w, h) \/ AckReplyLost(w, h) \/ Copy(w, h) \/ CopyRaises(w, h)
               \/ Confirm(w)
               \/ ConfirmRaises(w)
               \/ \E n \in 1..MaxBatch, timeout \in Timeouts : Wait(w, n, timeout)
               \/ WaitEnds(w)
               \/ Recover(w)
               \/ ListPending(w)
               \/ Claim(w)
               \/ RecoverRaises(w)
               \/ DeadLetters(w)
               \/ DeadLettersRaises(w)
               \/ Crash(w)
        PROVE  Holding' /\ Tally'
    <3>1. CASE \/ \E n \in 1..MaxBatch, timeout \in Timeouts : Wait(w, n, timeout)
               \/ WaitEnds(w)
               \/ ListPending(w)
               \/ RecoverRaises(w)
      BY <1>1, <3>1, WithoutMessages
    <3>2. CASE \E h \in held[w] :
                 Ack(w, h) \/ AckReplyLost(w, h) \/ Copy(w, h) \/ CopyRaises(w, h)
      BY <1>1, <3>2, AckCounts, CopyCounts, CopyRaisesCounts
    <3> QED BY <1>1, <2>4, <3>1, <3>2, ConsumeCounts, ConfirmCounts, ConfirmRaisesCounts,
               RecoverCounts, DeadLettersCounts, CrashCounts
  <2> QED BY <2>1, <2>2, <2>3, <2>4 DEF Next
<1> QED BY <1>1, <1>2 DEF CInv

\* There are no more standing copies than shares.
LEMMA StandingAreShared ==
  ASSUME CInv
  PROVE  IsFiniteSet(Standing) /\ Cardinality(Standing) <= Cardinality(Shares)
<1> DEFINE By(h) == IF Unheld(h) THEN Nobody ELSE CHOOSE w \in Workers : ActsOn(w, h)
           f == [h \in Standing |-> <<By(h), h>>]
<1>1. ASSUME NEW h \in Standing
      PROVE  <<By(h), h>> \in Shares
  <2>1. h \in Handle
    BY DEF Standing
  <2>2. CASE Unheld(h)
    BY <2>1, <2>2, SharesAre
  <2>3. CASE ~Unheld(h)
    <3>1. \E w \in Workers : ActsOn(w, h)
      BY <2>3 DEF Unheld
    <3>2. By(h) \in Workers /\ ActsOn(By(h), h)
      BY <2>3, <3>1
    <3> HIDE DEF By
    <3> QED BY <2>1, <3>2, SharesAre
  <2> QED BY <2>2, <2>3
<1>2. f \in Injection(Standing, Shares)
  <2> HIDE DEF By
  <2> QED BY <1>1 DEF Injection, IsInjective
<1> HIDE DEF f
<1> QED BY <1>2, FS_Injection, Counts

\* Every copy of a message beyond the first was caused by a fault or by a
\* claim, and each caused at most one: nack, retry, requeue_dead and the
\* recoveries make no duplicate of their own, in whatever order they interleave.
THEOREM EveryCopyHasACause == Spec => []CopiesHaveCauses
<1>1. CInv => CopiesHaveCauses
  <2> SUFFICES ASSUME CInv, claims < MaxClaims
               PROVE  Cardinality(Standing) + acks <= Cardinality(published) + faults + claims
    BY DEF CopiesHaveCauses
  <2>1. Cardinality(Shares) + acks <= Cardinality(published) + faults + claims
    BY DEF CInv, Tally
  <2>2. PICK n \in Nat : n = Cardinality(Standing)
    BY StandingAreShared, FS_CardinalityType
  <2>3. n <= Cardinality(Shares)
    BY <2>2, StandingAreShared
  <2> QED BY <2>1, <2>2, <2>3, Counts
<1> QED BY <1>1, InitCounts, StepCounts, PTL DEF Spec
=============================================================================
