------------------------ MODULE ListLifecycleProofs ------------------------
(***************************************************************************)
(* Further proofs about ListQueue, for every value of its constants: that  *)
(* first deliveries come in publish order, that no entry of processing is  *)
(* forgotten without a failure, and, step by step, that the lists          *)
(* implement MessageLifecycle.                                             *)
(***************************************************************************)
EXTENDS ListQueueProofs

-----------------------------------------------------------------------------
(* What the list commands do to the entries of a list. *)

LEMMA LPushEntries ==
  ASSUME NEW d \in Lists, NEW k \in Keys, NEW p \in Payload
  PROVE  /\ Range(LPush(d, k, p)[k]) = Range(d[k]) \cup {p}
         /\ \A m \in Keys : m # k => LPush(d, k, p)[m] = d[m]
<1> DEFINE s == d[k]
           t == <<p>> \o s
<1>1. LPush(d, k, p)[k] = t /\ \A m \in Keys : m # k => LPush(d, k, p)[m] = d[m]
  BY DEF LPush, Lists
<1>2. s \in Seq(Payload)
  BY DEF Lists
<1> HIDE DEF s
<1>3. /\ DOMAIN t = 1..Len(s) + 1
      /\ DOMAIN s = 1..Len(s)
      /\ Len(s) \in Nat
      /\ t[1] = p
      /\ \A i \in 1..Len(s) : t[i + 1] = s[i]
  BY <1>2
<1> HIDE DEF t
<1>4. \A i \in DOMAIN t : i = 1 \/ (i - 1 \in DOMAIN s /\ t[i] = s[i - 1])
  BY <1>3
<1>5. \A i \in DOMAIN s : i + 1 \in DOMAIN t /\ t[i + 1] = s[i]
  BY <1>3
<1>6. 1 \in DOMAIN t
  BY <1>3
<1>7. Range(t) = Range(s) \cup {p}
  BY <1>3, <1>4, <1>5, <1>6 DEF Range
<1> QED BY <1>1, <1>7 DEF s

LEMMA LRemEntries ==
  ASSUME NEW d \in Lists, OneCopy(d), NEW k \in Keys, NEW p, LRemFinds(d, k, p)
  PROVE  /\ Range(LRem(d, k, p)[k]) = Range(d[k]) \ {p}
         /\ p \in Range(d[k])
         /\ \A m \in Keys : m # k => LRem(d, k, p)[m] = d[m]
<1>1. d[k] \in Seq(Payload) /\ Distinct(d[k])
  BY OneCopyPerList DEF Lists
<1>2. p \in Payload /\ p \in Range(d[k])
  BY <1>1 DEF LRemFinds, Range
<1>3. /\ LRem(d, k, p)[k] = RemoveFirst(d[k], p)
      /\ \A m \in Keys : m # k => LRem(d, k, p)[m] = d[m]
  BY DEF LRem, Lists
<1> QED BY <1>1, <1>2, <1>3, RemoveOne DEF LRemFinds

LEMMA LMoveEntries ==
  ASSUME NEW d \in Lists, OneCopy(d), d["ready"] # <<>>
  PROVE  LET c == LMove(d, "ready", "processing")
             p == Last(d["ready"])
         IN /\ c["ready"] = Front(d["ready"])
            /\ Range(c["ready"]) = Range(d["ready"]) \ {p}
            /\ Range(c["processing"]) = Range(d["processing"]) \cup {p}
            /\ c["dead"] = d["dead"]
            /\ p \in Range(d["ready"])
            /\ p \in Payload
<1> DEFINE c == LMove(d, "ready", "processing")
           s == d["ready"]
           p == Last(s)
<1>1. s \in Seq(Payload) /\ d["processing"] \in Seq(Payload) /\ Distinct(s)
  BY OneCopyPerList DEF Lists, Keys
<1>2. /\ c["ready"] = Front(s)
      /\ c["processing"] = <<p>> \o d["processing"]
      /\ c["dead"] = d["dead"]
  BY DEF LMove, Lists, Keys
<1>3. /\ Len(s) \in Nat \ {0}
      /\ DOMAIN s = 1..Len(s)
      /\ DOMAIN Front(s) = 1..Len(s) - 1
      /\ \A i \in 1..Len(s) - 1 : Front(s)[i] = s[i]
      /\ p = s[Len(s)]
  BY <1>1 DEF Front, Last
<1>4. Range(Front(s)) = Range(s) \ {p} /\ p \in Range(s) /\ p \in Payload
  <2> HIDE DEF s, p
  <2>1. p \in Payload /\ p \in Range(s)
    BY <1>1, <1>3 DEF Range
  <2>2. \A i \in DOMAIN Front(s) : Front(s)[i] \in Range(s) /\ Front(s)[i] # p
    BY <1>1, <1>3 DEF Range, Distinct
  <2>3. \A i \in DOMAIN s : s[i] # p => s[i] \in Range(Front(s))
    BY <1>3 DEF Range
  <2> QED BY <2>1, <2>2, <2>3 DEF Range
<1>5. Range(<<p>> \o d["processing"]) = Range(d["processing"]) \cup {p}
  <2> HIDE DEF p
  <2>1. LPush(d, "processing", p)["processing"] = <<p>> \o d["processing"]
    BY DEF LPush, Lists, Keys
  <2>2. "processing" \in Keys
    BY DEF Keys
  <2>3. Range(LPush(d, "processing", p)["processing"]) = Range(d["processing"]) \cup {p}
    BY <1>4, <2>2, LPushEntries
  <2> QED BY <2>1, <2>3
<1> QED BY <1>2, <1>4, <1>5

-----------------------------------------------------------------------------
(* The kinds of step. *)

\* A move is to ready or to dead, and only consume collects messages.
Tidy(f) ==
  /\ f.op = "push" => f.dest \in {"ready", "dead"}
  /\ f.op # "consume" => f.got = {}

AllTidy == \A w \in Workers : Tidy(call[w])

JInv == IInv /\ AllTidy

Faulty == faults' = faults + 1

\* No application and no call forgets a message.
Remembers(w) ==
  /\ faults' = faults
  /\ \A v \in Workers : held[v] \subseteq held'[v]
  /\ call[w].got \subseteq call'[w].got \cup held'[w]

OnlyMoves(w) == \A v \in Workers : v # w => call'[v] = call[v]

Publishes(id) ==
  /\ id \notin Range(published)
  /\ db' = LPush(db, "ready", [id |-> id, attempts |-> 0])
  /\ published' = Append(published, id)
  /\ UNCHANGED <<call, held, delivered, acked, faults>>

\* Nothing moves; what w has in hand it drops, by a fault.
Rests(w) ==
  /\ UNCHANGED <<db, published, delivered, acked>>
  /\ call'[w].moving = {}
  /\ Faulty \/ Remembers(w)

Delivers(w) ==
  /\ TakeReady
  /\ call[w].moving = {} /\ call'[w].moving = {}
  /\ UNCHANGED <<published, acked>>
  /\ \/ Faulty
     \/ /\ faults' = faults
        /\ Last(db["ready"]).id \in Unreadable
     \/ /\ Remembers(w)
        /\ Last(db["ready"]) \in call'[w].got \cup held'[w]

\* An LREM of p, after which p is acknowledged, lost or in w's hand.
Takes(w, key, p) ==
  /\ Removes(key, p)
  /\ db' = LRem(db, key, p)
  /\ call[w].moving = {}
  /\ \/ /\ key = "processing"
        /\ acked' = acked \cup {p.id} /\ call'[w].moving = {}
     \/ acked' = acked /\ call'[w].moving = {}
     \/ acked' = acked /\ call'[w].moving = {p}
     \/ /\ key = "processing" /\ ~Exhausted(p)
        /\ acked' = acked /\ call'[w].moving = {WithAttempt(p)}
  /\ UNCHANGED <<published, delivered>>
  /\ Faulty \/ Remembers(w)

Puts(w, key, p) ==
  /\ call[w].moving = {p} /\ call'[w].moving = {}
  /\ db' = LPush(db, key, p)
  /\ UNCHANGED <<published, delivered, acked>>
  /\ Faulty \/ Remembers(w)

Kind(w) ==
  /\ OnlyMoves(w)
  /\ Tidy(call'[w])
  /\ \/ Rests(w)
     \/ Delivers(w)
     \/ \E key \in {"processing", "dead"}, p \in Payload : Takes(w, key, p)
     \/ \E key \in {"ready", "dead"}, p \in Payload : Puts(w, key, p)

LEMMA TidyFrames ==
  /\ Idle.op = "idle" /\ Idle.got = {} /\ Idle.moving = {} /\ Tidy(Idle)
  /\ \A n, got : /\ Consuming(n, got).moving = {}
                 /\ Consuming(n, got).got = got
                 /\ Tidy(Consuming(n, got))
  /\ \A p, key, rest : /\ Pushing(p, key, rest).moving = {p}
                       /\ key \in {"ready", "dead"} => Tidy(Pushing(p, key, rest))
  /\ \A rest : Recovering(rest).moving = {} /\ Tidy(Recovering(rest))
<1>1. /\ Idle.op = "idle" /\ Idle.got = {} /\ Idle.moving = {} /\ Tidy(Idle)
  BY DEF Idle, Tidy
<1>2. \A n, got : /\ Consuming(n, got).moving = {}
                  /\ Consuming(n, got).got = got
                  /\ Tidy(Consuming(n, got))
  BY DEF Consuming, Tidy
<1>3. \A p, key, rest : /\ Pushing(p, key, rest).moving = {p}
                        /\ key \in {"ready", "dead"} => Tidy(Pushing(p, key, rest))
  BY DEF Pushing, Tidy
<1>4. ASSUME NEW rest PROVE Recovering(rest).moving = {} /\ Tidy(Recovering(rest))
  <2>1. CASE rest = <<>>
    BY <1>1, <2>1 DEF Recovering
  <2>2. CASE rest # <<>>
    <3>1. Recovering(rest) = [op |-> "recover", want |-> 0, got |-> {},
                              moving |-> {}, dest |-> "ready", todo |-> rest]
      BY <2>2 DEF Recovering, Idle
    <3> QED BY <3>1 DEF Tidy
  <2> QED BY <2>1, <2>2
<1> QED BY <1>1, <1>2, <1>3, <1>4

LEMMA Going ==
  ASSUME TypeOK, NEW w \in Workers, NEW f, call' = [call EXCEPT ![w] = f]
  PROVE  OnlyMoves(w) /\ call'[w] = f
BY DEF TypeOK, OnlyMoves

LEMMA Holding ==
  ASSUME TypeOK, NEW w \in Workers, NEW S
  PROVE  /\ UNCHANGED held => \A v \in Workers : held[v] \subseteq held'[v]
         /\ held' = [held EXCEPT ![w] = @ \cup S] =>
              S \subseteq held'[w] /\ \A v \in Workers : held[v] \subseteq held'[v]
BY DEF TypeOK

\* What is known of the call of w before a step.
LEMMA HandEmpty ==
  ASSUME JInv, NEW w \in Workers
  PROVE  /\ call[w].op # "push" => call[w].moving = {}
         /\ call[w].op # "consume" => call[w].got = {}
         /\ call[w].op = "push" => \E p \in Payload : call[w].moving = {p}
         /\ call[w].op = "push" => call[w].dest \in {"ready", "dead"}
BY DEF JInv, IInv, AllTidy, Tidy, FrameOK

LEMMA ConsumeKinds ==
  ASSUME JInv, NEW w \in Workers,
         \/ \E n \in 1..MaxBatch : Consume(w, n)
         \/ MoveToProcessing(w) \/ ConsumeTimesOut(w) \/ ConsumeRaises(w)
  PROVE  Kind(w)
<1>1. TypeOK
  BY DEF JInv, IInv
<1>2. CASE \E n \in 1..MaxBatch : Consume(w, n)
  <2>1. PICK n : Consume(w, n)
    BY <1>2
  <2>2. OnlyMoves(w) /\ call'[w] = Consuming(n, {})
    BY <1>1, <2>1, Going DEF Consume
  <2>3. call[w].got = {}
    BY <2>1, TidyFrames DEF Consume
  <2>4. Rests(w)
    BY <1>1, <2>1, <2>2, <2>3, TidyFrames, Holding DEF Consume, Rests, Remembers
  <2> QED BY <2>2, <2>4, TidyFrames DEF Kind
<1>3. CASE MoveToProcessing(w)
  <2> DEFINE p == Last(db["ready"])
  <2>1. call[w].moving = {} /\ TakeReady /\ UNCHANGED <<published, acked, faults>>
    BY <1>3, HandEmpty DEF MoveToProcessing
  <2>2. CASE p.id \in Unreadable /\ Raise(w)
    <3>1. OnlyMoves(w) /\ call'[w] = Idle
      BY <1>1, <2>2, Going DEF Raise
    <3>2. Delivers(w)
      BY <2>1, <2>2, <3>1, TidyFrames DEF Delivers
    <3> QED BY <3>1, <3>2, TidyFrames DEF Kind
  <2>3. CASE /\ call' = [call EXCEPT ![w] =
                           Consuming(call[w].want - 1, call[w].got \cup {p})]
             /\ UNCHANGED held
    <3>1. PICK f : f = Consuming(call[w].want - 1, call[w].got \cup {p})
      OBVIOUS
    <3>2. OnlyMoves(w) /\ call'[w] = f
      BY <1>1, <2>3, <3>1, Going
    <3>3. f.moving = {} /\ f.got = call[w].got \cup {p} /\ Tidy(f)
      BY <3>1, TidyFrames
    <3>4. Delivers(w)
      BY <1>1, <2>1, <2>3, <3>2, <3>3, Holding DEF Delivers, Remembers
    <3> QED BY <3>2, <3>3, <3>4 DEF Kind
  <2>4. CASE Return(w, call[w].got \cup {p})
    <3>1. OnlyMoves(w) /\ call'[w] = Idle
      BY <1>1, <2>4, Going DEF Return
    <3>2. PICK S : S = call[w].got \cup {p}
      OBVIOUS
    <3>3. S \subseteq held'[w] /\ \A v \in Workers : held[v] \subseteq held'[v]
      BY <1>1, <2>4, <3>2, Holding DEF Return
    <3>4. Delivers(w)
      BY <2>1, <3>1, <3>2, <3>3, TidyFrames DEF Delivers, Remembers
    <3> QED BY <3>1, <3>4, TidyFrames DEF Kind
  <2> QED BY <1>3, <2>2, <2>3, <2>4 DEF MoveToProcessing
<1>4. CASE ConsumeTimesOut(w)
  <2>1. OnlyMoves(w) /\ call'[w] = Idle
    BY <1>1, <1>4, Going DEF ConsumeTimesOut, Return
  <2>2. call[w].got \subseteq held'[w] /\ \A v \in Workers : held[v] \subseteq held'[v]
    <3>1. PICK S : S = call[w].got
      OBVIOUS
    <3> QED BY <1>1, <1>4, <3>1, Holding DEF ConsumeTimesOut, Return
  <2>3. Rests(w)
    BY <1>4, <2>1, <2>2, TidyFrames DEF ConsumeTimesOut, Rests, Remembers
  <2> QED BY <2>1, <2>3, TidyFrames DEF Kind
<1>5. CASE ConsumeRaises(w)
  <2>1. OnlyMoves(w) /\ call'[w] = Idle
    BY <1>1, <1>5, Going DEF ConsumeRaises, Raise
  <2>2. Faulty /\ call[w].moving = {}
    BY <1>5, HandEmpty DEF ConsumeRaises, Fault, Faulty
  <2>3. Rests(w) \/ Delivers(w)
    BY <1>5, <2>1, <2>2, TidyFrames DEF ConsumeRaises, Rests, Delivers
  <2> QED BY <2>1, <2>3, TidyFrames DEF Kind
<1> QED BY <1>2, <1>3, <1>4, <1>5

LEMMA NothingForgotten ==
  ASSUME JInv, NEW w \in Workers, UNCHANGED <<held, faults>>, call[w].op # "consume"
  PROVE  Remembers(w)
<1>1. call[w].got = {}
  BY HandEmpty
<1> QED BY <1>1 DEF Remembers

LEMMA MoveKind ==
  ASSUME JInv, NEW w \in Workers, NEW key \in {"processing", "dead"},
         NEW dest \in {"ready", "dead"}, NEW p \in Payload, NEW q,
         q = p \/ (key = "processing" /\ ~Exhausted(p) /\ q = WithAttempt(p)),
         StartMove(w, key, p, q, dest)
  PROVE  Kind(w)
<1>1. call[w].op = "idle" /\ call[w].moving = {}
  BY TidyFrames DEF StartMove
<1>2. PICK f : f = Pushing(q, dest, <<>>)
  OBVIOUS
<1>3. OnlyMoves(w) /\ call'[w] = f
  BY <1>2, Going DEF StartMove, JInv, IInv
<1>4. f.moving = {q} /\ Tidy(f)
  BY <1>2, TidyFrames
<1>5. Takes(w, key, p)
  BY <1>1, <1>3, <1>4, NothingForgotten DEF StartMove, Takes
<1> QED BY <1>3, <1>4, <1>5 DEF Kind

LEMMA HandleKinds ==
  ASSUME JInv, NEW w \in Workers, NEW p \in held[w],
         \/ Ack(w, p) \/ Retry(w, p) \/ RequeueDead(w, p)
         \/ \E requeue \in BOOLEAN : Nack(w, p, requeue)
         \/ \E key \in {"processing", "dead"} : RemovalReplyLost(w, key, p)
  PROVE  Kind(w)
<1>1. TypeOK /\ p \in Payload
  BY DEF JInv, IInv, TypeOK
<1>2. CASE Ack(w, p)
  <2>1. /\ call[w].op = "idle" /\ call[w].moving = {}
        /\ call' = call /\ Tidy(call[w])
    BY <1>2, TidyFrames DEF Ack
  <2>2. Takes(w, "processing", p)
    BY <1>2, <2>1, NothingForgotten DEF Ack, Takes
  <2> QED BY <1>1, <2>1, <2>2 DEF Kind, OnlyMoves
<1>3. CASE Retry(w, p)
  BY <1>1, <1>3, MoveKind DEF Retry
<1>4. CASE RequeueDead(w, p)
  BY <1>1, <1>4, MoveKind DEF RequeueDead
<1>5. CASE \E requeue \in BOOLEAN : Nack(w, p, requeue)
  BY <1>1, <1>5, MoveKind DEF Nack
<1>6. CASE \E key \in {"processing", "dead"} : RemovalReplyLost(w, key, p)
  <2>1. PICK key \in {"processing", "dead"} : RemovalReplyLost(w, key, p)
    BY <1>6
  <2>2. /\ call[w].moving = {}
        /\ call' = call /\ Tidy(call[w])
    BY <2>1, TidyFrames DEF RemovalReplyLost
  <2>3. Takes(w, key, p)
    BY <2>1, <2>2 DEF RemovalReplyLost, Takes, Fault, Faulty
  <2> QED BY <1>1, <2>2, <2>3 DEF Kind, OnlyMoves
<1> QED BY <1>2, <1>3, <1>4, <1>5, <1>6

LEMMA PushKinds ==
  ASSUME JInv, NEW w \in Workers, Push(w) \/ PushRaises(w)
  PROVE  Kind(w)
<1>1. TypeOK /\ call[w].op = "push"
  BY DEF JInv, IInv, Push, PushRaises
<1>2. PICK p \in Payload : call[w].moving = {p}
  BY <1>1, HandEmpty
<1>3. call[w].dest \in {"ready", "dead"}
  BY <1>1, HandEmpty
<1>4. CASE Push(w)
  <2>1. PICK f : f = Recovering(call[w].todo)
    OBVIOUS
  <2>2. OnlyMoves(w) /\ call'[w] = f
    BY <1>1, <1>4, <2>1, Going DEF Push
  <2>3. f.moving = {} /\ Tidy(f)
    BY <2>1, TidyFrames
  <2>4. PICK key : key = call[w].dest
    OBVIOUS
  <2>5. Puts(w, key, p)
    BY <1>1, <1>2, <1>4, <2>2, <2>3, <2>4, NothingForgotten DEF Push, Puts
  <2> QED BY <1>3, <2>2, <2>3, <2>4, <2>5 DEF Kind
<1>5. CASE PushRaises(w)
  <2>1. OnlyMoves(w) /\ call'[w] = Idle /\ Faulty
    BY <1>1, <1>5, Going DEF PushRaises, Raise, Fault, Faulty
  <2>2. PICK key : key = call[w].dest
    OBVIOUS
  <2>3. Rests(w) \/ Puts(w, key, p)
    BY <1>2, <1>5, <2>1, <2>2, TidyFrames DEF PushRaises, Rests, Puts
  <2> QED BY <1>3, <2>1, <2>2, <2>3, TidyFrames DEF Kind
<1> QED BY <1>4, <1>5

LEMMA RecoverKinds ==
  ASSUME JInv, NEW w \in Workers,
         \/ DeadLetters(w) \/ RecoverStale(w) \/ RecoverNext(w)
         \/ RecoverRaises(w) \/ Crash(w)
  PROVE  Kind(w)
<1>1. TypeOK
  BY DEF JInv, IInv
<1>2. CASE DeadLetters(w)
  <2>1. call' = call /\ Tidy(call[w]) /\ call[w].moving = {} /\ call[w].got = {}
    BY <1>2, TidyFrames DEF DeadLetters
  <2>2. PICK S : S = {Snapshot("dead")[i] : i \in DOMAIN Snapshot("dead")}
    OBVIOUS
  <2>3. \A v \in Workers : held[v] \subseteq held'[v]
    BY <1>1, <1>2, <2>2, Holding DEF DeadLetters
  <2>4. Rests(w)
    BY <1>2, <2>1, <2>3 DEF DeadLetters, Rests, Remembers
  <2> QED BY <2>1, <2>4 DEF Kind, OnlyMoves
<1>3. CASE RecoverStale(w)
  <2>1. PICK f : f = Recovering(Snapshot("processing"))
    OBVIOUS
  <2>2. OnlyMoves(w) /\ call'[w] = f
    BY <1>1, <1>3, <2>1, Going DEF RecoverStale
  <2>3. f.moving = {} /\ Tidy(f)
    BY <2>1, TidyFrames
  <2>4. call[w].op # "consume"
    BY <1>3, TidyFrames DEF RecoverStale
  <2>5. Rests(w)
    BY <1>3, <2>2, <2>3, <2>4, NothingForgotten DEF RecoverStale, Rests
  <2> QED BY <2>2, <2>3, <2>5 DEF Kind
<1>4. CASE RecoverNext(w)
  <2>1. /\ call[w].op = "recover"
        /\ UNCHANGED <<held, published, delivered, acked, faults>>
    BY <1>4 DEF RecoverNext
  <2>2. call[w].moving = {} /\ Remembers(w)
    BY <2>1, HandEmpty, NothingForgotten
  <2>3. PICK p, rest : p = Head(call[w].todo) /\ rest = Tail(call[w].todo)
    OBVIOUS
  <2>4. CASE Raise(w) /\ UNCHANGED db
    <3>1. OnlyMoves(w) /\ call'[w] = Idle
      BY <1>1, <2>4, Going DEF Raise
    <3> QED BY <2>1, <2>2, <2>4, <3>1, TidyFrames DEF Kind, Rests
  <2>5. CASE call' = [call EXCEPT ![w] = Recovering(rest)] /\ UNCHANGED db
    <3>1. PICK f : f = Recovering(rest)
      OBVIOUS
    <3>2. OnlyMoves(w) /\ call'[w] = f
      BY <1>1, <2>5, <3>1, Going
    <3> QED BY <2>1, <2>2, <2>5, <3>1, <3>2, TidyFrames DEF Kind, Rests
  <2>6. CASE /\ Removes("processing", p)
             /\ db' = LRem(db, "processing", p)
             /\ call' = [call EXCEPT ![w] = Pushing(p, "ready", rest)]
    <3>1. PICK f : f = Pushing(p, "ready", rest)
      OBVIOUS
    <3>2. OnlyMoves(w) /\ call'[w] = f
      BY <1>1, <2>6, <3>1, Going
    <3>3. f.moving = {p} /\ Tidy(f)
      BY <3>1, TidyFrames
    <3>4. p \in Payload
      BY <1>1, <2>6 DEF Removes, LRemFinds, TypeOK, Keys
    <3>5. Takes(w, "processing", p)
      BY <2>1, <2>2, <2>6, <3>2, <3>3 DEF Takes
    <3> QED BY <3>2, <3>3, <3>4, <3>5 DEF Kind
  <2> QED BY <1>4, <2>3, <2>4, <2>5, <2>6 DEF RecoverNext
<1>5. CASE RecoverRaises(w)
  <2>1. OnlyMoves(w) /\ call'[w] = Idle /\ Faulty /\ call[w].op = "recover"
    BY <1>1, <1>5, Going DEF RecoverRaises, Raise, Fault, Faulty
  <2>2. call[w].moving = {}
    BY <2>1, HandEmpty
  <2>3. PICK p : p = Head(call[w].todo)
    OBVIOUS
  <2>4. Rests(w) \/ Takes(w, "processing", p)
    BY <1>5, <2>1, <2>2, <2>3, TidyFrames DEF RecoverRaises, Rests, Takes
  <2>5. Removes("processing", p) => p \in Payload
    BY <1>1 DEF Removes, LRemFinds, TypeOK, Keys
  <2> QED BY <2>1, <2>4, <2>5, TidyFrames DEF Kind, Takes
<1>6. CASE Crash(w)
  <2>1. OnlyMoves(w) /\ call'[w] = Idle /\ Faulty
    BY <1>1, <1>6, Going DEF Crash, Fault, Faulty
  <2> QED BY <1>6, <2>1, TidyFrames DEF Crash, Rests, Kind
<1> QED BY <1>2, <1>3, <1>4, <1>5, <1>6

LEMMA Kinds ==
  ASSUME JInv, [Next]_vars
  PROVE  \/ UNCHANGED vars
         \/ \E id \in Ids : Publishes(id)
         \/ \E w \in Workers : Kind(w)
<1>1. ASSUME NEW id \in Ids, Publish(id)
      PROVE  Publishes(id)
  BY <1>1 DEF Publish, Publishes
<1>2. ASSUME NEW w \in Workers, WorkerNext(w)
      PROVE  Kind(w)
  BY <1>2, ConsumeKinds, HandleKinds, PushKinds, RecoverKinds DEF WorkerNext, Step
<1> QED BY <1>1, <1>2 DEF Next

\* JInv is inductive.
LEMMA JInvStep ==
  ASSUME JInv, [Next]_vars
  PROVE  JInv'
<1>1. IInv'
  BY StepPreserves DEF JInv, Preserved
<1>2. AllTidy'
  <2>1. CASE UNCHANGED call
    BY <2>1 DEF JInv, AllTidy
  <2>2. ASSUME NEW w \in Workers, Kind(w)
        PROVE  AllTidy'
    BY <2>2 DEF JInv, AllTidy, Kind, OnlyMoves
  <2> QED BY <2>1, <2>2, Kinds DEF Publishes, vars
<1> QED BY <1>1, <1>2 DEF JInv

LEMMA JInvInvariant == Spec => []JInv
<1>1. Init => JInv
  <2> SUFFICES ASSUME Init PROVE JInv
    OBVIOUS
  <2>1. IInv
    BY InitPlaces
  <2>2. \A w \in Workers : call[w] = Idle
    BY DEF Init
  <2>3. AllTidy
    BY <2>2, TidyFrames DEF AllTidy
  <2> QED BY <2>1, <2>3 DEF JInv
<1>2. JInv /\ [Next]_vars => JInv'
  BY JInvStep
<1> QED BY <1>1, <1>2, PTL DEF Spec

-----------------------------------------------------------------------------
(* Every entry of processing stays known as long as nothing failed.        *)

LEMMA StaysKnown ==
  ASSUME NEW w \in Workers, OnlyMoves(w), Remembers(w), NEW p, Known(p)
  PROVE  Known(p)'
<1>1. PICK v \in Workers : p \in held[v] \cup call[v].got
  BY DEF Known
<1>2. p \in held'[v] \cup call'[v].got
  BY <1>1 DEF OnlyMoves, Remembers
<1> QED BY <1>2 DEF Known

\* Only consume puts an entry into processing, and it hands it out.
LEMMA OnlyConsumeFills ==
  ASSUME JInv, NEW w \in Workers, Kind(w), ~Faulty,
         delivered' \cap Unreadable = {}
  PROVE  /\ Remembers(w)
         /\ \A p \in Range(db'["processing"]) : p \in Range(db["processing"]) \/ Known(p)'
<1>1. db \in Lists /\ OneCopy(db) /\ Keys = {"ready", "processing", "dead"}
  BY SingleCopyParts DEF JInv, IInv, TypeOK, Placed, Lists, Keys
<1>2. CASE Rests(w)
  BY <1>2 DEF Rests
<1>3. CASE Delivers(w)
  <2>1. Last(db["ready"]).id \notin Unreadable
    BY <1>3 DEF Delivers, TakeReady
  <2>2. Remembers(w) /\ Last(db["ready"]) \in call'[w].got \cup held'[w]
    BY <1>3, <2>1 DEF Delivers
  <2>3. Range(db'["processing"]) = Range(db["processing"]) \cup {Last(db["ready"])}
    BY <1>1, <1>3, LMoveEntries DEF Delivers, TakeReady
  <2>4. ASSUME NEW p \in Range(db'["processing"]), p \notin Range(db["processing"])
        PROVE  Known(p)'
    <3>1. p \in call'[w].got \cup held'[w]
      BY <2>2, <2>3, <2>4
    <3> QED BY <3>1 DEF Known
  <2> QED BY <2>2, <2>3, <2>4
<1>4. ASSUME NEW key \in {"processing", "dead"}, NEW p \in Payload, Takes(w, key, p)
      PROVE  /\ Remembers(w)
             /\ Range(db'["processing"]) \subseteq Range(db["processing"])
  <2>1. LRemFinds(db, key, p) /\ db' = LRem(db, key, p) /\ Remembers(w)
    BY <1>4 DEF Takes, Removes
  <2> QED BY <1>1, <2>1, LRemEntries
<1>5. ASSUME NEW key \in {"ready", "dead"}, NEW p \in Payload, Puts(w, key, p)
      PROVE  Remembers(w) /\ db'["processing"] = db["processing"]
  BY <1>1, <1>5, LPushEntries DEF Puts
<1> QED BY <1>2, <1>3, <1>4, <1>5 DEF Kind

LEMMA NoOrphanStep ==
  ASSUME JInv, NoOrphan, [Next]_vars
  PROVE  NoOrphan'
<1> SUFFICES ASSUME faults' = 0, delivered' \cap Unreadable = {},
                    NEW p \in Range(db'["processing"])
             PROVE  Known(p)'
  BY DEF NoOrphan, Range
<1>1. TypeOK /\ faults \in Nat
  BY DEF JInv, IInv, TypeOK
<1>2. NoOrphan <=> ((faults = 0 /\ delivered \cap Unreadable = {}) =>
                      \A q \in Range(db["processing"]) : Known(q))
  BY DEF NoOrphan, Range
<1>3. ~Faulty
  BY <1>1 DEF Faulty
<1>4. CASE UNCHANGED <<db, call, held, delivered, faults>>
  BY <1>2, <1>4 DEF Known
<1>5. ASSUME NEW id \in Ids, Publishes(id)
      PROVE  Known(p)'
  <2>1. db'["processing"] = db["processing"]
    BY <1>1, <1>5 DEF Publishes, LPush, TypeOK, Keys
  <2>2. Known(p)
    BY <1>2, <1>5, <2>1 DEF Publishes
  <2> QED BY <1>5, <2>2 DEF Publishes, Known
<1>6. ASSUME NEW w \in Workers, Kind(w)
      PROVE  Known(p)'
  <2>1. /\ Remembers(w) /\ OnlyMoves(w)
        /\ p \in Range(db["processing"]) \/ Known(p)'
    BY <1>3, <1>6, OnlyConsumeFills DEF Kind
  <2>2. faults = 0 /\ delivered \subseteq delivered'
    BY <1>6, <2>1 DEF Remembers, Kind, Rests, Delivers, Takes, Puts, TakeReady
  <2>3. p \in Range(db["processing"]) => Known(p)
    BY <1>2, <2>2
  <2> QED BY <2>1, <2>3, StaysKnown
<1> QED BY <1>4, <1>5, <1>6, Kinds DEF vars

\* Without a fault or an unreadable envelope, somebody can still settle every
\* entry of processing: no interleaving of consumes, retries and recoveries
\* drops the last handle on it, however large the batches are.
THEOREM NoEntryIsOrphaned == Spec => []NoOrphan
<1>1. Init => NoOrphan
  BY DEF Init, NoOrphan, Keys
<1>2. JInv /\ NoOrphan /\ [Next]_vars => NoOrphan'
  BY NoOrphanStep
<1> QED BY <1>1, <1>2, JInvInvariant, PTL DEF Spec

-----------------------------------------------------------------------------
(* First deliveries in publish order.  The messages that were never        *)
(* delivered wait in ready, from right to left as they were published;     *)
(* whatever is elsewhere, or on its way back, was delivered before.        *)

Once(pub) == \A i, j \in DOMAIN pub : pub[i] = pub[j] => i = j

Waiting(r, pub, del) == Range(pub) \ del \subseteq IdsIn(r)

InLine(r, pub, del) ==
  \A i, j \in DOMAIN pub, a, b \in DOMAIN r :
    ( /\ i < j /\ pub[i] \notin del /\ pub[j] \notin del
      /\ r[a].id = pub[i] /\ r[b].id = pub[j] ) => b < a

FirstInOrder(pub, del) ==
  \A i, j \in DOMAIN pub : (i < j /\ pub[j] \in del) => pub[i] \in del

Elsewhere == IdsIn(db["processing"]) \cup IdsIn(db["dead"]) \cup Moving

QInv ==
  /\ Once(published)
  /\ delivered \subseteq Range(published)
  /\ Waiting(db["ready"], published, delivered)
  /\ InLine(db["ready"], published, delivered)
  /\ FirstInOrder(published, delivered)
  /\ Elsewhere \subseteq delivered

\* A message that was delivered before may come back on the left.
LEMMA ComesBack ==
  ASSUME NEW r \in Seq(Payload), NEW p \in Payload, NEW pub, NEW del,
         p.id \in del, Waiting(r, pub, del), InLine(r, pub, del)
  PROVE  Waiting(<<p>> \o r, pub, del) /\ InLine(<<p>> \o r, pub, del)
<1> DEFINE t == <<p>> \o r
<1>1. IdsIn(t) = IdsIn(r) \cup {p.id}
  BY PushLeft
<1>2. /\ DOMAIN r = 1..Len(r) /\ Len(r) \in Nat /\ DOMAIN t = 1..Len(r) + 1
      /\ t[1] = p /\ \A i \in 1..Len(r) : t[i + 1] = r[i]
  OBVIOUS
<1> HIDE DEF t
<1>3. \A a \in DOMAIN t : t[a].id \notin del => a - 1 \in DOMAIN r /\ t[a] = r[a - 1]
  BY <1>2
<1>4. \A a, b \in DOMAIN t : b - 1 < a - 1 => b < a
  BY <1>2
<1>5. Waiting(t, pub, del)
  BY <1>1 DEF Waiting
<1>6. InLine(t, pub, del)
  <2> SUFFICES ASSUME NEW i \in DOMAIN pub, NEW j \in DOMAIN pub,
                      NEW a \in DOMAIN t, NEW b \in DOMAIN t,
                      i < j, pub[i] \notin del, pub[j] \notin del,
                      t[a].id = pub[i], t[b].id = pub[j]
               PROVE  b < a
    BY DEF InLine
  <2>1. /\ a - 1 \in DOMAIN r /\ b - 1 \in DOMAIN r
        /\ r[a - 1].id = pub[i] /\ r[b - 1].id = pub[j]
    BY <1>3
  <2>2. b - 1 < a - 1
    BY <2>1 DEF InLine
  <2> QED BY <1>4, <2>2
<1> QED BY <1>5, <1>6 DEF t

\* A new message queues up behind the others.
LEMMA QueuesUp ==
  ASSUME NEW r \in Seq(Payload), NEW pub \in Seq(Ids), NEW p \in Payload, NEW del,
         p.id \in Ids, p.id \notin Range(pub), IdsIn(r) \subseteq Range(pub),
         del \subseteq Range(pub),
         Once(pub), Waiting(r, pub, del), InLine(r, pub, del), FirstInOrder(pub, del)
  PROVE  LET s == Append(pub, p.id)
             t == <<p>> \o r
         IN /\ Once(s) /\ Range(s) = Range(pub) \cup {p.id}
            /\ Waiting(t, s, del)
            /\ InLine(t, s, del)
            /\ FirstInOrder(s, del)
<1> DEFINE s == Append(pub, p.id)
           t == <<p>> \o r
<1>1. IdsIn(t) = IdsIn(r) \cup {p.id} /\ Range(s) = Range(pub) \cup {p.id}
  BY PushLeft, AppendRange
<1>2. /\ DOMAIN r = 1..Len(r) /\ Len(r) \in Nat /\ DOMAIN t = 1..Len(r) + 1
      /\ t[1] = p /\ \A i \in 1..Len(r) : t[i + 1] = r[i]
  OBVIOUS
<1>3. /\ DOMAIN pub = 1..Len(pub) /\ Len(pub) \in Nat /\ DOMAIN s = 1..Len(pub) + 1
      /\ s[Len(pub) + 1] = p.id /\ \A i \in 1..Len(pub) : s[i] = pub[i]
  OBVIOUS
<1> HIDE DEF s, t
<1>4. \A a \in DOMAIN t : \/ a = 1 /\ t[a].id = p.id
                          \/ /\ a - 1 \in DOMAIN r /\ t[a] = r[a - 1]
                             /\ t[a].id \in Range(pub)
  BY <1>2 DEF IdsIn
<1>5. \A i \in DOMAIN s : \/ i = Len(pub) + 1 /\ s[i] = p.id
                          \/ i \in DOMAIN pub /\ s[i] = pub[i] /\ s[i] \in Range(pub)
  BY <1>3 DEF Range
<1>6. \A i \in DOMAIN pub : i < Len(pub) + 1 /\ ~(Len(pub) + 1 < i)
  BY <1>3
<1>7. Once(s)
  BY <1>5 DEF Once
<1>8. FirstInOrder(s, del)
  <2> SUFFICES ASSUME NEW i \in DOMAIN s, NEW j \in DOMAIN s, i < j, s[j] \in del
               PROVE  s[i] \in del
    BY DEF FirstInOrder
  <2>1. j \in DOMAIN pub /\ s[j] = pub[j]
    BY <1>5
  <2>2. i \in DOMAIN pub /\ s[i] = pub[i]
    BY <1>5, <1>6, <2>1
  <2> QED BY <2>1, <2>2 DEF FirstInOrder
<1>9. Waiting(t, s, del)
  BY <1>1 DEF Waiting
<1>10. InLine(t, s, del)
  <2> SUFFICES ASSUME NEW i \in DOMAIN s, NEW j \in DOMAIN s,
                      NEW a \in DOMAIN t, NEW b \in DOMAIN t,
                      i < j, s[i] \notin del, s[j] \notin del,
                      t[a].id = s[i], t[b].id = s[j]
               PROVE  b < a
    BY DEF InLine
  <2>1. i \in DOMAIN pub /\ s[i] = pub[i] /\ s[i] \in Range(pub)
    <3>1. CASE j = Len(pub) + 1
      BY <1>5, <3>1
    <3>2. CASE j \in DOMAIN pub
      BY <1>5, <1>6, <3>2
    <3> QED BY <1>5, <3>1, <3>2
  <2>2. a # 1 /\ a - 1 \in DOMAIN r /\ t[a] = r[a - 1]
    BY <1>4, <2>1
  <2>3. CASE s[j] = p.id
    <3>1. b = 1
      BY <1>4, <2>3
    <3> QED BY <1>2, <2>2, <3>1
  <2>4. CASE j \in DOMAIN pub /\ s[j] = pub[j] /\ s[j] \in Range(pub)
    <3>1. b - 1 \in DOMAIN r /\ t[b] = r[b - 1]
      BY <1>4, <2>4
    <3>2. b - 1 < a - 1
      BY <2>1, <2>2, <2>4, <3>1 DEF InLine
    <3> QED BY <1>2, <3>2
  <2> QED BY <1>5, <2>3, <2>4
<1> QED BY <1>1, <1>7, <1>8, <1>9, <1>10 DEF s, t

\* The entry at the right end is the next one in line.
LEMMA TakenInOrder ==
  ASSUME NEW r \in Seq(Payload), r # <<>>, NEW pub \in Seq(Ids), NEW del,
         Once(pub), IdsIn(r) \subseteq Range(pub),
         Waiting(r, pub, del), InLine(r, pub, del), FirstInOrder(pub, del)
  PROVE  LET e == del \cup {Last(r).id}
         IN /\ Waiting(Front(r), pub, e)
            /\ InLine(Front(r), pub, e)
            /\ FirstInOrder(pub, e)
<1> DEFINE x == Last(r).id
           e == del \cup {x}
           t == Front(r)
<1>1. IdsIn(r) = IdsIn(t) \cup {x}
  BY PopRight
<1>2. /\ Len(r) \in Nat \ {0} /\ DOMAIN r = 1..Len(r)
      /\ DOMAIN t = 1..Len(r) - 1
      /\ \A i \in 1..Len(r) - 1 : t[i] = r[i]
      /\ x = r[Len(r)].id
  BY DEF Front, Last
<1>3. DOMAIN pub = 1..Len(pub) /\ Len(pub) \in Nat
  OBVIOUS
<1> HIDE DEF x, t
<1>4. Waiting(t, pub, e)
  BY <1>1 DEF Waiting
<1>5. InLine(t, pub, e)
  BY <1>2 DEF InLine
<1>6. FirstInOrder(pub, e)
  <2> SUFFICES ASSUME NEW i \in DOMAIN pub, NEW j \in DOMAIN pub,
                      i < j, pub[j] = x, x \notin del, pub[i] \notin del
               PROVE  FALSE
    BY DEF FirstInOrder
  <2>1. PICK a \in DOMAIN r : r[a].id = pub[i]
    BY DEF Waiting, Range, IdsIn
  <2>2. Len(r) < a
    BY <1>2, <2>1 DEF InLine
  <2> QED BY <1>2, <2>2
<1> QED BY <1>4, <1>5, <1>6 DEF x, t

LEMMA QInvStep ==
  ASSUME JInv, QInv, [Next]_vars
  PROVE  QInv'
<1>1. /\ TypeOK /\ db \in Lists /\ OneCopy(db) /\ Keys = {"ready", "processing", "dead"}
      /\ IdsIn(db["ready"]) \subseteq Range(published)
  <2>1. Keys = {"ready", "processing", "dead"}
    BY DEF Keys
  <2>2. IdsIn(db["ready"]) \subseteq Range(published)
    BY <2>1 DEF JInv, IInv, Placed, Traced, Listed
  <2> QED BY <2>1, <2>2, SingleCopyParts DEF JInv, IInv, TypeOK, Placed, Lists
<1>2. /\ db["ready"] \in Seq(Payload) /\ db["processing"] \in Seq(Payload)
      /\ db["dead"] \in Seq(Payload) /\ published \in Seq(Ids)
  BY <1>1 DEF TypeOK
<1>3. CASE UNCHANGED vars
  BY <1>3 DEF vars, QInv, Elsewhere, Moving, MovingBy
<1>4. ASSUME NEW id \in Ids, Publishes(id)
      PROVE  QInv'
  <2>1. PICK p : p = [id |-> id, attempts |-> 0]
    OBVIOUS
  <2>2. p \in Payload /\ p.id = id
    BY <2>1, ConstantsAssumption DEF Payload
  <2>3. /\ db'["ready"] = <<p>> \o db["ready"]
        /\ db'["processing"] = db["processing"] /\ db'["dead"] = db["dead"]
    BY <1>1, <1>4, <2>1 DEF Publishes, LPush, Lists
  <2>4. Elsewhere' = Elsewhere
    BY <1>4, <2>3 DEF Publishes, Elsewhere, Moving, MovingBy
  <2>5. p.id \notin Range(published) /\ published' = Append(published, p.id)
    BY <1>4, <2>2 DEF Publishes
  <2>6. PICK t, s : t = <<p>> \o db["ready"] /\ s = Append(published, p.id)
    OBVIOUS
  <2>7. /\ Once(s) /\ Range(s) = Range(published) \cup {p.id}
        /\ Waiting(t, s, delivered)
        /\ InLine(t, s, delivered)
        /\ FirstInOrder(s, delivered)
    BY <1>1, <1>2, <2>2, <2>5, <2>6, QueuesUp DEF QInv
  <2>8. published' = s /\ db'["ready"] = t /\ delivered' = delivered
    BY <1>4, <2>3, <2>5, <2>6 DEF Publishes
  <2> QED BY <2>4, <2>7, <2>8 DEF QInv
<1>5. ASSUME NEW w \in Workers, Kind(w)
      PROVE  QInv'
  <2>1. Moving' \subseteq Moving \cup MovingBy(w)'
    BY <1>5 DEF Kind, OnlyMoves, Moving, MovingBy
  <2>2. CASE Rests(w)
    <3>1. MovingBy(w)' = {}
      BY <2>2 DEF Rests, MovingBy
    <3> QED BY <2>1, <2>2, <3>1 DEF Rests, QInv, Elsewhere
  <2>3. CASE Delivers(w)
    <3>1. /\ db["ready"] # <<>> /\ db' = LMove(db, "ready", "processing")
          /\ delivered' = delivered \cup {Last(db["ready"]).id}
          /\ published' = published /\ MovingBy(w)' = {}
      BY <2>3 DEF Delivers, TakeReady, MovingBy
    <3>2. PICK p : p = Last(db["ready"])
      OBVIOUS
    <3>3. /\ db'["ready"] = Front(db["ready"])
          /\ db'["processing"] = <<p>> \o db["processing"]
          /\ db'["dead"] = db["dead"] /\ p \in Payload
      BY <1>1, <3>1, <3>2, LMoveEntries DEF LMove, Lists
    <3>4. IdsIn(db'["processing"]) = IdsIn(db["processing"]) \cup {p.id}
      BY <1>2, <3>3, PushLeft
    <3>5. Elsewhere' \subseteq delivered'
      BY <2>1, <3>1, <3>2, <3>3, <3>4 DEF QInv, Elsewhere
    <3>6. delivered' \subseteq Range(published')
      <4>1. p.id \in IdsIn(db["ready"])
        <5>1. IdsIn(db["ready"]) = IdsIn(Front(db["ready"])) \cup {Last(db["ready"]).id}
          BY <1>2, <3>1, PopRight
        <5> QED BY <3>2, <5>1
      <4> QED BY <1>1, <3>1, <3>2, <4>1 DEF QInv
    <3>7. /\ Waiting(db'["ready"], published', delivered')
          /\ InLine(db'["ready"], published', delivered')
          /\ FirstInOrder(published', delivered')
      BY <1>1, <1>2, <3>1, <3>3, TakenInOrder DEF QInv
    <3> QED BY <3>1, <3>5, <3>6, <3>7 DEF QInv
  <2>4. ASSUME NEW key \in {"processing", "dead"}, NEW p \in Payload, Takes(w, key, p)
        PROVE  QInv'
    <3>1. LRemFinds(db, key, p) /\ db' = LRem(db, key, p)
      BY <2>4 DEF Takes, Removes
    <3>2. /\ p \in Range(db[key]) /\ Range(db'[key]) \subseteq Range(db[key])
          /\ \A m \in Keys : m # key => db'[m] = db[m]
      BY <1>1, <3>1, LRemEntries
    <3>3. \A k \in Keys : IdsIn(db'[k]) \subseteq IdsIn(db[k])
      BY <3>2 DEF IdsIn, Range
    <3>4. p.id \in IdsIn(db[key])
      BY <3>2 DEF IdsIn, Range
    <3>5. MovingBy(w)' \subseteq {p.id}
      BY <2>4 DEF Takes, MovingBy, WithAttempt, Payload
    <3>6. Elsewhere' \subseteq delivered
      BY <1>1, <2>1, <3>3, <3>4, <3>5 DEF QInv, Elsewhere
    <3> QED BY <1>1, <2>4, <3>2, <3>6 DEF QInv, Takes
  <2>5. ASSUME NEW key \in {"ready", "dead"}, NEW p \in Payload, Puts(w, key, p)
        PROVE  QInv'
    <3>1. p.id \in delivered /\ MovingBy(w)' = {}
      BY <2>5 DEF Puts, QInv, Elsewhere, Moving, MovingBy
    <3>2. /\ db'[key] = <<p>> \o db[key]
          /\ \A m \in Keys : m # key => db'[m] = db[m]
      BY <1>1, <2>5 DEF Puts, LPush, Lists
    <3>3. IdsIn(db'[key]) = IdsIn(db[key]) \cup {p.id}
      BY <1>2, <3>2, PushLeft
    <3>4. Elsewhere' \subseteq delivered
      BY <1>1, <2>1, <3>1, <3>2, <3>3 DEF QInv, Elsewhere
    <3>5. /\ Waiting(db'["ready"], published, delivered)
          /\ InLine(db'["ready"], published, delivered)
      BY <1>1, <1>2, <3>1, <3>2, ComesBack DEF QInv
    <3> QED BY <2>5, <3>4, <3>5 DEF Puts, QInv
  <2> QED BY <1>5, <2>2, <2>3, <2>4, <2>5 DEF Kind
<1> QED BY <1>3, <1>4, <1>5, Kinds DEF Publishes

LEMMA QInvInvariant == Spec => []QInv
<1>1. Init => QInv
  <2> SUFFICES ASSUME Init PROVE QInv
    OBVIOUS
  <2>1. /\ DOMAIN published = {} /\ Range(published) = {} /\ delivered = {}
        /\ \A k \in Keys : IdsIn(db[k]) = {}
        /\ "processing" \in Keys /\ "dead" \in Keys
    BY DEF Init, Range, IdsIn, Keys
  <2>2. Moving = {}
    BY TidyFrames DEF Init, Moving, MovingBy
  <2> QED BY <2>1, <2>2 DEF QInv, Elsewhere, Once, Waiting, InLine, FirstInOrder
<1>2. JInv /\ QInv /\ [Next]_vars => QInv'
  BY QInvStep
<1> QED BY <1>1, <1>2, JInvInvariant, PTL DEF Spec

\* Messages are delivered for the first time in the order in which they were
\* published, whatever is nacked, retried, recovered or requeued in between and
\* however many workers, batches and faults there are.
THEOREM FirstDeliveriesInOrder == Spec => []FirstDeliveryInOrder
<1>1. QInv => FirstDeliveryInOrder
  BY DEF QInv, FirstInOrder, FirstDeliveryInOrder
<1> QED BY <1>1, QInvInvariant, PTL

-----------------------------------------------------------------------------
(* The lists implement MessageLifecycle.  In every state of IInv the place *)
(* and the counter of a message follow from the one entry that has its id; *)
(* a step touches the entries of one message only, and moves it the way    *)
(* the life cycle allows.                                                  *)

Att(id) == {p.attempts : p \in {q \in Entries : q.id = id}}

At(id, place, att) == Place(id) = place /\ Att(id) = att

\* The entry p is in the list under key, or in the hands of w.
In(p, key) == p \in Range(db[key])
Hand(w) == call[w].moving

Nowhere(id) ==
  /\ \A k \in Keys, p \in Payload : In(p, k) => p.id # id
  /\ \A w \in Workers, p \in Payload : p \in Hand(w) => p.id # id

Places ==
  \A id \in Ids :
    /\ id \notin Range(published) => At(id, "new", {})
    /\ id \in acked => At(id, "acked", {})
    /\ \A w \in Workers, p \in Payload :
         p \in Hand(w) /\ p.id = id => At(id, "moving", {p.attempts})
    /\ \A k \in Keys, p \in Payload :
         In(p, k) /\ p.id = id => At(id, k, {p.attempts})
    /\ id \in Range(published) /\ id \notin acked /\ Nowhere(id) => At(id, "lost", {})

\* No two entries have the same id.
Alone ==
  /\ \A k, m \in Keys, p, q \in Payload :
       In(p, k) /\ In(q, m) /\ p.id = q.id => k = m /\ p = q
  /\ \A k \in Keys, w \in Workers, p, q \in Payload :
       In(p, k) /\ q \in Hand(w) => p.id # q.id
  /\ \A v, w \in Workers, p, q \in Payload :
       p \in Hand(v) /\ q \in Hand(w) /\ p.id = q.id => v = w /\ p = q

\* Entries are payloads of published messages that are not acknowledged.
Outstanding ==
  /\ \A k \in Keys : \A p \in Range(db[k]) :
       p \in Payload /\ p.id \in Range(published) /\ p.id \notin acked
  /\ \A w \in Workers : \A p \in Hand(w) :
       p \in Payload /\ p.id \in Range(published) /\ p.id \notin acked
  /\ acked \subseteq Range(published)

LEMMA EntriesAlone == IInv => Alone /\ Outstanding
<1> SUFFICES ASSUME IInv PROVE Alone /\ Outstanding
  OBVIOUS
<1>1. TypeOK /\ FramesOK /\ SingleCopy /\ AckedGone /\ Traced
  BY DEF IInv, FramesOK, Placed
<1>2. \A k \in Keys : \A p \in Range(db[k]) : p \in Payload /\ p.id \in IdsIn(db[k])
  BY <1>1 DEF TypeOK, Range, IdsIn
<1>3. \A w \in Workers : \A p \in Hand(w) : p \in Payload /\ p.id \in MovingBy(w)
  BY <1>1 DEF Hand, MovingBy, TypeOK, Frame
<1>4. /\ \A k \in Keys : IdsIn(db[k]) \subseteq Listed
      /\ \A w \in Workers : MovingBy(w) \subseteq Moving
  BY DEF Listed, Moving
<1>5. Outstanding
  BY <1>1, <1>2, <1>3, <1>4 DEF Outstanding, AckedGone, Traced
<1>6. ASSUME NEW k \in Keys, NEW m \in Keys, NEW p \in Payload, NEW q \in Payload,
             In(p, k), In(q, m), p.id = q.id
      PROVE  k = m /\ p = q
  <2>1. PICK i \in DOMAIN db[k] : p = db[k][i]
    BY <1>6 DEF In, Range
  <2>2. PICK j \in DOMAIN db[m] : q = db[m][j]
    BY <1>6 DEF In, Range
  <2> QED BY <1>1, <1>6, <2>1, <2>2 DEF SingleCopy
<1>7. ASSUME NEW k \in Keys, NEW w \in Workers, NEW p \in Payload, NEW q \in Payload,
             In(p, k), q \in Hand(w)
      PROVE  p.id # q.id
  BY <1>1, <1>2, <1>3, <1>4, <1>7 DEF In, SingleCopy
<1>8. ASSUME NEW v \in Workers, NEW w \in Workers, NEW p \in Payload, NEW q \in Payload,
             p \in Hand(v), q \in Hand(w), p.id = q.id
      PROVE  v = w /\ p = q
  <2>1. v = w
    BY <1>1, <1>3, <1>8 DEF SingleCopy
  <2>2. p = q
    BY <1>1, <1>8, <2>1 DEF FramesOK, FrameOK, Hand
  <2> QED BY <2>1, <2>2
<1> QED BY <1>5, <1>6, <1>7, <1>8 DEF Alone

LEMMA PlacesHold == IInv => Places
<1> SUFFICES ASSUME IInv PROVE Places
  OBVIOUS
<1>1. Alone /\ Outstanding
  BY EntriesAlone
<1>2. \A q : q \in Entries <=> \/ \E k \in Keys : In(q, k)
                               \/ \E w \in Workers : q \in Hand(w)
  <2> DEFINE lists == UNION {Range(db[k]) : k \in Keys}
             hands == UNION {call[w].moving : w \in Workers}
  <2>1. \A q : q \in lists <=> \E k \in Keys : In(q, k)
    BY DEF In
  <2>2. \A q : q \in hands <=> \E w \in Workers : q \in Hand(w)
    BY DEF Hand
  <2>3. Entries = lists \cup hands
    BY DEF Entries
  <2> HIDE DEF lists, hands
  <2> QED BY <2>1, <2>2, <2>3
<1>3. \A q \in Entries : q \in Payload
  BY <1>1, <1>2 DEF In, Outstanding
<1>4. \A id : id \in Moving <=> \E w \in Workers : \E q \in Payload : q \in Hand(w) /\ q.id = id
  BY <1>1 DEF Moving, MovingBy, Hand, Outstanding
<1>5. \A id : \A k \in Keys : id \in IdsIn(db[k]) <=> \E q \in Payload : In(q, k) /\ q.id = id
  <2>1. \A k \in Keys : IdsIn(db[k]) = {q.id : q \in Range(db[k])}
    BY DEF IdsIn, Range
  <2> QED BY <1>1, <2>1 DEF In, Outstanding
<1>6. ASSUME NEW id \in Ids, Nowhere(id)
      PROVE  Att(id) = {} /\ id \notin Moving /\ \A k \in Keys : id \notin IdsIn(db[k])
  BY <1>2, <1>3, <1>4, <1>5, <1>6 DEF Att, Nowhere
<1>7. ASSUME NEW q \in Payload, q \in Entries
      PROVE  Att(q.id) = {q.attempts}
  <2>1. \A r \in Entries : r.id = q.id => r = q
    BY <1>1, <1>2, <1>3, <1>7 DEF Alone
  <2>2. {r \in Entries : r.id = q.id} = {q}
    BY <1>7, <2>1
  <2> QED BY <2>2 DEF Att
<1> SUFFICES ASSUME NEW id \in Ids
             PROVE  /\ id \notin Range(published) => At(id, "new", {})
                    /\ id \in acked => At(id, "acked", {})
                    /\ \A w \in Workers, p \in Payload :
                         p \in Hand(w) /\ p.id = id => At(id, "moving", {p.attempts})
                    /\ \A k \in Keys, p \in Payload :
                         In(p, k) /\ p.id = id => At(id, k, {p.attempts})
                    /\ id \in Range(published) /\ id \notin acked /\ Nowhere(id) =>
                         At(id, "lost", {})
  BY DEF Places
<1>8. id \notin Range(published) \/ id \in acked => Nowhere(id)
  BY <1>1 DEF Nowhere, Outstanding, In
<1>9. id \notin Range(published) => At(id, "new", {})
  BY <1>1, <1>6, <1>8 DEF At, Place, Outstanding
<1>10. id \in acked => At(id, "acked", {})
  BY <1>1, <1>6, <1>8 DEF At, Place, Outstanding
<1>11. ASSUME NEW w \in Workers, NEW p \in Payload, p \in Hand(w), p.id = id
       PROVE  At(id, "moving", {p.attempts})
  <2>1. \A k \in Keys : id \notin IdsIn(db[k])
    BY <1>1, <1>5, <1>11 DEF Alone
  <2>2. id \in Range(published) /\ id \notin acked /\ id \in Moving
    BY <1>1, <1>4, <1>11 DEF Outstanding
  <2>3. Place(id) = "moving"
    BY <2>1, <2>2 DEF Place
  <2>4. Att(id) = {p.attempts}
    BY <1>2, <1>7, <1>11
  <2> QED BY <2>3, <2>4 DEF At
<1>12. ASSUME NEW k \in Keys, NEW p \in Payload, In(p, k), p.id = id
       PROVE  At(id, k, {p.attempts})
  <2>1. id \in Range(published) /\ id \notin acked /\ id \notin Moving
    BY <1>1, <1>4, <1>12 DEF Outstanding, In, Alone
  <2>2. \A m \in Keys : id \in IdsIn(db[m]) <=> m = k
    BY <1>1, <1>5, <1>12 DEF Alone
  <2>3. (CHOOSE m \in Keys : id \in IdsIn(db[m])) = k
    BY <2>2
  <2>4. Place(id) = k
    BY <2>1, <2>2, <2>3 DEF Place
  <2>5. Att(id) = {p.attempts}
    BY <1>2, <1>7, <1>12
  <2> QED BY <2>4, <2>5 DEF At
<1>13. ASSUME id \in Range(published), id \notin acked, Nowhere(id)
       PROVE  At(id, "lost", {})
  BY <1>6, <1>13 DEF At, Place
<1> QED BY <1>9, <1>10, <1>11, <1>12, <1>13

-----------------------------------------------------------------------------
\* A step leaves the entries of a message alone.
Unmoved(id) ==
  /\ \A k \in Keys, p \in Payload : p.id = id => (In(p, k)' <=> In(p, k))
  /\ \A w \in Workers, p \in Payload : p.id = id => ((p \in Hand(w))' <=> p \in Hand(w))
  /\ (id \in Range(published))' <=> id \in Range(published)
  /\ (id \in acked)' <=> id \in acked

Same(id) == Place(id)' = Place(id) /\ Att(id)' = Att(id)

LEMMA UnmovedSame ==
  ASSUME Places, Places', NEW id \in Ids, Unmoved(id)
  PROVE  Same(id)
<1>1. CASE id \notin Range(published) \/ id \in acked
  BY <1>1 DEF Places, At, Unmoved, Same
<1>2. ASSUME NEW w \in Workers, NEW p \in Payload, p \in Hand(w), p.id = id
      PROVE  Same(id)
  <2>1. (p \in Hand(w))'
    BY <1>2 DEF Unmoved
  <2>2. At(id, "moving", {p.attempts}) /\ At(id, "moving", {p.attempts})'
    BY <1>2, <2>1 DEF Places
  <2> QED BY <2>2 DEF At, Same
<1>3. ASSUME NEW k \in Keys, NEW p \in Payload, In(p, k), p.id = id
      PROVE  Same(id)
  <2>1. In(p, k)'
    BY <1>3 DEF Unmoved
  <2>2. At(id, k, {p.attempts}) /\ At(id, k, {p.attempts})'
    BY <1>3, <2>1 DEF Places
  <2> QED BY <2>2 DEF At, Same
<1>4. CASE id \in Range(published) /\ id \notin acked /\ Nowhere(id)
  <2>1. Nowhere(id)'
    BY <1>4 DEF Unmoved, Nowhere
  <2>2. At(id, "lost", {}) /\ At(id, "lost", {})'
    BY <1>4, <2>1 DEF Places, Unmoved
  <2> QED BY <2>2 DEF At, Same
<1> QED BY <1>1, <1>2, <1>3, <1>4 DEF Nowhere

\* One message moves, the others stay.
LEMMA Moved ==
  ASSUME NEW id \in Ids, NEW from, NEW to, NEW old, NEW new,
         At(id, from, old), At(id, to, new)',
         \A x \in Ids : x # id => Same(x)
  PROVE  /\ Lifecycle!Move(id, from, to, new)
         /\ [x \in Ids |-> Att(x)][id] = old
<1>1. [x \in Ids |-> Place(x)][id] = from
  BY DEF At
<1>2. [x \in Ids |-> Place(x)]' = [[x \in Ids |-> Place(x)] EXCEPT ![id] = to]
  BY DEF At, Same
<1>3. [x \in Ids |-> Att(x)]' = [[x \in Ids |-> Att(x)] EXCEPT ![id] = new]
  BY DEF At, Same
<1> QED BY <1>1, <1>2, <1>3 DEF At, Att, Lifecycle!Move

-----------------------------------------------------------------------------
\* What is known before and after a step.
Settled == Alone /\ Outstanding /\ Places /\ db \in Lists /\ OneCopy(db)

LEMMA KnownStep == IInv => Settled
BY EntriesAlone, PlacesHold, SingleCopyParts DEF Settled, IInv, TypeOK, Placed, Lists

LEMMA PublishesImplements ==
  ASSUME Settled, Settled', JInv, NEW id \in Ids, Publishes(id)
  PROVE  Lifecycle!Publish(id)
<1>1. PICK p : p = [id |-> id, attempts |-> 0]
  OBVIOUS
<1>2. p \in Payload /\ p.id = id /\ p.attempts = 0
  BY <1>1, ConstantsAssumption DEF Payload
<1>3. "ready" \in Keys
  BY DEF Keys
<1>4. db' = LPush(db, "ready", p)
  BY <1>1 DEF Publishes
<1>5. /\ Range(db'["ready"]) = Range(db["ready"]) \cup {p}
      /\ \A m \in Keys : m # "ready" => db'[m] = db[m]
  BY <1>2, <1>3, <1>4, LPushEntries DEF Settled
<1>6. Range(published') = Range(published) \cup {id}
  <2>1. published \in Seq(Ids)
    BY DEF JInv, IInv, TypeOK
  <2> QED BY <2>1, AppendRange DEF Publishes
<1>7. \A x \in Ids : x # id => Unmoved(x)
  BY <1>2, <1>5, <1>6 DEF Publishes, Unmoved, In, Hand
<1>8. \A x \in Ids : x # id => Same(x)
  BY <1>7, UnmovedSame DEF Settled
<1>9. At(id, "new", {})
  BY DEF Settled, Places, Publishes
<1>10. At(id, "ready", {0})'
  <2>1. In(p, "ready")'
    BY <1>5 DEF In
  <2>2. At(id, "ready", {p.attempts})'
    BY <1>2, <1>3, <2>1 DEF Settled, Places
  <2> QED BY <1>2, <2>2
<1> QED BY <1>8, <1>9, <1>10, Moved DEF Lifecycle!Publish

LEMMA RestsImplements ==
  ASSUME Settled, Settled', JInv, NEW w \in Workers, OnlyMoves(w), Rests(w)
  PROVE  \/ UNCHANGED Lifecycle!vars
         \/ \E id \in Ids : Lifecycle!Lose(id)
<1>1. \/ Hand(w) = {}
      \/ \E p \in Payload : Hand(w) = {p}
  BY HandEmpty DEF Hand
<1>2. CASE Hand(w) = {}
  <2>1. \A x \in Ids : Unmoved(x)
    BY <1>2 DEF Rests, OnlyMoves, Unmoved, In, Hand
  <2>2. \A x \in Ids : Same(x)
    BY <2>1, UnmovedSame DEF Settled
  <2> QED BY <2>2 DEF Same, Att, Lifecycle!vars
<1>3. ASSUME NEW p \in Payload, Hand(w) = {p}
      PROVE  \E id \in Ids : Lifecycle!Lose(id)
  <2>1. PICK id \in Ids : id = p.id
    BY DEF Payload
  <2>2. \A x \in Ids : x # id => Unmoved(x)
    BY <1>3, <2>1 DEF Rests, OnlyMoves, Unmoved, In, Hand
  <2>3. \A x \in Ids : x # id => Same(x)
    BY <2>2, UnmovedSame DEF Settled
  <2>4. At(id, "moving", {p.attempts})
    BY <1>3, <2>1 DEF Settled, Places
  <2>5. At(id, "lost", {})'
    <3>1. id \in Range(published') /\ id \notin acked'
      BY <1>3, <2>1 DEF Settled, Outstanding, Rests
    <3>2. Nowhere(id)'
      <4>1. \A k \in Keys, q \in Payload : In(q, k)' => In(q, k)
        BY DEF Rests, In
      <4>2. \A v \in Workers, q \in Payload : (q \in Hand(v))' => q \in Hand(v) /\ v # w
        BY DEF Rests, OnlyMoves, Hand
      <4> QED BY <1>3, <2>1, <4>1, <4>2 DEF Settled, Alone, Nowhere
    <3> QED BY <3>1, <3>2 DEF Settled, Places
  <2> QED BY <2>3, <2>4, <2>5, Moved DEF Lifecycle!Lose
<1> QED BY <1>1, <1>2, <1>3

LEMMA DeliversImplements ==
  ASSUME Settled, Settled', NEW w \in Workers, OnlyMoves(w), Delivers(w)
  PROVE  \E id \in Ids : Lifecycle!Deliver(id)
<1>1. PICK p : p = Last(db["ready"])
  OBVIOUS
<1>2. PICK c : c = LMove(db, "ready", "processing")
  OBVIOUS
<1>3. /\ db' = c /\ db["ready"] # <<>>
  BY <1>2 DEF Delivers, TakeReady
<1>4. /\ Range(c["ready"]) = Range(db["ready"]) \ {p}
      /\ Range(c["processing"]) = Range(db["processing"]) \cup {p}
      /\ c["dead"] = db["dead"]
      /\ p \in Range(db["ready"]) /\ p \in Payload
  BY <1>1, <1>2, <1>3, LMoveEntries DEF Settled
<1>5. PICK id \in Ids : id = p.id
  BY <1>4 DEF Payload
<1>6. Keys = {"ready", "processing", "dead"}
  BY DEF Keys
<1>7. \A v \in Workers : Hand(v)' = Hand(v)
  BY DEF Delivers, OnlyMoves, Hand
<1>8. \A q \in Payload, k \in Keys : q.id # id => (In(q, k)' <=> In(q, k))
  BY <1>3, <1>4, <1>5, <1>6 DEF In
<1>9. \A x \in Ids : x # id => Unmoved(x)
  BY <1>7, <1>8 DEF Delivers, Unmoved
<1>10. \A x \in Ids : x # id => Same(x)
  BY <1>9, UnmovedSame DEF Settled
<1>11. At(id, "ready", {p.attempts})
  <2>1. In(p, "ready")
    BY <1>4 DEF In
  <2> QED BY <1>4, <1>5, <1>6, <2>1 DEF Settled, Places
<1>12. At(id, "processing", {p.attempts})'
  <2>1. In(p, "processing")'
    BY <1>3, <1>4 DEF In
  <2> QED BY <1>4, <1>5, <1>6, <2>1 DEF Settled, Places
<1>13. /\ Lifecycle!Move(id, "ready", "processing", {p.attempts})
       /\ [x \in Ids |-> Att(x)][id] = {p.attempts}
  BY <1>10, <1>11, <1>12, Moved
<1> QED BY <1>13 DEF Att, Lifecycle!Move, Lifecycle!Deliver

LEMMA PutsImplements ==
  ASSUME Settled, Settled', NEW w \in Workers, OnlyMoves(w),
         NEW key \in {"ready", "dead"}, NEW p \in Payload, Puts(w, key, p)
  PROVE  \E id \in Ids : Lifecycle!PutDown(id)
<1>1. PICK id \in Ids : id = p.id
  BY DEF Payload
<1>2. key \in Keys
  BY DEF Keys
<1>3. /\ Range(db'[key]) = Range(db[key]) \cup {p}
      /\ \A m \in Keys : m # key => db'[m] = db[m]
  BY <1>2, LPushEntries DEF Puts, Settled
<1>4. \A q \in Payload, k \in Keys : q.id # id => (In(q, k)' <=> In(q, k))
  BY <1>1, <1>3 DEF In
<1>5. \A q \in Payload, v \in Workers : q.id # id => ((q \in Hand(v))' <=> q \in Hand(v))
  BY <1>1 DEF Puts, OnlyMoves, Hand
<1>6. \A x \in Ids : x # id => Unmoved(x)
  BY <1>4, <1>5 DEF Puts, Unmoved
<1>7. \A x \in Ids : x # id => Same(x)
  BY <1>6, UnmovedSame DEF Settled
<1>8. At(id, "moving", {p.attempts})
  BY <1>1 DEF Puts, Hand, Settled, Places
<1>9. At(id, key, {p.attempts})'
  <2>1. In(p, key)'
    BY <1>3 DEF In
  <2> QED BY <1>1, <1>2, <2>1 DEF Settled, Places
<1>10. /\ Lifecycle!Move(id, "moving", key, {p.attempts})
       /\ [x \in Ids |-> Att(x)][id] = {p.attempts}
  BY <1>7, <1>8, <1>9, Moved
<1> QED BY <1>10 DEF Att, Lifecycle!Move, Lifecycle!PutDown

LEMMA TakesImplements ==
  ASSUME Settled, Settled', NEW w \in Workers, OnlyMoves(w),
         NEW key \in {"processing", "dead"}, NEW p \in Payload, Takes(w, key, p)
  PROVE  \E id \in Ids : \/ Lifecycle!Acknowledge(id)
                         \/ Lifecycle!TakeBack(id)
                         \/ Lifecycle!Revive(id)
                         \/ Lifecycle!Lose(id)
<1>1. PICK id \in Ids : id = p.id
  BY DEF Payload
<1>2. key \in Keys
  BY DEF Keys
<1>3. LRemFinds(db, key, p) /\ db' = LRem(db, key, p)
  BY DEF Takes, Removes
<1>4. /\ Range(db'[key]) = Range(db[key]) \ {p} /\ p \in Range(db[key])
      /\ \A m \in Keys : m # key => db'[m] = db[m]
  BY <1>2, <1>3, LRemEntries DEF Settled
<1>5. In(p, key)
  BY <1>4 DEF In
<1>6. \A q \in Payload, k \in Keys : q.id # id => (In(q, k)' <=> In(q, k))
  BY <1>1, <1>4 DEF In
<1>7. \A q \in Payload, k \in Keys : In(q, k)' => q.id # id
  <2> SUFFICES ASSUME NEW q \in Payload, NEW k \in Keys, In(q, k)', q.id = id
               PROVE  FALSE
    OBVIOUS
  <2>1. In(q, k) /\ (k = key => q # p)
    BY <1>4 DEF In
  <2> QED BY <1>1, <1>2, <1>5, <2>1 DEF Settled, Alone
<1>8. WithAttempt(p).id = p.id /\ WithAttempt(p).attempts = p.attempts + 1
  BY DEF WithAttempt, Payload
<1>9. \A q \in Payload, v \in Workers : q.id # id => ((q \in Hand(v))' <=> q \in Hand(v))
  BY <1>1, <1>8 DEF Takes, OnlyMoves, Hand
<1>10. \A q \in Payload, v \in Workers : v # w => ((q \in Hand(v))' <=> q \in Hand(v))
  BY DEF OnlyMoves, Hand
<1>11. \A q \in Payload, v \in Workers : q \in Hand(v) => q.id # id
  BY <1>1, <1>2, <1>5 DEF Settled, Alone
<1>12. \A x \in Ids : x # id => Unmoved(x)
  BY <1>1, <1>6, <1>9 DEF Takes, Unmoved
<1>13. \A x \in Ids : x # id => Same(x)
  BY <1>12, UnmovedSame DEF Settled
<1>14. At(id, key, {p.attempts})
  BY <1>1, <1>2, <1>5 DEF Settled, Places
<1>15. id \in Range(published') /\ id \notin acked
  BY <1>1, <1>2, <1>4 DEF Takes, Settled, Outstanding
<1>16. CASE key = "processing" /\ acked' = acked \cup {p.id}
  <2>1. At(id, "acked", {})'
    BY <1>1, <1>16 DEF Settled, Places
  <2> QED BY <1>13, <1>14, <1>16, <2>1, Moved DEF Lifecycle!Acknowledge
<1>17. CASE acked' = acked /\ call'[w].moving = {}
  <2>1. Nowhere(id)'
    BY <1>7, <1>10, <1>11, <1>17 DEF Nowhere, Hand
  <2>2. At(id, "lost", {})'
    BY <1>15, <1>17, <2>1 DEF Settled, Places
  <2> QED BY <1>13, <1>14, <2>2, Moved DEF Lifecycle!Lose
<1>18. CASE acked' = acked /\ call'[w].moving = {p}
  <2>1. At(id, "moving", {p.attempts})'
    BY <1>1, <1>18 DEF Settled, Places, Hand
  <2>2. /\ Lifecycle!Move(id, key, "moving", {p.attempts})
        /\ [x \in Ids |-> Att(x)][id] = {p.attempts}
    BY <1>13, <1>14, <2>1, Moved
  <2> QED BY <2>2 DEF Att, Lifecycle!Move, Lifecycle!TakeBack, Lifecycle!Revive
<1>19. CASE /\ key = "processing" /\ ~Exhausted(p)
            /\ acked' = acked /\ call'[w].moving = {WithAttempt(p)}
  <2>1. PICK q : q = WithAttempt(p)
    OBVIOUS
  <2>2. /\ q \in Payload /\ q.id = id /\ q.attempts = p.attempts + 1
        /\ p.attempts \in 0..MaxRetries - 1
    BY <1>1, <1>8, <1>19, <2>1, ConstantsAssumption DEF Exhausted, WithAttempt, Payload
  <2>3. At(id, "moving", {q.attempts})'
    BY <1>19, <2>1, <2>2 DEF Settled, Places, Hand
  <2>4. PICK new : new = {q.attempts}
    OBVIOUS
  <2>5. /\ Lifecycle!Move(id, "processing", "moving", new)
        /\ [x \in Ids |-> Att(x)][id] = {p.attempts}
    BY <1>13, <1>14, <1>19, <2>3, <2>4, Moved
  <2>6. PICK n \in 0..MaxRetries - 1 : n = p.attempts
    BY <2>2
  <2>7. new = {n + 1} /\ [x \in Ids |-> Att(x)][id] = {n}
    BY <2>2, <2>4, <2>5, <2>6
  <2>8. /\ [x \in Ids |-> Att(x)][id] = {n}
        /\ Lifecycle!Move(id, "processing", "moving", {n + 1})
    BY <2>5, <2>7 DEF Lifecycle!Move
  <2>9. Lifecycle!TakeBack(id)
    BY <2>6, <2>8 DEF Att, Lifecycle!TakeBack
  <2> QED BY <2>9
<1> QED BY <1>16, <1>17, <1>18, <1>19 DEF Takes

LEMMA StepImplements ==
  ASSUME JInv, Settled, Settled', [Next]_vars
  PROVE  [Lifecycle!Next]_Lifecycle!vars
<1>1. CASE UNCHANGED vars
  BY <1>1 DEF vars, Lifecycle!vars, Place, Entries, Moving, MovingBy
<1>2. ASSUME NEW id \in Ids, Publishes(id)
      PROVE  Lifecycle!Next
  BY <1>2, PublishesImplements DEF Lifecycle!Next
<1>3. ASSUME NEW w \in Workers, Kind(w)
      PROVE  [Lifecycle!Next]_Lifecycle!vars
  <2>1. OnlyMoves(w)
    BY <1>3 DEF Kind
  <2>2. CASE Rests(w)
    BY <2>1, <2>2, RestsImplements DEF Lifecycle!Next
  <2>3. CASE Delivers(w)
    BY <2>1, <2>3, DeliversImplements DEF Lifecycle!Next
  <2>4. ASSUME NEW key \in {"processing", "dead"}, NEW p \in Payload, Takes(w, key, p)
        PROVE  Lifecycle!Next
    BY <2>1, <2>4, TakesImplements DEF Lifecycle!Next
  <2>5. ASSUME NEW key \in {"ready", "dead"}, NEW p \in Payload, Puts(w, key, p)
        PROVE  Lifecycle!Next
    BY <2>1, <2>5, PutsImplements DEF Lifecycle!Next
  <2> QED BY <1>3, <2>2, <2>3, <2>4, <2>5 DEF Kind
<1> QED BY <1>1, <1>2, <1>3, Kinds

\* The three lists, with any interleaving of the calls and any faults, make
\* every message go through the life cycle of MessageLifecycle: it is in one
\* place at a time, only the moves that consume, ack, nack, retry,
\* requeue_dead and recover_stale stand for happen to it, its counter grows by
\* one in a retry and never beyond the budget, and an acknowledged or lost
\* message never comes back.
THEOREM ListsImplementLifecycle == Spec => ImplementsLifecycle
<1>1. Init => Lifecycle!Init
  <2> SUFFICES ASSUME Init PROVE Lifecycle!Init
    OBVIOUS
  <2>1. Places
    BY InitPlaces, PlacesHold
  <2>2. Range(published) = {}
    BY DEF Init, Range
  <2>3. \A id \in Ids : At(id, "new", {})
    BY <2>1, <2>2 DEF Places
  <2> QED BY <2>3 DEF At, Att, Lifecycle!Init
<1>2. JInv => Settled
  BY KnownStep DEF JInv
<1>3. JInv /\ Settled /\ Settled' /\ [Next]_vars => [Lifecycle!Next]_Lifecycle!vars
  BY StepImplements
<1> QED BY <1>1, <1>2, <1>3, JInvInvariant, PTL DEF Spec, ImplementsLifecycle, Lifecycle!Spec
=============================================================================
