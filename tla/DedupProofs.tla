---------------------------- MODULE DedupProofs ----------------------------
(***************************************************************************)
(* Proofs about Dedup, for any number of calls and keys, of expiries and   *)
(* of faults.                                                              *)
(***************************************************************************)
EXTENDS Dedup, FiniteSetTheorems, TLAPS

-----------------------------------------------------------------------------
(* What the parts of an action do. *)

\* DELETE changes the value of one key only.
LEMMA Removing ==
  ASSUME NEW m, NEW k
  PROVE  /\ DOMAIN Remove(m, k) = DOMAIN m \ {k}
         /\ \A j \in DOMAIN m : j # k => Remove(m, k)[j] = m[j]
BY DEF Remove

\* A fault counts as one of its kind.
LEMMA Faulting ==
  ASSUME TypeOK, NEW kind, Fault(kind)
  PROVE  /\ kind \in Kinds
         /\ faults' \in [Kinds -> Nat]
         /\ faults'[kind] = faults[kind] + 1
         /\ \A other \in Kinds : other # kind => faults'[other] = faults[other]
         /\ AllFaults' = AllFaults + 1
         /\ AllFaults' <= MaxFaults
<1>1. kind \in Kinds
  BY ConstantsAssumption DEF Fault
<1>2. /\ faults' = [faults EXCEPT ![kind] = @ + 1]
      /\ faults \in [Kinds -> Nat]
      /\ AllFaults < MaxFaults
      /\ MaxFaults \in Nat
  BY ConstantsAssumption DEF Fault, TypeOK
<1>3. /\ faults' \in [Kinds -> Nat]
      /\ faults'[kind] = faults[kind] + 1
      /\ \A other \in Kinds : other # kind => faults'[other] = faults[other]
  BY <1>1, <1>2
<1>4. AllFaults' = AllFaults + 1
  BY <1>1, <1>2, <1>3 DEF AllFaults, Kinds
<1>5. AllFaults \in Nat
  BY <1>2 DEF AllFaults, Kinds
<1> QED BY <1>1, <1>2, <1>3, <1>4, <1>5

LEMMA NoFault ==
  ASSUME TypeOK, UNCHANGED faults
  PROVE  faults' \in [Kinds -> Nat] /\ AllFaults' = AllFaults /\ AllFaults' <= MaxFaults
BY DEF TypeOK, AllFaults

LEMMA Going ==
  ASSUME TypeOK, NEW c \in Calls, NEW state \in States, Goto(c, state)
  PROVE  /\ pc' \in [Calls -> States]
         /\ pc'[c] = state
         /\ \A d \in Calls : d # c => pc'[d] = pc[d]
BY DEF TypeOK, Goto

\* What a step of call c may do to the keys.
ReservedStep(c) ==
  \/ UNCHANGED reserved
  \/ ~Has(reserved, KeyOf[c]) /\ reserved' = Put(reserved, KeyOf[c], c)
  \/ Unreserve(c)

\* What it may do to the answers.
AnswerStep(c) ==
  \/ UNCHANGED answer
  \/ answer' = Put(answer, c, c)
  \/ Has(reserved, KeyOf[c]) /\ answer' = Put(answer, c, reserved[KeyOf[c]])

LEMMA ReservedTyped ==
  ASSUME TypeOK, NEW c \in Calls, ReservedStep(c)
  PROVE  /\ DOMAIN reserved' \subseteq DedupKeys
         /\ \A k \in DOMAIN reserved' :
              reserved'[k] \in Calls /\ KeyOf[reserved'[k]] = k
<1>1. KeyOf[c] \in DedupKeys
  BY ConstantsAssumption
<1>2. CASE UNCHANGED reserved
  BY <1>2 DEF TypeOK
<1>3. CASE reserved' = Put(reserved, KeyOf[c], c)
  <2>1. /\ DOMAIN reserved' = DOMAIN reserved \cup {KeyOf[c]}
        /\ reserved'[KeyOf[c]] = c
        /\ \A j \in DOMAIN reserved : j # KeyOf[c] => reserved'[j] = reserved[j]
    BY <1>3 DEF Put
  <2> QED BY <1>1, <2>1 DEF TypeOK
<1>4. CASE Unreserve(c)
  <2>1. /\ DOMAIN reserved' = DOMAIN reserved \ {KeyOf[c]}
        /\ \A j \in DOMAIN reserved : j # KeyOf[c] => reserved'[j] = reserved[j]
    BY <1>4, Removing DEF Unreserve
  <2> QED BY <2>1 DEF TypeOK
<1> QED BY <1>2, <1>3, <1>4 DEF ReservedStep

LEMMA AnswerTyped ==
  ASSUME TypeOK, NEW c \in Calls, AnswerStep(c)
  PROVE  DOMAIN answer' \subseteq Calls /\ \A d \in DOMAIN answer' : answer'[d] \in Calls
<1>1. ASSUME NEW id \in Calls, answer' = Put(answer, c, id)
      PROVE  DOMAIN answer' \subseteq Calls /\ \A d \in DOMAIN answer' : answer'[d] \in Calls
  <2>1. /\ DOMAIN answer' = DOMAIN answer \cup {c}
        /\ answer'[c] = id
        /\ \A d \in DOMAIN answer : d # c => answer'[d] = answer[d]
    BY <1>1 DEF Put
  <2> QED BY <2>1 DEF TypeOK
<1>2. Has(reserved, KeyOf[c]) => reserved[KeyOf[c]] \in Calls
  BY DEF TypeOK, Has
<1>3. CASE UNCHANGED answer
  BY <1>3 DEF TypeOK
<1> QED BY <1>1, <1>2, <1>3 DEF AnswerStep

-----------------------------------------------------------------------------
(* The steps, by what they do to each variable. *)

\* The program counter moves along an edge of the call, and the rest follows.
Edge(c, from, to) == pc[c] = from /\ Goto(c, to)

LEMMA StepEdges ==
  ASSUME TypeOK, NEW c \in Calls, Step(c)
  PROVE  /\ UNCHANGED <<faults, expiries>>
         /\ \/ /\ Edge(c, "reserve", "publish")
               /\ ~Has(reserved, KeyOf[c]) /\ reserved' = Put(reserved, KeyOf[c], c)
               /\ UNCHANGED <<answer, enqueued>>
            \/ /\ Edge(c, "reserve", "get")
               /\ Has(reserved, KeyOf[c])
               /\ UNCHANGED <<reserved, answer, enqueued>>
            \/ /\ Edge(c, "get", "returned")
               /\ Has(reserved, KeyOf[c]) /\ answer' = Put(answer, c, reserved[KeyOf[c]])
               /\ UNCHANGED <<reserved, enqueued>>
            \/ /\ Edge(c, "get", "publish")
               /\ ~Has(reserved, KeyOf[c])
               /\ UNCHANGED <<reserved, answer, enqueued>>
            \/ /\ Edge(c, "publish", "returned")
               /\ enqueued' = enqueued \cup {c} /\ answer' = Put(answer, c, c)
               /\ UNCHANGED reserved
            \/ /\ Edge(c, "rollback", "failed")
               /\ Unreserve(c)
               /\ UNCHANGED <<answer, enqueued>>
BY DEF Step, Reserve, Get, Publish, Rollback, Return, Enqueue, Edge

LEMMA RaisingEdges ==
  ASSUME TypeOK, NEW c \in Calls, StepRaises(c)
  PROVE  /\ UNCHANGED <<answer, expiries>>
         /\ \/ /\ Edge(c, "reserve", "failed") /\ UNCHANGED enqueued
               /\ \/ Fault("refused") /\ UNCHANGED reserved
                  \/ Fault("reply_lost") /\ SetNX(c)
            \/ Edge(c, "get", "failed") /\ Fault("refused") /\ UNCHANGED <<reserved, enqueued>>
            \/ /\ Edge(c, "publish", "rollback") /\ UNCHANGED reserved
               /\ \/ Fault("refused") /\ UNCHANGED enqueued
                  \/ Fault("reply_lost") /\ enqueued' = enqueued \cup {c}
            \/ /\ Edge(c, "rollback", "failed") /\ UNCHANGED enqueued
               /\ \/ Fault("refused") /\ UNCHANGED reserved
                  \/ Fault("reply_lost") /\ Unreserve(c)
            \/ /\ pc[c] \in {"get", "publish", "rollback"} /\ Goto(c, "failed")
               /\ Fault("crash") /\ UNCHANGED <<reserved, enqueued>>
BY DEF StepRaises, ReserveRaises, GetRaises, PublishRaises, RollbackRaises, Crash,
       Raises, Enqueue, Edge, Running

-----------------------------------------------------------------------------
(* Types. *)

LEMMA StepTyped ==
  ASSUME TypeOK, NEW c \in Calls, Step(c) \/ StepRaises(c)
  PROVE  TypeOK'
<1>1. /\ ReservedStep(c)
      /\ AnswerStep(c)
      /\ enqueued' \subseteq enqueued \cup {c}
      /\ UNCHANGED expiries
      /\ UNCHANGED faults \/ \E kind : Fault(kind)
      /\ \E state \in States : Goto(c, state)
  <2>1. CASE Step(c)
    BY <2>1, StepEdges DEF ReservedStep, AnswerStep, Edge, States
  <2>2. CASE StepRaises(c)
    BY <2>2, RaisingEdges DEF ReservedStep, AnswerStep, Edge, States, SetNX
  <2> QED BY <2>1, <2>2
<1>2. pc' \in [Calls -> States]
  BY <1>1, Going
<1>3. faults' \in [Kinds -> Nat] /\ AllFaults' <= MaxFaults
  BY <1>1, Faulting, NoFault
<1>4. enqueued' \subseteq Calls /\ expiries' \in 0..MaxExpiries
  BY <1>1 DEF TypeOK
<1>5. /\ DOMAIN reserved' \subseteq DedupKeys
      /\ \A k \in DOMAIN reserved' :
           reserved'[k] \in Calls /\ KeyOf[reserved'[k]] = k
  BY <1>1, ReservedTyped
<1>6. DOMAIN answer' \subseteq Calls /\ \A d \in DOMAIN answer' : answer'[d] \in Calls
  BY <1>1, AnswerTyped
<1> QED BY <1>2, <1>3, <1>4, <1>5, <1>6 DEF TypeOK

LEMMA ExpireTyped ==
  ASSUME TypeOK, NEW k \in DedupKeys, Expire(k)
  PROVE  TypeOK'
<1>1. /\ DOMAIN reserved' = DOMAIN reserved \ {k}
      /\ \A j \in DOMAIN reserved : j # k => reserved'[j] = reserved[j]
  BY Removing DEF Expire
<1>2. expiries' \in 0..MaxExpiries
  BY ConstantsAssumption DEF TypeOK, Expire
<1>3. /\ UNCHANGED <<pc, answer, enqueued, faults>>
      /\ faults' \in [Kinds -> Nat] /\ AllFaults' <= MaxFaults
  BY NoFault DEF Expire
<1> QED BY <1>1, <1>2, <1>3 DEF TypeOK

LEMMA InitTyped == Init => TypeOK
BY ConstantsAssumption DEF Init, TypeOK, Nothing, States, AllFaults, Kinds

LEMMA NextTyped == TypeOK /\ [Next]_vars => TypeOK'
<1>1. ASSUME TypeOK, UNCHANGED vars PROVE TypeOK'
  <2>1. /\ UNCHANGED <<reserved, pc, answer, enqueued, expiries, faults>>
        /\ faults' \in [Kinds -> Nat] /\ AllFaults' <= MaxFaults
    BY <1>1, NoFault DEF vars
  <2> QED BY <1>1, <2>1 DEF TypeOK
<1> QED BY <1>1, StepTyped, ExpireTyped DEF Next

\* Every variable of the dedup calls (reserve_or_get and the publish it
\* guards) keeps its type, and a reservation holds the id of a call that gave
\* this key.
THEOREM TypeCorrect == Spec => []TypeOK
BY InitTyped, NextTyped, PTL DEF Spec

-----------------------------------------------------------------------------
(* Without faults. *)

NoFaults == AllFaults = 0

\* Faults only add up, and a call raises only at one.
LEMMA NoFaultBefore ==
  ASSUME TypeOK, [Next]_vars, NoFaults'
  PROVE  /\ NoFaults
         /\ \A c \in Calls : ~StepRaises(c)
<1>1. AllFaults \in Nat
  BY DEF TypeOK, AllFaults, Kinds
<1>2. ASSUME NEW c \in Calls, StepRaises(c) PROVE FALSE
  <2>1. \E kind : Fault(kind)
    BY <1>2, RaisingEdges
  <2>2. AllFaults' = AllFaults + 1
    BY <2>1, Faulting
  <2> QED BY <1>1, <2>2 DEF NoFaults
<1>3. UNCHANGED faults
  <2>1. CASE UNCHANGED vars
    BY <2>1 DEF vars
  <2>2. CASE \E c \in Calls : Step(c)
    BY <2>2, StepEdges
  <2>3. CASE \E k \in DedupKeys : Expire(k)
    BY <2>3 DEF Expire
  <2> QED BY <1>2, <2>1, <2>2, <2>3 DEF Next
<1> QED BY <1>2, <1>3 DEF NoFaults, AllFaults

\* The message of a call is published or is being published.
Coming(id) == id \in enqueued \/ pc[id] = "publish"

\* What a key stores and what a call returned is on its way; no call undoes.
AllComing ==
  /\ \A c \in Calls : pc[c] \notin {"rollback", "failed"}
  /\ \A k \in DOMAIN reserved : Coming(reserved[k])
  /\ \A c \in DOMAIN answer : Coming(answer[c])

LEMMA ComingKept ==
  ASSUME TypeOK, NoFaults => AllComing, [Next]_vars
  PROVE  NoFaults' => AllComing'
<1> SUFFICES ASSUME NoFaults' PROVE AllComing'
  OBVIOUS
<1>1. AllComing /\ \A c \in Calls : ~StepRaises(c)
  BY NoFaultBefore
<1>2. CASE UNCHANGED vars
  <2>1. UNCHANGED <<reserved, pc, answer, enqueued>>
    BY <1>2 DEF vars
  <2> QED BY <1>1, <2>1 DEF AllComing, Coming
<1>3. ASSUME NEW k \in DedupKeys, Expire(k) PROVE AllComing'
  <2>1. /\ UNCHANGED <<pc, answer, enqueued>>
        /\ DOMAIN reserved' \subseteq DOMAIN reserved
        /\ \A j \in DOMAIN reserved' : reserved'[j] = reserved[j]
    BY <1>3 DEF Expire, Remove
  <2> QED BY <1>1, <2>1 DEF AllComing, Coming
<1>4. ASSUME NEW c \in Calls, Step(c) PROVE AllComing'
  <2>1. /\ pc \in [Calls -> States]
        /\ \A k \in DOMAIN reserved : reserved[k] \in Calls
        /\ \A d \in DOMAIN answer : answer[d] \in Calls
        /\ \A d \in Calls : pc[d] \notin {"rollback", "failed"}
        /\ \A k \in DOMAIN reserved : Coming(reserved[k])
        /\ \A d \in DOMAIN answer : Coming(answer[d])
    BY <1>1 DEF TypeOK, AllComing
  <2>2. ASSUME NEW to \in {"publish", "get", "returned"}, Goto(c, to),
               enqueued \subseteq enqueued', pc[c] = "publish" => c \in enqueued'
        PROVE  /\ pc' \in [Calls -> States]
               /\ \A d \in Calls : pc'[d] \notin {"rollback", "failed"}
               /\ \A id \in Calls : Coming(id) => Coming(id)'
               /\ pc'[c] = to
    BY <2>1, <2>2 DEF Goto, States, Coming
  <2>3. CASE /\ Edge(c, "reserve", "publish")
             /\ ~Has(reserved, KeyOf[c]) /\ reserved' = Put(reserved, KeyOf[c], c)
             /\ UNCHANGED <<answer, enqueued>>
    <3>1. Coming(c)'
      BY <2>2, <2>3 DEF Edge, Coming
    <3> QED BY <2>1, <2>2, <2>3, <3>1 DEF Edge, AllComing, Put
  <2>4. CASE /\ Edge(c, "reserve", "get")
             /\ Has(reserved, KeyOf[c])
             /\ UNCHANGED <<reserved, answer, enqueued>>
    BY <2>1, <2>2, <2>4 DEF Edge, AllComing
  <2>5. CASE /\ Edge(c, "get", "returned")
             /\ Has(reserved, KeyOf[c]) /\ answer' = Put(answer, c, reserved[KeyOf[c]])
             /\ UNCHANGED <<reserved, enqueued>>
    <3>1. reserved[KeyOf[c]] \in Calls /\ Coming(reserved[KeyOf[c]])'
      BY <2>1, <2>2, <2>5 DEF Edge, Has
    <3> QED BY <2>1, <2>2, <2>5, <3>1 DEF Edge, AllComing, Put
  <2>6. CASE /\ Edge(c, "get", "publish")
             /\ ~Has(reserved, KeyOf[c])
             /\ UNCHANGED <<reserved, answer, enqueued>>
    BY <2>1, <2>2, <2>6 DEF Edge, AllComing
  <2>7. CASE /\ Edge(c, "publish", "returned")
             /\ enqueued' = enqueued \cup {c} /\ answer' = Put(answer, c, c)
             /\ UNCHANGED reserved
    <3>1. Coming(c)'
      BY <2>7 DEF Coming
    <3> QED BY <2>1, <2>2, <2>7, <3>1 DEF Edge, AllComing, Put
  <2>8. pc[c] # "rollback"
    BY <2>1
  <2> QED BY <1>4, <2>3, <2>4, <2>5, <2>6, <2>7, <2>8, StepEdges DEF Edge
<1> QED BY <1>1, <1>2, <1>3, <1>4 DEF Next

\* While no command fails, the id that a publish with a dedup key returns
\* belongs to a message that is enqueued or about to be, whatever keys expire
\* between SET NX, GET and the publish.
THEOREM AnswersAreOfMessages == Spec => []AnswerIsPublished
<1>1. Init => (NoFaults => AllComing)
  BY DEF Init, AllComing, Nothing
<1>2. TypeOK /\ (NoFaults => AllComing) /\ [Next]_vars => (NoFaults => AllComing)'
  BY ComingKept
<1>3. (NoFaults => AllComing) => AnswerIsPublished
  BY DEF NoFaults, AllComing, Coming, AnswerIsPublished
<1> QED BY <1>1, <1>2, <1>3, TypeCorrect, PTL DEF Spec

-----------------------------------------------------------------------------
(* Without faults and in one TTL window. *)

Quiet == expiries = 0 /\ NoFaults

\* The key holds the id of the call that publishes for it, and the others find
\* it there.
OneOwner ==
  /\ \A c \in Calls :
       /\ pc[c] \notin {"rollback", "failed"}
       /\ Coming(c) => Has(reserved, KeyOf[c]) /\ reserved[KeyOf[c]] = c
       /\ pc[c] = "get" => Has(reserved, KeyOf[c])
  /\ \A c \in DOMAIN answer : Has(reserved, KeyOf[c]) /\ answer[c] = reserved[KeyOf[c]]

LEMMA OwnerKept ==
  ASSUME TypeOK, Quiet => OneOwner, [Next]_vars
  PROVE  Quiet' => OneOwner'
<1> SUFFICES ASSUME Quiet' PROVE OneOwner'
  OBVIOUS
<1>1. NoFaults /\ \A c \in Calls : ~StepRaises(c)
  BY NoFaultBefore DEF Quiet
<1>2. CASE UNCHANGED vars
  <2>1. UNCHANGED <<reserved, pc, answer, enqueued, expiries>>
    BY <1>2 DEF vars
  <2> QED BY <1>1, <2>1 DEF Quiet, OneOwner, Coming, Has
<1>3. ASSUME NEW k \in DedupKeys, Expire(k) PROVE FALSE
  BY <1>3 DEF Expire, Quiet, TypeOK
<1>4. ASSUME NEW c \in Calls, Step(c) PROVE OneOwner'
  <2>1. OneOwner
    BY <1>1, <1>4, StepEdges DEF Quiet
  <2>2. /\ pc \in [Calls -> States]
        /\ DOMAIN answer \subseteq Calls
        /\ \A d \in Calls :
             /\ pc[d] \notin {"rollback", "failed"}
             /\ Coming(d) => KeyOf[d] \in DOMAIN reserved /\ reserved[KeyOf[d]] = d
             /\ pc[d] = "get" => KeyOf[d] \in DOMAIN reserved
        /\ \A d \in DOMAIN answer :
             KeyOf[d] \in DOMAIN reserved /\ answer[d] = reserved[KeyOf[d]]
    BY <2>1 DEF TypeOK, OneOwner, Has
  <2>3. CASE /\ Edge(c, "reserve", "publish")
             /\ ~Has(reserved, KeyOf[c]) /\ reserved' = Put(reserved, KeyOf[c], c)
             /\ UNCHANGED <<answer, enqueued>>
    <3>1. /\ DOMAIN reserved' = DOMAIN reserved \cup {KeyOf[c]}
          /\ reserved'[KeyOf[c]] = c
          /\ \A j \in DOMAIN reserved : reserved'[j] = reserved[j]
      BY <2>3 DEF Put, Has
    <3>2. /\ \A d \in Calls : d # c => (pc'[d] = pc[d] /\ (Coming(d)' <=> Coming(d)))
          /\ pc'[c] = "publish"
      BY <2>2, <2>3 DEF Edge, Goto, Coming
    <3> QED BY <2>2, <2>3, <3>1, <3>2 DEF OneOwner, Has
  <2>4. CASE /\ Edge(c, "reserve", "get")
             /\ Has(reserved, KeyOf[c])
             /\ UNCHANGED <<reserved, answer, enqueued>>
    <3>1. /\ \A d \in Calls : d # c => pc'[d] = pc[d]
          /\ pc'[c] = "get"
          /\ \A d \in Calls : Coming(d)' => Coming(d)
      BY <2>2, <2>4 DEF Edge, Goto, Coming
    <3> QED BY <2>2, <2>4, <3>1 DEF OneOwner, Has
  <2>5. CASE /\ Edge(c, "get", "returned")
             /\ Has(reserved, KeyOf[c]) /\ answer' = Put(answer, c, reserved[KeyOf[c]])
             /\ UNCHANGED <<reserved, enqueued>>
    <3>1. /\ \A d \in Calls : d # c => pc'[d] = pc[d]
          /\ pc'[c] = "returned"
          /\ \A d \in Calls : Coming(d)' => Coming(d)
      BY <2>2, <2>5 DEF Edge, Goto, Coming
    <3>2. /\ DOMAIN answer' = DOMAIN answer \cup {c}
          /\ answer'[c] = reserved[KeyOf[c]]
          /\ \A d \in DOMAIN answer : d # c => answer'[d] = answer[d]
      BY <2>5 DEF Put
    <3> QED BY <2>2, <2>5, <3>1, <3>2 DEF OneOwner, Has
  <2>6. ~(pc[c] = "get" /\ ~Has(reserved, KeyOf[c]))
    BY <2>2 DEF Has
  <2>7. CASE /\ Edge(c, "publish", "returned")
             /\ enqueued' = enqueued \cup {c} /\ answer' = Put(answer, c, c)
             /\ UNCHANGED reserved
    <3>1. /\ \A d \in Calls : d # c => pc'[d] = pc[d]
          /\ pc'[c] = "returned"
          /\ \A d \in Calls : Coming(d)' => Coming(d)
          /\ Coming(c)
      BY <2>2, <2>7 DEF Edge, Goto, Coming
    <3>2. /\ DOMAIN answer' = DOMAIN answer \cup {c}
          /\ answer'[c] = c
          /\ \A d \in DOMAIN answer : d # c => answer'[d] = answer[d]
      BY <2>7 DEF Put
    <3> QED BY <2>2, <2>7, <3>1, <3>2 DEF OneOwner, Has
  <2>8. pc[c] # "rollback"
    BY <2>2
  <2> QED BY <1>4, <2>3, <2>4, <2>5, <2>6, <2>7, <2>8, StepEdges DEF Edge
<1> QED BY <1>1, <1>2, <1>3, <1>4 DEF Next

\* A set whose members are all one value has at most one.
LEMMA AtMostOne ==
  ASSUME NEW x, NEW S, S \subseteq {x}
  PROVE  Cardinality(S) <= 1
<1>1. S = {} \/ S = {x}
  OBVIOUS
<1>2. Cardinality({}) = 0 /\ Cardinality({x}) = 1
  BY FS_EmptySet, FS_Singleton
<1>3. Cardinality(S) = 0 \/ Cardinality(S) = 1
  BY <1>1, <1>2
<1> QED BY <1>3

LEMMA OwnersAgree == TypeOK /\ (Quiet => OneOwner) => OnceAndAgreed
<1> SUFFICES ASSUME TypeOK, OneOwner, NEW k \in DedupKeys
             PROVE  Cardinality(EnqueuedFor(k)) <= 1 /\ Cardinality(AnswersFor(k)) <= 1
  BY DEF Quiet, NoFaults, OnceAndAgreed
<1>1. EnqueuedFor(k) \subseteq {reserved[k]}
  BY DEF TypeOK, OneOwner, EnqueuedFor, Coming
<1>2. AnswersFor(k) \subseteq {reserved[k]}
  BY DEF OneOwner, AnswersFor
<1>3. PICK x : x = reserved[k]
  OBVIOUS
<1> QED BY <1>1, <1>2, <1>3, AtMostOne

\* As long as no command fails and no TTL ends, calls with one dedup key
\* enqueue one message and all return its id, however SET NX, GET and the
\* publish of any number of calls interleave.
THEOREM OneMessagePerKey == Spec => []OnceAndAgreed
<1>1. Init => (Quiet => OneOwner)
  BY DEF Init, OneOwner, Coming, Nothing
<1>2. TypeOK /\ (Quiet => OneOwner) /\ [Next]_vars => (Quiet => OneOwner)'
  BY OwnerKept
<1> QED BY <1>1, <1>2, OwnersAgree, TypeCorrect, PTL DEF Spec

-----------------------------------------------------------------------------
(* Keys left behind by failed calls. *)

Unpublished(id, state) == id \notin enqueued /\ pc[id] = state

\* Keys whose publish was refused and whose rollback comes next: one more
\* refusal leaves them stuck.
Half == {k \in DOMAIN reserved : Unpublished(reserved[k], "rollback")}

\* A call that waits for its SET NX or its GET holds no key.
HoldersPublish == \A k \in DOMAIN reserved : pc[reserved[k]] \notin {"reserve", "get"}

\* What the faults so far can have left behind: a stuck key counts two.
Paid == faults["refused"] + 2 * (faults["reply_lost"] + faults["crash"])

Accounted ==
  /\ IsFiniteSet(Stuck) /\ IsFiniteSet(Half)
  /\ 2 * Cardinality(Stuck) + Cardinality(Half) <= Paid

\* One more fault pays for what it may leave behind.
LEMMA PaidMore ==
  ASSUME TypeOK, NEW kind, Fault(kind)
  PROVE  /\ Paid \in Nat
         /\ Paid' = Paid + (IF kind = "refused" THEN 1 ELSE 2)
<1>1. /\ faults \in [Kinds -> Nat]
      /\ kind \in Kinds
      /\ faults'[kind] = faults[kind] + 1
      /\ \A other \in Kinds : other # kind => faults'[other] = faults[other]
  BY Faulting DEF TypeOK
<1>2. CASE kind = "refused"
  BY <1>1, <1>2 DEF Paid, Kinds
<1>3. CASE kind = "reply_lost"
  BY <1>1, <1>3 DEF Paid, Kinds
<1>4. CASE kind = "crash"
  BY <1>1, <1>4 DEF Paid, Kinds
<1> QED BY <1>1, <1>2, <1>3, <1>4 DEF Kinds

\* Nothing new is left behind.
LEMMA NoneLeft ==
  ASSUME Accounted, Paid \in Nat, Paid' \in Nat, Paid <= Paid',
         Stuck' \subseteq Stuck, Half' \subseteq Half
  PROVE  Accounted'
<1>1. /\ IsFiniteSet(Stuck') /\ Cardinality(Stuck') <= Cardinality(Stuck)
      /\ IsFiniteSet(Half') /\ Cardinality(Half') <= Cardinality(Half)
  BY FS_Subset DEF Accounted
<1>2. /\ Cardinality(Stuck) \in Nat /\ Cardinality(Stuck') \in Nat
      /\ Cardinality(Half) \in Nat /\ Cardinality(Half') \in Nat
  BY <1>1, FS_CardinalityType DEF Accounted
<1> QED BY <1>1, <1>2 DEF Accounted

\* One key gets stuck, at the price of two.
LEMMA OneStuck ==
  ASSUME Accounted, Paid \in Nat, Paid' = Paid + 2,
         NEW k, Stuck' \subseteq Stuck \cup {k}, Half' \subseteq Half
  PROVE  Accounted'
<1>1. /\ IsFiniteSet(Stuck \cup {k})
      /\ Cardinality(Stuck \cup {k}) \in {Cardinality(Stuck), Cardinality(Stuck) + 1}
  BY FS_AddElement DEF Accounted
<1>2. /\ IsFiniteSet(Stuck') /\ Cardinality(Stuck') <= Cardinality(Stuck \cup {k})
      /\ IsFiniteSet(Half') /\ Cardinality(Half') <= Cardinality(Half)
  BY <1>1, FS_Subset DEF Accounted
<1>3. /\ Cardinality(Stuck) \in Nat /\ Cardinality(Stuck') \in Nat
      /\ Cardinality(Half) \in Nat /\ Cardinality(Half') \in Nat
  BY <1>2, FS_CardinalityType DEF Accounted
<1> QED BY <1>1, <1>2, <1>3 DEF Accounted

\* The publish for a key is refused, at the price of one.
LEMMA OneHalf ==
  ASSUME Accounted, Paid \in Nat, Paid' = Paid + 1,
         NEW k, Stuck' \subseteq Stuck, Half' \subseteq Half \cup {k}
  PROVE  Accounted'
<1>1. /\ IsFiniteSet(Half \cup {k})
      /\ Cardinality(Half \cup {k}) \in {Cardinality(Half), Cardinality(Half) + 1}
  BY FS_AddElement DEF Accounted
<1>2. /\ IsFiniteSet(Half') /\ Cardinality(Half') <= Cardinality(Half \cup {k})
      /\ IsFiniteSet(Stuck') /\ Cardinality(Stuck') <= Cardinality(Stuck)
  BY <1>1, FS_Subset DEF Accounted
<1>3. /\ Cardinality(Stuck) \in Nat /\ Cardinality(Stuck') \in Nat
      /\ Cardinality(Half) \in Nat /\ Cardinality(Half') \in Nat
  BY <1>2, FS_CardinalityType DEF Accounted
<1> QED BY <1>1, <1>2, <1>3 DEF Accounted

\* The rollback is refused too, at the price of one more.
LEMMA HalfGetsStuck ==
  ASSUME Accounted, Paid \in Nat, Paid' = Paid + 1,
         NEW k \in Half, Stuck' \subseteq Stuck \cup {k}, Half' \subseteq Half \ {k}
  PROVE  Accounted'
<1>1. /\ IsFiniteSet(Stuck \cup {k})
      /\ Cardinality(Stuck \cup {k}) \in {Cardinality(Stuck), Cardinality(Stuck) + 1}
  BY FS_AddElement DEF Accounted
<1>2. /\ IsFiniteSet(Half \ {k})
      /\ Cardinality(Half \ {k}) = Cardinality(Half) - 1
  BY FS_RemoveElement DEF Accounted
<1>3. /\ IsFiniteSet(Stuck') /\ Cardinality(Stuck') <= Cardinality(Stuck \cup {k})
      /\ IsFiniteSet(Half') /\ Cardinality(Half') <= Cardinality(Half \ {k})
  BY <1>1, <1>2, FS_Subset DEF Accounted
<1>4. /\ Cardinality(Stuck) \in Nat /\ Cardinality(Stuck') \in Nat
      /\ Cardinality(Half) \in Nat /\ Cardinality(Half') \in Nat
  BY <1>3, FS_CardinalityType DEF Accounted
<1> QED BY <1>1, <1>2, <1>3, <1>4 DEF Accounted

LEMMA PaidSame ==
  ASSUME TypeOK, UNCHANGED faults
  PROVE  Paid \in Nat /\ Paid' \in Nat /\ Paid <= Paid'
BY DEF TypeOK, Paid, Kinds

\* A reservation is of this key, and only the steps of its call change whether
\* the message behind it is unpublished.
LEMMA OthersStay ==
  ASSUME TypeOK, NEW c \in Calls, NEW state \in States, Goto(c, state),
         enqueued \subseteq enqueued', enqueued' \subseteq enqueued \cup {c}
  PROVE  /\ pc'[c] = state
         /\ \A k \in DOMAIN reserved :
              /\ reserved[k] \in Calls
              /\ reserved[k] = c => k = KeyOf[c]
              /\ reserved[k] # c =>
                   /\ pc'[reserved[k]] = pc[reserved[k]]
                   /\ reserved[k] \in enqueued' <=> reserved[k] \in enqueued
BY Going DEF TypeOK

LEMMA StepAccounted ==
  ASSUME TypeOK, HoldersPublish, Accounted, NEW c \in Calls, Step(c)
  PROVE  HoldersPublish' /\ Accounted'
<1>1. /\ Paid \in Nat /\ Paid' \in Nat /\ Paid <= Paid'
      /\ enqueued \subseteq enqueued' /\ enqueued' \subseteq enqueued \cup {c}
      /\ \E state \in States : Goto(c, state)
  BY StepEdges, PaidSame DEF Edge, States
<1>2. /\ \A d \in Calls : d # c => pc'[d] = pc[d]
      /\ \A k \in DOMAIN reserved :
           /\ reserved[k] \in Calls
           /\ reserved[k] = c => k = KeyOf[c]
           /\ reserved[k] # c =>
                /\ pc'[reserved[k]] = pc[reserved[k]]
                /\ reserved[k] \in enqueued' <=> reserved[k] \in enqueued
  BY <1>1, OthersStay, Going
<1>3. HoldersPublish' /\ Stuck' \subseteq Stuck /\ Half' \subseteq Half
  <2>1. ASSUME NEW to \in States, Goto(c, to)
        PROVE  pc'[c] = to
    BY <2>1, Going
  <2>2. CASE /\ Edge(c, "reserve", "publish")
             /\ ~Has(reserved, KeyOf[c]) /\ reserved' = Put(reserved, KeyOf[c], c)
             /\ UNCHANGED <<answer, enqueued>>
    <3>1. /\ DOMAIN reserved' = DOMAIN reserved \cup {KeyOf[c]}
          /\ reserved'[KeyOf[c]] = c
          /\ \A j \in DOMAIN reserved : reserved'[j] = reserved[j]
          /\ KeyOf[c] \notin DOMAIN reserved
      BY <2>2 DEF Put, Has
    <3>2. pc'[c] = "publish"
      BY <2>1, <2>2 DEF Edge, States
    <3> QED BY <1>2, <2>2, <3>1, <3>2 DEF HoldersPublish, Stuck, Half, Unpublished
  <2>3. CASE /\ pc[c] \in {"reserve", "get"}
             /\ UNCHANGED <<reserved, enqueued>>
    BY <1>2, <2>3 DEF HoldersPublish, Stuck, Half, Unpublished
  <2>4. CASE /\ Edge(c, "publish", "returned")
             /\ enqueued' = enqueued \cup {c} /\ answer' = Put(answer, c, c)
             /\ UNCHANGED reserved
    <3>1. pc'[c] = "returned" /\ c \in enqueued'
      BY <2>1, <2>4 DEF Edge, States
    <3> QED BY <1>2, <2>4, <3>1 DEF HoldersPublish, Stuck, Half, Unpublished
  <2>5. CASE Edge(c, "rollback", "failed") /\ Unreserve(c)
    <3>1. /\ DOMAIN reserved' = DOMAIN reserved \ {KeyOf[c]}
          /\ \A j \in DOMAIN reserved : j # KeyOf[c] => reserved'[j] = reserved[j]
      BY <2>5, Removing DEF Unreserve
    <3> QED BY <1>2, <3>1 DEF HoldersPublish, Stuck, Half, Unpublished
  <2> QED BY <2>2, <2>3, <2>4, <2>5, StepEdges DEF Edge
<1> QED BY <1>1, <1>3, NoneLeft

LEMMA RaisesAccounted ==
  ASSUME TypeOK, HoldersPublish, Accounted, NEW c \in Calls, StepRaises(c)
  PROVE  HoldersPublish' /\ Accounted'
<1> DEFINE key == KeyOf[c]
<1>1. /\ enqueued \subseteq enqueued' /\ enqueued' \subseteq enqueued \cup {c}
      /\ \E state \in {"rollback", "failed"} : Goto(c, state)
  BY RaisingEdges DEF Edge
<1>2. /\ \A k \in DOMAIN reserved :
           /\ reserved[k] \in Calls
           /\ reserved[k] = c => k = key
           /\ reserved[k] # c =>
                /\ pc'[reserved[k]] = pc[reserved[k]]
                /\ reserved[k] \in enqueued' <=> reserved[k] \in enqueued
      /\ pc'[c] \in {"rollback", "failed"}
  BY <1>1, OthersStay DEF States
<1>3. ASSUME NEW to \in States, Goto(c, to)
      PROVE  pc'[c] = to
  BY <1>3, Going
<1>4. CASE UNCHANGED reserved
  <2>1. HoldersPublish'
    BY <1>2, <1>4 DEF HoldersPublish
  <2>2. CASE pc[c] \in {"reserve", "get"} /\ UNCHANGED enqueued /\ \E kind : Fault(kind)
    <3>1. Stuck' \subseteq Stuck /\ Half' \subseteq Half
      BY <1>2, <1>4, <2>2 DEF HoldersPublish, Stuck, Half, Unpublished
    <3>2. Paid \in Nat /\ Paid' \in Nat /\ Paid <= Paid'
      BY <2>2, PaidMore
    <3> QED BY <2>1, <3>1, <3>2, NoneLeft
  <2>3. CASE Goto(c, "failed") /\ UNCHANGED enqueued /\ Fault("crash")
    <3>1. Stuck' \subseteq Stuck \cup {key} /\ Half' \subseteq Half
      BY <1>2, <1>3, <1>4, <2>3 DEF Stuck, Half, Unpublished, States
    <3>2. Paid \in Nat /\ Paid' = Paid + 2
      BY <2>3, PaidMore
    <3> QED BY <2>1, <3>1, <3>2, OneStuck
  <2>4. CASE Edge(c, "publish", "rollback") /\ UNCHANGED enqueued /\ Fault("refused")
    <3>1. Stuck' \subseteq Stuck /\ Half' \subseteq Half \cup {key}
      BY <1>2, <1>3, <1>4, <2>4 DEF Edge, Stuck, Half, Unpublished, States
    <3>2. Paid \in Nat /\ Paid' = Paid + 1
      BY <2>4, PaidMore
    <3> QED BY <2>1, <3>1, <3>2, OneHalf
  <2>5. CASE enqueued' = enqueued \cup {c} /\ Fault("reply_lost")
    <3>1. Stuck' \subseteq Stuck /\ Half' \subseteq Half
      BY <1>2, <1>4, <2>5 DEF Stuck, Half, Unpublished
    <3>2. Paid \in Nat /\ Paid' \in Nat /\ Paid <= Paid'
      BY <2>5, PaidMore
    <3> QED BY <2>1, <3>1, <3>2, NoneLeft
  <2>6. CASE Edge(c, "rollback", "failed") /\ UNCHANGED enqueued /\ Fault("refused")
    <3>1. Paid \in Nat /\ Paid' \in Nat /\ Paid' = Paid + 1
      BY <2>6, PaidMore
    <3>2. CASE key \in DOMAIN reserved /\ Unpublished(c, "rollback") /\ reserved[key] = c
      <4>1. key \in Half
        BY <3>2 DEF Half
      <4>2. pc'[c] = "failed"
        BY <1>3, <2>6 DEF Edge, States
      <4>3. Stuck' \subseteq Stuck \cup {key} /\ Half' \subseteq Half \ {key}
        BY <1>2, <1>4, <2>6, <3>2, <4>2 DEF Edge, Stuck, Half, Unpublished
      <4> QED BY <2>1, <3>1, <4>1, <4>3, HalfGetsStuck
    <3>3. CASE ~(key \in DOMAIN reserved /\ Unpublished(c, "rollback") /\ reserved[key] = c)
      <4>1. Stuck' \subseteq Stuck /\ Half' \subseteq Half
        BY <1>2, <1>4, <2>6, <3>3 DEF Edge, Stuck, Half, Unpublished
      <4> QED BY <2>1, <3>1, <4>1, NoneLeft
    <3> QED BY <3>2, <3>3
  <2>7. CASE Edge(c, "rollback", "failed") /\ UNCHANGED enqueued /\ Fault("reply_lost")
    <3>1. Stuck' \subseteq Stuck \cup {key} /\ Half' \subseteq Half
      BY <1>2, <1>3, <1>4, <2>7 DEF Edge, Stuck, Half, Unpublished, States
    <3>2. Paid \in Nat /\ Paid' = Paid + 2
      BY <2>7, PaidMore
    <3> QED BY <2>1, <3>1, <3>2, OneStuck
  <2>8. CASE Edge(c, "reserve", "failed") /\ UNCHANGED enqueued /\ Fault("reply_lost")
    BY <2>2, <2>8 DEF Edge
  <2> QED BY <2>2, <2>3, <2>4, <2>5, <2>6, <2>7, <2>8, RaisingEdges DEF Edge
<1>5. CASE /\ Edge(c, "reserve", "failed") /\ UNCHANGED enqueued
           /\ Fault("reply_lost") /\ SetNX(c)
  <2>1. CASE Has(reserved, key)
    BY <1>4, <1>5, <2>1 DEF SetNX
  <2>2. CASE ~Has(reserved, key)
    <3>1. /\ DOMAIN reserved' = DOMAIN reserved \cup {key}
          /\ reserved'[key] = c
          /\ \A j \in DOMAIN reserved : reserved'[j] = reserved[j]
          /\ key \notin DOMAIN reserved
      BY <1>5, <2>2 DEF SetNX, Put, Has
    <3>2. pc'[c] = "failed"
      BY <1>3, <1>5 DEF Edge, States
    <3>3. Stuck' \subseteq Stuck \cup {key} /\ Half' \subseteq Half /\ HoldersPublish'
      BY <1>2, <1>5, <3>1, <3>2 DEF HoldersPublish, Stuck, Half, Unpublished
    <3>4. Paid \in Nat /\ Paid' = Paid + 2
      BY <1>5, PaidMore
    <3> QED BY <3>3, <3>4, OneStuck
  <2> QED BY <2>1, <2>2
<1>6. CASE /\ Edge(c, "rollback", "failed") /\ UNCHANGED enqueued
           /\ Fault("reply_lost") /\ Unreserve(c)
  <2>1. /\ DOMAIN reserved' = DOMAIN reserved \ {key}
        /\ \A j \in DOMAIN reserved : j # key => reserved'[j] = reserved[j]
    BY <1>6, Removing DEF Unreserve
  <2>2. Stuck' \subseteq Stuck /\ Half' \subseteq Half /\ HoldersPublish'
    BY <1>2, <1>6, <2>1 DEF HoldersPublish, Stuck, Half, Unpublished
  <2>3. Paid \in Nat /\ Paid' \in Nat /\ Paid <= Paid'
    BY <1>6, PaidMore
  <2> QED BY <2>2, <2>3, NoneLeft
<1> QED BY <1>4, <1>5, <1>6, RaisingEdges

LEMMA ExpireAccounted ==
  ASSUME TypeOK, HoldersPublish, Accounted, NEW k \in DedupKeys, Expire(k)
  PROVE  HoldersPublish' /\ Accounted'
<1>1. /\ DOMAIN reserved' = DOMAIN reserved \ {k}
      /\ \A j \in DOMAIN reserved : j # k => reserved'[j] = reserved[j]
      /\ UNCHANGED <<pc, enqueued, faults>>
  BY Removing DEF Expire
<1>2. Stuck' \subseteq Stuck /\ Half' \subseteq Half /\ HoldersPublish'
  BY <1>1 DEF HoldersPublish, Stuck, Half, Unpublished
<1>3. Paid \in Nat /\ Paid' \in Nat /\ Paid <= Paid'
  BY <1>1, PaidSame
<1> QED BY <1>2, <1>3, NoneLeft

LEMMA NextAccounted ==
  ASSUME TypeOK, HoldersPublish, Accounted, [Next]_vars
  PROVE  HoldersPublish' /\ Accounted'
<1>1. CASE UNCHANGED vars
  <2>1. UNCHANGED <<reserved, pc, enqueued, faults>>
    BY <1>1 DEF vars
  <2>2. Stuck' \subseteq Stuck /\ Half' \subseteq Half /\ HoldersPublish'
    BY <2>1 DEF HoldersPublish, Stuck, Half, Unpublished
  <2>3. Paid \in Nat /\ Paid' \in Nat /\ Paid <= Paid'
    BY <2>1, PaidSame
  <2> QED BY <2>2, <2>3, NoneLeft
<1> QED BY <1>1, StepAccounted, RaisesAccounted, ExpireAccounted DEF Next

LEMMA AccountBounds == TypeOK /\ Accounted => StuckNeedsTwoRefusals
<1> SUFFICES ASSUME TypeOK, Accounted PROVE StuckNeedsTwoRefusals
  OBVIOUS
<1>1. Cardinality(Stuck) \in Nat /\ Cardinality(Half) \in Nat
  BY FS_CardinalityType DEF Accounted
<1>2. Paid \in Nat
  BY DEF TypeOK, Paid, Kinds
<1>3. 2 * Cardinality(Stuck) <= Paid
  BY <1>1, <1>2 DEF Accounted
<1> QED BY <1>3 DEF StuckNeedsTwoRefusals, Paid

\* A key stays reserved for a message that will never come only by a death or
\* a lost reply of SET NX, or by two refusals, that of the publish and that of
\* the rollback, for every key that does (_publish_with_deduplication).
THEOREM StuckKeysArePaidFor == Spec => []StuckNeedsTwoRefusals
<1>1. Init => HoldersPublish /\ Accounted
  <2> SUFFICES ASSUME Init PROVE HoldersPublish /\ Accounted
    OBVIOUS
  <2>1. HoldersPublish /\ Stuck = {} /\ Half = {} /\ Paid = 0
    BY DEF Init, HoldersPublish, Stuck, Half, Nothing, Paid, Kinds
  <2> QED BY <2>1, FS_EmptySet DEF Accounted
<1>2. TypeOK /\ HoldersPublish /\ Accounted /\ [Next]_vars => (HoldersPublish /\ Accounted)'
  BY NextAccounted
<1> QED BY <1>1, <1>2, AccountBounds, TypeCorrect, PTL DEF Spec
=============================================================================
