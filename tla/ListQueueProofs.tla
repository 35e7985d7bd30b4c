-------------------------- MODULE ListQueueProofs --------------------------
(***************************************************************************)
(* Proofs about ListQueue, for every number of workers and messages, every *)
(* batch size, limit and retry budget, and any number of faults.           *)
(*                                                                         *)
(* The first part is about the Redis list commands, the second about the   *)
(* placement of messages in the three lists, the third is the inductive    *)
(* invariant of the specification.                                         *)
(***************************************************************************)
EXTENDS ListQueue, SequenceTheorems, FiniteSetTheorems, TLAPS

-----------------------------------------------------------------------------
(* Sequences whose elements have an id. *)

\* No two positions of the list carry the same id.
Distinct(s) == \A i, j \in DOMAIN s : s[i].id = s[j].id => i = j

\* LPUSH adds one id to a list, and keeps its ids distinct when it is new.
LEMMA PushLeft ==
  ASSUME NEW S, NEW s \in Seq(S), NEW e \in S
  PROVE  LET t == <<e>> \o s
         IN /\ t \in Seq(S)
            /\ IdsIn(t) = IdsIn(s) \cup {e.id}
            /\ Distinct(s) /\ e.id \notin IdsIn(s) => Distinct(t)
<1> DEFINE t == <<e>> \o s
<1>1. /\ t \in Seq(S)
      /\ Len(t) = Len(s) + 1
      /\ t[1] = e
      /\ \A i \in 1..Len(s) : t[i + 1] = s[i]
      /\ DOMAIN t = 1..Len(s) + 1
      /\ DOMAIN s = 1..Len(s)
      /\ Len(s) \in Nat
  OBVIOUS
<1>2. \A i \in DOMAIN t : i = 1 \/ (i - 1 \in DOMAIN s /\ t[i] = s[i - 1])
  BY <1>1
<1>3. IdsIn(t) = IdsIn(s) \cup {e.id}
  <2>1. IdsIn(t) \subseteq IdsIn(s) \cup {e.id}
    BY <1>1, <1>2 DEF IdsIn
  <2>2. e.id \in IdsIn(t)
    BY <1>1 DEF IdsIn
  <2>3. ASSUME NEW i \in DOMAIN s
        PROVE  s[i].id \in IdsIn(t)
    <3>1. i + 1 \in DOMAIN t /\ t[i + 1] = s[i]
      BY <1>1
    <3> QED BY <3>1 DEF IdsIn
  <2> QED BY <2>1, <2>2, <2>3 DEF IdsIn
<1>4. ASSUME Distinct(s), e.id \notin IdsIn(s)
      PROVE  Distinct(t)
  <2> SUFFICES ASSUME NEW i \in DOMAIN t, NEW j \in DOMAIN t, t[i].id = t[j].id
               PROVE  i = j
    BY DEF Distinct
  <2>1. CASE i = 1 /\ j = 1
    BY <2>1
  <2>2. CASE i = 1 /\ j # 1
    BY <2>2, <1>1, <1>2, <1>4 DEF IdsIn
  <2>3. CASE i # 1 /\ j = 1
    BY <2>3, <1>1, <1>2, <1>4 DEF IdsIn
  <2>4. CASE i # 1 /\ j # 1
    BY <2>4, <1>1, <1>2, <1>4 DEF Distinct
  <2> QED BY <2>1, <2>2, <2>3, <2>4
<1> QED BY <1>1, <1>3, <1>4

\* The element that BLMOVE takes at the right end leaves the other ones.
LEMMA PopRight ==
  ASSUME NEW S, NEW s \in Seq(S), s # <<>>
  PROVE  /\ Front(s) \in Seq(S)
         /\ Last(s) \in S
         /\ IdsIn(s) = IdsIn(Front(s)) \cup {Last(s).id}
         /\ Distinct(s) => Distinct(Front(s)) /\ Last(s).id \notin IdsIn(Front(s))
<1>1. /\ Len(s) \in Nat \ {0}
      /\ DOMAIN s = 1..Len(s)
  OBVIOUS
<1>2. /\ Front(s) \in Seq(S)
      /\ Len(Front(s)) = Len(s) - 1
      /\ DOMAIN Front(s) = 1..Len(s) - 1
      /\ \A i \in 1..Len(s) - 1 : Front(s)[i] = s[i]
  BY <1>1 DEF Front
<1>3. Last(s) = s[Len(s)] /\ Last(s) \in S
  BY <1>1 DEF Last
<1>4. IdsIn(s) = IdsIn(Front(s)) \cup {Last(s).id}
  BY <1>1, <1>2, <1>3 DEF IdsIn
<1>5. ASSUME Distinct(s)
      PROVE  Distinct(Front(s)) /\ Last(s).id \notin IdsIn(Front(s))
  BY <1>1, <1>2, <1>3, <1>5 DEF Distinct, IdsIn
<1> QED BY <1>2, <1>3, <1>4, <1>5

\* LREM key 1 value removes one occurrence; when ids are distinct, its id is
\* then gone from the list and the others are still there.
LEMMA RemoveOne ==
  ASSUME NEW S, NEW s \in Seq(S), NEW e \in S,
         \E i \in DOMAIN s : s[i] = e,
         Distinct(s)
  PROVE  /\ RemoveFirst(s, e) \in Seq(S)
         /\ IdsIn(RemoveFirst(s, e)) = IdsIn(s) \ {e.id}
         /\ Distinct(RemoveFirst(s, e))
         /\ Range(RemoveFirst(s, e)) = Range(s) \ {e}
<1>1. /\ Len(s) \in Nat
      /\ DOMAIN s = 1..Len(s)
  OBVIOUS
<1>2. PICK n \in 1..Len(s) : s[n] = e
  BY <1>1
<1>3. SelectInSeq(s, LAMBDA v : v = e) = n
  <2>1. {i \in 1..Len(s) : s[i] = e} = {n}
    BY <1>1, <1>2 DEF Distinct
  <2>2. Min({n}) = n
    BY <1>1, <1>2 DEF Min
  <2> QED BY <2>1, <2>2 DEF SelectInSeq
<1>4. RemoveFirst(s, e) = RemoveAt(s, n)
  BY <1>1, <1>2, <1>3 DEF RemoveFirst
<1> DEFINE l == SubSeq(s, 1, n - 1)
           r == SubSeq(s, n + 1, Len(s))
           t == RemoveAt(s, n)
<1>5. /\ t \in Seq(S)
      /\ Len(t) = Len(s) - 1
      /\ \A i \in 1..n - 1 : t[i] = s[i]
      /\ \A i \in n..Len(s) - 1 : t[i] = s[i + 1]
  <2>1. /\ l \in Seq(S)
        /\ Len(l) = n - 1
        /\ \A i \in 1..n - 1 : l[i] = s[i]
    BY <1>1, <1>2
  <2>2. /\ r \in Seq(S)
        /\ Len(r) = Len(s) - n
        /\ \A i \in 1..Len(s) - n : r[i] = s[n + 1 + i - 1]
    <3>1. \A i \in n + 1..Len(s) : s[i] \in S
      BY <1>1, <1>2
    <3>2. n + 1 \in Int /\ Len(s) \in Int /\ n <= Len(s)
      BY <1>1, <1>2
    <3>3. /\ r \in Seq(S)
          /\ Len(r) = IF n + 1 <= Len(s) THEN Len(s) - (n + 1) + 1 ELSE 0
          /\ \A i \in 1..Len(s) - (n + 1) + 1 : r[i] = s[n + 1 + i - 1]
      BY <3>1, <3>2, SubSeqProperties
    <3> HIDE DEF r
    <3>4. (IF n + 1 <= Len(s) THEN Len(s) - (n + 1) + 1 ELSE 0) = Len(s) - n
      <4>1. \A k \in Nat : \A m \in 1..k :
              (IF m + 1 <= k THEN k - (m + 1) + 1 ELSE 0) = k - m
        OBVIOUS
      <4> QED BY <4>1, <1>1, Zenon
    <3>5. Len(s) - (n + 1) + 1 = Len(s) - n
      BY <1>1, <1>2
    <3> QED BY <3>3, <3>4, <3>5
  <2>3. t = l \o r
    BY DEF RemoveAt
  <2> HIDE DEF l, r, t
  <2>4. /\ l \o r \in Seq(S)
        /\ Len(l \o r) = Len(s) - 1
        /\ \A i \in 1..Len(s) - 1 :
             (l \o r)[i] = IF i <= n - 1 THEN l[i] ELSE r[i - (n - 1)]
    <3>1. n - 1 + (Len(s) - n) = Len(s) - 1
      BY <1>1, <1>2
    <3>2. /\ l \o r \in Seq(S)
          /\ Len(l \o r) = Len(l) + Len(r)
          /\ \A i \in 1..Len(l) + Len(r) :
               (l \o r)[i] = IF i <= Len(l) THEN l[i] ELSE r[i - Len(l)]
      BY <2>1, <2>2, ConcatProperties, Zenon
    <3> QED BY <3>1, <3>2, <2>1, <2>2
  <2>5. \A i \in n..Len(s) - 1 : r[i - (n - 1)] = s[i + 1]
    <3> TAKE i \in n..Len(s) - 1
    <3>1. i - (n - 1) \in 1..Len(s) - n /\ n + 1 + (i - (n - 1)) - 1 = i + 1
      BY <1>1, <1>2
    <3> QED BY <3>1, <2>2
  <2>6. \A i \in 1..n - 1 : t[i] = s[i]
    BY <1>1, <1>2, <2>1, <2>3, <2>4
  <2>7. \A i \in n..Len(s) - 1 : t[i] = s[i + 1]
    <3> TAKE i \in n..Len(s) - 1
    <3>1. i \in 1..Len(s) - 1 /\ ~(i <= n - 1)
      BY <1>1, <1>2
    <3> QED BY <3>1, <2>3, <2>4, <2>5
  <2> QED BY <2>3, <2>4, <2>6, <2>7
<1> HIDE DEF t
<1>6. DOMAIN t = 1..Len(s) - 1
  BY <1>5, <1>1
<1>7. \A i \in DOMAIN t : \E j \in DOMAIN s :
        j # n /\ t[i] = s[j] /\ j = IF i < n THEN i ELSE i + 1
  BY <1>1, <1>2, <1>5, <1>6
<1>8. Distinct(t)
  BY <1>1, <1>2, <1>6, <1>7 DEF Distinct
<1>9. IdsIn(t) = IdsIn(s) \ {e.id}
  <2>1. IdsIn(t) \subseteq IdsIn(s) \ {e.id}
    BY <1>1, <1>2, <1>7 DEF IdsIn, Distinct
  <2>2. ASSUME NEW j \in DOMAIN s, s[j].id # e.id
        PROVE  s[j].id \in IdsIn(t)
    <3>1. CASE j < n
      <4>1. j \in DOMAIN t /\ t[j] = s[j]
        BY <3>1, <1>1, <1>2, <1>5, <1>6
      <4> QED BY <4>1 DEF IdsIn
    <3>2. CASE j > n
      <4>1. j - 1 \in DOMAIN t /\ t[j - 1] = s[j]
        BY <3>2, <1>1, <1>2, <1>5, <1>6
      <4> QED BY <4>1 DEF IdsIn
    <3>3. j # n
      BY <1>2, <2>2
    <3> QED BY <3>1, <3>2, <3>3, <1>1, <1>2
  <2> QED BY <2>1, <2>2 DEF IdsIn
<1>10. Range(t) = Range(s) \ {e}
  <2>1. \A i \in DOMAIN t : t[i] \in Range(s) /\ t[i] # e
    BY <1>1, <1>2, <1>7 DEF Range, Distinct
  <2>2. \A j \in DOMAIN s : s[j] # e => s[j].id \in IdsIn(t)
    BY <1>1, <1>2, <1>9 DEF IdsIn, Distinct
  <2>3. ASSUME NEW j \in DOMAIN s, s[j] # e
        PROVE  s[j] \in Range(t)
    <3>1. PICK i \in DOMAIN t : t[i].id = s[j].id
      BY <2>2, <2>3 DEF IdsIn
    <3>2. t[i] = s[j]
      BY <1>7, <2>3, <3>1 DEF Distinct
    <3> QED BY <3>1, <3>2 DEF Range
  <2> QED BY <2>1, <2>3 DEF Range
<1> QED BY <1>4, <1>5, <1>8, <1>9, <1>10 DEF t

\* LRANGE returns a list of elements of the list.
LEMMA RangeOfList ==
  ASSUME NEW S, NEW s \in Seq(S), NEW n \in Nat, n <= Len(s)
  PROVE  SubSeq(s, 1, n) \in Seq(S)
OBVIOUS

\* So do LPUSH's and Append's effects on the ids of the publishing history.
LEMMA AppendRange ==
  ASSUME NEW S, NEW s \in Seq(S), NEW e \in S
  PROVE  /\ Append(s, e) \in Seq(S)
         /\ Range(Append(s, e)) = Range(s) \cup {e}
<1>1. /\ Append(s, e) \in Seq(S)
      /\ DOMAIN Append(s, e) = 1..Len(s) + 1
      /\ \A i \in 1..Len(s) : Append(s, e)[i] = s[i]
      /\ Append(s, e)[Len(s) + 1] = e
      /\ Len(s) \in Nat
      /\ DOMAIN s = 1..Len(s)
  OBVIOUS
<1> DEFINE t == Append(s, e)
<1> HIDE DEF t
<1>2. Range(t) \subseteq Range(s) \cup {e}
  BY <1>1 DEF Range, t
<1>3. e \in Range(t)
  BY <1>1 DEF Range, t
<1>4. \A i \in DOMAIN s : s[i] \in Range(t)
  BY <1>1 DEF Range, t
<1> QED BY <1>1, <1>2, <1>3, <1>4 DEF Range, t

-----------------------------------------------------------------------------
(* The three lists together. *)

Lists == [Keys -> Seq(Payload)]

\* Equal ids are at equal places (the first part of SingleCopy).
OneCopy(d) ==
  \A k, m \in Keys : \A i \in DOMAIN d[k], j \in DOMAIN d[m] :
    d[k][i].id = d[m][j].id => k = m /\ i = j

AllIds(d) == UNION {IdsIn(d[k]) : k \in Keys}

LEMMA OneCopyPerList ==
  ASSUME NEW d \in Lists
  PROVE  OneCopy(d) <=> /\ \A k \in Keys : Distinct(d[k])
                        /\ \A k, m \in Keys :
                             k # m => IdsIn(d[k]) \cap IdsIn(d[m]) = {}
<1>1. ASSUME OneCopy(d)
      PROVE  /\ \A k \in Keys : Distinct(d[k])
             /\ \A k, m \in Keys : k # m => IdsIn(d[k]) \cap IdsIn(d[m]) = {}
  BY <1>1 DEF OneCopy, Distinct, IdsIn
<1>2. ASSUME \A k \in Keys : Distinct(d[k]),
             \A k, m \in Keys : k # m => IdsIn(d[k]) \cap IdsIn(d[m]) = {},
             NEW k \in Keys, NEW m \in Keys,
             NEW i \in DOMAIN d[k], NEW j \in DOMAIN d[m],
             d[k][i].id = d[m][j].id
      PROVE  k = m /\ i = j
  <2>1. d[k][i].id \in IdsIn(d[k]) /\ d[m][j].id \in IdsIn(d[m])
    BY DEF IdsIn
  <2>2. k = m
    BY <2>1, <1>2
  <2> QED BY <2>2, <1>2 DEF Distinct
<1> QED BY <1>1, <1>2 DEF OneCopy

\* LPUSH of a message that is in no list.
LEMMA LPushPlaces ==
  ASSUME NEW d \in Lists, OneCopy(d),
         NEW k \in Keys, NEW p \in Payload, p.id \notin AllIds(d)
  PROVE  /\ LPush(d, k, p) \in Lists
         /\ OneCopy(LPush(d, k, p))
         /\ AllIds(LPush(d, k, p)) = AllIds(d) \cup {p.id}
<1> DEFINE c == LPush(d, k, p)
<1>1. d[k] \in Seq(Payload) /\ Distinct(d[k]) /\ p.id \notin IdsIn(d[k])
  BY OneCopyPerList DEF Lists, AllIds
<1>2. /\ c[k] = <<p>> \o d[k]
      /\ \A m \in Keys : m # k => c[m] = d[m]
      /\ DOMAIN c = Keys
  BY DEF LPush, Lists
<1>3. /\ c[k] \in Seq(Payload)
      /\ IdsIn(c[k]) = IdsIn(d[k]) \cup {p.id}
      /\ Distinct(c[k])
  BY <1>1, <1>2, PushLeft
<1>4. c \in Lists
  BY <1>3 DEF LPush, Lists
<1> HIDE DEF c
<1>5. AllIds(c) = AllIds(d) \cup {p.id}
  BY <1>2, <1>3 DEF AllIds
<1>6. \A m \in Keys : Distinct(c[m])
  BY <1>2, <1>3, OneCopyPerList
<1>7. ASSUME NEW m \in Keys, NEW n \in Keys, m # n
      PROVE  IdsIn(c[m]) \cap IdsIn(c[n]) = {}
  <2>1. IdsIn(d[m]) \cap IdsIn(d[n]) = {}
    BY <1>7, OneCopyPerList
  <2>2. p.id \notin IdsIn(d[m]) /\ p.id \notin IdsIn(d[n])
    BY DEF AllIds
  <2> QED BY <2>1, <2>2, <1>2, <1>3, <1>7
<1>8. OneCopy(c)
  BY <1>4, <1>6, <1>7, OneCopyPerList
<1> QED BY <1>4, <1>5, <1>8 DEF c

\* LREM of an entry that is in the list.
LEMMA LRemTakes ==
  ASSUME NEW d \in Lists, OneCopy(d),
         NEW k \in Keys, NEW p, LRemFinds(d, k, p)
  PROVE  /\ LRem(d, k, p) \in Lists
         /\ OneCopy(LRem(d, k, p))
         /\ AllIds(LRem(d, k, p)) = AllIds(d) \ {p.id}
         /\ p \in Payload
         /\ p.id \in AllIds(d)
<1> DEFINE c == LRem(d, k, p)
<1>1. d[k] \in Seq(Payload) /\ Distinct(d[k])
  BY OneCopyPerList DEF Lists
<1>2. p \in Payload /\ p.id \in IdsIn(d[k])
  BY <1>1 DEF LRemFinds, IdsIn
<1>3. /\ c[k] = RemoveFirst(d[k], p)
      /\ \A m \in Keys : m # k => c[m] = d[m]
  BY DEF LRem, Lists
<1>4. /\ c[k] \in Seq(Payload)
      /\ IdsIn(c[k]) = IdsIn(d[k]) \ {p.id}
      /\ Distinct(c[k])
  BY <1>1, <1>2, <1>3, RemoveOne DEF LRemFinds
<1>5. c \in Lists
  BY <1>4 DEF LRem, Lists
<1> HIDE DEF c
<1>6. \A m \in Keys : m # k => p.id \notin IdsIn(d[m])
  BY <1>2, OneCopyPerList
<1>7. AllIds(c) = AllIds(d) \ {p.id}
  BY <1>3, <1>4, <1>6 DEF AllIds
<1>8. \A m \in Keys : Distinct(c[m])
  BY <1>3, <1>4, OneCopyPerList
<1>9. \A m, n \in Keys : m # n => IdsIn(c[m]) \cap IdsIn(c[n]) = {}
  BY <1>3, <1>4, OneCopyPerList
<1>10. OneCopy(c)
  BY <1>5, <1>8, <1>9, OneCopyPerList
<1>11. p.id \in AllIds(d)
  BY <1>2 DEF AllIds
<1> QED BY <1>2, <1>5, <1>7, <1>10, <1>11 DEF c

\* BLMOVE of a non-empty ready list.
LEMMA LMoveMoves ==
  ASSUME NEW d \in Lists, OneCopy(d), d["ready"] # <<>>
  PROVE  LET c == LMove(d, "ready", "processing")
         IN /\ c \in Lists
            /\ OneCopy(c)
            /\ AllIds(c) = AllIds(d)
            /\ Last(d["ready"]) \in Payload
<1> DEFINE c == LMove(d, "ready", "processing")
           p == Last(d["ready"])
<1>1. /\ d["ready"] \in Seq(Payload)
      /\ d["processing"] \in Seq(Payload)
      /\ Distinct(d["ready"])
      /\ Distinct(d["processing"])
      /\ IdsIn(d["ready"]) \cap IdsIn(d["processing"]) = {}
  BY OneCopyPerList DEF Lists, Keys
<1>2. /\ Front(d["ready"]) \in Seq(Payload)
      /\ p \in Payload
      /\ IdsIn(d["ready"]) = IdsIn(Front(d["ready"])) \cup {p.id}
      /\ Distinct(Front(d["ready"]))
      /\ p.id \notin IdsIn(Front(d["ready"]))
  BY <1>1, PopRight
<1>3. /\ c["ready"] = Front(d["ready"])
      /\ c["processing"] = <<p>> \o d["processing"]
      /\ c["dead"] = d["dead"]
  BY DEF LMove, Lists, Keys
<1>4. /\ c["processing"] \in Seq(Payload)
      /\ IdsIn(c["processing"]) = IdsIn(d["processing"]) \cup {p.id}
      /\ Distinct(c["processing"])
  <2>1. p.id \notin IdsIn(d["processing"])
    BY <1>1, <1>2
  <2> HIDE DEF c, p
  <2>2. /\ <<p>> \o d["processing"] \in Seq(Payload)
        /\ IdsIn(<<p>> \o d["processing"]) = IdsIn(d["processing"]) \cup {p.id}
        /\ Distinct(<<p>> \o d["processing"])
    BY <2>1, <1>1, <1>2, PushLeft
  <2> QED BY <2>2, <1>3
<1>5. c \in Lists
  BY <1>2, <1>3, <1>4 DEF LMove, Lists, Keys
<1> HIDE DEF c, p
<1>6. AllIds(c) = AllIds(d)
  BY <1>2, <1>3, <1>4 DEF AllIds, Keys
<1>7. \A m \in Keys : Distinct(c[m])
  BY <1>2, <1>3, <1>4, OneCopyPerList DEF Keys
<1>8. \A m, n \in Keys : m # n => IdsIn(c[m]) \cap IdsIn(c[n]) = {}
  <2>1. \A m, n \in Keys : m # n => IdsIn(d[m]) \cap IdsIn(d[n]) = {}
    BY OneCopyPerList
  <2>2. IdsIn(c["ready"]) \cap IdsIn(c["processing"]) = {}
    BY <1>1, <1>2, <1>3, <1>4
  <2>3. IdsIn(c["ready"]) \cap IdsIn(c["dead"]) = {}
    BY <2>1, <1>2, <1>3 DEF Keys
  <2>4. IdsIn(c["processing"]) \cap IdsIn(c["dead"]) = {}
    BY <2>1, <1>2, <1>3, <1>4 DEF Keys
  <2> QED BY <2>2, <2>3, <2>4 DEF Keys
<1>9. OneCopy(c)
  BY <1>5, <1>7, <1>8, OneCopyPerList
<1> QED BY <1>2, <1>5, <1>6, <1>9 DEF c, p

-----------------------------------------------------------------------------
(* The inductive invariant.  SingleCopy and AckedGone need the type        *)
(* invariant, that a call has a message in hand only between LREM and      *)
(* LPUSH, and that only published messages are anywhere.                   *)

FrameOK(f) ==
  /\ f.op = "push" => \E p \in Payload : f.moving = {p}
  /\ f.op # "push" => f.moving = {}
  /\ f.op = "recover" => f.todo # <<>>
  /\ f.op = "consume" => f.want >= 1

Traced == acked \cup Listed \cup Moving \subseteq Range(published)

Placed == SingleCopy /\ AckedGone /\ Traced

IInv == TypeOK /\ (\A w \in Workers : FrameOK(call[w])) /\ Placed

LEMMA ListedIsAllIds == Listed = AllIds(db)
BY DEF Listed, AllIds

LEMMA SingleCopyParts ==
  SingleCopy <=> /\ OneCopy(db)
                 /\ Moving \cap Listed = {}
                 /\ \A v, w \in Workers : v # w => MovingBy(v) \cap MovingBy(w) = {}
BY DEF SingleCopy, OneCopy

\* What a step of worker w does to the other workers' moves: nothing.
OthersKeep(w) == \A v \in Workers : v # w => MovingBy(v)' = MovingBy(v)

LEMMA OthersMoving ==
  ASSUME NEW w \in Workers, OthersKeep(w)
  PROVE  \E rest : /\ Moving = rest \cup MovingBy(w)
                   /\ Moving' = rest \cup MovingBy(w)'
                   /\ rest = UNION {MovingBy(v) : v \in Workers \ {w}}
<1> DEFINE rest == UNION {MovingBy(v) : v \in Workers \ {w}}
<1>1. Moving = rest \cup MovingBy(w)
  BY DEF Moving
<1>2. Moving' = rest \cup MovingBy(w)'
  BY DEF Moving, OthersKeep
<1> QED BY <1>1, <1>2

\* A step that changes no list keeps every message placed, and loses at most
\* what the worker had in hand.
LEMMA KeepStep ==
  ASSUME Placed, NEW w \in Workers, OthersKeep(w),
         OneCopy(db'), Listed' = Listed,
         MovingBy(w)' \subseteq MovingBy(w),
         UNCHANGED <<acked, published>>
  PROVE  Placed' /\ Lost' \subseteq Lost \cup MovingBy(w)
<1>1. PICK rest : /\ Moving = rest \cup MovingBy(w)
                  /\ Moving' = rest \cup MovingBy(w)'
  BY OthersMoving
<1>2. /\ Moving \cap Listed = {}
      /\ \A u, v \in Workers : u # v => MovingBy(u) \cap MovingBy(v) = {}
  BY SingleCopyParts DEF Placed
<1>3. \A u, v \in Workers : u # v => MovingBy(u)' \cap MovingBy(v)' = {}
  BY <1>2 DEF OthersKeep
<1>4. SingleCopy'
  BY <1>1, <1>2, <1>3 DEF SingleCopy, OneCopy
<1>5. AckedGone' /\ Traced'
  BY <1>1 DEF AckedGone, Traced, Placed
<1>6. Lost' \subseteq Lost \cup MovingBy(w)
  BY <1>1 DEF Lost
<1> QED BY <1>4, <1>5, <1>6 DEF Placed

\* A step that removes one listed message, to have it in hand, to acknowledge
\* it or to lose it.
LEMMA TakeStep ==
  ASSUME Placed, NEW w \in Workers, OthersKeep(w), MovingBy(w) = {},
         NEW x \in Listed, OneCopy(db'), Listed' = Listed \ {x},
         published' = published,
         \/ MovingBy(w)' = {x} /\ acked' = acked
         \/ MovingBy(w)' = {} /\ acked' = acked \cup {x}
         \/ MovingBy(w)' = {} /\ acked' = acked
  PROVE  /\ Placed'
         /\ Lost' \subseteq Lost \cup {x}
         /\ x \in MovingBy(w)' \cup acked' => Lost' \subseteq Lost
<1>1. PICK rest : /\ Moving = rest \cup MovingBy(w)
                  /\ Moving' = rest \cup MovingBy(w)'
                  /\ rest = UNION {MovingBy(v) : v \in Workers \ {w}}
  BY OthersMoving
<1>2. /\ Moving \cap Listed = {}
      /\ \A u, v \in Workers : u # v => MovingBy(u) \cap MovingBy(v) = {}
  BY SingleCopyParts DEF Placed
<1>3. \A v \in Workers : x \notin MovingBy(v)
  BY <1>2 DEF Moving
<1>4. \A u, v \in Workers : u # v => MovingBy(u)' \cap MovingBy(v)' = {}
  BY <1>2, <1>3 DEF OthersKeep
<1>5. Moving' \cap Listed' = {}
  BY <1>1, <1>2
<1>6. SingleCopy'
  BY <1>4, <1>5 DEF SingleCopy, OneCopy
<1>7. AckedGone'
  BY <1>1, <1>2 DEF AckedGone, Placed
<1>8. Traced'
  BY <1>1 DEF Traced, Placed
<1>9. Lost' \subseteq Lost \cup {x}
  BY <1>1 DEF Lost
<1>10. x \in MovingBy(w)' \cup acked' => Lost' \subseteq Lost
  BY <1>1 DEF Lost
<1> QED BY <1>6, <1>7, <1>8, <1>9, <1>10 DEF Placed

\* A step that lists the message a worker has in hand.
LEMMA PutStep ==
  ASSUME Placed, NEW w \in Workers, OthersKeep(w),
         NEW x, MovingBy(w) = {x}, MovingBy(w)' = {},
         OneCopy(db'), Listed' = Listed \cup {x},
         UNCHANGED <<acked, published>>
  PROVE  Placed' /\ Lost' \subseteq Lost
<1>1. PICK rest : /\ Moving = rest \cup MovingBy(w)
                  /\ Moving' = rest \cup MovingBy(w)'
                  /\ rest = UNION {MovingBy(v) : v \in Workers \ {w}}
  BY OthersMoving
<1>2. /\ Moving \cap Listed = {}
      /\ \A u, v \in Workers : u # v => MovingBy(u) \cap MovingBy(v) = {}
  BY SingleCopyParts DEF Placed
<1>3. x \notin rest
  BY <1>1, <1>2
<1>4. \A u, v \in Workers : u # v => MovingBy(u)' \cap MovingBy(v)' = {}
  BY <1>2 DEF OthersKeep
<1>5. Moving' \cap Listed' = {}
  BY <1>1, <1>2, <1>3
<1>6. SingleCopy'
  BY <1>4, <1>5 DEF SingleCopy, OneCopy
<1>7. AckedGone' /\ Traced'
  BY <1>1 DEF AckedGone, Traced, Placed
<1>8. Lost' \subseteq Lost
  BY <1>1 DEF Lost
<1> QED BY <1>6, <1>7, <1>8 DEF Placed

-----------------------------------------------------------------------------
(* Initially nothing is anywhere. *)

LEMMA InitPlaces == Init => IInv /\ Lost = {}
<1> SUFFICES ASSUME Init PROVE IInv /\ Lost = {}
  OBVIOUS
<1> USE DEF Init
<1>1. /\ db \in [Keys -> Seq(Payload)]
      /\ \A k \in Keys : DOMAIN db[k] = {}
  OBVIOUS
<1>2. Idle \in Frame /\ FrameOK(Idle) /\ Idle.moving = {}
  BY ConstantsAssumption DEF Idle, Frame, FrameOK, Keys
<1>3. TypeOK
  BY <1>1, <1>2, ConstantsAssumption DEF TypeOK
<1>4. Listed = {} /\ Moving = {} /\ Range(published) = {}
  BY <1>1, <1>2 DEF Listed, IdsIn, Moving, MovingBy, Range
<1>5. Placed
  <2>1. \A v, w \in Workers : v # w => MovingBy(v) \cap MovingBy(w) = {}
    BY <1>4 DEF Moving
  <2> QED BY <1>1, <1>4, <2>1 DEF Placed, SingleCopy, AckedGone, Traced
<1> QED BY <1>2, <1>3, <1>4, <1>5 DEF IInv, Lost

-----------------------------------------------------------------------------
(* Frames. *)

FramesOK == \A w \in Workers : FrameOK(call[w])

LEMMA IdleFrame == Idle \in Frame /\ FrameOK(Idle) /\ Idle.moving = {}
BY ConstantsAssumption DEF Idle, Frame, FrameOK, Keys

LEMMA PushingFrame ==
  ASSUME NEW p \in Payload, NEW k \in Keys, NEW rest \in Seq(Payload)
  PROVE  /\ Pushing(p, k, rest) \in Frame
         /\ FrameOK(Pushing(p, k, rest))
         /\ Pushing(p, k, rest).moving = {p}
<1>1. Pushing(p, k, rest) \in Frame
  BY ConstantsAssumption DEF Frame, Pushing
<1>2. FrameOK(Pushing(p, k, rest)) /\ Pushing(p, k, rest).moving = {p}
  BY DEF FrameOK, Pushing
<1> QED BY <1>1, <1>2

LEMMA RecoveringFrame ==
  ASSUME NEW rest \in Seq(Payload)
  PROVE  /\ Recovering(rest) \in Frame
         /\ FrameOK(Recovering(rest))
         /\ Recovering(rest).moving = {}
<1>1. CASE rest = <<>>
  BY <1>1, IdleFrame DEF Recovering
<1>2. CASE rest # <<>>
  <2> DEFINE f == [op |-> "recover", want |-> 0, got |-> {},
                   moving |-> {}, dest |-> "ready", todo |-> rest]
  <2>1. Recovering(rest) = f
    BY <1>2 DEF Recovering, Idle
  <2>2. f \in Frame
    BY ConstantsAssumption DEF Frame, Keys
  <2>3. FrameOK(f) /\ f.moving = {}
    BY <1>2 DEF FrameOK
  <2> QED BY <2>1, <2>2, <2>3
<1> QED BY <1>1, <1>2

LEMMA ConsumingFrame ==
  ASSUME NEW n \in 1..MaxBatch, NEW got \in SUBSET Payload
  PROVE  /\ Consuming(n, got) \in Frame
         /\ FrameOK(Consuming(n, got))
         /\ Consuming(n, got).moving = {}
<1>1. Consuming(n, got) \in Frame
  BY ConstantsAssumption DEF Frame, Keys, Consuming
<1>2. FrameOK(Consuming(n, got)) /\ Consuming(n, got).moving = {}
  BY ConstantsAssumption DEF FrameOK, Consuming
<1> QED BY <1>1, <1>2

\* Giving worker w a new frame.
LEMMA NewFrame ==
  ASSUME TypeOK, FramesOK, NEW w \in Workers,
         NEW f \in Frame, FrameOK(f), call' = [call EXCEPT ![w] = f]
  PROVE  /\ call' \in [Workers -> Frame]
         /\ FramesOK'
         /\ OthersKeep(w)
         /\ MovingBy(w)' = {p.id : p \in f.moving}
BY DEF TypeOK, FramesOK, OthersKeep, MovingBy

LEMMA SameFrames ==
  ASSUME TypeOK, FramesOK, UNCHANGED call
  PROVE  /\ call' \in [Workers -> Frame]
         /\ FramesOK'
         /\ \A v \in Workers : MovingBy(v)' = MovingBy(v)
BY DEF TypeOK, FramesOK, MovingBy

LEMMA IdleHasNothing ==
  ASSUME TypeOK, FramesOK, NEW w \in Workers, call[w].op # "push"
  PROVE  call[w].moving = {} /\ MovingBy(w) = {}
BY DEF FramesOK, FrameOK, MovingBy

LEMMA SnapshotType ==
  ASSUME TypeOK, NEW k \in Keys
  PROVE  Snapshot(k) \in Seq(Payload)
<1> DEFINE n == IF Limit = 0 THEN 0 ELSE Limit - 1
           m == IF n < Len(db[k]) THEN n + 1 ELSE Len(db[k])
<1>1. db[k] \in Seq(Payload) /\ n \in Nat
  BY ConstantsAssumption DEF TypeOK
<1>2. m \in Nat /\ m <= Len(db[k])
  BY <1>1
<1>3. SubSeq(db[k], 1, m) \in Seq(Payload)
  BY <1>1, <1>2, RangeOfList
<1> QED BY <1>3 DEF Snapshot, LRange

-----------------------------------------------------------------------------
(* The steps.  Each lemma shows that one action preserves the inductive    *)
(* invariant, and what it may lose.                                        *)

LoseNothing == Lost' \subseteq Lost /\ faults' = faults

LoseAtMostOne == \E x : Lost' \subseteq Lost \cup {x} /\ faults' = faults + 1

Preserved == IInv' /\ (LoseNothing \/ LoseAtMostOne)

LEMMA FaultIsCounted ==
  ASSUME TypeOK, NEW kind, Fault(kind)
  PROVE  faults' = faults + 1 /\ faults' \in 0..MaxFaults
BY ConstantsAssumption DEF TypeOK, Fault

LEMMA PublishStep ==
  ASSUME IInv, NEW id \in Ids, Publish(id)
  PROVE  Preserved
<1> DEFINE p == [id |-> id, attempts |-> 0]
<1>1. TypeOK /\ FramesOK /\ Placed /\ OneCopy(db) /\ db \in Lists
  BY SingleCopyParts DEF IInv, FramesOK, Placed, TypeOK, Lists
<1>2. p \in Payload /\ p.id = id /\ "ready" \in Keys
  BY ConstantsAssumption DEF Payload, Keys
<1>3. id \notin AllIds(db) /\ id \notin Moving /\ id \notin acked
  BY <1>1, ListedIsAllIds DEF Publish, Placed, Traced
<1>4. /\ db' \in Lists
      /\ OneCopy(db')
      /\ AllIds(db') = AllIds(db) \cup {id}
  <2> HIDE DEF p
  <2>1. db' = LPush(db, "ready", p)
    BY DEF Publish, p
  <2> QED BY <1>1, <1>2, <1>3, <2>1, LPushPlaces
<1>5. Listed' = Listed \cup {id}
  BY <1>4 DEF Listed, AllIds
<1>6. /\ published' \in Seq(Ids)
      /\ Range(published') = Range(published) \cup {id}
  BY <1>1, AppendRange DEF Publish, TypeOK
<1>7. /\ call' \in [Workers -> Frame]
      /\ FramesOK'
      /\ \A v \in Workers : MovingBy(v)' = MovingBy(v)
  BY <1>1, SameFrames DEF Publish
<1>8. Moving' = Moving
  BY <1>7 DEF Moving
<1>9. TypeOK'
  BY <1>1, <1>4, <1>6, <1>7 DEF TypeOK, Publish, Lists
<1>10. SingleCopy'
  BY <1>1, <1>3, <1>4, <1>5, <1>7, <1>8, SingleCopyParts DEF SingleCopy, OneCopy, Placed
<1>11. AckedGone' /\ Traced'
  BY <1>1, <1>3, <1>5, <1>6, <1>8 DEF AckedGone, Traced, Placed, Publish
<1>12. LoseNothing
  BY <1>5, <1>6, <1>8 DEF LoseNothing, Lost, Publish
<1> QED BY <1>7, <1>9, <1>10, <1>11, <1>12 DEF Preserved, IInv, Placed, FramesOK

\* A step that changes no list and gives w a frame without a message.
LEMMA QuietStep ==
  ASSUME IInv, NEW w \in Workers, NEW f \in Frame, FrameOK(f), f.moving = {},
         call' = [call EXCEPT ![w] = f],
         held' \in [Workers -> SUBSET Payload],
         UNCHANGED <<db, published, delivered, acked>>,
         \/ faults' = faults /\ call[w].op # "push"
         \/ faults' = faults + 1 /\ faults' \in 0..MaxFaults
  PROVE  Preserved
<1>1. TypeOK /\ FramesOK /\ Placed /\ OneCopy(db)
  BY SingleCopyParts DEF IInv, FramesOK, Placed
<1>2. /\ call' \in [Workers -> Frame]
      /\ FramesOK'
      /\ OthersKeep(w)
      /\ MovingBy(w)' = {}
  BY <1>1, NewFrame
<1>3. TypeOK'
  BY <1>1, <1>2 DEF TypeOK
<1>4. Listed' = Listed
  BY DEF Listed
<1>5. Placed' /\ Lost' \subseteq Lost \cup MovingBy(w)
  BY <1>1, <1>2, <1>4, KeepStep
<1>6. CASE call[w].op # "push"
  <2>1. Lost' \subseteq Lost
    BY <1>1, <1>5, <1>6, IdleHasNothing
  <2>2. LoseNothing \/ LoseAtMostOne
    BY <2>1 DEF LoseNothing, LoseAtMostOne
  <2> QED BY <1>2, <1>3, <1>5, <2>2 DEF Preserved, IInv, FramesOK
<1>7. CASE call[w].op = "push"
  <2>1. PICK p \in Payload : call[w].moving = {p}
    BY <1>1, <1>7 DEF FramesOK, FrameOK
  <2>2. MovingBy(w) = {p.id}
    BY <2>1 DEF MovingBy
  <2>3. LoseAtMostOne
    BY <1>5, <1>7, <2>2 DEF LoseAtMostOne
  <2> QED BY <1>2, <1>3, <1>5, <2>3 DEF Preserved, IInv, FramesOK
<1> QED BY <1>6, <1>7

\* A step that takes the oldest entry of ready into processing.
LEMMA TakeReadyStep ==
  ASSUME IInv, NEW w \in Workers, NEW f \in Frame, FrameOK(f), f.moving = {},
         call[w].op = "consume", TakeReady,
         call' = [call EXCEPT ![w] = f],
         held' \in [Workers -> SUBSET Payload],
         UNCHANGED <<published, acked>>,
         \/ faults' = faults
         \/ faults' = faults + 1 /\ faults' \in 0..MaxFaults
  PROVE  Preserved
<1>1. /\ TypeOK /\ FramesOK /\ Placed /\ OneCopy(db) /\ db \in Lists
      /\ MovingBy(w) = {}
  BY SingleCopyParts, IdleHasNothing DEF IInv, FramesOK, Placed, TypeOK, Lists
<1>2. /\ call' \in [Workers -> Frame]
      /\ FramesOK'
      /\ OthersKeep(w)
      /\ MovingBy(w)' = {}
  BY <1>1, NewFrame
<1>3. /\ db' \in Lists
      /\ OneCopy(db')
      /\ AllIds(db') = AllIds(db)
      /\ Last(db["ready"]) \in Payload
  BY <1>1, LMoveMoves DEF TakeReady
<1>4. Listed' = Listed
  BY <1>3 DEF Listed, AllIds
<1>5. Placed' /\ Lost' \subseteq Lost
  BY <1>1, <1>2, <1>3, <1>4, KeepStep
<1>6. TypeOK'
  <2>1. delivered' \subseteq Ids
    BY <1>1, <1>3 DEF TypeOK, TakeReady, Payload
  <2> QED BY <1>1, <1>2, <1>3, <2>1 DEF TypeOK, Lists
<1>7. LoseNothing \/ LoseAtMostOne
  BY <1>5 DEF LoseNothing, LoseAtMostOne
<1> QED BY <1>2, <1>5, <1>6, <1>7 DEF Preserved, IInv, FramesOK

\* A step that removes p from a list: to move it on (as q), to acknowledge
\* it, or, when the reply is lost, for nothing.
LEMMA RemovalStep ==
  ASSUME IInv, NEW w \in Workers, NEW f \in Frame, FrameOK(f),
         NEW k \in Keys, NEW p, Removes(k, p), call[w].op # "push",
         db' = LRem(db, k, p),
         call' = [call EXCEPT ![w] = f],
         UNCHANGED <<held, published, delivered>>,
         \/ /\ \E q \in Payload : f.moving = {q} /\ q.id = p.id
            /\ UNCHANGED <<acked, faults>>
         \/ /\ f.moving = {}
            /\ acked' = acked \cup {p.id}
            /\ (UNCHANGED faults) \/ (faults' = faults + 1 /\ faults' \in 0..MaxFaults)
         \/ /\ f.moving = {}
            /\ acked' = acked
            /\ faults' = faults + 1 /\ faults' \in 0..MaxFaults
  PROVE  Preserved
<1>1. /\ TypeOK /\ FramesOK /\ Placed /\ OneCopy(db) /\ db \in Lists
      /\ MovingBy(w) = {}
  BY SingleCopyParts, IdleHasNothing DEF IInv, FramesOK, Placed, TypeOK, Lists
<1>2. /\ call' \in [Workers -> Frame]
      /\ FramesOK'
      /\ OthersKeep(w)
      /\ MovingBy(w)' = {q.id : q \in f.moving}
  BY <1>1, NewFrame
<1>3. /\ db' \in Lists
      /\ OneCopy(db')
      /\ AllIds(db') = AllIds(db) \ {p.id}
      /\ p \in Payload
      /\ p.id \in AllIds(db)
  BY <1>1, LRemTakes DEF Removes
<1>4. Listed' = Listed \ {p.id} /\ p.id \in Listed
  BY <1>3 DEF Listed, AllIds
<1>5. \/ MovingBy(w)' = {p.id} /\ acked' = acked
      \/ MovingBy(w)' = {} /\ acked' = acked \cup {p.id}
      \/ MovingBy(w)' = {} /\ acked' = acked
  BY <1>2
<1>6. /\ Placed'
      /\ Lost' \subseteq Lost \cup {p.id}
      /\ p.id \in MovingBy(w)' \cup acked' => Lost' \subseteq Lost
  BY <1>1, <1>2, <1>3, <1>4, <1>5, TakeStep
<1>7. TypeOK'
  <2>1. acked' \subseteq Ids
    BY <1>1, <1>3 DEF TypeOK, Payload
  <2> QED BY <1>1, <1>2, <1>3, <2>1 DEF TypeOK, Lists
<1>8. LoseNothing \/ LoseAtMostOne
  <2>1. CASE faults' = faults
    <3>1. faults' # faults + 1
      BY <2>1, <1>1 DEF TypeOK
    <3>2. \/ \E q \in Payload : f.moving = {q} /\ q.id = p.id
          \/ acked' = acked \cup {p.id}
      BY <3>1
    <3>3. p.id \in MovingBy(w)' \cup acked'
      BY <3>2, <1>2
    <3> QED BY <2>1, <3>3, <1>6 DEF LoseNothing
  <2>2. CASE faults' = faults + 1
    BY <2>2, <1>6 DEF LoseAtMostOne
  <2> QED BY <2>1, <2>2
<1> QED BY <1>2, <1>6, <1>7, <1>8 DEF Preserved, IInv, FramesOK

\* A step that pushes the message w has in hand.
LEMMA PushingStep ==
  ASSUME IInv, NEW w \in Workers, NEW f \in Frame, FrameOK(f), f.moving = {},
         call[w].op = "push",
         \E p \in call[w].moving : db' = LPush(db, call[w].dest, p),
         call' = [call EXCEPT ![w] = f],
         UNCHANGED <<held, published, delivered, acked>>,
         \/ faults' = faults
         \/ faults' = faults + 1 /\ faults' \in 0..MaxFaults
  PROVE  Preserved
<1>1. TypeOK /\ FramesOK /\ Placed /\ OneCopy(db) /\ db \in Lists
  BY SingleCopyParts DEF IInv, FramesOK, Placed, TypeOK, Lists
<1>2. /\ call' \in [Workers -> Frame]
      /\ FramesOK'
      /\ OthersKeep(w)
      /\ MovingBy(w)' = {}
  BY <1>1, NewFrame
<1>3. PICK p \in Payload : call[w].moving = {p}
  BY <1>1 DEF FramesOK, FrameOK
<1>4. MovingBy(w) = {p.id} /\ db' = LPush(db, call[w].dest, p)
  BY <1>3 DEF MovingBy
<1>5. call[w].dest \in Keys
  BY <1>1 DEF TypeOK, Frame
<1>6. p.id \notin AllIds(db)
  <2>1. p.id \in Moving
    BY <1>4 DEF Moving
  <2> QED BY <2>1, <1>1, SingleCopyParts, ListedIsAllIds DEF Placed
<1>7. /\ db' \in Lists
      /\ OneCopy(db')
      /\ AllIds(db') = AllIds(db) \cup {p.id}
  BY <1>1, <1>4, <1>5, <1>6, LPushPlaces
<1>8. Listed' = Listed \cup {p.id}
  BY <1>7 DEF Listed, AllIds
<1>9. Placed' /\ Lost' \subseteq Lost
  BY <1>1, <1>2, <1>4, <1>7, <1>8, PutStep
<1>10. TypeOK'
  BY <1>1, <1>2, <1>7 DEF TypeOK, Lists
<1>11. LoseNothing \/ LoseAtMostOne
  BY <1>9 DEF LoseNothing, LoseAtMostOne
<1> QED BY <1>2, <1>9, <1>10, <1>11 DEF Preserved, IInv, FramesOK

-----------------------------------------------------------------------------
(* Every action is one of these steps. *)

LEMMA ConsumeSteps ==
  ASSUME IInv, NEW w \in Workers
  PROVE  /\ \A n \in 1..MaxBatch : Consume(w, n) => Preserved
         /\ MoveToProcessing(w) => Preserved
         /\ ConsumeTimesOut(w) => Preserved
         /\ ConsumeRaises(w) => Preserved
<1>1. TypeOK /\ call[w] \in Frame /\ FrameOK(call[w]) /\ Idle.op # "push"
  BY DEF IInv, TypeOK, Idle
<1>2. ASSUME NEW n \in 1..MaxBatch, Consume(w, n)
      PROVE  Preserved
  BY <1>1, <1>2, ConsumingFrame, QuietStep DEF Consume, TypeOK
<1>3. ASSUME MoveToProcessing(w)
      PROVE  Preserved
  <2> DEFINE p == Last(db["ready"])
  <2>1. p \in Payload /\ call[w].got \subseteq Payload
    <3>1. db \in Lists /\ db["ready"] # <<>> /\ "ready" \in Keys
      BY <1>1, <1>3 DEF TypeOK, Lists, Keys, MoveToProcessing, TakeReady
    <3> QED BY <1>1, <3>1, PopRight DEF Lists, Frame
  <2>2. CASE Raise(w) /\ UNCHANGED held
    BY <1>1, <1>3, <2>2, IdleFrame, TakeReadyStep DEF MoveToProcessing, Raise, TypeOK
  <2>3. CASE /\ call[w].want > 1
             /\ call' = [call EXCEPT ![w] =
                           Consuming(call[w].want - 1, call[w].got \cup {p})]
             /\ UNCHANGED held
    <3> DEFINE f == Consuming(call[w].want - 1, call[w].got \cup {p})
    <3>1. call[w].want - 1 \in 1..MaxBatch /\ call[w].got \cup {p} \in SUBSET Payload
      BY <1>1, <2>1, <2>3, ConstantsAssumption DEF Frame
    <3>2. f \in Frame /\ FrameOK(f) /\ f.moving = {}
      BY <3>1, ConsumingFrame
    <3> HIDE DEF f
    <3>3. call' = [call EXCEPT ![w] = f]
      BY <2>3 DEF f
    <3> QED BY <1>1, <1>3, <2>3, <3>2, <3>3, TakeReadyStep
            DEF MoveToProcessing, TypeOK
  <2>4. CASE Return(w, call[w].got \cup {p})
    <3>1. held' \in [Workers -> SUBSET Payload]
      BY <1>1, <2>1, <2>4 DEF Return, TypeOK
    <3> QED BY <1>1, <1>3, <2>4, <3>1, IdleFrame, TakeReadyStep
            DEF MoveToProcessing, Return
  <2> QED BY <1>3, <2>2, <2>3, <2>4 DEF MoveToProcessing
<1>4. ASSUME ConsumeTimesOut(w)
      PROVE  Preserved
  <2>1. held' \in [Workers -> SUBSET Payload]
    BY <1>1, <1>4 DEF ConsumeTimesOut, Return, TypeOK, Frame
  <2> QED BY <1>4, <2>1, IdleFrame, QuietStep DEF ConsumeTimesOut, Return
<1>5. ASSUME ConsumeRaises(w)
      PROVE  Preserved
  <2>1. faults' = faults + 1 /\ faults' \in 0..MaxFaults
    BY <1>1, <1>5, FaultIsCounted DEF ConsumeRaises
  <2>2. CASE UNCHANGED <<db, delivered>>
    BY <1>1, <1>5, <2>1, <2>2, IdleFrame, QuietStep DEF ConsumeRaises, Raise, TypeOK
  <2>3. CASE TakeReady
    BY <1>1, <1>5, <2>1, <2>3, IdleFrame, TakeReadyStep DEF ConsumeRaises, Raise, TypeOK
  <2> QED BY <1>5, <2>2, <2>3 DEF ConsumeRaises
<1> QED BY <1>2, <1>3, <1>4, <1>5

LEMMA StartMoveStep ==
  ASSUME IInv, NEW w \in Workers, NEW k \in Keys, NEW dest \in Keys,
         NEW p, NEW q \in Payload, q.id = p.id, StartMove(w, k, p, q, dest)
  PROVE  Preserved
<1>1. /\ Pushing(q, dest, <<>>) \in Frame
      /\ FrameOK(Pushing(q, dest, <<>>))
      /\ Pushing(q, dest, <<>>).moving = {q}
  <2>1. <<>> \in Seq(Payload)
    OBVIOUS
  <2> QED BY <2>1, PushingFrame
<1>2. call[w].op # "push"
  BY DEF StartMove, Idle
<1> QED BY <1>1, <1>2, RemovalStep DEF StartMove

LEMMA HandleSteps ==
  ASSUME IInv, NEW w \in Workers, NEW p \in held[w]
  PROVE  /\ Ack(w, p) => Preserved
         /\ Retry(w, p) => Preserved
         /\ RequeueDead(w, p) => Preserved
         /\ \A requeue \in BOOLEAN : Nack(w, p, requeue) => Preserved
         /\ \A k \in {"processing", "dead"} : RemovalReplyLost(w, k, p) => Preserved
<1>1. /\ TypeOK
      /\ p \in Payload
      /\ Idle.op # "push"
      /\ "ready" \in Keys /\ "processing" \in Keys /\ "dead" \in Keys
  BY DEF IInv, TypeOK, Idle, Keys
<1>2. ASSUME Ack(w, p) PROVE Preserved
  <2>1. call[w] = Idle /\ call' = [call EXCEPT ![w] = Idle]
    BY <1>1, <1>2 DEF Ack, TypeOK
  <2> QED BY <1>1, <1>2, <2>1, IdleFrame, RemovalStep DEF Ack
<1>3. ASSUME Retry(w, p) PROVE Preserved
  <2>1. CASE Exhausted(p)
    BY <1>1, <1>3, <2>1, StartMoveStep DEF Retry
  <2>2. CASE ~Exhausted(p)
    <3>1. WithAttempt(p) \in Payload /\ WithAttempt(p).id = p.id
      BY <1>1, <2>2, ConstantsAssumption DEF Exhausted, WithAttempt, Payload
    <3> QED BY <1>1, <1>3, <2>2, <3>1, StartMoveStep DEF Retry
  <2> QED BY <2>1, <2>2
<1>4. ASSUME RequeueDead(w, p) PROVE Preserved
  BY <1>1, <1>4, StartMoveStep DEF RequeueDead
<1>5. ASSUME NEW requeue \in BOOLEAN, Nack(w, p, requeue) PROVE Preserved
  BY <1>1, <1>5, StartMoveStep DEF Nack
<1>6. ASSUME NEW k \in {"processing", "dead"}, RemovalReplyLost(w, k, p)
      PROVE  Preserved
  <2>1. call[w] = Idle /\ call' = [call EXCEPT ![w] = Idle]
    BY <1>1, <1>6 DEF RemovalReplyLost, TypeOK
  <2>2. faults' = faults + 1 /\ faults' \in 0..MaxFaults
    BY <1>1, <1>6, FaultIsCounted DEF RemovalReplyLost
  <2>3. k \in Keys
    BY DEF Keys
  <2> QED BY <1>1, <1>6, <2>1, <2>2, <2>3, IdleFrame, RemovalStep DEF RemovalReplyLost
<1> QED BY <1>2, <1>3, <1>4, <1>5, <1>6

LEMMA PushSteps ==
  ASSUME IInv, NEW w \in Workers
  PROVE  /\ Push(w) => Preserved
         /\ PushRaises(w) => Preserved
<1>1. TypeOK /\ call[w].todo \in Seq(Payload)
  BY DEF IInv, TypeOK, Frame
<1>2. ASSUME Push(w) PROVE Preserved
  BY <1>1, <1>2, RecoveringFrame, PushingStep DEF Push
<1>3. ASSUME PushRaises(w) PROVE Preserved
  <2>1. faults' = faults + 1 /\ faults' \in 0..MaxFaults
    BY <1>1, <1>3, FaultIsCounted DEF PushRaises
  <2>2. CASE UNCHANGED db
    BY <1>1, <1>3, <2>1, <2>2, IdleFrame, QuietStep DEF PushRaises, Raise, TypeOK
  <2>3. CASE \E p \in call[w].moving : db' = LPush(db, call[w].dest, p)
    BY <1>1, <1>3, <2>1, <2>3, IdleFrame, PushingStep DEF PushRaises, Raise
  <2> QED BY <1>3, <2>2, <2>3 DEF PushRaises
<1> QED BY <1>2, <1>3

LEMMA RecoverSteps ==
  ASSUME IInv, NEW w \in Workers
  PROVE  /\ DeadLetters(w) => Preserved
         /\ RecoverStale(w) => Preserved
         /\ RecoverNext(w) => Preserved
         /\ RecoverRaises(w) => Preserved
         /\ Crash(w) => Preserved
<1>1. /\ TypeOK /\ call[w] \in Frame /\ FrameOK(call[w]) /\ Idle.op # "push"
      /\ "processing" \in Keys /\ "dead" \in Keys /\ "ready" \in Keys
  BY DEF IInv, TypeOK, Idle, Keys
<1>2. ASSUME DeadLetters(w) PROVE Preserved
  <2>1. call[w] = Idle /\ call' = [call EXCEPT ![w] = Idle]
    BY <1>1, <1>2 DEF DeadLetters, TypeOK
  <2>2. {Snapshot("dead")[i] : i \in DOMAIN Snapshot("dead")} \subseteq Payload
    <3> DEFINE s == Snapshot("dead")
    <3>1. s \in Seq(Payload)
      BY <1>1, SnapshotType
    <3> HIDE DEF s
    <3>2. \A i \in DOMAIN s : s[i] \in Payload
      BY <3>1
    <3> QED BY <3>2 DEF s
  <2>3. held' \in [Workers -> SUBSET Payload]
    BY <1>1, <1>2, <2>2 DEF DeadLetters, TypeOK
  <2> QED BY <1>1, <1>2, <2>1, <2>3, IdleFrame, QuietStep DEF DeadLetters
<1>3. ASSUME RecoverStale(w) PROVE Preserved
  <2>1. Snapshot("processing") \in Seq(Payload)
    BY <1>1, SnapshotType
  <2> QED BY <1>1, <1>3, <2>1, RecoveringFrame, QuietStep DEF RecoverStale, TypeOK
<1>4. ASSUME RecoverNext(w) PROVE Preserved
  <2> DEFINE p    == Head(call[w].todo)
             rest == Tail(call[w].todo)
  <2>1. /\ call[w].op = "recover"
        /\ p \in Payload
        /\ rest \in Seq(Payload)
    BY <1>1, <1>4 DEF RecoverNext, FrameOK, Frame
  <2>2. CASE Raise(w) /\ UNCHANGED db
    BY <1>1, <1>4, <2>1, <2>2, IdleFrame, QuietStep DEF RecoverNext, Raise, TypeOK
  <2>3. CASE call' = [call EXCEPT ![w] = Recovering(rest)] /\ UNCHANGED db
    <3> HIDE DEF rest
    <3> QED BY <1>1, <1>4, <2>1, <2>3, RecoveringFrame, QuietStep DEF RecoverNext, TypeOK
  <2>4. CASE /\ Removes("processing", p)
             /\ db' = LRem(db, "processing", p)
             /\ call' = [call EXCEPT ![w] = Pushing(p, "ready", rest)]
    <3>1. UNCHANGED <<held, published, delivered, acked, faults>>
      BY <1>4 DEF RecoverNext
    <3> HIDE DEF p, rest
    <3>2. /\ Pushing(p, "ready", rest) \in Frame
          /\ FrameOK(Pushing(p, "ready", rest))
          /\ Pushing(p, "ready", rest).moving = {p}
      BY <1>1, <2>1, PushingFrame
    <3> QED BY <1>1, <2>1, <2>4, <3>1, <3>2, RemovalStep
  <2> QED BY <1>4, <2>2, <2>3, <2>4 DEF RecoverNext
<1>5. ASSUME RecoverRaises(w) PROVE Preserved
  <2> DEFINE p == Head(call[w].todo)
  <2>1. faults' = faults + 1 /\ faults' \in 0..MaxFaults
    BY <1>1, <1>5, FaultIsCounted DEF RecoverRaises
  <2>2. CASE UNCHANGED db
    BY <1>1, <1>5, <2>1, <2>2, IdleFrame, QuietStep DEF RecoverRaises, Raise, TypeOK
  <2>3. CASE Removes("processing", p) /\ db' = LRem(db, "processing", p)
    BY <1>1, <1>5, <2>1, <2>3, IdleFrame, RemovalStep DEF RecoverRaises, Raise
  <2> QED BY <1>5, <2>2, <2>3 DEF RecoverRaises
<1>6. ASSUME Crash(w) PROVE Preserved
  <2>1. faults' = faults + 1 /\ faults' \in 0..MaxFaults
    BY <1>1, <1>6, FaultIsCounted DEF Crash
  <2>2. held' \in [Workers -> SUBSET Payload]
    BY <1>1, <1>6 DEF Crash, TypeOK
  <2> QED BY <1>6, <2>1, <2>2, IdleFrame, QuietStep DEF Crash
<1> QED BY <1>2, <1>3, <1>4, <1>5, <1>6

-----------------------------------------------------------------------------
(* The theorems. *)

\* Every step preserves the inductive invariant and loses nothing, or is a
\* fault and loses at most one message.
LEMMA StepPreserves ==
  ASSUME IInv, [Next]_vars
  PROVE  Preserved
<1>1. ASSUME NEW id \in Ids, Publish(id)
      PROVE  Preserved
  BY <1>1, PublishStep
<1>2. ASSUME NEW w \in Workers, Step(w)
      PROVE  Preserved
  BY <1>2, ConsumeSteps, PushSteps, RecoverSteps DEF Step
<1>3. ASSUME NEW w \in Workers, NEW n \in 1..MaxBatch, Consume(w, n)
      PROVE  Preserved
  BY <1>3, ConsumeSteps
<1>4. ASSUME NEW w \in Workers, NEW p \in held[w],
             \/ Ack(w, p) \/ Retry(w, p) \/ RequeueDead(w, p)
             \/ \E requeue \in BOOLEAN : Nack(w, p, requeue)
             \/ \E k \in {"processing", "dead"} : RemovalReplyLost(w, k, p)
      PROVE  Preserved
  BY <1>4, HandleSteps
<1>5. ASSUME NEW w \in Workers,
             \/ DeadLetters(w) \/ RecoverStale(w) \/ RecoverRaises(w) \/ Crash(w)
             \/ ConsumeRaises(w) \/ PushRaises(w)
      PROVE  Preserved
  BY <1>5, ConsumeSteps, PushSteps, RecoverSteps
<1>6. CASE UNCHANGED vars
  <2>1. Lost' = Lost
    BY <1>6 DEF vars, Lost, Listed, Moving, MovingBy
  <2>2. TypeOK' /\ FramesOK'
    BY <1>6 DEF vars, IInv, TypeOK, FramesOK
  <2>3. Placed'
    BY <1>6 DEF vars, IInv, Placed, SingleCopy, AckedGone, Traced, Listed, Moving, MovingBy
  <2> QED BY <1>6, <2>1, <2>2, <2>3
          DEF vars, Preserved, LoseNothing, IInv, FramesOK
<1> QED BY <1>1, <1>2, <1>3, <1>4, <1>5, <1>6 DEF Next, WorkerNext

LEMMA InductiveInvariant == Spec => []IInv
<1>1. Init => IInv
  BY InitPlaces
<1>2. IInv /\ [Next]_vars => IInv'
  BY StepPreserves DEF Preserved
<1> QED BY <1>1, <1>2, PTL DEF Spec

\* Type correctness: in particular retry's budget, for any MaxRetries.
THEOREM TypeCorrect == Spec => []TypeOK
<1>1. IInv => TypeOK
  BY DEF IInv
<1> QED BY <1>1, InductiveInvariant, PTL

\* No message is ever duplicated, for any number of workers that recover,
\* nack, retry, requeue and crash at any point.
THEOREM MessagesAreUnique == Spec => []SingleCopy
<1>1. IInv => SingleCopy
  BY DEF IInv, Placed
<1> QED BY <1>1, InductiveInvariant, PTL

\* No acknowledged message is ever listed or pushed again.
THEOREM AcknowledgedStaysGone == Spec => []AckedGone
<1>1. IInv => AckedGone
  BY DEF IInv, Placed
<1> QED BY <1>1, InductiveInvariant, PTL

\* The number of lost messages never exceeds the number of faults.
THEOREM LossIsBounded == Spec => []LossPerFault
<1> DEFINE LInv == IInv /\ IsFiniteSet(Lost) /\ LossPerFault
<1>1. Init => LInv
  <2>1. ASSUME Init PROVE LInv
    <3>1. IInv /\ Lost = {} /\ faults = 0
      BY <2>1, InitPlaces DEF Init
    <3>2. IsFiniteSet(Lost) /\ Cardinality(Lost) = 0
      BY <3>1, FS_EmptySet
    <3> QED BY <3>1, <3>2 DEF LossPerFault
  <2> QED BY <2>1
<1>2. LInv /\ [Next]_vars => LInv'
  <2> SUFFICES ASSUME LInv, [Next]_vars
               PROVE  LInv'
    OBVIOUS
  <2>1. Preserved
    BY StepPreserves
  <2>2. /\ Cardinality(Lost) \in Nat
        /\ faults \in Nat
        /\ Cardinality(Lost) <= faults
    BY FS_CardinalityType DEF LossPerFault, IInv, TypeOK
  <2>3. CASE LoseNothing
    <3>1. IsFiniteSet(Lost') /\ Cardinality(Lost') <= Cardinality(Lost)
      BY <2>3, FS_Subset DEF LoseNothing
    <3>2. Cardinality(Lost') \in Nat /\ faults' = faults
      BY <2>3, <3>1, FS_CardinalityType DEF LoseNothing
    <3> QED BY <2>1, <2>2, <3>1, <3>2 DEF Preserved, LossPerFault
  <2>4. CASE LoseAtMostOne
    <3>1. PICK x : Lost' \subseteq Lost \cup {x} /\ faults' = faults + 1
      BY <2>4 DEF LoseAtMostOne
    <3>2. /\ IsFiniteSet(Lost \cup {x})
          /\ Cardinality(Lost \cup {x}) \in Nat
          /\ Cardinality(Lost \cup {x}) <= Cardinality(Lost) + 1
      BY <2>2, FS_AddElement, FS_CardinalityType
    <3>3. IsFiniteSet(Lost') /\ Cardinality(Lost') <= Cardinality(Lost \cup {x})
      BY <3>1, <3>2, FS_Subset
    <3>4. Cardinality(Lost') \in Nat
      BY <3>3, FS_CardinalityType
    <3> QED BY <2>1, <2>2, <3>1, <3>2, <3>3, <3>4 DEF Preserved, LossPerFault
  <2> QED BY <2>1, <2>3, <2>4 DEF Preserved
<1>3. LInv => LossPerFault
  OBVIOUS
<1> QED BY <1>1, <1>2, <1>3, PTL DEF Spec

\* Without faults no interleaving of the calls loses a message.
THEOREM NothingIsLostWithoutFaults ==
  ASSUME FaultKinds = {}
  PROVE  Spec => []NoLoss
<1> DEFINE LInv == IInv /\ Lost = {} /\ faults = 0
<1>1. Init => LInv
  BY InitPlaces DEF Init
<1>2. LInv /\ [Next]_vars => LInv'
  <2> SUFFICES ASSUME LInv, [Next]_vars
               PROVE  LInv'
    OBVIOUS
  <2>1. Preserved
    BY StepPreserves
  <2>2. faults' = faults
    BY DEF Next, WorkerNext, vars, Publish, Consume, Step, MoveToProcessing, ConsumeTimesOut,
           Push, RecoverNext, Ack, Retry, RequeueDead, Nack, StartMove,
           DeadLetters, RecoverStale, ConsumeRaises, RemovalReplyLost,
           PushRaises, RecoverRaises, Crash, Fault
  <2>3. LoseNothing
    BY <2>1, <2>2 DEF Preserved, LoseAtMostOne
  <2> QED BY <2>1, <2>3 DEF Preserved, LoseNothing
<1>3. LInv => NoLoss
  BY DEF NoLoss
<1> QED BY <1>1, <1>2, <1>3, PTL DEF Spec
=============================================================================
