----------------------------- MODULE RedisList -----------------------------
(***************************************************************************)
(* The Redis List commands that the List backend issues, as operators on   *)
(* a keyspace db that maps a key to the sequence stored under it (index 1  *)
(* is the LEFT end, a missing key is the empty sequence).  Redis executes  *)
(* one command at a time, so each operator is one atomic step.             *)
(***************************************************************************)
EXTENDS Integers, Sequences, SequencesExt

\* LPUSH key value
LPush(db, key, value) == [db EXCEPT ![key] = <<value>> \o @]

\* LREM key 1 value: its reply is 1 when the value occurs in the list, else 0.
LRemFinds(db, key, value) == \E i \in DOMAIN db[key] : db[key][i] = value

LRem(db, key, value) == [db EXCEPT ![key] = RemoveFirst(@, value)]

\* BLMOVE src dst RIGHT LEFT, and BRPOPLPUSH src dst, of a non-empty src.
LMove(db, src, dst) ==
  [db EXCEPT ![src] = Front(@), ![dst] = <<Last(db[src])>> \o @]

\* LRANGE key 0 stop, for stop >= 0.
LRange(db, key, stop) ==
  SubSeq(db[key], 1, IF stop < Len(db[key]) THEN stop + 1 ELSE Len(db[key]))
=============================================================================
