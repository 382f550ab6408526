--------------------------- MODULE RedisSortedSet ---------------------------
(***************************************************************************)
(* The part of a Redis sorted set that the order book relies on.  Redis is *)
(* not part of this repository: the operators say what ZADD, ZREM and      *)
(* ZRANGE do, as OrderRepository.js uses them.                             *)
(*                                                                         *)
(* A sorted set is a function from every member that could be in it to the *)
(* member's score, NoScore standing for a member that is not in the set.   *)
(* Redis ranks members by score and, for equal scores, by the bytes of the *)
(* member: members are integers here, and < stands for that byte order.    *)
(***************************************************************************)
EXTENDS Integers

CONSTANT NoScore

ASSUME NoScoreAssumption == NoScore \notin Int

Score == Int \cup {NoScore}

SortedSet(M) == [M -> Score]

EmptySortedSet(M) == [m \in M |-> NoScore]

Members(z) == {m \in DOMAIN z : z[m] # NoScore}

\* ZADD: a member that is already in the set gets the new score.
ZAdd(z, m, score) == [z EXCEPT ![m] = score]

\* ZREM: removing a member that is not in the set is a no-op.
ZRem(z, m) == [z EXCEPT ![m] = NoScore]

RankedBefore(z, m, n) == z[m] < z[n] \/ (z[m] = z[n] /\ m < n)

\* m is what ZRANGE key 0 0 returns.
IsFirst(z, m) ==
  m \in Members(z) /\ \A n \in Members(z) \ {m} : RankedBefore(z, m, n)

\* m is what ZRANGE key 0 0 REV returns.
IsLast(z, m) ==
  m \in Members(z) /\ \A n \in Members(z) \ {m} : RankedBefore(z, n, m)
=============================================================================
