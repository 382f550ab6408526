----------------------- MODULE OrderMatchingRefinement -----------------------
(***************************************************************************)
(* OrderMatching implements OrderLife however handlers interleave and fail *)
(* (OrderMatchingSerial shows what it implements when they do not).        *)
(***************************************************************************)
EXTENDS OrderMatchingInvariant

\* The command that changes the book decides: an order rests from its ZADD to its
\* ZREM, whatever its hash says before and after.  An order that never rests is
\* gone when its client is told.
Phase(o) ==
  IF placed[o] = NoOrder THEN "unknown"
  ELSE IF InBook(o) THEN "resting"
  ELSE IF o \in listed \/ [event |-> "orderFilled", orderId |-> o] \in told THEN "gone"
  ELSE "placed"

LifeOf == [o \in Orders |-> Phase(o)]

Life == INSTANCE OrderLife WITH life <- LifeOf

\* Each order lives through its phases in order, once, and no acknowledgement is
\* ahead of them: handlers that hold old copies of an order can neither bring it
\* back nor answer for what they did not do.
ImplementsOrderLife == Life!Spec
=============================================================================
