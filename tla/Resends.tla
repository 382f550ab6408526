------------------------------- MODULE Resends -------------------------------
(***************************************************************************)
(* OrderMatching with the Redis client's autoResendUnfulfilledCommands: a  *)
(* connection that breaks after Redis has run a command and before its     *)
(* reply arrives.  The client connects again and sends the command again,  *)
(* and the handler goes on with the second reply.  In between, handlers of *)
(* other instances go on.                                                  *)
(*                                                                         *)
(* A read that is sent twice is a read that was slow.  The MULTI of        *)
(* storeTrade writes the same hash, the same member and the same score     *)
(* again, which changes nothing, as nobody else writes them.  HSET, ZADD   *)
(* and ZREM on orders and books are what is left.                          *)
(***************************************************************************)
EXTENDS OrderMatchingProperties

\* What HSET writes: the new order, or the copy as changed.
HashToSave(h) == IF pc[h] = "saveOrder" THEN placed[call[h].subject] ELSE call[h].read

HashKey(h) == IF pc[h] = "saveOrder" THEN call[h].subject ELSE Target(h)

\* Redis has run the command of h; h does not know, and will send it again.
LoseReply(h) ==
  /\ faults < MaxFaults
  /\ faults' = faults + 1
  /\ \/ /\ pc[h] \in {"saveOrder", "saveStatus", "saveUpdate"}
        /\ order' = [order EXCEPT ![HashKey(h)] = HashToSave(h)]
        /\ UNCHANGED <<book, listed>>
     \/ LET o == call[h].subject
            side == placed[o].side
        IN  /\ pc[h] = "addToBook"
            /\ book' = [book EXCEPT ![side] = ZAdd(@, o, ScoreOf(side, call[h].price))]
            /\ listed' = listed \cup {o}
            /\ UNCHANGED order
     \/ /\ pc[h] = "removeOrder"
        /\ book' = [book EXCEPT ![call[h].read.side] = ZRem(@, Target(h))]
        /\ UNCHANGED <<order, listed>>
  /\ UNCHANGED <<trades, placed, told, pc, call>>

ResendNext == Next \/ \E h \in Handlers : LoseReply(h)

ResendSpec == Init /\ [][ResendNext]_vars
-----------------------------------------------------------------------------
\* An order that left the book comes back only while its own ZADD is still
\* unanswered: a match, a cancel or a fill that takes it out, sent twice or not,
\* and copies of it written back twice, never put it in again.
RelistedByCreatorOnly ==
  [][\A o \in listed : ~InBook(o) /\ InBook(o)' =>
       \E h \in Handlers : pc[h] = "addToBook" /\ call[h].subject = o]_vars

\* 'There should be the Order!' is thrown for no order: whatever is sent twice, an
\* order in the book has a hash, on the side of the book it is ranked in.
RankedOrdersExist ==
  \A s \in Sides : \A o \in Members(book[s]) : order[o] # NoOrder /\ order[o].side = s
=============================================================================
