------------------------------ MODULE OrderLife ------------------------------
(***************************************************************************)
(* What the API promises of an order, whatever interleaves or fails: it    *)
(* rests in the book at most once, and its clients hear that it was        *)
(* created when it has rested or traded, and that it is closed when it can *)
(* rest no more.  How orders are stored, found and settled is left open.   *)
(***************************************************************************)
EXTENDS Integers

CONSTANT Orders

VARIABLES
  life,  \* life[o]: "unknown", "placed" by its client, "resting" in the book, or "gone"
  told   \* the acknowledgements about orders

Init == life = [o \in Orders |-> "unknown"] /\ told = {}

Passes(o, from, to) == life[o] = from /\ life' = [life EXCEPT ![o] = to]

Tells(o, events) == told' = told \cup [event : events, orderId : {o}]

Place(o) == Passes(o, "unknown", "placed") /\ UNCHANGED told

Rest(o) == Passes(o, "placed", "resting") /\ UNCHANGED told

Leave(o) == Passes(o, "resting", "gone") /\ UNCHANGED told

\* The order has rested, and may be gone by the time its client hears of it.
TellCreated(o) ==
  /\ life[o] \in {"resting", "gone"}
  /\ Tells(o, {"orderCreated"})
  /\ UNCHANGED life

\* The order never rests: its client is told that it was executed at once.
TellExecuted(o) ==
  /\ Passes(o, "placed", "gone")
  /\ Tells(o, {"orderCreated", "orderFilled"})

TellClosed(o, event) ==
  /\ life[o] = "gone"
  /\ Tells(o, {event})
  /\ UNCHANGED life

Next ==
  \E o \in Orders :
    \/ Place(o) \/ Rest(o) \/ Leave(o)
    \/ TellCreated(o) \/ TellExecuted(o)
    \/ \E event \in {"orderCancelled", "orderFilled"} : TellClosed(o, event)

Spec == Init /\ [][Next]_<<life, told>>
=============================================================================
