----------------------------- MODULE LockedPool -----------------------------
(***************************************************************************)
(* What the group iterators promise together: a pool of items, each in     *)
(* one tracker.  A worker gets an item only while nobody has it, in one    *)
(* step; an item is taken back only while somebody has it, by the one      *)
(* worker that has its tracker locked; and a lock is had by one worker at  *)
(* a time, taken when nobody has it and given back by the one who has it.  *)
(* Orders, ranges, cursors and the steps of a search are hidden.           *)
(***************************************************************************)
CONSTANTS Worker, Tracker, Item

VARIABLES
  out,   \* the items handed out
  held   \* held[w]: the trackers that w has locked

pvars == <<out, held>>

TrackerOf(p) == p[1]

Init == out = {} /\ held = [w \in Worker |-> {}]

Unlocked == Tracker \ UNION {held[w] : w \in Worker}

Take(w) ==
  /\ UNCHANGED out
  /\ \E t \in Unlocked : held' = [held EXCEPT ![w] = @ \union {t}]

Give(w) ==
  /\ UNCHANGED out
  /\ \E t \in held[w] : held' = [held EXCEPT ![w] = @ \ {t}]

HandOut(w) ==
  /\ UNCHANGED held
  /\ \E p \in Item \ out : out' = out \union {p}
  /\ held[w] = {}

TakeBack(w) ==
  /\ UNCHANGED held
  /\ \E p \in out : out' = out \ {p} /\ TrackerOf(p) \in held[w]

Next == \E w \in Worker : Take(w) \/ Give(w) \/ HandOut(w) \/ TakeBack(w)

Spec == Init /\ [][Next]_pvars
=============================================================================
