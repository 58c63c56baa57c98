----------------------------- MODULE TalliedSet -----------------------------
(***************************************************************************)
(* What AtomicBitmap promises its callers: a set whose elements come and   *)
(* go in steps each attributed to exactly one thread, which is the only    *)
(* one told of the change, and a count that follows when that thread pays  *)
(* what it owes.  Words, loads, exchanges and scans are hidden.            *)
(***************************************************************************)
EXTENDS Integers, FiniteSets

CONSTANTS Thread, Element

VARIABLES
  members,   \* the elements of the set
  count,     \* the number reported for it
  gained,    \* gained[t]: elements t has added and not accounted for
  lost       \* lost[t]: elements t has removed and not accounted for

avars == <<members, count, gained, lost>>

Init ==
  /\ members = {} /\ count = 0
  /\ gained = [t \in Thread |-> {}]
  /\ lost = [t \in Thread |-> {}]

Gain(t) ==
  /\ lost[t] = {}
  /\ \E S \in SUBSET (Element \ members) :
       /\ members' = members \union S
       /\ gained' = [gained EXCEPT ![t] = @ \union S]
       /\ \A i \in S : i \notin gained[t]
  /\ UNCHANGED <<count, lost>>

Lose(t) ==
  /\ gained[t] = {}
  /\ \E S \in SUBSET members :
       /\ members' = members \ S
       /\ lost' = [lost EXCEPT ![t] = @ \union S]
       /\ \A i \in S : i \notin lost[t]
  /\ UNCHANGED <<count, gained>>

Pay(t) ==
  /\ count' = count + Cardinality(gained[t]) - Cardinality(lost[t])
  /\ gained' = [gained EXCEPT ![t] = {}]
  /\ lost' = [lost EXCEPT ![t] = {}]
  /\ UNCHANGED members

Empty ==
  /\ \A t \in Thread : gained[t] = {} /\ lost[t] = {}
  /\ members' = {} /\ count' = 0
  /\ UNCHANGED <<gained, lost>>

Next == (\E t \in Thread : Gain(t) \/ Lose(t) \/ Pay(t)) \/ Empty

Spec == Init /\ [][Next]_avars
=============================================================================
