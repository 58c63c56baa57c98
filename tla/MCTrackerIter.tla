---------------------------- MODULE MCTrackerIter ----------------------------
(* Instances of TrackerIter for model checking. *)
EXTENDS TrackerIter, TLC

CONSTANTS r1, r2

Reader == [mode |-> "sequential", filter |-> "Set", lo |-> 0, hi |-> 9, subLo |-> 0, subHi |-> 9,
           limit |-> None, timed |-> FALSE, wrap |-> FALSE, reset |-> FALSE,
           wants |-> {}, passes |-> {TRUE}, part |-> 0, parts |-> 1, overlap |-> FALSE, dist |-> "Uniform"]

Simply(start, b, c) == [hier |-> FALSE, start |-> {<<i, 0>> : i \in start}, build |-> (r1 :> b) @@ (r2 :> c)]
Paired(start, b, c) == [hier |-> TRUE, start |-> start, build |-> (r1 :> b) @@ (r2 :> c)]

Part(b, i, n) == [b EXCEPT !.mode = "partition", !.part = i, !.parts = n]
Deleter == [Reader EXCEPT !.mode = "delete"]
Writer  == [Reader EXCEPT !.mode = "write", !.filter = "Unset", !.hi = 2, !.subHi = 2]
Random  == [Reader EXCEPT !.mode = "random"]
Timed   == [Reader EXCEPT !.timed = TRUE]

SimpleSetups == {
  Simply({0, 2, 3}, Reader, [Reader EXCEPT !.filter = "Unset", !.lo = 1]),
  Simply({0, 2, 3}, Part([Reader EXCEPT !.lo = 1], 0, 2), Part([Reader EXCEPT !.lo = 1], 1, 2)),
  Simply({1}, Part([Reader EXCEPT !.filter = "All", !.limit = 3], 0, 2), Part([Reader EXCEPT !.filter = "All", !.limit = 3], 1, 2)),
  Simply({0, 1}, Part([Reader EXCEPT !.filter = "Unset"], 1, 5), Part([Reader EXCEPT !.overlap = TRUE, !.limit = 1], 3, 5)),
  Simply({0, 1, 3}, Deleter, [Deleter EXCEPT !.lo = 1]),
  Simply({0, 1, 3}, Deleter, [Reader EXCEPT !.filter = "All"]),
  Simply({1, 2}, [Random EXCEPT !.lo = 1], [Random EXCEPT !.filter = "Unset", !.hi = 2, !.limit = 3]),
  Simply({1}, [Random EXCEPT !.filter = "Unset"], [Random EXCEPT !.filter = "Unset", !.lo = 1]),
  Simply({1, 3}, Timed, [Random EXCEPT !.filter = "All", !.timed = TRUE, !.lo = 2]),
  Simply({0, 1}, [Reader EXCEPT !.wrap = TRUE, !.limit = 3, !.lo = 1, !.filter = "Unset"], [Reader EXCEPT !.wants = BOOLEAN, !.limit = 2]),
  Simply({0, 3}, [Random EXCEPT !.dist = "Hotspot", !.lo = 2, !.limit = 1], [Random EXCEPT !.dist = "Latest", !.passes = BOOLEAN, !.lo = 2])}

HierSetups == {
  Paired({<<0, 1>>, <<1, 0>>}, [Reader EXCEPT !.hi = 2], [Writer EXCEPT !.hi = 1]),
  Paired({<<0, 0>>, <<1, 1>>}, Part([Reader EXCEPT !.hi = 2, !.subLo = 1], 0, 2), Part([Reader EXCEPT !.hi = 2, !.subLo = 1], 1, 2)),
  Paired({<<0, 1>>}, [Reader EXCEPT !.filter = "Unset"], [Writer EXCEPT !.hi = 1]),
  Paired({<<0, 1>>}, Writer, [Writer EXCEPT !.reset = TRUE]),
  Paired({}, Writer, [Writer EXCEPT !.filter = "All", !.subHi = 3]),
  Paired({<<0, 1>>, <<1, 1>>}, [Random EXCEPT !.hi = 2], [Random EXCEPT !.hi = 2, !.dist = "Zipf1", !.filter = "All"])}

Multipliers == <<11, 5, 7>>

(* A sequential reader with a duration and no filter. *)
HangSetups == {Simply({0, 1}, [Timed EXCEPT !.filter = "All"], [Timed EXCEPT !.filter = "All", !.wants = BOOLEAN])}

AllSetups == SimpleSetups \union HierSetups
=============================================================================
