---------------------------- MODULE MCController ----------------------------
(***************************************************************************)
(* Controller with three nodes, two of which have the same tag, and three  *)
(* records of users: a with two different limits, and b.                   *)
(***************************************************************************)
EXTENDS Controller

MCNode == {"n1", "n1b", "n2"}

MCTagOf == [n \in MCNode |-> IF n = "n2" THEN "t2" ELSE "t1"]

MCUser == {"a1", "a2", "b"}

MCUidOf == [u \in MCUser |-> IF u = "b" THEN 2 ELSE 1]

MCLists == {{}, {"a1"}, {"a1", "b"}, {"a2", "b"}}

\* For traffic: two nodes, one without a port, and one user with two limits.
TrafficNode == {"n0", "n1", "n2"}

TrafficTagOf == [n \in TrafficNode |-> IF n = "n2" THEN "t2" ELSE "t1"]

TrafficUser == {"a1", "a2"}

TrafficUidOf == [u \in TrafficUser |-> 1]

TrafficLists == {{}, {"a1"}, {"a2"}}

=============================================================================
