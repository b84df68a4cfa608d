------------------------------ MODULE MCReplay ------------------------------
(* Four events of one node, two of them of one time, and one of another.   *)
EXTENDS Replay, TLC

Event(id, ts, node, type, pod, lat) ==
  [id |-> id, ts |-> ts, node |-> node, type |-> type, pod |-> pod, lat |-> lat]

MCEvents == {Event(1, 3, "n", "syscall", "p", 1), Event(2, 2, "n", "syscall", "p", 2),
             Event(3, 3, "n", "network", "p", 2), Event(4, 4, "n", "syscall", "q", 2),
             Event(5, 3, "m", "syscall", "p", 2)}

MCQueries ==
  [node : {"n"}, from : {2, Absent}, to : {3, Absent}, type : {"syscall", Absent},
   pod : {"p", Absent}, lat : {0, 2}, size : {0, 1}]
=============================================================================
