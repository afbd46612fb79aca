----------------------------- MODULE SlaveJoin -----------------------------
(***************************************************************************)
(* What a master promises about its local slaves, seen from outside: it    *)
(* launches each slave at most once, only before it starts serving, and    *)
(* its join returns only when none of the slaves it launched is still      *)
(* live ("synchronized only at join points, a wait-group-style barrier";   *)
(* "a slave never outlives control transferred from its parent's shutdown  *)
(* path").  A slave may exit at any time.                                  *)
(***************************************************************************)
CONSTANT Slaves   \* the slave peers the master may launch

VARIABLES
  phase,     \* "launching", "serving" or "joined"
  started,   \* slaves launched so far
  live       \* launched slaves that have not exited

Init ==
  /\ phase = "launching"
  /\ started = {}
  /\ live = {}

Launch(p) ==
  /\ phase = "launching"
  /\ p \notin started
  /\ started' = started \cup {p}
  /\ live' = live \cup {p}
  /\ UNCHANGED phase

Serve ==
  /\ phase = "launching"
  /\ phase' = "serving"
  /\ UNCHANGED <<started, live>>

Exit(p) ==
  /\ p \in live
  /\ live' = live \ {p}
  /\ UNCHANGED <<phase, started>>

Join ==
  /\ phase = "serving"
  /\ live = {}
  /\ phase' = "joined"
  /\ UNCHANGED <<started, live>>

Next ==
  \/ \E p \in Slaves : Launch(p) \/ Exit(p)
  \/ Serve
  \/ Join

Spec == Init /\ [][Next]_<<phase, started, live>>
=============================================================================
