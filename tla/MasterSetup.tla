---------------------------- MODULE MasterSetup ----------------------------
(***************************************************************************)
(* What the master's setup.json promises, seen from outside: it is either  *)
(* not usable (no record, rid = NoID), or it names a cluster founded by a  *)
(* master ID that never founded one before, with a registry that starts    *)
(* with the master and only ever grows by appending a peer with a new ID   *)
(* and a new data directory, up to the agency size the cluster was founded *)
(* with, which never changes.  Nothing else changes the committed record:  *)
(* restarts re-read it and saves rewrite it as is.                         *)
(***************************************************************************)
EXTENDS Naturals, Sequences

CONSTANTS
  Sizes,       \* agency sizes a cluster may be founded with
  NoSize,      \* agency size of no cluster
  IDs,         \* the IDs createUniqueID can return
  NoID,        \* no usable record
  Dirs,        \* data directories
  Root         \* the master's data directory

VARIABLES
  rid,        \* ID of the master in the committed record, or NoID
  rpeers,     \* committed registry
  rsize,      \* its agency size
  founders    \* IDs that have founded a cluster in this data directory

PeerRec == [id : IDs, dir : Dirs]

IdSet(s) == {s[k].id : k \in DOMAIN s}
DirSet(s) == {s[k].dir : k \in DOMAIN s}

Init ==
  /\ rid = NoID
  /\ rpeers = <<>>
  /\ rsize = NoSize
  /\ founders = {}

\* A fresh start, only where no usable record exists, commits a registry of
\* the master alone under a new ID, for a cluster of n peers.
Found(id, n) ==
  /\ rid = NoID
  /\ id \notin founders
  /\ rid' = id
  /\ rpeers' = <<[id |-> id, dir |-> Root]>>
  /\ rsize' = n
  /\ founders' = founders \cup {id}

\* A peer joins: new ID, new directory, room left in the cluster.
Join(p) ==
  /\ rid # NoID
  /\ Len(rpeers) < rsize
  /\ p.id \notin IdSet(rpeers) \cup founders
  /\ p.dir \notin DirSet(rpeers)
  /\ rpeers' = Append(rpeers, p)
  /\ UNCHANGED <<rid, rsize, founders>>

Next ==
  \/ \E id \in IDs, n \in Sizes : Found(id, n)
  \/ \E p \in PeerRec : Join(p)

Spec == Init /\ [][Next]_<<rid, rpeers, rsize, founders>>
=============================================================================
