------------------------- MODULE LocalSlaveLifecycle -------------------------
(***************************************************************************)
(* relaunch's join on its local slaves (src/service/setup_config.go, the   *)
(* current-record branch) and startLocalSlaves' WaitGroup bookkeeping      *)
(* (src/service/local_slaves.go).  The master walks the persisted peer     *)
(* list, skipping itself; each slave whose NewService succeeds is counted  *)
(* with wg.Add(1) and runs slaveService.Run(s.ctx) in a goroutine that     *)
(* calls wg.Done when Run returns.  relaunch then blocks in startRunning   *)
(* until s.ctx is cancelled (shutdown request or interrupt), and in        *)
(* wg.Wait until every counted slave has returned.                         *)
(*                                                                         *)
(* startRunning, Run and the cancellation come from outside src/: Run      *)
(* returns once the shared context is cancelled, or earlier on its own     *)
(* failure; startRunning returns once the context is cancelled.            *)
(***************************************************************************)
EXTENDS Naturals

CONSTANT NumPeers   \* length of the persisted registry, the master first

ASSUME NumPeers \in Nat \ {0}

Positions == 1..NumPeers
Self == 1                     \* the registry lists its master first
SlavePositions == Positions \ {Self}

VARIABLES
  sls,        \* cfg.StartLocalSlaves of the record relaunch read
  mpc,        \* where relaunch is
  k,          \* startLocalSlaves' loop position
  slave,      \* slave[p]: goroutine of the slave of peer p
  wg,         \* the WaitGroup counter
  cancelled   \* s.ctx is cancelled

vars == <<sls, mpc, k, slave, wg, cancelled>>

Init ==
  /\ sls \in BOOLEAN
  /\ mpc = "relaunch"
  /\ k = 1
  /\ slave = [p \in SlavePositions |-> "none"]
  /\ wg = 0
  /\ cancelled = FALSE

\* startHTTPServer, then startLocalSlaves if the record asks for it.
RelaunchStart ==
  /\ mpc = "relaunch"
  /\ mpc' = IF sls THEN "slaves" ELSE "running"
  /\ UNCHANGED <<sls, k, slave, wg, cancelled>>

\* Mutant: wg.Add(1) before the NewService error check.
StartLocalSlavesIterAddEarly ==
  /\ mpc = "slaves"
  /\ k \in Positions
  /\ k' = k + 1
  /\ \/ /\ k = Self
        /\ UNCHANGED <<slave, wg>>
     \/ /\ k # Self
        /\ wg' = wg + 1
        /\ \/ UNCHANGED slave
           \/ slave' = [slave EXCEPT ![k] = "running"]
  /\ UNCHANGED <<sls, mpc, cancelled>>

\* One iteration of startLocalSlaves: skip the master itself; a failed
\* NewService is logged and skipped; otherwise wg.Add(1) and go Run.
StartLocalSlavesIter ==
  /\ mpc = "slaves"
  /\ k \in Positions
  /\ k' = k + 1
  /\ \/ /\ k = Self
        /\ UNCHANGED <<slave, wg>>
     \/ /\ k # Self
        /\ UNCHANGED <<slave, wg>>
     \/ /\ k # Self
        /\ wg' = wg + 1
        /\ slave' = [slave EXCEPT ![k] = "running"]
  /\ UNCHANGED <<sls, mpc, cancelled>>

\* The loop has gone through every peer; relaunch calls startRunning.
StartLocalSlavesDone ==
  /\ mpc = "slaves"
  /\ k = NumPeers + 1
  /\ mpc' = "running"
  /\ UNCHANGED <<sls, k, slave, wg, cancelled>>

\* startRunning returns once the context is cancelled.
StartRunning ==
  /\ mpc = "running"
  /\ cancelled
  /\ mpc' = "waiting"
  /\ UNCHANGED <<sls, k, slave, wg, cancelled>>

\* Mutant: relaunch returns without wg.Wait.
WaitGroupWaitSkipped ==
  /\ mpc = "waiting"
  /\ mpc' = "returned"
  /\ UNCHANGED <<sls, k, slave, wg, cancelled>>

\* wg.Wait, then return true.
WaitGroupWait ==
  /\ mpc = "waiting"
  /\ wg = 0
  /\ mpc' = "returned"
  /\ UNCHANGED <<sls, k, slave, wg, cancelled>>

\* Mutant: wg.Done both deferred and called after Run.
SlaveRunReturnsDoubleDone(p) ==
  /\ slave[p] = "running"
  /\ cancelled
  /\ slave' = [slave EXCEPT ![p] = "exited"]
  /\ wg' = wg - 2
  /\ UNCHANGED <<sls, mpc, k, cancelled>>

\* Run(s.ctx) returns after the cancellation; the deferred wg.Done runs.
SlaveRunReturns(p) ==
  /\ slave[p] = "running"
  /\ cancelled
  /\ slave' = [slave EXCEPT ![p] = "exited"]
  /\ wg' = wg - 1
  /\ UNCHANGED <<sls, mpc, k, cancelled>>

\* Run fails on its own before any cancellation; wg.Done runs as well.
SlaveRunFails(p) ==
  /\ slave[p] = "running"
  /\ ~cancelled
  /\ slave' = [slave EXCEPT ![p] = "exited"]
  /\ wg' = wg - 1
  /\ UNCHANGED <<sls, mpc, k, cancelled>>

\* A shutdown request or an interrupt cancels s.ctx, at any time.
Cancel ==
  /\ ~cancelled
  /\ cancelled' = TRUE
  /\ UNCHANGED <<sls, mpc, k, slave, wg>>

Next ==
  \/ RelaunchStart
  \/ StartLocalSlavesIter
  \/ StartLocalSlavesDone
  \/ StartRunning
  \/ WaitGroupWait
  \/ \E p \in SlavePositions : SlaveRunReturns(p) \/ SlaveRunFails(p)
  \/ Cancel

\* The master's own steps are local computation or return once the context
\* is cancelled; a slave's Run returns in bounded time after cancellation.
\* Neither cancellation nor a slave's own failure is assumed to happen.
Fairness ==
  /\ WF_vars(RelaunchStart)
  /\ WF_vars(StartLocalSlavesIter)
  /\ WF_vars(StartLocalSlavesDone)
  /\ WF_vars(StartRunning)
  /\ WF_vars(WaitGroupWait)
  /\ \A p \in SlavePositions : WF_vars(SlaveRunReturns(p))

Spec == Init /\ [][Next]_vars /\ Fairness

-----------------------------------------------------------------------------
TypeOK ==
  /\ sls \in BOOLEAN
  /\ mpc \in {"relaunch", "slaves", "running", "waiting", "returned"}
  /\ k \in 1..(NumPeers + 1)
  /\ slave \in [SlavePositions -> {"none", "running", "exited"}]
  /\ wg \in 0..(NumPeers - 1)
  /\ cancelled \in BOOLEAN


\* Once the context is cancelled, relaunch returns: the WaitGroup counts
\* exactly the goroutines that will call wg.Done, so wg.Wait cannot hang
\* on a slave whose NewService failed.
RelaunchReturns == cancelled ~> (mpc = "returned")
-----------------------------------------------------------------------------
(* Refinement: relaunch and its slave goroutines behave as SlaveJoin says. *)
(* Until startLocalSlaves' loop is done the master is launching; it joins  *)
(* when relaunch returns.                                                  *)

Barrier == INSTANCE SlaveJoin WITH
  Slaves  <- SlavePositions,
  phase   <- CASE mpc \in {"relaunch", "slaves"} -> "launching"
               [] mpc \in {"running", "waiting"}  -> "serving"
               [] mpc = "returned"                -> "joined",
  started <- {p \in SlavePositions : slave[p] # "none"},
  live    <- {p \in SlavePositions : slave[p] = "running"}

\* relaunch starts each slave goroutine at most once, only from
\* startLocalSlaves' loop, and returns only after every goroutine it
\* started has returned from Run, however starts, failures and the
\* cancellation interleave: the WaitGroup counter, raised per started
\* slave and lowered by each deferred wg.Done, is zero exactly when no
\* slave is live.
JoinRefines == Barrier!Spec
=============================================================================
