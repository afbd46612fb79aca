-------------------------- MODULE StarterShutdown --------------------------
(***************************************************************************)
(* A process test of src/test against the starters it spawned, one         *)
(* endpoint per starter: WaitUntilStarterReady (one ExpectTimeout          *)
(* goroutine per starter), testSingle's queries against the first          *)
(* endpoint, and then either ShutdownStarter on every endpoint in turn     *)
(* (POST shutdown, then WaitUntilStarterGone polling GET version until     *)
(* three queries in a row failed) or SendIntrAndWait (one WaitTimeout      *)
(* goroutine per starter, a sleep, then Ctrl-C to each starter).           *)
(*                                                                         *)
(* The starters' side is not in src/ and follows its description: the    *)
(* control plane answers from start until exit, "starting" becomes        *)
(* "running" when the ready line is logged, a shutdown request or an      *)
(* interrupt begins termination (idempotently), and a starter that is      *)
(* shutting down exits in bounded time.                                    *)
(*                                                                         *)
(* The network loses at most MaxBlips requests in a row to a starter that  *)
(* is up; ShutdownMayFail says whether a POST shutdown may be one of them. *)
(***************************************************************************)
EXTENDS Naturals

CONSTANTS
  NumStarters,      \* starters spawned by the test (endpoints 1..NumStarters)
  MaxBlips,         \* bound: consecutive transient request failures
  ShutdownMayFail,  \* may the POST shutdown request fail transiently?
  StopVia           \* "api" (ShutdownStarter) or "intr" (SendIntrAndWait)

ASSUME NumStarters \in Nat \ {0}
ASSUME MaxBlips \in Nat
ASSUME ShutdownMayFail \in BOOLEAN
ASSUME StopVia \in {"api", "intr"}

Starters == 1..NumStarters

VARIABLES
  sstate,    \* sstate[s]: "starting", "running", "shuttingDown", "terminated"
  blips,     \* blips[s]: transient failures in a row on s's connection
  pc,        \* the test goroutine's position
  cur,       \* the endpoint ShutdownStarter / SendIntr is working on
  failures,  \* WaitUntilStarterGone's failures counter
  gone,      \* starters WaitUntilStarterGone has declared gone
  rdy,       \* rdy[s]: WaitUntilStarterReady's goroutine for s
  waiter,    \* waiter[s]: SendIntrAndWait's WaitTimeout goroutine for s
  result     \* the shared boolean the wait helpers' goroutines clear

vars == <<sstate, blips, pc, cur, failures, gone, rdy, waiter, result>>
testVars == <<pc, cur, failures, gone, rdy, waiter, result>>

Up(s) == sstate[s] # "terminated"

Init ==
  /\ sstate = [s \in Starters |-> "starting"]
  /\ blips = [s \in Starters |-> 0]
  /\ pc = "ready"
  /\ cur = 1
  /\ failures = 0
  /\ gone = {}
  /\ rdy = [s \in Starters |-> "waiting"]
  /\ waiter = [s \in Starters |-> "idle"]
  /\ result = TRUE

\* The outcome of one request to s's control plane: answered, or failed
\* because s has exited or because the network lost it (at most MaxBlips
\* in a row).
Answered(s) == Up(s) /\ blips' = [blips EXCEPT ![s] = 0]
Failed(s) ==
  \/ ~Up(s) /\ UNCHANGED blips
  \/ Up(s) /\ blips[s] < MaxBlips /\ blips' = [blips EXCEPT ![s] = @ + 1]

\* The starter's handling of POST shutdown and of an interrupt: begin
\* terminating; a second request while shutting down is a no-op.
HandleShutdown(st) == IF st \in {"starting", "running"} THEN "shuttingDown" ELSE st

StopStep == IF StopVia = "api" THEN "shutdown" ELSE "intr"

-----------------------------------------------------------------------------
(* The starters (described, not in src/).                                  *)

StarterReady(s) ==
  /\ sstate[s] = "starting"
  /\ sstate' = [sstate EXCEPT ![s] = "running"]
  /\ UNCHANGED <<blips>> /\ UNCHANGED testVars

StarterExit(s) ==
  /\ sstate[s] = "shuttingDown"
  /\ sstate' = [sstate EXCEPT ![s] = "terminated"]
  /\ UNCHANGED <<blips>> /\ UNCHANGED testVars

-----------------------------------------------------------------------------
(* WaitUntilStarterReady.                                                  *)

\* s's goroutine: ExpectTimeout matches the ready line ...
ReadyMatched(s) ==
  /\ pc = "ready"
  /\ rdy[s] = "waiting"
  /\ sstate[s] # "starting"
  /\ rdy' = [rdy EXCEPT ![s] = "matched"]
  /\ UNCHANGED <<sstate, blips, pc, cur, failures, gone, waiter, result>>

\* ... or the minute passes first, and it sets result = false.
ReadyTimedOut(s) ==
  /\ pc = "ready"
  /\ rdy[s] = "waiting"
  /\ sstate[s] = "starting"
  /\ rdy' = [rdy EXCEPT ![s] = "timedout"]
  /\ result' = FALSE
  /\ UNCHANGED <<sstate, blips, pc, cur, failures, gone, waiter>>

\* g.Wait(); the test runs testSingle only if the helper returned true.
ReadyJoin ==
  /\ pc = "ready"
  /\ \A s \in Starters : rdy[s] # "waiting"
  /\ pc' = IF result THEN "version" ELSE StopStep
  /\ UNCHANGED <<sstate, blips, cur, failures, gone, rdy, waiter, result>>

-----------------------------------------------------------------------------
(* testProcesses against the first endpoint.                               *)

\* c.Version; a failure is only reported (t.Errorf).
QueryVersion ==
  /\ pc = "version"
  /\ Answered(1) \/ Failed(1)
  /\ pc' = "processes"
  /\ UNCHANGED <<sstate, cur, failures, gone, rdy, waiter, result>>

\* c.Processes; a failure is t.Fatalf, which ends the test.
QueryProcesses ==
  /\ pc = "processes"
  /\ \/ Answered(1) /\ pc' = StopStep
     \/ Failed(1) /\ pc' = "aborted"
  /\ UNCHANGED <<sstate, cur, failures, gone, rdy, waiter, result>>

-----------------------------------------------------------------------------
(* ShutdownStarter(endpoint cur), for each endpoint in turn.               *)

\* c.Shutdown(ctx, false): an error is only reported (t.Errorf), and
\* WaitUntilStarterGone follows in any case.
ShutdownStarter ==
  /\ pc = "shutdown"
  /\ \/ Answered(cur) /\ sstate' = [sstate EXCEPT ![cur] = HandleShutdown(@)]
     \/ ShutdownMayFail /\ Failed(cur)                        \* answer lost
        /\ sstate' = [sstate EXCEPT ![cur] = HandleShutdown(@)]
     \/ ShutdownMayFail /\ Failed(cur) /\ UNCHANGED sstate    \* request lost
  /\ pc' = "poll"
  /\ failures' = 0
  /\ UNCHANGED <<cur, gone, rdy, waiter, result>>

\* Mutants: the threshold one too low, one too high.
GoneCheckEarly(f) == f > 1
GoneCheckLate(f) == f > 3

\* WaitUntilStarterGone's test: more than 2 failures in a row.
GoneCheck(f) == f > 2

\* Mutant: failures declared inside the loop, so it never accumulates.
PollVersionLocalCounter ==
  /\ pc = "poll"
  /\ \/ Answered(cur) /\ failures' = 0
     \/ Failed(cur) /\ failures' = 0 + 1
  /\ IF GoneCheck(failures')
     THEN /\ gone' = gone \cup {cur}
          /\ pc' = IF cur < NumStarters THEN "shutdown" ELSE "done"
          /\ cur' = IF cur < NumStarters THEN cur + 1 ELSE cur
     ELSE UNCHANGED <<gone, pc, cur>>
  /\ UNCHANGED <<sstate, rdy, waiter, result>>

\* One iteration of WaitUntilStarterGone's loop: c.Version, then count a
\* failure or reset the count; break once GoneCheck holds.
PollVersion ==
  /\ pc = "poll"
  /\ \/ Answered(cur) /\ failures' = 0
     \/ Failed(cur) /\ failures' = failures + 1
  /\ IF GoneCheck(failures')
     THEN /\ gone' = gone \cup {cur}
          /\ pc' = IF cur < NumStarters THEN "shutdown" ELSE "done"
          /\ cur' = IF cur < NumStarters THEN cur + 1 ELSE cur
     ELSE UNCHANGED <<gone, pc, cur>>
  /\ UNCHANGED <<sstate, rdy, waiter, result>>

-----------------------------------------------------------------------------
(* SendIntrAndWait(all starters).                                          *)

\* result := true, one WaitTimeout goroutine per starter, time.Sleep.
StartWaiters ==
  /\ pc = "intr"
  /\ result' = TRUE
  /\ waiter' = [s \in Starters |-> "waiting"]
  /\ pc' = "sendintr"
  /\ cur' = 1
  /\ UNCHANGED <<sstate, blips, failures, gone, rdy>>

\* starter.Term.SendIntr() for each starter in turn.
SendIntr ==
  /\ pc = "sendintr"
  /\ sstate' = [sstate EXCEPT ![cur] = HandleShutdown(@)]
  /\ pc' = IF cur < NumStarters THEN "sendintr" ELSE "join"
  /\ cur' = IF cur < NumStarters THEN cur + 1 ELSE cur
  /\ UNCHANGED <<blips, failures, gone, rdy, waiter, result>>

\* s's goroutine: the process exits ...
WaiterExited(s) ==
  /\ waiter[s] = "waiting"
  /\ sstate[s] = "terminated"
  /\ waiter' = [waiter EXCEPT ![s] = "exited"]
  /\ UNCHANGED <<sstate, blips, pc, cur, failures, gone, rdy, result>>

\* Mutant: the timed-out goroutine only logs (t.Errorf), result stays.
WaiterTimedOutNoFlag(s) ==
  /\ waiter[s] = "waiting"
  /\ Up(s)
  /\ waiter' = [waiter EXCEPT ![s] = "timedout"]
  /\ UNCHANGED <<sstate, blips, pc, cur, failures, gone, rdy, result>>

\* ... or its 30 seconds pass first, and it sets result = false.
WaiterTimedOut(s) ==
  /\ waiter[s] = "waiting"
  /\ Up(s)
  /\ waiter' = [waiter EXCEPT ![s] = "timedout"]
  /\ result' = FALSE
  /\ UNCHANGED <<sstate, blips, pc, cur, failures, gone, rdy>>

\* g.Wait().
IntrJoin ==
  /\ pc = "join"
  /\ \A s \in Starters : waiter[s] \in {"exited", "timedout"}
  /\ pc' = "done"
  /\ UNCHANGED <<sstate, blips, cur, failures, gone, rdy, waiter, result>>

-----------------------------------------------------------------------------
(* The test function's deferred calls.                                     *)

\* Mutant: child.Close() called at the end of the test body, not deferred,
\* so a t.Fatalf skips it.
TestCleanupNotDeferred ==
  /\ pc = "done"
  /\ sstate' = [s \in Starters |-> "terminated"]
  /\ pc' = "closed"
  /\ UNCHANGED <<blips, cur, failures, gone, rdy, waiter, result>>

\* When the test function returns, or t.Fatalf ends it (runtime.Goexit
\* runs the defers), the deferred child.Close() ends the spawned starter
\* and os.RemoveAll drops its data directory.
TestCleanup ==
  /\ pc \in {"done", "aborted"}
  /\ sstate' = [s \in Starters |-> "terminated"]
  /\ pc' = "closed"
  /\ UNCHANGED <<blips, cur, failures, gone, rdy, waiter, result>>

-----------------------------------------------------------------------------
Next ==
  \/ \E s \in Starters :
       \/ StarterReady(s) \/ StarterExit(s)
       \/ ReadyMatched(s) \/ ReadyTimedOut(s)
       \/ WaiterExited(s) \/ WaiterTimedOut(s)
  \/ ReadyJoin \/ QueryVersion \/ QueryProcesses
  \/ ShutdownStarter \/ PollVersion
  \/ StartWaiters \/ SendIntr \/ IntrJoin
  \/ TestCleanup

\* The test's goroutines keep running and their timeouts fire in bounded
\* time; a starter that is shutting down exits in bounded time.  Nothing
\* forces a starting starter to become ready.
Fairness ==
  /\ \A s \in Starters :
       /\ WF_vars(ReadyMatched(s) \/ ReadyTimedOut(s))
       /\ WF_vars(WaiterExited(s) \/ WaiterTimedOut(s))
       /\ WF_vars(StarterExit(s))
  /\ WF_vars(ReadyJoin \/ QueryVersion \/ QueryProcesses)
  /\ WF_vars(ShutdownStarter \/ PollVersion)
  /\ WF_vars(StartWaiters \/ SendIntr \/ IntrJoin)
  /\ WF_vars(TestCleanup)

Spec == Init /\ [][Next]_vars /\ Fairness

-----------------------------------------------------------------------------
TypeOK ==
  /\ sstate \in [Starters -> {"starting", "running", "shuttingDown", "terminated"}]
  /\ blips \in [Starters -> 0..MaxBlips]
  /\ pc \in {"ready", "version", "processes", "shutdown", "poll", "intr",
             "sendintr", "join", "done", "aborted", "closed"}
  /\ cur \in Starters
  /\ failures \in 0..3
  /\ gone \subseteq Starters
  /\ rdy \in [Starters -> {"waiting", "matched", "timedout"}]
  /\ waiter \in [Starters -> {"idle", "waiting", "exited", "timedout"}]
  /\ result \in BOOLEAN

\* WaitUntilStarterGone's debounce: a starter is declared gone only once it
\* has really exited, however the network's failures (at most MaxBlips in
\* a row) fall between its answers.
GoneOnlyWhenTerminated == \A s \in gone : sstate[s] = "terminated"

\* SendIntrAndWait reports success only if every starter exited: the
\* goroutines' writes to the shared result are not lost.
IntrResultSound ==
  pc = "done" /\ StopVia = "intr" /\ result =>
    \A s \in Starters : sstate[s] = "terminated"

\* The test's stop helper returns, unless testProcesses aborted the test.
ShutdownReturns == <>(pc \in {"done", "aborted", "closed"})

\* Every starter the test spawned is eventually gone, whichever way the
\* test ends: stopped by its helper, or left running when t.Fatalf
\* aborted the test after a failed process listing.
StartersReaped == <>(\A s \in Starters : sstate[s] = "terminated")
=============================================================================
