---------------------------- MODULE ProcessCheck ----------------------------
(***************************************************************************)
(* testProcesses (src/test/server_util.go): the errors a test reports for  *)
(* the server processes a starter lists, given the mode ("cluster" or      *)
(* "single") and whether TLS is expected.  Each listed process is absent,  *)
(* or has an IsSecure flag and is reachable or not (testArangodReachable's *)
(* GET /_api/version).                                                     *)
(*                                                                         *)
(* TestProcesses, written after the code, is checked against               *)
(* ExpectedErrors, written after the contract: a cluster has a coordinator *)
(* and a db-server and may have an agent, a single server has exactly a    *)
(* single; every process listed has the expected IsSecure; every allowed   *)
(* process answers.                                                        *)
(***************************************************************************)
EXTENDS FiniteSets

CONSTANT NotFound   \* model value: processes.ServerByType found nothing

ServerTypes == {"agent", "coordinator", "dbserver", "single"}
Modes == {"cluster", "single"}
Process == [isSecure : BOOLEAN, reachable : BOOLEAN]

Err(kind, t) == [kind |-> kind, type |-> t]

\* testArangodReachable: an error when the HTTP GET fails.
ArangodReachable(t, sp) == IF sp.reachable THEN {} ELSE {Err("unreachable", t)}

\* The block testProcesses repeats for each server type: compare IsSecure;
\* in the mode that forbids the type report it, otherwise test that it is
\* reachable; if the type is missing in the mode that needs it, report it.
CheckServer(t, forbiddenIn, requiredIn, mode, isSecure, sp) ==
  IF sp # NotFound
  THEN (IF sp.isSecure # isSecure THEN {Err("insecure", t)} ELSE {})
       \cup (IF mode = forbiddenIn THEN {Err("forbidden", t)}
             ELSE ArangodReachable(t, sp))
  ELSE IF mode = requiredIn THEN {Err("missing", t)} ELSE {}

\* Mutant: the single block copied from the others, forbidden in "single".
TestProcessesCopyPaste(mode, isSecure, procs) ==
  CheckServer("agent", "single", "none", mode, isSecure, procs["agent"])
  \cup CheckServer("coordinator", "single", "cluster", mode, isSecure, procs["coordinator"])
  \cup CheckServer("dbserver", "single", "cluster", mode, isSecure, procs["dbserver"])
  \cup CheckServer("single", "single", "single", mode, isSecure, procs["single"])

\* testProcesses: agent (never required), coordinator, dbserver, single.
TestProcesses(mode, isSecure, procs) ==
  CheckServer("agent", "single", "none", mode, isSecure, procs["agent"])
  \cup CheckServer("coordinator", "single", "cluster", mode, isSecure, procs["coordinator"])
  \cup CheckServer("dbserver", "single", "cluster", mode, isSecure, procs["dbserver"])
  \cup CheckServer("single", "cluster", "single", mode, isSecure, procs["single"])

-----------------------------------------------------------------------------
(* The contract.                                                           *)

Required(mode) == IF mode = "cluster" THEN {"coordinator", "dbserver"} ELSE {"single"}
Allowed(mode) == IF mode = "cluster" THEN {"agent", "coordinator", "dbserver"} ELSE {"single"}

ExpectedErrors(mode, isSecure, procs) ==
  LET found == {t \in ServerTypes : procs[t] # NotFound}
  IN  {Err("missing", t) : t \in Required(mode) \ found}
      \cup {Err("forbidden", t) : t \in found \ Allowed(mode)}
      \cup {Err("insecure", t) : t \in {u \in found : procs[u].isSecure # isSecure}}
      \cup {Err("unreachable", t) : t \in {u \in found \cap Allowed(mode) : ~procs[u].reachable}}

-----------------------------------------------------------------------------
(* Every input, one per initial state.                                     *)

VARIABLES mode, isSecure, procs

vars == <<mode, isSecure, procs>>

Init ==
  /\ mode \in Modes
  /\ isSecure \in BOOLEAN
  /\ procs \in [ServerTypes -> Process \cup {NotFound}]

Next == UNCHANGED vars

Spec == Init /\ [][Next]_vars

\* testProcesses reports exactly the contract's violations, and a good
\* cluster or single server (nothing to report) is accepted.
MatchesContract ==
  TestProcesses(mode, isSecure, procs) = ExpectedErrors(mode, isSecure, procs)
=============================================================================
