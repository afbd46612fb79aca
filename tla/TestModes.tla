----------------------------- MODULE TestModes -----------------------------
(***************************************************************************)
(* Which tests run (src/test/util.go): init splits $TEST_MODES on single   *)
(* spaces, and maps the empty variable to "no modes"; needTestMode lets a  *)
(* test run if its mode is one of the parts, or if there are no parts,     *)
(* and skips it otherwise.                                                 *)
(*                                                                         *)
(* The variable's value is a sequence of tokens: the two mode names the    *)
(* tests use, each as one symbol, and the space.  Adjacent mode tokens     *)
(* form one word that is neither mode.                                     *)
(***************************************************************************)
EXTENDS Naturals, Sequences, SequencesExt

CONSTANTS
  Space,       \* model value: the separator " "
  MaxEnvLen,   \* bound: tokens in $TEST_MODES
  WellFormed   \* only values written as modes separated by single spaces?

ASSUME MaxEnvLen \in Nat
ASSUME WellFormed \in BOOLEAN

Modes == {"localprocess", "docker"}   \* testModeProcess, testModeDocker
Token == Modes \cup {Space}

\* strings.Split(s, sep): the parts between separators, empty ones
\* included; the empty string gives one empty part.
SplitOn(s, sep) ==
  FoldRight(LAMBDA c, parts :
              IF c = sep THEN Cons(<<>>, parts)
              ELSE Cons(Cons(c, Head(parts)), Tail(parts)),
            s, <<<<>>>>)

\* Mutant: init without its special case for an unset variable.
InitTestModesNoEmptyCheck(env) == SplitOn(env, Space)

\* init: testModes, nil when the variable is empty.
InitTestModes(env) ==
  LET parts == SplitOn(env, Space)
  IN  IF Len(parts) = 1 /\ parts[1] = <<>> THEN <<>> ELSE parts

\* needTestMode: TRUE if the test goes on, FALSE if it is skipped.
NeedTestMode(testModes, testMode) ==
  \/ \E i \in DOMAIN testModes : testModes[i] = <<testMode>>
  \/ Len(testModes) = 0

-----------------------------------------------------------------------------
(* The intended selection: the words of the variable, i.e. its maximal     *)
(* runs of non-space tokens; no words means every test runs.               *)

\* Maximal runs i..j of non-space tokens.
WordSpans(env) ==
  {r \in (DOMAIN env) \X (DOMAIN env) :
     /\ r[1] <= r[2]
     /\ \A m \in r[1]..r[2] : env[m] # Space
     /\ r[1] = 1 \/ env[r[1] - 1] = Space
     /\ r[2] = Len(env) \/ env[r[2] + 1] = Space}

Words(env) == {SubSeq(env, r[1], r[2]) : r \in WordSpans(env)}

Selected(env, testMode) == Words(env) = {} \/ <<testMode>> \in Words(env)

\* Modes separated by single spaces, no leading or trailing space.
Written(env) ==
  /\ Len(env) > 0 => (env[1] # Space /\ env[Len(env)] # Space)
  /\ \A n \in 1..(Len(env) - 1) : env[n] = Space => env[n + 1] # Space

-----------------------------------------------------------------------------
VARIABLES env, mode

vars == <<env, mode>>

Init ==
  /\ env \in BoundedSeq(Token, MaxEnvLen)
  /\ WellFormed => Written(env)
  /\ mode \in Modes

Next == UNCHANGED vars

Spec == Init /\ [][Next]_vars

\* A test runs exactly when $TEST_MODES names its mode as one of its words
\* or names no mode at all (init's split and empty check, needTestMode's
\* loop and its fallback on no modes).
SelectsAsIntended ==
  NeedTestMode(InitTestModes(env), mode) = Selected(env, mode)
=============================================================================
