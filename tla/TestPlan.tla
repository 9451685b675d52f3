------------------------------ MODULE TestPlan ------------------------------
(***************************************************************************)
(* What the test runner promises: in every run it measures the tests of    *)
(* the plan one after the other, and leaves the result of each in a file   *)
(* of its own; only when all are measured does it end without an error.    *)
(* The load of a test may be started again as long as no answer has come,  *)
(* never after it.  A test's file keeps what earlier runs have written     *)
(* until the answer is there.  The run may fail at any time: at most the   *)
(* file that it was about to write is then torn.                           *)
(***************************************************************************)
EXTENDS Naturals, Sequences

CONSTANTS Tests, Plan

VARIABLES
  run,       (* how often the plan was begun                               *)
  state,     (* of this run: under way, complete or failed                 *)
  measured,  (* how many of the plan's tests it has measured               *)
  loads,     (* how often it has started the load of the next one          *)
  answered,  (* the load of the next one was answered                      *)
  results    (* for each test the run that has written its file, or opened *)
             (* it only; no run is 0                                       *)

vars == <<run, state, measured, loads, answered, results>>

Init ==
  /\ run = 1 /\ state = "under way" /\ measured = 0
  /\ loads = 0 /\ answered = FALSE
  /\ results = [t \in Tests |-> [by |-> 0, whole |-> FALSE]]

\* The test that comes next, and its file, opened or written.
Current == Plan[measured + 1]
Torn == [by |-> run, whole |-> FALSE]
Whole == [by |-> run, whole |-> TRUE]
Testing == state = "under way" /\ measured < Len(Plan)

Load ==
  /\ Testing /\ ~answered
  /\ loads' = loads + 1
  /\ UNCHANGED <<run, state, measured, answered, results>>

Answer ==
  /\ Testing /\ loads > 0 /\ ~answered
  /\ answered' = TRUE
  /\ UNCHANGED <<run, state, measured, loads, results>>

Open ==
  /\ Testing /\ answered /\ results[Current] # Torn
  /\ results' = [results EXCEPT ![Current] = Torn]
  /\ UNCHANGED <<run, state, measured, loads, answered>>

Measure ==
  /\ Testing /\ answered /\ results[Current] = Torn
  /\ results' = [results EXCEPT ![Current] = Whole]
  /\ measured' = measured + 1
  /\ loads' = 0 /\ answered' = FALSE
  /\ UNCHANGED <<run, state>>

Complete ==
  /\ state = "under way" /\ measured = Len(Plan)
  /\ state' = "complete" /\ measured' = 0
  /\ UNCHANGED <<run, loads, answered, results>>

Fail ==
  /\ state = "under way"
  /\ state' = "failed" /\ measured' = 0
  /\ loads' = 0 /\ answered' = FALSE
  /\ UNCHANGED <<run, results>>

Again ==
  /\ state # "under way"
  /\ run' = run + 1 /\ state' = "under way" /\ measured' = 0
  /\ UNCHANGED <<loads, answered, results>>

Next == Load \/ Answer \/ Open \/ Measure \/ Complete \/ Fail \/ Again

Spec == Init /\ [][Next]_vars
=============================================================================
