------------------------------ MODULE ScriptRun ------------------------------
(***************************************************************************)
(* What the emulation of a topology promises, whatever its goroutines,     *)
(* connections and pods do: each accepted request runs the script of its   *)
(* service once, step by step; each command of a step is done once, in any *)
(* order; the script is left at the first step with a failed command; and  *)
(* the answer says which of the two it was.  A call ends as its callee     *)
(* answered, unless a proxy answers it instead: then it counts as a        *)
(* success, whatever becomes of the callee.                                *)
(*                                                                         *)
(* README.md ("Script") and the comments of service/pkg/srv describe this; *)
(* MockServiceRefinement shows that the handlers and goroutines of         *)
(* MockService implement it.                                               *)
(***************************************************************************)
EXTENDS ServiceGraph

CONSTANTS Services, Script, Entry

VARIABLE run    \* run[r]: the execution of accepted request r, named by its path

NoAnswer == 0
Lost == 1
Commands(r) == Subcommands(Script[run[r].svc][run[r].step])
Over(r) == run[r].step > Len(Script[run[r].svc])
AllDone(r) == Over(r) \/ run[r].done = DOMAIN Commands(r)
SubRequest(r, i, j) == Append(r, <<i, j>>)
CommandAt(r, i, j) == Subcommands(Script[run[r].svc][i])[j]

-----------------------------------------------------------------------------
Init == run = [r \in {} |-> 0]

\* s accepts a request of the client, or one that a call of an accepted request
\* makes: the call is due and did not succeed without it, or a proxy answered it.
Caused(r, s) ==
  \/ Len(r) = 1 /\ s = Entry
  \/ \E q \in DOMAIN run : \E i \in DOMAIN Script[run[q].svc] :
       \E j \in DOMAIN Subcommands(Script[run[q].svc][i]) :
         /\ r = SubRequest(q, i, j)
         /\ CommandAt(q, i, j).op = "call" /\ CommandAt(q, i, j).service = s
         /\ \/ i = run[q].step /\ j \notin run[q].done \ run[q].bad
            \/ <<i, j>> \in run[q].masked

Accept(r, s) ==
  /\ r \notin DOMAIN run
  /\ Caused(r, s)
  /\ run' = [q \in DOMAIN run \cup {r} |->
               IF q = r THEN [svc |-> s, step |-> 1, done |-> {}, bad |-> {}, masked |-> {},
                              out |-> NoAnswer]
               ELSE run[q]]

\* One command of the current step ends.  A call may fail for reasons of its
\* own, and succeeds only if the called service answered 200 or never saw the
\* request, or if a proxy masked it.
Do(r, j, how) ==
  LET i == run[r].step
      c == SubRequest(r, i, j)
  IN  /\ run[r].out = NoAnswer /\ ~Over(r)
      /\ j \in DOMAIN Commands(r) \ run[r].done
      /\ how = "done" /\ c \in DOMAIN run => run[c].out = 200
      /\ how = "masked" => Commands(r)[j].op = "call"
      /\ run' = [run EXCEPT ![r].done   = @ \cup {j},
                            ![r].bad    = IF how = "failed" THEN @ \cup {j} ELSE @,
                            ![r].masked = IF how = "masked" THEN @ \cup {<<i, j>>} ELSE @]

Advance(r) ==
  /\ run[r].out = NoAnswer /\ ~Over(r)
  /\ AllDone(r) /\ run[r].bad = {}
  /\ run' = [run EXCEPT ![r].step = @ + 1, ![r].done = {}]

Answer(r) ==
  /\ run[r].out = NoAnswer
  /\ \/ Over(r) /\ run' = [run EXCEPT ![r].out = 200]
     \/ /\ AllDone(r) /\ run[r].bad # {}
        /\ run' = [run EXCEPT ![r].out = 500]

\* A pod takes the unanswered requests it was serving with it.
Lose(rs) ==
  /\ \A r \in rs : run[r].out = NoAnswer
  /\ run' = [r \in DOMAIN run |->
               IF r \in rs THEN [run[r] EXCEPT !.out = Lost] ELSE run[r]]

Next ==
  \/ \E r \in (DOMAIN run)' \ DOMAIN run, s \in Services : Accept(r, s)
  \/ \E r \in DOMAIN run :
       \/ ~Over(r) /\ \E j \in DOMAIN Commands(r), how \in {"done", "masked", "failed"} : Do(r, j, how)
       \/ Advance(r)
       \/ Answer(r)
  \/ \E rs \in SUBSET DOMAIN run : Lose(rs)

Spec == Init /\ [][Next]_run

-----------------------------------------------------------------------------
\* Success at one level of the call tree: r answered 200 only if every accepted
\* sub-request did, those of masked calls excepted.  OnlyProxiesHideFailures of
\* MockService says so of all levels below.
ChildrenSucceed ==
  \A r \in DOMAIN run : run[r].out = 200 =>
    \A i \in DOMAIN Script[run[r].svc] : \A j \in DOMAIN Subcommands(Script[run[r].svc][i]) :
      SubRequest(r, i, j) \in DOMAIN run =>
        run[SubRequest(r, i, j)].out = 200 \/ <<i, j>> \in run[r].masked
=============================================================================
