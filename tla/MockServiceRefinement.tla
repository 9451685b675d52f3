----------------------- MODULE MockServiceRefinement -----------------------
(***************************************************************************)
(* MockService implements ScriptRun.  The mapping forgets goroutines, the  *)
(* network, metrics and replicas.  Above all it computes the failed        *)
(* commands of a step from how each of them ended and not from errs, the   *)
(* variable its goroutines write without a lock: that no failure is        *)
(* overlooked is what the refinement has to show.                          *)
(***************************************************************************)
EXTENDS MockService

Index(c) == c[Len(c)][2]
Done(r) == {Index(c) : c \in {d \in Current(r) : task[d].st \in Finished}}
Bad(r) == {Index(c) : c \in {d \in Current(r) : task[d].st = "failed"}}
MaskedCalls(r) == {c \in DOMAIN task : task[c].owner = r /\ task[c].code = 503}
Masks(r) == {c[Len(c)] : c \in MaskedCalls(r)}
Out(r) ==
  IF handler[r].code # 0 THEN handler[r].code
  ELSE IF handler[r].st = "dead" THEN 1 ELSE 0

Execution(r) ==
  [svc |-> Svc(r), step |-> handler[r].step, done |-> Done(r), bad |-> Bad(r),
   masked |-> Masks(r), out |-> Out(r)]

RunOf == [r \in DOMAIN handler |-> Execution(r)]

Abstract == INSTANCE ScriptRun WITH run <- RunOf

\* Handlers and goroutines implement the one-command-at-a-time runs of
\* ScriptRun (ServeHTTP and execute, handler.go:45-55, executable.go:18-100).
ImplementsScriptRun == Abstract!Spec
=============================================================================
