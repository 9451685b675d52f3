----------------------------- MODULE MockService -----------------------------
(***************************************************************************)
(* The mock-service processes of a deployed topology, serving the requests *)
(* of a load-test client.  A request to a service runs the service's       *)
(* script: its steps in sequence, the commands of a concurrent step each   *)
(* in a goroutine of its own.  A "call" command sends a request to another *)
(* service, so one client request unfolds into a tree of calls.            *)
(*                                                                         *)
(* A call is named by its path: <<client>> for a client request, and       *)
(* Append(r, <<i, j>>) for command j of step i in the script that request  *)
(* r runs.  task[c] is the caller's side of c (the goroutine executing the *)
(* command), handler[c] the callee's side (the ServeHTTP invocation), which*)
(* exists once the request was delivered to a pod.                         *)
(*                                                                         *)
(* External and modelled from its use: net/http (a request is delivered to *)
(* some pod of the service, or fails; a reply's headers may be visible     *)
(* before the handler returned), the client, Kubernetes restarting pods,   *)
(* and the 503 of an Istio proxy.                                          *)
(***************************************************************************)
EXTENDS ServiceGraph, FiniteSets, FiniteSetsExt

CONSTANTS
  Services,     (* names of the services of the topology                   *)
  Script,       (* Script[s]: the script of service s                      *)
  Pods,         (* the replicas of all services                            *)
  ServiceOf,    (* ServiceOf[p]: the service that pod p emulates           *)
  Clients,      (* requests of the load-test client                        *)
  Entry,        (* the entrypoint service                                  *)
  HeaderKeys,   (* HTTP header keys a client may set                       *)
  Forwardable,  (* forwardableHeadersSet                                   *)
  NoService,    (* the destination of a sleep                              *)
  MaxFaults,    (* bound: failures of the network and of proxies           *)
  MaxCrashes    (* bound: crashes of pods                                  *)

ASSUME ConstantsAssumption ==
  /\ Entry \in Services
  /\ ServiceOf \in [Pods -> Services]
  /\ Forwardable \subseteq HeaderKeys
  /\ NoService \notin Services
  /\ MaxFaults \in Nat
  /\ MaxCrashes \in Nat

\* A deployment has a certain number of replicas.
ASSUME PodsAssumption == IsFiniteSet(Pods)

\* Pods serve only graphs that UnmarshalJSON accepted (service/main.go:44).
ASSUME ScriptAssumption ==
  /\ DOMAIN Script = Services
  /\ \A s \in Services :
       /\ IsSequence(Script[s])
       /\ \A i \in DOMAIN Script[s] : IsSequence(Subcommands(Script[s][i]))
       /\ ValidScript(Script[s], Services)

VARIABLES
  task,       (* calls and sleeps started so far, by path                  *)
  wire,       (* requests sent and neither delivered nor lost yet          *)
  handler,    (* requests delivered so far, by path                        *)
  up,         (* up[p]: the process of pod p is serving                    *)
  boot,       (* boot[p]: how often it was restarted                       *)
  incoming,   (* service_incoming_requests_total of each pod               *)
  outgoing,   (* service_outgoing_requests_total, by destination           *)
  responses,  (* number of RecordResponseSent observations, by code        *)
  faults,     (* failures of the network so far                            *)
  crashes     (* crashes so far                                            *)

vars == <<task, wire, handler, up, boot, incoming, outgoing, responses, faults, crashes>>
metrics == <<incoming, outgoing, responses>>
env == <<up, boot, crashes>>

NoOwner == <<>>                     \* owner of a client's own request
Codes == {200, 500}
Steps(s) == Len(Script[s])
SubPath(r, i, j) == Append(r, <<i, j>>)
Finished == {"ok", "failed"}
Responding == {"respond", "written", "returned"}

Svc(r) == ServiceOf[handler[r].pod]
Owned(r, i) == {c \in DOMAIN task : task[c].owner = r /\ task[c].step = i}
Current(r) == Owned(r, handler[r].step)
\* The reply's header has reached the caller's connection.
Visible(c) == c \in DOMAIN handler /\ (handler[c].st = "returned" \/ handler[c].flushed)

-----------------------------------------------------------------------------
Init ==
  /\ \E sent \in [Clients -> SUBSET HeaderKeys] :
       task = [c \in {<<k>> : k \in Clients} |->
                 [owner |-> NoOwner, step |-> 0, dest |-> Entry, st |-> "ready", code |-> 0,
                  hdr |-> sent[c[1]] \X {c[1]}]]
  /\ wire = {}
  /\ handler = [c \in {} |-> 0]
  /\ up = [p \in Pods |-> TRUE]
  /\ boot = [p \in Pods |-> 0]
  /\ incoming = [p \in Pods |-> 0]
  /\ outgoing = [p \in Pods |-> [s \in Services |-> 0]]
  /\ responses = [p \in Pods |-> [k \in Codes |-> 0]]
  /\ faults = 0
  /\ crashes = 0

(***************************************************************************)
(* The callee: ServeHTTP.                                                  *)
(***************************************************************************)
\* Mutant: the loop variable starts before the first step.
NewHandlerBeforeFirstStep(p) ==
  [pod |-> p, boot |-> boot[p], step |-> 0, st |-> "run",
   errs |-> {}, code |-> 0, flushed |-> FALSE]

NewHandler(p) ==
  [pod |-> p, boot |-> boot[p], step |-> 1, st |-> "run",
   errs |-> {}, code |-> 0, flushed |-> FALSE]

\* A request reaches a serving pod of its destination, perhaps when its caller
\* has given up or is dead already: RecordRequestReceived, and the loop over
\* the script begins.
Deliver(c, p) ==
  /\ c \in wire
  /\ up[p] /\ ServiceOf[p] = task[c].dest
  /\ wire' = wire \ {c}
  /\ handler' = [r \in DOMAIN handler \cup {c} |->
                   IF r = c THEN NewHandler(p) ELSE handler[r]]
  /\ incoming' = [incoming EXCEPT ![p] = @ + 1]
  /\ UNCHANGED <<task, env, outgoing, responses, faults>>

\* extractForwardableHeader: what a request may pass on of its own headers.
ForwardableOf(hdr) == {kv \in hdr : kv[1] \in Forwardable}

Destination(cmd) == IF cmd.op = "call" THEN cmd.service ELSE NoService

\* Mutant: all requests of a pod share one header map.
NewTaskSharedHeader(r, i, cmd) ==
  [owner |-> r, step |-> i, st |-> "ready", code |-> 0,
   dest |-> Destination(cmd),
   hdr  |-> UNION {ForwardableOf(task[q].hdr) :
                     q \in {q \in DOMAIN handler : handler[q].pod = handler[r].pod}}]

NewTask(r, i, cmd) ==
  [owner |-> r, step |-> i, st |-> "ready", code |-> 0,
   dest |-> Destination(cmd),
   hdr  |-> ForwardableOf(task[r].hdr)]

\* execute() on the next step: the handler itself runs a single command, and
\* a concurrent step starts one goroutine per command, wg counting them.
StartStep(r) ==
  LET i    == handler[r].step
      cmds == Subcommands(Script[Svc(r)][i])
      new  == {SubPath(r, i, j) : j \in DOMAIN cmds}
  IN  /\ handler[r].st = "run"
      /\ i <= Steps(Svc(r))
      /\ task' = [c \in DOMAIN task \cup new |->
                    IF c \in new THEN NewTask(r, i, cmds[c[Len(c)][2]]) ELSE task[c]]
      /\ handler' = [handler EXCEPT ![r].st = "wait", ![r].errs = {}]
      /\ UNCHANGED <<wire, env, metrics, faults>>

\* Mutant: the response is sent at the first error, without wg.Wait().
JoinAtFirstError(r) ==
  /\ handler[r].st = "wait"
  /\ \/ handler[r].errs # {}
     \/ \A c \in Current(r) : task[c].st \in Finished
  /\ handler' = IF handler[r].errs # {}
                THEN [handler EXCEPT ![r].st = "respond", ![r].code = 500]
                ELSE [handler EXCEPT ![r].st = "run", ![r].step = @ + 1]
  /\ UNCHANGED <<task, wire, env, metrics, faults>>

\* Mutant: no return after respond(500).
JoinWithoutReturn(r) ==
  /\ handler[r].st = "wait"
  /\ \A c \in Current(r) : task[c].st \in Finished
  /\ handler' = [handler EXCEPT ![r].st = "run", ![r].step = @ + 1,
                               ![r].code = IF handler[r].errs # {} THEN 500 ELSE @]
  /\ UNCHANGED <<task, wire, env, metrics, faults>>

\* Mutant: wg.Done() is not deferred and a failing goroutine never calls it.
JoinSuccessesOnly(r) ==
  /\ handler[r].st = "wait"
  /\ \A c \in Current(r) : task[c].st = "ok"
  /\ handler' = [handler EXCEPT ![r].st = "run", ![r].step = @ + 1]
  /\ UNCHANGED <<task, wire, env, metrics, faults>>

\* wg.Wait() returns (or the single command did): an error ends the script
\* with a 500, otherwise the loop goes on to the next step.
Join(r) ==
  /\ handler[r].st = "wait"
  /\ \A c \in Current(r) : task[c].st \in Finished
  /\ handler' = IF handler[r].errs # {}
                THEN [handler EXCEPT ![r].st = "respond", ![r].code = 500]
                ELSE [handler EXCEPT ![r].st = "run", ![r].step = @ + 1]
  /\ UNCHANGED <<task, wire, env, metrics, faults>>

\* The loop is over: respond(http.StatusOK).
EndScript(r) ==
  /\ handler[r].st = "run"
  /\ handler[r].step > Steps(Svc(r))
  /\ handler' = [handler EXCEPT ![r].st = "respond", ![r].code = 200]
  /\ UNCHANGED <<task, wire, env, metrics, faults>>

\* Mutant: writing the response needs a caller that still waits for it.
WriteResponseToCaller(r) ==
  /\ handler[r].st = "respond" /\ task[r].st = "sent"
  /\ \E big \in BOOLEAN :
       handler' = [handler EXCEPT ![r].st = "written", ![r].flushed = big]
  /\ UNCHANGED <<task, wire, env, metrics, faults>>

\* WriteHeader and request.Write: an echo that overflows the response buffer
\* is flushed now, a small one only when the handler has returned.
WriteResponse(r) ==
  /\ handler[r].st = "respond"
  /\ \E big \in BOOLEAN :
       handler' = [handler EXCEPT ![r].st = "written", ![r].flushed = big]
  /\ UNCHANGED <<task, wire, env, metrics, faults>>

\* Mutant: only successful responses are recorded.
ReturnUnrecordedError(r) ==
  /\ handler[r].st = "written"
  /\ handler' = [handler EXCEPT ![r].st = "returned"]
  /\ responses' = IF handler[r].code = 500 THEN responses
                  ELSE [responses EXCEPT ![handler[r].pod][200] = @ + 1]
  /\ UNCHANGED <<task, wire, env, incoming, outgoing, faults>>

\* RecordResponseSent, then ServeHTTP returns and the server ends the reply.
ReturnResponse(r) ==
  /\ handler[r].st = "written"
  /\ handler' = [handler EXCEPT ![r].st = "returned"]
  /\ responses' = [responses EXCEPT ![handler[r].pod][handler[r].code] = @ + 1]
  /\ UNCHANGED <<task, wire, env, incoming, outgoing, faults>>

(***************************************************************************)
(* The caller: execute() on one command.                                   *)
(***************************************************************************)
\* Mutant: every goroutine assigns its result to errs, a nil one included.
FinishOverwritesErrs(c, good, code) ==
  LET r == task[c].owner
  IN  /\ task' = [task EXCEPT ![c].st = IF good THEN "ok" ELSE "failed", ![c].code = code]
      /\ IF r = NoOwner THEN UNCHANGED handler
         ELSE handler' = [handler EXCEPT ![r].errs = IF good THEN {} ELSE {c}]

\* execute() returned.  An error is appended to the errs of the step, which
\* the goroutines of a concurrent step share without a lock: the append keeps
\* the new error and any of the earlier ones.  Then wg.Done().
Finish(c, good, code) ==
  LET r == task[c].owner
      stored == {d \in Current(r) : task[d].st = "failed"}
  IN  /\ task' = [task EXCEPT ![c].st = IF good THEN "ok" ELSE "failed", ![c].code = code]
      /\ IF good \/ r = NoOwner THEN UNCHANGED handler
         ELSE \E kept \in SUBSET stored :
                handler' = [handler EXCEPT ![r].errs = kept \cup {c}]

\* executeSleepCommand.
Sleep(c) ==
  /\ task[c].st = "ready" /\ task[c].dest = NoService
  /\ Finish(c, TRUE, 0)
  /\ UNCHANGED <<wire, env, metrics, faults>>

\* Mutant: the request is counted when it is sent and not when it is answered.
SendRequestCounted(c) ==
  /\ task[c].st = "ready" /\ task[c].dest \in Services
  /\ task' = [task EXCEPT ![c].st = "sent"]
  /\ wire' = wire \cup {c}
  /\ outgoing' = IF task[c].owner = NoOwner THEN outgoing
                 ELSE [outgoing EXCEPT ![handler[task[c].owner].pod][task[c].dest] = @ + 1]
  /\ UNCHANGED <<handler, env, incoming, responses, faults>>

\* executeRequestCommand up to http.DefaultClient.Do: the destination has an
\* entry in serviceTypes (ScriptAssumption), and the request is sent.
SendRequest(c) ==
  /\ task[c].st = "ready" /\ task[c].dest \in Services
  /\ task' = [task EXCEPT ![c].st = "sent"]
  /\ wire' = wire \cup {c}
  /\ UNCHANGED <<handler, env, metrics, faults>>

\* Mutant: the request is counted under the name of the calling service.
RecordRequestSentBySender(c) ==
  outgoing' = IF task[c].owner = NoOwner THEN outgoing
              ELSE LET p == handler[task[c].owner].pod
                   IN  [outgoing EXCEPT ![p][ServiceOf[p]] = @ + 1]

\* RecordRequestSent, by the pod that runs the calling script.
RecordRequestSent(c) ==
  outgoing' = IF task[c].owner = NoOwner THEN outgoing
              ELSE [outgoing EXCEPT ![handler[task[c].owner].pod][task[c].dest] = @ + 1]

NetworkFault == faults < MaxFaults /\ faults' = faults + 1

\* Do returns an error and no response: nobody serves the destination, the
\* pod died before it replied, or the network failed, before or after the
\* request left it.
DoFails(c) ==
  /\ task[c].st = "sent"
  /\ \/ /\ c \in wire
        /\ \A p \in Pods : ServiceOf[p] = task[c].dest => ~up[p]
        /\ wire' = wire \ {c}
        /\ UNCHANGED faults
     \/ /\ c \in DOMAIN handler
        /\ handler[c].st = "dead" /\ ~handler[c].flushed
        /\ UNCHANGED <<wire, faults>>
     \/ /\ NetworkFault
        /\ wire' \in {wire, wire \ {c}}
  /\ Finish(c, FALSE, 0)
  /\ UNCHANGED <<env, metrics>>

\* Do returns the response as soon as its header has arrived.
DoReturns(c) ==
  /\ task[c].st = "sent"
  /\ Visible(c)
  /\ task' = [task EXCEPT ![c].st = "reading", ![c].code = handler[c].code]
  /\ RecordRequestSent(c)
  /\ UNCHANGED <<wire, handler, env, incoming, responses, faults>>

\* Mutant: the status of the response is not looked at.
ReadBodyAnyStatus(c) ==
  /\ task[c].st = "reading"
  /\ \/ handler[c].st \in {"returned", "dead"} /\ UNCHANGED faults
     \/ NetworkFault
  /\ Finish(c, TRUE, task[c].code)
  /\ UNCHANGED <<wire, env, metrics>>

\* readAllAndClose: the body ends when the callee's handler has returned or
\* its connection is gone, io.Copy's error being ignored.  Status 500, and no
\* other, is an error.
ReadBody(c) ==
  /\ task[c].st = "reading"
  /\ \/ handler[c].st \in {"returned", "dead"} /\ UNCHANGED faults
     \/ NetworkFault
  /\ Finish(c, task[c].code # 500, task[c].code)
  /\ UNCHANGED <<wire, env, metrics>>

\* A mesh proxy answers 503 or 504 (here: 503) in place of the destination,
\* which may never see the request, may be serving it or may have died over it:
\* a response, hence counted as sent, and not an error.
ProxyReply(c) ==
  /\ task[c].st = "sent"
  /\ wire' \in {wire, wire \ {c}}
  /\ NetworkFault
  /\ RecordRequestSent(c)
  /\ Finish(c, TRUE, 503)
  /\ UNCHANGED <<env, incoming, responses>>

(***************************************************************************)
(* Pods.                                                                   *)
(***************************************************************************)
\* The process of p dies: its handlers and their goroutines are gone.  What
\* they had requested of other pods runs on there.
Dying(p) == {r \in DOMAIN handler : handler[r].pod = p /\ handler[r].st # "returned"}

Crash(p) ==
  /\ up[p] /\ crashes < MaxCrashes
  /\ crashes' = crashes + 1
  /\ up' = [up EXCEPT ![p] = FALSE]
  /\ handler' = [r \in DOMAIN handler |->
                   IF r \in Dying(p) THEN [handler[r] EXCEPT !.st = "dead"] ELSE handler[r]]
  /\ task' = [c \in DOMAIN task |->
                IF task[c].owner \in Dying(p) /\ task[c].st \notin Finished
                THEN [task[c] EXCEPT !.st = "gone"] ELSE task[c]]
  /\ UNCHANGED <<wire, boot, metrics, faults>>

\* main(): the restarted process reads the same graph and registers counters
\* that start at zero.
Restart(p) ==
  /\ ~up[p]
  /\ up' = [up EXCEPT ![p] = TRUE]
  /\ boot' = [boot EXCEPT ![p] = @ + 1]
  /\ incoming' = [incoming EXCEPT ![p] = 0]
  /\ outgoing' = [outgoing EXCEPT ![p] = [s \in Services |-> 0]]
  /\ responses' = [responses EXCEPT ![p] = [k \in Codes |-> 0]]
  /\ UNCHANGED <<task, wire, handler, faults, crashes>>

-----------------------------------------------------------------------------
CallerStep(c) ==
  \/ Sleep(c)
  \/ SendRequest(c)
  \/ DoFails(c)
  \/ DoReturns(c)
  \/ ReadBody(c)
  \/ ProxyReply(c)

HandlerStep(r) ==
  \/ StartStep(r)
  \/ Join(r)
  \/ EndScript(r)
  \/ WriteResponse(r)
  \/ ReturnResponse(r)

Work ==
  \/ \E c \in DOMAIN task : CallerStep(c)
  \/ \E c \in wire, p \in Pods : Deliver(c, p)
  \/ \E r \in DOMAIN handler : HandlerStep(r)

Next == Work \/ \E p \in Pods : Crash(p) \/ Restart(p)

Spec == Init /\ [][Next]_vars

\* The Go schedulers, the network and the timers keep making progress as long
\* as something of the work is left to do; no particular part is favoured, and
\* nothing is assumed of crashes and restarts.
FairSpec == Spec /\ WF_vars(Work)

-----------------------------------------------------------------------------
TaskType ==
  [owner : {NoOwner} \cup DOMAIN handler, step : Nat, dest : Services \cup {NoService},
   hdr : SUBSET (HeaderKeys \X Clients), code : {0, 200, 500, 503},
   st : {"ready", "sent", "reading", "ok", "failed", "gone"}]

HandlerType ==
  [pod : Pods, boot : Nat, step : Nat \ {0}, errs : SUBSET DOMAIN task, code : {0} \cup Codes,
   flushed : BOOLEAN, st : {"run", "wait", "respond", "written", "returned", "dead"}]

TypeOK ==
  /\ \A c \in DOMAIN task : task[c] \in TaskType
  /\ \A r \in DOMAIN handler : handler[r] \in HandlerType
  /\ DOMAIN handler \subseteq DOMAIN task
  /\ wire \subseteq DOMAIN task \ DOMAIN handler
  /\ up \in [Pods -> BOOLEAN]
  /\ boot \in [Pods -> Nat]
  /\ incoming \in [Pods -> Nat]
  /\ outgoing \in [Pods -> [Services -> Nat]]
  /\ responses \in [Pods -> [Codes -> Nat]]
  /\ faults \in 0 .. MaxFaults
  /\ crashes \in 0 .. MaxCrashes

-----------------------------------------------------------------------------
(***************************************************************************)
(* Safety.                                                                 *)
(***************************************************************************)
\* A script runs its steps one after another: every command of a step before
\* the current one has succeeded, and no command of a later step was started
\* (the loop of ServeHTTP and its early return, handler.go:45-53).
StepsInOrder ==
  \A r \in DOMAIN handler : \A i \in 1 .. Steps(Svc(r)) :
    /\ i < handler[r].step =>
         \A j \in DOMAIN Subcommands(Script[Svc(r)][i]) :
           SubPath(r, i, j) \in DOMAIN task /\ task[SubPath(r, i, j)].st = "ok"
    /\ i > handler[r].step \/ (i = handler[r].step /\ handler[r].st = "run") =>
         Owned(r, i) = {}

\* A handler answers 500 only for a command that failed, and 200 only when its
\* last step is over and no command of any step failed, whatever the unlocked
\* appends to errs lost (handler.go:45-55, executable.go:92-95).
Faithful(r) ==
  /\ handler[r].code = 500 => \E c \in Current(r) : task[c].st = "failed"
  /\ handler[r].code = 200 =>
       /\ handler[r].step > Steps(Svc(r))
       /\ \A c \in DOMAIN task : task[c].owner = r => task[c].st = "ok"
StatusFaithful == \A r \in DOMAIN handler : Faithful(r)

\* When a handler responds, all goroutines it started have ended: a failing
\* command does not let its siblings run on behind the response
\* (executable.go:79-80, "waits for each to complete").
NoStrayGoroutine ==
  \A c \in DOMAIN task :
    task[c].owner \in DOMAIN handler /\ handler[task[c].owner].st \in Responding =>
      task[c].st \in Finished

\* d is a call made, directly or not, while serving r.
Below(d, r) == Len(r) < Len(d) /\ \A i \in 1 .. Len(r) : d[i] = r[i]

\* A call on the way from r down to d was answered by a proxy.
Prefix(c, n) == SubSeq(c, 1, n)
Masked(r, d) == \E n \in Len(r) + 1 .. Len(d) : task[Prefix(d, n)].code = 503

\* Only a proxy hides a failure: if a request was answered with 200, every
\* request any service received on its behalf, at any depth, was answered with
\* 200 too, except below a call that a proxy answered instead of the callee
\* (executable.go:63 takes every status but 500 for a success).
OnlyProxiesHideFailures ==
  \A r, d \in DOMAIN handler :
    Below(d, r) /\ handler[r].code = 200 => handler[d].code = 200 \/ Masked(r, d)

\* Every request of a call tree carries exactly the forwardable headers of the
\* client's request it descends from, so that a trace is neither broken nor
\* mixed with another one (handler.go:46, header.go:26-35, request.go:39-43).
TracePropagated ==
  \A c \in DOMAIN task :
    task[c].owner # NoOwner =>
      task[c].hdr = {kv \in task[<<c[1]>>].hdr : kv[1] \in Forwardable}

\* The requests that the present process of p has in progress.
Serving(p) ==
  {r \in DOMAIN handler :
     handler[r].pod = p /\ handler[r].boot = boot[p] /\ handler[r].st # "returned"}

\* The counters of a running pod balance: every request it received is either
\* still in progress there or counted once as a response.
RequestsConserved ==
  \A p \in Pods : up[p] =>
    incoming[p] = responses[p][200] + responses[p][500]
                  + Cardinality(Serving(p))

Incoming(s) == SumFunctionOnSet(incoming, {p \in Pods : ServiceOf[p] = s})
Outgoing(s) == SumFunction([p \in Pods |-> outgoing[p][s]])
ByClient(s) == {c \in DOMAIN task : task[c].owner = NoOwner /\ task[c].dest = s /\ task[c].code # 0}

\* The counters of callers and callees agree: no service is ever reported to
\* have been sent more requests than it reports to have received, and once all
\* is quiet the two are equal, as long as nothing crashed or was lost.
MetricsAgree ==
  faults = 0 /\ crashes = 0 =>
    \A s \in Services :
      /\ Outgoing(s) + Cardinality(ByClient(s)) <= Incoming(s)
      /\ (\A c \in DOMAIN task : task[c].st \in Finished) =>
           Outgoing(s) + Cardinality(ByClient(s)) = Incoming(s)

\* A response, once decided, is never replaced by another (the return after
\* respond, handler.go:51).
ResponseIsFinal ==
  [][\A r \in DOMAIN handler : handler[r].code # 0 => handler'[r].code = handler[r].code]_vars

\* service/README.md:19-20 describes service_outgoing_requests_total as "a
\* counter of requests sent to other services": no request that reached its
\* destination is missing from it.
SentRequestsCounted ==
  crashes = 0 =>
    \A s \in Services :
      Cardinality({c \in DOMAIN handler : /\ task[c].owner # NoOwner /\ task[c].dest = s
                                          /\ task[c].st \in Finished}) <= Outgoing(s)

-----------------------------------------------------------------------------
(***************************************************************************)
(* The inductive invariants behind the safety properties: Inv is proved in *)
(* MockServiceProofs, TreeInv in MockServiceTreeProofs; a run checks both. *)
(***************************************************************************)
Ids == Seq(Clients \cup (Nat \X Nat))
Live == {"ready", "sent", "reading"}

\* c names a command of step i of the script of s, executed for request r.
CommandPath(c, r, i, s) ==
  i \in 1 .. Steps(s) /\ \E j \in DOMAIN Subcommands(Script[s][i]) : c = SubPath(r, i, j)

\* A path tells which command of which request a task executes.
Named(c) ==
  /\ c \in Ids /\ c # <<>>
  /\ IF task[c].owner = NoOwner
     THEN \E k \in Clients : c = <<k>>
     ELSE /\ task[c].owner \in DOMAIN handler
          /\ CommandPath(c, task[c].owner, task[c].step, Svc(task[c].owner))
          /\ task[c].step <= handler[task[c].owner].step
Naming == \A c \in DOMAIN task : Named(c)

\* How far a script has come, and what its goroutines have done by then.
Reached(r) ==
  /\ \A i \in 1 .. Steps(Svc(r)) :
       i < handler[r].step =>
         \A j \in DOMAIN Subcommands(Script[Svc(r)][i]) :
           SubPath(r, i, j) \in DOMAIN task /\ task[SubPath(r, i, j)].st = "ok"
  /\ handler[r].st = "run" => Current(r) = {}
  /\ handler[r].st = "wait" =>
       /\ handler[r].step \in 1 .. Steps(Svc(r))
       /\ \A j \in DOMAIN Subcommands(Script[Svc(r)][handler[r].step]) :
            SubPath(r, handler[r].step, j) \in DOMAIN task
Progress == \A r \in DOMAIN handler : Reached(r)

\* The caller's side of a call fits the callee's side and its own owner.
TaskFate(c) ==
  /\ task[c].st = "ready" => c \notin wire /\ c \notin DOMAIN handler
  /\ task[c].code = 503 => task[c].st = "ok"
  /\ c \in wire => task[c].st \in {"sent", "failed", "gone"} \/ task[c].code = 503
  /\ task[c].st \in {"sent", "reading"} => task[c].dest \in Services
  /\ task[c].st = "reading" =>
       c \in DOMAIN handler /\ task[c].code = handler[c].code /\ task[c].code \in Codes
  /\ task[c].st = "ok" /\ c \in DOMAIN handler => handler[c].code = 200 \/ task[c].code = 503
  /\ task[c].owner \in DOMAIN handler =>
       /\ task[c].st = "gone" => handler[task[c].owner].st = "dead"
       /\ task[c].st \in Live => handler[task[c].owner].st = "wait"
TaskFates == \A c \in DOMAIN task : TaskFate(c)

HandlerFate(r) ==
  /\ handler[r].st \in {"run", "wait"} => handler[r].code = 0 /\ ~handler[r].flushed
  /\ handler[r].st \in Responding \/ handler[r].flushed => handler[r].code \in Codes
HandlerFates == \A r \in DOMAIN handler : HandlerFate(r)

\* errs never forgets that a command failed, whatever it forgets of which.
ErrsKeptBy(r) ==
  /\ \A c \in handler[r].errs : c \in Current(r) /\ task[c].st = "failed"
  /\ handler[r].st = "wait" /\ (\E c \in Current(r) : task[c].st = "failed") =>
       handler[r].errs # {}
ErrsKept == \A r \in DOMAIN handler : ErrsKeptBy(r)

\* What each step of a caller, a handler or a pod relies on.
Inv == TypeOK /\ Naming /\ Progress /\ TaskFates /\ HandlerFates /\ ErrsKept /\ StatusFaithful

\* The client's request that c descends from.
Root(c) == <<c[1]>>
Traced(c) ==
  /\ Root(c) \in DOMAIN task
  /\ task[c].owner # NoOwner => task[c].hdr = ForwardableOf(task[Root(c)].hdr)
Traces == \A c \in DOMAIN task : Traced(c)

\* Every request on the way down to c was delivered, and is the owner of the
\* next one.
Descends(c) ==
  \A n \in 1 .. Len(c) - 1 :
    /\ Prefix(c, n) \in DOMAIN handler
    /\ Prefix(c, n + 1) \in DOMAIN task
    /\ task[Prefix(c, n + 1)].owner = Prefix(c, n)
Ancestry == \A c \in DOMAIN task : Descends(c)

\* A handler that is neither over nor dead runs in the present process of its
\* pod.
Housed(r) ==
  LET p == handler[r].pod
  IN  /\ handler[r].boot <= boot[p]
      /\ handler[r].st \notin {"returned", "dead"} => up[p] /\ handler[r].boot = boot[p]
Housing == IsFiniteSet(DOMAIN handler) /\ \A r \in DOMAIN handler : Housed(r)

\* A task goes where its command says.
CommandOf(c) == Subcommands(Script[Svc(task[c].owner)][task[c].step])[c[Len(c)][2]]
Destined(c) ==
  task[c].dest = IF task[c].owner = NoOwner THEN Entry ELSE Destination(CommandOf(c))
Destinations == \A c \in DOMAIN task : Destined(c)

\* What the counters of p count, as long as nothing crashed or was lost: the
\* requests it received, and those of its own that were answered.
ReceivedBy(p) == {r \in DOMAIN handler : handler[r].pod = p}
Answered == {c \in DOMAIN task : task[c].code # 0}
SentBy(p, s) ==
  {c \in Answered : /\ task[c].owner # NoOwner /\ handler[task[c].owner].pod = p
                    /\ task[c].dest = s}
Counted(p) ==
  /\ up[p]
  /\ incoming[p] = Cardinality(ReceivedBy(p))
  /\ \A s \in Services : outgoing[p][s] = Cardinality(SentBy(p, s))

\* By then a request ends answered or was never delivered.
Undisturbed(c) ==
  /\ c \in wire => task[c].st = "sent"
  /\ task[c].st \in {"ready", "sent"} => task[c].code = 0
  /\ task[c].code # 0 => c \in DOMAIN handler
  /\ c \in DOMAIN handler =>
       /\ handler[c].st # "dead" /\ Svc(c) = task[c].dest
       /\ task[c].st \in Finished => task[c].code # 0
Calm == (\A p \in Pods : Counted(p)) /\ \A c \in DOMAIN task : Undisturbed(c)
Counting == faults = 0 /\ crashes = 0 => Calm

\* All of it: Inv, and what relates a request to the tree it belongs to and to
\* the counters.
TreeInv == Inv /\ Traces /\ Ancestry /\ Housing /\ Destinations /\ Counting

-----------------------------------------------------------------------------
(***************************************************************************)
(* Liveness.                                                               *)
(***************************************************************************)
\* The client gets a response or an error for each of its requests: neither a
\* failed nor a slow service leaves a caller waiting for ever.
EveryClientAnswered == \A k \in Clients : <>(task[<<k>>].st \in Finished)

\* Every handler ends, those included whose caller has given up on them or has
\* died; the script "ends by responding to the calling service" (README.md).
EveryHandlerEnds == <>[](\A r \in DOMAIN handler : handler[r].st \in {"returned", "dead"})
=============================================================================
