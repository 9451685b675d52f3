-------------------------- MODULE MockServiceProofs --------------------------
(***************************************************************************)
(* Proofs about MockService for every topology, deployment and client.     *)
(***************************************************************************)
EXTENDS MockService, SequenceTheorems, TLAPS

-----------------------------------------------------------------------------
(***************************************************************************)
(* Paths.                                                                  *)
(***************************************************************************)
LEMMA SubPathFacts ==
  ASSUME NEW r \in Ids, NEW i \in Nat, NEW j \in Nat
  PROVE  /\ SubPath(r, i, j) \in Ids
         /\ SubPath(r, i, j) # <<>>
         /\ SubPath(r, i, j)[Len(SubPath(r, i, j))] = <<i, j>>
         /\ SubPath(r, i, j)[Len(SubPath(r, i, j))][2] = j
         /\ r # <<>> => SubPath(r, i, j)[1] = r[1]
<1>1. <<i, j>> \in Clients \cup (Nat \X Nat)
  OBVIOUS
<1>2. /\ Append(r, <<i, j>>) \in Ids
      /\ Append(r, <<i, j>>) # <<>>
      /\ Len(Append(r, <<i, j>>)) = Len(r) + 1
      /\ \A n \in 1 .. Len(r) : Append(r, <<i, j>>)[n] = r[n]
      /\ Append(r, <<i, j>>)[Len(r) + 1] = <<i, j>>
  BY <1>1, AppendProperties DEF Ids
<1>3. r # <<>> => 1 \in 1 .. Len(r)
  BY EmptySeq, LenProperties DEF Ids
<1>4. QED
  BY <1>2, <1>3 DEF SubPath

LEMMA SubPathInjective ==
  ASSUME NEW r \in Ids, NEW i \in Nat, NEW j \in Nat,
         NEW q \in Ids, NEW k \in Nat, NEW l \in Nat,
         SubPath(r, i, j) = SubPath(q, k, l)
  PROVE  r = q /\ i = k /\ j = l
<1>1. <<i, j>> \in Clients \cup (Nat \X Nat) /\ <<k, l>> \in Clients \cup (Nat \X Nat)
  OBVIOUS
<1>2. Append(r, <<i, j>>) = Append(q, <<k, l>>)
  BY DEF SubPath
<1>3. r = q /\ <<i, j>> = <<k, l>>
  BY <1>1, <1>2, AppendInjective DEF Ids
<1>4. QED
  BY <1>3

\* A client's own request is nobody's command.
LEMMA SubPathNotClient ==
  ASSUME NEW r \in Ids, r # <<>>, NEW i \in Nat, NEW j \in Nat, NEW k
  PROVE  SubPath(r, i, j) # <<k>>
<1>1. <<i, j>> \in Clients \cup (Nat \X Nat)
  OBVIOUS
<1>2. Len(Append(r, <<i, j>>)) = Len(r) + 1
  BY <1>1, AppendProperties DEF Ids
<1>3. Len(r) \in Nat \ {0}
  BY EmptySeq DEF Ids
<1>4. ASSUME Append(r, <<i, j>>) = <<k>> PROVE FALSE
  <2>1. Len(<<k>>) = 1
    OBVIOUS
  <2>2. Len(r) + 1 = 1
    BY <1>2, <1>4, <2>1
  <2>3. QED
    BY <2>2, <1>3
<1>5. QED
  BY <1>4 DEF SubPath

\* What the scripts of a validated topology give for one command.
LEMMA ScriptFacts ==
  ASSUME NEW s \in Services, NEW i \in 1 .. Steps(s)
  PROVE  /\ Steps(s) \in Nat
         /\ \A j \in DOMAIN Subcommands(Script[s][i]) :
              /\ j \in Nat
              /\ LET cmd == Subcommands(Script[s][i])[j]
                 IN  cmd.op = "call" => cmd.service \in Services
<1>1. IsSequence(Script[s]) /\ ValidScript(Script[s], Services)
  BY ScriptAssumption
<1>2. i \in DOMAIN Script[s]
  BY <1>1 DEF IsSequence, Steps
<1>3. IsSequence(Subcommands(Script[s][i]))
  BY <1>2, ScriptAssumption
<1>4. \A j \in DOMAIN Subcommands(Script[s][i]) : j \in Nat
  BY <1>3 DEF IsSequence
<1>5. \A j \in DOMAIN Subcommands(Script[s][i]) :
         LET cmd == Subcommands(Script[s][i])[j]
         IN  cmd.op = "call" => cmd.service \in Services
  BY <1>1, <1>2 DEF ValidScript
<1>6. QED
  BY <1>1, <1>4, <1>5 DEF IsSequence, Steps

-----------------------------------------------------------------------------
(***************************************************************************)
(* What the steps of a caller have in common: task c, still live, gets     *)
(* status s and code k; the handler it belongs to learns of a failure.     *)
(***************************************************************************)
TaskUpdate(c, s, k) ==
  /\ DOMAIN task' = DOMAIN task
  /\ \A d \in DOMAIN task : d # c => task'[d] = task[d]
  /\ task'[c] = [owner |-> task[c].owner, step |-> task[c].step, dest |-> task[c].dest,
                 hdr |-> task[c].hdr, st |-> s, code |-> k]

ErrsUpdate(c, s) ==
  /\ DOMAIN handler' = DOMAIN handler
  /\ s # "failed" \/ task[c].owner = NoOwner => handler' = handler
  /\ s = "failed" /\ task[c].owner # NoOwner =>
       \E kept \in SUBSET {d \in Current(task[c].owner) : task[d].st = "failed"} :
         handler' = [handler EXCEPT ![task[c].owner].errs = kept \cup {c}]

WireUpdate(c, s) ==
  /\ s = "sent" => task[c].st = "ready" /\ task[c].dest \in Services /\ wire' = wire \cup {c}
  /\ s # "sent" => wire' \subseteq wire
  /\ s = "reading" => c \notin wire'

Outcome(c, s, k) ==
  /\ task[c].st \in Live
  /\ TaskUpdate(c, s, k)
  /\ ErrsUpdate(c, s)
  /\ WireUpdate(c, s)
  /\ s = "reading" => /\ c \in DOMAIN handler /\ k = handler[c].code /\ k \in Codes
                      /\ task[c].dest \in Services
  /\ k = 503 => s = "ok" /\ task[c].dest \in Services
  /\ s = "ok" /\ k # 503 =>
       c \notin wire' /\ (c \in DOMAIN handler => handler[c].code = 200)
  /\ UNCHANGED <<env, incoming, responses>>
  /\ faults' \in 0 .. MaxFaults
  /\ outgoing' = outgoing \/ (task[c].dest \in Services /\ RecordRequestSent(c))

Results == {"sent", "reading", "ok", "failed"}
Statuses == {0, 200, 500, 503}

LEMMA UpdateTask ==
  ASSUME TypeOK, NEW c \in DOMAIN task, NEW s, NEW k,
         \/ task' = [task EXCEPT ![c].st = s, ![c].code = k]
         \/ task' = [task EXCEPT ![c].st = s] /\ k = task[c].code
  PROVE  TaskUpdate(c, s, k)
<1>1. task[c] \in TaskType
  BY DEF TypeOK
<1>2. task[c] = [owner |-> task[c].owner, step |-> task[c].step, dest |-> task[c].dest,
                 hdr |-> task[c].hdr, st |-> task[c].st, code |-> task[c].code]
  BY <1>1 DEF TaskType
<1>3. CASE task' = [task EXCEPT ![c].st = s, ![c].code = k]
  <2>1. task'[c] = [[task[c] EXCEPT !.st = s] EXCEPT !.code = k]
    BY <1>3
  <2>2. QED
    BY <1>2, <1>3, <2>1 DEF TaskUpdate
<1>4. CASE task' = [task EXCEPT ![c].st = s] /\ k = task[c].code
  <2>1. task'[c] = [task[c] EXCEPT !.st = s]
    BY <1>4
  <2>2. QED
    BY <1>2, <1>4, <2>1 DEF TaskUpdate
<1>5. QED
  BY <1>3, <1>4

LEMMA FinishUpdates ==
  ASSUME TypeOK, NEW c \in DOMAIN task, NEW good \in BOOLEAN, NEW k,
         Finish(c, good, k)
  PROVE  /\ good => TaskUpdate(c, "ok", k) /\ ErrsUpdate(c, "ok")
         /\ ~good => TaskUpdate(c, "failed", k) /\ ErrsUpdate(c, "failed")
<1>1. CASE good
  <2>1. task' = [task EXCEPT ![c].st = "ok", ![c].code = k]
    BY <1>1 DEF Finish
  <2>2. TaskUpdate(c, "ok", k)
    BY <2>1, UpdateTask
  <2>3. QED
    BY <1>1, <2>2 DEF Finish, ErrsUpdate
<1>2. CASE ~good
  <2>1. task' = [task EXCEPT ![c].st = "failed", ![c].code = k]
    BY <1>2 DEF Finish
  <2>2. TaskUpdate(c, "failed", k)
    BY <2>1, UpdateTask
  <2>3. QED
    BY <1>2, <2>2 DEF Finish, ErrsUpdate
<1>3. QED
  BY <1>1, <1>2

LEMMA CallerEffect ==
  ASSUME TypeOK, TaskFates, HandlerFates, NEW c \in DOMAIN task, CallerStep(c)
  PROVE  \E s \in Results, k \in Statuses : Outcome(c, s, k)
<1>t. task[c] \in TaskType /\ faults \in 0 .. MaxFaults
  BY DEF TypeOK
<1>n. MaxFaults \in Nat
  BY ConstantsAssumption
<1>f. NetworkFault => faults' \in 0 .. MaxFaults
  BY <1>t, <1>n DEF NetworkFault
<1>1. CASE Sleep(c)
  <2>1. TaskUpdate(c, "ok", 0) /\ ErrsUpdate(c, "ok")
    BY <1>1, FinishUpdates DEF Sleep, Statuses
  <2>2. c \notin DOMAIN handler /\ c \notin wire
    BY <1>1 DEF Sleep, TaskFates, TaskFate
  <2>3. Outcome(c, "ok", 0)
    BY <1>1, <2>1, <2>2, <1>t DEF Sleep, Outcome, WireUpdate, Live, metrics, env
  <2>4. QED
    BY <2>3 DEF Results, Statuses
<1>2. CASE SendRequest(c)
  <2>1. TaskUpdate(c, "sent", task[c].code)
    BY <1>2, UpdateTask DEF SendRequest
  <2>4. task[c].code # 503
    BY <1>2 DEF SendRequest, TaskFates, TaskFate
  <2>2. Outcome(c, "sent", task[c].code)
    BY <1>2, <2>1, <2>4, <1>t DEF SendRequest, Outcome, WireUpdate, ErrsUpdate, Live, metrics, env
  <2>3. QED
    BY <2>2, <1>t DEF Results, Statuses, TaskType
<1>3. CASE DoFails(c)
  <2>1. TaskUpdate(c, "failed", 0) /\ ErrsUpdate(c, "failed")
    BY <1>3, FinishUpdates DEF DoFails, Statuses
  <2>2. wire' \subseteq wire /\ faults' \in 0 .. MaxFaults
    BY <1>3, <1>t, <1>f DEF DoFails
  <2>3. Outcome(c, "failed", 0)
    BY <1>3, <2>1, <2>2 DEF DoFails, Outcome, WireUpdate, Live, metrics, env
  <2>4. QED
    BY <2>3 DEF Results, Statuses
<1>4. CASE DoReturns(c)
  <2>1. c \in DOMAIN handler /\ handler[c].code \in Codes
    BY <1>4 DEF DoReturns, Visible, HandlerFates, HandlerFate, Responding
  <2>2. TaskUpdate(c, "reading", handler[c].code)
    BY <1>4, UpdateTask DEF DoReturns
  <2>3. c \notin wire
    BY <2>1 DEF TypeOK
  <2>4. task[c].dest \in Services
    BY <1>4 DEF DoReturns, TaskFates, TaskFate
  <2>5. Outcome(c, "reading", handler[c].code)
    BY <1>4, <1>t, <2>1, <2>2, <2>3, <2>4
       DEF DoReturns, Outcome, WireUpdate, ErrsUpdate, Live, metrics, env, Codes
  <2>6. QED
    BY <2>1, <2>5 DEF Results, Statuses, Codes
<1>5. CASE ReadBody(c)
  <2>1. /\ c \in DOMAIN handler /\ task[c].code = handler[c].code
        /\ task[c].st = "reading" /\ task[c].code \in Codes
    BY <1>5 DEF ReadBody, TaskFates, TaskFate
  <2>2. c \notin wire
    BY <2>1 DEF TypeOK
  <2>3. faults' \in 0 .. MaxFaults /\ wire' = wire
    BY <1>5, <1>t, <1>f DEF ReadBody
  <2>4. CASE task[c].code # 500
    <3>1. Finish(c, TRUE, task[c].code)
      BY <1>5, <2>4 DEF ReadBody
    <3>2. TaskUpdate(c, "ok", task[c].code) /\ ErrsUpdate(c, "ok")
      BY <3>1, FinishUpdates
    <3>3. Outcome(c, "ok", task[c].code)
      BY <1>5, <2>1, <2>2, <2>3, <2>4, <3>2
         DEF ReadBody, Outcome, WireUpdate, Live, metrics, env, Codes
    <3>4. QED
      BY <3>3, <2>1 DEF Results, Statuses, Codes
  <2>5. CASE task[c].code = 500
    <3>1. Finish(c, FALSE, task[c].code)
      BY <1>5, <2>5 DEF ReadBody
    <3>2. TaskUpdate(c, "failed", task[c].code) /\ ErrsUpdate(c, "failed")
      BY <3>1, FinishUpdates
    <3>3. Outcome(c, "failed", task[c].code)
      BY <1>5, <2>1, <2>3, <2>5, <3>2 DEF ReadBody, Outcome, WireUpdate, Live, metrics, env
    <3>4. QED
      BY <3>3, <2>1 DEF Results, Statuses, Codes
  <2>6. QED
    BY <2>4, <2>5
<1>6. CASE ProxyReply(c)
  <2>1. TaskUpdate(c, "ok", 503) /\ ErrsUpdate(c, "ok")
    BY <1>6, FinishUpdates DEF ProxyReply, Statuses
  <2>2. task[c].dest \in Services
    BY <1>6 DEF ProxyReply, TaskFates, TaskFate
  <2>3. wire' \subseteq wire
    BY <1>6 DEF ProxyReply
  <2>4. Outcome(c, "ok", 503)
    BY <1>6, <2>1, <2>2, <2>3, <1>f DEF ProxyReply, Outcome, WireUpdate, Live, metrics, env
  <2>5. QED
    BY <2>4 DEF Results, Statuses
<1>7. QED
  BY <1>1, <1>2, <1>3, <1>4, <1>5, <1>6 DEF CallerStep

-----------------------------------------------------------------------------
(***************************************************************************)
(* Type correctness.                                                       *)
(***************************************************************************)
LEMMA TypeInit == Init => TypeOK
<1> SUFFICES ASSUME Init PROVE TypeOK
  OBVIOUS
<1>1. DOMAIN handler = {}
  BY DEF Init
<1>2. PICK sent \in [Clients -> SUBSET HeaderKeys] :
        task = [c \in {<<k>> : k \in Clients} |->
                  [owner |-> NoOwner, step |-> 0, dest |-> Entry, st |-> "ready", code |-> 0,
                   hdr |-> sent[c[1]] \X {c[1]}]]
  BY DEF Init
<1>3. ASSUME NEW c \in DOMAIN task PROVE task[c] \in TaskType
  <2>1. PICK k \in Clients : c = <<k>>
    BY <1>2
  <2>2. task[c] = [owner |-> NoOwner, step |-> 0, dest |-> Entry, st |-> "ready", code |-> 0,
                   hdr |-> sent[k] \X {k}]
    BY <1>2, <2>1
  <2>3. sent[k] \X {k} \in SUBSET (HeaderKeys \X Clients)
    OBVIOUS
  <2>4. QED
    BY <2>2, <2>3, ConstantsAssumption DEF TaskType
<1>4. /\ up \in [Pods -> BOOLEAN]
      /\ boot \in [Pods -> Nat]
      /\ incoming \in [Pods -> Nat]
      /\ outgoing \in [Pods -> [Services -> Nat]]
      /\ responses \in [Pods -> [Codes -> Nat]]
      /\ faults \in 0 .. MaxFaults
      /\ crashes \in 0 .. MaxCrashes
  BY ConstantsAssumption DEF Init
<1>5. wire = {}
  BY DEF Init
<1>6. QED
  BY <1>1, <1>3, <1>4, <1>5 DEF TypeOK

LEMMA TypeCaller ==
  ASSUME Inv, NEW c \in DOMAIN task, CallerStep(c)
  PROVE  TypeOK'
<1>1. PICK s \in Results, k \in Statuses : Outcome(c, s, k)
  BY CallerEffect DEF Inv
<1> USE DEF Inv
<1>2. DOMAIN task' = DOMAIN task /\ DOMAIN handler' = DOMAIN handler
  BY <1>1 DEF Outcome, TaskUpdate, ErrsUpdate
<1>3. ASSUME NEW d \in DOMAIN task' PROVE (task[d] \in TaskType)'
  <2>1. task[d] \in TaskType
    BY <1>2 DEF TypeOK
  <2>2. CASE d # c
    BY <1>1, <1>2, <2>1, <2>2 DEF Outcome, TaskUpdate, TaskType
  <2>3. CASE d = c
    BY <1>1, <1>2, <2>1, <2>3 DEF Outcome, TaskUpdate, TaskType, Results, Statuses
  <2>4. QED
    BY <2>2, <2>3
<1>4. ASSUME NEW r \in DOMAIN handler' PROVE (handler[r] \in HandlerType)'
  <2>1. handler[r] \in HandlerType
    BY <1>2 DEF TypeOK
  <2>2. CASE handler' = handler
    BY <1>2, <2>1, <2>2 DEF HandlerType
  <2>3. CASE handler' # handler
    <3>1. PICK kept \in SUBSET {d \in Current(task[c].owner) : task[d].st = "failed"} :
            handler' = [handler EXCEPT ![task[c].owner].errs = kept \cup {c}]
      BY <1>1, <2>3 DEF Outcome, ErrsUpdate
    <3>2. kept \cup {c} \in SUBSET DOMAIN task
      BY DEF Current, Owned
    <3>3. QED
      BY <1>2, <2>1, <3>1, <3>2 DEF HandlerType
  <2>4. QED
    BY <2>2, <2>3
<1>5. (wire \subseteq DOMAIN task \ DOMAIN handler)'
  BY <1>1, <1>2 DEF Outcome, WireUpdate, TypeOK, TaskFates, TaskFate
<1>6. (outgoing \in [Pods -> [Services -> Nat]])'
  <2>1. outgoing \in [Pods -> [Services -> Nat]]
    BY DEF TypeOK
  <2>2. CASE outgoing' = outgoing
    BY <2>1, <2>2
  <2>3. CASE outgoing' # outgoing
    <3>1. task[c].dest \in Services /\ task[c].owner # NoOwner
          /\ outgoing' = [outgoing EXCEPT ![handler[task[c].owner].pod][task[c].dest] = @ + 1]
      BY <1>1, <2>3 DEF Outcome, RecordRequestSent
    <3>2. handler[task[c].owner].pod \in Pods
      BY <3>1 DEF Naming, Named, CommandPath, TypeOK, HandlerType
    <3>3. QED
      BY <2>1, <3>1, <3>2
  <2>4. QED
    BY <2>2, <2>3
<1>7. QED
  BY <1>1, <1>2, <1>3, <1>4, <1>5, <1>6 DEF Outcome, TypeOK, env

\* The path of a command determines whose it is.
LEMMA OwnerOfSubPath ==
  ASSUME Inv, NEW r \in DOMAIN handler, NEW i \in 1 .. Steps(Svc(r)),
         NEW j \in DOMAIN Subcommands(Script[Svc(r)][i]), SubPath(r, i, j) \in DOMAIN task
  PROVE  task[SubPath(r, i, j)].owner = r /\ task[SubPath(r, i, j)].step = i
<1> USE DEF Inv
<1> DEFINE c == SubPath(r, i, j)
           q == task[c].owner
           k == task[c].step
<1>1. Svc(r) \in Services /\ r \in Ids /\ r # <<>>
  BY ConstantsAssumption DEF TypeOK, HandlerType, Svc, Naming, Named
<1>2. i \in Nat /\ j \in Nat
  BY <1>1, ScriptFacts
<1>3. q # NoOwner
  BY <1>1, <1>2, SubPathNotClient DEF Naming, Named
<1>4. q \in DOMAIN handler /\ CommandPath(c, q, k, Svc(q))
  BY <1>3 DEF Naming, Named
<1>5. k \in 1 .. Steps(Svc(q))
  BY <1>4 DEF CommandPath
<1>6. PICK l \in DOMAIN Subcommands(Script[Svc(q)][k]) : c = SubPath(q, k, l)
  BY <1>4 DEF CommandPath
<1>7. q \in Ids /\ Svc(q) \in Services
  BY <1>4, ConstantsAssumption DEF TypeOK, HandlerType, Svc, Naming, Named
<1>8. k \in Nat /\ l \in Nat
  BY <1>5, <1>7, ScriptFacts
<1>9. SubPath(r, i, j) = SubPath(q, k, l)
  BY <1>6
<1>10. q = r /\ k = i
  <2> HIDE DEF q, k, c
  <2>1. QED
    BY <1>1, <1>2, <1>7, <1>8, <1>9, SubPathInjective
<1>11. QED
  BY <1>10

\* The tasks of a step are new, and each runs its own command.
LEMMA StartStepEffect ==
  ASSUME Inv, NEW r \in DOMAIN handler, StartStep(r)
  PROVE  LET i    == handler[r].step
             cmds == Subcommands(Script[Svc(r)][i])
             new  == {SubPath(r, i, j) : j \in DOMAIN cmds}
         IN  /\ handler[r].st = "run" /\ i \in 1 .. Steps(Svc(r))
             /\ new \cap DOMAIN task = {}
             /\ DOMAIN task' = DOMAIN task \cup new
             /\ \A c \in DOMAIN task : task'[c] = task[c]
             /\ \A j \in DOMAIN cmds : task'[SubPath(r, i, j)] = NewTask(r, i, cmds[j])
             /\ handler' = [handler EXCEPT ![r].st = "wait", ![r].errs = {}]
             /\ UNCHANGED <<wire, env, metrics, faults>>
<1> USE DEF Inv
<1> DEFINE i == handler[r].step
           cmds == Subcommands(Script[Svc(r)][i])
           new == {SubPath(r, i, j) : j \in DOMAIN cmds}
<1>1. Svc(r) \in Services /\ r \in Ids /\ r # <<>> /\ i \in Nat \ {0}
  BY ConstantsAssumption DEF TypeOK, HandlerType, Svc, Naming, Named, CommandPath
<1>2. handler[r].st = "run" /\ i <= Steps(Svc(r))
  BY DEF StartStep
<1>3. Steps(Svc(r)) \in Nat
  BY <1>1, ScriptAssumption DEF Steps, IsSequence
<1>4. i \in 1 .. Steps(Svc(r))
  BY <1>1, <1>2, <1>3
<1>5. \A j \in DOMAIN cmds : j \in Nat
  BY <1>1, <1>4, ScriptFacts
<1>6. ASSUME NEW c \in new PROVE c \notin DOMAIN task
  <2>1. PICK j \in DOMAIN cmds : c = SubPath(r, i, j)
    OBVIOUS
  <2>2. SUFFICES ASSUME c \in DOMAIN task PROVE FALSE
    OBVIOUS
  <2>3. task[c].owner = r /\ task[c].step = i
    BY <1>4, <2>1, <2>2, OwnerOfSubPath
  <2>4. c \in Current(r)
    BY <2>2, <2>3 DEF Current, Owned
  <2>5. QED
    BY <1>2, <2>4 DEF Progress, Reached
<1>7. /\ DOMAIN task' = DOMAIN task \cup new
      /\ \A c \in DOMAIN task : task'[c] = task[c]
  BY <1>6 DEF StartStep
<1>8. ASSUME NEW j \in DOMAIN cmds
      PROVE  task'[SubPath(r, i, j)] = NewTask(r, i, cmds[j])
  <2> DEFINE c == SubPath(r, i, j)
  <2>1. c[Len(c)][2] = j
    BY <1>1, <1>5, SubPathFacts
  <2>2. task'[c] = NewTask(r, i, cmds[c[Len(c)][2]])
    BY DEF StartStep
  <2>3. QED
    BY <2>1, <2>2
<1>9. handler' = [handler EXCEPT ![r].st = "wait", ![r].errs = {}]
      /\ UNCHANGED <<wire, env, metrics, faults>>
  BY DEF StartStep
<1>10. QED
  BY <1>2, <1>4, <1>6, <1>7, <1>8, <1>9

\* The steps of a handler that start no task.
HandlerMove(r, st, step, code) ==
  /\ DOMAIN handler' = DOMAIN handler
  /\ \A q \in DOMAIN handler : q # r => handler'[q] = handler[q]
  /\ \E flushed \in BOOLEAN :
       /\ handler'[r] = [pod |-> handler[r].pod, boot |-> handler[r].boot, step |-> step,
                         st |-> st, errs |-> handler[r].errs, code |-> code,
                         flushed |-> flushed]
       /\ handler[r].st # "respond" => flushed = handler[r].flushed

Joined(r) == handler[r].st = "wait" /\ \A c \in Current(r) : task[c].st \in Finished

Moves(r) ==
  \/ Joined(r) /\ handler[r].errs = {} /\ HandlerMove(r, "run", handler[r].step + 1, handler[r].code)
  \/ Joined(r) /\ handler[r].errs # {} /\ HandlerMove(r, "respond", handler[r].step, 500)
  \/ /\ handler[r].st = "run" /\ handler[r].step > Steps(Svc(r))
     /\ HandlerMove(r, "respond", handler[r].step, 200)
  \/ handler[r].st = "respond" /\ HandlerMove(r, "written", handler[r].step, handler[r].code)
  \/ handler[r].st = "written" /\ HandlerMove(r, "returned", handler[r].step, handler[r].code)

LEMMA RespondRecord ==
  ASSUME NEW h, NEW g, NEW k,
         h = [pod |-> h.pod, boot |-> h.boot, step |-> h.step, st |-> h.st, errs |-> h.errs,
              code |-> h.code, flushed |-> h.flushed],
         g = [[h EXCEPT !.st = "respond"] EXCEPT !.code = k]
  PROVE  g = [pod |-> h.pod, boot |-> h.boot, step |-> h.step, st |-> "respond",
              errs |-> h.errs, code |-> k, flushed |-> h.flushed]
OBVIOUS

LEMMA HandlerEffect ==
  ASSUME TypeOK, NEW r \in DOMAIN handler,
         Join(r) \/ EndScript(r) \/ WriteResponse(r) \/ ReturnResponse(r)
  PROVE  Moves(r) /\ UNCHANGED <<task, wire, env, incoming, outgoing, faults>>
<1>1. handler[r] = [pod |-> handler[r].pod, boot |-> handler[r].boot, step |-> handler[r].step,
                    st |-> handler[r].st, errs |-> handler[r].errs, code |-> handler[r].code,
                    flushed |-> handler[r].flushed]
      /\ handler[r].flushed \in BOOLEAN
  BY DEF TypeOK, HandlerType
<1>2. CASE Join(r)
  <2>1. CASE handler[r].errs = {}
    <3>1. handler' = [handler EXCEPT ![r].st = "run", ![r].step = @ + 1]
      BY <1>2, <2>1 DEF Join
    <3>2. handler'[r] = [[handler[r] EXCEPT !.st = "run"] EXCEPT !.step = @ + 1]
      BY <3>1
    <3>3. HandlerMove(r, "run", handler[r].step + 1, handler[r].code)
      BY <1>1, <3>1, <3>2 DEF HandlerMove
    <3>4. QED
      BY <1>2, <2>1, <3>3 DEF Join, Moves, Joined, metrics
  <2>2. CASE handler[r].errs # {}
    <3>1. handler' = [handler EXCEPT ![r].st = "respond", ![r].code = 500]
      BY <1>2, <2>2 DEF Join
    <3>2. handler'[r] = [[handler[r] EXCEPT !.st = "respond"] EXCEPT !.code = 500]
      BY <3>1
    <3>3. handler'[r] = [pod |-> handler[r].pod, boot |-> handler[r].boot,
                         step |-> handler[r].step, st |-> "respond", errs |-> handler[r].errs,
                         code |-> 500, flushed |-> handler[r].flushed]
      <4> DEFINE h == handler[r]
                 g == handler'[r]
      <4>1. /\ h = [pod |-> h.pod, boot |-> h.boot, step |-> h.step, st |-> h.st,
                    errs |-> h.errs, code |-> h.code, flushed |-> h.flushed]
            /\ g = [[h EXCEPT !.st = "respond"] EXCEPT !.code = 500]
        BY <1>1, <3>2
      <4>2. g = [pod |-> h.pod, boot |-> h.boot, step |-> h.step, st |-> "respond",
                 errs |-> h.errs, code |-> 500, flushed |-> h.flushed]
        <5> HIDE DEF h, g
        <5>1. QED
          BY <4>1, RespondRecord
      <4>3. QED
        BY <4>2
    <3>4. DOMAIN handler' = DOMAIN handler
          /\ \A q \in DOMAIN handler : q # r => handler'[q] = handler[q]
      BY <3>1
    <3>5. HandlerMove(r, "respond", handler[r].step, 500)
      BY <1>1, <3>3, <3>4 DEF HandlerMove
    <3>6. QED
      BY <1>2, <2>2, <3>5 DEF Join, Moves, Joined, metrics
  <2>3. QED
    BY <2>1, <2>2
<1>3. CASE EndScript(r)
  <2>1. handler' = [handler EXCEPT ![r].st = "respond", ![r].code = 200]
    BY <1>3 DEF EndScript
  <2>2. handler'[r] = [[handler[r] EXCEPT !.st = "respond"] EXCEPT !.code = 200]
    BY <2>1
  <2>3. HandlerMove(r, "respond", handler[r].step, 200)
    BY <1>1, <2>1, <2>2 DEF HandlerMove
  <2>4. QED
    BY <1>3, <2>3 DEF EndScript, Moves, metrics
<1>4. CASE WriteResponse(r)
  <2>1. PICK big \in BOOLEAN :
          handler' = [handler EXCEPT ![r].st = "written", ![r].flushed = big]
    BY <1>4 DEF WriteResponse
  <2>2. handler'[r] = [[handler[r] EXCEPT !.st = "written"] EXCEPT !.flushed = big]
    BY <2>1
  <2>3. handler[r].st = "respond"
    BY <1>4 DEF WriteResponse
  <2>4. HandlerMove(r, "written", handler[r].step, handler[r].code)
    BY <1>1, <2>1, <2>2, <2>3 DEF HandlerMove
  <2>5. QED
    BY <1>4, <2>3, <2>4 DEF WriteResponse, Moves, metrics
<1>5. CASE ReturnResponse(r)
  <2>1. handler' = [handler EXCEPT ![r].st = "returned"]
    BY <1>5 DEF ReturnResponse
  <2>2. handler'[r] = [handler[r] EXCEPT !.st = "returned"]
    BY <2>1
  <2>3. HandlerMove(r, "returned", handler[r].step, handler[r].code)
    BY <1>1, <2>1, <2>2 DEF HandlerMove
  <2>4. QED
    BY <1>5, <2>3 DEF ReturnResponse, Moves
<1>6. QED
  BY <1>2, <1>3, <1>4, <1>5

\* The same, field by field.
LEMMA MoveFields ==
  ASSUME NEW r \in DOMAIN handler, NEW st, NEW step, NEW code, HandlerMove(r, st, step, code)
  PROVE  /\ DOMAIN handler' = DOMAIN handler
         /\ \A q \in DOMAIN handler : q # r => handler'[q] = handler[q]
         /\ handler'[r].pod = handler[r].pod /\ handler'[r].boot = handler[r].boot
         /\ handler'[r].step = step /\ handler'[r].st = st /\ handler'[r].code = code
         /\ handler'[r].errs = handler[r].errs
         /\ handler[r].st # "respond" => handler'[r].flushed = handler[r].flushed
  BY DEF HandlerMove

LEMMA CallerFields ==
  ASSUME TypeOK, NEW c \in DOMAIN task, NEW s, ErrsUpdate(c, s)
  PROVE  /\ DOMAIN handler' = DOMAIN handler
         /\ \A r \in DOMAIN handler :
              /\ handler'[r].pod = handler[r].pod /\ handler'[r].step = handler[r].step
              /\ handler'[r].st = handler[r].st /\ handler'[r].code = handler[r].code
              /\ handler'[r].flushed = handler[r].flushed /\ handler'[r].boot = handler[r].boot
              /\ s # "failed" \/ r # task[c].owner => handler'[r].errs = handler[r].errs
              /\ s = "failed" /\ r = task[c].owner /\ r # NoOwner =>
                   /\ c \in handler'[r].errs
                   /\ \A d \in handler'[r].errs : d = c \/ (d \in Current(r) /\ task[d].st = "failed")
<1>1. DOMAIN handler' = DOMAIN handler
  BY DEF ErrsUpdate
<1>2. CASE s # "failed" \/ task[c].owner = NoOwner
  BY <1>2 DEF ErrsUpdate
<1>3. CASE s = "failed" /\ task[c].owner # NoOwner
  <2> DEFINE o == task[c].owner
  <2>1. PICK kept \in SUBSET {d \in Current(o) : task[d].st = "failed"} :
          handler' = [handler EXCEPT ![o].errs = kept \cup {c}]
    BY <1>3 DEF ErrsUpdate
  <2>2. \A r \in DOMAIN handler : r # o => handler'[r] = handler[r]
    BY <2>1
  <2>3. ASSUME o \in DOMAIN handler
        PROVE  handler'[o] = [handler[o] EXCEPT !.errs = kept \cup {c}]
    BY <2>1, <2>3
  <2>4. ASSUME o \in DOMAIN handler
        PROVE  /\ handler'[o].pod = handler[o].pod /\ handler'[o].step = handler[o].step
               /\ handler'[o].st = handler[o].st /\ handler'[o].code = handler[o].code
               /\ handler'[o].flushed = handler[o].flushed /\ handler'[o].boot = handler[o].boot
               /\ handler'[o].errs = kept \cup {c}
    <3>1. handler[o] \in HandlerType
      BY <2>4 DEF TypeOK
    <3> HIDE DEF o
    <3>2. QED
      BY <2>3, <2>4, <3>1 DEF HandlerType
  <2>5. QED
    BY <1>1, <1>3, <2>2, <2>4
<1>4. QED
  BY <1>2, <1>3

\* What a crash leaves of the tasks and handlers.
LEMMA CrashEffect ==
  ASSUME TypeOK, NEW p \in Pods, Crash(p)
  PROVE  /\ DOMAIN task' = DOMAIN task /\ DOMAIN handler' = DOMAIN handler
         /\ \A r \in DOMAIN handler :
              /\ handler'[r] \in HandlerType
              /\ handler'[r].pod = handler[r].pod /\ handler'[r].step = handler[r].step
              /\ handler'[r].errs = handler[r].errs /\ handler'[r].code = handler[r].code
              /\ handler'[r].flushed = handler[r].flushed /\ handler'[r].boot = handler[r].boot
              /\ handler'[r].st = IF r \in Dying(p) THEN "dead" ELSE handler[r].st
         /\ \A c \in DOMAIN task :
              /\ task'[c] \in TaskType
              /\ task'[c].owner = task[c].owner /\ task'[c].step = task[c].step
              /\ task'[c].dest = task[c].dest /\ task'[c].hdr = task[c].hdr
              /\ task'[c].code = task[c].code
              /\ task'[c].st = IF task[c].owner \in Dying(p) /\ task[c].st \notin Finished
                               THEN "gone" ELSE task[c].st
         /\ UNCHANGED <<wire, boot, metrics, faults>>
<1>1. DOMAIN task' = DOMAIN task /\ DOMAIN handler' = DOMAIN handler
  BY DEF Crash
<1>2. ASSUME NEW r \in DOMAIN handler
      PROVE  /\ handler'[r] \in HandlerType
             /\ handler'[r].pod = handler[r].pod /\ handler'[r].step = handler[r].step
             /\ handler'[r].errs = handler[r].errs /\ handler'[r].code = handler[r].code
             /\ handler'[r].flushed = handler[r].flushed /\ handler'[r].boot = handler[r].boot
             /\ handler'[r].st = IF r \in Dying(p) THEN "dead" ELSE handler[r].st
  <2>1. handler[r] \in HandlerType
    BY DEF TypeOK
  <2>2. handler'[r] = IF r \in Dying(p) THEN [handler[r] EXCEPT !.st = "dead"] ELSE handler[r]
    BY DEF Crash
  <2>3. QED
    BY <2>1, <2>2 DEF HandlerType
<1>3. ASSUME NEW c \in DOMAIN task
      PROVE  /\ task'[c] \in TaskType
             /\ task'[c].owner = task[c].owner /\ task'[c].step = task[c].step
             /\ task'[c].dest = task[c].dest /\ task'[c].hdr = task[c].hdr
             /\ task'[c].code = task[c].code
             /\ task'[c].st = IF task[c].owner \in Dying(p) /\ task[c].st \notin Finished
                              THEN "gone" ELSE task[c].st
  <2>1. task[c] \in TaskType
    BY DEF TypeOK
  <2>2. task'[c] = IF task[c].owner \in Dying(p) /\ task[c].st \notin Finished
                   THEN [task[c] EXCEPT !.st = "gone"] ELSE task[c]
    BY DEF Crash
  <2>3. QED
    BY <2>1, <2>2 DEF TaskType
<1>4. UNCHANGED <<wire, boot, metrics, faults>>
  BY DEF Crash
<1>5. QED
  BY <1>1, <1>2, <1>3, <1>4

LEMMA TypeDeliver ==
  ASSUME Inv, NEW c \in wire, NEW p \in Pods, Deliver(c, p)
  PROVE  TypeOK'
<1> USE DEF Inv
<1>1. c \in DOMAIN task /\ c \notin DOMAIN handler /\ boot[p] \in Nat /\ incoming[p] \in Nat
  BY DEF TypeOK
<1>2. /\ DOMAIN handler' = DOMAIN handler \cup {c}
      /\ \A r \in DOMAIN handler : handler'[r] = handler[r]
      /\ handler'[c] = NewHandler(p)
  BY <1>1 DEF Deliver
<1>3. task' = task /\ wire' = wire \ {c} /\ UNCHANGED <<env, outgoing, responses, faults>>
      /\ incoming' = [incoming EXCEPT ![p] = @ + 1]
  BY DEF Deliver
<1>4. ASSUME NEW d \in DOMAIN task PROVE (task[d] \in TaskType)'
  BY <1>2, <1>3 DEF TypeOK, TaskType
<1>5. NewHandler(p) \in HandlerType'
  BY <1>1 DEF NewHandler, HandlerType
<1>6. ASSUME NEW r \in DOMAIN handler' PROVE (handler[r] \in HandlerType)'
  <2>1. HandlerType' = HandlerType
    BY <1>3 DEF HandlerType
  <2>2. QED
    BY <1>2, <1>5, <2>1 DEF TypeOK
<1>7. QED
  BY <1>1, <1>2, <1>3, <1>4, <1>6 DEF TypeOK, env

LEMMA TypeStartStep ==
  ASSUME Inv, NEW r \in DOMAIN handler, StartStep(r)
  PROVE  TypeOK'
<1> USE DEF Inv
<1> DEFINE i == handler[r].step
           cmds == Subcommands(Script[Svc(r)][i])
           new == {SubPath(r, i, j) : j \in DOMAIN cmds}
<1>1. /\ i \in 1 .. Steps(Svc(r))
      /\ new \cap DOMAIN task = {}
      /\ DOMAIN task' = DOMAIN task \cup new
      /\ \A c \in DOMAIN task : task'[c] = task[c]
      /\ \A j \in DOMAIN cmds : task'[SubPath(r, i, j)] = NewTask(r, i, cmds[j])
      /\ handler' = [handler EXCEPT ![r].st = "wait", ![r].errs = {}]
      /\ UNCHANGED <<wire, env, metrics, faults>>
  BY StartStepEffect
<1>2. DOMAIN handler' = DOMAIN handler
  BY <1>1
<1>3. Svc(r) \in Services /\ i \in Nat /\ task[r] \in TaskType
  BY ConstantsAssumption DEF TypeOK, HandlerType, Svc
<1>4. ASSUME NEW j \in DOMAIN cmds PROVE NewTask(r, i, cmds[j]) \in TaskType
  <2>1. cmds[j].op = "call" => cmds[j].service \in Services
    BY <1>1, <1>3, ScriptFacts
  <2>2. ForwardableOf(task[r].hdr) \in SUBSET (HeaderKeys \X Clients)
    BY <1>3 DEF ForwardableOf, TaskType
  <2> HIDE DEF cmds, i
  <2>3. QED
    BY <1>3, <2>1, <2>2 DEF NewTask, Destination, TaskType
<1>5. ASSUME NEW c \in DOMAIN task' PROVE (task[c] \in TaskType)'
  <2>1. TaskType' = TaskType
    BY <1>2 DEF TaskType
  <2>2. CASE c \in DOMAIN task
    BY <1>1, <2>1, <2>2 DEF TypeOK
  <2>3. CASE c \in new
    <3>1. PICK j \in DOMAIN cmds : c = SubPath(r, i, j)
      BY <2>3
    <3>2. QED
      BY <1>1, <1>4, <2>1, <3>1
  <2>4. QED
    BY <1>1, <2>2, <2>3
<1>6. ASSUME NEW q \in DOMAIN handler' PROVE (handler[q] \in HandlerType)'
  <2>1. handler[q] \in HandlerType /\ DOMAIN task \subseteq DOMAIN task'
    BY <1>1, <1>2 DEF TypeOK
  <2>2. CASE q # r
    BY <1>1, <2>1, <2>2 DEF HandlerType
  <2>3. CASE q = r
    <3>1. handler'[r] = [[handler[r] EXCEPT !.st = "wait"] EXCEPT !.errs = {}]
      BY <1>1
    <3>2. QED
      BY <2>1, <2>3, <3>1 DEF HandlerType
  <2>4. QED
    BY <2>2, <2>3
<1>7. DOMAIN handler \subseteq DOMAIN task' /\ wire \subseteq DOMAIN task' \ DOMAIN handler
  BY <1>1 DEF TypeOK
<1>8. QED
  BY <1>1, <1>2, <1>5, <1>6, <1>7 DEF TypeOK, env, metrics

LEMMA TypeHandlerMove ==
  ASSUME Inv, NEW r \in DOMAIN handler,
         Join(r) \/ EndScript(r) \/ WriteResponse(r) \/ ReturnResponse(r)
  PROVE  TypeOK'
<1> USE DEF Inv
<1>1. Moves(r) /\ UNCHANGED <<task, wire, env, incoming, outgoing, faults>>
  BY HandlerEffect
<1>2. DOMAIN handler' = DOMAIN handler
  BY <1>1 DEF Moves, HandlerMove
<1>3. ASSUME NEW q \in DOMAIN handler' PROVE (handler[q] \in HandlerType)'
  <2>1. handler[q] \in HandlerType
    BY <1>2 DEF TypeOK
  <2>2. CASE q # r
    BY <1>1, <1>2, <2>1, <2>2 DEF Moves, HandlerMove, HandlerType
  <2>3. CASE q = r
    BY <1>1, <2>1, <2>3 DEF Moves, HandlerMove, HandlerType, Codes
  <2>4. QED
    BY <2>2, <2>3
<1>4. ASSUME NEW c \in DOMAIN task PROVE (task[c] \in TaskType)'
  BY <1>1, <1>2 DEF TypeOK, TaskType
<1>5. responses' \in [Pods -> [Codes -> Nat]]
  <2>1. responses \in [Pods -> [Codes -> Nat]]
    BY DEF TypeOK
  <2>2. CASE responses' = responses
    BY <2>1, <2>2
  <2>3. CASE ReturnResponse(r)
    <3>1. /\ handler[r].pod \in Pods /\ handler[r].code \in Codes
          /\ responses' = [responses EXCEPT ![handler[r].pod][handler[r].code] = @ + 1]
      BY <2>3 DEF ReturnResponse, TypeOK, HandlerType, HandlerFates, HandlerFate, Responding
    <3>2. QED
      BY <2>1, <3>1
  <2>4. QED
    BY <2>2, <2>3 DEF Join, EndScript, WriteResponse, metrics
<1>6. QED
  BY <1>1, <1>2, <1>3, <1>4, <1>5 DEF TypeOK, env

LEMMA TypePods ==
  ASSUME Inv, NEW p \in Pods, Crash(p) \/ Restart(p)
  PROVE  TypeOK'
<1> USE DEF Inv
<1>1. CASE Crash(p)
  <2>1. /\ DOMAIN task' = DOMAIN task /\ DOMAIN handler' = DOMAIN handler
        /\ UNCHANGED <<wire, boot, metrics, faults>>
    BY <1>1, CrashEffect
  <2>2. ASSUME NEW r \in DOMAIN handler' PROVE (handler[r] \in HandlerType)'
    <3>1. handler[r] \in HandlerType /\ HandlerType' = HandlerType
      BY <2>1 DEF TypeOK, HandlerType
    <3>2. handler'[r] \in HandlerType
      BY <1>1, <2>1, <3>1, CrashEffect DEF HandlerType
    <3>3. QED
      BY <3>1, <3>2
  <2>3. ASSUME NEW c \in DOMAIN task' PROVE (task[c] \in TaskType)'
    <3>1. task[c] \in TaskType /\ TaskType' = TaskType
      BY <2>1 DEF TypeOK, TaskType
    <3>2. task'[c] \in TaskType
      BY <1>1, <2>1, <3>1, CrashEffect DEF TaskType
    <3>3. QED
      BY <3>1, <3>2
  <2>4. up' \in [Pods -> BOOLEAN] /\ crashes' \in 0 .. MaxCrashes
    BY <1>1, ConstantsAssumption DEF Crash, TypeOK
  <2>5. QED
    BY <2>1, <2>2, <2>3, <2>4 DEF TypeOK, metrics
<1>2. CASE Restart(p)
  <2>1. UNCHANGED <<task, wire, handler, faults, crashes>>
    BY <1>2 DEF Restart
  <2>2. /\ up' \in [Pods -> BOOLEAN]
        /\ boot' \in [Pods -> Nat]
        /\ incoming' \in [Pods -> Nat]
        /\ outgoing' \in [Pods -> [Services -> Nat]]
        /\ responses' \in [Pods -> [Codes -> Nat]]
    BY <1>2 DEF Restart, TypeOK
  <2>3. QED
    BY <2>1, <2>2 DEF TypeOK, TaskType, HandlerType
<1>3. QED
  BY <1>1, <1>2

-----------------------------------------------------------------------------
(***************************************************************************)
(* What no step may undo: the identity of tasks and handlers, the end of a *)
(* task, the order of steps, and a response once it is decided.            *)
(***************************************************************************)
Frame ==
  /\ DOMAIN task \subseteq DOMAIN task'
  /\ DOMAIN handler \subseteq DOMAIN handler'
  /\ \A c \in DOMAIN task :
       /\ task'[c].owner = task[c].owner /\ task'[c].step = task[c].step
       /\ task'[c].dest = task[c].dest /\ task'[c].hdr = task[c].hdr
       /\ task[c].st \notin Live => task'[c].st = task[c].st /\ task'[c].code = task[c].code
  /\ \A r \in DOMAIN handler :
       /\ Svc(r)' = Svc(r)
       /\ handler'[r].step \in Nat /\ handler[r].step <= handler'[r].step
       /\ handler[r].code # 0 => handler'[r].code = handler[r].code

LEMMA FrameStep ==
  ASSUME Inv, [Next]_vars
  PROVE  Frame
<1> USE DEF Inv
<1>h. \A r \in DOMAIN handler : handler[r] \in HandlerType
  BY DEF TypeOK
<1>t. \A c \in DOMAIN task : task[c] \in TaskType
  BY DEF TypeOK
<1>1. ASSUME NEW c \in DOMAIN task, CallerStep(c) PROVE Frame
  <2>1. PICK s \in Results, k \in Statuses : Outcome(c, s, k)
    BY <1>1, CallerEffect
  <2>2. \A r \in DOMAIN handler : /\ handler'[r].pod = handler[r].pod
                                /\ handler'[r].step = handler[r].step
                                /\ handler'[r].code = handler[r].code
    BY <2>1, CallerFields DEF Outcome
  <2>3. DOMAIN task' = DOMAIN task /\ DOMAIN handler' = DOMAIN handler
    BY <2>1 DEF Outcome, TaskUpdate, ErrsUpdate
  <2>4. ASSUME NEW d \in DOMAIN task
        PROVE  /\ task'[d].owner = task[d].owner /\ task'[d].step = task[d].step
               /\ task'[d].dest = task[d].dest /\ task'[d].hdr = task[d].hdr
               /\ task[d].st \notin Live =>
                    task'[d].st = task[d].st /\ task'[d].code = task[d].code
    BY <2>1 DEF Outcome, TaskUpdate
  <2>5. \A r \in DOMAIN handler : handler[r].step \in Nat /\ handler[r].step <= handler'[r].step
    BY <1>h, <2>2 DEF HandlerType
  <2>6. QED
    BY <2>2, <2>3, <2>4, <2>5 DEF Frame, Svc
<1>2. ASSUME NEW c \in wire, NEW p \in Pods, Deliver(c, p) PROVE Frame
  <2>1. /\ DOMAIN handler' = DOMAIN handler \cup {c}
        /\ \A r \in DOMAIN handler : handler'[r] = handler[r]
        /\ task' = task
    BY <1>2 DEF Deliver, TypeOK
  <2>2. \A r \in DOMAIN handler : handler[r].step \in Nat
    BY <1>h DEF HandlerType
  <2>3. QED
    BY <2>1, <2>2 DEF Frame, Svc
<1>3. ASSUME NEW r \in DOMAIN handler, StartStep(r) PROVE Frame
  <2>1. /\ DOMAIN task \subseteq DOMAIN task'
        /\ \A c \in DOMAIN task : task'[c] = task[c]
        /\ handler' = [handler EXCEPT ![r].st = "wait", ![r].errs = {}]
    BY <1>3, StartStepEffect
  <2>2. \A q \in DOMAIN handler : /\ handler'[q].pod = handler[q].pod
                                /\ handler'[q].step = handler[q].step
                                /\ handler'[q].code = handler[q].code
    BY <1>h, <2>1 DEF HandlerType
  <2>3. \A q \in DOMAIN handler : handler[q].step \in Nat /\ handler[q].step <= handler'[q].step
    BY <1>h, <2>2 DEF HandlerType
  <2>4. QED
    BY <2>1, <2>2, <2>3 DEF Frame, Svc
<1>4. ASSUME NEW r \in DOMAIN handler,
             Join(r) \/ EndScript(r) \/ WriteResponse(r) \/ ReturnResponse(r)
      PROVE  Frame
  <2>1. Moves(r) /\ UNCHANGED <<task, wire, env, incoming, outgoing, faults>>
    BY <1>4, HandlerEffect
  <2>2. DOMAIN handler' = DOMAIN handler
    BY <2>1 DEF Moves, HandlerMove
  <2>3. handler[r].step \in Nat /\ (handler[r].st \in {"run", "wait"} => handler[r].code = 0)
    BY <1>h DEF HandlerType, HandlerFates, HandlerFate
  <2>4. /\ handler'[r].pod = handler[r].pod
        /\ handler'[r].step \in Nat /\ handler[r].step <= handler'[r].step
        /\ handler[r].code # 0 => handler'[r].code = handler[r].code
    <3>1. PICK st, step, code :
            /\ HandlerMove(r, st, step, code)
            /\ step = handler[r].step \/ step = handler[r].step + 1
            /\ code = handler[r].code \/ handler[r].st \in {"run", "wait"}
      BY <2>1 DEF Moves, Joined
    <3>2. /\ handler'[r].pod = handler[r].pod
          /\ handler'[r].step = step /\ handler'[r].code = code
      BY <3>1, MoveFields
    <3>3. QED
      BY <2>3, <3>1, <3>2
  <2>5. \A q \in DOMAIN handler : q # r => handler'[q] = handler[q] /\ handler[q].step \in Nat
    BY <1>h, <2>1 DEF Moves, HandlerMove, HandlerType
  <2>6. ASSUME NEW q \in DOMAIN handler
        PROVE  /\ Svc(q)' = Svc(q)
               /\ handler'[q].step \in Nat /\ handler[q].step <= handler'[q].step
               /\ handler[q].code # 0 => handler'[q].code = handler[q].code
    <3>1. CASE q = r
      BY <2>4, <3>1 DEF Svc
    <3>2. CASE q # r
      BY <2>5, <3>2 DEF Svc
    <3>3. QED
      BY <3>1, <3>2
  <2>7. QED
    BY <2>1, <2>2, <2>6 DEF Frame
<1>5. ASSUME NEW p \in Pods, Crash(p) PROVE Frame
  <2>1. DOMAIN task' = DOMAIN task /\ DOMAIN handler' = DOMAIN handler
    BY <1>5, CrashEffect
  <2>2. ASSUME NEW c \in DOMAIN task
        PROVE  /\ task'[c].owner = task[c].owner /\ task'[c].step = task[c].step
               /\ task'[c].dest = task[c].dest /\ task'[c].hdr = task[c].hdr
               /\ task[c].st \notin Live =>
                    task'[c].st = task[c].st /\ task'[c].code = task[c].code
    <3>1. task[c].st \notin Live => task[c].st \in Finished \/ task[c].st = "gone"
      BY <1>t DEF TaskType, Live, Finished
    <3>2. QED
      BY <1>5, <3>1, CrashEffect
  <2>3. ASSUME NEW r \in DOMAIN handler
        PROVE  /\ handler'[r].pod = handler[r].pod
               /\ handler'[r].step = handler[r].step
               /\ handler'[r].code = handler[r].code
    BY <1>5, CrashEffect
  <2>4. \A r \in DOMAIN handler : handler[r].step \in Nat /\ handler[r].step <= handler'[r].step
    BY <1>h, <2>3 DEF HandlerType
  <2>5. QED
    BY <2>1, <2>2, <2>3, <2>4 DEF Frame, Svc
<1>6. ASSUME task' = task, handler' = handler PROVE Frame
  <2>1. \A r \in DOMAIN handler : handler[r].step \in Nat
    BY <1>h DEF HandlerType
  <2>2. QED
    BY <1>6, <2>1 DEF Frame, Svc
<1>7. ASSUME NEW p \in Pods, Restart(p) PROVE Frame
  BY <1>6, <1>7 DEF Restart
<1>8. CASE UNCHANGED vars
  BY <1>6, <1>8 DEF vars
<1>9. QED
  BY <1>1, <1>2, <1>3, <1>4, <1>5, <1>7, <1>8 DEF Next, Work, HandlerStep

\* The part of the invariant that only Frame is needed for.
LEMMA NamingStep ==
  ASSUME Inv, [Next]_vars
  PROVE  Naming'
<1> USE DEF Inv
<1>1. Frame
  BY FrameStep
<1>2. ASSUME NEW c \in DOMAIN task PROVE Named(c)'
  <2>1. CASE task[c].owner = NoOwner
    BY <1>1, <2>1 DEF Naming, Named, CommandPath, Frame
  <2>2. CASE task[c].owner # NoOwner
    <3> DEFINE r == task[c].owner
               i == task[c].step
    <3>1. /\ r \in DOMAIN handler /\ CommandPath(c, r, i, Svc(r)) /\ i <= handler[r].step
          /\ c \in Ids /\ c # <<>>
      BY <2>2 DEF Naming, Named
    <3>2. /\ task'[c].owner = r /\ task'[c].step = i /\ r \in DOMAIN handler'
          /\ Svc(r)' = Svc(r)
          /\ handler'[r].step \in Nat /\ handler[r].step <= handler'[r].step
      BY <1>1, <3>1 DEF Frame
    <3>3. i \in Nat /\ handler[r].step \in Nat
      BY <3>1 DEF TypeOK, HandlerType, TaskType
    <3>4. i <= handler'[r].step
      <4> HIDE DEF r, i
      <4>1. QED
        BY <3>1, <3>2, <3>3
    <3>5. Svc(task[c].owner)' = Svc(r)
      BY <3>2 DEF Svc
    <3>6. CommandPath(c, task[c].owner, task[c].step, Svc(task[c].owner))'
      BY <3>1, <3>2, <3>5 DEF CommandPath, Steps, SubPath
    <3>7. QED
      BY <2>2, <3>1, <3>2, <3>4, <3>6 DEF Named
  <2>3. QED
    BY <2>1, <2>2
<1>3. ASSUME NEW r \in DOMAIN handler, StartStep(r), NEW c \in DOMAIN task' \ DOMAIN task
      PROVE  Named(c)'
  <2> DEFINE i == handler[r].step
             cmds == Subcommands(Script[Svc(r)][i])
  <2>1. /\ i \in 1 .. Steps(Svc(r))
        /\ c \in {SubPath(r, i, j) : j \in DOMAIN cmds}
        /\ \A j \in DOMAIN cmds : task'[SubPath(r, i, j)] = NewTask(r, i, cmds[j])
    BY <1>3, StartStepEffect
  <2>2. PICK j \in DOMAIN cmds : c = SubPath(r, i, j)
    BY <2>1
  <2>3. task'[c].owner = r /\ task'[c].step = i
    <3>1. task'[c] = NewTask(r, i, cmds[j])
      BY <2>1, <2>2
    <3> HIDE DEF i, cmds
    <3>2. QED
      BY <3>1 DEF NewTask, Destination
  <2>4. Svc(r) \in Services /\ r \in Ids /\ r # <<>> /\ i \in Nat
    BY ConstantsAssumption DEF TypeOK, HandlerType, Svc, Naming, Named
  <2>5. j \in Nat
    BY <2>1, <2>4, ScriptFacts
  <2>6. c \in Ids /\ c # <<>>
    <3> HIDE DEF i, cmds
    <3>1. QED
      BY <2>2, <2>4, <2>5, SubPathFacts
  <2>7. CommandPath(c, r, i, Svc(r))
    BY <2>1, <2>2 DEF CommandPath
  <2>8. r \in DOMAIN handler' /\ Svc(r)' = Svc(r) /\ i <= handler'[r].step
    BY <1>1 DEF Frame
  <2> HIDE DEF i
  <2>9. CommandPath(c, task[c].owner, task[c].step, Svc(task[c].owner))'
    BY <2>3, <2>7, <2>8 DEF CommandPath, Steps, SubPath, Svc
  <2>10. QED
    BY <2>3, <2>4, <2>6, <2>8, <2>9 DEF Named, NoOwner
<1>4. ASSUME NEW r \in DOMAIN handler, StartStep(r) PROVE Naming'
  BY <1>2, <1>3, <1>4 DEF Naming
<1>5. ASSUME DOMAIN task' = DOMAIN task PROVE Naming'
  BY <1>2, <1>5 DEF Naming
<1>6. ASSUME NEW c \in DOMAIN task, CallerStep(c) PROVE DOMAIN task' = DOMAIN task
  BY <1>6, CallerEffect DEF Outcome, TaskUpdate
<1>7. ASSUME NEW c \in wire, NEW p \in Pods, Deliver(c, p) PROVE DOMAIN task' = DOMAIN task
  BY <1>7 DEF Deliver
<1>8. ASSUME NEW r \in DOMAIN handler,
             Join(r) \/ EndScript(r) \/ WriteResponse(r) \/ ReturnResponse(r)
      PROVE  DOMAIN task' = DOMAIN task
  BY <1>8, HandlerEffect
<1>9. ASSUME NEW p \in Pods, Crash(p) \/ Restart(p) PROVE DOMAIN task' = DOMAIN task
  BY <1>9, CrashEffect DEF Restart
<1>10. CASE UNCHANGED vars
  BY <1>5, <1>10 DEF vars
<1>11. QED
  BY <1>4, <1>5, <1>6, <1>7, <1>8, <1>9, <1>10 DEF Next, Work, HandlerStep

-----------------------------------------------------------------------------
(***************************************************************************)
(* The rest of the invariant, one part after the other.                    *)
(***************************************************************************)
\* Which of the cases of Next a step is.
LEMMA NextCases ==
  ASSUME [Next]_vars
  PROVE  \/ \E c \in DOMAIN task : CallerStep(c)
         \/ \E c \in wire, p \in Pods : Deliver(c, p)
         \/ \E r \in DOMAIN handler : StartStep(r)
         \/ \E r \in DOMAIN handler :
              Join(r) \/ EndScript(r) \/ WriteResponse(r) \/ ReturnResponse(r)
         \/ \E p \in Pods : Crash(p)
         \/ task' = task /\ handler' = handler /\ wire' = wire
<1>1. CASE UNCHANGED vars
  BY <1>1 DEF vars
<1>2. CASE Next
  <2>1. ASSUME NEW p \in Pods, Restart(p) PROVE task' = task /\ handler' = handler /\ wire' = wire
    BY <2>1 DEF Restart
  <2>2. QED
    BY <1>2, <2>1 DEF Next, Work, HandlerStep
<1>3. QED
  BY <1>1, <1>2

LEMMA DeliverEffect ==
  ASSUME TypeOK, NEW c \in wire, NEW p \in Pods, Deliver(c, p)
  PROVE  /\ c \in DOMAIN task /\ c \notin DOMAIN handler
         /\ task' = task /\ wire' = wire \ {c}
         /\ DOMAIN handler' = DOMAIN handler \cup {c}
         /\ \A r \in DOMAIN handler : handler'[r] = handler[r]
         /\ handler'[c].pod = p /\ handler'[c].step = 1 /\ handler'[c].st = "run"
         /\ handler'[c].errs = {} /\ handler'[c].code = 0 /\ ~handler'[c].flushed
         /\ handler'[c].boot = boot[p]
<1>1. c \in DOMAIN task /\ c \notin DOMAIN handler
  BY DEF TypeOK
<1>2. handler'[c] = NewHandler(p)
  BY DEF Deliver
<1>3. QED
  BY <1>1, <1>2 DEF Deliver, NewHandler

LEMMA StartStepFields ==
  ASSUME Inv, NEW r \in DOMAIN handler, StartStep(r)
  PROVE  /\ DOMAIN handler' = DOMAIN handler
         /\ \A q \in DOMAIN handler :
              /\ q # r => handler'[q] = handler[q]
              /\ handler'[q].pod = handler[q].pod /\ handler'[q].step = handler[q].step
              /\ handler'[q].code = handler[q].code /\ handler'[q].flushed = handler[q].flushed
              /\ handler'[q].boot = handler[q].boot
         /\ handler'[r].st = "wait" /\ handler'[r].errs = {}
         /\ handler[r].st = "run" /\ wire' = wire
         /\ DOMAIN task \subseteq DOMAIN task'
         /\ \A c \in DOMAIN task : task'[c] = task[c]
         /\ \A c \in DOMAIN task' \ DOMAIN task :
              /\ task'[c].owner = r /\ task'[c].step = handler[r].step
              /\ task'[c].st = "ready" /\ task'[c].code = 0
<1>1. handler' = [handler EXCEPT ![r].st = "wait", ![r].errs = {}]
  BY StartStepEffect
<1>2. ASSUME NEW q \in DOMAIN handler
      PROVE  /\ q # r => handler'[q] = handler[q]
             /\ handler'[q].pod = handler[q].pod /\ handler'[q].step = handler[q].step
             /\ handler'[q].code = handler[q].code /\ handler'[q].flushed = handler[q].flushed
             /\ handler'[q].boot = handler[q].boot
  BY <1>1 DEF Inv, TypeOK, HandlerType
<1>3. handler'[r].st = "wait" /\ handler'[r].errs = {}
  BY <1>1 DEF Inv, TypeOK, HandlerType
<1>4. ASSUME NEW c \in DOMAIN task' \ DOMAIN task
      PROVE  /\ task'[c].owner = r /\ task'[c].step = handler[r].step
             /\ task'[c].st = "ready" /\ task'[c].code = 0
  <2> DEFINE i == handler[r].step
             cmds == Subcommands(Script[Svc(r)][i])
  <2>1. /\ c \in {SubPath(r, i, j) : j \in DOMAIN cmds}
        /\ \A j \in DOMAIN cmds : task'[SubPath(r, i, j)] = NewTask(r, i, cmds[j])
    BY StartStepEffect
  <2>2. PICK j \in DOMAIN cmds : task'[c] = NewTask(r, i, cmds[j])
    BY <2>1
  <2> HIDE DEF i, cmds
  <2>4. task'[c].owner = r /\ task'[c].step = i /\ task'[c].st = "ready" /\ task'[c].code = 0
    BY <2>2 DEF NewTask, Destination
  <2>5. QED
    BY <2>4 DEF i
<1>5. DOMAIN task \subseteq DOMAIN task' /\ \A c \in DOMAIN task : task'[c] = task[c]
  BY StartStepEffect
<1>6. handler[r].st = "run" /\ wire' = wire /\ DOMAIN handler' = DOMAIN handler
  BY <1>1, StartStepEffect
<1>7. QED
  BY <1>2, <1>3, <1>4, <1>5, <1>6

LEMMA HandlerFatesStep ==
  ASSUME Inv, [Next]_vars
  PROVE  HandlerFates'
<1> USE DEF Inv
<1>1. ASSUME NEW c \in DOMAIN task, CallerStep(c) PROVE HandlerFates'
  <2>1. PICK s \in Results, k \in Statuses : Outcome(c, s, k)
    BY <1>1, CallerEffect
  <2>2. /\ DOMAIN handler' = DOMAIN handler
        /\ \A r \in DOMAIN handler :
             /\ handler'[r].st = handler[r].st /\ handler'[r].code = handler[r].code
             /\ handler'[r].flushed = handler[r].flushed
    BY <2>1, CallerFields DEF Outcome
  <2>3. ASSUME NEW r \in DOMAIN handler PROVE HandlerFate(r)'
    <3>1. HandlerFate(r)
      BY DEF HandlerFates
    <3>2. QED
      BY <2>2, <3>1 DEF HandlerFate, Responding
  <2>4. QED
    BY <2>2, <2>3 DEF HandlerFates
<1>2. ASSUME NEW c \in wire, NEW p \in Pods, Deliver(c, p) PROVE HandlerFates'
  <2>1. /\ DOMAIN handler' = DOMAIN handler \cup {c}
        /\ \A r \in DOMAIN handler : handler'[r] = handler[r]
    BY <1>2, DeliverEffect
  <2>2. HandlerFate(c)'
    BY <1>2, DeliverEffect DEF HandlerFate, Responding
  <2>3. \A r \in DOMAIN handler : HandlerFate(r)'
    BY <2>1 DEF HandlerFates, HandlerFate
  <2>4. QED
    BY <2>1, <2>2, <2>3 DEF HandlerFates
<1>3. ASSUME NEW r \in DOMAIN handler, StartStep(r) PROVE HandlerFates'
  BY <1>3, StartStepFields DEF HandlerFates, HandlerFate, Responding
<1>4. ASSUME NEW r \in DOMAIN handler,
             Join(r) \/ EndScript(r) \/ WriteResponse(r) \/ ReturnResponse(r)
      PROVE  HandlerFates'
  <2>1. Moves(r)
    BY <1>4, HandlerEffect
  <2>2. /\ DOMAIN handler' = DOMAIN handler
        /\ \A q \in DOMAIN handler : q # r => handler'[q] = handler[q]
    BY <2>1 DEF Moves, HandlerMove
  <2>3. HandlerFate(r)
    BY DEF HandlerFates
  <2>4. HandlerFate(r)'
    <3>1. PICK st, step, code : /\ HandlerMove(r, st, step, code)
                                /\ \/ st = "run" /\ handler[r].st = "wait" /\ code = handler[r].code
                                   \/ st = "respond" /\ code \in Codes
                                   \/ /\ st \in {"written", "returned"} /\ code = handler[r].code
                                      /\ handler[r].st \in {"respond", "written"}
      BY <2>1 DEF Moves, Joined, Codes
    <3>2. /\ handler'[r].st = st /\ handler'[r].code = code
          /\ handler[r].st # "respond" => handler'[r].flushed = handler[r].flushed
      BY <3>1, MoveFields
    <3>3. QED
      BY <2>3, <3>1, <3>2 DEF HandlerFate, Responding
  <2>5. QED
    BY <2>2, <2>4 DEF HandlerFates, HandlerFate
<1>5. ASSUME NEW p \in Pods, Crash(p) PROVE HandlerFates'
  BY <1>5, CrashEffect DEF HandlerFates, HandlerFate, Responding
<1>6. CASE task' = task /\ handler' = handler /\ wire' = wire
  BY <1>6 DEF HandlerFates, HandlerFate
<1>7. QED
  BY <1>1, <1>2, <1>3, <1>4, <1>5, <1>6, NextCases

\* Between the steps of a script nothing of it is under way.
LEMMA LiveIsCurrent ==
  ASSUME Inv, NEW c \in DOMAIN task, task[c].owner \in DOMAIN handler, task[c].st # "ok"
  PROVE  c \in Current(task[c].owner)
<1> DEFINE r == task[c].owner
           i == task[c].step
<1>1. r # NoOwner
  BY DEF Inv, TypeOK, Naming, Named, NoOwner
<1>2. CommandPath(c, r, i, Svc(r)) /\ i <= handler[r].step
  BY <1>1 DEF Inv, Naming, Named
<1>3. PICK j \in DOMAIN Subcommands(Script[Svc(r)][i]) : c = SubPath(r, i, j)
  BY <1>2 DEF CommandPath
<1>4. i \in 1 .. Steps(Svc(r))
  BY <1>2 DEF CommandPath
<1>5. i \in Nat /\ handler[r].step \in Nat
  BY DEF Inv, TypeOK, TaskType, HandlerType
<1>6. ~(i < handler[r].step)
  BY <1>3, <1>4 DEF Inv, Progress, Reached
<1>7. i = handler[r].step
  BY <1>2, <1>5, <1>6
<1>8. QED
  BY <1>7 DEF Current, Owned

LEMMA TaskFatesStep ==
  ASSUME Inv, [Next]_vars
  PROVE  TaskFates'
<1> USE DEF Inv
<1>1. ASSUME NEW c \in DOMAIN task, CallerStep(c) PROVE TaskFates'
  <2>1. PICK s \in Results, k \in Statuses : Outcome(c, s, k)
    BY <1>1, CallerEffect
  <2>2. /\ DOMAIN handler' = DOMAIN handler /\ DOMAIN task' = DOMAIN task
        /\ \A r \in DOMAIN handler : handler'[r].st = handler[r].st /\ handler'[r].code = handler[r].code
    BY <2>1, CallerFields DEF Outcome, TaskUpdate
  <2>3. ASSUME NEW d \in DOMAIN task, d # c PROVE TaskFate(d)'
    <3>1. TaskFate(d)
      BY DEF TaskFates
    <3>2. task'[d] = task[d] /\ (d \in wire' => d \in wire)
      BY <2>1, <2>3 DEF Outcome, TaskUpdate, WireUpdate
    <3>3. QED
      BY <2>2, <3>1, <3>2 DEF TaskFate
  <2>4. TaskFate(c)'
    <3>1. TaskFate(c)
      BY DEF TaskFates
    <3>2. /\ task'[c].st = s /\ task'[c].code = k
          /\ task'[c].owner = task[c].owner /\ task'[c].dest = task[c].dest
      BY <2>1 DEF Outcome, TaskUpdate
    <3>3. task[c].owner \in DOMAIN handler => handler[task[c].owner].st = "wait"
      BY <2>1, <3>1 DEF Outcome, TaskFate
    <3>4. CASE s = "sent"
      BY <2>1, <2>2, <3>1, <3>2, <3>3, <3>4 DEF Outcome, WireUpdate, TaskFate
    <3>5. CASE s = "reading"
      BY <2>1, <2>2, <3>2, <3>3, <3>5 DEF Outcome, WireUpdate, TaskFate
    <3>6. CASE s = "ok"
      BY <2>1, <2>2, <3>2, <3>3, <3>6 DEF Outcome, WireUpdate, TaskFate, Live
    <3>7. CASE s = "failed"
      BY <2>1, <2>2, <3>2, <3>7 DEF Outcome, TaskFate, Live
    <3>8. QED
      BY <3>4, <3>5, <3>6, <3>7 DEF Results
  <2>5. QED
    BY <2>2, <2>3, <2>4 DEF TaskFates
<1>2. ASSUME NEW c \in wire, NEW p \in Pods, Deliver(c, p) PROVE TaskFates'
  <2>1. /\ c \in DOMAIN task /\ c \notin DOMAIN handler
        /\ task' = task /\ wire' = wire \ {c}
        /\ DOMAIN handler' = DOMAIN handler \cup {c}
        /\ \A r \in DOMAIN handler : handler'[r] = handler[r]
    BY <1>2, DeliverEffect
  <2>2. ASSUME NEW d \in DOMAIN task PROVE TaskFate(d)'
    <3>1. TaskFate(d)
      BY DEF TaskFates
    <3>2. task[d].owner # c
      <4>1. c # <<>> /\ (task[d].owner = NoOwner \/ task[d].owner \in DOMAIN handler)
        BY <2>1 DEF Naming, Named
      <4>2. QED
        BY <2>1, <4>1 DEF NoOwner
    <3>3. CASE d = c
      BY <2>1, <3>1, <3>2, <3>3 DEF TaskFate
    <3>4. CASE d # c
      BY <2>1, <3>1, <3>2, <3>4 DEF TaskFate
    <3>5. QED
      BY <3>3, <3>4
  <2>3. QED
    BY <2>1, <2>2 DEF TaskFates
<1>3. ASSUME NEW r \in DOMAIN handler, StartStep(r) PROVE TaskFates'
  <2>1. ASSUME NEW d \in DOMAIN task PROVE TaskFate(d)'
    <3>1. TaskFate(d)
      BY DEF TaskFates
    <3>2. QED
      BY <1>3, <3>1, StartStepFields DEF TaskFate
  <2>2. ASSUME NEW d \in DOMAIN task' \ DOMAIN task PROVE TaskFate(d)'
    <3>1. d \notin wire /\ d \notin DOMAIN handler
      BY <2>2 DEF TypeOK
    <3>2. QED
      BY <1>3, <3>1, StartStepFields DEF TaskFate, Live
  <2>3. QED
    BY <2>1, <2>2 DEF TaskFates
<1>4. ASSUME NEW r \in DOMAIN handler,
             Join(r) \/ EndScript(r) \/ WriteResponse(r) \/ ReturnResponse(r)
      PROVE  TaskFates'
  <2>1. Moves(r) /\ task' = task /\ wire' = wire
    BY <1>4, HandlerEffect
  <2>2. /\ DOMAIN handler' = DOMAIN handler
        /\ \A q \in DOMAIN handler : q # r => handler'[q] = handler[q]
    BY <2>1 DEF Moves, HandlerMove
  <2>3. handler[r].code \in Codes => handler'[r].code = handler[r].code
    BY FrameStep DEF Frame, Codes
  <2>4. handler[r].st # "dead"
    BY <2>1 DEF Moves, Joined
  <2>5. ASSUME NEW d \in DOMAIN task, task[d].owner = r PROVE task[d].st \notin Live
    <3>1. CASE Joined(r)
      BY <2>5, <3>1, LiveIsCurrent DEF Joined, Live, Finished
    <3>2. CASE ~Joined(r)
      BY <2>1, <2>5, <3>2 DEF Moves, TaskFates, TaskFate
    <3>3. QED
      BY <3>1, <3>2
  <2>6. ASSUME NEW d \in DOMAIN task PROVE TaskFate(d)'
    <3>1. TaskFate(d)
      BY DEF TaskFates
    <3>2. CASE task[d].owner = r
      BY <2>1, <2>2, <2>3, <2>4, <2>5, <3>1, <3>2 DEF TaskFate, Codes
    <3>3. CASE task[d].owner # r
      BY <2>1, <2>2, <2>3, <3>1, <3>3 DEF TaskFate, Codes
    <3>4. QED
      BY <3>2, <3>3
  <2>7. QED
    BY <2>1, <2>6 DEF TaskFates
<1>5. ASSUME NEW p \in Pods, Crash(p) PROVE TaskFates'
  <2>1. ASSUME NEW d \in DOMAIN task PROVE TaskFate(d)'
    <3>1. TaskFate(d)
      BY DEF TaskFates
    <3>2. task[d].st = "gone" \/ task[d].st \in Finished \/ task[d].st \in Live
      BY DEF TypeOK, TaskType, Finished, Live
    <3>3. QED
      BY <1>5, <3>1, <3>2, CrashEffect DEF TaskFate, Finished, Live
  <2>2. QED
    BY <1>5, <2>1, CrashEffect DEF TaskFates
<1>6. CASE task' = task /\ handler' = handler /\ wire' = wire
  BY <1>6 DEF TaskFates, TaskFate
<1>7. QED
  BY <1>1, <1>2, <1>3, <1>4, <1>5, <1>6, NextCases

\* r keeps its step, its code and its tasks.
Unmoved(r) ==
  /\ handler'[r].step = handler[r].step /\ handler'[r].code = handler[r].code
  /\ handler'[r].st = handler[r].st \/ handler'[r].st \notin {"run", "wait"}
  /\ \A c \in DOMAIN task' \ DOMAIN task : task'[c].owner # r

LEMMA UnmovedOwned ==
  ASSUME Inv, Frame, NEW r \in DOMAIN handler,
         \A c \in DOMAIN task' \ DOMAIN task : task'[c].owner # r, NEW i
  PROVE  Owned(r, i)' = Owned(r, i)
  BY DEF Owned, Frame

LEMMA UnmovedCurrent ==
  ASSUME Inv, Frame, NEW r \in DOMAIN handler, Unmoved(r)
  PROVE  Current(r)' = Current(r)
<1>1. Owned(r, handler[r].step)' = Owned(r, handler'[r].step)
  BY UnmovedOwned DEF Unmoved, Owned, Frame
<1>2. QED
  BY <1>1 DEF Current, Unmoved

LEMMA UnmovedProgress ==
  ASSUME Inv, Frame, NEW r \in DOMAIN handler, Unmoved(r)
  PROVE  Reached(r)'
<1>1. Reached(r)
  BY DEF Inv, Progress
<1>2. Svc(r)' = Svc(r) /\ Current(r)' = Current(r)
  BY UnmovedCurrent DEF Frame
<1>3. \A c \in DOMAIN task : task[c].st = "ok" => c \in DOMAIN task' /\ task'[c].st = "ok"
  BY DEF Frame, Live
<1>4. DOMAIN task \subseteq DOMAIN task'
  BY DEF Frame
<1>5. QED
  BY <1>1, <1>2, <1>3, <1>4 DEF Reached, Unmoved, Steps, SubPath

LEMMA UnmovedFaithful ==
  ASSUME Inv, Frame, NEW r \in DOMAIN handler, Unmoved(r)
  PROVE  Faithful(r)'
<1>1. Faithful(r)
  BY DEF Inv, StatusFaithful
<1>2. Svc(r)' = Svc(r) /\ Current(r)' = Current(r)
  BY UnmovedCurrent DEF Frame
<1>3. \A c \in DOMAIN task : task[c].st \in Finished => task'[c].st = task[c].st
  BY DEF Frame, Live, Finished
<1>4. handler'[r].code = 500 => \E c \in Current(r)' : task'[c].st = "failed"
  BY <1>1, <1>2, <1>3 DEF Faithful, Unmoved, Finished, Current, Owned
<1>5. ASSUME handler'[r].code = 200, NEW c \in DOMAIN task', task'[c].owner = r
      PROVE  task'[c].st = "ok"
  BY <1>1, <1>3, <1>5 DEF Faithful, Unmoved, Finished, Frame
<1>6. handler'[r].code = 200 => handler'[r].step > Steps(Svc(r))
  BY <1>1 DEF Faithful, Unmoved
<1>7. QED
  BY <1>2, <1>4, <1>5, <1>6 DEF Faithful, Steps

LEMMA UnmovedErrs ==
  ASSUME Inv, Frame, NEW r \in DOMAIN handler, Unmoved(r), handler'[r].errs = handler[r].errs,
         \A c \in DOMAIN task : task[c].owner = r /\ task'[c].st = "failed" => task[c].st = "failed"
  PROVE  ErrsKeptBy(r)'
<1>1. ErrsKeptBy(r)
  BY DEF Inv, ErrsKept
<1>2. Current(r)' = Current(r)
  BY UnmovedCurrent
<1>3. \A c \in DOMAIN task : task[c].st = "failed" => task'[c].st = "failed"
  BY DEF Frame, Live
<1>4. ASSUME NEW c \in handler'[r].errs PROVE c \in Current(r)' /\ task'[c].st = "failed"
  BY <1>1, <1>2, <1>3, <1>4 DEF ErrsKeptBy, Current, Owned
<1>5. ASSUME handler'[r].st = "wait", NEW c \in Current(r)', task'[c].st = "failed"
      PROVE  handler'[r].errs # {}
  <2>1. c \in Current(r) /\ c \in DOMAIN task /\ task[c].owner = r
    BY <1>2, <1>5 DEF Current, Owned
  <2>2. QED
    BY <1>1, <1>5, <2>1 DEF ErrsKeptBy, Unmoved
<1>6. QED
  BY <1>4, <1>5 DEF ErrsKeptBy

\* The three parts that compare a handler with its tasks, after a step.
Steady == Progress' /\ StatusFaithful' /\ ErrsKept'

LEMMA CallerKeeps ==
  ASSUME Inv, Frame, NEW c \in DOMAIN task, CallerStep(c)
  PROVE  Steady
<1> USE DEF Inv
<1>1. PICK s \in Results, k \in Statuses : Outcome(c, s, k)
  BY CallerEffect
<1>2. DOMAIN handler' = DOMAIN handler /\ DOMAIN task' = DOMAIN task
  BY <1>1 DEF Outcome, TaskUpdate, ErrsUpdate
<1>3. \A r \in DOMAIN handler : Unmoved(r)
  BY <1>1, <1>2, CallerFields DEF Outcome, Unmoved
<1>4. ASSUME NEW r \in DOMAIN handler PROVE ErrsKeptBy(r)'
  <2>1. /\ s # "failed" \/ r # task[c].owner => handler'[r].errs = handler[r].errs
        /\ s = "failed" /\ r = task[c].owner /\ r # NoOwner =>
             /\ c \in handler'[r].errs
             /\ \A d \in handler'[r].errs : d = c \/ (d \in Current(r) /\ task[d].st = "failed")
    BY <1>1, CallerFields DEF Outcome
  <2>2. \A d \in DOMAIN task : d # c => task'[d] = task[d]
    BY <1>1 DEF Outcome, TaskUpdate
  <2>3. task'[c].st = s /\ task[c].st \in Live
    BY <1>1 DEF Outcome, TaskUpdate
  <2>4. CASE s # "failed" \/ r # task[c].owner
    <3>1. \A d \in DOMAIN task : task[d].owner = r /\ task'[d].st = "failed" => task[d].st = "failed"
      BY <2>2, <2>3, <2>4
    <3>2. QED
      BY <1>3, <2>1, <2>4, <3>1, UnmovedErrs
  <2>5. CASE s = "failed" /\ r = task[c].owner
    <3>1. r # NoOwner
      BY DEF NoOwner, Naming, Named, TypeOK
    <3>2. c \in Current(r)
      BY <2>3, <2>5, LiveIsCurrent DEF Live
    <3>3. Current(r)' = Current(r)
      BY <1>3, UnmovedCurrent
    <3>4. c \in handler'[r].errs
      BY <2>1, <2>5, <3>1
    <3>5. ASSUME NEW d \in handler'[r].errs PROVE d \in Current(r)' /\ task'[d].st = "failed"
      <4>1. CASE d = c
        BY <2>3, <2>5, <3>2, <3>3, <4>1
      <4>2. CASE d # c
        <5>1. d \in Current(r) /\ task[d].st = "failed"
          BY <2>1, <2>5, <3>1, <4>2
        <5>2. d \in DOMAIN task
          BY <5>1 DEF Current, Owned
        <5>3. QED
          BY <2>2, <3>3, <4>2, <5>1, <5>2
      <4>3. QED
        BY <4>1, <4>2
    <3>6. QED
      BY <3>4, <3>5 DEF ErrsKeptBy
  <2>6. QED
    BY <2>4, <2>5
<1>5. ASSUME NEW r \in DOMAIN handler PROVE Reached(r)' /\ Faithful(r)'
  BY <1>3, UnmovedProgress, UnmovedFaithful
<1>6. QED
  BY <1>2, <1>4, <1>5 DEF Steady, Progress, StatusFaithful, ErrsKept

LEMMA DeliverKeeps ==
  ASSUME Inv, Frame, NEW c \in wire, NEW p \in Pods, Deliver(c, p)
  PROVE  Steady
<1> USE DEF Inv
<1>1. /\ c \in DOMAIN task /\ c \notin DOMAIN handler /\ task' = task
      /\ DOMAIN handler' = DOMAIN handler \cup {c}
      /\ \A r \in DOMAIN handler : handler'[r] = handler[r]
      /\ handler'[c].step = 1 /\ handler'[c].st = "run"
      /\ handler'[c].errs = {} /\ handler'[c].code = 0
  BY DeliverEffect
<1>2. ASSUME NEW r \in DOMAIN handler PROVE Reached(r)' /\ Faithful(r)' /\ ErrsKeptBy(r)'
  <2>1. Unmoved(r) /\ handler'[r].errs = handler[r].errs
    BY <1>1 DEF Unmoved
  <2>2. QED
    BY <1>1, <2>1, UnmovedProgress, UnmovedFaithful, UnmovedErrs
<1>3. \A d \in DOMAIN task : task[d].owner # c
  <2>1. c # <<>> /\ \A d \in DOMAIN task : task[d].owner = NoOwner \/ task[d].owner \in DOMAIN handler
    BY <1>1 DEF Naming, Named
  <2>2. QED
    BY <1>1, <2>1 DEF NoOwner
<1>4. Current(c)' = {}
  BY <1>1, <1>3 DEF Current, Owned
<1>5. Reached(c)'
  <2>1. \A i \in 1 .. Steps(Svc(c)') : ~(i < handler'[c].step)
    BY <1>1
  <2>2. QED
    BY <1>1, <1>4, <2>1 DEF Reached, Steps
<1>6. Faithful(c)' /\ ErrsKeptBy(c)'
  BY <1>1, <1>4 DEF Faithful, ErrsKeptBy
<1>7. QED
  BY <1>1, <1>2, <1>5, <1>6 DEF Steady, Progress, StatusFaithful, ErrsKept

LEMMA StartStepKeeps ==
  ASSUME Inv, Frame, NEW r \in DOMAIN handler, StartStep(r)
  PROVE  Steady
<1> USE DEF Inv
<1>1. /\ DOMAIN handler' = DOMAIN handler
      /\ \A q \in DOMAIN handler : q # r => handler'[q] = handler[q]
      /\ handler'[r].step = handler[r].step /\ handler'[r].code = handler[r].code
      /\ handler'[r].st = "wait" /\ handler'[r].errs = {} /\ handler[r].st = "run"
      /\ DOMAIN task \subseteq DOMAIN task'
      /\ \A c \in DOMAIN task : task'[c] = task[c]
      /\ \A c \in DOMAIN task' \ DOMAIN task : task'[c].owner = r /\ task'[c].st = "ready"
  BY StartStepFields
<1>2. ASSUME NEW q \in DOMAIN handler, q # r PROVE Reached(q)' /\ Faithful(q)' /\ ErrsKeptBy(q)'
  <2>1. Unmoved(q) /\ handler'[q].errs = handler[q].errs
    BY <1>1, <1>2 DEF Unmoved
  <2>2. QED
    BY <1>1, <2>1, UnmovedProgress, UnmovedFaithful, UnmovedErrs
<1>3. handler[r].code = 0 /\ Current(r) = {} /\ Reached(r)
  BY <1>1 DEF HandlerFates, HandlerFate, Progress, Reached
<1>4. Faithful(r)'
  BY <1>1, <1>3 DEF Faithful
<1>5. ErrsKeptBy(r)'
  <2>1. \A c \in Current(r)' : task'[c].st # "failed"
    BY <1>1, <1>3 DEF Current, Owned
  <2>2. QED
    BY <1>1, <2>1 DEF ErrsKeptBy
<1>6. Reached(r)'
  <2>1. Svc(r)' = Svc(r)
    BY DEF Frame
  <2>2. handler[r].step \in 1 .. Steps(Svc(r))
    BY StartStepEffect
  <2>3. \A j \in DOMAIN Subcommands(Script[Svc(r)][handler[r].step]) :
          SubPath(r, handler[r].step, j) \in DOMAIN task'
    <3>1. DOMAIN task' = DOMAIN task \cup
            {SubPath(r, handler[r].step, j) :
               j \in DOMAIN Subcommands(Script[Svc(r)][handler[r].step])}
      BY StartStepEffect
    <3>2. QED
      BY <3>1
  <2>4. \A i \in 1 .. Steps(Svc(r)) :
          i < handler[r].step =>
            \A j \in DOMAIN Subcommands(Script[Svc(r)][i]) :
              SubPath(r, i, j) \in DOMAIN task' /\ task'[SubPath(r, i, j)].st = "ok"
    BY <1>1, <1>3 DEF Reached
  <2>5. QED
    BY <1>1, <2>1, <2>2, <2>3, <2>4 DEF Reached, Steps, SubPath
<1>7. QED
  BY <1>1, <1>2, <1>4, <1>5, <1>6 DEF Steady, Progress, StatusFaithful, ErrsKept

LEMMA MoveKeeps ==
  ASSUME Inv, Frame, NEW r \in DOMAIN handler,
         Join(r) \/ EndScript(r) \/ WriteResponse(r) \/ ReturnResponse(r)
  PROVE  Steady
<1> USE DEF Inv
<1>1. Moves(r) /\ task' = task
  BY HandlerEffect
<1>2. /\ DOMAIN handler' = DOMAIN handler
      /\ \A q \in DOMAIN handler : q # r => handler'[q] = handler[q]
  BY <1>1 DEF Moves, HandlerMove
<1>3. ASSUME NEW q \in DOMAIN handler, q # r PROVE Reached(q)' /\ Faithful(q)' /\ ErrsKeptBy(q)'
  <2>1. Unmoved(q) /\ handler'[q].errs = handler[q].errs
    BY <1>1, <1>2, <1>3 DEF Unmoved
  <2>2. QED
    BY <1>1, <2>1, UnmovedProgress, UnmovedFaithful, UnmovedErrs
<1>4. /\ Reached(r) /\ Faithful(r) /\ ErrsKeptBy(r) /\ HandlerFate(r)
      /\ handler[r].step \in Nat \ {0} /\ Svc(r)' = Svc(r)
  BY DEF Progress, StatusFaithful, ErrsKept, HandlerFates, TypeOK, HandlerType, Frame
<1>5. CASE Joined(r) /\ handler[r].errs = {}
           /\ HandlerMove(r, "run", handler[r].step + 1, handler[r].code)
  <2>1. /\ handler'[r].st = "run" /\ handler'[r].step = handler[r].step + 1
        /\ handler'[r].code = handler[r].code /\ handler'[r].errs = {}
    BY <1>5, MoveFields
  <2>2. handler[r].code = 0 /\ handler[r].st = "wait"
    BY <1>4, <1>5 DEF Joined, HandlerFate
  <2>3. ASSUME NEW j \in DOMAIN Subcommands(Script[Svc(r)][handler[r].step])
        PROVE  /\ SubPath(r, handler[r].step, j) \in DOMAIN task
               /\ task[SubPath(r, handler[r].step, j)].st = "ok"
    <3> DEFINE c == SubPath(r, handler[r].step, j)
    <3>1. handler[r].step \in 1 .. Steps(Svc(r)) /\ c \in DOMAIN task
      BY <1>4, <2>2 DEF Reached
    <3>2. c \in Current(r)
      BY <3>1, OwnerOfSubPath DEF Current, Owned
    <3>3. task[c].st \in Finished /\ task[c].st # "failed"
      BY <1>4, <1>5, <2>2, <3>2 DEF Joined, ErrsKeptBy
    <3>4. QED
      BY <3>1, <3>3 DEF Finished
  <2>4. ASSUME NEW i \in 1 .. Steps(Svc(r)), i < handler[r].step + 1,
               NEW j \in DOMAIN Subcommands(Script[Svc(r)][i])
        PROVE  SubPath(r, i, j) \in DOMAIN task /\ task[SubPath(r, i, j)].st = "ok"
    <3>1. CASE i = handler[r].step
      BY <2>3, <3>1
    <3>2. CASE i # handler[r].step
      <4>1. i < handler[r].step
        BY <1>4, <2>4, <3>2
      <4>2. QED
        BY <1>4, <4>1 DEF Reached
    <3>3. QED
      BY <3>1, <3>2
  <2>5. Current(r)' = {}
    <3>1. SUFFICES ASSUME NEW c \in DOMAIN task, task[c].owner = r,
                          task[c].step = handler[r].step + 1
                   PROVE  FALSE
      BY <1>1, <2>1 DEF Current, Owned
    <3>2. task[c].owner # NoOwner
      BY <3>1 DEF TypeOK, Naming, Named, NoOwner
    <3>3. task[c].step <= handler[r].step
      BY <3>1, <3>2 DEF Naming, Named
    <3>4. QED
      BY <1>4, <3>1, <3>3
  <2>6. Reached(r)'
    BY <1>1, <1>4, <2>1, <2>4, <2>5 DEF Reached, Steps, SubPath
  <2>7. Faithful(r)' /\ ErrsKeptBy(r)'
    BY <2>1, <2>2 DEF Faithful, ErrsKeptBy
  <2>8. QED
    BY <1>2, <1>3, <2>6, <2>7 DEF Steady, Progress, StatusFaithful, ErrsKept
<1>6. CASE ~(Joined(r) /\ handler[r].errs = {}
             /\ HandlerMove(r, "run", handler[r].step + 1, handler[r].code))
  <2>1. PICK st, code :
          /\ HandlerMove(r, st, handler[r].step, code)
          /\ st \in {"respond", "written", "returned"}
          /\ \/ code = handler[r].code
             \/ code = 500 /\ Joined(r) /\ handler[r].errs # {}
             \/ code = 200 /\ handler[r].st = "run" /\ handler[r].step > Steps(Svc(r))
    BY <1>1, <1>6 DEF Moves
  <2>2. /\ handler'[r].st = st /\ handler'[r].step = handler[r].step
        /\ handler'[r].code = code /\ handler'[r].errs = handler[r].errs
    BY <2>1, MoveFields
  <2>3. Current(r)' = Current(r)
    BY <1>1, <2>2 DEF Current, Owned
  <2>4. Reached(r)'
    BY <1>1, <1>4, <2>1, <2>2 DEF Reached, Steps, SubPath
  <2>5. ErrsKeptBy(r)'
    BY <1>1, <1>4, <2>1, <2>2, <2>3 DEF ErrsKeptBy
  <2>6. Faithful(r)'
    <3>1. CASE code = handler[r].code
      BY <1>1, <1>4, <2>2, <2>3, <3>1 DEF Faithful, Steps
    <3>2. CASE code = 500 /\ handler[r].errs # {}
      BY <1>1, <1>4, <2>2, <2>3, <3>2 DEF Faithful, ErrsKeptBy
    <3>3. CASE code = 200 /\ handler[r].st = "run" /\ handler[r].step > Steps(Svc(r))
      <4>1. \A c \in DOMAIN task : task[c].owner = r => task[c].st = "ok"
        <5>1. Current(r) = {}
          BY <1>4, <3>3 DEF Reached
        <5>2. QED
          BY <5>1, LiveIsCurrent
      <4>2. QED
        BY <1>1, <1>4, <2>2, <3>3, <4>1 DEF Faithful, Steps
    <3>4. QED
      BY <2>1, <3>1, <3>2, <3>3
  <2>7. QED
    BY <1>2, <1>3, <2>4, <2>5, <2>6 DEF Steady, Progress, StatusFaithful, ErrsKept
<1>7. QED
  BY <1>5, <1>6

LEMMA CrashKeeps ==
  ASSUME Inv, Frame, NEW p \in Pods, Crash(p)
  PROVE  Steady
<1> USE DEF Inv
<1>1. DOMAIN task' = DOMAIN task /\ DOMAIN handler' = DOMAIN handler
  BY CrashEffect
<1>2. ASSUME NEW r \in DOMAIN handler PROVE Unmoved(r) /\ handler'[r].errs = handler[r].errs
  BY <1>1, CrashEffect DEF Unmoved
<1>3. \A c \in DOMAIN task : task'[c].st = "failed" => task[c].st = "failed"
  BY CrashEffect
<1>4. ASSUME NEW r \in DOMAIN handler PROVE Reached(r)' /\ Faithful(r)' /\ ErrsKeptBy(r)'
  BY <1>2, <1>3, UnmovedProgress, UnmovedFaithful, UnmovedErrs
<1>5. QED
  BY <1>1, <1>4 DEF Steady, Progress, StatusFaithful, ErrsKept

LEMMA SteadyStep ==
  ASSUME Inv, [Next]_vars
  PROVE  Steady
<1>1. Frame
  BY FrameStep
<1>2. CASE task' = task /\ handler' = handler /\ wire' = wire
  <2>1. \A r \in DOMAIN handler : Unmoved(r)
    BY <1>2 DEF Unmoved
  <2>2. ASSUME NEW r \in DOMAIN handler PROVE Reached(r)' /\ Faithful(r)' /\ ErrsKeptBy(r)'
    BY <1>1, <1>2, <2>1, UnmovedProgress, UnmovedFaithful, UnmovedErrs
  <2>3. QED
    BY <1>2, <2>2 DEF Steady, Progress, StatusFaithful, ErrsKept
<1>3. QED
  BY <1>1, <1>2, NextCases, CallerKeeps, DeliverKeeps, StartStepKeeps, MoveKeeps, CrashKeeps

-----------------------------------------------------------------------------
LEMMA InvInit == Init => Inv
<1> SUFFICES ASSUME Init PROVE Inv
  OBVIOUS
<1>1. TypeOK
  BY TypeInit
<1>2. DOMAIN handler = {} /\ wire = {}
  BY DEF Init
<1>3. \A c \in DOMAIN task : /\ task[c].owner = NoOwner /\ task[c].st = "ready" /\ task[c].code = 0
                             /\ \E k \in Clients : c = <<k>>
  BY DEF Init
<1>4. ASSUME NEW c \in DOMAIN task PROVE Named(c)
  <2>1. PICK k \in Clients : c = <<k>>
    BY <1>3
  <2>2. c \in Ids /\ c # <<>>
    BY <2>1 DEF Ids
  <2>3. QED
    BY <1>3, <2>2 DEF Named
<1>5. ASSUME NEW c \in DOMAIN task PROVE TaskFate(c)
  BY <1>2, <1>3 DEF TaskFate
<1>6. QED
  BY <1>1, <1>2, <1>4, <1>5
     DEF Inv, Naming, Progress, TaskFates, HandlerFates, ErrsKept, StatusFaithful

LEMMA TypeStep ==
  ASSUME Inv, [Next]_vars
  PROVE  TypeOK'
<1>1. CASE UNCHANGED vars
  BY <1>1 DEF Inv, TypeOK, TaskType, HandlerType, vars
<1>2. QED
  BY <1>1, TypeCaller, TypeDeliver, TypeStartStep, TypeHandlerMove, TypePods
     DEF Next, Work, HandlerStep

LEMMA InvStep == Inv /\ [Next]_vars => Inv'
<1> SUFFICES ASSUME Inv, [Next]_vars PROVE Inv'
  OBVIOUS
<1>1. Steady
  BY SteadyStep
<1>2. QED
  BY <1>1, TypeStep, NamingStep, TaskFatesStep, HandlerFatesStep DEF Inv, Steady

\* The invariant holds in every reachable state, whatever the topology, the
\* deployment, the load and the faults.
THEOREM Invariance == Spec => []Inv
<1>1. Init => Inv
  BY InvInit
<1>2. Inv /\ [Next]_vars => Inv'
  BY InvStep
<1>3. QED
  BY <1>1, <1>2, PTL DEF Spec

\* No script, deployment or crash takes a variable out of its type.
THEOREM TypeCorrect == Spec => []TypeOK
<1>1. Inv => TypeOK
  BY DEF Inv
<1>2. QED
  BY <1>1, Invariance, PTL

\* A service answers 500 only for a failed command, and 200 only after all of
\* its script succeeded (handler.go:45-55), for every script.
THEOREM StatusIsFaithful == Spec => []StatusFaithful
<1>1. Inv => StatusFaithful
  BY DEF Inv
<1>2. QED
  BY <1>1, Invariance, PTL

\* No goroutine of a step outlives it: a handler that responds has none left
\* (executable.go:79-80).
THEOREM NoGoroutineLeaks == Spec => []NoStrayGoroutine
<1>1. Inv => NoStrayGoroutine
  <2> SUFFICES ASSUME Inv, NEW c \in DOMAIN task, task[c].owner \in DOMAIN handler,
                      handler[task[c].owner].st \in Responding
               PROVE  task[c].st \in Finished
    BY DEF NoStrayGoroutine
  <2>1. TaskFate(c) /\ task[c].st \in {"ready", "sent", "reading", "ok", "failed", "gone"}
    BY DEF Inv, TaskFates, TypeOK, TaskType
  <2>2. QED
    BY <2>1 DEF TaskFate, Responding, Live, Finished
<1>2. QED
  BY <1>1, Invariance, PTL

\* A script runs one step at a time, in order, and never past a failed one
\* (handler.go:45-53).
THEOREM ScriptInOrder == Spec => []StepsInOrder
<1>1. Inv => StepsInOrder
  <2> SUFFICES ASSUME Inv, NEW r \in DOMAIN handler, NEW i \in 1 .. Steps(Svc(r))
               PROVE  /\ i < handler[r].step =>
                           \A j \in DOMAIN Subcommands(Script[Svc(r)][i]) :
                             SubPath(r, i, j) \in DOMAIN task /\ task[SubPath(r, i, j)].st = "ok"
                      /\ i > handler[r].step \/ (i = handler[r].step /\ handler[r].st = "run") =>
                           Owned(r, i) = {}
    BY DEF StepsInOrder
  <2>1. Reached(r)
    BY DEF Inv, Progress
  <2>2. ASSUME i > handler[r].step PROVE Owned(r, i) = {}
    <3> SUFFICES ASSUME NEW c \in DOMAIN task, task[c].owner = r, task[c].step = i
                 PROVE  FALSE
      BY DEF Owned
    <3>1. r # NoOwner
      BY DEF Inv, TypeOK, Naming, Named, NoOwner
    <3>2. i <= handler[r].step /\ handler[r].step \in Nat /\ i \in Nat
      BY <3>1 DEF Inv, Naming, Named, TypeOK, HandlerType, TaskType
    <3>3. QED
      BY <2>2, <3>2
  <2>3. QED
    BY <2>1, <2>2 DEF Reached, Current
<1>2. QED
  BY <1>1, Invariance, PTL

\* The status of a response is decided once (handler.go:48-51).
THEOREM ResponseFinal == Spec => ResponseIsFinal
<1>1. Inv /\ [Next]_vars =>
        [\A r \in DOMAIN handler : handler[r].code # 0 => handler'[r].code = handler[r].code]_vars
  BY FrameStep DEF Frame
<1>2. QED
  BY <1>1, Invariance, PTL DEF Spec, ResponseIsFinal
=============================================================================
