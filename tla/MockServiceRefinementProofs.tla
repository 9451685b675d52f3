--------------------- MODULE MockServiceRefinementProofs ---------------------
(***************************************************************************)
(* The proof that MockService implements ScriptRun: every step of a        *)
(* caller, a handler or a pod is a step of the abstract runs or leaves     *)
(* them alone.                                                             *)
(***************************************************************************)
EXTENDS MockServiceRefinement, MockServiceTreeProofs

-----------------------------------------------------------------------------
(***************************************************************************)
(* The commands of the current step, and their indices.                    *)
(***************************************************************************)
LEMMA CurrentFacts ==
  ASSUME Inv, NEW r \in DOMAIN handler, NEW c \in Current(r)
  PROVE  /\ c \in DOMAIN task /\ task[c].owner = r /\ task[c].step = handler[r].step
         /\ handler[r].step \in 1 .. Steps(Svc(r))
         /\ Index(c) \in DOMAIN Subcommands(Script[Svc(r)][handler[r].step])
         /\ c = SubPath(r, handler[r].step, Index(c))
<1> USE DEF Inv
<1> DEFINE i == handler[r].step
<1>1. c \in DOMAIN task /\ task[c].owner = r /\ task[c].step = i
  BY DEF Current, Owned
<1>2. r \in Ids /\ r # <<>> /\ Svc(r) \in Services /\ i \in Nat
  BY ConstantsAssumption DEF TypeOK, HandlerType, Svc, Naming, Named
<1>3. CommandPath(c, r, i, Svc(r))
  BY <1>1, <1>2 DEF Naming, Named, NoOwner
<1>4. i \in 1 .. Steps(Svc(r))
  BY <1>3 DEF CommandPath
<1>5. PICK j \in DOMAIN Subcommands(Script[Svc(r)][i]) : c = SubPath(r, i, j)
  BY <1>3 DEF CommandPath
<1>6. j \in Nat
  BY <1>2, <1>4, ScriptFacts
<1>7. Index(c) = j
  <2> HIDE DEF i
  <2>1. QED
    BY <1>2, <1>5, <1>6, SubPathFacts DEF Index
<1>8. QED
  BY <1>1, <1>4, <1>5, <1>7

\* An index is done, or bad, if the command it stands for is.
LEMMA DoneIndex ==
  ASSUME Inv, NEW r \in DOMAIN handler, NEW c \in Current(r)
  PROVE  /\ Index(c) \in Done(r) <=> task[c].st \in Finished
         /\ Index(c) \in Bad(r) <=> task[c].st = "failed"
<1>1. ASSUME NEW d \in Current(r), Index(d) = Index(c) PROVE d = c
  BY <1>1, CurrentFacts
<1>2. QED
  BY <1>1 DEF Done, Bad

\* A step of which no command has started is neither done nor bad.
LEMMA NothingDone ==
  ASSUME NEW r, \A c \in Current(r) : task[c].st \notin Finished
  PROVE  Done(r) = {} /\ Bad(r) = {}
  BY DEF Done, Bad, Finished

LEMMA RunFields ==
  ASSUME NEW r \in DOMAIN handler
  PROVE  /\ DOMAIN RunOf = DOMAIN handler
         /\ RunOf[r] = [svc |-> Svc(r), step |-> handler[r].step, done |-> Done(r),
                        bad |-> Bad(r), masked |-> Masks(r), out |-> Out(r)]
         /\ RunOf[r].svc = Svc(r) /\ RunOf[r].step = handler[r].step
         /\ RunOf[r].done = Done(r) /\ RunOf[r].bad = Bad(r) /\ RunOf[r].out = Out(r)
         /\ RunOf[r].masked = Masks(r)
  BY DEF RunOf, Execution

LEMMA StepIsNat ==
  ASSUME Inv, NEW r \in DOMAIN handler
  PROVE  handler[r].step \in Nat /\ Svc(r) \in Services /\ Steps(Svc(r)) \in Nat
  BY ConstantsAssumption, ScriptAssumption
     DEF Inv, TypeOK, HandlerType, Svc, Steps, IsSequence

\* Where a handler stands with respect to its script.
LEMMA RunPosition ==
  ASSUME Inv, NEW r \in DOMAIN handler
  PROVE  /\ Abstract!Commands(r) = Subcommands(Script[Svc(r)][handler[r].step])
         /\ Abstract!Over(r) <=> handler[r].step > Steps(Svc(r))
         /\ \A i, j : /\ Abstract!SubRequest(r, i, j) = SubPath(r, i, j)
                      /\ Abstract!CommandAt(r, i, j) = Subcommands(Script[Svc(r)][i])[j]
<1>1. RunOf[r].svc = Svc(r) /\ RunOf[r].step = handler[r].step
  BY RunFields
<1>2. Abstract!Commands(r) = Subcommands(Script[Svc(r)][handler[r].step])
  BY <1>1 DEF Abstract!Commands, Abstract!Subcommands, Subcommands
<1>3. handler[r].step \in Nat /\ Steps(Svc(r)) \in Nat
  BY StepIsNat
<1>4. Abstract!Over(r) <=> handler[r].step > Steps(Svc(r))
  BY <1>1, <1>3 DEF Abstract!Over, Steps
<1>5. \A i, j : /\ Abstract!SubRequest(r, i, j) = SubPath(r, i, j)
                /\ Abstract!CommandAt(r, i, j) = Subcommands(Script[Svc(r)][i])[j]
  BY <1>1 DEF Abstract!SubRequest, SubPath, Abstract!CommandAt, Abstract!Subcommands, Subcommands
<1>6. QED
  BY <1>2, <1>4, <1>5

\* A step that lets no proxy answer a call of r keeps what is masked.
LEMMA MasksKept ==
  ASSUME Inv, Frame, NEW r \in DOMAIN handler,
         \A c \in DOMAIN task' :
           task'[c].owner = r /\ task'[c].code = 503 => c \in DOMAIN task /\ task[c].code = 503
  PROVE  Masks(r)' = Masks(r)
<1>1. ASSUME NEW c \in MaskedCalls(r) PROVE c \in MaskedCalls(r)'
  <2>1. c \in DOMAIN task /\ task[c].owner = r /\ task[c].code = 503
    BY DEF MaskedCalls
  <2>2. task[c].st \notin Live
    BY <2>1 DEF Inv, TaskFates, TaskFate, Live
  <2>3. QED
    BY <2>1, <2>2 DEF Frame, MaskedCalls
<1>2. ASSUME NEW c \in MaskedCalls(r)' PROVE c \in MaskedCalls(r)
  BY DEF Frame, MaskedCalls
<1>3. MaskedCalls(r)' = MaskedCalls(r)
  BY <1>1, <1>2
<1>4. QED
  BY <1>3 DEF Masks

\* The execution of r as a step leaves it.
LEMMA ExecutionKept ==
  ASSUME NEW r, Masks(r)' = Masks(r),
         Svc(r)' = Svc(r), handler'[r].step = handler[r].step, Out(r)' = Out(r),
         Current(r)' = Current(r),
         \A c \in Current(r) : /\ task'[c].st \in Finished <=> task[c].st \in Finished
                               /\ task'[c].st = "failed" <=> task[c].st = "failed"
  PROVE  Execution(r)' = Execution(r)
<1>1. {d \in Current(r)' : task'[d].st \in Finished} = {d \in Current(r) : task[d].st \in Finished}
  OBVIOUS
<1>2. {d \in Current(r)' : task'[d].st = "failed"} = {d \in Current(r) : task[d].st = "failed"}
  OBVIOUS
<1>3. Done(r)' = Done(r)
  BY <1>1 DEF Done, Index
<1>4. Bad(r)' = Bad(r)
  BY <1>2 DEF Bad, Index
<1>5. QED
  BY <1>3, <1>4 DEF Execution

LEMMA AllKept ==
  ASSUME DOMAIN handler' = DOMAIN handler, \A r \in DOMAIN handler : Execution(r)' = Execution(r)
  PROVE  RunOf' = RunOf
<1>1. RunOf' = [r \in DOMAIN handler' |-> Execution(r)']
  BY DEF RunOf
<1>2. QED
  BY <1>1 DEF RunOf
\* The runs after a step that changes one of them.
LEMMA OneChanged ==
  ASSUME NEW r \in DOMAIN handler, DOMAIN handler' = DOMAIN handler,
         \A q \in DOMAIN handler : q # r => Execution(q)' = Execution(q)
  PROVE  /\ r \in DOMAIN RunOf
         /\ RunOf' = [q \in DOMAIN RunOf |-> IF q = r THEN Execution(r)' ELSE RunOf[q]]
<1>1. RunOf' = [q \in DOMAIN handler' |-> Execution(q)']
  BY DEF RunOf
<1>2. DOMAIN RunOf = DOMAIN handler /\ \A q \in DOMAIN handler : RunOf[q] = Execution(q)
  BY DEF RunOf
<1>3. QED
  BY <1>1, <1>2

\* What EXCEPT makes of the runs.
LEMMA AdvanceUpdate ==
  ASSUME NEW r \in DOMAIN RunOf
  PROVE  [RunOf EXCEPT ![r].step = @ + 1, ![r].done = {}]
           = [q \in DOMAIN RunOf |->
                IF q = r THEN [svc |-> Svc(r), step |-> handler[r].step + 1, done |-> {},
                               bad |-> Bad(r), masked |-> Masks(r), out |-> Out(r)]
                ELSE RunOf[q]]
<1> DEFINE e == RunOf[r]
           g == [e EXCEPT !.step = @ + 1]
           h == [g EXCEPT !.done = {}]
<1>1. e = [svc |-> Svc(r), step |-> handler[r].step, done |-> Done(r), bad |-> Bad(r),
           masked |-> Masks(r), out |-> Out(r)]
  BY RunFields DEF RunOf
<1>2. RunOf = [q \in DOMAIN RunOf |-> RunOf[q]]
  BY DEF RunOf
<1>3. [RunOf EXCEPT ![r].step = @ + 1, ![r].done = {}]
        = [q \in DOMAIN RunOf |-> IF q = r THEN h ELSE RunOf[q]]
  BY <1>2
<1> HIDE DEF e
<1>4. g = [svc |-> Svc(r), step |-> handler[r].step + 1, done |-> Done(r), bad |-> Bad(r),
           masked |-> Masks(r), out |-> Out(r)]
  BY <1>1
<1> HIDE DEF g
<1>5. h = [svc |-> Svc(r), step |-> handler[r].step + 1, done |-> {}, bad |-> Bad(r),
           masked |-> Masks(r), out |-> Out(r)]
  BY <1>4
<1> HIDE DEF h
<1>6. QED
  BY <1>3, <1>5

LEMMA AnswerUpdate ==
  ASSUME NEW r \in DOMAIN RunOf, NEW k
  PROVE  [RunOf EXCEPT ![r].out = k]
           = [q \in DOMAIN RunOf |->
                IF q = r THEN [svc |-> Svc(r), step |-> handler[r].step, done |-> Done(r),
                               bad |-> Bad(r), masked |-> Masks(r), out |-> k]
                ELSE RunOf[q]]
<1> DEFINE e == RunOf[r]
           g == [e EXCEPT !.out = k]
<1>1. e = [svc |-> Svc(r), step |-> handler[r].step, done |-> Done(r), bad |-> Bad(r),
           masked |-> Masks(r), out |-> Out(r)]
  BY RunFields DEF RunOf
<1>2. RunOf = [q \in DOMAIN RunOf |-> RunOf[q]]
  BY DEF RunOf
<1>3. [RunOf EXCEPT ![r].out = k] = [q \in DOMAIN RunOf |-> IF q = r THEN g ELSE RunOf[q]]
  BY <1>2
<1> HIDE DEF e
<1>4. g = [svc |-> Svc(r), step |-> handler[r].step, done |-> Done(r), bad |-> Bad(r),
           masked |-> Masks(r), out |-> k]
  BY <1>1
<1> HIDE DEF g
<1>5. QED
  BY <1>3, <1>4

-----------------------------------------------------------------------------
(***************************************************************************)
(* The steps of a caller.                                                  *)
(***************************************************************************)
LEMMA CallerMaps ==
  ASSUME Inv, Destinations, NEW c \in DOMAIN task, CallerStep(c), [Next]_vars
  PROVE  [Abstract!Next]_RunOf
<1> USE DEF Inv
<1>0. Destined(c)
  BY DEF Destinations
<1>1. PICK s \in Results, k \in Statuses : Outcome(c, s, k)
  BY CallerEffect
<1>2. /\ DOMAIN handler' = DOMAIN handler /\ DOMAIN task' = DOMAIN task
      /\ \A r \in DOMAIN handler :
           /\ handler'[r].pod = handler[r].pod /\ handler'[r].step = handler[r].step
           /\ handler'[r].st = handler[r].st /\ handler'[r].code = handler[r].code
  BY <1>1, CallerFields DEF Outcome, TaskUpdate
<1>3. /\ task[c].st \in Live /\ task'[c].st = s
      /\ \A d \in DOMAIN task : d # c => task'[d] = task[d]
  BY <1>1 DEF Outcome, TaskUpdate
<1>4. Frame
  BY FrameStep
<1>5. ASSUME NEW r \in DOMAIN handler
      PROVE  Svc(r)' = Svc(r) /\ Out(r)' = Out(r) /\ Current(r)' = Current(r)
  <2>1. Unmoved(r)
    BY <1>2 DEF Unmoved
  <2>2. Current(r)' = Current(r)
    BY <1>4, <2>1, UnmovedCurrent
  <2>3. QED
    BY <1>2, <2>2 DEF Svc, Out
<1>6. ASSUME NEW r \in DOMAIN handler, c \notin Current(r) \/ s \notin Finished
      PROVE  Execution(r)' = Execution(r)
  <2>3. task[c].owner # r \/ k # 503
    <3>1. ASSUME task[c].owner = r, k = 503 PROVE FALSE
      <4>1. s = "ok"
        BY <1>1, <3>1 DEF Outcome
      <4>2. c \in Current(r)
        BY <1>3, <3>1, LiveIsCurrent DEF Live
      <4>3. QED
        BY <1>6, <4>1, <4>2 DEF Finished
    <3>2. QED
      BY <3>1
  <2>4. task'[c].code = k /\ task'[c].owner = task[c].owner
    BY <1>1 DEF Outcome, TaskUpdate
  <2>5. Masks(r)' = Masks(r)
    BY <1>2, <1>3, <1>4, <2>3, <2>4, MasksKept
  <2>1. \A d \in Current(r) : /\ task'[d].st \in Finished <=> task[d].st \in Finished
                              /\ task'[d].st = "failed" <=> task[d].st = "failed"
    BY <1>3, <1>6 DEF Current, Owned, Live, Finished
  <2>2. QED
    BY <1>2, <1>5, <2>1, <2>5, ExecutionKept
<1>7. CASE s \notin Finished \/ task[c].owner = NoOwner
  <2>1. ASSUME NEW r \in DOMAIN handler PROVE Execution(r)' = Execution(r)
    <3>1. r # NoOwner
      BY DEF TypeOK, Naming, Named, NoOwner
    <3>2. QED
      BY <1>6, <1>7, <3>1 DEF Current, Owned
  <2>2. QED
    BY <1>2, <2>1, AllKept
<1>8. CASE s \in Finished /\ task[c].owner # NoOwner
  <2>1. PICK r \in DOMAIN handler : r = task[c].owner
    BY <1>8 DEF Naming, Named
  <2>a. PICK how \in {"done", "masked", "failed"} :
          /\ how = "failed" <=> s = "failed"
          /\ how = "masked" <=> k = 503
    <3>1. s = "failed" => k # 503
      BY <1>1 DEF Outcome
    <3>2. QED
      BY <3>1
  <2>j. PICK j : j = Index(c)
    OBVIOUS
  <2> DEFINE cmds == Subcommands(Script[Svc(r)][handler[r].step])
  <2>2. c \in Current(r) /\ handler[r].st = "wait"
    BY <1>3, <2>1, LiveIsCurrent DEF Live, TaskFates, TaskFate
  <2>3. /\ handler[r].step \in 1 .. Steps(Svc(r)) /\ j \in DOMAIN cmds
        /\ c = SubPath(r, handler[r].step, j)
    BY <2>1, <2>2, <2>j, CurrentFacts
  <2>4. j \notin Done(r)
    BY <1>3, <2>1, <2>2, <2>j, DoneIndex DEF Live, Finished
  <2>5. Out(r) = 0
    BY <2>1, <2>2 DEF HandlerFates, HandlerFate, Out
  <2>6. s = "ok" /\ k # 503 /\ c \in DOMAIN handler => Out(c) = 200
    BY <1>1 DEF Outcome, Out
  <2>7. Done(r)' = Done(r) \cup {j}
    <3>1. {d \in Current(r)' : task'[d].st \in Finished}
            = {d \in Current(r) : task[d].st \in Finished} \cup {c}
      BY <1>3, <1>5, <1>8, <2>1, <2>2 DEF Current, Owned
    <3>2. Done(r)' = {Index(d) : d \in {d \in Current(r)' : task'[d].st \in Finished}}
      BY <1>4 DEF Done, Index, Frame
    <3>3. QED
      BY <2>j, <3>1, <3>2 DEF Done
  <2>8. Bad(r)' = IF how = "failed" THEN Bad(r) \cup {j} ELSE Bad(r)
    <3>1. {d \in Current(r)' : task'[d].st = "failed"}
            = IF how = "failed" THEN {d \in Current(r) : task[d].st = "failed"} \cup {c}
              ELSE {d \in Current(r) : task[d].st = "failed"}
      BY <1>3, <1>5, <1>8, <2>1, <2>2, <2>a DEF Current, Owned, Finished, Live
    <3>2. Bad(r)' = {Index(d) : d \in {d \in Current(r)' : task'[d].st = "failed"}}
      BY <1>4 DEF Bad, Index, Frame
    <3>3. QED
      BY <2>j, <3>1, <3>2 DEF Bad
  <2> DEFINE i == handler[r].step
             bad == IF how = "failed" THEN Bad(r) \cup {j} ELSE Bad(r)
             masked == IF how = "masked" THEN Masks(r) \cup {<<i, j>>} ELSE Masks(r)
  <2>m. Masks(r)' = masked
    <3>1. task'[c].code = k /\ task'[c].owner = r
      BY <1>1, <2>1 DEF Outcome, TaskUpdate
    <3>2. CASE how # "masked"
      <4>1. \A d \in DOMAIN task' :
              task'[d].owner = r /\ task'[d].code = 503 => d \in DOMAIN task /\ task[d].code = 503
        BY <1>2, <1>3, <2>a, <3>1, <3>2
      <4>2. QED
        BY <1>4, <2>1, <3>2, <4>1, MasksKept
    <3>3. CASE how = "masked"
      <4>1. MaskedCalls(r)' = MaskedCalls(r) \cup {c}
        <5>1. ASSUME NEW d \in DOMAIN task, d # c
              PROVE  d \in MaskedCalls(r)' <=> d \in MaskedCalls(r)
          BY <1>2, <1>3, <5>1 DEF MaskedCalls
        <5>2. c \in MaskedCalls(r)'
          BY <1>2, <2>a, <3>1, <3>3 DEF MaskedCalls
        <5>3. MaskedCalls(r) \subseteq DOMAIN task /\ MaskedCalls(r)' \subseteq DOMAIN task
          BY <1>2 DEF MaskedCalls
        <5>4. QED
          BY <5>1, <5>2, <5>3
      <4>2. c[Len(c)] = <<i, j>>
        <5>1. Svc(r) \in Services /\ r \in Ids /\ i \in Nat /\ j \in Nat
          BY <2>1, <2>3, StepIsNat, ScriptFacts DEF TypeOK, Naming, Named
        <5> HIDE DEF i
        <5>2. c = SubPath(r, i, j)
          BY <2>3 DEF i
        <5>3. QED
          BY <5>1, <5>2, SubPathFacts
      <4>3. QED
        BY <3>3, <4>1, <4>2 DEF Masks
    <3>4. QED
      BY <3>2, <3>3
  <2> HIDE DEF cmds
  <2>9. Execution(r)' = [svc |-> Svc(r), step |-> i, done |-> Done(r) \cup {j},
                         bad |-> bad, masked |-> masked, out |-> Out(r)]
    BY <1>2, <1>5, <2>1, <2>7, <2>8, <2>m DEF Execution
  <2>10. RunOf' = [RunOf EXCEPT ![r].done   = @ \cup {j},
                                ![r].bad    = IF how = "failed" THEN @ \cup {j} ELSE @,
                                ![r].masked = IF how = "masked" THEN @ \cup {<<i, j>>} ELSE @]
    <3>1. ASSUME NEW q \in DOMAIN handler, q # r PROVE Execution(q)' = Execution(q)
      <4>1. c \notin Current(q)
        BY <2>2, <3>1 DEF Current, Owned
      <4>2. QED
        BY <1>6, <3>1, <4>1
    <3>2. /\ r \in DOMAIN RunOf
          /\ RunOf' = [q \in DOMAIN RunOf |-> IF q = r THEN Execution(r)' ELSE RunOf[q]]
      BY <1>2, <2>1, <3>1, OneChanged
    <3> DEFINE e == RunOf[r]
               f == [e EXCEPT !.done = @ \cup {j}]
               g == [f EXCEPT !.bad = IF how = "failed" THEN @ \cup {j} ELSE @]
               h == [g EXCEPT !.masked = IF how = "masked" THEN @ \cup {<<i, j>>} ELSE @]
    <3>3. e = [svc |-> Svc(r), step |-> i, done |-> Done(r), bad |-> Bad(r),
               masked |-> Masks(r), out |-> Out(r)]
      BY <2>1, RunFields
    <3>4. RunOf = [q \in DOMAIN RunOf |-> RunOf[q]]
      BY DEF RunOf
    <3>5. [RunOf EXCEPT ![r].done   = @ \cup {j},
                        ![r].bad    = IF how = "failed" THEN @ \cup {j} ELSE @,
                        ![r].masked = IF how = "masked" THEN @ \cup {<<i, j>>} ELSE @]
            = [q \in DOMAIN RunOf |-> IF q = r THEN h ELSE RunOf[q]]
      BY <3>2, <3>4
    <3> HIDE DEF e, i, masked, bad
    <3>6. f = [svc |-> Svc(r), step |-> i, done |-> Done(r) \cup {j}, bad |-> Bad(r),
               masked |-> Masks(r), out |-> Out(r)]
      BY <3>3
    <3> HIDE DEF f
    <3>7. g = [svc |-> Svc(r), step |-> i, done |-> Done(r) \cup {j}, bad |-> bad,
               masked |-> Masks(r), out |-> Out(r)]
      <4>1. g = [f EXCEPT !.bad = IF how = "failed" THEN f.bad \cup {j} ELSE f.bad]
        OBVIOUS
      <4>2. bad = IF how = "failed" THEN f.bad \cup {j} ELSE f.bad
        BY <3>6 DEF bad
      <4>3. QED
        BY <3>6, <4>1, <4>2
    <3> HIDE DEF g
    <3>8. h = [svc |-> Svc(r), step |-> i, done |-> Done(r) \cup {j}, bad |-> bad,
               masked |-> masked, out |-> Out(r)]
      <4>1. h = [g EXCEPT !.masked = IF how = "masked" THEN g.masked \cup {<<i, j>>} ELSE g.masked]
        OBVIOUS
      <4>2. masked = IF how = "masked" THEN g.masked \cup {<<i, j>>} ELSE g.masked
        BY <3>7 DEF masked
      <4>3. QED
        BY <3>7, <4>1, <4>2
    <3> HIDE DEF h
    <3>9. Execution(r)' = h
      BY <2>9, <3>8
    <3>10. QED
      BY <3>2, <3>5, <3>9
  <2> HIDE DEF bad, masked
  <2>11. Abstract!Do(r, j, how)
    <3>1. /\ RunOf[r].step = i /\ RunOf[r].out = Out(r) /\ RunOf[r].done = Done(r)
          /\ DOMAIN RunOf = DOMAIN handler
      BY <2>1, RunFields
    <3>2. /\ Abstract!Commands(r) = cmds /\ ~Abstract!Over(r)
          /\ Abstract!SubRequest(r, RunOf[r].step, j) = c
      <4>1. ~(i > Steps(Svc(r)))
        BY <2>1, <2>3, StepIsNat
      <4>2. Abstract!Commands(r) = cmds /\ ~Abstract!Over(r)
        BY <2>1, <4>1, RunPosition DEF cmds
      <4>3. Abstract!SubRequest(r, RunOf[r].step, j) = SubPath(r, i, j)
        BY <3>1 DEF Abstract!SubRequest, SubPath
      <4>4. QED
        BY <2>3, <4>2, <4>3
    <3>3. how = "done" /\ c \in DOMAIN RunOf => RunOf[c].out = 200
      BY <1>8, <2>6, <2>a, <3>1, RunFields DEF Finished
    <3>4. how = "masked" => cmds[j].op = "call"
      <4>1. k = 503 => task[c].dest \in Services
        BY <1>1 DEF Outcome
      <4>2. r # NoOwner
        BY DEF TypeOK, Naming, Named, NoOwner
      <4>3. task[c].dest = Destination(cmds[j])
        BY <1>0, <2>1, <2>2, <2>j, <4>2, CurrentFacts DEF Destinations, Destined, CommandOf, Index, cmds
      <4>4. QED
        BY <2>a, <4>1, <4>3, ConstantsAssumption DEF Destination
    <3> HIDE DEF i
    <3>5. RunOf' = [RunOf EXCEPT ![r].done   = @ \cup {j},
                                 ![r].bad    = IF how = "failed" THEN @ \cup {j} ELSE @,
                                 ![r].masked = IF how = "masked" THEN @ \cup {<<RunOf[r].step, j>>} ELSE @]
      BY <2>10, <3>1
    <3>6. QED
      BY <2>3, <2>4, <2>5, <3>1, <3>2, <3>3, <3>4, <3>5 DEF Abstract!Do, Abstract!NoAnswer
  <2>12. QED
    <3>1. r \in DOMAIN RunOf
      BY <2>1, RunFields
    <3>2. ~Abstract!Over(r) /\ j \in DOMAIN Abstract!Commands(r)
      BY <2>11 DEF Abstract!Do
    <3>3. QED
      BY <2>11, <3>1, <3>2 DEF Abstract!Next
<1>9. QED
  BY <1>7, <1>8
-----------------------------------------------------------------------------
(***************************************************************************)
(* A delivery.                                                             *)
(***************************************************************************)
\* A request on the wire is the client's, or one that a call of its owner makes:
\* the call is due and has not succeeded, or a proxy answered it.
LEMMA DeliveryIsCaused ==
  ASSUME TreeInv, NEW c \in wire, NEW p \in Pods, ServiceOf[p] = task[c].dest
  PROVE  Abstract!Caused(c, ServiceOf[p])
<1> USE DEF TreeInv, Inv
<1>1. c \in DOMAIN task /\ ServiceOf[p] \in Services /\ Named(c) /\ Destined(c)
  BY ConstantsAssumption DEF TypeOK, Naming, Destinations
<1>2. task[c].st \in {"sent", "failed", "gone"} \/ task[c].code = 503
  BY <1>1 DEF TaskFates, TaskFate
<1>3. CASE task[c].owner = NoOwner
  <2>1. PICK k \in Clients : c = <<k>>
    BY <1>1, <1>3 DEF Named
  <2>2. Len(c) = 1 /\ ServiceOf[p] = Entry
    BY <1>1, <1>3, <2>1 DEF Destined
  <2>3. QED
    BY <2>2 DEF Abstract!Caused
<1>4. CASE task[c].owner # NoOwner
  <2>1. PICK q \in DOMAIN handler : q = task[c].owner
    BY <1>1, <1>4 DEF Named
  <2>2. PICK i : i = task[c].step
    OBVIOUS
  <2>3. i \in 1 .. Steps(Svc(q)) /\ \E j \in DOMAIN Subcommands(Script[Svc(q)][i]) : c = SubPath(q, i, j)
    BY <1>1, <1>4, <2>1, <2>2 DEF Named, CommandPath
  <2>4. PICK j \in DOMAIN Subcommands(Script[Svc(q)][i]) : c = SubPath(q, i, j)
    BY <2>3
  <2>5. c[Len(c)] = <<i, j>>
    <3>1. Svc(q) \in Services /\ q \in Ids
      BY ConstantsAssumption DEF TypeOK, HandlerType, Svc, Naming, Named
    <3>2. i \in Nat /\ j \in Nat
      BY <2>3, <3>1, ScriptFacts
    <3>3. QED
      BY <2>4, <3>1, <3>2, SubPathFacts
  <2>6. Index(c) = j
    BY <2>5 DEF Index
  <2> DEFINE cmd == Subcommands(Script[Svc(q)][i])[j]
  <2>7. ServiceOf[p] = Destination(cmd)
    BY <1>1, <1>4, <2>1, <2>2, <2>6 DEF Destined, CommandOf, Index
  <2>8. cmd.op = "call" /\ cmd.service = ServiceOf[p]
    <3> HIDE DEF cmd
    <3>1. QED
      BY <1>1, <2>7, ConstantsAssumption DEF Destination
  <2>9. (i = RunOf[q].step /\ j \notin RunOf[q].done \ RunOf[q].bad) \/ <<i, j>> \in RunOf[q].masked
    <3>1. CASE task[c].code = 503
      <4>1. <<i, j>> \in Masks(q)
        BY <1>1, <2>1, <2>5, <3>1 DEF Masks, MaskedCalls
      <4>2. QED
        BY <4>1, RunFields
    <3>2. CASE task[c].st \in {"sent", "failed", "gone"}
      <4>1. c \in Current(q)
        BY <1>1, <2>1, <3>2, LiveIsCurrent
      <4>2. i = handler[q].step
        BY <2>2, <4>1 DEF Current, Owned
      <4>3. j \notin Done(q) \ Bad(q)
        BY <2>6, <3>2, <4>1, DoneIndex DEF Finished
      <4>4. QED
        BY <4>2, <4>3, RunFields
    <3>3. QED
      BY <1>2, <3>1, <3>2
  <2> HIDE DEF cmd
  <2>10. c = Abstract!SubRequest(q, i, j) /\ Abstract!CommandAt(q, i, j) = cmd
    BY <2>4, RunPosition DEF cmd
  <2>11. /\ q \in DOMAIN RunOf /\ i \in DOMAIN Script[RunOf[q].svc]
         /\ j \in DOMAIN Abstract!Subcommands(Script[RunOf[q].svc][i])
    <3>1. q \in DOMAIN RunOf /\ RunOf[q].svc = Svc(q) /\ Svc(q) \in Services
      BY RunFields, StepIsNat
    <3>2. i \in DOMAIN Script[Svc(q)]
      BY <2>3, <3>1, ScriptAssumption DEF Steps, IsSequence
    <3>3. QED
      BY <3>1, <3>2 DEF Abstract!Subcommands, Subcommands
  <2>12. QED
    BY <2>8, <2>9, <2>10, <2>11 DEF Abstract!Caused
<1>5. QED
  BY <1>3, <1>4

LEMMA DeliverMaps ==
  ASSUME TreeInv, [Next]_vars, NEW c \in wire, NEW p \in Pods, Deliver(c, p)
  PROVE  Abstract!Next
<1> USE DEF TreeInv, Inv
<1> DEFINE s == ServiceOf[p]
<1>1. /\ c \in DOMAIN task /\ c \notin DOMAIN handler /\ task' = task
      /\ DOMAIN handler' = DOMAIN handler \cup {c}
      /\ \A r \in DOMAIN handler : handler'[r] = handler[r]
      /\ handler'[c].pod = p /\ handler'[c].step = 1 /\ handler'[c].st = "run"
      /\ handler'[c].code = 0
  BY DeliverEffect
<1>2. s \in Services /\ s = task[c].dest
  BY ConstantsAssumption DEF Deliver
<1>3. Abstract!Caused(c, s)
  BY <1>2, DeliveryIsCaused
<1>4. \A d \in DOMAIN task : task[d].owner # c
  <2>1. c # <<>> /\ \A d \in DOMAIN task : task[d].owner = NoOwner \/ task[d].owner \in DOMAIN handler
    BY <1>1 DEF Naming, Named
  <2>2. QED
    BY <1>1, <2>1 DEF NoOwner
<1>5. Current(c)' = {}
  BY <1>1, <1>4 DEF Current, Owned
<1>6. Execution(c)' = [svc |-> s, step |-> 1, done |-> {}, bad |-> {}, masked |-> {}, out |-> 0]
  <2>1. Done(c)' = {} /\ Bad(c)' = {} /\ Masks(c)' = {}
    BY <1>1, <1>4, <1>5 DEF Done, Bad, Masks, MaskedCalls
  <2>2. Out(c)' = 0 /\ Svc(c)' = s
    BY <1>1 DEF Out, Svc
  <2>3. QED
    BY <1>1, <2>1, <2>2 DEF Execution
<1>7. ASSUME NEW r \in DOMAIN handler PROVE Execution(r)' = Execution(r)
  <2>1. Current(r)' = Current(r) /\ Svc(r)' = Svc(r) /\ Out(r)' = Out(r) /\ Masks(r)' = Masks(r)
    BY <1>1 DEF Current, Owned, Svc, Out, Masks, MaskedCalls
  <2>2. QED
    BY <1>1, <2>1, ExecutionKept
<1>8. RunOf' = [q \in DOMAIN handler \cup {c} |->
                  IF q = c THEN [svc |-> s, step |-> 1, done |-> {}, bad |-> {}, masked |-> {},
                                 out |-> 0]
                  ELSE RunOf[q]]
  <2>1. RunOf' = [q \in DOMAIN handler' |-> Execution(q)']
    BY DEF RunOf
  <2>2. \A q \in DOMAIN handler : RunOf[q] = Execution(q)
    BY DEF RunOf
  <2>3. QED
    BY <1>1, <1>6, <1>7, <2>1, <2>2
<1>9. DOMAIN RunOf = DOMAIN handler /\ DOMAIN RunOf' = DOMAIN handler \cup {c}
  BY <1>8 DEF RunOf
<1> HIDE DEF s
<1>10. Abstract!Accept(c, s)
  BY <1>1, <1>3, <1>8, <1>9 DEF Abstract!Accept, Abstract!NoAnswer
<1>11. QED
  BY <1>1, <1>2, <1>9, <1>10 DEF Abstract!Next

-----------------------------------------------------------------------------
(***************************************************************************)
(* The steps of a handler.                                                 *)
(***************************************************************************)
LEMMA StartStepMaps ==
  ASSUME Inv, [Next]_vars, NEW r \in DOMAIN handler, StartStep(r)
  PROVE  RunOf' = RunOf
<1> USE DEF Inv
<1>1. /\ DOMAIN handler' = DOMAIN handler
      /\ \A q \in DOMAIN handler :
           /\ q # r => handler'[q] = handler[q]
           /\ handler'[q].pod = handler[q].pod /\ handler'[q].step = handler[q].step
           /\ handler'[q].code = handler[q].code
      /\ handler'[r].st = "wait" /\ handler[r].st = "run"
      /\ DOMAIN task \subseteq DOMAIN task' /\ \A c \in DOMAIN task : task'[c] = task[c]
      /\ \A c \in DOMAIN task' \ DOMAIN task :
           task'[c].owner = r /\ task'[c].st = "ready" /\ task'[c].code = 0
  BY StartStepFields
<1>2. Current(r) = {}
  BY <1>1 DEF Progress, Reached
<1>6. \A q \in DOMAIN handler : Masks(q)' = Masks(q)
  BY <1>1, FrameStep, MasksKept
<1>3. Execution(r)' = Execution(r)
  <2>1. \A c \in Current(r)' : task'[c].st \notin Finished
    BY <1>1, <1>2 DEF Current, Owned, Finished
  <2>2. Done(r)' = {} /\ Bad(r)' = {}
    BY <2>1 DEF Done, Bad, Finished
  <2>3. Done(r) = {} /\ Bad(r) = {}
    BY <1>2 DEF Done, Bad
  <2>4. Out(r)' = Out(r) /\ Svc(r)' = Svc(r)
    BY <1>1 DEF Out, Svc
  <2>5. QED
    BY <1>1, <1>6, <2>2, <2>3, <2>4 DEF Execution
<1>4. ASSUME NEW q \in DOMAIN handler, q # r PROVE Execution(q)' = Execution(q)
  <2>1. Current(q)' = Current(q) /\ Svc(q)' = Svc(q) /\ Out(q)' = Out(q)
    BY <1>1, <1>4 DEF Current, Owned, Svc, Out
  <2>2. \A c \in Current(q) : task'[c] = task[c]
    BY <1>1 DEF Current, Owned
  <2>3. QED
    BY <1>1, <1>6, <2>1, <2>2, ExecutionKept
<1>5. QED
  BY <1>1, <1>3, <1>4, AllKept
LEMMA MoveMaps ==
  ASSUME TreeInv, [Next]_vars, NEW r \in DOMAIN handler,
         Join(r) \/ EndScript(r) \/ WriteResponse(r) \/ ReturnResponse(r)
  PROVE  [Abstract!Next]_RunOf
<1> USE DEF TreeInv, Inv
<1> DEFINE i == handler[r].step
           cmds == Subcommands(Script[Svc(r)][i])
<1>1. Moves(r) /\ task' = task
  BY HandlerEffect
<1>2. /\ DOMAIN handler' = DOMAIN handler
      /\ \A q \in DOMAIN handler : q # r => handler'[q] = handler[q]
      /\ handler'[r].pod = handler[r].pod
  <2>1. PICK st, step, code : HandlerMove(r, st, step, code)
    BY <1>1 DEF Moves
  <2>2. QED
    BY <2>1, MoveFields
<1>15. \A q \in DOMAIN handler : Masks(q)' = Masks(q)
  BY <1>1 DEF Masks, MaskedCalls
<1>3. ASSUME NEW q \in DOMAIN handler, q # r PROVE Execution(q)' = Execution(q)
  <2>1. /\ Current(q)' = Current(q) /\ Svc(q)' = Svc(q) /\ Out(q)' = Out(q)
        /\ Masks(q)' = Masks(q)
    BY <1>1, <1>2, <1>3, <1>15 DEF Current, Owned, Svc, Out
  <2>2. QED
    BY <1>1, <1>2, <1>3, <2>1, ExecutionKept
<1>4. /\ r \in DOMAIN RunOf
      /\ RunOf' = [q \in DOMAIN RunOf |-> IF q = r THEN Execution(r)' ELSE RunOf[q]]
  BY <1>2, <1>3, OneChanged
<1>5. ASSUME handler'[r].step = i PROVE Done(r)' = Done(r) /\ Bad(r)' = Bad(r)
  BY <1>1, <1>5 DEF Done, Bad, Current, Owned, Index
<1>6. Svc(r)' = Svc(r)
  BY <1>2 DEF Svc
<1>7. RunOf[r].step = i /\ RunOf[r].done = Done(r) /\ RunOf[r].bad = Bad(r) /\ RunOf[r].out = Out(r)
  BY RunFields
<1>8. handler[r].st \in {"run", "wait"} => Out(r) = 0
  BY DEF Out, HandlerFates, HandlerFate
<1>9. ASSUME Joined(r) PROVE ~Abstract!Over(r) /\ Done(r) = DOMAIN Abstract!Commands(r)
  <2>1. i \in 1 .. Steps(Svc(r)) /\ \A j \in DOMAIN cmds : SubPath(r, i, j) \in DOMAIN task
    BY <1>9 DEF Joined, Progress, Reached
  <2>2. ~(i > Steps(Svc(r)))
    BY <2>1, StepIsNat
  <2>3. ~Abstract!Over(r) /\ Abstract!Commands(r) = cmds
    BY <2>2, RunPosition
  <2>4. ASSUME NEW j \in DOMAIN cmds PROVE j \in Done(r)
    <3>1. task[SubPath(r, i, j)].owner = r /\ task[SubPath(r, i, j)].step = i
      BY <2>1, OwnerOfSubPath
    <3>2. SubPath(r, i, j) \in Current(r)
      BY <2>1, <3>1 DEF Current, Owned
    <3>3. r \in Ids /\ i \in Nat /\ j \in Nat
      BY <2>1, StepIsNat, ScriptFacts DEF TypeOK, Naming, Named
    <3>4. Index(SubPath(r, i, j)) = j
      <4> HIDE DEF i, cmds
      <4>1. QED
        BY <3>3, SubPathFacts DEF Index
    <3>5. QED
      BY <1>9, <3>2, <3>4 DEF Joined, Done
  <2>5. ASSUME NEW j \in Done(r) PROVE j \in DOMAIN cmds
    BY CurrentFacts DEF Done
  <2> HIDE DEF cmds
  <2>6. Done(r) = DOMAIN cmds
    BY <2>4, <2>5
  <2>7. QED
    BY <2>3, <2>6
<1>10. CASE /\ Joined(r) /\ handler[r].errs = {}
            /\ HandlerMove(r, "run", i + 1, handler[r].code)
  <2>1. handler'[r].step = i + 1 /\ handler'[r].st = "run" /\ handler'[r].code = handler[r].code
    BY <1>10, MoveFields
  <2>2. Bad(r) = {}
    BY <1>10 DEF Joined, Bad, ErrsKept, ErrsKeptBy
  <2>3. Current(r)' = {}
    <3>1. Current(r)' = {c \in DOMAIN task : task[c].owner = r /\ task[c].step = i + 1}
      BY <1>1, <2>1 DEF Current, Owned
    <3>2. ASSUME NEW c \in DOMAIN task, task[c].owner = r PROVE task[c].step # i + 1
      <4>1. r # NoOwner
        BY DEF TypeOK, Naming, Named, NoOwner
      <4>2. task[c].step <= i /\ task[c].step \in Nat /\ i \in Nat
        BY <3>2, <4>1, StepIsNat DEF TypeOK, TaskType, Naming, Named
      <4>3. QED
        BY <4>2
    <3>3. QED
      BY <3>1, <3>2
  <2>4. Done(r)' = {} /\ Bad(r)' = {} /\ Out(r)' = Out(r)
    BY <1>10, <2>1, <2>3 DEF Done, Bad, Out, Joined
  <2>5. Execution(r)' = [svc |-> Svc(r), step |-> i + 1, done |-> {}, bad |-> Bad(r),
                         masked |-> Masks(r), out |-> Out(r)]
    BY <1>6, <1>15, <2>1, <2>2, <2>4 DEF Execution
  <2>6. RunOf' = [RunOf EXCEPT ![r].step = @ + 1, ![r].done = {}]
    BY <1>4, <2>5, AdvanceUpdate
  <2>7. Abstract!Advance(r)
    BY <1>7, <1>8, <1>9, <1>10, <2>2, <2>6
       DEF Abstract!Advance, Abstract!AllDone, Abstract!NoAnswer, Joined
  <2>8. QED
    BY <1>4, <2>7 DEF Abstract!Next
<1>11. CASE Joined(r) /\ handler[r].errs # {} /\ HandlerMove(r, "respond", i, 500)
  <2>1. handler'[r].step = i /\ handler'[r].st = "respond" /\ handler'[r].code = 500
    BY <1>11, MoveFields
  <2>2. Bad(r) # {}
    BY <1>11 DEF Bad, ErrsKept, ErrsKeptBy
  <2>3. Execution(r)' = [svc |-> Svc(r), step |-> i, done |-> Done(r), bad |-> Bad(r),
                         masked |-> Masks(r), out |-> 500]
    BY <1>5, <1>6, <1>15, <2>1 DEF Execution, Out
  <2>4. RunOf' = [RunOf EXCEPT ![r].out = 500]
    BY <1>4, <2>3, AnswerUpdate
  <2>5. Abstract!Answer(r)
    BY <1>7, <1>8, <1>9, <1>11, <2>2, <2>4
       DEF Abstract!Answer, Abstract!AllDone, Abstract!NoAnswer, Joined
  <2>6. QED
    BY <1>4, <2>5 DEF Abstract!Next
<1>12. CASE /\ handler[r].st = "run" /\ i > Steps(Svc(r))
            /\ HandlerMove(r, "respond", i, 200)
  <2>1. handler'[r].step = i /\ handler'[r].st = "respond" /\ handler'[r].code = 200
    BY <1>12, MoveFields
  <2>2. Abstract!Over(r)
    BY <1>12, RunPosition
  <2>3. Execution(r)' = [svc |-> Svc(r), step |-> i, done |-> Done(r), bad |-> Bad(r),
                         masked |-> Masks(r), out |-> 200]
    BY <1>5, <1>6, <1>15, <2>1 DEF Execution, Out
  <2>4. RunOf' = [RunOf EXCEPT ![r].out = 200]
    BY <1>4, <2>3, AnswerUpdate
  <2>5. Abstract!Answer(r)
    BY <1>7, <1>8, <1>12, <2>2, <2>4 DEF Abstract!Answer, Abstract!NoAnswer
  <2>6. QED
    BY <1>4, <2>5 DEF Abstract!Next
<1>13. CASE \/ handler[r].st = "respond" /\ HandlerMove(r, "written", i, handler[r].code)
            \/ handler[r].st = "written" /\ HandlerMove(r, "returned", i, handler[r].code)
  <2>1. handler'[r].step = i /\ handler'[r].code = handler[r].code
    BY <1>13, MoveFields
  <2>2. handler[r].code \in Codes
    BY <1>13 DEF HandlerFates, HandlerFate, Responding
  <2>3. Out(r)' = Out(r)
    BY <2>1, <2>2 DEF Out, Codes
  <2>4. Execution(r)' = Execution(r)
    BY <1>5, <1>6, <1>15, <2>1, <2>3 DEF Execution
  <2>5. QED
    BY <1>2, <1>3, <2>4, AllKept
<1>14. QED
  BY <1>1, <1>10, <1>11, <1>12, <1>13 DEF Moves

-----------------------------------------------------------------------------
(***************************************************************************)
(* A crash, and all steps together.                                        *)
(***************************************************************************)
LEMMA CrashMaps ==
  ASSUME Inv, [Next]_vars, NEW p \in Pods, Crash(p)
  PROVE  Abstract!Next
<1> USE DEF Inv
<1> DEFINE lost == {r \in Dying(p) : Out(r) = 0}
<1>1. /\ DOMAIN task' = DOMAIN task /\ DOMAIN handler' = DOMAIN handler
      /\ \A r \in DOMAIN handler :
           /\ handler'[r].pod = handler[r].pod /\ handler'[r].step = handler[r].step
           /\ handler'[r].code = handler[r].code
           /\ handler'[r].st = IF r \in Dying(p) THEN "dead" ELSE handler[r].st
      /\ \A c \in DOMAIN task :
           /\ task'[c].owner = task[c].owner /\ task'[c].step = task[c].step
           /\ task'[c].code = task[c].code
           /\ task'[c].st = IF task[c].owner \in Dying(p) /\ task[c].st \notin Finished
                            THEN "gone" ELSE task[c].st
  BY CrashEffect
<1>2. ASSUME NEW r \in DOMAIN handler
      PROVE  /\ Svc(r)' = Svc(r) /\ handler'[r].step = handler[r].step
             /\ Done(r)' = Done(r) /\ Bad(r)' = Bad(r) /\ Masks(r)' = Masks(r)
             /\ Out(r)' = IF r \in lost THEN 1 ELSE Out(r)
  <2>1. Current(r)' = Current(r)
    BY <1>1 DEF Current, Owned
  <2>2. \A c \in Current(r) : /\ task'[c].st \in Finished <=> task[c].st \in Finished
                              /\ task'[c].st = "failed" <=> task[c].st = "failed"
    BY <1>1 DEF Current, Owned, Finished
  <2>3. {d \in Current(r)' : task'[d].st \in Finished} = {d \in Current(r) : task[d].st \in Finished}
    BY <2>1, <2>2
  <2>4. {d \in Current(r)' : task'[d].st = "failed"} = {d \in Current(r) : task[d].st = "failed"}
    BY <2>1, <2>2
  <2>5. Done(r)' = Done(r)
    BY <2>3 DEF Done, Index
  <2>6. Bad(r)' = Bad(r)
    BY <2>4 DEF Bad, Index
  <2>7. Out(r)' = IF r \in lost THEN 1 ELSE Out(r)
    BY <1>1 DEF Out
  <2>8. Svc(r)' = Svc(r) /\ handler'[r].step = handler[r].step
    BY <1>1 DEF Svc
  <2>9. Masks(r)' = Masks(r)
    BY <1>1, FrameStep, MasksKept
  <2>10. QED
    BY <2>5, <2>6, <2>7, <2>8, <2>9
<1>3. lost \subseteq DOMAIN RunOf /\ \A r \in lost : RunOf[r].out = 0
  BY RunFields DEF Dying, RunOf
<1>4. RunOf' = [r \in DOMAIN handler |-> Execution(r)']
  BY <1>1 DEF RunOf
<1> HIDE DEF lost
<1>5. ASSUME NEW r \in DOMAIN handler
      PROVE  Execution(r)' = IF r \in lost THEN [RunOf[r] EXCEPT !.out = 1] ELSE RunOf[r]
  <2>1. RunOf[r] = [svc |-> Svc(r), step |-> handler[r].step, done |-> Done(r),
                    bad |-> Bad(r), masked |-> Masks(r), out |-> Out(r)]
    BY RunFields
  <2>2. Execution(r)' = [svc |-> Svc(r), step |-> handler[r].step, done |-> Done(r),
                         bad |-> Bad(r), masked |-> Masks(r),
                         out |-> IF r \in lost THEN 1 ELSE Out(r)]
    BY <1>2 DEF Execution
  <2>3. CASE r \in lost
    BY <2>1, <2>2, <2>3
  <2>4. CASE r \notin lost
    BY <2>1, <2>2, <2>4
  <2>5. QED
    BY <2>3, <2>4
<1>6. DOMAIN RunOf = DOMAIN handler
  BY DEF RunOf
<1>7. RunOf' = [r \in DOMAIN RunOf |-> IF r \in lost THEN [RunOf[r] EXCEPT !.out = 1] ELSE RunOf[r]]
  BY <1>4, <1>5, <1>6
<1>8. Abstract!Lose(lost)
  BY <1>3, <1>7 DEF Abstract!Lose, Abstract!NoAnswer, Abstract!Lost
<1>9. QED
  BY <1>3, <1>8 DEF Abstract!Next

LEMMA StepMaps == TreeInv /\ [Next]_vars => [Abstract!Next]_RunOf
<1> SUFFICES ASSUME TreeInv, [Next]_vars PROVE [Abstract!Next]_RunOf
  OBVIOUS
<1>0. Inv /\ Destinations
  BY DEF TreeInv
<1>1. CASE task' = task /\ handler' = handler /\ wire' = wire
  <2>1. ASSUME NEW r \in DOMAIN handler PROVE Execution(r)' = Execution(r)
    BY <1>1 DEF Execution, Svc, Out, Done, Bad, Masks, MaskedCalls, Current, Owned, Index
  <2>2. QED
    BY <1>1, <2>1, AllKept
<1>2. ASSUME NEW c \in DOMAIN task, CallerStep(c) PROVE [Abstract!Next]_RunOf
  BY <1>0, <1>2, CallerMaps
<1>3. ASSUME NEW c \in wire, NEW p \in Pods, Deliver(c, p) PROVE [Abstract!Next]_RunOf
  BY <1>3, DeliverMaps
<1>4. ASSUME NEW r \in DOMAIN handler, StartStep(r) PROVE [Abstract!Next]_RunOf
  BY <1>0, <1>4, StartStepMaps
<1>5. ASSUME NEW r \in DOMAIN handler,
             Join(r) \/ EndScript(r) \/ WriteResponse(r) \/ ReturnResponse(r)
      PROVE  [Abstract!Next]_RunOf
  BY <1>5, MoveMaps
<1>6. ASSUME NEW p \in Pods, Crash(p) PROVE [Abstract!Next]_RunOf
  BY <1>0, <1>6, CrashMaps
<1>7. QED
  BY <1>1, <1>2, <1>3, <1>4, <1>5, <1>6, NextCases

LEMMA InitMaps == Init => Abstract!Init
<1> SUFFICES ASSUME Init PROVE Abstract!Init
  OBVIOUS
<1>1. DOMAIN handler = {}
  BY DEF Init
<1>2. RunOf = [r \in {} |-> 0]
  BY <1>1 DEF RunOf
<1>3. QED
  BY <1>2 DEF Abstract!Init

\* Whatever the goroutines' unlocked appends, lost requests and crashes do, each
\* accepted request runs its script once, step by step, and answers as its
\* commands ended (ServeHTTP and execute, handler.go:45-55, executable.go:18-100).
THEOREM Refinement == Spec => ImplementsScriptRun
<1>1. Init => Abstract!Init
  BY InitMaps
<1>2. TreeInv /\ [Next]_vars => [Abstract!Next]_RunOf
  BY StepMaps
<1>3. QED
  BY <1>1, <1>2, TreeInvariance, PTL DEF Spec, Abstract!Spec, ImplementsScriptRun

\* What it means between two levels of a call tree: a run that answers 200 has
\* no accepted sub-request without one, unless a proxy answered the call in its
\* place (executable.go:63-67, handler.go:47-54).
THEOREM NoLevelHidesAFailure == Spec => []Abstract!ChildrenSucceed
<1>1. TreeInv => Abstract!ChildrenSucceed
  <2> SUFFICES ASSUME TreeInv, NEW r \in DOMAIN RunOf, RunOf[r].out = 200,
                      NEW i \in DOMAIN Script[RunOf[r].svc],
                      NEW j \in DOMAIN Abstract!Subcommands(Script[RunOf[r].svc][i]),
                      Abstract!SubRequest(r, i, j) \in DOMAIN RunOf
               PROVE  \/ RunOf[Abstract!SubRequest(r, i, j)].out = 200
                      \/ <<i, j>> \in RunOf[r].masked
    BY DEF Abstract!ChildrenSucceed
  <2> USE DEF TreeInv, Inv
  <2> DEFINE d == SubPath(r, i, j)
  <2>1. /\ r \in DOMAIN handler /\ d \in DOMAIN handler /\ d \in DOMAIN task
        /\ d = Abstract!SubRequest(r, i, j)
    BY DEF RunOf, Abstract!SubRequest, SubPath, TypeOK
  <2>2. /\ RunOf[r].svc = Svc(r) /\ RunOf[r].out = Out(r) /\ RunOf[r].masked = Masks(r)
        /\ RunOf[d].out = Out(d)
    BY <2>1, RunFields
  <2>3. handler[r].code = 200
    BY <2>2 DEF Out
  <2>4. i \in 1 .. Steps(Svc(r)) /\ j \in DOMAIN Subcommands(Script[Svc(r)][i])
    <3>1. Svc(r) \in Services
      BY <2>1, StepIsNat
    <3>2. i \in 1 .. Steps(Svc(r))
      BY <2>2, <3>1, ScriptAssumption DEF Steps, IsSequence
    <3>3. QED
      BY <2>2, <3>2 DEF Abstract!Subcommands, Subcommands
  <2>5. task[d].owner = r
    BY <2>1, <2>4, OwnerOfSubPath
  <2>6. task[d].st = "ok"
    BY <2>1, <2>3, <2>5 DEF StatusFaithful, Faithful
  <2>7. CASE task[d].code = 503
    <3>1. Svc(r) \in Services /\ r \in Ids
      BY <2>1, StepIsNat DEF TypeOK, Naming, Named
    <3>2. i \in Nat /\ j \in Nat
      BY <2>4, <3>1, ScriptFacts
    <3>3. d[Len(d)] = <<i, j>>
      BY ONLY <3>1, <3>2, SubPathFacts
    <3> HIDE DEF d
    <3>4. <<i, j>> \in Masks(r)
      BY <2>1, <2>5, <2>7, <3>3 DEF Masks, MaskedCalls
    <3>5. QED
      BY <2>2, <3>4
  <2>8. CASE task[d].code # 503
    <3>1. handler[d].code = 200
      BY <2>1, <2>6, <2>8 DEF TaskFates, TaskFate
    <3>2. QED
      BY <2>1, <2>2, <3>1 DEF Out
  <2>9. QED
    BY <2>7, <2>8
<1>2. QED
  BY <1>1, TreeInvariance, PTL
=============================================================================
