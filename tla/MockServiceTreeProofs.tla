------------------------ MODULE MockServiceTreeProofs ------------------------
(***************************************************************************)
(* Proofs about the tree of calls that a client's request unfolds into:    *)
(* what its requests carry, whose success the answer of one speaks for,    *)
(* where each was counted, and what the counters of all processes sum to.  *)
(***************************************************************************)
EXTENDS MockServiceProofs, FiniteSetTheorems, WellFoundedInduction

-----------------------------------------------------------------------------
(***************************************************************************)
(* Prefixes of paths.                                                      *)
(***************************************************************************)
LEMMA PrefixFacts ==
  ASSUME NEW c \in Ids, NEW n \in 1 .. Len(c)
  PROVE  /\ Len(c) \in Nat
         /\ Prefix(c, n) \in Ids
         /\ Len(Prefix(c, n)) = n
         /\ \A i \in 1 .. n : Prefix(c, n)[i] = c[i]
<1>1. Len(c) \in Nat
  BY LenProperties DEF Ids
<1>2. \A i \in 1 .. n : c[i] \in Clients \cup (Nat \X Nat)
  BY <1>1, ElementOfSeq DEF Ids
<1>3. /\ SubSeq(c, 1, n) \in Seq(Clients \cup (Nat \X Nat))
      /\ Len(SubSeq(c, 1, n)) = n - 1 + 1
      /\ \A i \in 1 .. n - 1 + 1 : SubSeq(c, 1, n)[i] = c[1 + i - 1]
  BY <1>1, <1>2, SubSeqProperties
<1>4. \A i \in 1 .. n : SubSeq(c, 1, n)[i] = c[i]
  BY <1>1, <1>3
<1>5. QED
  BY <1>1, <1>3, <1>4 DEF Prefix, Ids

\* The prefix of a given length is the only path of that length that agrees.
LEMMA PrefixUnique ==
  ASSUME NEW c \in Ids, NEW r \in Ids, Len(r) \in 1 .. Len(c),
         \A i \in 1 .. Len(r) : c[i] = r[i]
  PROVE  r = Prefix(c, Len(r))
<1> DEFINE p == Prefix(c, Len(r))
<1>1. p \in Ids /\ Len(p) = Len(r) /\ \A i \in 1 .. Len(r) : p[i] = c[i]
  BY PrefixFacts
<1>2. \A i \in 1 .. Len(r) : r[i] = p[i]
  BY <1>1
<1> HIDE DEF p
<1>3. r = p
  BY <1>1, <1>2, SeqEqual DEF Ids
<1>4. QED
  BY <1>3 DEF p

\* A subrequest has the prefixes of its request, and itself.
LEMMA SubPathPrefix ==
  ASSUME NEW r \in Ids, NEW i \in Nat, NEW j \in Nat
  PROVE  /\ Len(r) \in Nat
         /\ Len(SubPath(r, i, j)) = Len(r) + 1
         /\ \A n \in 1 .. Len(r) : Prefix(SubPath(r, i, j), n) = Prefix(r, n)
         /\ r # <<>> => Prefix(SubPath(r, i, j), Len(r)) = r
         /\ Prefix(SubPath(r, i, j), Len(r) + 1) = SubPath(r, i, j)
<1> DEFINE c == SubPath(r, i, j)
<1>1. <<i, j>> \in Clients \cup (Nat \X Nat)
  OBVIOUS
<1>2. /\ c \in Ids
      /\ Len(c) = Len(r) + 1
      /\ \A n \in 1 .. Len(r) : c[n] = r[n]
  BY <1>1, AppendProperties DEF Ids, SubPath
<1>3. Len(r) \in Nat /\ (r # <<>> => Len(r) \in 1 .. Len(c))
  BY <1>2, LenProperties, EmptySeq DEF Ids
<1> HIDE DEF c
<1>4. ASSUME NEW n \in 1 .. Len(r) PROVE Prefix(c, n) = Prefix(r, n)
  <2> DEFINE p == Prefix(r, n)
  <2>1. p \in Ids /\ Len(p) = n /\ \A k \in 1 .. n : p[k] = r[k]
    BY PrefixFacts
  <2>2. n \in 1 .. Len(c) /\ \A k \in 1 .. n : c[k] = p[k]
    BY <1>2, <1>3, <2>1
  <2> HIDE DEF p
  <2>3. p = Prefix(c, Len(p))
    BY <1>2, <2>1, <2>2, PrefixUnique
  <2>4. QED
    BY <2>1, <2>3 DEF p
<1>5. r # <<>> => Prefix(c, Len(r)) = r
  BY <1>2, <1>3, PrefixUnique
<1>6. Prefix(c, Len(r) + 1) = c
  BY <1>2, SubSeqFull DEF Ids, Prefix
<1>7. QED
  BY <1>2, <1>3, <1>4, <1>5, <1>6 DEF c

-----------------------------------------------------------------------------
(***************************************************************************)
(* Which steps make a task or a handler.                                   *)
(***************************************************************************)
LEMMA NewTasks ==
  ASSUME Inv, [Next]_vars, NEW c \in DOMAIN task' \ DOMAIN task
  PROVE  \E r \in DOMAIN handler : StartStep(r)
<1> USE DEF Inv
<1>1. ASSUME NEW d \in DOMAIN task, CallerStep(d) PROVE DOMAIN task' = DOMAIN task
  BY <1>1, CallerEffect DEF Outcome, TaskUpdate
<1>2. ASSUME NEW d \in wire, NEW p \in Pods, Deliver(d, p) PROVE DOMAIN task' = DOMAIN task
  BY <1>2 DEF Deliver
<1>3. ASSUME NEW r \in DOMAIN handler,
             Join(r) \/ EndScript(r) \/ WriteResponse(r) \/ ReturnResponse(r)
      PROVE  DOMAIN task' = DOMAIN task
  BY <1>3, HandlerEffect
<1>4. ASSUME NEW p \in Pods, Crash(p) PROVE DOMAIN task' = DOMAIN task
  BY <1>4, CrashEffect
<1>5. QED
  BY <1>1, <1>2, <1>3, <1>4, NextCases

\* A new task is a command of the step that its owner starts.
LEMMA NewTaskFields ==
  ASSUME Inv, NEW r \in DOMAIN handler, StartStep(r), NEW c \in DOMAIN task' \ DOMAIN task
  PROVE  /\ r \in DOMAIN task /\ r \in Ids /\ r # <<>>
         /\ handler[r].step \in 1 .. Steps(Svc(r))
         /\ \E j \in DOMAIN Subcommands(Script[Svc(r)][handler[r].step]) :
              /\ handler[r].step \in Nat /\ j \in Nat
              /\ c = SubPath(r, handler[r].step, j)
              /\ task'[c].owner = r /\ task'[c].step = handler[r].step
              /\ task'[c].hdr = ForwardableOf(task[r].hdr)
              /\ task'[c].dest = Destination(Subcommands(Script[Svc(r)][handler[r].step])[j])
<1> USE DEF Inv
<1> DEFINE i == handler[r].step
           cmds == Subcommands(Script[Svc(r)][i])
<1>1. /\ i \in 1 .. Steps(Svc(r))
      /\ c \in {SubPath(r, i, j) : j \in DOMAIN cmds}
      /\ \A j \in DOMAIN cmds : task'[SubPath(r, i, j)] = NewTask(r, i, cmds[j])
  BY StartStepEffect
<1>2. PICK j \in DOMAIN cmds : c = SubPath(r, i, j)
  BY <1>1
<1>3. task'[c] = NewTask(r, i, cmds[j])
  BY <1>1, <1>2
<1>4. Svc(r) \in Services /\ r \in Ids /\ r # <<>> /\ i \in Nat /\ r \in DOMAIN task
  BY ConstantsAssumption DEF TypeOK, HandlerType, Svc, Naming, Named
<1>5. j \in Nat
  BY <1>1, <1>4, ScriptFacts
<1>6. /\ task'[c].owner = r /\ task'[c].step = i
      /\ task'[c].hdr = ForwardableOf(task[r].hdr) /\ task'[c].dest = Destination(cmds[j])
  <2> HIDE DEF i, cmds
  <2>1. QED
    BY <1>3 DEF NewTask
<1>7. QED
  BY <1>1, <1>2, <1>4, <1>5, <1>6

LEMMA NewHandlers ==
  ASSUME Inv, [Next]_vars, NEW d \in DOMAIN handler' \ DOMAIN handler
  PROVE  d \in wire /\ \E p \in Pods : Deliver(d, p)
<1> USE DEF Inv
<1>1. ASSUME NEW c \in DOMAIN task, CallerStep(c) PROVE DOMAIN handler' = DOMAIN handler
  BY <1>1, CallerEffect DEF Outcome, ErrsUpdate
<1>2. ASSUME NEW c \in wire, NEW p \in Pods, Deliver(c, p) PROVE c = d
  BY <1>2, DeliverEffect
<1>3. ASSUME NEW r \in DOMAIN handler, StartStep(r) PROVE DOMAIN handler' = DOMAIN handler
  BY <1>3, StartStepFields
<1>4. ASSUME NEW r \in DOMAIN handler,
             Join(r) \/ EndScript(r) \/ WriteResponse(r) \/ ReturnResponse(r)
      PROVE  DOMAIN handler' = DOMAIN handler
  BY <1>4, HandlerEffect DEF Moves, HandlerMove
<1>5. ASSUME NEW p \in Pods, Crash(p) PROVE DOMAIN handler' = DOMAIN handler
  BY <1>5, CrashEffect
<1>6. QED
  BY <1>1, <1>2, <1>3, <1>4, <1>5, NextCases

\* One step decides the response of one handler at most.
LEMMA OneResponse ==
  ASSUME Inv, [Next]_vars, NEW r \in DOMAIN handler, handler'[r].code # handler[r].code
  PROVE  /\ DOMAIN handler' = DOMAIN handler
         /\ \A q \in DOMAIN handler : q # r => handler'[q].code = handler[q].code
         /\ task' = task
<1> USE DEF Inv
<1>1. ASSUME NEW c \in DOMAIN task, CallerStep(c) PROVE FALSE
  BY <1>1, CallerEffect, CallerFields DEF Outcome
<1>2. ASSUME NEW c \in wire, NEW p \in Pods, Deliver(c, p) PROVE FALSE
  BY <1>2, DeliverEffect
<1>3. ASSUME NEW q \in DOMAIN handler, StartStep(q) PROVE FALSE
  BY <1>3, StartStepFields
<1>4. ASSUME NEW q \in DOMAIN handler,
             Join(q) \/ EndScript(q) \/ WriteResponse(q) \/ ReturnResponse(q)
      PROVE  /\ DOMAIN handler' = DOMAIN handler
             /\ \A d \in DOMAIN handler : d # q => handler'[d] = handler[d]
             /\ task' = task
  BY <1>4, HandlerEffect DEF Moves, HandlerMove
<1>5. ASSUME NEW p \in Pods, Crash(p) PROVE FALSE
  BY <1>5, CrashEffect
<1>6. QED
  BY <1>1, <1>2, <1>3, <1>4, <1>5, NextCases
-----------------------------------------------------------------------------
(***************************************************************************)
(* Headers.                                                                *)
(***************************************************************************)
LEMMA TracesStep ==
  ASSUME Inv, Traces, [Next]_vars
  PROVE  Traces'
<1> USE DEF Inv
<1>1. Frame
  BY FrameStep
<1>2. ASSUME NEW c \in DOMAIN task PROVE Traced(c)'
  <2>1. Traced(c)
    BY DEF Traces
  <2>2. Root(c) \in DOMAIN task'
    BY <1>1, <2>1 DEF Traced, Frame
  <2>3. task'[c].owner = task[c].owner /\ task'[c].hdr = task[c].hdr
        /\ task'[Root(c)].hdr = task[Root(c)].hdr
    BY <1>1, <2>1 DEF Traced, Frame
  <2>4. QED
    BY <2>1, <2>2, <2>3 DEF Traced, Root, ForwardableOf
<1>3. ASSUME NEW c \in DOMAIN task' \ DOMAIN task PROVE Traced(c)'
  <2>1. PICK r \in DOMAIN handler : StartStep(r)
    BY <1>3, NewTasks
  <2>2. r \in DOMAIN task /\ r \in Ids /\ r # <<>>
    BY <1>3, <2>1, NewTaskFields
  <2>3. PICK i \in Nat, j \in Nat : /\ c = SubPath(r, i, j)
                                    /\ task'[c].hdr = ForwardableOf(task[r].hdr)
    BY <1>3, <2>1, NewTaskFields
  <2>4. Root(c) = Root(r)
    BY <2>2, <2>3, SubPathFacts DEF Root
  <2>5. Traced(r) /\ Named(r)
    BY <2>2 DEF Traces, Naming
  <2>6. Root(r) \in DOMAIN task' /\ task'[Root(r)].hdr = task[Root(r)].hdr
    BY <1>1, <2>5 DEF Traced, Frame
  <2>7. ForwardableOf(task[r].hdr) = ForwardableOf(task[Root(r)].hdr)
    <3>1. CASE task[r].owner = NoOwner
      <4>1. PICK k \in Clients : r = <<k>>
        BY <2>5, <3>1 DEF Named
      <4>2. Root(r) = r
        BY <4>1 DEF Root
      <4>3. QED
        BY <4>2
    <3>2. CASE task[r].owner # NoOwner
      BY <2>5, <3>2 DEF Traced, ForwardableOf
    <3>3. QED
      BY <3>1, <3>2
  <2>8. QED
    BY <2>3, <2>4, <2>6, <2>7 DEF Traced, Root, ForwardableOf
<1>4. QED
  BY <1>2, <1>3 DEF Traces

-----------------------------------------------------------------------------
(***************************************************************************)
(* Ancestors.                                                              *)
(***************************************************************************)
LEMMA AncestryStep ==
  ASSUME Inv, Ancestry, [Next]_vars
  PROVE  Ancestry'
<1> USE DEF Inv
<1>1. Frame
  BY FrameStep
<1>2. ASSUME NEW c \in DOMAIN task, NEW n \in 1 .. Len(c) - 1
      PROVE  /\ Prefix(c, n) \in DOMAIN handler'
             /\ Prefix(c, n + 1) \in DOMAIN task'
             /\ task'[Prefix(c, n + 1)].owner = Prefix(c, n)
  <2>1. /\ Prefix(c, n) \in DOMAIN handler
        /\ Prefix(c, n + 1) \in DOMAIN task
        /\ task[Prefix(c, n + 1)].owner = Prefix(c, n)
    BY DEF Ancestry, Descends
  <2>2. QED
    BY <1>1, <2>1 DEF Frame
<1>3. ASSUME NEW c \in DOMAIN task' \ DOMAIN task, NEW n \in 1 .. Len(c) - 1
      PROVE  /\ Prefix(c, n) \in DOMAIN handler'
             /\ Prefix(c, n + 1) \in DOMAIN task'
             /\ task'[Prefix(c, n + 1)].owner = Prefix(c, n)
  <2>1. PICK r \in DOMAIN handler : StartStep(r)
    BY <1>3, NewTasks
  <2>2. r \in DOMAIN task /\ r \in Ids /\ r # <<>>
    BY <1>3, <2>1, NewTaskFields
  <2>3. PICK i \in Nat, j \in Nat : c = SubPath(r, i, j) /\ task'[c].owner = r
    BY <1>3, <2>1, NewTaskFields
  <2>4. /\ Len(r) \in Nat
        /\ Len(c) = Len(r) + 1
        /\ \A m \in 1 .. Len(r) : Prefix(c, m) = Prefix(r, m)
        /\ Prefix(c, Len(r)) = r
        /\ Prefix(c, Len(r) + 1) = c
    BY <2>2, <2>3, SubPathPrefix
  <2>5. n \in 1 .. Len(r)
    BY <2>4
  <2>6. CASE n = Len(r)
    BY <1>1, <1>3, <2>3, <2>4, <2>6 DEF Frame
  <2>7. CASE n # Len(r)
    <3>1. n \in 1 .. Len(r) - 1 /\ n + 1 \in 1 .. Len(r)
      BY <2>4, <2>5, <2>7
    <3>2. Prefix(c, n) = Prefix(r, n) /\ Prefix(c, n + 1) = Prefix(r, n + 1)
      BY <2>4, <2>5, <3>1
    <3>3. QED
      BY <1>2, <2>2, <3>1, <3>2
  <2>8. QED
    BY <2>6, <2>7
<1>4. ASSUME NEW c \in DOMAIN task' PROVE Descends(c)'
  BY <1>2, <1>3 DEF Descends, Prefix
<1>5. QED
  BY <1>4 DEF Ancestry

\* Between a request and one below it stands a command of the former; where it
\* is masked, or a call below it, so is the way.
LEMMA Between ==
  ASSUME Inv, Ancestry, NEW r \in DOMAIN handler, NEW d \in DOMAIN task, Below(d, r)
  PROVE  \E a \in DOMAIN task :
           /\ task[a].owner = r /\ a # r
           /\ a = d \/ (a \in DOMAIN handler /\ Below(d, a))
           /\ task[a].code = 503 \/ Masked(a, d) => Masked(r, d)
<1> USE DEF Inv
<1> DEFINE n == Len(r)
           a == Prefix(d, n + 1)
<1>1. r \in Ids /\ r # <<>> /\ d \in Ids
  BY DEF TypeOK, Naming, Named
<1>2. n \in Nat \ {0} /\ Len(d) \in Nat
  BY <1>1, EmptySeq, LenProperties DEF Ids
<1>3. n < Len(d) /\ \A i \in 1 .. n : d[i] = r[i]
  BY DEF Below
<1>4. n \in 1 .. Len(d) /\ n \in 1 .. Len(d) - 1 /\ n + 1 \in 1 .. Len(d)
  BY <1>2, <1>3
<1>5. r = Prefix(d, n)
  BY <1>1, <1>3, <1>4, PrefixUnique
<1>6. a \in DOMAIN task /\ task[a].owner = r
  BY <1>4, <1>5 DEF Ancestry, Descends
<1>7. Len(a) = n + 1 /\ \A i \in 1 .. n + 1 : a[i] = d[i]
  BY <1>1, <1>4, PrefixFacts
<1>8. a # r
  BY <1>2, <1>7
<1>12. task[a].code = 503 => Masked(r, d)
  <2>1. n + 1 \in n + 1 .. Len(d)
    BY <1>2, <1>4
  <2>2. QED
    BY <2>1 DEF Masked
<1>13. Masked(a, d) => Masked(r, d)
  <2> HIDE DEF a
  <2>1. \A m \in Len(a) + 1 .. Len(d) : m \in n + 1 .. Len(d)
    BY <1>2, <1>7
  <2>2. QED
    BY <2>1 DEF Masked
<1>9. CASE n + 1 = Len(d)
  <2>1. a = d
    BY <1>1, <1>9, SubSeqFull DEF Prefix, Ids
  <2>2. QED
    BY <1>6, <1>8, <1>12, <1>13, <2>1
<1>10. CASE n + 1 # Len(d)
  <2>1. n + 1 \in 1 .. Len(d) - 1 /\ n + 1 < Len(d)
    BY <1>2, <1>4, <1>10
  <2>2. a \in DOMAIN handler
    BY <2>1 DEF Ancestry, Descends
  <2>3. Below(d, a)
    <3> HIDE DEF a
    <3>1. QED
      BY <1>7, <2>1 DEF Below
  <2>4. QED
    BY <1>6, <1>8, <1>12, <1>13, <2>2, <2>3
<1>11. QED
  BY <1>9, <1>10

-----------------------------------------------------------------------------
(***************************************************************************)
(* Success.                                                                *)
(***************************************************************************)
\* The owner of a task below r is r or below r; where it or the way to its owner
\* is masked, so is the way to the task.
LEMMA OwnerBelow ==
  ASSUME Inv, Ancestry, NEW r \in DOMAIN handler, NEW d \in DOMAIN task, Below(d, r)
  PROVE  /\ task[d].owner \in DOMAIN handler
         /\ task[d].owner = r \/ Below(task[d].owner, r)
         /\ task[d].code = 503 \/ Masked(r, task[d].owner) => Masked(r, d)
<1> USE DEF Inv
<1> DEFINE o == task[d].owner
           n == Len(d) - 1
<1>1. r \in Ids /\ r # <<>> /\ d \in Ids
  BY DEF TypeOK, Naming, Named
<1>2. Len(r) \in Nat \ {0} /\ Len(d) \in Nat
  BY <1>1, EmptySeq, LenProperties DEF Ids
<1>3. Len(r) < Len(d) /\ \A i \in 1 .. Len(r) : d[i] = r[i]
  BY DEF Below
<1>4. n \in 1 .. Len(d) - 1 /\ n \in 1 .. Len(d) /\ n + 1 = Len(d) /\ Len(r) <= n
  BY <1>2, <1>3
<1>5. Prefix(d, n + 1) = d
  BY <1>1, <1>4, SubSeqFull DEF Prefix, Ids
<1>6. o = Prefix(d, n) /\ o \in DOMAIN handler
  BY <1>4, <1>5 DEF Ancestry, Descends
<1>7. o \in Ids /\ Len(o) = n /\ \A i \in 1 .. n : o[i] = d[i]
  BY <1>1, <1>4, <1>6, PrefixFacts
<1>8. o = r \/ Below(o, r)
  <2>1. CASE Len(r) = n
    <3>1. \A i \in 1 .. Len(r) : r[i] = o[i]
      BY <1>3, <1>7, <2>1
    <3> HIDE DEF o, n
    <3>2. r = o
      BY <1>1, <1>7, <2>1, <3>1, SeqEqual DEF Ids
    <3>3. QED
      BY <3>2
  <2>2. CASE Len(r) # n
    <3> HIDE DEF n, o
    <3>1. n \in Nat /\ Len(r) < n
      BY <1>2, <1>4, <2>2
    <3>2. \A i \in 1 .. Len(r) : i \in 1 .. n
      BY <1>2, <3>1
    <3>3. \A i \in 1 .. Len(r) : o[i] = r[i]
      BY <1>3, <1>7, <3>2
    <3>4. QED
      BY <1>7, <3>1, <3>3 DEF Below
  <2>3. QED
    BY <2>1, <2>2
<1>9. task[d].code = 503 => Masked(r, d)
  <2>1. Len(d) \in Len(r) + 1 .. Len(d) /\ Prefix(d, Len(d)) = d
    BY <1>2, <1>3, <1>4, <1>5
  <2>2. QED
    BY <2>1 DEF Masked
<1>10. ASSUME Masked(r, o) PROVE Masked(r, d)
  <2>1. PICK m \in Len(r) + 1 .. Len(o) : task[Prefix(o, m)].code = 503
    BY <1>10 DEF Masked
  <2>2. m \in 1 .. Len(o) /\ m \in 1 .. Len(d) /\ m \in Len(r) + 1 .. Len(d)
    <3> HIDE DEF o
    <3>1. QED
      BY <1>2, <1>4, <1>7, <2>1
  <2>3. Prefix(o, m) = Prefix(d, m)
    <3> DEFINE p == Prefix(o, m)
    <3>1. p \in Ids /\ Len(p) = m /\ \A i \in 1 .. m : p[i] = o[i]
      BY <1>7, <2>2, PrefixFacts
    <3> HIDE DEF p, o, n
    <3>2. \A i \in 1 .. m : i \in 1 .. n
      BY <1>7, <2>2, <1>4, <1>2
    <3>3. \A i \in 1 .. m : d[i] = p[i]
      BY <1>7, <3>1, <3>2
    <3>4. p = Prefix(d, Len(p))
      BY <1>1, <2>2, <3>1, <3>3, PrefixUnique
    <3>5. QED
      BY <3>1, <3>4 DEF p
  <2>4. QED
    BY <2>1, <2>2, <2>3 DEF Masked
<1>11. QED
  BY <1>6, <1>8, <1>9, <1>10

\* What is masked stays masked: no step takes a proxy's answer back.
LEMMA MaskedStays ==
  ASSUME Inv, Ancestry, Frame, NEW r \in DOMAIN handler, NEW d \in DOMAIN task, Masked(r, d)
  PROVE  Masked(r, d)'
<1> USE DEF Inv
<1>1. r \in Ids /\ r # <<>> /\ d \in Ids
  BY DEF TypeOK, Naming, Named
<1>2. Len(r) \in Nat \ {0} /\ Len(d) \in Nat
  BY <1>1, EmptySeq, LenProperties DEF Ids
<1>3. PICK n \in Len(r) + 1 .. Len(d) : task[Prefix(d, n)].code = 503
  BY DEF Masked
<1>4. Prefix(d, n) \in DOMAIN task
  <2>1. n - 1 \in 1 .. Len(d) - 1 /\ (n - 1) + 1 = n
    BY <1>2, <1>3
  <2>2. Prefix(d, (n - 1) + 1) \in DOMAIN task
    BY <2>1 DEF Ancestry, Descends
  <2>3. QED
    BY <2>1, <2>2
<1>5. task[Prefix(d, n)].st \notin Live
  BY <1>3, <1>4 DEF TaskFates, TaskFate, Live
<1>6. task'[Prefix(d, n)].code = 503
  BY <1>3, <1>4, <1>5 DEF Frame
<1>7. QED
  BY <1>3, <1>6 DEF Masked, Prefix

LEMMA SuccessStep ==
  ASSUME Inv, Ancestry, OnlyProxiesHideFailures, [Next]_vars
  PROVE  OnlyProxiesHideFailures'
<1> USE DEF Inv
<1>1. Frame /\ Inv'
  BY FrameStep, InvStep
<1>2. SUFFICES ASSUME NEW r \in DOMAIN handler', NEW d \in DOMAIN handler',
                      Below(d, r), handler'[r].code = 200
               PROVE  handler'[d].code = 200 \/ Masked(r, d)'
  BY DEF OnlyProxiesHideFailures, Below
<1>3. r \in DOMAIN handler
  <2>1. SUFFICES ASSUME r \notin DOMAIN handler PROVE FALSE
    OBVIOUS
  <2>2. PICK p \in Pods : r \in wire /\ Deliver(r, p)
    BY <1>2, <2>1, NewHandlers
  <2>3. handler'[r].code = 0
    BY <2>2, DeliverEffect
  <2>4. QED
    BY <1>2, <2>3
<1>4. d \in DOMAIN task
  BY <1>2, NewHandlers DEF TypeOK
<1>5. \A c \in DOMAIN task : task[c].owner = r => task'[c].st = "ok"
  BY <1>1, <1>2 DEF StatusFaithful, Faithful, Frame
<1>6. \A c \in DOMAIN handler' : task'[c].st = "ok" => handler'[c].code = 200 \/ task'[c].code = 503
  BY <1>1 DEF TaskFates, TaskFate, TypeOK
<1>m. Masked(r, d) => Masked(r, d)'
  BY <1>1, <1>3, <1>4, MaskedStays
<1>7. CASE d \in DOMAIN handler /\ handler[r].code = 200
  <2>1. handler[d].code = 200 \/ Masked(r, d)
    BY <1>2, <1>3, <1>7 DEF OnlyProxiesHideFailures
  <2>2. QED
    BY <1>1, <1>7, <1>m, <2>1 DEF Frame
<1>8. CASE d \in DOMAIN handler /\ handler[r].code # 200
  <2>1. DOMAIN handler' = DOMAIN handler /\ task' = task
    BY <1>2, <1>3, <1>8, OneResponse
  <2>7. \A q \in DOMAIN handler : q # r => handler'[q].code = handler[q].code
    BY <1>2, <1>3, <1>8, OneResponse
  <2>2. PICK a \in DOMAIN task : /\ task[a].owner = r /\ a # r
                                 /\ a = d \/ (a \in DOMAIN handler /\ Below(d, a))
                                 /\ task[a].code = 503 \/ Masked(a, d) => Masked(r, d)
    BY <1>2, <1>3, <1>4, Between
  <2>3. a \in DOMAIN handler
    BY <1>8, <2>2
  <2>4. handler[a].code = 200 \/ task[a].code = 503
    <3>1. a \in DOMAIN handler' /\ task'[a].st = "ok"
      BY <1>5, <2>1, <2>2, <2>3
    <3>2. handler'[a].code = 200 \/ task[a].code = 503
      BY <1>6, <2>1, <3>1
    <3>3. QED
      BY <2>2, <2>3, <2>7, <3>2
  <2>5. CASE task[a].code = 503
    BY <1>m, <2>2, <2>5
  <2>6. CASE handler[a].code = 200
    <3>1. handler[d].code = 200 \/ Masked(a, d)
      BY <1>8, <2>2, <2>3, <2>6 DEF OnlyProxiesHideFailures
    <3>2. QED
      BY <1>1, <1>8, <1>m, <2>2, <3>1 DEF Frame
  <2>8. QED
    BY <2>4, <2>5, <2>6
<1>9. CASE d \notin DOMAIN handler
  <2>1. d \in wire /\ \E p \in Pods : Deliver(d, p)
    BY <1>2, <1>9, NewHandlers
  <2>2. task[d].st \in {"sent", "failed", "gone"} \/ task[d].code = 503
    BY <1>4, <2>1 DEF TaskFates, TaskFate
  <2>3. handler[r].code = 200
    <3>1. PICK p \in Pods : Deliver(d, p)
      BY <2>1
    <3>2. handler'[r] = handler[r]
      BY <1>3, <2>1, <3>1, DeliverEffect
    <3>3. QED
      BY <1>2, <3>2
  <2> DEFINE o == task[d].owner
  <2>4. /\ o \in DOMAIN handler /\ (o = r \/ Below(o, r))
        /\ task[d].code = 503 \/ Masked(r, o) => Masked(r, d)
    BY <1>2, <1>3, <1>4, OwnerBelow
  <2>5. handler[o].code = 200 \/ Masked(r, d)
    BY <1>3, <2>3, <2>4 DEF OnlyProxiesHideFailures
  <2>6. handler[o].code = 200 => task[d].st = "ok"
    BY <1>4, <2>4 DEF StatusFaithful, Faithful
  <2>7. Masked(r, d)
    BY <2>2, <2>4, <2>5, <2>6
  <2>8. QED
    BY <1>m, <2>7
<1>10. QED
  BY <1>7, <1>8, <1>9
-----------------------------------------------------------------------------
(***************************************************************************)
(* Pods and their books.                                                   *)
(***************************************************************************)
\* The steps of a caller and of a handler move no handler to another process,
\* and only ReturnResponse ends one.
Settled(r) ==
  /\ handler'[r].pod = handler[r].pod /\ handler'[r].boot = handler[r].boot
  /\ handler[r].st \in {"returned", "dead"} => handler'[r].st = handler[r].st

LEMMA CallerSettled ==
  ASSUME Inv, NEW c \in DOMAIN task, CallerStep(c)
  PROVE  /\ DOMAIN handler' = DOMAIN handler
         /\ \A r \in DOMAIN handler : Settled(r) /\ handler'[r].st = handler[r].st
         /\ UNCHANGED <<env, incoming, responses>>
<1>1. PICK s \in Results, k \in Statuses : Outcome(c, s, k)
  BY CallerEffect DEF Inv
<1>2. TypeOK /\ ErrsUpdate(c, s) /\ UNCHANGED <<env, incoming, responses>>
  BY <1>1 DEF Inv, Outcome
<1>3. QED
  BY <1>2, CallerFields DEF Settled

LEMMA HandlerSettled ==
  ASSUME Inv, NEW q \in DOMAIN handler, HandlerStep(q)
  PROVE  /\ DOMAIN handler' = DOMAIN handler
         /\ \A r \in DOMAIN handler : Settled(r)
         /\ \A r \in DOMAIN handler : r # q => handler'[r].st = handler[r].st
         /\ handler[q].st \notin {"returned", "dead"}
         /\ ~ReturnResponse(q) => handler'[q].st # "returned" /\ responses' = responses
         /\ UNCHANGED <<env, incoming>>
<1> USE DEF Inv
<1>1. CASE StartStep(q)
  <2>1. UNCHANGED <<env, metrics>>
    BY <1>1, StartStepEffect
  <2>2. QED
    BY <1>1, <2>1, StartStepFields DEF Settled, metrics
<1>2. CASE Join(q) \/ EndScript(q) \/ WriteResponse(q) \/ ReturnResponse(q)
  <2>1. Moves(q) /\ UNCHANGED <<env, incoming>>
    BY <1>2, HandlerEffect
  <2>2. PICK st, step, code : /\ HandlerMove(q, st, step, code)
                              /\ st = "returned" => handler[q].st = "written"
                              /\ handler[q].st \notin {"returned", "dead"}
    BY <2>1 DEF Moves, Joined
  <2>3. /\ DOMAIN handler' = DOMAIN handler
        /\ \A r \in DOMAIN handler : r # q => handler'[r] = handler[r]
        /\ handler'[q].pod = handler[q].pod /\ handler'[q].boot = handler[q].boot
        /\ handler'[q].st = st
    BY <2>2, MoveFields
  <2>4. \A r \in DOMAIN handler : Settled(r)
    BY <2>2, <2>3 DEF Settled
  <2>5. ASSUME ~ReturnResponse(q) PROVE handler'[q].st # "returned" /\ responses' = responses
    <3>1. handler[q].st # "written"
      BY <1>2, <2>5 DEF Join, EndScript, WriteResponse
    <3>2. responses' = responses
      BY <1>2, <2>5 DEF Join, EndScript, WriteResponse, metrics
    <3>3. QED
      BY <2>2, <2>3, <3>1, <3>2
  <2>6. QED
    BY <2>1, <2>2, <2>3, <2>4, <2>5
<1>3. QED
  BY <1>1, <1>2 DEF HandlerStep

LEMMA HousedKept ==
  ASSUME NEW r \in DOMAIN handler, Housed(r), Settled(r), UNCHANGED env
  PROVE  Housed(r)'
  BY DEF Housed, Settled, env

LEMMA HousingStep ==
  ASSUME Inv, Housing, [Next]_vars
  PROVE  Housing'
<1> USE DEF Inv
<1>1. IsFiniteSet(DOMAIN handler) /\ \A r \in DOMAIN handler : Housed(r)
  BY DEF Housing
<1>2. ASSUME DOMAIN handler' = DOMAIN handler, UNCHANGED env,
             \A r \in DOMAIN handler : Settled(r)
      PROVE  Housing'
  <2>1. \A r \in DOMAIN handler : Housed(r)'
    BY <1>1, <1>2, HousedKept
  <2>2. QED
    BY <1>1, <1>2, <2>1 DEF Housing
<1>3. ASSUME NEW c \in DOMAIN task, CallerStep(c) PROVE Housing'
  BY <1>2, <1>3, CallerSettled
<1>4. ASSUME NEW c \in wire, NEW p \in Pods, Deliver(c, p) PROVE Housing'
  <2>1. /\ DOMAIN handler' = DOMAIN handler \cup {c}
        /\ \A r \in DOMAIN handler : handler'[r] = handler[r]
        /\ handler'[c].pod = p /\ handler'[c].boot = boot[p]
    BY <1>4, DeliverEffect
  <2>2. UNCHANGED env /\ up[p] /\ boot[p] \in Nat
    BY <1>4 DEF Deliver, TypeOK
  <2>3. Housed(c)'
    BY <2>1, <2>2 DEF Housed, env
  <2>4. \A r \in DOMAIN handler : Housed(r)'
    BY <1>1, <2>1, <2>2, HousedKept DEF Settled
  <2>5. IsFiniteSet(DOMAIN handler')
    BY <1>1, <2>1, FS_AddElement
  <2>6. QED
    BY <2>1, <2>3, <2>4, <2>5 DEF Housing
<1>5. ASSUME NEW q \in DOMAIN handler, HandlerStep(q) PROVE Housing'
  BY <1>2, <1>5, HandlerSettled
<1>6. ASSUME NEW p \in Pods, Crash(p) PROVE Housing'
  <2>1. /\ DOMAIN handler' = DOMAIN handler /\ boot' = boot
        /\ \A r \in DOMAIN handler :
             /\ handler'[r].pod = handler[r].pod /\ handler'[r].boot = handler[r].boot
             /\ handler'[r].st = IF r \in Dying(p) THEN "dead" ELSE handler[r].st
    BY <1>6, CrashEffect
  <2>2. \A q \in Pods : q # p => up'[q] = up[q]
    BY <1>6 DEF Crash, TypeOK
  <2>3. ASSUME NEW r \in DOMAIN handler PROVE Housed(r)'
    <3>1. Housed(r) /\ handler[r].pod \in Pods
      BY <1>1 DEF TypeOK, HandlerType
    <3>2. QED
      BY <2>1, <2>2, <3>1 DEF Housed, Dying
  <2>4. QED
    BY <1>1, <2>1, <2>3 DEF Housing
<1>7. ASSUME NEW p \in Pods, Restart(p) PROVE Housing'
  <2>1. /\ handler' = handler /\ ~up[p]
        /\ \A q \in Pods : boot[q] \in Nat /\ boot'[q] = (IF q = p THEN boot[q] + 1 ELSE boot[q])
        /\ \A q \in Pods : q # p => up'[q] = up[q]
    BY <1>7 DEF Restart, TypeOK
  <2>2. ASSUME NEW r \in DOMAIN handler PROVE Housed(r)'
    <3>1. Housed(r) /\ handler[r].pod \in Pods /\ handler[r].boot \in Nat
      BY <1>1 DEF TypeOK, HandlerType
    <3>2. QED
      BY <2>1, <3>1 DEF Housed
  <2>3. QED
    BY <1>1, <2>1, <2>2 DEF Housing
<1>8. CASE UNCHANGED vars
  BY <1>2, <1>8 DEF vars, env, Settled
<1>9. QED
  BY <1>3, <1>4, <1>5, <1>6, <1>7, <1>8 DEF Next, Work
\* p received nothing, answered nothing and was not restarted.
Quiet(p) ==
  /\ up'[p] => up[p]
  /\ incoming'[p] = incoming[p] /\ responses'[p] = responses[p]
  /\ Serving(p)' = Serving(p)

LEMMA QuietConserves ==
  ASSUME RequestsConserved, NEW p \in Pods, Quiet(p), up'[p]
  PROVE  incoming'[p] = responses'[p][200] + responses'[p][500] + Cardinality(Serving(p)')
  BY DEF RequestsConserved, Quiet

LEMMA ServingKept ==
  ASSUME NEW p, boot'[p] = boot[p], DOMAIN handler' = DOMAIN handler,
         \A r \in DOMAIN handler :
           /\ handler'[r].pod = handler[r].pod /\ handler'[r].boot = handler[r].boot
           /\ handler[r].pod = p => (handler'[r].st = "returned" <=> handler[r].st = "returned")
  PROVE  Serving(p)' = Serving(p)
  BY DEF Serving

LEMMA ConservedStep ==
  ASSUME Inv, Housing, RequestsConserved, [Next]_vars
  PROVE  RequestsConserved'
<1> USE DEF Inv
<1> DEFINE Books(p) ==
      incoming'[p] = responses'[p][200] + responses'[p][500] + Cardinality(Serving(p)')
<1>1. SUFFICES ASSUME NEW p \in Pods, up'[p] PROVE Books(p)
  BY DEF RequestsConserved
<1>2. ASSUME Quiet(p) PROVE Books(p)
  BY <1>1, <1>2, QuietConserves
<1>t. /\ incoming[p] \in Nat /\ boot[p] \in Nat
      /\ responses \in [Pods -> [Codes -> Nat]] /\ responses[p] \in [Codes -> Nat]
      /\ responses[p][200] \in Nat /\ responses[p][500] \in Nat
  BY DEF TypeOK, Codes
<1>f. IsFiniteSet(Serving(p))
  <2>1. Serving(p) \subseteq DOMAIN handler /\ IsFiniteSet(DOMAIN handler)
    BY DEF Serving, Housing
  <2>2. QED
    BY <2>1, FS_Subset
<1>c. Cardinality(Serving(p)) \in Nat
  BY <1>f, FS_CardinalityType
<1>3. ASSUME NEW c \in DOMAIN task, CallerStep(c) PROVE Books(p)
  <2>1. /\ DOMAIN handler' = DOMAIN handler
        /\ \A r \in DOMAIN handler : Settled(r) /\ handler'[r].st = handler[r].st
        /\ UNCHANGED <<env, incoming, responses>>
    BY <1>3, CallerSettled
  <2>2. Serving(p)' = Serving(p)
    BY <2>1, ServingKept DEF Settled, env
  <2>3. QED
    BY <1>2, <2>1, <2>2 DEF Quiet, env
<1>4. ASSUME NEW c \in wire, NEW q \in Pods, Deliver(c, q) PROVE Books(p)
  <2>1. /\ c \notin DOMAIN handler
        /\ DOMAIN handler' = DOMAIN handler \cup {c}
        /\ \A r \in DOMAIN handler : handler'[r] = handler[r]
        /\ handler'[c].pod = q /\ handler'[c].boot = boot[q] /\ handler'[c].st = "run"
    BY <1>4, DeliverEffect
  <2>2. UNCHANGED <<env, responses>> /\ up[q]
    BY <1>4 DEF Deliver
  <2>3. incoming' = [incoming EXCEPT ![q] = @ + 1]
    BY <1>4 DEF Deliver
  <2>4. CASE q = p
    <3>1. Serving(p)' = Serving(p) \cup {c} /\ c \notin Serving(p)
      BY <2>1, <2>2, <2>4 DEF Serving, env
    <3>2. Cardinality(Serving(p)') = Cardinality(Serving(p)) + 1
      BY <1>f, <3>1, FS_AddElement
    <3>3. incoming'[p] = incoming[p] + 1 /\ responses'[p] = responses[p]
      BY <2>2, <2>3, <2>4 DEF TypeOK
    <3>4. incoming[p] = responses[p][200] + responses[p][500] + Cardinality(Serving(p))
      BY <2>2, <2>4 DEF RequestsConserved
    <3> HIDE DEF Serving
    <3>5. QED
      BY <1>t, <1>c, <3>2, <3>3, <3>4
  <2>5. CASE q # p
    <3>1. Serving(p)' = Serving(p)
      BY <2>1, <2>2, <2>5 DEF Serving, env
    <3>2. incoming'[p] = incoming[p]
      BY <2>3, <2>5 DEF TypeOK
    <3>3. QED
      BY <1>2, <2>2, <3>1, <3>2 DEF Quiet, env
  <2>6. QED
    BY <2>4, <2>5
<1>5. ASSUME NEW q \in DOMAIN handler, HandlerStep(q) PROVE Books(p)
  <2>1. /\ DOMAIN handler' = DOMAIN handler
        /\ \A r \in DOMAIN handler : Settled(r)
        /\ \A r \in DOMAIN handler : r # q => handler'[r].st = handler[r].st
        /\ handler[q].st \notin {"returned", "dead"}
        /\ ~ReturnResponse(q) => handler'[q].st # "returned" /\ responses' = responses
        /\ UNCHANGED <<env, incoming>>
    BY <1>5, HandlerSettled
  <2>2. CASE ~ReturnResponse(q) \/ handler[q].pod # p
    <3>1. Serving(p)' = Serving(p)
      BY <2>1, <2>2, ServingKept DEF Settled, env
    <3>2. responses'[p] = responses[p]
      <4>1. CASE ~ReturnResponse(q)
        BY <2>1, <4>1
      <4>2. CASE ReturnResponse(q) /\ handler[q].pod # p
        BY <1>t, <4>2 DEF ReturnResponse
      <4>3. QED
        BY <2>2, <4>1, <4>2
    <3>3. QED
      BY <1>2, <2>1, <3>1, <3>2 DEF Quiet, env
  <2>3. CASE ReturnResponse(q) /\ handler[q].pod = p
    <3>1. /\ handler[q].st = "written" /\ handler'[q].st = "returned"
          /\ responses' = [responses EXCEPT ![p][handler[q].code] = @ + 1]
      BY <2>3 DEF ReturnResponse, TypeOK, HandlerType
    <3>2. handler[q].code \in Codes
      BY <3>1 DEF HandlerFates, HandlerFate, Responding
    <3>3. up[p] /\ handler[q].boot = boot[p]
      BY <2>3, <3>1 DEF Housing, Housed
    <3>4. q \in Serving(p) /\ Serving(p)' = Serving(p) \ {q}
      BY <2>1, <2>3, <3>1, <3>3 DEF Serving, Settled, env
    <3>5. Cardinality(Serving(p)') = Cardinality(Serving(p)) - 1
      BY <1>f, <3>4, FS_RemoveElement
    <3>6. responses'[p][200] + responses'[p][500] = responses[p][200] + responses[p][500] + 1
      <4>1. responses'[p] = [responses[p] EXCEPT ![handler[q].code] = @ + 1]
        BY <1>t, <3>1
      <4>2. CASE handler[q].code = 200
        BY <1>t, <4>1, <4>2 DEF Codes
      <4>3. CASE handler[q].code = 500
        BY <1>t, <4>1, <4>3 DEF Codes
      <4>4. QED
        BY <3>2, <4>2, <4>3 DEF Codes
    <3>7. responses'[p][200] \in Nat /\ responses'[p][500] \in Nat
      <4>1. TypeOK'
        BY InvStep
      <4>2. QED
        BY <4>1 DEF TypeOK, Codes
    <3>8. incoming[p] = responses[p][200] + responses[p][500] + Cardinality(Serving(p))
      BY <3>3 DEF RequestsConserved
    <3>9. incoming'[p] = incoming[p]
      BY <2>1
    <3>10. QED
      BY <1>t, <1>c, <3>5, <3>6, <3>7, <3>8, <3>9
  <2>4. QED
    BY <2>2, <2>3
<1>6. ASSUME NEW q \in Pods, Crash(q) PROVE Books(p)
  <2>1. /\ DOMAIN handler' = DOMAIN handler /\ boot' = boot
        /\ incoming' = incoming /\ responses' = responses
        /\ \A r \in DOMAIN handler :
             /\ handler'[r].pod = handler[r].pod /\ handler'[r].boot = handler[r].boot
             /\ handler'[r].st = IF r \in Dying(q) THEN "dead" ELSE handler[r].st
    BY <1>6, CrashEffect DEF metrics
  <2>2. p # q /\ up'[p] = up[p]
    BY <1>1, <1>6 DEF Crash, TypeOK
  <2>3. Serving(p)' = Serving(p)
    BY <2>1, <2>2, ServingKept DEF Dying
  <2>4. QED
    BY <1>2, <2>1, <2>2, <2>3 DEF Quiet
<1>7. ASSUME NEW q \in Pods, Restart(q) PROVE Books(p)
  <2>1. handler' = handler /\ \A r \in Pods : boot'[r] = (IF r = q THEN boot[r] + 1 ELSE boot[r])
    BY <1>7 DEF Restart, TypeOK
  <2>2. CASE p = q
    <3>1. incoming'[p] = 0 /\ responses'[p][200] = 0 /\ responses'[p][500] = 0
      BY <1>7, <1>t, <2>2 DEF Restart, Codes, TypeOK
    <3>2. ASSUME NEW r \in DOMAIN handler, handler[r].pod = p PROVE handler[r].boot # boot'[p]
      <4>1. handler[r].boot <= boot[p] /\ handler[r].boot \in Nat
        BY <3>2 DEF Housing, Housed, TypeOK, HandlerType
      <4>2. QED
        BY <1>t, <2>1, <2>2, <4>1
    <3>3. Serving(p)' = {}
      BY <2>1, <3>2 DEF Serving
    <3>4. Cardinality(Serving(p)') = 0
      BY <3>3, FS_EmptySet
    <3>5. QED
      BY <3>1, <3>4
  <2>3. CASE p # q
    <3>1. incoming'[p] = incoming[p] /\ responses'[p] = responses[p] /\ up'[p] = up[p]
      BY <1>7, <2>3 DEF Restart, TypeOK
    <3>2. Serving(p)' = Serving(p)
      BY <2>1, <2>3, ServingKept
    <3>3. QED
      BY <1>2, <3>1, <3>2 DEF Quiet
  <2>4. QED
    BY <2>2, <2>3
<1>8. CASE UNCHANGED vars
  <2>1. Serving(p)' = Serving(p)
    BY <1>8 DEF vars, Serving
  <2>2. QED
    BY <1>2, <1>8, <2>1 DEF vars, Quiet
<1>9. QED
  BY <1>3, <1>4, <1>5, <1>6, <1>7, <1>8 DEF Next, Work
-----------------------------------------------------------------------------
(***************************************************************************)
(* Destinations.                                                           *)
(***************************************************************************)
LEMMA DestinationsStep ==
  ASSUME Inv, Destinations, [Next]_vars
  PROVE  Destinations'
<1> USE DEF Inv
<1>1. Frame
  BY FrameStep
<1>2. ASSUME NEW c \in DOMAIN task PROVE Destined(c)'
  <2>1. Destined(c)
    BY DEF Destinations
  <2>2. task[c].owner = NoOwner \/ Svc(task[c].owner)' = Svc(task[c].owner)
    BY <1>1 DEF Naming, Named, Frame
  <2>3. /\ task'[c].owner = task[c].owner /\ task'[c].step = task[c].step
        /\ task'[c].dest = task[c].dest
    BY <1>1 DEF Frame
  <2>4. CASE task[c].owner = NoOwner
    BY <2>1, <2>3, <2>4 DEF Destined
  <2>5. CASE task[c].owner # NoOwner
    <3>1. Svc(task[c].owner)' = Svc(task[c].owner)
      BY <2>2, <2>5
    <3>2. CommandOf(c)' = CommandOf(c)
      BY <2>3, <3>1 DEF CommandOf, Svc
    <3>3. QED
      BY <2>1, <2>3, <2>5, <3>2 DEF Destined
  <2>6. QED
    BY <2>4, <2>5
<1>3. ASSUME NEW c \in DOMAIN task' \ DOMAIN task PROVE Destined(c)'
  <2>1. PICK r \in DOMAIN handler : StartStep(r)
    BY <1>3, NewTasks
  <2> DEFINE i == handler[r].step
             cmds == Subcommands(Script[Svc(r)][i])
  <2>2. r \in Ids /\ r # <<>>
    BY <1>3, <2>1, NewTaskFields
  <2>3. PICK j \in DOMAIN cmds : /\ i \in Nat /\ j \in Nat
                                /\ c = SubPath(r, i, j)
                                /\ task'[c].owner = r /\ task'[c].step = i
                                /\ task'[c].dest = Destination(cmds[j])
    BY <1>3, <2>1, NewTaskFields
  <2>4. Svc(r)' = Svc(r)
    BY <1>1 DEF Frame
  <2>5. Svc(task[c].owner)' = Svc(r)
    BY <2>3, <2>4 DEF Svc
  <2>6. c[Len(c)][2] = j
    BY <2>2, <2>3, SubPathFacts
  <2>7. CommandOf(c)' = cmds[j]
    <3>1. CommandOf(c)' = Subcommands(Script[Svc(task[c].owner)'][task'[c].step])[c[Len(c)][2]]
      BY DEF CommandOf, Svc
    <3>2. QED
      BY <2>3, <2>5, <2>6, <3>1
  <2>8. task'[c].owner # NoOwner
    BY <2>2, <2>3 DEF NoOwner
  <2> HIDE DEF i, cmds
  <2>9. QED
    BY <2>3, <2>7, <2>8 DEF Destined, Destination
<1>4. QED
  BY <1>2, <1>3 DEF Destinations

-----------------------------------------------------------------------------
(***************************************************************************)
(* Sums over pods.  The recursion behind SumFunctionOnSet has one solution *)
(* (a smallest set on which two of them differ does not exist), and where  *)
(* each addend counts a part of a finite set, it counts their union.       *)
(***************************************************************************)
Pick(T) == CHOOSE x \in T : TRUE
Adds(w, g, T) == IF T = {} THEN 0 ELSE LET x == Pick(T) IN w[x] + g[T \ {x}]
Sums(w, g, S) == g = [T \in SUBSET S |-> Adds(w, g, T)]

LEMMA SumIsUnique ==
  ASSUME NEW S, IsFiniteSet(S), NEW w, NEW g, NEW h, Sums(w, g, S), Sums(w, h, S)
  PROVE  g = h
<1> USE DEF Sums
<1> DEFINE differ == {T \in SUBSET S : g[T] # h[T]}
<1>1. SUFFICES ASSUME differ # {} PROVE FALSE
  OBVIOUS
<1>2. differ \subseteq FiniteSubsetsOf(S)
  BY FS_FiniteSubsetsOfFinite
<1>3. \E T \in differ : \A U \in differ : <<U, T>> \notin StrictSubsetOrdering(S)
  <2> HIDE DEF differ
  <2>1. QED
    BY <1>1, <1>2, WFMin, FS_StrictSubsetOrderingWellFounded
<1>4. PICK T \in differ : \A U \in differ : <<U, T>> \notin StrictSubsetOrdering(S)
  BY <1>3
<1>5. T \in SUBSET S /\ g[T] # h[T]
  OBVIOUS
<1>6. g[T] = Adds(w, g, T) /\ h[T] = Adds(w, h, T)
  BY <1>5
<1>7. T # {}
  BY <1>5, <1>6 DEF Adds
<1>8. Pick(T) \in T
  BY <1>7 DEF Pick
<1>9. T \ {Pick(T)} \in SUBSET S /\ T \ {Pick(T)} # T
  BY <1>5, <1>8
<1>10. T \ {Pick(T)} \notin differ
  BY <1>4, <1>5, <1>9 DEF StrictSubsetOrdering
<1>11. g[T \ {Pick(T)}] = h[T \ {Pick(T)}]
  BY <1>9, <1>10
<1>12. QED
  BY <1>5, <1>6, <1>11 DEF Adds

UnionOf(part, T) == UNION {part[x] : x \in T}

LEMMA OnePartLess ==
  ASSUME NEW H, IsFiniteSet(H), NEW S, NEW part, \A x \in S : part[x] \subseteq H,
         \A x, y \in S : x # y => part[x] \cap part[y] = {},
         NEW T \in SUBSET S, NEW x \in T
  PROVE  Cardinality(UnionOf(part, T)) = Cardinality(part[x]) + Cardinality(UnionOf(part, T \ {x}))
<1> DEFINE rest == UnionOf(part, T \ {x})
<1>1. rest \in SUBSET H /\ part[x] \in SUBSET H /\ part[x] \cap rest = {}
  BY DEF UnionOf
<1>2. UnionOf(part, T) = part[x] \cup rest
  BY DEF UnionOf
<1> HIDE DEF rest
<1>3. IsFiniteSet(rest) /\ IsFiniteSet(part[x])
  BY <1>1, FS_Subset
<1>4. /\ Cardinality(rest) \in Nat /\ Cardinality(part[x]) \in Nat
      /\ Cardinality(part[x] \cup rest) =
           Cardinality(part[x]) + Cardinality(rest) - Cardinality(part[x] \cap rest)
  BY <1>3, FS_CardinalityType, FS_Union
<1>5. Cardinality(part[x] \cap rest) = 0
  BY <1>1, FS_EmptySet
<1>6. QED
  BY <1>2, <1>4, <1>5 DEF rest

LEMMA SumOfParts ==
  ASSUME NEW S, IsFiniteSet(S), NEW H, IsFiniteSet(H),
         NEW part, \A x \in S : part[x] \subseteq H,
         \A x, y \in S : x # y => part[x] \cap part[y] = {},
         NEW w, \A x \in S : w[x] = Cardinality(part[x])
  PROVE  SumFunctionOnSet(w, S) = Cardinality(UnionOf(part, S))
<1> DEFINE iter[T \in SUBSET S] ==
             IF T = {} THEN 0
             ELSE LET x == CHOOSE x \in T : TRUE IN w[x] + iter[T \ {x}]
           h == [T \in SUBSET S |-> Cardinality(UnionOf(part, T))]
<1>1. SumFunctionOnSet(w, S) = iter[S]
  BY DEF SumFunctionOnSet, FoldFunctionOnSet, MapThenFoldSet
<1>2. iter = CHOOSE g : Sums(w, g, S)
  BY DEF iter, Sums, Adds, Pick
<1> HIDE DEF iter
<1>3. ASSUME NEW T \in SUBSET S PROVE Cardinality(UnionOf(part, T)) = Adds(w, h, T)
  <2>1. CASE T = {}
    <3>1. UnionOf(part, T) = {}
      BY <2>1 DEF UnionOf
    <3>2. QED
      BY <2>1, <3>1, FS_EmptySet DEF Adds
  <2>2. CASE T # {}
    <3>1. Pick(T) \in T
      BY <2>2 DEF Pick
    <3>2. h[T \ {Pick(T)}] = Cardinality(UnionOf(part, T \ {Pick(T)}))
      OBVIOUS
    <3> HIDE DEF h
    <3>3. Cardinality(UnionOf(part, T)) =
            Cardinality(part[Pick(T)]) + Cardinality(UnionOf(part, T \ {Pick(T)}))
      BY <3>1, OnePartLess
    <3>4. w[Pick(T)] = Cardinality(part[Pick(T)])
      BY <3>1
    <3>5. QED
      BY <2>2, <3>2, <3>3, <3>4 DEF Adds
  <2>3. QED
    BY <2>1, <2>2
<1>4. Sums(w, h, S)
  BY <1>3 DEF Sums
<1>5. Sums(w, iter, S)
  <2> HIDE DEF h
  <2>1. QED
    BY <1>2, <1>4 DEF Sums
<1>6. iter = h
  <2> HIDE DEF h
  <2>1. QED
    BY <1>4, <1>5, SumIsUnique
<1>7. QED
  BY <1>1, <1>6

-----------------------------------------------------------------------------
(***************************************************************************)
(* Counting, as long as nothing crashed or was lost.                       *)
(***************************************************************************)
LEMMA OwnersAre ==
  ASSUME Inv, NEW c \in DOMAIN task, task[c].owner # NoOwner
  PROVE  task[c].owner \in DOMAIN handler
  BY DEF Inv, Naming, Named

\* Pods of handlers and answers to tasks are what SentBy looks at.
LEMMA SentByKept ==
  ASSUME Inv, Frame, NEW p, NEW s,
         \A c \in DOMAIN task : task'[c].code # 0 <=> task[c].code # 0,
         \A c \in DOMAIN task' \ DOMAIN task : task'[c].code = 0,
         \A r \in DOMAIN handler : handler'[r].pod = handler[r].pod
  PROVE  SentBy(p, s)' = SentBy(p, s)
<1>1. Answered' = Answered
  BY DEF Answered, Frame
<1>2. ASSUME NEW c \in Answered
      PROVE  c \in SentBy(p, s)' <=> c \in SentBy(p, s)
  <2>1. /\ c \in DOMAIN task /\ task'[c].owner = task[c].owner /\ task'[c].dest = task[c].dest
    BY DEF Answered, Frame
  <2>2. CASE task[c].owner = NoOwner
    BY <2>1, <2>2 DEF SentBy
  <2>3. CASE task[c].owner # NoOwner
    <3>1. handler'[task[c].owner].pod = handler[task[c].owner].pod
      BY <2>1, <2>3, OwnersAre
    <3>2. QED
      BY <1>1, <2>1, <3>1 DEF SentBy
  <2>4. QED
    BY <2>2, <2>3
<1>3. SentBy(p, s)' \subseteq Answered' /\ SentBy(p, s) \subseteq Answered
  BY DEF SentBy
<1>4. QED
  BY <1>1, <1>2, <1>3

LEMMA SentByFinite ==
  ASSUME Housing, \A c \in DOMAIN task : Undisturbed(c), NEW p, NEW s
  PROVE  IsFiniteSet(SentBy(p, s))
<1>1. SentBy(p, s) \subseteq DOMAIN handler /\ IsFiniteSet(DOMAIN handler)
  BY DEF SentBy, Answered, Undisturbed, Housing
<1>2. QED
  BY <1>1, FS_Subset

\* What a step of a caller does to its task when nothing is lost: c gets
\* status st and code k.
Calmly(c, st, k) ==
  /\ TaskUpdate(c, st, k)
  /\ wire' \subseteq wire \cup {c}
  /\ st # "ready" /\ (c \in wire' => st = "sent") /\ (st = "sent" => k = 0)
  /\ k # 0 => c \in DOMAIN handler
  /\ c \in DOMAIN handler /\ st \in Finished => k # 0
  /\ \/ (k # 0 <=> task[c].code # 0) /\ outgoing' = outgoing
     \/ task[c].code = 0 /\ k # 0 /\ task[c].dest \in Services /\ RecordRequestSent(c)

LEMMA CallerCalmly ==
  ASSUME Inv, Calm, NEW c \in DOMAIN task, CallerStep(c), faults = 0, faults' = 0
  PROVE  \E st, k : Calmly(c, st, k)
<1> USE DEF Inv
<1>1. /\ Undisturbed(c) /\ TaskFate(c) /\ task[c] \in TaskType
      /\ (c \in wire => c \notin DOMAIN handler)
      /\ ~NetworkFault
  BY DEF Calm, TaskFates, TypeOK, NetworkFault
<1>2. CASE Sleep(c)
  <2>1. TaskUpdate(c, "ok", 0)
    BY <1>2, FinishUpdates DEF Sleep
  <2>2. Calmly(c, "ok", 0)
    BY <1>1, <1>2, <2>1 DEF Sleep, Calmly, Undisturbed, TaskFate, metrics
  <2>3. QED
    BY <2>2
<1>3. CASE SendRequest(c)
  <2>1. TaskUpdate(c, "sent", task[c].code)
    BY <1>3, UpdateTask DEF SendRequest
  <2>2. Calmly(c, "sent", task[c].code)
    BY <1>1, <1>3, <2>1 DEF SendRequest, Calmly, Undisturbed, Finished, metrics
  <2>3. QED
    BY <2>2
<1>4. CASE DoFails(c)
  <2>1. TaskUpdate(c, "failed", 0)
    BY <1>4, FinishUpdates DEF DoFails
  <2>2. c \in wire /\ wire' = wire \ {c} /\ c \notin DOMAIN handler
    BY <1>1, <1>4 DEF DoFails, Undisturbed
  <2>3. Calmly(c, "failed", 0)
    BY <1>1, <1>4, <2>1, <2>2 DEF DoFails, Calmly, Undisturbed, metrics
  <2>4. QED
    BY <2>3
<1>5. CASE DoReturns(c)
  <2>1. c \in DOMAIN handler /\ handler[c].code \in Codes
    BY <1>5 DEF DoReturns, Visible, HandlerFates, HandlerFate, Responding
  <2>2. TaskUpdate(c, "reading", handler[c].code)
    BY <1>5, UpdateTask DEF DoReturns
  <2>3. Calmly(c, "reading", handler[c].code)
    BY <1>1, <1>5, <2>1, <2>2 DEF DoReturns, Calmly, Undisturbed, TaskFate, Finished, Codes
  <2>4. QED
    BY <2>3
<1>6. CASE ReadBody(c)
  <2>1. /\ c \in DOMAIN handler /\ task[c].code # 0 /\ task[c].st = "reading"
        /\ wire' = wire /\ c \notin wire /\ outgoing' = outgoing
    BY <1>1, <1>6 DEF ReadBody, TaskFate, Codes, metrics
  <2>2. PICK good \in BOOLEAN : Finish(c, good, task[c].code)
    BY <1>6 DEF ReadBody
  <2>3. CASE good
    <3>1. TaskUpdate(c, "ok", task[c].code)
      BY <2>2, <2>3, FinishUpdates
    <3>2. Calmly(c, "ok", task[c].code)
      BY <2>1, <3>1 DEF Calmly
    <3>3. QED
      BY <3>2
  <2>4. CASE ~good
    <3>1. TaskUpdate(c, "failed", task[c].code)
      BY <2>2, <2>4, FinishUpdates
    <3>2. Calmly(c, "failed", task[c].code)
      BY <2>1, <3>1 DEF Calmly
    <3>3. QED
      BY <3>2
  <2>5. QED
    BY <2>3, <2>4
<1>7. CASE ProxyReply(c)
  BY <1>1, <1>7 DEF ProxyReply
<1>8. QED
  BY <1>2, <1>3, <1>4, <1>5, <1>6, <1>7 DEF CallerStep

LEMMA CallerCounts ==
  ASSUME Inv, Housing, Frame, Calm, NEW c \in DOMAIN task, CallerStep(c),
         faults = 0, faults' = 0
  PROVE  Calm'
<1> USE DEF Inv
<1>1. PICK st, k : Calmly(c, st, k)
  BY CallerCalmly
<1>2. /\ DOMAIN handler' = DOMAIN handler
      /\ \A r \in DOMAIN handler : handler'[r].pod = handler[r].pod /\ handler'[r].st = handler[r].st
      /\ UNCHANGED <<env, incoming, responses>>
  BY CallerSettled DEF Settled
<1>3. /\ DOMAIN task' = DOMAIN task
      /\ \A d \in DOMAIN task : d # c => task'[d] = task[d]
      /\ task'[c].st = st /\ task'[c].code = k
      /\ \A d \in DOMAIN task : task'[d].owner = task[d].owner /\ task'[d].dest = task[d].dest
  BY <1>1 DEF Calmly, TaskUpdate
<1>4. ASSUME NEW d \in DOMAIN task PROVE Undisturbed(d)'
  <2>1. Undisturbed(d) /\ (d \in DOMAIN handler => Svc(d)' = Svc(d))
    BY DEF Calm, Frame
  <2>2. CASE d = c
    BY <1>1, <1>2, <1>3, <2>1, <2>2 DEF Calmly, Undisturbed
  <2>3. CASE d # c
    BY <1>1, <1>2, <1>3, <2>1, <2>3 DEF Calmly, Undisturbed
  <2>4. QED
    BY <2>2, <2>3
<1>5. ASSUME NEW p \in Pods PROVE Counted(p)'
  <2>1. Counted(p) /\ up' = up /\ incoming' = incoming
    BY <1>2 DEF Calm, env
  <2>2. ReceivedBy(p)' = ReceivedBy(p)
    BY <1>2 DEF ReceivedBy
  <2>3. ASSUME NEW s \in Services PROVE outgoing'[p][s] = Cardinality(SentBy(p, s)')
    <3>0. /\ outgoing[p][s] = Cardinality(SentBy(p, s)) /\ outgoing \in [Pods -> [Services -> Nat]]
          /\ IsFiniteSet(SentBy(p, s))
      BY <2>1, SentByFinite DEF Counted, TypeOK, Calm
    <3>1. CASE (k # 0 <=> task[c].code # 0) /\ outgoing' = outgoing
      <4>1. SentBy(p, s)' = SentBy(p, s)
        BY <1>2, <1>3, <3>1, SentByKept
      <4>2. QED
        BY <3>0, <3>1, <4>1
    <3>2. CASE task[c].code = 0 /\ k # 0 /\ task[c].dest \in Services /\ RecordRequestSent(c)
      <4>1. Answered' = Answered \cup {c} /\ c \notin Answered
        BY <1>3, <3>2 DEF Answered
      <4>2. ASSUME NEW d \in DOMAIN task, task[d].owner # NoOwner
            PROVE  handler'[task[d].owner].pod = handler[task[d].owner].pod
        BY <1>2, <4>2, OwnersAre
      <4> DEFINE hit == /\ task[c].owner # NoOwner /\ handler[task[c].owner].pod = p
                        /\ task[c].dest = s
      <4>3. c \notin SentBy(p, s)
        BY <4>1 DEF SentBy
      <4>4. SentBy(p, s)' = IF hit THEN SentBy(p, s) \cup {c} ELSE SentBy(p, s)
        <5>1. ASSUME NEW d \in DOMAIN task
              PROVE  d \in SentBy(p, s)' <=> (d \in SentBy(p, s) \/ (d = c /\ hit))
          BY <1>3, <4>1, <4>2 DEF SentBy
        <5>2. SentBy(p, s)' \subseteq DOMAIN task /\ SentBy(p, s) \subseteq DOMAIN task
          BY <1>3 DEF SentBy, Answered
        <5> HIDE DEF hit
        <5>3. QED
          BY <5>1, <5>2
      <4>5. CASE hit
        <5>1. outgoing'[p][s] = outgoing[p][s] + 1
          BY <3>0, <3>2, <4>5 DEF RecordRequestSent
        <5>2. Cardinality(SentBy(p, s) \cup {c}) = Cardinality(SentBy(p, s)) + 1
          BY <3>0, <4>3, FS_AddElement
        <5>3. QED
          BY <3>0, <4>4, <4>5, <5>1, <5>2
      <4>6. CASE ~hit
        <5>1. outgoing'[p][s] = outgoing[p][s]
          BY <3>0, <3>2, <4>6 DEF RecordRequestSent
        <5>2. QED
          BY <3>0, <4>4, <4>6, <5>1
      <4>7. QED
        BY <4>5, <4>6
    <3>3. QED
      BY <1>1, <3>1, <3>2 DEF Calmly
  <2>4. QED
    BY <2>1, <2>2, <2>3 DEF Counted
<1>6. QED
  BY <1>3, <1>4, <1>5 DEF Calm

LEMMA DeliverCounts ==
  ASSUME Inv, Housing, Frame, Calm, NEW c \in wire, NEW q \in Pods, Deliver(c, q)
  PROVE  Calm'
<1> USE DEF Inv
<1>1. /\ c \in DOMAIN task /\ c \notin DOMAIN handler
      /\ task' = task /\ wire' = wire \ {c}
      /\ DOMAIN handler' = DOMAIN handler \cup {c}
      /\ \A r \in DOMAIN handler : handler'[r] = handler[r]
      /\ handler'[c].pod = q /\ handler'[c].st = "run"
  BY DeliverEffect
<1>2. /\ incoming' = [incoming EXCEPT ![q] = @ + 1] /\ ServiceOf[q] = task[c].dest
      /\ UNCHANGED <<env, outgoing>>
  BY DEF Deliver
<1>3. ASSUME NEW d \in DOMAIN task PROVE Undisturbed(d)'
  <2>1. Undisturbed(d) /\ Undisturbed(c) /\ (d \in DOMAIN handler => Svc(d)' = Svc(d))
    BY <1>1 DEF Calm, Frame
  <2>2. CASE d = c
    BY <1>1, <1>2, <2>1, <2>2 DEF Undisturbed, Finished, Svc
  <2>3. CASE d # c
    BY <1>1, <2>1, <2>3 DEF Undisturbed
  <2>4. QED
    BY <2>2, <2>3
<1>4. ASSUME NEW p \in Pods PROVE Counted(p)'
  <2>1. Counted(p) /\ up' = up
    BY <1>2 DEF Calm, env
  <2>2. incoming \in [Pods -> Nat] /\ IsFiniteSet(ReceivedBy(p))
    <3>1. ReceivedBy(p) \subseteq DOMAIN handler /\ IsFiniteSet(DOMAIN handler)
      BY DEF ReceivedBy, Housing
    <3>2. QED
      BY <3>1, FS_Subset DEF TypeOK
  <2>3. incoming'[p] = Cardinality(ReceivedBy(p)')
    <3>1. CASE p = q
      <4>1. ReceivedBy(p)' = ReceivedBy(p) \cup {c} /\ c \notin ReceivedBy(p)
        BY <1>1, <3>1 DEF ReceivedBy
      <4>2. Cardinality(ReceivedBy(p)') = Cardinality(ReceivedBy(p)) + 1
        BY <2>2, <4>1, FS_AddElement
      <4>3. incoming'[p] = incoming[p] + 1
        BY <1>2, <2>2, <3>1
      <4>4. QED
        BY <2>1, <4>2, <4>3 DEF Counted
    <3>2. CASE p # q
      <4>1. ReceivedBy(p)' = ReceivedBy(p)
        BY <1>1, <3>2 DEF ReceivedBy
      <4>2. QED
        BY <1>2, <2>1, <2>2, <3>2, <4>1 DEF Counted
    <3>3. QED
      BY <3>1, <3>2
  <2>4. ASSUME NEW s \in Services PROVE SentBy(p, s)' = SentBy(p, s)
    BY <1>1, SentByKept
  <2>5. QED
    BY <1>2, <2>1, <2>3, <2>4 DEF Counted
<1>5. QED
  BY <1>1, <1>3, <1>4 DEF Calm

LEMMA HandlerCounts ==
  ASSUME Inv, Housing, Frame, Calm, NEW q \in DOMAIN handler, HandlerStep(q)
  PROVE  Calm'
<1> USE DEF Inv
<1>1. /\ DOMAIN handler' = DOMAIN handler
      /\ \A r \in DOMAIN handler : handler'[r].pod = handler[r].pod
      /\ \A r \in DOMAIN handler : r # q => handler'[r].st = handler[r].st
      /\ UNCHANGED <<env, incoming>>
  BY HandlerSettled DEF Settled
<1>2. /\ handler'[q].st # "dead" /\ wire' = wire /\ outgoing' = outgoing
      /\ DOMAIN task \subseteq DOMAIN task'
      /\ \A c \in DOMAIN task : task'[c] = task[c]
      /\ \A c \in DOMAIN task' \ DOMAIN task : task'[c].st = "ready" /\ task'[c].code = 0
  <2>1. CASE StartStep(q)
    <3>1. outgoing' = outgoing
      BY <2>1, StartStepEffect DEF metrics
    <3>2. QED
      BY <2>1, <3>1, StartStepFields
  <2>2. CASE Join(q) \/ EndScript(q) \/ WriteResponse(q) \/ ReturnResponse(q)
    <3>1. Moves(q) /\ UNCHANGED <<task, wire, outgoing>>
      BY <2>2, HandlerEffect
    <3>2. PICK st, step, code : HandlerMove(q, st, step, code) /\ st # "dead"
      BY <3>1 DEF Moves
    <3>3. QED
      BY <3>1, <3>2, MoveFields
  <2>3. QED
    BY <2>1, <2>2 DEF HandlerStep
<1>3. ASSUME NEW d \in DOMAIN task' PROVE Undisturbed(d)'
  <2>1. CASE d \in DOMAIN task
    <3>1. Undisturbed(d) /\ (d \in DOMAIN handler => Svc(d)' = Svc(d))
      BY <2>1 DEF Calm, Frame
    <3>2. QED
      BY <1>1, <1>2, <2>1, <3>1 DEF Undisturbed
  <2>2. CASE d \notin DOMAIN task
    <3>1. d \notin wire /\ d \notin DOMAIN handler
      BY <2>2 DEF TypeOK
    <3>2. QED
      BY <1>1, <1>2, <2>2, <3>1 DEF Undisturbed
  <2>3. QED
    BY <2>1, <2>2
<1>4. ASSUME NEW p \in Pods PROVE Counted(p)'
  <2>1. Counted(p) /\ up' = up /\ incoming' = incoming
    BY <1>1 DEF Calm, env
  <2>2. ReceivedBy(p)' = ReceivedBy(p)
    BY <1>1 DEF ReceivedBy
  <2>3. ASSUME NEW s \in Services PROVE SentBy(p, s)' = SentBy(p, s)
    BY <1>1, <1>2, SentByKept
  <2>4. QED
    BY <1>2, <2>1, <2>2, <2>3 DEF Counted
<1>5. QED
  BY <1>3, <1>4 DEF Calm

LEMMA CountingStep ==
  ASSUME Inv, Housing, Counting, [Next]_vars
  PROVE  Counting'
<1> SUFFICES ASSUME faults' = 0, crashes' = 0 PROVE Calm'
  BY DEF Counting
<1>1. Frame
  BY FrameStep
<1>2. faults \in Nat /\ crashes \in Nat
  BY ConstantsAssumption DEF Inv, TypeOK
<1>3. ASSUME NEW c \in DOMAIN task, CallerStep(c) PROVE Calm'
  <2>1. faults = 0
    <3>1. NetworkFault => FALSE
      BY <1>2 DEF NetworkFault
    <3>2. CASE Sleep(c) \/ SendRequest(c) \/ DoReturns(c)
      BY <3>2 DEF Sleep, SendRequest, DoReturns
    <3>3. CASE DoFails(c)
      BY <3>1, <3>3 DEF DoFails
    <3>4. CASE ReadBody(c) \/ ProxyReply(c)
      BY <3>1, <3>4 DEF ReadBody, ProxyReply
    <3>5. QED
      BY <1>3, <3>2, <3>3, <3>4 DEF CallerStep
  <2>2. crashes = 0
    BY <1>3, CallerSettled DEF env
  <2>3. QED
    BY <1>1, <1>3, <2>1, <2>2, CallerCounts DEF Counting
<1>4. ASSUME NEW c \in wire, NEW p \in Pods, Deliver(c, p) PROVE Calm'
  <2>1. faults = 0 /\ crashes = 0
    BY <1>4 DEF Deliver, env
  <2>2. QED
    BY <1>1, <1>4, <2>1, DeliverCounts DEF Counting
<1>5. ASSUME NEW r \in DOMAIN handler, HandlerStep(r) PROVE Calm'
  <2>1. faults = 0 /\ crashes = 0
    BY <1>5 DEF HandlerStep, StartStep, Join, EndScript, WriteResponse, ReturnResponse, env
  <2>2. QED
    BY <1>1, <1>5, <2>1, HandlerCounts DEF Counting
<1>6. ASSUME NEW p \in Pods, Crash(p) PROVE FALSE
  BY <1>2, <1>6 DEF Crash
<1>7. ASSUME NEW p \in Pods, Restart(p) PROVE FALSE
  BY <1>7 DEF Restart, Counting, Calm, Counted
<1>8. CASE UNCHANGED vars
  <2>1. Calm
    BY <1>8 DEF Counting, vars
  <2>2. QED
    BY <1>8, <2>1 DEF vars, Calm, Counted, Undisturbed, ReceivedBy, SentBy, Answered, Svc
<1>9. QED
  BY <1>3, <1>4, <1>5, <1>6, <1>7, <1>8 DEF Next, Work

-----------------------------------------------------------------------------
LEMMA TreeInit == Init => TreeInv /\ OnlyProxiesHideFailures /\ RequestsConserved
<1> SUFFICES ASSUME Init PROVE TreeInv /\ OnlyProxiesHideFailures /\ RequestsConserved
  OBVIOUS
<1>1. Inv /\ DOMAIN handler = {}
  BY InvInit DEF Init
<1>2. ASSUME NEW c \in DOMAIN task
      PROVE  /\ task[c].owner = NoOwner /\ task[c].dest = Entry
             /\ \E k \in Clients : c = <<k>>
  BY <1>2 DEF Init
<1>3. ASSUME NEW c \in DOMAIN task PROVE Traced(c) /\ Descends(c) /\ Destined(c)
  <2>1. PICK k \in Clients : c = <<k>>
    BY <1>2
  <2>2. Len(c) = 1 /\ Root(c) = c
    BY <2>1 DEF Root
  <2>3. QED
    BY <1>2, <2>2 DEF Traced, Descends, Destined
<1>4. Housing
  BY <1>1, FS_EmptySet DEF Housing
<1>5. OnlyProxiesHideFailures
  BY <1>1 DEF OnlyProxiesHideFailures
<1>6. RequestsConserved
  <2> SUFFICES ASSUME NEW p \in Pods
               PROVE  incoming[p] = responses[p][200] + responses[p][500] + Cardinality(Serving(p))
    BY DEF RequestsConserved
  <2>1. Serving(p) = {}
    BY <1>1 DEF Serving
  <2>2. Cardinality(Serving(p)) = 0
    BY <2>1, FS_EmptySet
  <2>3. incoming[p] = 0 /\ responses[p][200] = 0 /\ responses[p][500] = 0
    BY DEF Init, Codes
  <2>4. QED
    BY <2>2, <2>3
<1>7. Counting
  <2>1. ASSUME NEW c \in DOMAIN task
        PROVE  task[c].code = 0 /\ task[c].st = "ready" /\ c \notin wire /\ c \notin DOMAIN handler
    BY <1>1, <2>1 DEF Init
  <2>2. \A c \in DOMAIN task : Undisturbed(c)
    BY <2>1 DEF Undisturbed, Finished
  <2>3. ASSUME NEW p \in Pods PROVE Counted(p)
    <3>1. ReceivedBy(p) = {} /\ \A s \in Services : SentBy(p, s) = {}
      BY <1>1, <2>1 DEF ReceivedBy, SentBy, Answered
    <3>2. up[p] /\ incoming[p] = 0 /\ \A s \in Services : outgoing[p][s] = 0
      BY DEF Init
    <3>3. QED
      BY <3>1, <3>2, FS_EmptySet DEF Counted
  <2>4. QED
    BY <2>2, <2>3 DEF Counting, Calm
<1>8. QED
  BY <1>1, <1>3, <1>4, <1>5, <1>6, <1>7 DEF TreeInv, Traces, Ancestry, Destinations

\* All that relates a request to its tree and its pod holds in every reachable
\* state: where its headers come from, that all requests it descends from were
\* delivered, where its command sends it and which process serves it.
THEOREM TreeInvariance == Spec => []TreeInv
<1>1. Init => TreeInv
  BY TreeInit
<1>2. TreeInv /\ [Next]_vars => TreeInv'
  BY InvStep, TracesStep, AncestryStep, HousingStep, DestinationsStep, CountingStep DEF TreeInv
<1>3. QED
  BY <1>1, <1>2, PTL DEF Spec

\* Every request of a tree, at any depth, carries just the forwardable headers
\* of the client's request (handler.go:46, header.go:26-35, request.go:39-43).
THEOREM TraceIsPropagated == Spec => []TracePropagated
<1>1. TreeInv => TracePropagated
  BY DEF TreeInv, Traces, Traced, TracePropagated, Root, ForwardableOf
<1>2. QED
  BY <1>1, TreeInvariance, PTL

\* A 200 speaks for the whole tree below it, however many pods crash and requests
\* are lost: a service below that answered anything else, or is still at work, is
\* below a call that a proxy answered in its place (handler.go:45-55,
\* executable.go:63).
THEOREM FailuresHiddenByProxiesOnly == Spec => []OnlyProxiesHideFailures
<1>1. Init => OnlyProxiesHideFailures
  BY TreeInit
<1>2. TreeInv /\ OnlyProxiesHideFailures /\ [Next]_vars => OnlyProxiesHideFailures'
  BY SuccessStep DEF TreeInv
<1>3. QED
  BY <1>1, <1>2, TreeInvariance, PTL DEF Spec

\* The counters of a running process balance, through any number of restarts:
\* received = answered + in progress (handler.go:33, 62-67).
THEOREM CountersBalance == Spec => []RequestsConserved
<1>1. Init => RequestsConserved
  BY TreeInit
<1>2. TreeInv /\ RequestsConserved /\ [Next]_vars => RequestsConserved'
  BY ConservedStep DEF TreeInv
<1>3. QED
  BY <1>1, <1>2, TreeInvariance, PTL DEF Spec

\* Callers and callees agree on what was sent, however the services' pods share
\* the load: as long as nothing crashed or was lost no service is reported to
\* have been sent more than it reports to have received, and once all is quiet
\* both are the same (handler.go:33, executable.go:59, prometheus/handler.go).
THEOREM CallersAndCalleesAgree == Spec => []MetricsAgree
<1>1. TreeInv => MetricsAgree
  <2> SUFFICES ASSUME TreeInv, faults = 0, crashes = 0, NEW s \in Services
               PROVE  /\ Outgoing(s) + Cardinality(ByClient(s)) <= Incoming(s)
                      /\ (\A c \in DOMAIN task : task[c].st \in Finished) =>
                           Outgoing(s) + Cardinality(ByClient(s)) = Incoming(s)
    BY DEF MetricsAgree
  <2> DEFINE sent == {c \in Answered : task[c].dest = s}
             nested == {c \in sent : task[c].owner # NoOwner}
             served == {r \in DOMAIN handler : Svc(r) = s}
             own == {p \in Pods : ServiceOf[p] = s}
  <2>1. Calm /\ Inv /\ IsFiniteSet(DOMAIN handler)
    BY DEF TreeInv, Counting, Housing
  <2>2. DOMAIN handler \subseteq DOMAIN task /\ \A r \in DOMAIN handler : handler[r].pod \in Pods
    BY <2>1 DEF Inv, TypeOK, HandlerType
  <2>3. sent \subseteq served /\ served \subseteq DOMAIN handler
    BY <2>1 DEF Answered, Calm, Undisturbed
  <2>4. Incoming(s) = Cardinality(served)
    <3> DEFINE part == [p \in own |-> ReceivedBy(p)]
    <3>1. IsFiniteSet(own)
      BY PodsAssumption, FS_Subset
    <3>2. /\ \A p \in own : part[p] \subseteq DOMAIN handler
          /\ \A p, q \in own : p # q => part[p] \cap part[q] = {}
          /\ \A p \in own : incoming[p] = Cardinality(part[p])
      BY <2>1 DEF ReceivedBy, Calm, Counted
    <3>3. UnionOf(part, own) = served
      <4>1. UnionOf(part, own) \subseteq served
        BY DEF UnionOf, ReceivedBy, Svc
      <4>2. ASSUME NEW r \in served PROVE handler[r].pod \in own /\ r \in part[handler[r].pod]
        BY <2>2 DEF ReceivedBy, Svc
      <4>3. served \subseteq UnionOf(part, own)
        BY <4>2 DEF UnionOf
      <4>4. QED
        BY <4>1, <4>3
    <3>4. Incoming(s) = SumFunctionOnSet(incoming, own)
      BY DEF Incoming
    <3> HIDE DEF part, own
    <3>5. QED
      BY <2>1, <3>1, <3>2, <3>3, <3>4, SumOfParts
  <2>5. Outgoing(s) = Cardinality(nested)
    <3> DEFINE part == [p \in Pods |-> SentBy(p, s)]
               w == [p \in Pods |-> outgoing[p][s]]
    <3>1. /\ \A p \in Pods : part[p] \subseteq DOMAIN handler
          /\ \A p, q \in Pods : p # q => part[p] \cap part[q] = {}
          /\ \A p \in Pods : w[p] = Cardinality(part[p])
      BY <2>1, <2>3 DEF SentBy, Calm, Counted
    <3>2. UnionOf(part, Pods) = nested
      <4>1. \A c \in nested : task[c].owner \in DOMAIN handler
        BY <2>1, OwnersAre DEF Answered
      <4>2. QED
        BY <2>2, <4>1 DEF UnionOf, SentBy
    <3>3. Outgoing(s) = SumFunctionOnSet(w, Pods)
      BY DEF Outgoing, SumFunction
    <3> HIDE DEF part, w, nested
    <3>4. QED
      BY <2>1, <3>1, <3>2, <3>3, PodsAssumption, SumOfParts
  <2>6. Outgoing(s) + Cardinality(ByClient(s)) = Cardinality(sent)
    <3>1. sent = nested \cup ByClient(s) /\ nested \cap ByClient(s) = {}
      BY DEF ByClient, Answered
    <3>2. IsFiniteSet(sent)
      BY <2>1, <2>3, FS_Subset
    <3>3. IsFiniteSet(nested) /\ IsFiniteSet(ByClient(s))
      BY <3>1, <3>2, FS_Subset
    <3> HIDE DEF sent, nested
    <3>4. Cardinality(nested) \in Nat /\ Cardinality(ByClient(s)) \in Nat
      BY <3>3, FS_CardinalityType
    <3>5. Cardinality(sent) = Cardinality(nested) + Cardinality(ByClient(s)) - Cardinality(nested \cap ByClient(s))
      BY <3>1, <3>3, FS_Union
    <3>6. Cardinality(nested \cap ByClient(s)) = 0
      BY <3>1, FS_EmptySet
    <3>7. QED
      BY <2>5, <3>4, <3>5, <3>6
  <2>7. IsFiniteSet(served) /\ Cardinality(sent) <= Cardinality(served)
    BY <2>1, <2>3, FS_Subset
  <2>8. ASSUME \A c \in DOMAIN task : task[c].st \in Finished PROVE sent = served
    BY <2>1, <2>2, <2>3, <2>8 DEF Answered, Calm, Undisturbed
  <2> HIDE DEF sent, served
  <2>9. QED
    BY <2>4, <2>6, <2>7, <2>8
<1>2. QED
  BY <1>1, TreeInvariance, PTL
=============================================================================
