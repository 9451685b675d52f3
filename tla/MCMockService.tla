---------------------------- MODULE MCMockService ----------------------------
(***************************************************************************)
(* Instances of MockService for TLC.                                       *)
(***************************************************************************)
EXTENDS MockServiceRefinement

Call(s) == RequestCommand(s, 1)

\* example-topologies/canonical.yaml: d calls a and c at once, then b, and c
\* calls a, then b.
CanonicalServices == {"a", "b", "c", "d"}
CanonicalScript ==
  [s \in CanonicalServices |->
     CASE s = "c" -> <<Call("a"), Call("b")>>
       [] s = "d" -> <<ConcurrentCommand(<<Call("a"), Call("c")>>), Call("b")>>
       [] OTHER   -> <<>>]
OnePodEach == [p \in CanonicalServices |-> p]

\* A step with a sleep beside two calls of a service with two replicas, and an
\* empty concurrent step.
FanServices == {"front", "leaf"}
FanScript ==
  [s \in FanServices |->
     IF s = "leaf" THEN <<>>
     ELSE <<ConcurrentCommand(<<SleepCommand, Call("leaf"), Call("leaf")>>),
            ConcurrentCommand(<<>>)>>]
FanPods == [p \in {"f1", "l1", "l2"} |-> IF p = "f1" THEN "front" ELSE "leaf"]

\* Three services in a row, the last with a sleep as a step of its own, for the
\* headers of two clients at once.
ChainServices == {"front", "middle", "back"}
ChainScript ==
  [s \in ChainServices |->
     CASE s = "front"  -> <<Call("middle")>>
       [] s = "middle" -> <<Call("back")>>
       [] OTHER        -> <<SleepCommand>>]
ChainPods == [p \in ChainServices |-> p]

\* The chain's topology says "errorRate: 100%" for back and nothing for the
\* others (the default is 0%).  Nothing in package srv reads the setting.
ChainErrorRate == [s \in ChainServices |-> IF s = "back" THEN 100 ELSE 0]

\* svc.Service describes ErrorRate as "the percentage chance [...] that this
\* service should respond with a 500 server error rather than 200 OK": at 100%
\* it never responds with 200 OK.
ErrorRateHonoured ==
  \A r \in DOMAIN handler : ChainErrorRate[Svc(r)] = 100 => handler[r].code # 200
=============================================================================
