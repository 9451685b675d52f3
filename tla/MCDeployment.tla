---------------------------- MODULE MCDeployment ----------------------------
(***************************************************************************)
(* Instances of Deployment for TLC.                                        *)
(***************************************************************************)
EXTENDS Deployment

CallOf(name) == Object([call |-> Str(name)])
File(services) == [services |-> Array(services)]

\* b is scaled to nothing; a, of an odd response size, calls it beside a sleep.
First ==
  [defaults |-> Object([requestSize |-> Num(1066)]),
   services |-> Array(<<
     Object([name |-> Str("b"), numReplicas |-> Num(0)]),
     Object([name |-> Str("a"), isEntrypoint |-> Bool(TRUE), responseSize |-> Num(100003),
             script |-> Array(<<Array(<<CallOf("b"), Object([sleep |-> Duration(TRUE)])>>)>>)])>>)]

\* a is left, with two replicas, and calls itself.
Second ==
  File(<<Object([name |-> Str("a"), type |-> Str("grpc"), numReplicas |-> Num(2), script |-> Array(<<CallOf("a")>>)])>>)

\* A call that nobody serves, in a concurrent command; a name in two places.
Undefined ==
  File(<<Object([name |-> Str("a"), script |-> Array(<<Array(<<CallOf("c")>>)>>)])>>)
Twice ==
  File(<<Object([name |-> Str("a")]), Object([name |-> Str("a"), script |-> Array(<<CallOf("a")>>)])>>)

SomeDocuments == {First, Second, Undefined, Twice}
=============================================================================
