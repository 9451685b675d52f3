---------------------------- MODULE TreeTopology ----------------------------
(***************************************************************************)
(* create_tree_topology.py: a tree of services built breadth first with a  *)
(* deque.  A service is known by its path from the root, of which the code *)
(* makes the name "svc-0-1-...".                                           *)
(***************************************************************************)
EXTENDS Integers, Sequences

CONSTANT Shapes  (* of trees: NUM_LEVELS and NUM_BRANCHES                  *)

ASSUME ShapesAssumption ==
  \A s \in Shapes : s.levels \in Nat \ {0} /\ s.branches \in Nat \ {0}

\* NUM_SERVICES: the powers of NUM_BRANCHES up to the last level, summed.
NumServices(s) ==
  LET power[n \in 0 .. s.levels] == IF n = 0 THEN 1 ELSE power[n - 1] * s.branches
      sum[n \in 0 .. s.levels] == IF n = 0 THEN 0 ELSE sum[n - 1] + power[n - 1]
  IN  sum[s.levels]

\* The paths to services of all levels, the root's first part among others.
Paths(s) == UNION {[1 .. n -> 0 .. s.branches - 1] : n \in 1 .. s.levels}

VARIABLES
  shape,
  queue,    (* services_paths: services that are still without a script    *)
  services  (* services that are done, with those they call                *)

treeVars == <<shape, queue, services>>

Root == <<0>>

TreeInit ==
  /\ shape \in Shapes
  /\ queue = <<Root>>
  /\ services = <<>>

\* remaining_services, when the head of the queue has become a service.
\* Mutants: the services in the queue are forgotten; one too few.
RemainingOfDone == NumServices(shape) - (Len(services) + 1)
RemainingLessOne == NumServices(shape) - Len(services) - Len(queue) - 1
Remaining == NumServices(shape) - (Len(services) + 1) - (Len(queue) - 1)

NumChildren == IF Remaining < shape.branches THEN Remaining ELSE shape.branches

\* One round of the loop of main.  popleft would raise on an empty queue.
Grow ==
  /\ Len(services) < NumServices(shape)
  /\ queue # <<>>
  /\ LET children == [i \in 1 .. NumChildren |-> Append(Head(queue), i - 1)]
     IN  /\ services' = Append(services, [path |-> Head(queue), calls |-> children])
         /\ queue' = Tail(queue) \o children
  /\ UNCHANGED shape

Grown == Len(services) = NumServices(shape)

-----------------------------------------------------------------------------
\* Types; a service that is named has its place among NUM_SERVICES: those that
\* wait in the queue are never more than the rounds that are left.
TreeTypeOK ==
  /\ shape \in Shapes
  /\ queue \in Seq(Seq(Nat))
  /\ services \in Seq([path : Seq(Nat), calls : Seq(Seq(Nat))])
  /\ Len(services) + Len(queue) <= NumServices(shape)

\* popleft never raises: as long as services are missing one is in the queue.
NeverPopsEmpty == ~Grown => queue # <<>>

\* "Creates a complete tree of services (every level is filled)": in the end
\* there is a service for every path, before those of longer paths, and each
\* calls its branches, unless it is on the last level.
CompleteTree ==
  Grown =>
    /\ {services[k].path : k \in DOMAIN services} = {p \in Paths(shape) : p[1] = 0}
    /\ \A k, l \in DOMAIN services : k < l =>
         services[k].path # services[l].path /\ Len(services[k].path) <= Len(services[l].path)
    /\ \A k \in DOMAIN services :
         services[k].calls =
           IF Len(services[k].path) = shape.levels THEN <<>>
           ELSE [i \in 1 .. shape.branches |-> Append(services[k].path, i - 1)]
=============================================================================
