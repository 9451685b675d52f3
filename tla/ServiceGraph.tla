---------------------------- MODULE ServiceGraph ----------------------------
(***************************************************************************)
(* The data of a topology as the Go code holds it after unmarshalling      *)
(* (convert/pkg/graph): a script is a sequence of steps, and a step is one *)
(* command or a concurrent list of commands.  Service names are arbitrary  *)
(* values; durations are left out because no decision depends on them.     *)
(***************************************************************************)
EXTENDS Naturals, Sequences

SleepCommand == [op |-> "sleep"]
RequestCommand(name, size) == [op |-> "call", service |-> name, size |-> size]
ConcurrentCommand(cmds) == [op |-> "all", cmds |-> cmds]

\* f is a sequence (of whatever values).
IsSequence(f) == Len(f) \in Nat /\ DOMAIN f = 1 .. Len(f)

\* The commands a step executes: the list of a concurrent step, else itself.
Subcommands(step) == IF step.op = "all" THEN step.cmds ELSE <<step>>

(***************************************************************************)
(* What validate() guarantees of the script of a service: every call names *)
(* a defined service, and no concurrent list contains another one.         *)
(***************************************************************************)
ValidScript(script, names) ==
  \A i \in DOMAIN script : \A j \in DOMAIN Subcommands(script[i]) :
    LET cmd == Subcommands(script[i])[j]
    IN  \/ cmd.op = "sleep"
        \/ cmd.op = "call" /\ cmd.service \in names
=============================================================================
