------------------------------ MODULE Registry ------------------------------
(***************************************************************************)
(* What the deployment tool promises to those who read its outputs file: a *)
(* registry in which a name, once it has an address, keeps it, and a stage *)
(* counter that never goes back and moves past a stage only when all the   *)
(* names of that stage are registered.  Nothing here tells how often a     *)
(* script is run, in how many writes it records an address, or where it is *)
(* interrupted.  The only way to lose an entry is to lose the whole file.  *)
(***************************************************************************)
EXTENDS Naturals

CONSTANTS
  Names,       \* what can be registered
  Address,     \* what it can be registered as
  NoAddress,   \* the value of a name that is not registered
  LastStage,   \* the highest stage
  Required(_)  \* the names stage s registers

VARIABLES
  registry,    \* name -> address
  finished     \* the stages below this one are done

vars == <<registry, finished>>

Empty == [n \in Names |-> NoAddress]

Init == registry = Empty /\ finished = 0

Register(n) ==
  /\ registry[n] = NoAddress
  /\ registry'[n] \in Address /\ registry'[n] # NoAddress
  /\ registry' = [registry EXCEPT ![n] = registry'[n]]
  /\ UNCHANGED finished

\* Stages without a script of their own are passed over.
Finish(s) ==
  /\ s >= finished
  /\ \A t \in 0..s : \A n \in Required(t) : registry[n] # NoAddress
  /\ finished' = s + 1
  /\ UNCHANGED registry

LoseFile == registry' = Empty /\ finished' = 0

Next == \/ \E n \in Names : Register(n)
        \/ \E s \in 0..LastStage : Finish(s)
        \/ LoseFile

Spec == Init /\ [][Next]_vars
=============================================================================
