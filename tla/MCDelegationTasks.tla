--------------------------- MODULE MCDelegationTasks ---------------------------
(***************************************************************************)
(* Delegation with its task ids and responses as model values: up to three *)
(* tasks of native runtimes, or two of CLI runtimes, which depend on       *)
(* nothing and are not cancelled but by a revision, and of which one has   *)
(* its delivery reported.  external says which, and never changes.         *)
(***************************************************************************)
EXTENDS Delegation, TLC

VARIABLE external

Native == INSTANCE Delegation WITH Runtimes <- {"native"}, Responses <- {}

External == INSTANCE Delegation
              WITH Runtimes <- {"codex", "claude"}, MaxDeps <- 0, MaxStops <- 0

(* bounds: CLI tasks, and those of them with a delivery                    *)
FewExternal == /\ Cardinality(Existing) <= 2
               /\ Cardinality({t \in Tasks : task[t].delivery # "pending"}) <= 1

TasksInit == Init /\ external \in BOOLEAN

TasksNext ==
  /\ UNCHANGED external
  /\ \/ ~external /\ Native!Next
     \/ external /\ External!Next /\ FewExternal'

TasksSpec == TasksInit /\ [][TasksNext]_<<vars, external>>

Symmetry == Permutations(Tasks) \union Permutations(Responses)
=============================================================================
