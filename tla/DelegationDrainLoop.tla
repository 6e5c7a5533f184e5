------------------------- MODULE DelegationDrainLoop -------------------------
(***************************************************************************)
(* The while loop of drain() in src/src/gateway/delegation-queue.ts,       *)
(* iteration by iteration, on the array and the Map themselves.  The loop  *)
(* runs to its end inside one event of the program; here each behaviour is *)
(* one call of drain(), from any array and any Map the queue can hold, so  *)
(* that what it starts can be compared with Chosen of DelegationDrain.     *)
(***************************************************************************)
EXTENDS DelegationDrain, Sequences

CONSTANT MaxWaiting  \* bound: longest array handed to drain()

ASSUME MaxWaitingAssumption == MaxWaiting \in Nat

VARIABLES
  jobs,     \* key and readOnly of the items, by position in the array given
  before,   \* the Map when drain() is called
  waiting,  \* the array, as a sequence of positions of jobs
  active    \* the Map

vars == <<jobs, before, waiting, active>>

Items == DOMAIN jobs
Left == {waiting[n] : n \in DOMAIN waiting}
Started == Items \ Left

(* Maps the queue can hold: at most Limit keys, a writer alone.            *)
Maps == {act \in [Keys -> Access] :
           /\ IsFiniteSet(Held(act)) /\ Cardinality(Held(act)) <= Limit
           /\ \A k \in Held(act) : act[k] = "write" => Held(act) = {k}}

Init ==
  /\ jobs \in UNION {[1..n -> [key: Keys, readOnly: BOOLEAN]] : n \in 0..MaxWaiting}
  /\ before \in Maps
  /\ waiting = [n \in DOMAIN jobs |-> n]
  /\ active = before

First(S) == CHOOSE n \in S : \A m \in S : n <= m

(* How many items at the front of the array the search may look at: those  *)
(* before the first writer, or the writer itself when it is at the head.   *)
Boundary ==
  LET writers == {n \in DOMAIN waiting : ~jobs[waiting[n]].readOnly}
  IN  IF writers = {} THEN Len(waiting)
      ELSE IF First(writers) = 1 THEN 1 ELSE First(writers) - 1

Startable ==
  {n \in 1..Boundary : LET j == jobs[waiting[n]] IN
     active[j.key] = "none" /\ (j.readOnly \/ Held(active) = {})}

(* One iteration: the first startable item is spliced out and started.     *)
Iterate ==
  /\ waiting # <<>>
  /\ Cardinality(Held(active)) < Limit
  /\ ~WriterActive(active)
  /\ Startable # {}
  /\ LET index == First(Startable)
         next == jobs[waiting[index]]
     IN  /\ waiting' = SubSeq(waiting, 1, index - 1)
                         \o SubSeq(waiting, index + 1, Len(waiting))
         /\ active' = [active EXCEPT ![next.key] = Mode(next)]
  /\ UNCHANGED <<jobs, before>>

DrainSpec == Init /\ [][Iterate]_vars

(* The loop ends where it has no next iteration.                           *)
Stopped ==
  \/ waiting = <<>>
  \/ Cardinality(Held(active)) >= Limit
  \/ WriterActive(active)
  \/ Startable = {}

-----------------------------------------------------------------------------
(* At every iteration, what Chosen says is still to be started together    *)
(* with what the loop has started is what Chosen says of the array and the *)
(* Map drain() was called with: the closed form is the loop.               *)
Position == [i \in Items |-> i]
LoopStartsChosen ==
  Chosen(Items, jobs, Position, before)
    = Started \union Chosen(Left, jobs, Position, active)
=============================================================================
