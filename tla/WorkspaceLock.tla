---------------------------- MODULE WorkspaceLock ----------------------------
(***************************************************************************)
(* What the delegation queue promises the executor, without saying how a   *)
(* waiting call is picked (class comment of                                *)
(* src/src/gateway/delegation-queue.ts): callers are granted the workspace *)
(* for reading or for writing, under a session key, at most once each; the *)
(* grants in force are always compatible.                                  *)
(***************************************************************************)
EXTENDS Naturals, FiniteSets

CONSTANTS Callers, Keys, Limit, None
VARIABLE grant

NoGrant == [state |-> "none", key |-> None, readOnly |-> TRUE]
Holders(g) == {i \in Callers : g[i].state = "held"}

(* Two readers of different keys, or one writer; at most Limit holders.    *)
Compatible(g) ==
  /\ \A i, j \in Holders(g) :
       i # j => g[i].readOnly /\ g[j].readOnly /\ g[i].key # g[j].key
  /\ Cardinality(Holders(g)) <= Limit

Acquire(i) ==
  /\ grant[i].state = "none"
  /\ grant'[i].state = "held"
  /\ grant'[i].key \in Keys
Release(i) ==
  /\ grant[i].state = "held"
  /\ grant'[i].state = "over"
Keep(i) == grant'[i] = grant[i]

Init == grant = [i \in Callers |-> NoGrant]

(* One caller may return its grant while others receive theirs, as         *)
(* finally() and the drain() it calls do.                                  *)
Next ==
  /\ \A i \in Callers : Acquire(i) \/ Release(i) \/ Keep(i)
  /\ Compatible(grant')

Spec == Init /\ [][Next]_grant
=============================================================================
