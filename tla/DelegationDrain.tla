--------------------------- MODULE DelegationDrain ---------------------------
(***************************************************************************)
(* What one call of drain() in src/src/gateway/delegation-queue.ts starts, *)
(* as a function of the array `waiting` and of the Map `active`.           *)
(*                                                                         *)
(* The array is the set W of its items with their places idx; an item's    *)
(* key and readOnly are in jb.  The Map is a function whose value "none"   *)
(* stands for an absent key.  DelegationDrainLoop runs the loop of the     *)
(* code and compares it with Chosen.                                       *)
(***************************************************************************)
EXTENDS Naturals, FiniteSets

CONSTANTS
  Keys,   \* session keys
  Limit   \* constructor argument: the most items active together

ASSUME LimitAssumption == Limit \in Nat \ {0}

Access == {"none", "read", "write"}
Held(act) == {k \in Keys : act[k] # "none"}
WriterActive(act) == \E k \in Keys : act[k] = "write"
Mode(j) == IF j.readOnly THEN "read" ELSE "write"

Before(i, W, idx) == {j \in W : idx[j] < idx[i]}

(* Mutant: a reader of a key already chosen is chosen too.                 *)
CandidatesTwicePerKey(W, jb, idx, act) ==
  {i \in W : /\ jb[i].readOnly
             /\ act[jb[i].key] = "none"
             /\ \A j \in Before(i, W, idx) : jb[j].readOnly}

(* Mutant: readers pass a writer that waits ahead of them.                 *)
CandidatesPassWriter(W, jb, idx, act) ==
  {i \in W : /\ jb[i].readOnly
             /\ act[jb[i].key] = "none"
             /\ \A j \in Before(i, W, idx) : jb[j].readOnly => jb[j].key # jb[i].key}

(* Readers with only readers ahead of them, the first of each free key.    *)
Candidates(W, jb, idx, act) ==
  {i \in W : /\ jb[i].readOnly
             /\ act[jb[i].key] = "none"
             /\ \A j \in Before(i, W, idx) : jb[j].readOnly /\ jb[j].key # jb[i].key}

(* Mutant: the loop does not stop at an active writer.                     *)
ChosenBesideWriter(W, jb, idx, act) ==
  LET cands == Candidates(W, jb, idx, act)
      room == Limit - Cardinality(Held(act))
      writer == {i \in W : ~jb[i].readOnly /\ Before(i, W, idx) = {} /\ Held(act) = {}}
  IN  {i \in cands : Cardinality(Before(i, cands, idx)) < room} \union writer

(* Mutant: the workers already busy are not counted.                       *)
ChosenOverLimit(W, jb, idx, act) ==
  LET cands == Candidates(W, jb, idx, act)
      readers == {i \in cands : Cardinality(Before(i, cands, idx)) < Limit}
      writer == {i \in W : ~jb[i].readOnly /\ Before(i, W, idx) = {} /\ Held(act) = {}}
  IN  IF WriterActive(act) THEN {} ELSE readers \union writer

(* The candidates there is room for, in order; or the writer at the head   *)
(* of the array when nothing is active.                                    *)
Chosen(W, jb, idx, act) ==
  LET cands == Candidates(W, jb, idx, act)
      room == Limit - Cardinality(Held(act))
      readers == {i \in cands : Cardinality(Before(i, cands, idx)) < room}
      writer == {i \in W : ~jb[i].readOnly /\ Before(i, W, idx) = {} /\ Held(act) = {}}
  IN  IF WriterActive(act) THEN {} ELSE readers \union writer
=============================================================================
