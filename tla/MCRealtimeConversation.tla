------------------------ MODULE MCRealtimeConversation ------------------------
(***************************************************************************)
(* Small conversations: two tasks, and one reply the provider starts by    *)
(* itself.  The tasks are interchangeable; response and event ids are      *)
(* numbers and are left alone by the symmetry.                             *)
(***************************************************************************)
EXTENDS RealtimeConversation, TLC

CONSTANTS i1, i2

Pair == {i1, i2}
TaskSymmetry == Permutations(Pair)
=============================================================================
