------------------------------ MODULE BlockCodec ------------------------------
(***************************************************************************)
(* What StatefulIntegerCodec promises a caller that hands an object one    *)
(* block between two clean-ups (clear or CloneFresh), as the round-trip    *)
(* test, BenchmarkOneCodec and BenchmarkAccess all do: the object holds    *)
(* that block, DecodeArray gives it back as often as it is asked, and an   *)
(* encoding that throws leaves an object that must be cleaned up.          *)
(***************************************************************************)
CONSTANTS Blocks, Clean, Spent, Nothing

VARIABLES stored, out
vars == <<stored, out>>

Init == stored = Clean /\ out = Nothing

Put(b) == /\ stored = Clean
          /\ stored' \in {b, Spent}
          /\ out' = Nothing

Get == /\ stored \in Blocks
       /\ out' = stored
       /\ UNCHANGED stored

\* A destructive read of which nothing is promised.
Spend == /\ stored \in Blocks
         /\ stored' = Spent
         /\ out' = Nothing

CleanUp == stored' = Clean /\ out' = Nothing

Next == (\E b \in Blocks : Put(b)) \/ Get \/ Spend \/ CleanUp

Spec == Init /\ [][Next]_vars
=============================================================================
