---------------------------- MODULE ImageTransfer ----------------------------
(***************************************************************************)
(* What both ways to update the firmware, over GATT and over the mesh,     *)
(* promise of an image on its way to the node.  It is announced with its   *)
(* length, its parts arrive from the first to the last and are not lost    *)
(* one by one, and it counts as whole only with all of them.  It can be    *)
(* dropped at any time, but then as a whole: a transfer begun anew finds   *)
(* no part of the one before.                                              *)
(***************************************************************************)
EXTENDS Naturals

VARIABLES
  stage,   \* "none", "receiving" or "whole"
  total,   \* parts of the image that was announced
  parts    \* the parts the node holds

transfer == <<stage, total, parts>>

Nothing(s, t, p) == s = "none" /\ t = 0 /\ p = {}

Init == Nothing(stage, total, parts)

Begin ==
  /\ stage = "none"
  /\ stage' = "receiving" /\ total' \in Nat /\ parts' = {}

\* The first n parts are there; some of them may have come before.
Take(n) ==
  /\ stage = "receiving"
  /\ parts' = parts \cup 0 .. n - 1
  /\ UNCHANGED <<stage, total>>

\* The last part comes, or was the last to come.
Complete ==
  /\ stage = "receiving" /\ stage' = "whole"
  /\ parts \subseteq parts' /\ parts' = 0 .. total - 1
  /\ UNCHANGED total

Drop == stage # "none" /\ Nothing(stage', total', parts')

Next == Begin \/ (\E n \in 0 .. total : Take(n)) \/ Complete \/ Drop

Spec == Init /\ [][Next]_transfer
=============================================================================
