---------------------------- MODULE CommitRegister ----------------------------
(***************************************************************************)
(* What the checkpoint store promises, without files: one register whose   *)
(* value is a checkpoint or nothing, and the last checkpoint that a caller *)
(* was given as durable, by a successful open or save.  A new checkpoint   *)
(* is proposed on top of the confirmed one only; until it is confirmed a   *)
(* failure may take it back, after it is confirmed nothing may.            *)
(*                                                                         *)
(* CheckpointStore implements this module.                                 *)
(***************************************************************************)
EXTENDS CheckpointProjection

VARIABLES
    value,        \* the checkpoint a reader of the primary finds
    confirmed     \* the last checkpoint handed to a caller as durable

vars == <<value, confirmed>>

Init ==
    /\ value = Absent
    /\ confirmed = Absent

Propose ==
    /\ value = confirmed
    /\ \E w \in Wire :
          /\ Successor(confirmed, w)
          /\ value' = w
    /\ UNCHANGED confirmed

Confirm ==
    /\ confirmed' = value
    /\ UNCHANGED value

Lose ==
    /\ value' = confirmed
    /\ UNCHANGED confirmed

Next == Propose \/ Confirm \/ Lose

Spec == Init /\ [][Next]_vars
=============================================================================
