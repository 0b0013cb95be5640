----------------------------- MODULE PlaybackGate -----------------------------
(***************************************************************************)
(* What PlaybackController promises the library                            *)
(* (app/PlaybackController.hpp, libraryMutationAllowed): sound comes only  *)
(* while the gate is held, and the gate is let go only when it is silent.  *)
(***************************************************************************)
VARIABLES
    held,     \* a start is under way or a song is retained
    audible   \* the backend renders a song

vars == <<held, audible>>

Init == held = FALSE /\ audible = FALSE

Take == ~held /\ held' = TRUE /\ audible' \in BOOLEAN
Sound == held /\ audible' = TRUE /\ UNCHANGED held
Silence == audible' = FALSE /\ UNCHANGED held
LetGo == held' = FALSE /\ audible' = FALSE

Next == Take \/ Sound \/ Silence \/ LetGo

Spec == Init /\ [][Next]_vars
=============================================================================
