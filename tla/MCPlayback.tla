------------------------------ MODULE MCPlayback ------------------------------
(* A short and a longer song; blocks of one or two units, so that a block   *)
(* can pass the last event.                                                 *)
EXTENDS Playback, TLC

CONSTANTS short, long

MCSongs == {short, long}
MCLength == short :> 1 @@ long :> 4
=============================================================================
