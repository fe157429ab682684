------------------------------- MODULE MCMario -------------------------------
(* Mario alone, against every keycode and every combination of polls.        *)
EXTENDS MarioSprite

MCKeys == {0, KeyA, KeyD, KeyW}
MCPolls == {Air, 1}
=============================================================================
