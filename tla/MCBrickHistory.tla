---------------------------- MODULE MCBrickHistory ----------------------------
(***************************************************************************)
(* The smallest level with a brick Mario can reach.                        *)
(***************************************************************************)
EXTENDS BrickHistory, TLC

BrickRow(b) == 0 :> 0 @@ 1 :> 0 @@ 2 :> b @@ 3 :> 0 @@ 4 :> 0

MCLevelMem ==
  [address \in 0..7 |->
     [control |-> 0, blocks |-> BrickRow(IF address = 7 THEN Brick ELSE Air)]]

MCKeys == {KeyD, KeyW}
MCButtons == {FALSE}
=============================================================================
