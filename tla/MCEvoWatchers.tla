---------------------------- MODULE MCEvoWatchers ----------------------------
(* EvoWatchers for TLC: two watchers of three regions and three bytes: room *)
(* for a large region and one byte more.                                    *)
EXTENDS EvoWatchers, TLC

CONSTANTS large, other, small

MCSizeOf == large :> 2 @@ other :> 2 @@ small :> 1
MCRegions == {large, other, small}
=============================================================================
