---------------------------- MODULE MC_BPlusTree ----------------------------
(* Values for checking BPlusTree: M is the source's; a day's trees are     *)
(* named by the day.                                                       *)
EXTENDS BPlusTree

CONSTANTS Versions, MaxDay, MaxRemovalDay, MaxNode

MCDay == 1 .. MaxDay
MCDaysOf == [m \in Modes |-> IF m = "removal" THEN 1 .. MaxRemovalDay ELSE MCDay]
MCAddr == 1 .. MaxNode
MCTreesFor == [d \in MCDay |-> {10 * d + v : v \in 1 .. Versions}]
=============================================================================
