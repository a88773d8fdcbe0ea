----------------------------- MODULE MCMegakernel -----------------------------
(***************************************************************************)
(* Placements, and the events and ancestors of a graph, for Megakernel.    *)
(***************************************************************************)
EXTENDS Megakernel, SmallGraphs

\* Workers alternate between two XCDs, as the hardware places blocks.
TwoXcds == [w \in Worker |-> w % 2]

GraphEvents == EventsOf(AllTasks, NumEvents)
GraphAncestors == AncestorsOf(AllTasks)

\* The instance is one of those QueuesSuffice (MegakernelProofs) speaks of.
ASSUME RoomAssumption == QueuesLongEnough
=============================================================================
