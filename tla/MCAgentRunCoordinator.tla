------------------------- MODULE MCAgentRunCoordinator -------------------------
(* Two runs of a narrow provider, which has one slot, and two of a wide one,   *)
(* so that a waiter of the full provider can stand before one that could start.*)
EXTENDS AgentRunCoordinator

CONSTANTS r1, r2, r3, r4, narrow, wide

MCProvider == [r \in Runs |-> IF r \in {r3, r4} THEN wide ELSE narrow]
MCLimit == [p \in Providers |-> IF p = narrow THEN 1 ELSE 2]
================================================================================
