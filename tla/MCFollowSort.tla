----------------------------- MODULE MCFollowSort -----------------------------
(***************************************************************************)
(* Four segments: those that lead from lower to higher elements make every *)
(* chain of up to five elements in every order of its segments, broken and *)
(* branching ones included; those among four elements make the rings.      *)
(***************************************************************************)
EXTENDS FollowSort

CONSTANTS g1, g2, g3, g4

MCSegment == {g1, g2, g3, g4}
MCElement == 1 .. 5
MCInputs  == {<<>>, <<g1>>, <<g1, g2, g3>>, <<g1, g2, g3, g4>>}

MCPair(low, high) == {e \in [from : low .. high, to : low .. high] : e.from # e.to}

MCConnections ==
    [MCSegment -> {e \in MCPair(1, 5) : e.from < e.to}] \cup [MCSegment -> MCPair(1, 4)]
=============================================================================
