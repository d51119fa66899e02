----------------------------- MODULE MCAgentTree -----------------------------
(* AgentTree for TLC. *)
EXTENDS AgentTree

(* Spanning tree, what a fuller report has, and either uplink: one at a time. *)
MCOptions ==
  {[groups |-> g, uplink |-> 0] : g \in {{}, {"stp"}, {"sensor", "flow"}}}
  \cup {[groups |-> {}, uplink |-> p] : p \in Ports}

(* The root, interior nodes, columns, instances that come and go, an index  *)
(* that never exists, and nodes before, between and after the objects.      *)
MCAsked ==
  {<<1>>, <<2, 1>>, <<2, 1, 1>>, <<2, 1, 9>>, <<2, 3>>, <<3, 1, 1>>, <<4, 1, 2>>, <<5>>}
=============================================================================
