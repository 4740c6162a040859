------------------------------- MODULE MCViews -------------------------------
(* Two enclosures over three packages, for TLC: both see the runtime, one    *)
(* also p with restricted rights, the other p without rights (U) and q.      *)
EXTENDS Views, TLC

CONSTANTS A, B, p, q

MCView ==
  A :> (RUNTIME :> {"R", "W", "X"} @@ p :> {"R"}) @@
  B :> (RUNTIME :> {"R", "W", "X"} @@ p :> {} @@ q :> {"R", "W"})
=============================================================================
