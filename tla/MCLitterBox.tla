----------------------------- MODULE MCLitterBox -----------------------------
(* Two enclosures over three packages, for TLC: A sees lib read-only and what *)
(* it depends on, B leaves dep out (U) and has lib as a dependency; dep is    *)
(* nested in lib and imports it.                                              *)
EXTENDS LitterBox, TLC

CONSTANTS A, B, main, lib, dep

MCConf == A :> (lib :> {"R"}) @@ B :> (dep :> {})
MCImports == {<<dep, lib>>}
MCSubOf == {<<lib, dep>>}
MCDeps == A :> {} @@ B :> {lib}
=============================================================================
