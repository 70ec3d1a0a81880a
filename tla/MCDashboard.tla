---------------------------- MODULE MCDashboard ----------------------------
(* Two spellings of one address, one that only the schema rejects, and a     *)
(* typo; two emails, one of which the search text matches.                   *)
EXTENDS Dashboard, TLC

CONSTANTS low, cap, odd, typo, m1, m2, text, none

MCKeyOf == (low :> low) @@ (cap :> low) @@ (odd :> odd) @@ (typo :> typo)
MCHit == (none :> Mail) @@ (text :> {m1})
MCPastes == {<<low, cap>>}
MCFiles == {<<cap, odd>>}
=============================================================================
