--------------------------- MODULE MCTrustStores ----------------------------
(***************************************************************************)
(* Values for the constants of TrustStores.                                *)
(***************************************************************************)
EXTENDS TrustStores, TLC

CONSTANTS p1, p2, n1

Profiles == {p1, p2}
Databases == {n1}
AllStores == {System, p1, p2, n1}
AllFlags == {System, "firefox", "chrome"}
TrustSymmetry == Permutations(LocalCAs)
MCFlagSets == {{}, {System}, {"firefox"}, {"chrome"}, AllFlags}
MCPlatforms == {"linux", "darwin"}
=============================================================================
