------------------------------ MODULE MCSetup -------------------------------
(* Two releases, the second adding a migration; three wizard requests.     *)
EXTENDS Setup, TLC

MCReleases == {{1, 2}, {1, 2, 3}}
MCSymmetry == Permutations(Requests)
=============================================================================
