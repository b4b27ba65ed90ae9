------------------------------ MODULE MCSubgraph ------------------------------
(***************************************************************************)
(* Model values for Subgraph: two keys of the right length and one that is *)
(* not, one location inside the bounds and one outside, two reporting      *)
(* devices with two sessions each, and days of two seconds.                *)
(***************************************************************************)
EXTENDS Subgraph, TLC

CONSTANTS admin, operator, k1, k2, shortKey, kyiv, offGlobe, nowhere,
          dev1, dev2, s1, s2

(* Keys of one kind, devices and sessions are interchangeable.             *)
MCSymmetry == Permutations({k1, k2}) \cup Permutations({dev1, dev2})
                  \cup Permutations({s1, s2})
=============================================================================
