---------------------------- MODULE MCMeshRouter ----------------------------
(* A small instance of MeshRouter for TLC: three replicas of unequal weight, *)
(* two equal ones beside a third, and a single one.                          *)
EXTENDS MeshRouter, TLC

CONSTANTS a, b, c

MCEndpointLists == {<<a, b, c>>, <<a, a, b>>, <<b>>}
MCWeight == (a :> 1) @@ (b :> 2) @@ (c :> 1)
=============================================================================
