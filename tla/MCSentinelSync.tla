-------------------------- MODULE MCSentinelSync --------------------------
(***************************************************************************)
(* A small instance of SentinelSync for TLC.                               *)
(***************************************************************************)
EXTENDS SentinelSync

CONSTANTS s1, s2, s3

ThreeNodes == <<s1, s2, s3>>

=============================================================================
