---------------------------- MODULE MCOwnerTurns ----------------------------
(* Instances of OwnerTurns for TLC. *)
EXTENDS OwnerTurns

CONSTANTS s1, s2, s3, ann, bob, none   \* model values: requests, owners, nobody
=============================================================================
