--------------------------- MODULE MCAttestation ---------------------------
(* A small track record for TLC. *)
EXTENDS Attestation
=============================================================================
