----------------------------- MODULE MCVtpShm -----------------------------
(* Instances of VtpShm for TLC. *)
EXTENDS VtpShm, TLC

\* The processes are interchangeable in every safety property.
Symmetry == Permutations(Proc)
=============================================================================
