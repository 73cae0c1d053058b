----------------------------- MODULE SealedEvidence -----------------------------
(***************************************************************************)
(* A published file: its bytes, then the sidecar that authenticates them.  *)
(* A file without its sidecar is read by nobody and never written again.   *)
(***************************************************************************)
Absent == [at |-> "absent"]
Bare(v) == [at |-> "bare", v |-> v]
Sealed(v) == [at |-> "sealed", v |-> v]
IsSealed(f) == f.at = "sealed"
=============================================================================
