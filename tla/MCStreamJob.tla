----------------------------- MODULE MCStreamJob -----------------------------
(* Instances of StreamJob for TLC. *)
EXTENDS StreamJob

NothingDone == {{}}
=============================================================================
