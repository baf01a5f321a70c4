--------------------------- MODULE MCTuringUpload ---------------------------
(* Files of up to one or two full pieces, with and without a short one.     *)
EXTENDS TuringUpload
=============================================================================
