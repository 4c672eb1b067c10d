--------------------------- MODULE MCDepthPipeline ---------------------------
(***************************************************************************)
(* Small instances of DepthPipeline.  The only parameter is the number of  *)
(* camera timestamps: two let one image be in work while another waits in  *)
(* the slot.                                                               *)
(***************************************************************************)
EXTENDS DepthPipeline
=============================================================================
