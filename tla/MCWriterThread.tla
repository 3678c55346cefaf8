--------------------------- MODULE MCWriterThread ---------------------------
(* WriterThread under MainLoop with the bounds given in the configurations. *)
EXTENDS MainLoop

=============================================================================
