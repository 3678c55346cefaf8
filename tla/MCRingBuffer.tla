---------------------------- MODULE MCRingBuffer ----------------------------
(* Model of RingBuffer: four cells, so that batches of up to five elements *)
(* include ones that fit, fit exactly, and do not fit.                     *)
EXTENDS RingBuffer

MCElement == {0, 1}

=============================================================================
