---------------------------- MODULE MCTCPSocket ----------------------------
(* TCPSocket below Delivery with the bounds given in the configuration.    *)
EXTENDS Delivery

=============================================================================
