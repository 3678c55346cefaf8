---------------------------- MODULE MCFrameQueue ----------------------------
(* Models of FrameQueue: messages of no, one, two and again one byte.      *)
EXTENDS FrameQueue, TLC

CONSTANTS m0, m1, m2, m3

MCSizes == (m0 :> 0) @@ (m1 :> 1) @@ (m2 :> 2) @@ (m3 :> 1)
MCSize == [m \in Message |-> MCSizes[m]]

=============================================================================
