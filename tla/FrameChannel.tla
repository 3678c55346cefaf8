---------------------------- MODULE FrameChannel ----------------------------
(***************************************************************************)
(* What the frame queue of CAPRSWriterThread promises: a message that was  *)
(* accepted is passed on whole, once, and behind those accepted before it, *)
(* until stop() closes the channel or a fault breaks it.  What happens to  *)
(* messages behind that is left open.                                      *)
(***************************************************************************)
EXTENDS Sequences

CONSTANT Message

VARIABLES
  state,   \* "open", "closed" or "broken"
  queue,   \* accepted and not yet passed on
  passed   \* passed on

Init == state = "open" /\ queue = <<>> /\ passed = <<>>

Accept(m) ==
  /\ state = "open"
  /\ queue' = Append(queue, m)
  /\ UNCHANGED <<state, passed>>

Pass ==
  /\ state = "open" /\ queue # <<>>
  /\ passed' = Append(passed, Head(queue))
  /\ queue' = Tail(queue)
  /\ UNCHANGED state

End ==
  /\ state # "closed"
  /\ state' \in {"closed", "broken"}
  /\ queue' = <<>> /\ passed' = <<>>

Next == Pass \/ End \/ \E m \in Message : Accept(m)

Spec == Init /\ [][Next]_<<state, queue, passed>>

=============================================================================
