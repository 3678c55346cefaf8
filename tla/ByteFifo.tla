------------------------------ MODULE ByteFifo ------------------------------
(***************************************************************************)
(* What a CRingBuffer promises its users: a first-in first-out queue of at *)
(* most Capacity elements on which every operation is all or nothing.  A   *)
(* batch that does not fit is refused whole, a request for more elements   *)
(* than there are is refused whole, and neither refusal changes the queue. *)
(***************************************************************************)
EXTENDS Integers, Sequences

CONSTANTS
  Capacity,    \* the largest number of elements the queue can hold
  Element,     \* the values it holds
  MaxBatch     \* bound on the size of one request

VARIABLES
  queue,       \* the elements, oldest first
  call,        \* the last operation, and the number of elements it was about
  result       \* what the last operation returned

vars == <<queue, call, result>>

Batches == UNION {[1 .. n -> Element] : n \in 0 .. MaxBatch}

Answer(ok, data) == [ok |-> ok, data |-> data]

Prefix(n) == SubSeq(queue, 1, n)

Init ==
  /\ queue = <<>>
  /\ call = <<"none", 0>>
  /\ result = Answer(TRUE, <<>>)

Put(s) ==
  /\ call' = <<"addData", Len(s)>>
  /\ IF Len(queue) + Len(s) <= Capacity
       THEN queue' = queue \o s /\ result' = Answer(TRUE, <<>>)
       ELSE UNCHANGED queue /\ result' = Answer(FALSE, <<>>)

Take(n) ==
  /\ call' = <<"getData", n>>
  /\ IF n <= Len(queue)
       THEN /\ queue' = SubSeq(queue, n + 1, Len(queue))
            /\ result' = Answer(TRUE, Prefix(n))
       ELSE UNCHANGED queue /\ result' = Answer(FALSE, <<>>)

Look(n) ==
  /\ UNCHANGED queue
  /\ call' = <<"peek", n>>
  /\ result' = IF n <= Len(queue) THEN Answer(TRUE, Prefix(n))
                                  ELSE Answer(FALSE, <<>>)

Reset ==
  /\ queue' = <<>>
  /\ call' = <<"clear", 0>>
  /\ result' = Answer(TRUE, <<>>)

Next ==
  \/ \E s \in Batches : Put(s)
  \/ \E n \in 0 .. MaxBatch : Take(n) \/ Look(n)
  \/ Reset

Spec == Init /\ [][Next]_vars

=============================================================================
