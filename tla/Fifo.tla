-------------------------------- MODULE Fifo --------------------------------
(***************************************************************************)
(* What a ring buffer promises: bytes come out in the order they went in,  *)
(* each once.                                                              *)
(***************************************************************************)
EXTENDS Integers, Sequences

CONSTANT QueueBytes

VARIABLES queue, last  \* the bytes put and not taken, the last one taken

FifoInit == queue = <<>> /\ last = -1

Put == \E b \in QueueBytes : queue' = Append(queue, b) /\ UNCHANGED last
Take == queue # <<>> /\ last' = Head(queue) /\ queue' = Tail(queue)

FifoSpec == FifoInit /\ [][Put \/ Take]_<<queue, last>>
=============================================================================
