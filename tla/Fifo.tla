-------------------------------- MODULE Fifo --------------------------------
(***************************************************************************)
(* rtl/mem/fifo.sv as the cache controller uses it: one entry in and one   *)
(* out per clock.  A queue is the sequence of its entries, head first.     *)
(***************************************************************************)
EXTENDS Integers, Sequences

\* deq_data's valid bit: something is at the head.
Valid(q) == q # <<>>

\* num_suc_enq: room is judged on the registered count, before any dequeue.
Fits(q, max) == Len(q) < max

\* The next queue.  `enq` is the sequence of the entries offered, none or one;
\* peek_only leaves the head where it is; flush drops queue and offer alike.
FifoNext(q, enq, max, peek_only, flush) ==
    LET rest == IF peek_only \/ q = <<>> THEN q ELSE Tail(q)
    IN  IF flush THEN <<>>
        ELSE IF Fits(q, max) THEN rest \o enq
        ELSE rest

=============================================================================
