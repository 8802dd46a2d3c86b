------------------------------ MODULE FifoOps ------------------------------
(***************************************************************************)
(* What a caller sees of TQueue (inc/comm/tqueue.h): a bounded FIFO whose  *)
(* push silently drops the item when the queue is full and whose pop of an *)
(* empty queue does nothing.  Module TQueue shows that the ring of the     *)
(* source implements these operators; the modules that contain queues      *)
(* (UdpIO, LocalBus, NetService) use the operators themselves.             *)
(***************************************************************************)
EXTENDS Naturals, Sequences

\* push(): the item is appended, or dropped when the queue already holds cap.
Pushed(q, x, cap) == IF Len(q) = cap THEN q ELSE Append(q, x)

\* pop(): the front item is removed; nothing happens to an empty queue.
Popped(q) == IF q = <<>> THEN q ELSE Tail(q)

\* full()
IsFull(q, cap) == Len(q) = cap
=============================================================================
