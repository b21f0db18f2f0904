------------------------------- MODULE Queues -------------------------------
(* Queues whose elements leave from the middle.                            *)
EXTENDS Integers, Sequences

Elements(queue) == {queue[n] : n \in 1 .. Len(queue)}

\* The queue without the elements of a set, the others in their order.
Without(queue, gone) ==
  LET kept[n \in 0 .. Len(queue)] ==
        IF n = 0 THEN << >>
        ELSE IF queue[n] \in gone THEN kept[n - 1] ELSE Append(kept[n - 1], queue[n])
  IN kept[Len(queue)]
=============================================================================
