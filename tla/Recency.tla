------------------------------ MODULE Recency ------------------------------
(***************************************************************************)
(* Orders of keys in plugin/store.go and plugin/intercept.go, the oldest   *)
(* first: a key that is used again moves to the recent end, and what       *)
(* exceeds a limit leaves at the oldest end.                               *)
(***************************************************************************)
EXTENDS Integers, Sequences

InOrder(order) == {order[i] : i \in 1..Len(order)}

(* Fault: a key that is used again is not removed first. *)
WithoutNothing(order, k) == order

(* order without an occurrence of k, if there is one: the code removes the *)
(* first, and there is never a second.                                     *)
Without(order, k) ==
    IF k \in InOrder(order)
    THEN LET at == CHOOSE i \in 1..Len(order) : order[i] = k
         IN  SubSeq(order, 1, at - 1) \o SubSeq(order, at + 1, Len(order))
    ELSE order
=============================================================================
