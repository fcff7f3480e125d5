------------------------------- MODULE SeenSet -------------------------------
(***************************************************************************)
(* The dedupe set of one scope in plugin/store.go: s.seen[scope], a set of *)
(* hashes, and s.seenOrder[scope], the order in which they were claimed.   *)
(* A hash is identified with the text it is of.                            *)
(***************************************************************************)
EXTENDS Integers, Sequences

CONSTANT MaxSeen    \* maxSeenHashes

ASSUME MaxSeenAssumption == MaxSeen \in Nat \ {0}

NoneSeen == [marks |-> {}, order |-> << >>]

(* Fault: the order is bounded and the marks are not. *)
ClaimedUnbounded(s, h) ==
    LET order == Append(s.order, h)
        drop  == IF Len(order) > MaxSeen THEN Len(order) - MaxSeen + MaxSeen \div 4 ELSE 0
    IN  [marks |-> s.marks \cup {h}, order |-> SubSeq(order, drop + 1, Len(order))]

(* ClaimSeen won: the hash is marked, and once the order is too long its   *)
(* oldest quarter, and what exceeds the bound, is forgotten.               *)
Claimed(s, h) ==
    LET order == Append(s.order, h)
        drop  == IF Len(order) > MaxSeen THEN Len(order) - MaxSeen + MaxSeen \div 4 ELSE 0
    IN  [marks |-> (s.marks \cup {h}) \ {order[i] : i \in 1..drop},
         order |-> SubSeq(order, drop + 1, Len(order))]

(* UnmarkSeen: the mark goes, the order keeps the hash. *)
Unmarked(s, h) == [s EXCEPT !.marks = @ \ {h}]
=============================================================================
