----------------------------- MODULE MCRequests -----------------------------
(* Small instances of Requests for TLC. *)
EXTENDS Requests, TLC

CONSTANTS text1, text2

(* A request with history and a new query, and one that has nothing to store. *)
MCInputs == {[todo |-> <<text1>>, query |-> text2],
             [todo |-> << >>, query |-> None]}

MCSymmetry == Permutations(Threads) \cup Permutations(Blocks) \cup Permutations(Handles)
=============================================================================
