--------------------------- MODULE MCEngineStore ---------------------------
(* Small instances of EngineStore for TLC. *)
EXTENDS EngineStore, TLC

(* Two directories, two settings of the other material fields, and a       *)
(* configuration that differs in nothing material.                         *)
Conf(d, n) == [dir |-> d, knobs |-> n]

MCInitConfig   == Conf("d1", 1)
MCConfigs      == {Conf("d1", 1), Conf("d2", 1)}

MCSymmetry == Permutations(Requests) \cup Permutations(Handles) \cup Permutations(Keys)
=============================================================================
