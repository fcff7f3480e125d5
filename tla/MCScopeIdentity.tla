--------------------------- MODULE MCScopeIdentity ---------------------------
(* Small instances of ScopeIdentity for TLC. *)
EXTENDS ScopeIdentity, TLC

CONSTANTS k1, k2, chat

Who(key, session) == [key |-> key, session |-> session, agent |-> None]

(* Two tenants, one of them with a named session; both can follow a chain. *)
MCIdentities == {Who(k1, None), Who(k2, None), Who(k1, chat)}

MCSymmetry == Permutations(Turns) \cup Permutations(RespIds)
=============================================================================
