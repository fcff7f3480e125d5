----------------------------- MODULE ScopeLease -----------------------------
(***************************************************************************)
(* What plugin/store.go promises about the files of scopes, apart from how *)
(* it goes about it: a scope is leased to one engine handle at a time.  A  *)
(* lease is granted, later revoked (evicted, reconfigured away, disposed), *)
(* and ends only when the handle has closed its file; the scope can be     *)
(* granted again only after that.  Shutting down revokes every lease, and  *)
(* is over when all of them have ended.                                    *)
(***************************************************************************)
CONSTANTS
    Keys,       \* scope keys
    Handles,    \* engine handles
    None

VARIABLES
    holder,     \* scope -> the handle it is leased to, or None
    revoked,    \* scope -> the handle whose revoked lease has not ended
    reading,    \* handles that have their scope's file open
    phase       \* "up", "stopping" or "stopped"

leaseVars == <<holder, revoked, reading, phase>>

LeaseTypeOK ==
    /\ holder \in [Keys -> Handles \cup {None}]
    /\ revoked \in [Keys -> Handles \cup {None}]
    /\ reading \subseteq Handles
    /\ phase \in {"up", "stopping", "stopped"}

LeaseInit ==
    /\ holder = [k \in Keys |-> None]
    /\ revoked = [k \in Keys |-> None]
    /\ reading = {}
    /\ phase = "up"

Leased(table) == {k \in Keys : table[k] # None}

(* The leases in the table of the scopes K are revoked, no other changes. *)
Revoke(table, K) ==
    /\ K \subseteq Leased(table)
    /\ \A k \in K : revoked[k] = None
    /\ holder' = [k \in Keys |-> IF k \in K THEN None ELSE table[k]]
    /\ revoked' = [k \in Keys |-> IF k \in K THEN table[k] ELSE revoked[k]]

(* A free scope is leased to a handle that has just opened its file; some   *)
(* others lose theirs to make room.                                         *)
Grant(k, h, K) ==
    /\ phase = "up"
    /\ holder[k] = None
    /\ revoked[k] = None
    /\ h \notin reading
    /\ reading' = reading \cup {h}
    /\ Revoke([holder EXCEPT ![k] = h], K)
    /\ UNCHANGED phase

RevokeAll ==
    /\ Revoke(holder, Leased(holder))
    /\ phase' = phase \/ (phase = "up" /\ phase' = "stopping")
    /\ UNCHANGED reading

(* A handle whose lease is revoked closes its file. *)
Close(k) ==
    /\ revoked[k] \in reading
    /\ reading' = reading \ {revoked[k]}
    /\ UNCHANGED <<holder, revoked, phase>>

(* Leases end once their handles are closed. *)
End(K) ==
    /\ \A k \in K : revoked[k] # None /\ revoked[k] \notin reading
    /\ revoked' = [k \in Keys |-> IF k \in K THEN None ELSE revoked[k]]
    /\ UNCHANGED <<holder, reading, phase>>

Stopped ==
    /\ phase = "stopping"
    /\ reading = {}
    /\ phase' = "stopped"
    /\ UNCHANGED <<holder, revoked, reading>>

LeaseNext ==
    \/ \E k \in Keys, h \in Handles, K \in SUBSET Keys : Grant(k, h, K)
    \/ RevokeAll
    \/ \E k \in Keys : Close(k)
    \/ \E K \in SUBSET Keys : End(K)
    \/ Stopped

LeaseSpec == LeaseInit /\ [][LeaseNext]_leaseVars

(* Never two handles on one scope's file, and none when the store is down. *)
LeaseSafe ==
    /\ \A k \in Keys : holder[k] = None \/ revoked[k] = None
    /\ \A h \in reading : \E k \in Keys : h \in {holder[k], revoked[k]}
    /\ phase = "stopped" => reading = {}
=============================================================================
