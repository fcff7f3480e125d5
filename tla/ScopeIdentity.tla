--------------------------- MODULE ScopeIdentity ---------------------------
(***************************************************************************)
(* Which memory a call belongs to: ScopeKey and the map of response ids in  *)
(* plugin/store.go, the cache of stream scopes in plugin/intercept.go, and  *)
(* the handlers of a turn that use them.                                    *)
(*                                                                         *)
(* A turn is one exchange of a client: the request handler, any number of   *)
(* stream chunks, perhaps the assembled response.  All of them carry the    *)
(* same identity, ids.  Hashes of distinct values are distinct, so a scope  *)
(* is a record in place of a string.  A response id is issued once.         *)
(***************************************************************************)
EXTENDS Sequences, FiniteSets, Naturals

CONSTANTS
    Turns,      \* exchanges under way
    ApiKeys,
    Names,      \* of sessions and agents
    RespIds,    \* of responses (bounds the chains)
    Modes,      \* values of memory_scope
    Identities, \* [key, session, agent] of the clients, None where absent
    MaxChain,   \* bound of respOrder
    MaxScopes,  \* maxStreamBufs, as the bound of streamStates.scopes
    None

ASSUME IdentitiesAssumption ==
    Identities \subseteq [key : ApiKeys \cup {None}, session : Names \cup {None},
                          agent : Names \cup {None}]
ASSUME NoneAssumption == None \notin ApiKeys \cup Names \cup RespIds
ASSUME ModesAssumption == Modes \subseteq {"session", "agent", "global"}
ASSUME BoundsAssumption == MaxChain \in Nat \ {0} /\ MaxScopes \in Nat

Ids == [key : ApiKeys \cup {None}, session : Names \cup {None},
        agent : Names \cup {None}, prev : RespIds \cup {None}]

(* NoScope is the empty key: no memory.                                      *)
NoScope == [mode |-> "none"]
Global  == [mode |-> "global"]
Scopes  == {NoScope, Global} \cup
           [mode : {"session", "agent"}, tenant : ApiKeys \cup {None},
            bucket : {"session", "agent", "tenant"}, name : Names \cup {None}]

VARIABLES
    mode,       \* cfg.MemoryScope
    respScope,  \* response id -> [scope, owner], for those in the map
    respOrder,  \* response ids, oldest first
    scopes,     \* streamStates.scopes: identity and body -> [scope, owner]
    pc,         \* turn -> next step of its handler
    handler,    \* turn -> "request", "chunk" or "response"
    ids,        \* turn -> what ResolveScopeIDs makes of its calls
    resp,       \* turn -> the id of its response
    got,        \* turn -> scope and owner its handler has
    known,      \* response ids that clients have seen
    made,       \* history, while calm: response id -> what its turn's request got
    fresh,      \* history: turns that began under the present memory_scope
    calm        \* history: no change of memory_scope, no id has left the map

chainVars   == <<respScope, respOrder, calm>>
turnVars    == <<pc, handler, ids, resp, got>>
historyVars == <<known, made, fresh>>
vars == <<mode, chainVars, scopes, turnVars, historyVars>>

-----------------------------------------------------------------------------
InOrder == {respOrder[i] : i \in DOMAIN respOrder}

Owned == [scope : Scopes, owner : ApiKeys \cup {None}]

(* The map of response ids and its eviction order hold the same ids, each    *)
(* once, and no more than the bound (store.go:243-259).                      *)
TypeOK ==
    /\ mode \in Modes
    /\ DOMAIN respScope = InOrder
    /\ \A r \in InOrder : r \in RespIds /\ respScope[r] \in Owned
    /\ Len(respOrder) = Cardinality(InOrder) /\ Len(respOrder) <= MaxChain
    /\ DOMAIN scopes \subseteq Ids /\ Cardinality(DOMAIN scopes) <= MaxScopes
    /\ \A i \in DOMAIN scopes : scopes[i] \in Owned
    /\ pc \in [Turns -> {"idle", "between", "key", "chain", "cache", "remember"}]
    /\ \A t \in Turns : /\ ids[t] \in Ids
                        /\ resp[t] \in RespIds \cup {None}
                        /\ got[t] \in Owned

NoIds == [key |-> None, session |-> None, agent |-> None, prev |-> None]

Nothing == [scope |-> NoScope, owner |-> None]

Init ==
    /\ mode \in Modes
    /\ respScope = << >> /\ respOrder = << >>
    /\ scopes = << >>
    /\ pc = [t \in Turns |-> "idle"]
    /\ handler = [t \in Turns |-> "request"]
    /\ ids = [t \in Turns |-> NoIds]
    /\ resp = [t \in Turns |-> None]
    /\ got = [t \in Turns |-> Nothing]
    /\ known = {}
    /\ made = << >>
    /\ fresh = {}
    /\ calm = TRUE

-----------------------------------------------------------------------------
(* ScopeKey, but for the chain: the buckets of a memory_scope. *)
Bucket(m, i) ==
    IF m = "session" /\ i.session # None THEN "session"
    ELSE IF i.agent # None THEN "agent" ELSE "tenant"

ScopeKey(m, i) ==
    IF m = "global" THEN Global
    ELSE IF Bucket(m, i) = "tenant" /\ i.key = None THEN NoScope
    ELSE [mode |-> m, tenant |-> i.key, bucket |-> Bucket(m, i),
          name |-> IF Bucket(m, i) = "session" THEN i.session ELSE i.agent]

FollowsChain(m, i) == m = "session" /\ i.session = None /\ i.prev # None

(* Fault: whoever presents a response id gets its scope. *)
ChainFoundForAnybody(i) == i.prev \in DOMAIN respScope

(* ScopeForResponse: the presenter must be the producer. *)
ChainFound(i) ==
    /\ i.prev \in DOMAIN respScope
    /\ respScope[i.prev].owner = i.key

(* Fault: a scope is cached for the identity alone. *)
CacheKeyWithoutBody(i) == [i EXCEPT !.prev = None]

(* The identity and the body of a stream; of the body only prev matters. *)
CacheKey(i) == i

Put(f, x, v) == [y \in DOMAIN f \cup {x} |-> IF y = x THEN v ELSE f[y]]

(* Fault: an id that is in the map already is put in the order again. *)
OrderWithAgain(r) == Append(respOrder, r)

OrderWith(r) == IF r \in DOMAIN respScope THEN respOrder ELSE Append(respOrder, r)

(* RememberResponseScope: beyond the bound the oldest id goes. *)
RememberResponseScope(r, owned) ==
    LET order == OrderWith(r)
        grown == Put(respScope, r, owned)
        keep  == IF Len(order) > MaxChain THEN Tail(order) ELSE order
        gone  == IF Len(order) > MaxChain THEN {Head(order)} ELSE {}
    IN  /\ respOrder' = keep
        /\ respScope' = [x \in DOMAIN grown \ gone |-> grown[x]]
        /\ calm' = (calm /\ gone = {})

-----------------------------------------------------------------------------
Goto(t, from, to) == pc[t] = from /\ pc' = [pc EXCEPT ![t] = to]

(* A client starts a turn, perhaps with the id of a response it has seen,    *)
(* and calls the request handler.                                            *)
Begin(t, who, prev) ==
    /\ Goto(t, "idle", "key")
    /\ handler' = [handler EXCEPT ![t] = "request"]
    /\ ids' = [ids EXCEPT ![t] = [key |-> who.key, session |-> who.session,
                                  agent |-> who.agent, prev |-> prev]]
    /\ \E r \in RespIds \ (known \cup {resp[u] : u \in Turns}) :
          resp' = [resp EXCEPT ![t] = r]
    /\ fresh' = fresh \cup {t}
    /\ UNCHANGED <<mode, chainVars, scopes, got, known, made>>

(* The host hands over the assembled response (chunks: below), or is done.   *)
Response(t) ==
    /\ Goto(t, "between", "key")
    /\ handler[t] # "response"
    /\ handler' = [handler EXCEPT ![t] = "response"]
    /\ UNCHANGED <<mode, chainVars, scopes, ids, resp, got, historyVars>>

End(t) ==
    /\ Goto(t, "between", "idle")
    /\ handler' = [handler EXCEPT ![t] = "request"]
    /\ ids' = [ids EXCEPT ![t] = NoIds]
    /\ resp' = [resp EXCEPT ![t] = None]
    /\ got' = [got EXCEPT ![t] = Nothing]
    /\ fresh' = fresh \ {t}
    /\ UNCHANGED <<mode, chainVars, scopes, known, made>>

-----------------------------------------------------------------------------
(* The handler has its scope. *)
Resolved(t, scope) ==
    /\ got' = [got EXCEPT ![t] = [scope |-> scope, owner |-> ids[t].key]]
    /\ made' = IF calm /\ handler[t] = "request" THEN Put(made, resp[t], got'[t]) ELSE made

AfterScope(t, scope) ==
    IF handler[t] = "request" \/ scope = NoScope THEN "between"
    ELSE IF handler[t] = "chunk" THEN "cache" ELSE "remember"

(* A chunk.  streamScopeFor: a stream that is in the cache has its scope from *)
(* there.                                                                    *)
CachedChunk(t) ==
    /\ CacheKey(ids[t]) \in DOMAIN scopes
    /\ Goto(t, "between", "remember")
    /\ handler' = [handler EXCEPT ![t] = "chunk"]
    /\ got' = [got EXCEPT ![t] = scopes[CacheKey(ids[t])]]
    /\ UNCHANGED <<mode, chainVars, scopes, ids, resp, historyVars>>

Chunk(t) ==
    /\ CacheKey(ids[t]) \notin DOMAIN scopes
    /\ Goto(t, "between", "key")
    /\ handler' = [handler EXCEPT ![t] = "chunk"]
    /\ UNCHANGED <<mode, chainVars, scopes, ids, resp, got, historyVars>>

(* ScopeKey reads the configuration, ... *)
ScopeByIdentity(t) ==
    /\ ~FollowsChain(mode, ids[t])
    /\ Goto(t, "key", AfterScope(t, ScopeKey(mode, ids[t])))
    /\ Resolved(t, ScopeKey(mode, ids[t]))
    /\ UNCHANGED <<mode, chainVars, scopes, handler, ids, resp, known, fresh>>

ScopeByChain(t) ==
    /\ FollowsChain(mode, ids[t])
    /\ Goto(t, "key", "chain")
    /\ UNCHANGED <<mode, chainVars, scopes, handler, ids, resp, got, historyVars>>

(* Fault: nobody continues a chain. *)
ScopeForNoResponse(t) ==
    LET scope == ScopeKey("session", ids[t])
    IN  /\ Goto(t, "chain", AfterScope(t, scope))
        /\ Resolved(t, scope)
        /\ UNCHANGED <<mode, chainVars, scopes, handler, ids, resp, known, fresh>>

(* ... and asks for the response that the turn continues. *)
ScopeForResponse(t) ==
    LET scope == IF ChainFound(ids[t]) THEN respScope[ids[t].prev].scope
                                       ELSE ScopeKey("session", ids[t])
    IN  /\ Goto(t, "chain", AfterScope(t, scope))
        /\ Resolved(t, scope)
        /\ UNCHANGED <<mode, chainVars, scopes, handler, ids, resp, known, fresh>>

CacheScope(t) ==
    /\ Goto(t, "cache", "remember")
    /\ scopes' = IF Cardinality(DOMAIN scopes) < MaxScopes
                 THEN Put(scopes, CacheKey(ids[t]), got[t]) ELSE scopes
    /\ UNCHANGED <<mode, chainVars, handler, ids, resp, got, historyVars>>

(* The body of the call has the response's id, or has none; then the client  *)
(* gets to see it.                                                           *)
Remember(t) ==
    /\ Goto(t, "remember", "between")
    /\ RememberResponseScope(resp[t], got[t])
    /\ known' = known \cup {resp[t]}
    /\ made' = IF calm' THEN made ELSE << >>
    /\ UNCHANGED <<mode, scopes, handler, ids, resp, got, fresh>>

NoResponseId(t) ==
    /\ Goto(t, "remember", "between")
    /\ UNCHANGED <<mode, chainVars, scopes, handler, ids, resp, got, historyVars>>

-----------------------------------------------------------------------------
(* A material Reconfigure, or a shutdown and a new registration, clears the  *)
(* map; the cache belongs to the process and stays.                          *)
Reconfigure(m) ==
    /\ mode' = m
    /\ respScope' = << >> /\ respOrder' = << >>
    /\ calm' = (calm /\ m = mode /\ respOrder = << >>)
    /\ fresh' = IF m = mode THEN fresh ELSE {}
    /\ made' = IF calm' THEN made ELSE << >>
    /\ UNCHANGED <<scopes, turnVars, known>>

TurnRuns(t) ==
    \/ \E who \in Identities, prev \in known \cup {None} : Begin(t, who, prev)
    \/ CachedChunk(t) \/ Chunk(t) \/ Response(t) \/ End(t)
    \/ ScopeByIdentity(t) \/ ScopeByChain(t) \/ ScopeForResponse(t)
    \/ CacheScope(t) \/ Remember(t) \/ NoResponseId(t)

Next ==
    \/ \E m \in Modes : Reconfigure(m)
    \/ \E t \in Turns : TurnRuns(t)

Spec == Init /\ [][Next]_vars

-----------------------------------------------------------------------------
(* Turns that write to the same memory have the same API key, whatever ids   *)
(* they present, chains they follow and scopes are cached, and however the   *)
(* settings change meanwhile; the global scope is shared on purpose          *)
(* (store.go:152-154, 162-165, 262-267).                                     *)
TenantsApart ==
    \A t, u \in Turns :
        got[t].scope = got[u].scope /\ got[t].scope \notin {NoScope, Global}
            => ids[t].key = ids[u].key

(* As long as memory_scope is the same and no response id has left the map,  *)
(* what a turn's chunks and its response store goes where its request looks  *)
(* for memories, whether scopes come from the chain or the cache             *)
(* (intercept.go:317-341).                                                   *)
Asked(t) == made[resp[t]].scope
HasAsked(t) == pc[t] # "idle" /\ (handler[t] # "request" \/ pc[t] = "between")

OneMemoryPerTurn == calm => \A t \in Turns : HasAsked(t) => got[t].scope = Asked(t)

(* Under the same condition a client that names a response of its own goes on *)
(* in the memory of the turn that produced it, also while that turn is still  *)
(* under way (store.go:192-203).                                              *)
Continues(t) ==
    /\ HasAsked(t)
    /\ FollowsChain(mode, ids[t])
    /\ ids[t].key = made[ids[t].prev].owner

ChainContinues ==
    calm => \A t \in Turns : Continues(t) => Asked(t) = made[ids[t].prev].scope

(* A turn that begins after a change of memory_scope uses the scopes of the  *)
(* new one (store.go:109-111).  The cache of stream scopes breaks it.        *)
NewTurnNewScope ==
    \A t \in fresh : got[t].scope # NoScope => got[t].scope.mode = mode
=============================================================================
