------------------------ MODULE ScopeIdentity_proofs ------------------------
(***************************************************************************)
(* Tenants never share a memory, and a turn keeps its memory while nothing *)
(* has left the map, for any number of turns, tenants, names and response  *)
(* ids and any bounds of the map and the cache.                            *)
(***************************************************************************)
EXTENDS ScopeIdentity, FiniteSetTheorems, FunctionTheorems, SequenceTheorems, TLAPS

(* What is handed on with a scope is the key of the tenant that has it.    *)
OwnedBy(owned, key) ==
    /\ owned.owner = key
    /\ owned.scope \in {NoScope, Global} \/ owned.scope.tenant = key

Shape == DOMAIN pc = Turns /\ DOMAIN ids = Turns /\ DOMAIN got = Turns

(* Before its first answer a turn has nothing. *)
Owns(t) ==
    \/ got[t] = Nothing /\ pc[t] \notin {"cache", "remember"}
    \/ OwnedBy(got[t], ids[t].key) /\ pc[t] # "idle"

TurnsOwn == \A t \in Turns : Owns(t)

EntriesOwned == \A r \in DOMAIN respScope : OwnedBy(respScope[r], respScope[r].owner)

CacheOwned == \A i \in DOMAIN scopes : OwnedBy(scopes[i], i.key)

IInv == Shape /\ TurnsOwn /\ EntriesOwned /\ CacheOwned

-----------------------------------------------------------------------------
(* ScopeKey gives a tenant its own buckets. *)
LEMMA ScopeKeyOwned ==
    ASSUME NEW m, NEW i PROVE OwnedBy([scope |-> ScopeKey(m, i), owner |-> i.key], i.key)
  BY DEF OwnedBy, ScopeKey

(* A scope that the presenter's chain leads to is the presenter's own. *)
LEMMA ChainOwned ==
    ASSUME EntriesOwned, NEW i, ChainFound(i)
    PROVE  OwnedBy([scope |-> respScope[i.prev].scope, owner |-> i.key], i.key)
  BY DEF EntriesOwned, ChainFound, OwnedBy

(* The map stays owned when an owned entry is put into it. *)
LEMMA RememberKeepsEntries ==
    ASSUME EntriesOwned, NEW r, NEW owned, OwnedBy(owned, owned.owner),
           RememberResponseScope(r, owned)
    PROVE  EntriesOwned'
  <1>1. DOMAIN Put(respScope, r, owned) = DOMAIN respScope \cup {r}
    BY DEF Put
  <1>2. \A x \in DOMAIN respScope \cup {r} :
            OwnedBy(Put(respScope, r, owned)[x], Put(respScope, r, owned)[x].owner)
    BY DEF Put, EntriesOwned
  <1>3. \A x \in DOMAIN respScope' :
            x \in DOMAIN respScope \cup {r} /\ respScope'[x] = Put(respScope, r, owned)[x]
    BY <1>1 DEF RememberResponseScope
  <1> QED BY <1>2, <1>3 DEF EntriesOwned

LEMMA InitHolds == Init => IInv
  <1> SUFFICES ASSUME Init PROVE IInv OBVIOUS
  <1>1. Shape BY DEF Init, Shape
  <1>2. TurnsOwn BY DEF Init, TurnsOwn, Owns
  <1>3. EntriesOwned /\ CacheOwned
    <2>1. DOMAIN respScope = {} /\ DOMAIN scopes = {} BY DEF Init
    <2> QED BY <2>1 DEF EntriesOwned, CacheOwned
  <1> QED BY <1>1, <1>2, <1>3 DEF IInv

(* A step of turn t that leaves the others, the map and the cache alone. *)
LEMMA TurnKeeps ==
    ASSUME IInv, NEW t \in Turns, Shape', Owns(t)',
           \A u \in Turns \ {t} : pc'[u] = pc[u] /\ ids'[u] = ids[u] /\ got'[u] = got[u],
           UNCHANGED <<respScope, scopes>>
    PROVE  IInv'
  <1>1. TurnsOwn' BY DEF IInv, TurnsOwn, Owns
  <1>2. EntriesOwned' /\ CacheOwned' BY DEF IInv, EntriesOwned, CacheOwned
  <1> QED BY <1>1, <1>2 DEF IInv

(* Likewise, when the step gets t a scope of its own tenant. *)
LEMMA ResolvedKeeps ==
    ASSUME IInv, NEW t \in Turns, NEW to \in {"between", "cache", "remember"}, NEW from,
           NEW owned, OwnedBy(owned, ids[t].key),
           Goto(t, from, to), got' = [got EXCEPT ![t] = owned],
           UNCHANGED <<ids, respScope, scopes>>
    PROVE  IInv'
  <1>1. Shape' BY DEF IInv, Shape, Goto
  <1>2. pc'[t] = to /\ got'[t] = owned BY DEF IInv, Shape, Goto
  <1>3. Owns(t)' BY <1>2 DEF Owns
  <1>4. \A u \in Turns \ {t} : pc'[u] = pc[u] /\ ids'[u] = ids[u] /\ got'[u] = got[u]
    BY DEF IInv, Shape, Goto
  <1> QED BY <1>1, <1>3, <1>4, TurnKeeps

(* Likewise, when the step only moves t to where it needs no scope. *)
LEMMA MoveKeeps ==
    ASSUME IInv, NEW t \in Turns, NEW from, NEW to \in {"between", "key", "chain"},
           from # "idle", Goto(t, from, to), UNCHANGED <<ids, got, respScope, scopes>>
    PROVE  IInv'
  <1>1. Shape' BY DEF IInv, Shape, Goto
  <1>2. pc[t] = from /\ pc'[t] = to BY DEF IInv, Shape, Goto
  <1>3. Owns(t)' BY <1>2 DEF IInv, TurnsOwn, Owns
  <1>4. \A u \in Turns \ {t} : pc'[u] = pc[u] /\ ids'[u] = ids[u] /\ got'[u] = got[u]
    BY DEF IInv, Shape, Goto
  <1> QED BY <1>1, <1>3, <1>4, TurnKeeps

-----------------------------------------------------------------------------
LEMMA BeginKeeps ==
    ASSUME IInv, NEW t \in Turns, NEW who, NEW prev, Begin(t, who, prev) PROVE IInv'
  <1>1. Shape' BY DEF IInv, Shape, Begin, Goto
  <1>2. got'[t] = Nothing /\ pc'[t] = "key"
    BY DEF IInv, Shape, TurnsOwn, Owns, Begin, Goto
  <1>3. Owns(t)' BY <1>2 DEF Owns
  <1>4. \A u \in Turns \ {t} : pc'[u] = pc[u] /\ ids'[u] = ids[u] /\ got'[u] = got[u]
    BY DEF IInv, Shape, Begin, Goto
  <1>5. UNCHANGED <<respScope, scopes>> BY DEF Begin, chainVars
  <1> QED BY <1>1, <1>3, <1>4, <1>5, TurnKeeps

LEMMA EndKeeps == ASSUME IInv, NEW t \in Turns, End(t) PROVE IInv'
  <1>1. Shape' BY DEF IInv, Shape, End, Goto
  <1>2. got'[t] = Nothing /\ pc'[t] = "idle" BY DEF IInv, Shape, End, Goto
  <1>3. Owns(t)' BY <1>2 DEF Owns
  <1>4. \A u \in Turns \ {t} : pc'[u] = pc[u] /\ ids'[u] = ids[u] /\ got'[u] = got[u]
    BY DEF IInv, Shape, End, Goto
  <1>5. UNCHANGED <<respScope, scopes>> BY DEF End, chainVars
  <1> QED BY <1>1, <1>3, <1>4, <1>5, TurnKeeps

LEMMA AfterScopeIs ==
    ASSUME NEW t, NEW scope PROVE AfterScope(t, scope) \in {"between", "cache", "remember"}
  BY DEF AfterScope

LEMMA ByIdentityKeeps ==
    ASSUME IInv, NEW t \in Turns, ScopeByIdentity(t) PROVE IInv'
  <1> DEFINE scope == ScopeKey(mode, ids[t])
             owned == [scope |-> scope, owner |-> ids[t].key]
  <1>1. OwnedBy(owned, ids[t].key) BY ScopeKeyOwned
  <1>2. Goto(t, "key", AfterScope(t, scope)) /\ got' = [got EXCEPT ![t] = owned]
    BY DEF ScopeByIdentity, Resolved
  <1>3. UNCHANGED <<ids, respScope, scopes>> BY DEF ScopeByIdentity, chainVars
  <1>4. AfterScope(t, scope) \in {"between", "cache", "remember"} BY AfterScopeIs
  <1> HIDE DEF owned, scope
  <1> QED BY <1>1, <1>2, <1>3, <1>4, ResolvedKeeps

LEMMA ByChainKeeps ==
    ASSUME IInv, NEW t \in Turns, ScopeForResponse(t) PROVE IInv'
  <1> DEFINE scope == IF ChainFound(ids[t]) THEN respScope[ids[t].prev].scope
                                            ELSE ScopeKey("session", ids[t])
             owned == [scope |-> scope, owner |-> ids[t].key]
  <1>1. OwnedBy(owned, ids[t].key)
    <2>1. CASE ChainFound(ids[t])
      <3>1. OwnedBy([scope |-> respScope[ids[t].prev].scope, owner |-> ids[t].key], ids[t].key)
        BY <2>1, ChainOwned DEF IInv
      <3> QED BY <2>1, <3>1
    <2>2. CASE ~ChainFound(ids[t])
      <3>1. OwnedBy([scope |-> ScopeKey("session", ids[t]), owner |-> ids[t].key], ids[t].key)
        BY ScopeKeyOwned
      <3> QED BY <2>2, <3>1
    <2> QED BY <2>1, <2>2
  <1>2. Goto(t, "chain", AfterScope(t, scope)) /\ got' = [got EXCEPT ![t] = owned]
    BY DEF ScopeForResponse, Resolved
  <1>3. UNCHANGED <<ids, respScope, scopes>> BY DEF ScopeForResponse, chainVars
  <1>4. AfterScope(t, scope) \in {"between", "cache", "remember"} BY AfterScopeIs
  <1> HIDE DEF owned, scope
  <1> QED BY <1>1, <1>2, <1>3, <1>4, ResolvedKeeps

LEMMA CachedChunkKeeps ==
    ASSUME IInv, NEW t \in Turns, CachedChunk(t) PROVE IInv'
  <1> DEFINE owned == scopes[CacheKey(ids[t])]
  <1>1. OwnedBy(owned, ids[t].key)
    BY DEF CachedChunk, CacheKey, IInv, CacheOwned
  <1>2. Goto(t, "between", "remember") /\ got' = [got EXCEPT ![t] = owned]
    BY DEF CachedChunk
  <1>3. UNCHANGED <<ids, respScope, scopes>> BY DEF CachedChunk, chainVars
  <1> HIDE DEF owned
  <1> QED BY <1>1, <1>2, <1>3, ResolvedKeeps

(* What goes into the cache or the map belongs to the turn that puts it.    *)
LEMMA CacheScopeKeeps ==
    ASSUME IInv, NEW t \in Turns, CacheScope(t) PROVE IInv'
  <1>1. OwnedBy(got[t], ids[t].key)
    BY DEF CacheScope, Goto, IInv, TurnsOwn, Owns
  <1>2. CacheOwned'
    <2> SUFFICES ASSUME NEW i \in DOMAIN scopes' PROVE OwnedBy(scopes'[i], i.key)
      BY DEF CacheOwned
    <2>1. CASE scopes' = scopes BY <2>1 DEF IInv, CacheOwned
    <2>2. CASE scopes' = Put(scopes, CacheKey(ids[t]), got[t])
      BY <1>1, <2>2 DEF Put, CacheKey, IInv, CacheOwned
    <2> QED BY <2>1, <2>2 DEF CacheScope
  <1>3. Shape' /\ TurnsOwn' /\ EntriesOwned'
    BY DEF CacheScope, chainVars, Goto, IInv, Shape, TurnsOwn, Owns, EntriesOwned
  <1> QED BY <1>2, <1>3 DEF IInv

LEMMA RememberKeeps ==
    ASSUME IInv, NEW t \in Turns, Remember(t) PROVE IInv'
  <1>1. OwnedBy(got[t], ids[t].key)
    BY DEF Remember, Goto, IInv, TurnsOwn, Owns
  <1>2. OwnedBy(got[t], got[t].owner) BY <1>1 DEF OwnedBy
  <1>3. EntriesOwned'
    BY <1>2, RememberKeepsEntries DEF Remember, IInv
  <1>4. Shape' /\ TurnsOwn' /\ CacheOwned'
    BY DEF Remember, Goto, IInv, Shape, TurnsOwn, Owns, CacheOwned
  <1> QED BY <1>3, <1>4 DEF IInv

LEMMA StepKeeps == ASSUME IInv, [Next]_vars PROVE IInv'
  <1>1. CASE UNCHANGED vars
    BY <1>1 DEF vars, chainVars, turnVars, IInv, Shape, TurnsOwn, Owns, EntriesOwned, CacheOwned
  <1>2. ASSUME NEW m \in Modes, Reconfigure(m) PROVE IInv'
    <2>1. EntriesOwned'
      <3>1. DOMAIN respScope' = {} BY <1>2 DEF Reconfigure
      <3> QED BY <3>1 DEF EntriesOwned
    <2>2. Shape' /\ TurnsOwn' /\ CacheOwned'
      BY <1>2 DEF Reconfigure, turnVars, IInv, Shape, TurnsOwn, Owns, CacheOwned
    <2> QED BY <2>1, <2>2 DEF IInv
  <1>3. ASSUME NEW t \in Turns, TurnRuns(t) PROVE IInv'
    <2>1. ASSUME NEW who \in Identities, NEW prev \in known \cup {None}, Begin(t, who, prev)
          PROVE  IInv'
      BY <2>1, BeginKeeps
    <2>2. CASE CachedChunk(t) BY <2>2, CachedChunkKeeps
    <2>3. CASE Chunk(t) BY <2>3, MoveKeeps DEF Chunk, chainVars
    <2>4. CASE Response(t) BY <2>4, MoveKeeps DEF Response, chainVars
    <2>5. CASE End(t) BY <2>5, EndKeeps
    <2>6. CASE ScopeByIdentity(t) BY <2>6, ByIdentityKeeps
    <2>7. CASE ScopeByChain(t) BY <2>7, MoveKeeps DEF ScopeByChain, chainVars
    <2>8. CASE ScopeForResponse(t) BY <2>8, ByChainKeeps
    <2>9. CASE CacheScope(t) BY <2>9, CacheScopeKeeps
    <2>10. CASE Remember(t) BY <2>10, RememberKeeps
    <2>11. CASE NoResponseId(t) BY <2>11, MoveKeeps DEF NoResponseId, chainVars
    <2> QED
      BY <1>3, <2>1, <2>2, <2>3, <2>4, <2>5, <2>6, <2>7, <2>8, <2>9, <2>10, <2>11 DEF TurnRuns
  <1> QED BY <1>1, <1>2, <1>3 DEF Next

-----------------------------------------------------------------------------
(* Turns that write to the same memory have the same API key (store.go:152- *)
(* 165, 262-279): the chain map is asked with the presenter's key, and the   *)
(* cache with the whole identity, so neither hands out a foreign scope.      *)
THEOREM TenantsStayApart == Spec => []TenantsApart
  <1>1. IInv => TenantsApart
    <2> SUFFICES ASSUME IInv, NEW t \in Turns, NEW u \in Turns,
                        got[t].scope = got[u].scope, got[t].scope \notin {NoScope, Global}
                 PROVE  ids[t].key = ids[u].key
      BY DEF TenantsApart
    <2>1. got[t] # Nothing /\ got[u] # Nothing BY DEF Nothing
    <2>2. OwnedBy(got[t], ids[t].key) /\ OwnedBy(got[u], ids[u].key)
      BY <2>1 DEF IInv, TurnsOwn, Owns
    <2> QED BY <2>2 DEF OwnedBy
  <1>2. IInv /\ [Next]_vars => IInv' BY StepKeeps
  <1> QED BY InitHolds, <1>1, <1>2, PTL DEF Spec

-----------------------------------------------------------------------------
(* TypeOK, with what it rests on: the order of the map has each id once, so  *)
(* that its length is the size of the map, and a turn under way has an id.   *)
MapType ==
    /\ respOrder \in Seq(RespIds)
    /\ \A i, j \in DOMAIN respOrder : respOrder[i] = respOrder[j] => i = j
    /\ Len(respOrder) <= MaxChain
    /\ DOMAIN respScope = InOrder
    /\ \A r \in DOMAIN respScope : respScope[r] \in Owned

CacheType ==
    /\ DOMAIN scopes \subseteq Ids
    /\ IsFiniteSet(DOMAIN scopes) /\ Cardinality(DOMAIN scopes) <= MaxScopes
    /\ \A i \in DOMAIN scopes : scopes[i] \in Owned

TurnType ==
    /\ pc \in [Turns -> {"idle", "between", "key", "chain", "cache", "remember"}]
    /\ handler \in [Turns -> {"request", "chunk", "response"}]
    /\ ids \in [Turns -> Ids]
    /\ resp \in [Turns -> RespIds \cup {None}]
    /\ got \in [Turns -> Owned]
    /\ known \subseteq RespIds
    /\ \A t \in Turns : pc[t] # "idle" => resp[t] # None

TypeIntact == mode \in Modes /\ MapType /\ CacheType /\ TurnType

-----------------------------------------------------------------------------
(* What the handlers of a turn with identity i get, as long as nothing is    *)
(* forgotten.                                                                *)
Answer(i) ==
    [scope |-> IF FollowsChain(mode, i)
               THEN IF ChainFound(i) THEN respScope[i.prev].scope ELSE ScopeKey("session", i)
               ELSE ScopeKey(mode, i),
     owner |-> i.key]

(* Each response id is one turn's, and not known before that turn has        *)
(* remembered it.                                                            *)
IdsUnique ==
    /\ \A t, u \in Turns : resp[t] = resp[u] /\ resp[t] # None => t = u
    /\ \A t \in Turns : pc[t] # "idle" /\ handler[t] = "request" => resp[t] \notin known
    /\ \A t \in Turns : handler[t] = "request" => pc[t] \notin {"cache", "remember"}

(* A turn continues a response that is in the map, and so does whatever is   *)
(* in the cache; the map holds what the turn of the response was told, and   *)
(* turns and cache hold the answer that the map would give now.              *)
MapSettled ==
    /\ DOMAIN respScope = known
    /\ \A r \in known : r \in DOMAIN made /\ made[r] = respScope[r]

CacheSettled == \A i \in DOMAIN scopes : i.prev \in known \cup {None} /\ scopes[i] = Answer(i)

TurnsSettled ==
    \A t \in Turns :
        /\ pc[t] # "idle" => ids[t].prev \in known \cup {None}
        /\ pc[t] = "chain" => FollowsChain(mode, ids[t])
        /\ HasAsked(t) => /\ resp[t] \in DOMAIN made
                          /\ made[resp[t]] = Answer(ids[t])
                          /\ got[t] = Answer(ids[t])

Settled == calm => MapSettled /\ CacheSettled /\ TurnsSettled

CalmInv == TypeIntact /\ IdsUnique /\ Settled

-----------------------------------------------------------------------------
(* A list with no value twice is as long as the set of its values.           *)
LEMMA DistinctLength ==
    ASSUME NEW S, NEW q \in Seq(S), \A i, j \in DOMAIN q : q[i] = q[j] => i = j
    PROVE  /\ IsFiniteSet({q[i] : i \in DOMAIN q})
           /\ Cardinality({q[i] : i \in DOMAIN q}) = Len(q)
  <1> DEFINE values == {q[i] : i \in DOMAIN q}
             at     == [i \in 1..Len(q) |-> q[i]]
  <1>1. Len(q) \in Nat /\ DOMAIN q = 1..Len(q) BY LenProperties
  <1>2. IsFiniteSet(1..Len(q)) /\ Cardinality(1..Len(q)) = Len(q)
    BY <1>1, FS_Interval
  <1>3. at \in Bijection(1..Len(q), values)
    <2>1. at \in [1..Len(q) -> values] BY <1>1
    <2>2. \A i, j \in 1..Len(q) : at[i] = at[j] => i = j BY <1>1
    <2>3. \A v \in values : \E i \in 1..Len(q) : at[i] = v BY <1>1
    <2> QED BY <2>1, <2>2, <2>3, Fun_IsBij
  <1> HIDE DEF values, at
  <1>4. IsFiniteSet(values) /\ Cardinality(values) = Len(q)
    BY <1>2, <1>3, FS_Bijection DEF ExistsBijection
  <1> QED BY <1>4 DEF values

LEMMA IntactIsTypeOK == TypeIntact => TypeOK
  <1> SUFFICES ASSUME TypeIntact PROVE TypeOK OBVIOUS
  <1>1. Len(respOrder) = Cardinality(InOrder)
    BY DistinctLength DEF TypeIntact, MapType, InOrder
  <1>2. \A r \in InOrder : r \in RespIds BY DEF TypeIntact, MapType, InOrder
  <1>3. MapType /\ CacheType /\ TurnType BY DEF TypeIntact
  <1>4. \A t \in Turns : ids[t] \in Ids /\ resp[t] \in RespIds \cup {None} /\ got[t] \in Owned
    BY <1>3 DEF TurnType
  <1> QED BY <1>1, <1>2, <1>3, <1>4 DEF TypeOK, TypeIntact, MapType, CacheType, TurnType

-----------------------------------------------------------------------------
(* The shapes of the values that the handlers make. *)
LEMMA ScopeKeyType ==
    ASSUME NEW m \in {"session", "agent", "global"}, NEW i \in Ids
    PROVE  ScopeKey(m, i) \in Scopes
  <1>1. Bucket(m, i) \in {"session", "agent", "tenant"} BY DEF Bucket
  <1>2. i.key \in ApiKeys \cup {None} /\ i.session \in Names \cup {None}
        /\ i.agent \in Names \cup {None}
    BY DEF Ids
  <1>3. CASE m = "global" BY <1>3 DEF ScopeKey, Scopes
  <1>4. CASE m # "global" /\ Bucket(m, i) = "tenant" /\ i.key = None
    BY <1>4 DEF ScopeKey, Scopes
  <1>5. CASE m # "global" /\ ~(Bucket(m, i) = "tenant" /\ i.key = None)
    <2> DEFINE name == IF Bucket(m, i) = "session" THEN i.session ELSE i.agent
    <2>1. name \in Names \cup {None} /\ m \in {"session", "agent"} BY <1>2, <1>5
    <2> HIDE DEF name
    <2>2. [mode |-> m, tenant |-> i.key, bucket |-> Bucket(m, i), name |-> name] \in Scopes
      BY <1>1, <1>2, <2>1 DEF Scopes
    <2> QED BY <1>5, <2>2 DEF ScopeKey, name
  <1> QED BY <1>3, <1>4, <1>5

LEMMA OwnedType ==
    ASSUME NEW scope \in Scopes, NEW i \in Ids
    PROVE  [scope |-> scope, owner |-> i.key] \in Owned
  BY DEF Owned, Ids

LEMMA NothingType == Nothing \in Owned
  BY DEF Nothing, Owned, Scopes

LEMMA NoIdsType == NoIds \in Ids
  BY DEF NoIds, Ids

-----------------------------------------------------------------------------
(* TypeIntact is an invariant. *)
Pcs == {"idle", "between", "key", "chain", "cache", "remember"}

LEMMA InitIntact == Init => TypeIntact
  <1> SUFFICES ASSUME Init PROVE TypeIntact OBVIOUS
  <1>1. respOrder = << >> /\ respOrder \in Seq(RespIds) /\ DOMAIN respOrder = {}
        /\ Len(respOrder) = 0
    BY EmptySeq, LenProperties DEF Init
  <1>2. MapType
    BY <1>1, BoundsAssumption DEF Init, MapType, InOrder
  <1>3. CacheType
    BY FS_EmptySet, BoundsAssumption DEF Init, CacheType
  <1>4. TurnType BY NothingType, NoIdsType DEF Init, TurnType
  <1>5. mode \in Modes BY DEF Init
  <1> QED BY <1>2, <1>3, <1>4, <1>5 DEF TypeIntact

LEMMA MapTypeStays ==
    ASSUME MapType, UNCHANGED <<respScope, respOrder>> PROVE MapType'
  BY DEF MapType, InOrder

LEMMA CacheTypeStays == ASSUME CacheType, UNCHANGED scopes PROVE CacheType'
  BY DEF CacheType

(* The pc and the answer of a turn under way. *)
LEMMA TurnTypeMoves ==
    ASSUME TurnType, NEW t \in Turns, NEW from \in Pcs, from # "idle", NEW to \in Pcs,
           Goto(t, from, to), handler' \in [Turns -> {"request", "chunk", "response"}],
           got' \in [Turns -> Owned], UNCHANGED <<ids, resp, known>>
    PROVE  TurnType'
  BY DEF TurnType, Goto, Pcs

(* An id more in the map: the oldest goes when there is one too many.       *)
LEMMA RememberKeepsMap ==
    ASSUME MapType, NEW r \in RespIds, NEW owned \in Owned, RememberResponseScope(r, owned)
    PROVE  MapType'
  <1> DEFINE order == OrderWith(r)
             grown == Put(respScope, r, owned)
  <1>1. /\ order \in Seq(RespIds) /\ Len(order) \in Nat /\ DOMAIN order = 1..Len(order)
        /\ \A i, j \in DOMAIN order : order[i] = order[j] => i = j
        /\ {order[i] : i \in DOMAIN order} = InOrder \cup {r}
        /\ Len(order) <= MaxChain + 1
    <2>1. CASE r \in DOMAIN respScope
      <3>1. r \in InOrder BY <2>1 DEF MapType
      <3> QED BY <2>1, <3>1, LenProperties, BoundsAssumption DEF MapType, OrderWith, InOrder
    <2>2. CASE r \notin DOMAIN respScope
      <3>1. order = Append(respOrder, r) BY <2>2 DEF OrderWith
      <3>2. /\ order \in Seq(RespIds) /\ Len(order) = Len(respOrder) + 1
            /\ \A i \in 1..Len(respOrder) : order[i] = respOrder[i]
            /\ order[Len(respOrder) + 1] = r
        BY <3>1, AppendProperties DEF MapType
      <3>3. /\ Len(respOrder) \in Nat /\ DOMAIN respOrder = 1..Len(respOrder)
            /\ DOMAIN order = 1..Len(order)
        BY <3>2, LenProperties DEF MapType
      <3>4. \A i \in DOMAIN respOrder : respOrder[i] # r BY <2>2 DEF MapType, InOrder
      <3>5. \A i \in DOMAIN order : i \in DOMAIN respOrder \/ i = Len(respOrder) + 1
        BY <3>2, <3>3
      <3> HIDE DEF order
      <3>6. \A i, j \in DOMAIN order : order[i] = order[j] => i = j
        BY <3>2, <3>3, <3>4, <3>5 DEF MapType
      <3>7. {order[i] : i \in DOMAIN order} = InOrder \cup {r}
        BY <3>2, <3>3, <3>5 DEF InOrder
      <3> QED BY <3>2, <3>3, <3>6, <3>7, BoundsAssumption DEF MapType
    <2> QED BY <2>1, <2>2
  <1>2. /\ DOMAIN grown = InOrder \cup {r}
        /\ \A x \in DOMAIN grown : grown[x] \in Owned
    BY DEF MapType, Put
  <1> HIDE DEF order, grown
  <1>3. CASE Len(order) <= MaxChain
    <2>1. ~(Len(order) > MaxChain) BY <1>1, <1>3, BoundsAssumption
    <2>2. respOrder' = order /\ respScope' = [x \in DOMAIN grown \ {} |-> grown[x]]
      BY <2>1 DEF RememberResponseScope, order, grown
    <2>3. DOMAIN respScope' = DOMAIN grown /\ \A x \in DOMAIN grown : respScope'[x] = grown[x]
      BY <2>2
    <2>4. InOrder' = InOrder \cup {r} BY <1>1, <2>2 DEF InOrder
    <2> QED BY <1>1, <1>2, <1>3, <2>2, <2>3, <2>4 DEF MapType
  <1>4. CASE Len(order) > MaxChain
    <2>1. respOrder' = Tail(order) /\ respScope' = [x \in DOMAIN grown \ {Head(order)} |-> grown[x]]
      BY <1>4 DEF RememberResponseScope, order, grown
    <2>2. order # << >> BY <1>1, <1>4, BoundsAssumption, EmptySeq
    <2>3. /\ Tail(order) \in Seq(RespIds) /\ Len(Tail(order)) = Len(order) - 1
          /\ \A i \in 1..Len(Tail(order)) : Tail(order)[i] = order[i + 1]
          /\ Head(order) = order[1]
      BY <1>1, <2>2, HeadTailProperties
    <2>4. DOMAIN Tail(order) = 1..Len(Tail(order)) BY <2>3, LenProperties
    <2>5. \A i, j \in DOMAIN Tail(order) : Tail(order)[i] = Tail(order)[j] => i = j
      BY <1>1, <2>3, <2>4
    <2>6. {Tail(order)[i] : i \in DOMAIN Tail(order)} = (InOrder \cup {r}) \ {Head(order)}
      <3>1. \A i \in DOMAIN Tail(order) :
               i + 1 \in DOMAIN order /\ i + 1 # 1 /\ Tail(order)[i] = order[i + 1]
        BY <1>1, <2>3, <2>4
      <3>2. \A i \in DOMAIN Tail(order) : Tail(order)[i] # order[1]
        BY <1>1, <2>2, <3>1, <1>4, BoundsAssumption
      <3>3. \A i \in DOMAIN order : i # 1 => i - 1 \in DOMAIN Tail(order)
                                             /\ Tail(order)[i - 1] = order[i]
        BY <1>1, <2>3, <2>4
      <3>4. \A x \in {order[i] : i \in DOMAIN order} \ {order[1]} :
               \E i \in DOMAIN Tail(order) : Tail(order)[i] = x
        BY <3>3
      <3>5. \A i \in DOMAIN Tail(order) :
               Tail(order)[i] \in {order[j] : j \in DOMAIN order} \ {order[1]}
        BY <3>1, <3>2
      <3>6. {Tail(order)[i] : i \in DOMAIN Tail(order)}
                = {order[j] : j \in DOMAIN order} \ {order[1]}
        <4>1. {Tail(order)[i] : i \in DOMAIN Tail(order)}
                  \subseteq {order[j] : j \in DOMAIN order} \ {order[1]}
          BY <3>5
        <4>2. {order[j] : j \in DOMAIN order} \ {order[1]}
                  \subseteq {Tail(order)[i] : i \in DOMAIN Tail(order)}
          BY <3>4
        <4> QED BY <4>1, <4>2
      <3> QED BY <1>1, <2>3, <3>6
    <2>7. InOrder' = (InOrder \cup {r}) \ {Head(order)} BY <2>1, <2>6 DEF InOrder
    <2>8. Len(respOrder') <= MaxChain BY <1>1, <2>1, <2>3, BoundsAssumption
    <2>9. DOMAIN respScope' = InOrder' /\ \A x \in DOMAIN respScope' : respScope'[x] \in Owned'
      BY <1>2, <2>1, <2>7 DEF Owned
    <2> QED BY <2>1, <2>3, <2>5, <2>8, <2>9 DEF MapType
  <1> QED BY <1>1, <1>3, <1>4, BoundsAssumption

(* A scope more in the cache, unless that is full. *)
LEMMA CacheScopeKeepsCache ==
    ASSUME TypeIntact, NEW t \in Turns, CacheScope(t) PROVE CacheType'
  <1>1. ids[t] \in Ids /\ got[t] \in Owned /\ CacheType BY DEF TypeIntact, TurnType
  <1>2. CASE Cardinality(DOMAIN scopes) < MaxScopes
    <2>1. scopes' = Put(scopes, ids[t], got[t]) BY <1>2 DEF CacheScope, CacheKey
    <2>2. DOMAIN scopes' = DOMAIN scopes \cup {ids[t]} BY <2>1 DEF Put
    <2>3. \A i \in DOMAIN scopes' : scopes'[i] \in Owned
      BY <1>1, <2>1 DEF Put, CacheType
    <2>4. /\ IsFiniteSet(DOMAIN scopes')
          /\ Cardinality(DOMAIN scopes') <= Cardinality(DOMAIN scopes) + 1
          /\ Cardinality(DOMAIN scopes) \in Nat /\ Cardinality(DOMAIN scopes') \in Nat
      <3> DEFINE old == DOMAIN scopes
      <3>1. IsFiniteSet(old) BY <1>1 DEF CacheType
      <3> HIDE DEF old
      <3>2. /\ IsFiniteSet(old \cup {ids[t]}) /\ Cardinality(old) \in Nat
            /\ Cardinality(old \cup {ids[t]})
                  = IF ids[t] \in old THEN Cardinality(old) ELSE Cardinality(old) + 1
        BY <3>1, FS_AddElement, FS_CardinalityType
      <3>3. Cardinality(old \cup {ids[t]}) \in Nat
            /\ Cardinality(old \cup {ids[t]}) <= Cardinality(old) + 1
        BY <3>2
      <3> QED BY <2>2, <3>2, <3>3 DEF old
    <2>5. Cardinality(DOMAIN scopes') <= MaxScopes BY <1>2, <2>4, BoundsAssumption
    <2> QED BY <1>1, <2>2, <2>3, <2>4, <2>5 DEF CacheType
  <1>3. CASE ~(Cardinality(DOMAIN scopes) < MaxScopes)
    BY <1>1, <1>3, CacheTypeStays DEF CacheScope
  <1> QED BY <1>2, <1>3

(* The answer that a handler gets has the right shape. *)
LEMMA ByIdentityType ==
    ASSUME TypeIntact, NEW t \in Turns
    PROVE  /\ [scope |-> ScopeKey(mode, ids[t]), owner |-> ids[t].key] \in Owned
           /\ [scope |-> ScopeKey("session", ids[t]), owner |-> ids[t].key] \in Owned
  <1>1. ids[t] \in Ids BY DEF TypeIntact, TurnType
  <1>2. mode \in {"session", "agent", "global"} BY ModesAssumption DEF TypeIntact
  <1> QED BY <1>1, <1>2, ScopeKeyType, OwnedType

LEMMA ByChainType ==
    ASSUME TypeIntact, NEW t \in Turns, ChainFound(ids[t])
    PROVE  [scope |-> respScope[ids[t].prev].scope, owner |-> ids[t].key] \in Owned
  <1>1. ids[t] \in Ids BY DEF TypeIntact, TurnType
  <1>2. respScope[ids[t].prev] \in Owned BY DEF TypeIntact, MapType, ChainFound
  <1>3. respScope[ids[t].prev].scope \in Scopes BY <1>2 DEF Owned
  <1> QED BY <1>1, <1>3, OwnedType

LEMMA AfterScopePc == ASSUME NEW t, NEW scope PROVE AfterScope(t, scope) \in Pcs
  BY DEF AfterScope, Pcs

LEMMA GotType ==
    ASSUME TurnType, NEW t, NEW owned \in Owned
    PROVE  [got EXCEPT ![t] = owned] \in [Turns -> Owned]
  BY DEF TurnType

LEMMA HandlerType ==
    ASSUME TurnType, NEW t, NEW h \in {"request", "chunk", "response"}
    PROVE  [handler EXCEPT ![t] = h] \in [Turns -> {"request", "chunk", "response"}]
  BY DEF TurnType

LEMMA BeginTurnType ==
    ASSUME TurnType, NEW t \in Turns, NEW who \in Identities, NEW prev \in known \cup {None},
           Begin(t, who, prev)
    PROVE  TurnType'
  <1> DEFINE i == [key |-> who.key, session |-> who.session, agent |-> who.agent,
                   prev |-> prev]
  <1>1. i \in Ids
    BY IdentitiesAssumption DEF Ids, TurnType
  <1> HIDE DEF i
  <1>2. PICK r \in RespIds : resp' = [resp EXCEPT ![t] = r] BY DEF Begin
  <1>3. ids' = [ids EXCEPT ![t] = i] BY DEF Begin, i
  <1>4. r # None BY NoneAssumption
  <1>5. /\ handler' \in [Turns -> {"request", "chunk", "response"}]
        /\ ids' \in [Turns -> Ids] /\ resp' \in [Turns -> RespIds \cup {None}]
    BY <1>1, <1>2, <1>3, HandlerType DEF Begin, TurnType
  <1>6. \A u \in Turns : pc'[u] # "idle" => resp'[u] # None
    BY <1>2, <1>4 DEF Begin, Goto, TurnType
  <1> QED BY <1>5, <1>6 DEF Begin, Goto, TurnType

LEMMA EndTurnType ==
    ASSUME TurnType, NEW t \in Turns, End(t) PROVE TurnType'
  <1>1. /\ handler' \in [Turns -> {"request", "chunk", "response"}]
        /\ got' \in [Turns -> Owned]
    BY HandlerType, GotType, NothingType DEF End
  <1>2. ids' \in [Turns -> Ids] /\ resp' \in [Turns -> RespIds \cup {None}]
    BY NoIdsType DEF End, TurnType
  <1>3. pc' \in [Turns -> Pcs] /\ \A u \in Turns : pc'[u] # "idle" => resp'[u] # None
    BY DEF End, Goto, TurnType, Pcs
  <1> QED BY <1>1, <1>2, <1>3 DEF End, TurnType, Pcs

LEMMA StepIntact == ASSUME TypeIntact, [Next]_vars PROVE TypeIntact'
  <1>0. MapType /\ CacheType /\ TurnType /\ mode \in Modes BY DEF TypeIntact
  <1>1. CASE UNCHANGED vars
    BY <1>0, <1>1, MapTypeStays, CacheTypeStays
       DEF vars, chainVars, turnVars, historyVars, TypeIntact, TurnType
  <1>2. ASSUME NEW m \in Modes, Reconfigure(m) PROVE TypeIntact'
    <2>1. respOrder' = << >> /\ << >> \in Seq(RespIds) /\ DOMAIN << >> = {} /\ Len(<< >>) = 0
      BY <1>2, EmptySeq, LenProperties DEF Reconfigure
    <2>2. MapType'
      BY <1>2, <2>1, BoundsAssumption DEF Reconfigure, MapType, InOrder
    <2>3. CacheType' /\ TurnType' /\ mode' \in Modes
      BY <1>0, <1>2, CacheTypeStays DEF Reconfigure, turnVars, TurnType
    <2> QED BY <2>2, <2>3 DEF TypeIntact
  <1>3. ASSUME NEW t \in Turns, TurnRuns(t) PROVE TypeIntact'
    <2>0. handler \in [Turns -> {"request", "chunk", "response"}] /\ got \in [Turns -> Owned]
      BY <1>0 DEF TurnType
    <2>1. ASSUME NEW who \in Identities, NEW prev \in known \cup {None}, Begin(t, who, prev)
          PROVE  TypeIntact'
      BY <1>0, <2>1, BeginTurnType, MapTypeStays, CacheTypeStays
         DEF Begin, chainVars, TypeIntact
    <2>2. CASE CachedChunk(t)
      <3>1. scopes[ids[t]] \in Owned BY <1>0, <2>2 DEF CachedChunk, CacheKey, CacheType
      <3>2. TurnType'
        BY <1>0, <2>2, <3>1, TurnTypeMoves, GotType, HandlerType
           DEF CachedChunk, CacheKey, Pcs, historyVars
      <3> QED
        BY <1>0, <2>2, <3>2, MapTypeStays, CacheTypeStays DEF CachedChunk, chainVars, TypeIntact
    <2>3. CASE Chunk(t)
      <3>1. TurnType'
        BY <1>0, <2>0, <2>3, TurnTypeMoves, HandlerType DEF Chunk, Pcs, historyVars
      <3> QED BY <1>0, <2>3, <3>1, MapTypeStays, CacheTypeStays DEF Chunk, chainVars, TypeIntact
    <2>4. CASE Response(t)
      <3>1. TurnType'
        BY <1>0, <2>0, <2>4, TurnTypeMoves, HandlerType DEF Response, Pcs, historyVars
      <3> QED BY <1>0, <2>4, <3>1, MapTypeStays, CacheTypeStays DEF Response, chainVars, TypeIntact
    <2>5. CASE End(t)
      BY <1>0, <2>5, EndTurnType, MapTypeStays, CacheTypeStays DEF End, chainVars, TypeIntact
    <2>6. CASE ScopeByIdentity(t)
      <3>1. got' \in [Turns -> Owned]
        BY <1>0, <2>6, ByIdentityType, GotType DEF ScopeByIdentity, Resolved
      <3>2. TurnType'
        BY <1>0, <2>0, <2>6, <3>1, TurnTypeMoves, AfterScopePc DEF ScopeByIdentity, Pcs
      <3> QED
        BY <1>0, <2>6, <3>2, MapTypeStays, CacheTypeStays DEF ScopeByIdentity, chainVars, TypeIntact
    <2>7. CASE ScopeByChain(t)
      <3>1. TurnType'
        BY <1>0, <2>0, <2>7, TurnTypeMoves DEF ScopeByChain, Pcs, historyVars
      <3> QED
        BY <1>0, <2>7, <3>1, MapTypeStays, CacheTypeStays DEF ScopeByChain, chainVars, TypeIntact
    <2>8. CASE ScopeForResponse(t)
      <3>1. got' \in [Turns -> Owned]
        <4>1. CASE ChainFound(ids[t])
          BY <1>0, <2>8, <4>1, ByChainType, GotType DEF ScopeForResponse, Resolved
        <4>2. CASE ~ChainFound(ids[t])
          BY <1>0, <2>8, <4>2, ByIdentityType, GotType DEF ScopeForResponse, Resolved
        <4> QED BY <4>1, <4>2
      <3>2. TurnType'
        BY <1>0, <2>0, <2>8, <3>1, TurnTypeMoves, AfterScopePc DEF ScopeForResponse, Pcs
      <3> QED
        BY <1>0, <2>8, <3>2, MapTypeStays, CacheTypeStays DEF ScopeForResponse, chainVars, TypeIntact
    <2>9. CASE CacheScope(t)
      <3>1. TurnType'
        BY <1>0, <2>0, <2>9, TurnTypeMoves DEF CacheScope, Pcs, historyVars
      <3> QED
        BY <1>0, <2>9, <3>1, MapTypeStays, CacheScopeKeepsCache DEF CacheScope, chainVars, TypeIntact
    <2>10. CASE Remember(t)
      <3>1. resp[t] \in RespIds /\ got[t] \in Owned
        BY <1>0, <2>10 DEF Remember, Goto, TurnType
      <3>2. MapType' BY <1>0, <2>10, <3>1, RememberKeepsMap DEF Remember
      <3>3. TurnType' BY <1>0, <2>10, <3>1 DEF Remember, Goto, TurnType
      <3> QED BY <1>0, <2>10, <3>2, <3>3, CacheTypeStays DEF Remember, TypeIntact
    <2>11. CASE NoResponseId(t)
      <3>1. TurnType'
        BY <1>0, <2>0, <2>11, TurnTypeMoves DEF NoResponseId, Pcs, historyVars
      <3> QED
        BY <1>0, <2>11, <3>1, MapTypeStays, CacheTypeStays DEF NoResponseId, chainVars, TypeIntact
    <2> QED
      BY <1>3, <2>1, <2>2, <2>3, <2>4, <2>5, <2>6, <2>7, <2>8, <2>9, <2>10, <2>11 DEF TurnRuns
  <1> QED BY <1>1, <1>2, <1>3 DEF Next

(* The map of response ids and its eviction order hold the same ids, each    *)
(* once and no more than the bound, and the cache of stream scopes stays     *)
(* within its bound (store.go:243-259, intercept.go:332-338).                *)
THEOREM TypeCorrect == Spec => []TypeOK
  <1>1. TypeIntact /\ [Next]_vars => TypeIntact' BY StepIntact
  <1> QED BY InitIntact, IntactIsTypeOK, <1>1, PTL DEF Spec

-----------------------------------------------------------------------------
(* IdsUnique is an invariant. *)
Acts(t) == CachedChunk(t) \/ Chunk(t) \/ Response(t) \/ ScopeByIdentity(t) \/ ScopeByChain(t)
           \/ ScopeForResponse(t) \/ CacheScope(t) \/ NoResponseId(t)

LEMMA ActsKeepIds ==
    ASSUME TypeIntact, IdsUnique, NEW t \in Turns, Acts(t) PROVE IdsUnique'
  <1>1. UNCHANGED <<resp, known>>
    BY DEF Acts, CachedChunk, Chunk, Response, ScopeByIdentity, ScopeByChain,
           ScopeForResponse, CacheScope, NoResponseId, historyVars
  <1>2. \A u \in Turns \ {t} : pc'[u] = pc[u] /\ handler'[u] = handler[u]
    BY DEF Acts, CachedChunk, Chunk, Response, ScopeByIdentity, ScopeByChain,
           ScopeForResponse, CacheScope, NoResponseId, Goto, TypeIntact, TurnType
  <1>3. pc[t] # "idle" /\ (handler'[t] = "request" => handler[t] = "request")
    BY DEF Acts, CachedChunk, Chunk, Response, ScopeByIdentity, ScopeByChain,
           ScopeForResponse, CacheScope, NoResponseId, Goto, TypeIntact, TurnType
  <1>4. handler'[t] = "request" => pc'[t] \notin {"cache", "remember"}
    <2>1. CASE CachedChunk(t) \/ Chunk(t) \/ Response(t)
      BY <2>1 DEF CachedChunk, Chunk, Response, TypeIntact, TurnType
    <2>2. CASE ScopeByIdentity(t)
      BY <2>2 DEF ScopeByIdentity, AfterScope, Goto, TypeIntact, TurnType
    <2>3. CASE ScopeForResponse(t)
      BY <2>3 DEF ScopeForResponse, AfterScope, Goto, TypeIntact, TurnType
    <2>4. CASE ScopeByChain(t) \/ NoResponseId(t)
      BY <2>4 DEF ScopeByChain, NoResponseId, Goto, TypeIntact, TurnType
    <2>5. CASE CacheScope(t)
      BY <2>5 DEF CacheScope, Goto, IdsUnique
    <2> QED BY <2>1, <2>2, <2>3, <2>4, <2>5 DEF Acts
  <1> QED BY <1>1, <1>2, <1>3, <1>4 DEF IdsUnique

LEMMA StepIds == ASSUME TypeIntact, IdsUnique, [Next]_vars PROVE IdsUnique'
  <1>1. CASE UNCHANGED vars BY <1>1 DEF vars, turnVars, historyVars, IdsUnique
  <1>2. ASSUME NEW m \in Modes, Reconfigure(m) PROVE IdsUnique'
    BY <1>2 DEF Reconfigure, turnVars, IdsUnique
  <1>3. ASSUME NEW t \in Turns, TurnRuns(t) PROVE IdsUnique'
    <2>1. ASSUME NEW who \in Identities, NEW prev \in known \cup {None}, Begin(t, who, prev)
          PROVE  IdsUnique'
      <3>1. PICK r \in RespIds \ (known \cup {resp[u] : u \in Turns}) :
               resp' = [resp EXCEPT ![t] = r]
        BY <2>1 DEF Begin
      <3>2. resp'[t] = r /\ pc'[t] = "key" /\ known' = known
        BY <2>1, <3>1 DEF Begin, Goto, TypeIntact, TurnType
      <3>3. \A u \in Turns \ {t} : resp'[u] = resp[u] /\ pc'[u] = pc[u] /\ handler'[u] = handler[u]
        BY <2>1, <3>1 DEF Begin, Goto, TypeIntact, TurnType
      <3> QED BY <3>1, <3>2, <3>3 DEF IdsUnique
    <2>2. CASE End(t)
      <3>1. resp'[t] = None /\ pc'[t] = "idle" /\ known' = known
        BY <2>2 DEF End, Goto, TypeIntact, TurnType
      <3>2. \A u \in Turns \ {t} : resp'[u] = resp[u] /\ pc'[u] = pc[u] /\ handler'[u] = handler[u]
        BY <2>2 DEF End, Goto, TypeIntact, TurnType
      <3> QED BY <3>1, <3>2 DEF IdsUnique
    <2>3. CASE Remember(t)
      <3>1. /\ pc[t] = "remember" /\ pc'[t] = "between" /\ known' = known \cup {resp[t]}
            /\ UNCHANGED <<handler, resp>>
            /\ \A u \in Turns \ {t} : pc'[u] = pc[u]
        BY <2>3 DEF Remember, Goto, TypeIntact, TurnType
      <3>2. resp[t] # None /\ handler[t] # "request"
        BY <3>1 DEF TypeIntact, TurnType, IdsUnique
      <3> QED BY <3>1, <3>2 DEF IdsUnique
    <2>4. CASE Acts(t) BY <2>4, ActsKeepIds
    <2> QED BY <1>3, <2>1, <2>2, <2>3, <2>4 DEF TurnRuns, Acts
  <1> QED BY <1>1, <1>2, <1>3 DEF Next

-----------------------------------------------------------------------------
(* Settled is an invariant.  What the handlers get depends on the mode and,  *)
(* of the map, on the entry of the response that the identity continues.     *)
LEMMA AnswerStays ==
    ASSUME NEW i, mode' = mode,
           i.prev \in DOMAIN respScope' <=> i.prev \in DOMAIN respScope,
           i.prev \in DOMAIN respScope => respScope'[i.prev] = respScope[i.prev]
    PROVE  Answer(i)' = Answer(i)
  BY DEF Answer, FollowsChain, ChainFound

(* A turn t goes on, or begins: the map and the cache stay as they are.      *)
LEMMA SettledTurn ==
    ASSUME Settled, NEW t \in Turns,
           UNCHANGED <<mode, respScope, scopes, calm, known>>,
           \A u \in Turns \ {t} : pc'[u] = pc[u] /\ handler'[u] = handler[u] /\ ids'[u] = ids[u]
                                  /\ resp'[u] = resp[u] /\ got'[u] = got[u],
           calm => /\ \A r \in known : r \in DOMAIN made' /\ made'[r] = made[r]
                   /\ \A u \in Turns \ {t} : HasAsked(u) =>
                         resp[u] \in DOMAIN made' /\ made'[resp[u]] = made[resp[u]]
                   /\ pc'[t] # "idle" => ids'[t].prev \in known \cup {None}
                   /\ pc'[t] = "chain" => FollowsChain(mode, ids'[t])
                   /\ HasAsked(t)' => /\ resp'[t] \in DOMAIN made'
                                      /\ made'[resp'[t]] = Answer(ids'[t])
                                      /\ got'[t] = Answer(ids'[t])
    PROVE  Settled'
  <1> SUFFICES ASSUME calm PROVE MapSettled' /\ CacheSettled' /\ TurnsSettled'
    BY DEF Settled
  <1>0. MapSettled /\ CacheSettled /\ TurnsSettled BY DEF Settled
  <1>1. MapSettled' BY <1>0 DEF MapSettled
  <1>2. CacheSettled'
    BY <1>0 DEF CacheSettled, Answer, FollowsChain, ChainFound
  <1>3. ASSUME NEW u \in Turns
        PROVE  /\ pc'[u] # "idle" => ids'[u].prev \in known \cup {None}
               /\ pc'[u] = "chain" => FollowsChain(mode, ids'[u])
               /\ HasAsked(u)' => /\ resp'[u] \in DOMAIN made'
                                  /\ made'[resp'[u]] = Answer(ids'[u])
                                  /\ got'[u] = Answer(ids'[u])
    <2>1. CASE u = t BY <2>1
    <2>2. CASE u # t
      <3>1. HasAsked(u)' = HasAsked(u) BY <2>2 DEF HasAsked
      <3> QED BY <1>0, <2>2, <3>1 DEF TurnsSettled
    <2> QED BY <2>1, <2>2
  <1>4. \A u \in Turns : Answer(ids[u])' = Answer(ids'[u])
    BY DEF Answer, FollowsChain, ChainFound
  <1> QED BY <1>1, <1>2, <1>3, <1>4 DEF TurnsSettled

LEMMA InitSettled == Init => IdsUnique /\ Settled
  <1> SUFFICES ASSUME Init PROVE IdsUnique /\ Settled OBVIOUS
  <1>1. IdsUnique BY DEF Init, IdsUnique
  <1>2. MapSettled /\ CacheSettled /\ TurnsSettled
    BY DEF Init, MapSettled, CacheSettled, TurnsSettled, HasAsked
  <1> QED BY <1>1, <1>2 DEF Settled

(* A step that gives t no new answer. *)
LEMMA QuietSettled ==
    ASSUME TypeIntact, IdsUnique, Settled, NEW t \in Turns,
           Chunk(t) \/ Response(t) \/ ScopeByChain(t) \/ NoResponseId(t) \/ CachedChunk(t)
    PROVE  Settled'
  <1>1. UNCHANGED <<mode, respScope, scopes, calm, known, ids, resp, made>>
    BY DEF Chunk, Response, ScopeByChain, NoResponseId, CachedChunk, chainVars, historyVars
  <1>2. \A u \in Turns \ {t} : pc'[u] = pc[u] /\ handler'[u] = handler[u] /\ ids'[u] = ids[u]
                               /\ resp'[u] = resp[u] /\ got'[u] = got[u]
    BY DEF Chunk, Response, ScopeByChain, NoResponseId, CachedChunk, Goto, TypeIntact, TurnType
  <1>3. ASSUME calm
        PROVE  /\ pc[t] # "idle"
               /\ pc'[t] = "chain" => FollowsChain(mode, ids[t])
               /\ HasAsked(t)' => HasAsked(t) /\ got'[t] = Answer(ids[t])
    <2>1. MapSettled /\ CacheSettled /\ TurnsSettled BY <1>3 DEF Settled
    <2>2. CASE Chunk(t) \/ Response(t)
      <3>1. pc[t] = "between" /\ pc'[t] = "key" /\ got' = got
        BY <2>2 DEF Chunk, Response, Goto, TypeIntact, TurnType
      <3>2. HasAsked(t) BY <3>1 DEF HasAsked
      <3> QED BY <2>1, <3>1, <3>2 DEF TurnsSettled
    <2>3. CASE ScopeByChain(t)
      <3>1. pc[t] = "key" /\ pc'[t] = "chain" /\ got' = got /\ handler' = handler
            /\ FollowsChain(mode, ids[t])
        BY <2>3 DEF ScopeByChain, Goto, TypeIntact, TurnType
      <3>2. HasAsked(t)' => HasAsked(t) BY <3>1 DEF HasAsked
      <3> QED BY <2>1, <3>1, <3>2 DEF TurnsSettled
    <2>4. CASE NoResponseId(t)
      <3>1. pc[t] = "remember" /\ pc'[t] = "between" /\ got' = got /\ handler' = handler
        BY <2>4 DEF NoResponseId, Goto, TypeIntact, TurnType
      <3>2. HasAsked(t) BY <3>1 DEF HasAsked, IdsUnique
      <3> QED BY <2>1, <3>1, <3>2 DEF TurnsSettled
    <2>5. CASE CachedChunk(t)
      <3>1. pc[t] = "between" /\ pc'[t] = "remember" /\ ids[t] \in DOMAIN scopes
            /\ got'[t] = scopes[ids[t]]
        BY <2>5 DEF CachedChunk, CacheKey, Goto, TypeIntact, TurnType
      <3>2. HasAsked(t) /\ got'[t] = Answer(ids[t])
        BY <2>1, <3>1 DEF HasAsked, CacheSettled
      <3> QED BY <2>1, <3>1, <3>2 DEF TurnsSettled
    <2> QED BY <2>2, <2>3, <2>4, <2>5
  <1>4. calm => /\ pc'[t] # "idle" => ids'[t].prev \in known \cup {None}
                /\ pc'[t] = "chain" => FollowsChain(mode, ids'[t])
                /\ HasAsked(t)' => /\ resp'[t] \in DOMAIN made'
                                   /\ made'[resp'[t]] = Answer(ids'[t])
                                   /\ got'[t] = Answer(ids'[t])
    BY <1>1, <1>3 DEF Settled, TurnsSettled
  <1>5. calm => /\ \A r \in known : r \in DOMAIN made' /\ made'[r] = made[r]
                /\ \A u \in Turns \ {t} : HasAsked(u) =>
                      resp[u] \in DOMAIN made' /\ made'[resp[u]] = made[resp[u]]
    BY <1>1 DEF Settled, MapSettled, TurnsSettled
  <1> QED BY <1>1, <1>2, <1>4, <1>5, SettledTurn

(* The handler of t gets the answer; that of the request is put down.        *)
LEMMA ResolvedSettled ==
    ASSUME TypeIntact, IdsUnique, Settled, NEW t \in Turns, NEW from, NEW to, NEW scope,
           from # "idle", to # "chain",
           Goto(t, from, to), Resolved(t, scope),
           calm => [scope |-> scope, owner |-> ids[t].key] = Answer(ids[t]),
           UNCHANGED <<mode, respScope, scopes, calm, known, handler, ids, resp>>
    PROVE  Settled'
  <1> DEFINE owned == [scope |-> scope, owner |-> ids[t].key]
  <1>1. got' = [got EXCEPT ![t] = owned] /\ got'[t] = owned
    BY DEF Resolved, TypeIntact, TurnType
  <1>2. \A u \in Turns \ {t} : pc'[u] = pc[u] /\ handler'[u] = handler[u] /\ ids'[u] = ids[u]
                               /\ resp'[u] = resp[u] /\ got'[u] = got[u]
    BY <1>1 DEF Goto, TypeIntact, TurnType
  <1>3. pc[t] = from /\ pc'[t] = to BY DEF Goto, TypeIntact, TurnType
  <1>4. ASSUME calm
        PROVE  /\ \A r \in known : r \in DOMAIN made' /\ made'[r] = made[r]
               /\ \A u \in Turns \ {t} : HasAsked(u) =>
                     resp[u] \in DOMAIN made' /\ made'[resp[u]] = made[resp[u]]
               /\ resp[t] \in DOMAIN made' /\ made'[resp[t]] = owned
    <2>1. MapSettled /\ TurnsSettled BY <1>4 DEF Settled
    <2>2. CASE handler[t] = "request"
      <3>1. made' = Put(made, resp[t], owned) BY <1>1, <1>4, <2>2 DEF Resolved
      <3>2. resp[t] \notin known /\ resp[t] # None
        BY <1>3, <2>2 DEF IdsUnique, TypeIntact, TurnType
      <3>3. \A u \in Turns \ {t} : resp[u] # resp[t] BY <3>2 DEF IdsUnique
      <3> HIDE DEF owned
      <3> QED BY <2>1, <3>1, <3>2, <3>3 DEF Put, MapSettled, TurnsSettled
    <2>3. CASE handler[t] # "request"
      <3>1. made' = made BY <2>3 DEF Resolved
      <3>2. HasAsked(t) BY <1>3, <2>3 DEF HasAsked
      <3> QED BY <1>4, <2>1, <3>1, <3>2 DEF MapSettled, TurnsSettled
    <2> QED BY <2>2, <2>3
  <1>5. calm => ids[t].prev \in known \cup {None} BY <1>3 DEF Settled, TurnsSettled
  <1> HIDE DEF owned
  <1> QED BY <1>1, <1>2, <1>3, <1>4, <1>5, SettledTurn DEF owned

LEMMA ByIdentitySettled ==
    ASSUME TypeIntact, IdsUnique, Settled, NEW t \in Turns, ScopeByIdentity(t)
    PROVE  Settled'
  <1> DEFINE scope == ScopeKey(mode, ids[t])
  <1>1. Goto(t, "key", AfterScope(t, scope)) /\ Resolved(t, scope) BY DEF ScopeByIdentity
  <1>2. [scope |-> scope, owner |-> ids[t].key] = Answer(ids[t])
    BY DEF ScopeByIdentity, Answer
  <1>3. AfterScope(t, scope) # "chain" BY DEF AfterScope
  <1>4. UNCHANGED <<mode, respScope, scopes, calm, known, handler, ids, resp>>
    BY DEF ScopeByIdentity, chainVars
  <1> HIDE DEF scope
  <1> QED BY <1>1, <1>2, <1>3, <1>4, ResolvedSettled

LEMMA ByChainSettled ==
    ASSUME TypeIntact, IdsUnique, Settled, NEW t \in Turns, ScopeForResponse(t)
    PROVE  Settled'
  <1> DEFINE scope == IF ChainFound(ids[t]) THEN respScope[ids[t].prev].scope
                                            ELSE ScopeKey("session", ids[t])
  <1>1. Goto(t, "chain", AfterScope(t, scope)) /\ Resolved(t, scope) BY DEF ScopeForResponse
  <1>2. calm => FollowsChain(mode, ids[t])
    BY <1>1 DEF Goto, Settled, TurnsSettled
  <1>3. calm => [scope |-> scope, owner |-> ids[t].key] = Answer(ids[t])
    BY <1>2 DEF Answer
  <1>4. AfterScope(t, scope) # "chain" BY DEF AfterScope
  <1>5. UNCHANGED <<mode, respScope, scopes, calm, known, handler, ids, resp>>
    BY DEF ScopeForResponse, chainVars
  <1> HIDE DEF scope
  <1> QED BY <1>1, <1>3, <1>4, <1>5, ResolvedSettled

LEMMA BeginSettled ==
    ASSUME TypeIntact, Settled, NEW t \in Turns, NEW who \in Identities,
           NEW prev \in known \cup {None}, Begin(t, who, prev)
    PROVE  Settled'
  <1>1. /\ UNCHANGED <<mode, respScope, scopes, calm, known, made>>
        /\ pc'[t] = "key" /\ handler'[t] = "request" /\ ids'[t].prev = prev
    BY DEF Begin, chainVars, Goto, TypeIntact, TurnType
  <1>2. \A u \in Turns \ {t} : pc'[u] = pc[u] /\ handler'[u] = handler[u] /\ ids'[u] = ids[u]
                               /\ resp'[u] = resp[u] /\ got'[u] = got[u]
    BY DEF Begin, Goto, TypeIntact, TurnType
  <1>3. ~HasAsked(t)' BY <1>1 DEF HasAsked
  <1>4. calm => /\ \A r \in known : r \in DOMAIN made' /\ made'[r] = made[r]
                /\ \A u \in Turns \ {t} : HasAsked(u) =>
                      resp[u] \in DOMAIN made' /\ made'[resp[u]] = made[resp[u]]
    BY <1>1 DEF Settled, MapSettled, TurnsSettled
  <1> QED BY <1>1, <1>2, <1>3, <1>4, SettledTurn

LEMMA EndSettled ==
    ASSUME TypeIntact, Settled, NEW t \in Turns, End(t) PROVE Settled'
  <1>1. UNCHANGED <<mode, respScope, scopes, calm, known, made>> /\ pc'[t] = "idle"
    BY DEF End, chainVars, Goto, TypeIntact, TurnType
  <1>2. \A u \in Turns \ {t} : pc'[u] = pc[u] /\ handler'[u] = handler[u] /\ ids'[u] = ids[u]
                               /\ resp'[u] = resp[u] /\ got'[u] = got[u]
    BY DEF End, Goto, TypeIntact, TurnType
  <1>3. ~HasAsked(t)' BY <1>1 DEF HasAsked
  <1>4. calm => /\ \A r \in known : r \in DOMAIN made' /\ made'[r] = made[r]
                /\ \A u \in Turns \ {t} : HasAsked(u) =>
                      resp[u] \in DOMAIN made' /\ made'[resp[u]] = made[resp[u]]
    BY <1>1 DEF Settled, MapSettled, TurnsSettled
  <1> QED BY <1>1, <1>2, <1>3, <1>4, SettledTurn

(* A turn past its request may put what it has into the cache: ...           *)
LEMMA CacheScopeSettled ==
    ASSUME TypeIntact, IdsUnique, Settled, NEW t \in Turns, CacheScope(t) PROVE Settled'
  <1> SUFFICES ASSUME calm' PROVE MapSettled' /\ CacheSettled' /\ TurnsSettled'
    BY DEF Settled
  <1>1. UNCHANGED <<mode, respScope, calm, known, made, handler, ids, resp, got>>
    BY DEF CacheScope, chainVars, historyVars
  <1>2. MapSettled /\ CacheSettled /\ TurnsSettled BY <1>1 DEF Settled
  <1>3. /\ pc[t] = "cache" /\ pc'[t] = "remember"
        /\ \A u \in Turns \ {t} : pc'[u] = pc[u]
    BY DEF CacheScope, Goto, TypeIntact, TurnType
  <1>4. HasAsked(t) BY <1>3 DEF HasAsked, IdsUnique
  <1>5. ids[t].prev \in known \cup {None} /\ got[t] = Answer(ids[t])
    BY <1>2, <1>3, <1>4 DEF TurnsSettled
  <1>6. \A i \in DOMAIN scopes' :
            \/ i \in DOMAIN scopes /\ scopes'[i] = scopes[i]
            \/ i = ids[t] /\ scopes'[i] = got[t]
    BY DEF CacheScope, CacheKey, Put
  <1>7. \A i \in DOMAIN scopes' : i.prev \in known \cup {None} /\ scopes'[i] = Answer(i)
    BY <1>2, <1>5, <1>6 DEF CacheSettled
  <1>8. CacheSettled' BY <1>1, <1>7 DEF CacheSettled, Answer, FollowsChain, ChainFound
  <1>9. \A u \in Turns : HasAsked(u)' = HasAsked(u)
    BY <1>1, <1>3, <1>4 DEF HasAsked
  <1>10. \A u \in Turns : Answer(ids[u])' = Answer(ids[u])
    BY <1>1 DEF Answer, FollowsChain, ChainFound
  <1>11. TurnsSettled' BY <1>1, <1>2, <1>3, <1>9, <1>10 DEF TurnsSettled
  <1>12. MapSettled' BY <1>1, <1>2 DEF MapSettled
  <1> QED BY <1>8, <1>11, <1>12

(* ... or into the map, which gave it that answer or knows the id not yet.   *)
LEMMA RememberSettled ==
    ASSUME TypeIntact, IdsUnique, Settled, NEW t \in Turns, Remember(t) PROVE Settled'
  <1> SUFFICES ASSUME calm' PROVE MapSettled' /\ CacheSettled' /\ TurnsSettled'
    BY DEF Settled
  <1> DEFINE order == OrderWith(resp[t])
             grown == Put(respScope, resp[t], got[t])
  <1>1. calm /\ ~(Len(order) > MaxChain) BY DEF Remember, RememberResponseScope
  <1>2. MapSettled /\ CacheSettled /\ TurnsSettled BY <1>1 DEF Settled
  <1>3. respScope' = [x \in DOMAIN grown \ {} |-> grown[x]]
    BY <1>1 DEF Remember, RememberResponseScope
  <1>4. /\ DOMAIN respScope' = DOMAIN respScope \cup {resp[t]}
        /\ respScope'[resp[t]] = got[t]
        /\ \A r \in DOMAIN respScope \ {resp[t]} : respScope'[r] = respScope[r]
    BY <1>3 DEF Put
  <1>5. /\ UNCHANGED <<mode, made, scopes, handler, ids, resp, got>>
        /\ known' = known \cup {resp[t]}
        /\ pc[t] = "remember" /\ pc'[t] = "between"
        /\ \A u \in Turns \ {t} : pc'[u] = pc[u]
    BY DEF Remember, Goto, TypeIntact, TurnType
  <1>6. HasAsked(t) BY <1>5 DEF HasAsked, IdsUnique
  <1>7. /\ resp[t] \in DOMAIN made /\ made[resp[t]] = got[t]
        /\ resp[t] \in RespIds /\ resp[t] # None
    BY <1>2, <1>5, <1>6, NoneAssumption DEF TurnsSettled, TypeIntact, TurnType
  <1>8. \A r \in DOMAIN respScope : respScope'[r] = respScope[r]
    BY <1>2, <1>4, <1>7 DEF MapSettled
  <1>9. MapSettled' BY <1>2, <1>4, <1>5, <1>7, <1>8 DEF MapSettled
  (* The step changes no answer. *)
  <1>10. ASSUME NEW i, i.prev \in known \cup {None} PROVE Answer(i)' = Answer(i)
    <2>1. None \notin DOMAIN respScope BY <1>2, NoneAssumption DEF MapSettled, TypeIntact, TurnType
    <2>2. i.prev \in DOMAIN respScope' <=> i.prev \in DOMAIN respScope
      BY <1>2, <1>4, <1>7, <1>10, <2>1 DEF MapSettled
    <2> QED BY <1>5, <1>8, <2>2, AnswerStays
  <1> HIDE DEF order, grown
  <1>11. CacheSettled' BY <1>2, <1>5, <1>10 DEF CacheSettled
  <1>12. ASSUME NEW u \in Turns
         PROVE  /\ HasAsked(u)' = HasAsked(u)
                /\ HasAsked(u) => Answer(ids[u])' = Answer(ids[u])
    <2>1. HasAsked(u)' = HasAsked(u) BY <1>5, <1>6 DEF HasAsked
    <2>2. ASSUME HasAsked(u) PROVE Answer(ids[u])' = Answer(ids[u])
      <3>1. ids[u].prev \in known \cup {None} BY <1>2, <2>2 DEF TurnsSettled, HasAsked
      <3> QED BY <1>5, <1>10, <3>1
    <2> QED BY <2>1, <2>2
  <1>13. TurnsSettled'
    <2> SUFFICES ASSUME NEW u \in Turns
                 PROVE  /\ pc'[u] # "idle" => ids'[u].prev \in known' \cup {None}
                        /\ pc'[u] = "chain" => FollowsChain(mode', ids'[u])
                        /\ HasAsked(u)' => /\ resp'[u] \in DOMAIN made'
                                           /\ made'[resp'[u]] = Answer(ids[u])'
                                           /\ got'[u] = Answer(ids[u])'
      BY DEF TurnsSettled, FollowsChain
    <2>1. pc'[u] # "idle" => ids'[u].prev \in known' \cup {None}
      BY <1>2, <1>5 DEF TurnsSettled
    <2>2. pc'[u] = "chain" => FollowsChain(mode', ids'[u])
      BY <1>2, <1>5 DEF TurnsSettled
    <2>3. HasAsked(u)' => /\ resp'[u] \in DOMAIN made'
                          /\ made'[resp'[u]] = Answer(ids[u])'
                          /\ got'[u] = Answer(ids[u])'
      BY <1>2, <1>5, <1>12 DEF TurnsSettled
    <2> QED BY <2>1, <2>2, <2>3
  <1> QED BY <1>9, <1>11, <1>13

(* Nothing changes in a calm map that is cleared: it was empty. *)
LEMMA ReconfigureSettled ==
    ASSUME TypeIntact, Settled, NEW m \in Modes, Reconfigure(m) PROVE Settled'
  <1> SUFFICES ASSUME calm' PROVE MapSettled' /\ CacheSettled' /\ TurnsSettled'
    BY DEF Settled
  <1>1. calm /\ mode' = mode /\ respOrder = << >> /\ made' = made BY DEF Reconfigure
  <1>2. MapSettled /\ CacheSettled /\ TurnsSettled BY <1>1 DEF Settled
  <1>3. UNCHANGED <<scopes, pc, handler, ids, resp, got, known>> BY DEF Reconfigure, turnVars
  <1>4. DOMAIN respScope = {} BY <1>1 DEF TypeIntact, MapType, InOrder
  <1>5. DOMAIN respScope' = {} BY DEF Reconfigure
  <1>6. known = {} BY <1>2, <1>4 DEF MapSettled
  <1>7. MapSettled' BY <1>3, <1>5, <1>6 DEF MapSettled
  <1>8. CacheSettled'
    BY <1>1, <1>2, <1>3, <1>4, <1>5 DEF CacheSettled, Answer, FollowsChain, ChainFound
  <1>9. \A u \in Turns : HasAsked(u)' = HasAsked(u) /\ Answer(ids[u])' = Answer(ids[u])
    BY <1>1, <1>3, <1>4, <1>5 DEF HasAsked, Answer, FollowsChain, ChainFound
  <1>10. TurnsSettled' BY <1>1, <1>2, <1>3, <1>9 DEF TurnsSettled
  <1> QED BY <1>7, <1>8, <1>10

LEMMA StepSettled ==
    ASSUME TypeIntact, IdsUnique, Settled, [Next]_vars PROVE Settled'
  <1>1. CASE UNCHANGED vars
    <2>1. UNCHANGED <<mode, respScope, scopes, pc, handler, ids, resp, got, known, made, calm>>
      BY <1>1 DEF vars, chainVars, turnVars, historyVars
    <2> QED
      BY <2>1 DEF Settled, MapSettled, CacheSettled, TurnsSettled, HasAsked, Answer,
                  FollowsChain, ChainFound
  <1>2. ASSUME NEW m \in Modes, Reconfigure(m) PROVE Settled'
    BY <1>2, ReconfigureSettled
  <1>3. ASSUME NEW t \in Turns, TurnRuns(t) PROVE Settled'
    <2>1. ASSUME NEW who \in Identities, NEW prev \in known \cup {None}, Begin(t, who, prev)
          PROVE  Settled'
      BY <2>1, BeginSettled
    <2>2. CASE End(t) BY <2>2, EndSettled
    <2>3. CASE Chunk(t) \/ Response(t) \/ ScopeByChain(t) \/ NoResponseId(t) \/ CachedChunk(t)
      BY <2>3, QuietSettled
    <2>4. CASE ScopeByIdentity(t) BY <2>4, ByIdentitySettled
    <2>5. CASE ScopeForResponse(t) BY <2>5, ByChainSettled
    <2>6. CASE CacheScope(t) BY <2>6, CacheScopeSettled
    <2>7. CASE Remember(t) BY <2>7, RememberSettled
    <2> QED BY <1>3, <2>1, <2>2, <2>3, <2>4, <2>5, <2>6, <2>7 DEF TurnRuns
  <1> QED BY <1>1, <1>2, <1>3 DEF Next

LEMMA CalmIsInvariant == Spec => []CalmInv
  <1>1. Init => CalmInv BY InitIntact, InitSettled DEF CalmInv
  <1>2. CalmInv /\ [Next]_vars => CalmInv' BY StepIntact, StepIds, StepSettled DEF CalmInv
  <1> QED BY <1>1, <1>2, PTL DEF Spec

(* As long as memory_scope is the same and no response id has left the map,  *)
(* what a turn's chunks and its response store goes where its request looks  *)
(* for memories (intercept.go:317-341).  Turns of any number of clients may   *)
(* put entries into the map and the cache between the request and a chunk:    *)
(* Settled says that none of them changes the answer to an identity in use.   *)
THEOREM TurnsKeepTheirMemory == Spec => []OneMemoryPerTurn
  <1>1. CalmInv => OneMemoryPerTurn
    BY DEF CalmInv, Settled, TurnsSettled, OneMemoryPerTurn, Asked
  <1> QED BY CalmIsInvariant, <1>1, PTL

(* Under the same condition a client that names a response of its own goes   *)
(* on in the memory of the turn that produced it (store.go:192-203).         *)
THEOREM ChainsContinue == Spec => []ChainContinues
  <1>1. CalmInv => ChainContinues
    <2> SUFFICES ASSUME CalmInv, calm, NEW t \in Turns, Continues(t)
                 PROVE  Asked(t) = made[ids[t].prev].scope
      BY DEF ChainContinues
    <2>1. MapSettled /\ TurnsSettled BY DEF CalmInv, Settled
    <2>2. HasAsked(t) /\ FollowsChain(mode, ids[t]) /\ ids[t].key = made[ids[t].prev].owner
      BY DEF Continues
    <2>3. ids[t].prev \in known
      BY <2>1, <2>2 DEF TurnsSettled, HasAsked, FollowsChain
    <2>4. ids[t].prev \in DOMAIN respScope /\ made[ids[t].prev] = respScope[ids[t].prev]
      BY <2>1, <2>3 DEF MapSettled
    <2>5. ChainFound(ids[t]) BY <2>2, <2>4 DEF ChainFound
    <2>6. Answer(ids[t]).scope = respScope[ids[t].prev].scope BY <2>2, <2>5 DEF Answer
    <2> QED BY <2>1, <2>2, <2>4, <2>6 DEF TurnsSettled, Asked
  <1> QED BY CalmIsInvariant, <1>1, PTL
=============================================================================
