--------------------------- MODULE Lifecycle_proofs ---------------------------
(***************************************************************************)
(* Proofs about the plugin's life (plugin/main.go) for any number of host  *)
(* threads, registers and shutdowns.                                       *)
(***************************************************************************)
EXTENDS Lifecycle, FiniteSetTheorems, TLAPS

(* TypeOK with an integer in place of the natural number closeWg; that it    *)
(* is never negative follows from Counted.                                   *)
StoreIntact ==
    [cfg : 0..MaxConfigures, closed : BOOLEAN, openMu : Threads \cup Prewarms \cup {None}, closeWg : Int,
     table : BOOLEAN, doomed : BOOLEAN, closing : Nat, discarded : Nat]

HostType ==
    /\ serviceMu \in Threads \cup {None}
    /\ service \in 0..MaxConfigures
    /\ serviceUp \in BOOLEAN
    /\ serviceDown \in BOOLEAN
    /\ configures \in 0..MaxConfigures
    /\ created \in 0..MaxConfigures

StoresType == store \in [Stores -> StoreIntact]

PrewarmType ==
    prewarm \in [Prewarms -> [pc : {"none", "start", "lock", "locked", "opened"}, store : 0..MaxConfigures]]

ThreadType ==
    /\ pc \in [Threads -> ThreadLabels]
    /\ svc \in [Threads -> 0..MaxConfigures]
    /\ cfg \in [Threads -> 0..MaxConfigures]

TypeIntact == HostType /\ StoresType /\ PrewarmType /\ ThreadType

(* Where a call works on a Store; where it ends one. *)
Ending  == {"drain", "close", "join"}
OnStore == {"entry", "lookup", "miss", "wait", "recheck", "opened", "use"} \cup Ending

(* The Service is that of the last Store, and a call works on a Store that   *)
(* has been made.                                                            *)
Made ==
    /\ created <= configures
    /\ service \in {0, created}
    /\ \A t \in Threads : pc[t] \in OnStore => svc[t] \in 1..created

(* A prewarm belongs to a configure that has been, and to its Store. *)
Warming ==
    \A n \in Prewarms : prewarm[n].pc # "none" => n <= configures /\ prewarm[n].store \in 1..created

(* Whoever holds serviceMu is disposing the Service's Store. *)
Holding ==
    /\ \A t \in Threads : pc[t] \in Ending => serviceMu = t
    /\ serviceMu # None =>
          /\ service # 0
          /\ pc[serviceMu] \in Ending
          /\ svc[serviceMu] = service
          /\ store[service].closed
          /\ pc[serviceMu] \in {"close", "join"} => ~store[service].table
          /\ pc[serviceMu] = "join" => ~store[service].doomed

(* No other Store is open, or has anything that has to be closed. *)
Ended ==
    \A g \in Stores :
        g # service =>
            /\ ~store[g].table
            /\ ~store[g].doomed
            /\ store[g].closeWg = 0
            /\ g <= created => store[g].closed

(* closeWg counts the detached closes and the prewarms. *)
Running(g) == {n \in Prewarms : prewarm[n].store = g /\ prewarm[n].pc \in {"lock", "locked", "opened"}}

Counted == \A g \in Stores : store[g].closeWg = store[g].closing + Cardinality(Running(g))

Inv == TypeIntact /\ Made /\ Warming /\ Holding /\ Ended /\ Counted

-----------------------------------------------------------------------------
LEMMA RunningFinite ==
    ASSUME NEW g
    PROVE  IsFiniteSet(Running(g)) /\ Cardinality(Running(g)) \in Nat
<1>1. IsFiniteSet(Prewarms)
  BY BoundAssumption, FS_Interval DEF Prewarms
<1>2. Running(g) \in SUBSET Prewarms
  BY DEF Running
<1> QED BY <1>1, <1>2, FS_Subset, FS_CardinalityType

(* A Store with no detached close and no prewarm has closeWg at zero, and    *)
(* the other way round.                                                      *)
LEMMA CountedZero ==
    ASSUME TypeIntact, Counted, NEW g \in Stores
    PROVE  /\ store[g].closeWg >= store[g].closing
           /\ store[g].closeWg = 0 => store[g].closing = 0 /\ Running(g) = {}
<1>1. store[g].closing \in Nat /\ store[g].closeWg = store[g].closing + Cardinality(Running(g))
  BY DEF TypeIntact, StoresType, StoreIntact, Counted
<1>2. IsFiniteSet(Running(g)) /\ Cardinality(Running(g)) \in Nat
  BY RunningFinite
<1>3. Cardinality(Running(g)) = 0 => Running(g) = {}
  BY <1>2, FS_EmptySet
<1> QED BY <1>1, <1>2, <1>3

LEMMA InitInv == Init => Inv
<1> SUFFICES ASSUME Init PROVE Inv
  OBVIOUS
<1>0. 0 \in 0..MaxConfigures
  BY BoundAssumption
<1>1. TypeIntact
  <2>1. HostType /\ PrewarmType /\ ThreadType
    BY <1>0 DEF Init, HostType, PrewarmType, ThreadType, ThreadLabels
  <2>2. NewStore(0) \in StoreIntact
    BY <1>0 DEF NewStore, StoreIntact
  <2> QED BY <2>1, <2>2 DEF Init, StoresType, TypeIntact
<1>2. Made /\ Warming /\ Holding /\ Ended
  BY BoundAssumption DEF Init, Made, Warming, Holding, Ended, NewStore, OnStore, Ending, Stores, Prewarms
<1>3. \A g : Running(g) = {}
  BY DEF Init, Running
<1>4. Counted
  <2> SUFFICES ASSUME NEW g \in Stores
               PROVE  store[g].closeWg = store[g].closing + Cardinality(Running(g))
    BY DEF Counted
  <2>1. store[g].closeWg = 0 /\ store[g].closing = 0
    BY DEF Init, NewStore
  <2> QED BY <2>1, <1>3, FS_EmptySet
<1> QED BY <1>1, <1>2, <1>4 DEF Inv

-----------------------------------------------------------------------------
(* Frames: what a step has to leave alone.                                   *)
SameLife(g) ==
    /\ store'[g].closed = store[g].closed
    /\ store'[g].table = store[g].table
    /\ store'[g].doomed = store[g].doomed
    /\ store'[g].closing = store[g].closing
    /\ store'[g].closeWg = store[g].closeWg

Counting == {"lock", "locked", "opened"}

SameWarmth(n) ==
    /\ prewarm'[n].store = prewarm[n].store
    /\ prewarm'[n].pc # "none" => prewarm[n].pc # "none"
    /\ prewarm'[n].pc \in Counting <=> prewarm[n].pc \in Counting

LEMMA SameWarmthCounts ==
    ASSUME \A n \in Prewarms : SameWarmth(n), NEW g
    PROVE  Running(g)' = Running(g)
BY DEF SameWarmth, Counting, Running

(* Taking and leaving openMu changes nothing else of a Store. *)
LEMMA OpenMuChanges ==
    ASSUME StoresType, NEW g \in Stores, NEW x \in Threads \cup Prewarms \cup {None},
           store' = [store EXCEPT ![g].openMu = x]
    PROVE  StoresType' /\ \A h \in Stores : SameLife(h)
<1>1. [store[g] EXCEPT !.openMu = x] \in StoreIntact
  BY DEF StoresType, StoreIntact
<1>2. StoresType'
  BY <1>1 DEF StoresType
<1>3. ASSUME NEW h \in Stores PROVE SameLife(h)
  <2>1. CASE h = g
    BY <2>1 DEF StoresType, StoreIntact, SameLife
  <2>2. CASE h # g
    BY <2>2 DEF StoresType, SameLife
  <2> QED BY <2>1, <2>2
<1> QED BY <1>2, <1>3

LEMMA DiscardedChanges ==
    ASSUME StoresType, NEW g \in Stores, NEW d \in Nat, NEW x \in Threads \cup Prewarms \cup {None},
           store' = [store EXCEPT ![g].discarded = d, ![g].openMu = x]
    PROVE  StoresType' /\ \A h \in Stores : SameLife(h)
<1>1. store[g] \in StoreIntact
  BY DEF StoresType
<1>2. store' = [store EXCEPT ![g] = [store[g] EXCEPT !.discarded = d, !.openMu = x]]
  BY DEF StoresType
<1>3. [store[g] EXCEPT !.discarded = d, !.openMu = x] \in StoreIntact
  BY <1>1 DEF StoreIntact
<1>4. StoresType'
  BY <1>2, <1>3 DEF StoresType
<1>5. ASSUME NEW h \in Stores PROVE SameLife(h)
  <2>1. CASE h = g
    BY <1>1, <1>2, <2>1 DEF StoresType, StoreIntact, SameLife
  <2>2. CASE h # g
    BY <1>2, <2>2 DEF StoresType, SameLife
  <2> QED BY <2>1, <2>2
<1> QED BY <1>4, <1>5

(* A step that begins and ends no Store. *)
LEMMA QuietPreserves ==
    ASSUME Inv, TypeIntact', UNCHANGED hostVars,
           \A g \in Stores : SameLife(g),
           \A n \in Prewarms : SameWarmth(n),
           \A u \in Threads : pc[u] \in Ending \/ pc'[u] \in Ending => pc'[u] = pc[u] /\ svc'[u] = svc[u],
           \A u \in Threads : pc'[u] \in OnStore => svc'[u] \in 1..created
    PROVE  Inv'
<1>1. Made'
  BY DEF Inv, Made, hostVars
<1>2. Warming'
  BY DEF Inv, Warming, SameWarmth, hostVars
<1>3. Holding'
  <2>1. \A u \in Threads : pc'[u] \in Ending => serviceMu' = u
    BY DEF Inv, Holding, hostVars
  <2>2. ASSUME serviceMu' # None
        PROVE  /\ serviceMu \in Threads /\ service \in Stores /\ pc[serviceMu] \in Ending
               /\ pc'[serviceMu] = pc[serviceMu] /\ svc'[serviceMu] = svc[serviceMu]
    BY <2>2, BoundAssumption DEF Inv, TypeIntact, HostType, Holding, Stores, hostVars
  <2> QED BY <2>1, <2>2 DEF Inv, Holding, SameLife, hostVars
<1>4. Ended'
  BY DEF Inv, Ended, SameLife, hostVars
<1>5. Counted'
  <2>1. \A g \in Stores : Running(g)' = Running(g)
    BY SameWarmthCounts
  <2> QED BY <2>1 DEF Inv, Counted, SameLife
<1> QED BY <1>1, <1>2, <1>3, <1>4, <1>5 DEF Inv

(* A thread moves on; the settings it has read may be others, the Store that *)
(* it works on is one that has been made.                                    *)
LEMMA MovePreserves ==
    ASSUME Inv, NEW t \in Threads, NEW label \in ThreadLabels \ Ending,
           pc[t] \notin Ending, Goto(t, label), UNCHANGED <<hostVars, prewarm>>,
           StoresType', \A g \in Stores : SameLife(g),
           NEW s \in 0..MaxConfigures, svc' = [svc EXCEPT ![t] = s],
           label \in OnStore => s \in 1..created,
           NEW c \in 0..MaxConfigures, cfg' = [cfg EXCEPT ![t] = c]
    PROVE  Inv'
<1>1. /\ pc' = [pc EXCEPT ![t] = label]
      /\ pc \in [Threads -> ThreadLabels] /\ svc \in [Threads -> 0..MaxConfigures]
  BY DEF Goto, Inv, TypeIntact, ThreadType
<1>2. TypeIntact'
  <2>1. HostType' /\ PrewarmType'
    BY DEF Inv, TypeIntact, HostType, PrewarmType, hostVars
  <2>2. ThreadType'
    BY <1>1 DEF Inv, TypeIntact, ThreadType
  <2> QED BY <2>1, <2>2 DEF TypeIntact
<1>3. \A n \in Prewarms : SameWarmth(n)
  BY DEF SameWarmth
<1>4. \A u \in Threads : pc[u] \in Ending \/ pc'[u] \in Ending => pc'[u] = pc[u] /\ svc'[u] = svc[u]
  BY <1>1
<1>5. \A u \in Threads : pc'[u] \in OnStore => svc'[u] \in 1..created
  BY <1>1 DEF Inv, Made
<1> QED BY <1>2, <1>3, <1>4, <1>5, QuietPreserves

(* A call returns. *)
LEMMA ReturnPreserves ==
    ASSUME Inv, NEW t \in Threads, pc[t] \notin Ending, Return(t), UNCHANGED <<hostVars, prewarm>>,
           StoresType', \A g \in Stores : SameLife(g)
    PROVE  Inv'
<1>1. "idle" \in ThreadLabels \ Ending /\ "idle" \notin OnStore /\ 0 \in 0..MaxConfigures
  BY BoundAssumption DEF ThreadLabels, Ending, OnStore
<1> QED BY <1>1, MovePreserves DEF Return

(* A call goes on with its Store. *)
LEMMA GotoPreserves ==
    ASSUME Inv, NEW t \in Threads, NEW label \in OnStore \ Ending, pc[t] \in OnStore \ Ending,
           Goto(t, label), UNCHANGED <<hostVars, prewarm, svc>>,
           StoresType', \A g \in Stores : SameLife(g),
           NEW c \in 0..MaxConfigures, cfg' = [cfg EXCEPT ![t] = c]
    PROVE  Inv'
<1>1. label \in ThreadLabels
  BY DEF OnStore, Ending, ThreadLabels
<1>2. svc[t] \in 0..MaxConfigures /\ svc' = [svc EXCEPT ![t] = svc[t]]
  BY DEF Inv, TypeIntact, ThreadType
<1>3. svc[t] \in 1..created
  BY DEF Inv, Made
<1> QED BY <1>1, <1>2, <1>3, MovePreserves

(* What a call on a Store may rely on. *)
LEMMA CallsStore ==
    ASSUME Inv, NEW t \in Threads, pc[t] \in OnStore
    PROVE  svc[t] \in Stores /\ svc[t] \in 1..created
BY BoundAssumption DEF Inv, Made, TypeIntact, HostType, Stores

LEMMA StoresUnchanged ==
    ASSUME Inv, UNCHANGED store
    PROVE  StoresType' /\ \A g \in Stores : SameLife(g)
BY DEF Inv, TypeIntact, StoresType, SameLife

LEMMA CfgUnchanged ==
    ASSUME Inv, NEW t \in Threads, UNCHANGED cfg
    PROVE  cfg[t] \in 0..MaxConfigures /\ cfg' = [cfg EXCEPT ![t] = cfg[t]]
BY DEF Inv, TypeIntact, ThreadType

-----------------------------------------------------------------------------
LEMMA CallPreserves ==
    ASSUME Inv, NEW t \in Threads, NEW method \in {"configure", "intercept", "shutdown"}, Call(t, method)
    PROVE  Inv'
<1>1. pc[t] \notin Ending /\ method \in ThreadLabels \ Ending /\ method \notin OnStore
  BY DEF Call, ThreadLabels, Ending, OnStore
<1>2. Goto(t, method) /\ UNCHANGED <<hostVars, prewarm, store, svc, cfg>>
  BY DEF Call, Goto
<1>3. svc[t] \in 0..MaxConfigures /\ svc' = [svc EXCEPT ![t] = svc[t]]
  BY <1>2 DEF Inv, TypeIntact, ThreadType
<1> QED BY <1>1, <1>2, <1>3, StoresUnchanged, CfgUnchanged, MovePreserves

LEMMA PassThroughPreserves ==
    ASSUME Inv, NEW t \in Threads, PassThrough(t)
    PROVE  Inv'
<1>1. pc[t] \notin Ending /\ Return(t) /\ UNCHANGED <<hostVars, store, prewarm>>
  BY DEF PassThrough, Ending
<1> QED BY <1>1, StoresUnchanged, ReturnPreserves

LEMMA AdmitPreserves ==
    ASSUME Inv, NEW t \in Threads, Admit(t)
    PROVE  Inv'
<1>1. pc[t] \notin Ending /\ "entry" \in ThreadLabels \ Ending
  BY DEF Admit, Ending, ThreadLabels
<1>2. Goto(t, "entry") /\ svc' = [svc EXCEPT ![t] = service] /\ UNCHANGED <<hostVars, store, prewarm, cfg>>
  BY DEF Admit
<1>3. service \in 0..MaxConfigures /\ service \in 1..created
  BY DEF Admit, Serving, Inv, TypeIntact, HostType, Made
<1> QED BY <1>1, <1>2, <1>3, StoresUnchanged, CfgUnchanged, MovePreserves

LEMMA RefuseClosedPreserves ==
    ASSUME Inv, NEW t \in Threads, RefuseClosed(t)
    PROVE  Inv'
<1>1. pc[t] \notin Ending /\ Return(t) /\ UNCHANGED <<hostVars, store, prewarm>>
  BY DEF RefuseClosed, Ending
<1> QED BY <1>1, StoresUnchanged, ReturnPreserves

LEMMA EnterForScopePreserves ==
    ASSUME Inv, NEW t \in Threads, EnterForScope(t)
    PROVE  Inv'
<1>1. pc[t] \in OnStore \ Ending /\ "lookup" \in OnStore \ Ending
  BY DEF EnterForScope, OnStore, Ending
<1>2. Goto(t, "lookup") /\ UNCHANGED <<hostVars, store, prewarm, svc, cfg>>
  BY DEF EnterForScope
<1> QED BY <1>1, <1>2, StoresUnchanged, CfgUnchanged, GotoPreserves

LEMMA LookupPreserves ==
    ASSUME Inv, NEW t \in Threads, Lookup(t)
    PROVE  Inv'
<1> DEFINE label == IF store[svc[t]].table THEN "use" ELSE "miss"
<1>1. pc[t] \in OnStore \ Ending /\ label \in OnStore \ Ending
  BY DEF Lookup, OnStore, Ending
<1>2. /\ Goto(t, label) /\ UNCHANGED <<hostVars, store, prewarm, svc>>
      /\ cfg' = [cfg EXCEPT ![t] = store[svc[t]].cfg]
  BY DEF Lookup
<1>3. store[svc[t]].cfg \in 0..MaxConfigures
  BY <1>1, CallsStore DEF Inv, TypeIntact, StoresType, StoreIntact
<1> HIDE DEF label
<1> QED BY <1>1, <1>2, <1>3, StoresUnchanged, GotoPreserves

LEMMA LockOpenMuPreserves ==
    ASSUME Inv, NEW t \in Threads, LockOpenMu(t)
    PROVE  Inv'
<1>1. pc[t] \in OnStore \ Ending /\ "wait" \in OnStore \ Ending
  BY DEF LockOpenMu, OnStore, Ending
<1>2. Goto(t, "wait") /\ UNCHANGED <<hostVars, prewarm, svc, cfg>> /\ store' = [store EXCEPT ![svc[t]].openMu = t]
  BY DEF LockOpenMu
<1>3. StoresType' /\ \A g \in Stores : SameLife(g)
  BY <1>1, <1>2, CallsStore, OpenMuChanges DEF Inv, TypeIntact
<1> QED BY <1>1, <1>2, <1>3, CfgUnchanged, GotoPreserves

LEMMA WaitPendingClosePreserves ==
    ASSUME Inv, NEW t \in Threads, WaitPendingClose(t)
    PROVE  Inv'
<1>1. pc[t] \in OnStore \ Ending /\ "recheck" \in OnStore \ Ending
  BY DEF WaitPendingClose, OnStore, Ending
<1>2. Goto(t, "recheck") /\ UNCHANGED <<hostVars, store, prewarm, svc, cfg>>
  BY DEF WaitPendingClose
<1> QED BY <1>1, <1>2, StoresUnchanged, CfgUnchanged, GotoPreserves

LEMMA RecheckHitPreserves ==
    ASSUME Inv, NEW t \in Threads, RecheckHit(t)
    PROVE  Inv'
<1>1. pc[t] \in OnStore \ Ending /\ "use" \in OnStore \ Ending
  BY DEF RecheckHit, OnStore, Ending
<1>2. Goto(t, "use") /\ UNCHANGED <<hostVars, prewarm, svc, cfg>> /\ store' = [store EXCEPT ![svc[t]].openMu = None]
  BY DEF RecheckHit
<1>3. StoresType' /\ \A g \in Stores : SameLife(g)
  BY <1>1, <1>2, CallsStore, OpenMuChanges DEF Inv, TypeIntact
<1> QED BY <1>1, <1>2, <1>3, CfgUnchanged, GotoPreserves

LEMMA OpenEnginePreserves ==
    ASSUME Inv, NEW t \in Threads, OpenEngine(t)
    PROVE  Inv'
<1>1. pc[t] \in OnStore \ Ending /\ "opened" \in OnStore \ Ending
  BY DEF OpenEngine, OnStore, Ending
<1>2. Goto(t, "opened") /\ UNCHANGED <<hostVars, store, prewarm, svc, cfg>>
  BY DEF OpenEngine
<1> QED BY <1>1, <1>2, StoresUnchanged, CfgUnchanged, GotoPreserves

LEMMA OpenFailsPreserves ==
    ASSUME Inv, NEW t \in Threads, OpenFails(t)
    PROVE  Inv'
<1>1. pc[t] \in OnStore /\ pc[t] \notin Ending
  BY DEF OpenFails, OnStore, Ending
<1>2. Return(t) /\ UNCHANGED <<hostVars, prewarm>> /\ store' = [store EXCEPT ![svc[t]].openMu = None]
  BY DEF OpenFails
<1>3. StoresType' /\ \A g \in Stores : SameLife(g)
  BY <1>1, <1>2, CallsStore, OpenMuChanges DEF Inv, TypeIntact
<1> QED BY <1>1, <1>2, <1>3, ReturnPreserves

LEMMA DiscardPreserves ==
    ASSUME Inv, NEW t \in Threads, Discard(t)
    PROVE  Inv'
<1> DEFINE d == store[svc[t]].discarded + 1
<1>1. pc[t] \in OnStore /\ pc[t] \notin Ending
  BY DEF Discard, OnStore, Ending
<1>2. svc[t] \in Stores
  BY <1>1, CallsStore
<1>3. store[svc[t]].discarded \in Nat
  BY <1>2 DEF Inv, TypeIntact, StoresType, StoreIntact
<1>4. Return(t) /\ UNCHANGED <<hostVars, prewarm>> /\ store' = [store EXCEPT ![svc[t]].discarded = d, ![svc[t]].openMu = None]
  BY DEF Discard
<1>5. d \in Nat
  BY <1>3
<1> HIDE DEF d
<1>6. StoresType' /\ \A g \in Stores : SameLife(g)
  BY <1>2, <1>4, <1>5, DiscardedChanges DEF Inv, TypeIntact
<1> QED BY <1>1, <1>4, <1>6, ReturnPreserves

LEMMA CloseDiscardedPreserves ==
    ASSUME Inv, NEW g \in Stores, CloseDiscarded(g)
    PROVE  Inv'
<1> DEFINE d == store[g].discarded - 1
<1>1. store[g] \in StoreIntact
  BY DEF Inv, TypeIntact, StoresType
<1>2. d \in Nat /\ store[g].openMu \in Threads \cup Prewarms \cup {None}
  BY <1>1 DEF CloseDiscarded, StoreIntact
<1>3. UNCHANGED <<hostVars, prewarm, threadVars>> /\ store' = [store EXCEPT ![g].discarded = d]
  BY DEF CloseDiscarded
<1> HIDE DEF d
<1>4. store' = [store EXCEPT ![g].discarded = d, ![g].openMu = store[g].openMu]
  BY <1>1, <1>3 DEF Inv, TypeIntact, StoresType, StoreIntact
<1>5. StoresType' /\ \A h \in Stores : SameLife(h)
  BY <1>2, <1>4, DiscardedChanges DEF Inv, TypeIntact
<1>6. TypeIntact'
  BY <1>3, <1>5 DEF Inv, TypeIntact, HostType, PrewarmType, ThreadType, hostVars, threadVars
<1>7. \A n \in Prewarms : SameWarmth(n)
  BY <1>3 DEF SameWarmth
<1>8. \A u \in Threads : pc'[u] \in OnStore => svc'[u] \in 1..created
  BY <1>3 DEF Inv, Made, threadVars
<1> QED BY <1>3, <1>5, <1>6, <1>7, <1>8, QuietPreserves DEF threadVars

LEMMA UsePreserves ==
    ASSUME Inv, NEW t \in Threads, Use(t)
    PROVE  Inv'
<1>1. pc[t] \notin Ending /\ Return(t) /\ UNCHANGED <<hostVars, store, prewarm>>
  BY DEF Use, Ending
<1> QED BY <1>1, StoresUnchanged, ReturnPreserves

-----------------------------------------------------------------------------
(* Steps that change the life of a Store: it is the Service's.               *)
LEMMA StoreChanges ==
    ASSUME StoresType, NEW g \in Stores, NEW r \in StoreIntact, store' = [store EXCEPT ![g] = r]
    PROVE  /\ StoresType'
           /\ store'[g] = r
           /\ \A h \in Stores : h # g => store'[h] = store[h] /\ SameLife(h)
BY DEF StoresType, SameLife

LEMMA ServiceChanges ==
    ASSUME Inv, TypeIntact', UNCHANGED <<service, created>>, configures <= configures',
           \A g \in Stores : g # service => SameLife(g),
           \A u \in Threads : pc'[u] \in OnStore => svc'[u] \in 1..created,
           Warming', Holding', Counted'
    PROVE  Inv'
<1>1. configures \in Nat /\ configures' \in Nat /\ created \in Nat
  BY DEF Inv, TypeIntact, HostType
<1>2. Made'
  BY <1>1 DEF Inv, Made
<1>3. Ended'
  BY DEF Inv, Ended, SameLife
<1> QED BY <1>2, <1>3 DEF Inv

LEMMA WarmingKept ==
    ASSUME Inv, UNCHANGED <<created, configures>>, \A n \in Prewarms : SameWarmth(n)
    PROVE  Warming'
BY DEF Inv, Warming, SameWarmth

LEMMA CountedKept ==
    ASSUME Counted, \A n \in Prewarms : SameWarmth(n),
           \A g \in Stores : store'[g].closeWg = store[g].closeWg /\ store'[g].closing = store[g].closing
    PROVE  Counted'
<1>1. \A g \in Stores : Running(g)' = Running(g)
  BY SameWarmthCounts
<1> QED BY <1>1 DEF Counted

LEMMA HoldingKept ==
    ASSUME Inv, UNCHANGED <<serviceMu, service, pc, svc>>,
           \A g \in Stores : /\ store'[g].closed = store[g].closed
                             /\ store'[g].table = store[g].table
                             /\ store'[g].doomed = store[g].doomed
    PROVE  Holding'
<1>1. service # 0 => service \in Stores
  BY BoundAssumption DEF Inv, TypeIntact, HostType, Stores
<1> QED BY <1>1 DEF Inv, Holding

(* Only one call disposes a Store, and it is that of the Service. *)
LEMMA Disposer ==
    ASSUME Inv, NEW t \in Threads, pc[t] \in Ending
    PROVE  /\ serviceMu = t /\ t # None
           /\ service \in Stores /\ service \in 1..created /\ svc[t] = service
           /\ store[service].closed
           /\ \A u \in Threads : pc[u] \in Ending => u = t
<1>1. t # None
  BY NoneAssumption
<1>2. serviceMu = t /\ service # 0 /\ svc[t] = service /\ store[service].closed
  BY <1>1 DEF Inv, Holding
<1>3. service \in Stores /\ service \in 1..created
  BY <1>2, BoundAssumption DEF Inv, TypeIntact, HostType, Made, Stores
<1>4. \A u \in Threads : pc[u] \in Ending => u = t
  BY <1>2 DEF Inv, Holding
<1> QED BY <1>1, <1>2, <1>3, <1>4

(* Its next step, while the locks and the other calls stay as they are. *)
LEMMA DisposerProceeds ==
    ASSUME Inv, NEW t \in Threads, pc[t] \in Ending, NEW label \in Ending, Goto(t, label),
           UNCHANGED <<hostVars, prewarm, svc, cfg>>,
           NEW r \in StoreIntact, store' = [store EXCEPT ![svc[t]] = r],
           r.closed, r.closeWg = store[svc[t]].closeWg, r.closing = store[svc[t]].closing,
           label \in {"close", "join"} => ~r.table,
           label = "join" => ~r.doomed
    PROVE  Inv'
<1>1. /\ serviceMu = t /\ t # None /\ service \in Stores /\ service \in 1..created /\ svc[t] = service
      /\ \A u \in Threads : pc[u] \in Ending => u = t
  BY Disposer
<1>2. store' = [store EXCEPT ![service] = r]
  BY <1>1
<1>3. StoresType' /\ store'[service] = r /\ \A h \in Stores : h # service => store'[h] = store[h] /\ SameLife(h)
  BY <1>1, <1>2, StoreChanges DEF Inv, TypeIntact
<1>4. pc' = [pc EXCEPT ![t] = label] /\ pc \in [Threads -> ThreadLabels] /\ label \in ThreadLabels
  BY DEF Goto, Inv, TypeIntact, ThreadType, Ending, ThreadLabels
<1>5. TypeIntact'
  <2>1. HostType' /\ PrewarmType'
    BY DEF Inv, TypeIntact, HostType, PrewarmType, hostVars
  <2>2. ThreadType'
    BY <1>4 DEF Inv, TypeIntact, ThreadType
  <2> QED BY <1>3, <2>1, <2>2 DEF TypeIntact
<1>6. \A u \in Threads : pc'[u] \in OnStore => svc'[u] \in 1..created
  BY <1>1, <1>4 DEF Inv, Made
<1>7. \A n \in Prewarms : SameWarmth(n)
  BY DEF SameWarmth
<1>8. Holding'
  <2>1. serviceMu' = t /\ service' = service /\ svc'[t] = service /\ pc'[t] = label /\ service # 0
    BY <1>1, <1>4, BoundAssumption DEF hostVars, Stores
  <2>2. \A u \in Threads : pc'[u] \in Ending => u = t
    BY <1>1, <1>4
  <2> QED BY <1>3, <2>1, <2>2 DEF Holding
<1>9. Counted'
  <2>1. \A g \in Stores : store'[g].closeWg = store[g].closeWg /\ store'[g].closing = store[g].closing
    BY <1>1, <1>3
  <2> QED BY <1>7, <2>1, CountedKept DEF Inv
<1>10. Warming' /\ UNCHANGED <<service, created, configures>> /\ configures <= configures
  BY <1>7, WarmingKept DEF hostVars, Inv, TypeIntact, HostType
<1> QED BY <1>3, <1>5, <1>6, <1>8, <1>9, <1>10, ServiceChanges

LEMMA DrainPreserves ==
    ASSUME Inv, NEW t \in Threads, Drain(t)
    PROVE  Inv'
<1> DEFINE s == store[svc[t]]
           r == [s EXCEPT !.doomed = s.table, !.table = FALSE]
<1>1. pc[t] \in Ending /\ "close" \in Ending
  BY DEF Drain, Ending
<1>2. svc[t] \in Stores /\ s.closed
  BY <1>1, Disposer
<1>3. s \in StoreIntact
  BY <1>2 DEF Inv, TypeIntact, StoresType
<1>4. store' = [store EXCEPT ![svc[t]] = r]
  BY <1>2 DEF Drain, Inv, TypeIntact, StoresType
<1>5. Goto(t, "close") /\ UNCHANGED <<hostVars, prewarm, svc, cfg>>
  BY DEF Drain
<1>6. r \in StoreIntact /\ r.closed = s.closed /\ r.closeWg = s.closeWg /\ r.closing = s.closing /\ ~r.table
  BY <1>3 DEF StoreIntact
<1> HIDE DEF r
<1> QED BY <1>1, <1>2, <1>4, <1>5, <1>6, DisposerProceeds

LEMMA CloseDoomedPreserves ==
    ASSUME Inv, NEW t \in Threads, CloseDoomed(t)
    PROVE  Inv'
<1> DEFINE s == store[svc[t]]
           r == [s EXCEPT !.doomed = FALSE]
<1>1. pc[t] \in Ending /\ "join" \in Ending
  BY DEF CloseDoomed, Ending
<1>2. svc[t] \in Stores /\ s.closed /\ ~s.table
  BY <1>1, Disposer DEF CloseDoomed, Inv, Holding
<1>3. s \in StoreIntact
  BY <1>2 DEF Inv, TypeIntact, StoresType
<1>4. store' = [store EXCEPT ![svc[t]] = r]
  BY <1>2 DEF CloseDoomed, Inv, TypeIntact, StoresType
<1>5. Goto(t, "join") /\ UNCHANGED <<hostVars, prewarm, svc, cfg>>
  BY DEF CloseDoomed
<1>6. /\ r \in StoreIntact /\ r.closed = s.closed /\ r.closeWg = s.closeWg /\ r.closing = s.closing
      /\ r.table = s.table /\ ~r.doomed
  BY <1>3 DEF StoreIntact
<1> HIDE DEF r
<1> QED BY <1>1, <1>2, <1>4, <1>5, <1>6, DisposerProceeds

LEMMA ShutdownBeginPreserves ==
    ASSUME Inv, NEW t \in Threads, ShutdownBegin(t)
    PROVE  Inv'
<1> DEFINE s == store[service]
           r == [s EXCEPT !.closed = TRUE]
<1>1. /\ serviceMu = None /\ serviceMu' = t /\ svc' = [svc EXCEPT ![t] = service] /\ pc' = [pc EXCEPT ![t] = "drain"]
      /\ store' = [store EXCEPT ![service] = r]
      /\ UNCHANGED <<service, serviceUp, serviceDown, configures, created, prewarm, cfg>>
  BY DEF ShutdownBegin, Goto, Inv, TypeIntact, StoresType
<1>2. t # None /\ \A u \in Threads : pc[u] \notin Ending
  BY <1>1, NoneAssumption DEF Inv, Holding
<1>3. service \in Stores /\ service # 0 /\ service \in 1..created
  BY BoundAssumption DEF ShutdownBegin, Inv, TypeIntact, HostType, Made, Stores
<1>4. s \in StoreIntact
  BY <1>3 DEF Inv, TypeIntact, StoresType
<1>5. /\ r \in StoreIntact /\ r.closed /\ r.closeWg = s.closeWg /\ r.closing = s.closing
  BY <1>4 DEF StoreIntact
<1> HIDE DEF r
<1>6. StoresType' /\ store'[service] = r /\ \A h \in Stores : h # service => store'[h] = store[h] /\ SameLife(h)
  BY <1>1, <1>3, <1>5, StoreChanges DEF Inv, TypeIntact
<1>7. TypeIntact'
  <2>1. HostType' /\ PrewarmType'
    BY <1>1 DEF Inv, TypeIntact, HostType, PrewarmType
  <2>2. "drain" \in ThreadLabels /\ service \in 0..MaxConfigures
    BY DEF ThreadLabels, Inv, TypeIntact, HostType
  <2>3. ThreadType'
    BY <1>1, <2>2 DEF Inv, TypeIntact, ThreadType
  <2> QED BY <1>6, <2>1, <2>3 DEF TypeIntact
<1>8. pc \in [Threads -> ThreadLabels] /\ svc \in [Threads -> 0..MaxConfigures]
  BY DEF Inv, TypeIntact, ThreadType
<1>9. \A u \in Threads : pc'[u] \in OnStore => svc'[u] \in 1..created
  BY <1>1, <1>3, <1>8 DEF Inv, Made
<1>10. \A n \in Prewarms : SameWarmth(n)
  BY <1>1 DEF SameWarmth
<1>11. Holding'
  <2>1. \A u \in Threads : pc'[u] \in Ending => u = t
    BY <1>1, <1>2, <1>8
  <2>2. pc'[t] = "drain" /\ svc'[t] = service
    BY <1>1, <1>8
  <2> QED BY <1>1, <1>3, <1>5, <1>6, <2>1, <2>2 DEF Holding, Ending
<1>12. Counted'
  <2>1. \A g \in Stores : store'[g].closeWg = store[g].closeWg /\ store'[g].closing = store[g].closing
    BY <1>5, <1>6
  <2> QED BY <1>10, <2>1, CountedKept DEF Inv
<1>13. Warming' /\ configures <= configures
  BY <1>1, <1>10, WarmingKept DEF Inv, TypeIntact, HostType
<1> QED BY <1>1, <1>6, <1>7, <1>9, <1>11, <1>12, <1>13, ServiceChanges

(* The Service goes when everything of its Store has been closed. *)
LEMMA ShutdownEndPreserves ==
    ASSUME Inv, NEW t \in Threads, ShutdownEnd(t)
    PROVE  Inv'
<1>1. /\ pc[t] = "join" /\ Joined(svc[t]) /\ serviceMu' = None /\ service' = 0 /\ serviceDown' = TRUE
      /\ pc' = [pc EXCEPT ![t] = "idle"] /\ svc' = [svc EXCEPT ![t] = 0] /\ cfg' = [cfg EXCEPT ![t] = 0]
      /\ UNCHANGED <<serviceUp, configures, created, store, prewarm>>
  BY DEF ShutdownEnd, Return, Goto
<1>2. /\ serviceMu = t /\ t # None /\ service \in Stores /\ svc[t] = service /\ store[service].closed
      /\ \A u \in Threads : pc[u] \in Ending => u = t
  BY <1>1, Disposer DEF Ending
<1>3. ~store[service].table /\ ~store[service].doomed /\ store[service].closeWg = 0
  BY <1>1, <1>2 DEF Joined, Inv, Holding
<1>4. TypeIntact'
  <2>1. 0 \in 0..MaxConfigures
    BY BoundAssumption
  <2>2. HostType' /\ StoresType' /\ PrewarmType'
    BY <1>1, <2>1 DEF Inv, TypeIntact, HostType, StoresType, PrewarmType
  <2>3. "idle" \in ThreadLabels
    BY DEF ThreadLabels
  <2>4. ThreadType'
    BY <1>1, <2>1, <2>3 DEF Inv, TypeIntact, ThreadType
  <2> QED BY <2>2, <2>4 DEF TypeIntact
<1>5. pc \in [Threads -> ThreadLabels] /\ svc \in [Threads -> 0..MaxConfigures]
  BY DEF Inv, TypeIntact, ThreadType
<1>6. Made'
  BY <1>1, <1>5 DEF Inv, Made, OnStore, Ending
<1>7. Warming'
  BY <1>1 DEF Inv, Warming
<1>8. Holding'
  BY <1>1, <1>2, <1>5 DEF Holding, Ending
<1>9. Ended'
  BY <1>1, <1>2, <1>3 DEF Inv, Ended
<1>10. Counted'
  BY <1>1 DEF Inv, Counted, Running
<1> QED BY <1>4, <1>6, <1>7, <1>8, <1>9, <1>10 DEF Inv

LEMMA ShutdownNothingPreserves ==
    ASSUME Inv, NEW t \in Threads, ShutdownNothing(t)
    PROVE  Inv'
<1>1. /\ pc[t] = "shutdown" /\ serviceMu = None /\ service = 0 /\ serviceDown' = TRUE
      /\ pc' = [pc EXCEPT ![t] = "idle"] /\ svc' = [svc EXCEPT ![t] = 0] /\ cfg' = [cfg EXCEPT ![t] = 0]
      /\ UNCHANGED <<serviceMu, service, serviceUp, configures, created, store, prewarm>>
  BY DEF ShutdownNothing, Return, Goto
<1>2. TypeIntact'
  <2>1. HostType' /\ StoresType' /\ PrewarmType'
    BY <1>1 DEF Inv, TypeIntact, HostType, StoresType, PrewarmType
  <2>2. "idle" \in ThreadLabels /\ 0 \in 0..MaxConfigures
    BY BoundAssumption DEF ThreadLabels
  <2>3. ThreadType'
    BY <1>1, <2>2 DEF Inv, TypeIntact, ThreadType
  <2> QED BY <2>1, <2>3 DEF TypeIntact
<1>3. pc \in [Threads -> ThreadLabels] /\ svc \in [Threads -> 0..MaxConfigures]
  BY DEF Inv, TypeIntact, ThreadType
<1>4. Made'
  BY <1>1, <1>3 DEF Inv, Made, OnStore, Ending
<1>5. Holding'
  BY <1>1, <1>3 DEF Inv, Holding, Ending
<1>6. Warming' /\ Ended' /\ Counted'
  BY <1>1 DEF Inv, Warming, Ended, Counted, Running
<1> QED BY <1>2, <1>4, <1>5, <1>6 DEF Inv

(* A call publishes into a Store that is not closed: the Service's, which    *)
(* nobody is disposing.                                                      *)
LEMMA InsertPreserves ==
    ASSUME Inv, NEW t \in Threads, Insert(t)
    PROVE  Inv'
<1> DEFINE s == store[svc[t]]
           r == [s EXCEPT !.table = TRUE, !.openMu = None]
<1>1. /\ pc[t] = "opened" /\ ~s.closed /\ UNCHANGED <<hostVars, prewarm, svc, cfg>>
      /\ pc' = [pc EXCEPT ![t] = "use"]
  BY DEF Insert, InVain, Goto
<1>2. svc[t] \in Stores /\ svc[t] \in 1..created
  BY <1>1, CallsStore DEF OnStore
<1>3. s \in StoreIntact /\ store' = [store EXCEPT ![svc[t]] = r]
  BY <1>2 DEF Insert, Inv, TypeIntact, StoresType
<1>4. r \in StoreIntact /\ r.closeWg = s.closeWg /\ r.closing = s.closing
  BY <1>3 DEF StoreIntact
<1> HIDE DEF r
<1>5. svc[t] = service
  BY <1>1, <1>2 DEF Inv, Ended
<1>6. serviceMu = None
  BY <1>1, <1>5 DEF Inv, Holding
<1>7. StoresType' /\ store'[svc[t]] = r /\ \A h \in Stores : h # svc[t] => store'[h] = store[h] /\ SameLife(h)
  BY <1>2, <1>3, <1>4, StoreChanges DEF Inv, TypeIntact
<1>8. pc \in [Threads -> ThreadLabels] /\ "use" \in ThreadLabels
  BY DEF Inv, TypeIntact, ThreadType, ThreadLabels
<1>9. TypeIntact'
  <2>1. HostType' /\ PrewarmType'
    BY <1>1 DEF Inv, TypeIntact, HostType, PrewarmType, hostVars
  <2>2. ThreadType'
    BY <1>1, <1>8 DEF Inv, TypeIntact, ThreadType
  <2> QED BY <1>7, <2>1, <2>2 DEF TypeIntact
<1>10. \A u \in Threads : pc'[u] \in OnStore => svc'[u] \in 1..created
  BY <1>1, <1>2, <1>8 DEF Inv, Made
<1>11. \A n \in Prewarms : SameWarmth(n)
  BY <1>1 DEF SameWarmth
<1>12. Holding'
  <2>1. \A u \in Threads : pc'[u] \notin Ending
    <3>1. \A u \in Threads : pc[u] \notin Ending
      BY <1>6, NoneAssumption DEF Inv, Holding
    <3> QED BY <1>1, <1>8, <3>1 DEF Ending
  <2> QED BY <1>1, <1>6, <2>1 DEF Holding, hostVars
<1>13. Counted'
  <2>1. \A g \in Stores : store'[g].closeWg = store[g].closeWg /\ store'[g].closing = store[g].closing
    BY <1>4, <1>7
  <2> QED BY <1>11, <2>1, CountedKept DEF Inv
<1>14. Warming' /\ UNCHANGED <<service, created, configures>> /\ configures <= configures
  BY <1>1, <1>11, WarmingKept DEF hostVars, Inv, TypeIntact, HostType
<1> QED BY <1>5, <1>7, <1>9, <1>10, <1>12, <1>13, <1>14, ServiceChanges

-----------------------------------------------------------------------------
(* A configure. *)
LEMMA DrainedType ==
    ASSUME NEW s \in StoreIntact, NEW n \in 0..MaxConfigures
    PROVE  /\ Drained(s, n) \in StoreIntact
           /\ Drained(s, n).closeWg - Drained(s, n).closing = s.closeWg - s.closing
<1> DEFINE d  == IF s.table THEN 1 ELSE 0
           r1 == [s EXCEPT !.cfg = n]
           r2 == [r1 EXCEPT !.table = FALSE]
           r3 == [r2 EXCEPT !.closing = @ + d]
           r4 == [r3 EXCEPT !.closeWg = @ + d]
<1>1. Drained(s, n) = r4
  BY DEF Drained
<1>2. d \in Nat
  OBVIOUS
<1> HIDE DEF d
<1>3. r1 \in StoreIntact /\ r1.closeWg = s.closeWg /\ r1.closing = s.closing
  BY DEF StoreIntact
<1> HIDE DEF r1
<1>4. r2 \in StoreIntact /\ r2.closeWg = s.closeWg /\ r2.closing = s.closing
  BY <1>3 DEF StoreIntact
<1> HIDE DEF r2
<1>5. r3 \in StoreIntact /\ r3.closeWg = s.closeWg /\ r3.closing = s.closing + d
  BY <1>2, <1>4 DEF StoreIntact
<1> HIDE DEF r3
<1>6. r4 \in StoreIntact /\ r4.closeWg = s.closeWg + d /\ r4.closing = s.closing + d
  BY <1>2, <1>5 DEF StoreIntact
<1> HIDE DEF r4
<1>7. s.closeWg \in Int /\ s.closing \in Nat
  BY DEF StoreIntact
<1> QED BY <1>1, <1>2, <1>6, <1>7

(* Its own part: the next prewarm starts, and no shutdown is under way. *)
LEMMA ConfiguredKeeps ==
    ASSUME Inv, NEW t \in Threads, Configured(t), StoresType',
           created' \in created..(configures + 1), created' # 0, service' = created'
    PROVE  /\ TypeIntact' /\ Made' /\ Warming' /\ Holding'
           /\ configures + 1 \in Prewarms
           /\ \A g \in Stores : Running(g)' = Running(g)
<1> DEFINE n == configures + 1
<1>1. /\ serviceMu = None /\ configures < MaxConfigures /\ serviceDown' = FALSE /\ serviceUp' = TRUE
      /\ configures' = n /\ prewarm' = [prewarm EXCEPT ![n] = [pc |-> "start", store |-> created']]
      /\ pc' = [pc EXCEPT ![t] = "idle"] /\ svc' = [svc EXCEPT ![t] = 0] /\ cfg' = [cfg EXCEPT ![t] = 0]
      /\ UNCHANGED serviceMu
  BY DEF Configured, StartPrewarm, Return, Goto
<1>2. configures \in 0..MaxConfigures /\ created \in 0..MaxConfigures
  BY DEF Inv, TypeIntact, HostType
<1>3. n \in Prewarms /\ n \in 0..MaxConfigures /\ created' \in 1..MaxConfigures /\ created' <= n /\ created <= created'
  BY <1>1, <1>2, BoundAssumption DEF Prewarms
<1>4. pc \in [Threads -> ThreadLabels] /\ svc \in [Threads -> 0..MaxConfigures] /\ prewarm[n].pc = "none"
  <2>1. ~(n <= configures)
    BY <1>2
  <2> QED BY <1>3, <2>1 DEF Inv, TypeIntact, ThreadType, Warming
<1>5. \A k \in Prewarms : prewarm'[k] = IF k = n THEN [pc |-> "start", store |-> created'] ELSE prewarm[k]
  BY <1>1 DEF Inv, TypeIntact, PrewarmType
<1> HIDE DEF n
<1>6. TypeIntact'
  <2>1. HostType'
    <3>1. service' \in 0..MaxConfigures /\ created' \in 0..MaxConfigures /\ configures' \in 0..MaxConfigures
      BY <1>1, <1>3, BoundAssumption
    <3>2. serviceMu' \in Threads \cup {None} /\ serviceUp' \in BOOLEAN /\ serviceDown' \in BOOLEAN
      BY <1>1 DEF Inv, TypeIntact, HostType
    <3> QED BY <3>1, <3>2 DEF HostType
  <2>2. [pc |-> "start", store |-> created'] \in
            [pc : {"none", "start", "lock", "locked", "opened"}, store : 0..MaxConfigures]
    BY <1>3
  <2>3. PrewarmType'
    BY <1>1, <2>2 DEF Inv, TypeIntact, PrewarmType
  <2>4. "idle" \in ThreadLabels /\ 0 \in 0..MaxConfigures
    BY BoundAssumption DEF ThreadLabels
  <2>5. ThreadType'
    BY <1>1, <2>4 DEF Inv, TypeIntact, ThreadType
  <2> QED BY <2>1, <2>3, <2>5 DEF TypeIntact
<1>7. Made'
  <2>1. \A u \in Threads : pc'[u] \in OnStore => pc[u] \in OnStore /\ svc'[u] = svc[u]
    BY <1>1, <1>4 DEF OnStore, Ending
  <2>2. \A u \in Threads : pc'[u] \in OnStore => svc'[u] \in 1..created'
    BY <1>2, <1>3, <2>1 DEF Inv, Made
  <2> QED BY <1>1, <1>3, <2>2 DEF Made
<1>8. Warming'
  <2>1. configures <= configures'
    BY <1>1, <1>2 DEF n
  <2> QED BY <1>1, <1>2, <1>3, <1>5, <2>1 DEF Inv, Warming, Prewarms
<1>9. Holding'
  <2>1. \A u \in Threads : pc[u] \notin Ending
    BY <1>1, NoneAssumption DEF Inv, Holding
  <2>2. \A u \in Threads : pc'[u] \notin Ending
    BY <1>1, <1>4, <2>1 DEF Ending
  <2> QED BY <1>1, <2>2 DEF Holding
<1>10. \A g \in Stores : Running(g)' = Running(g)
  BY <1>4, <1>5 DEF Running
<1> QED BY <1>3, <1>6, <1>7, <1>8, <1>9, <1>10 DEF n

LEMMA RegisterPreserves ==
    ASSUME Inv, NEW t \in Threads, Register(t)
    PROVE  Inv'
<1>0. PICK g : g = created + 1
  OBVIOUS
<1> DEFINE r == NewStore(configures + 1)
<1>1. service = 0 /\ created' = g /\ service' = g /\ store' = [store EXCEPT ![g] = r] /\ Configured(t)
  BY <1>0 DEF Register
<1>2. configures \in 0..MaxConfigures /\ created \in 0..MaxConfigures /\ created <= configures /\ configures < MaxConfigures
  BY <1>1 DEF Inv, TypeIntact, HostType, Made, Configured
<1>3. g \in Stores /\ created' \in created..(configures + 1) /\ created' # 0
  BY <1>0, <1>1, <1>2, BoundAssumption DEF Stores
<1>4. r \in StoreIntact /\ ~r.closed /\ r.closeWg = 0 /\ r.closing = 0
  BY <1>2, BoundAssumption DEF NewStore, StoreIntact
<1> HIDE DEF r
<1>5. StoresType' /\ store'[g] = r /\ \A h \in Stores : h # g => store'[h] = store[h] /\ SameLife(h)
  BY <1>1, <1>3, <1>4, StoreChanges DEF Inv, TypeIntact
<1>6. TypeIntact' /\ Made' /\ Warming' /\ Holding' /\ \A h \in Stores : Running(h)' = Running(h)
  BY <1>1, <1>3, <1>5, ConfiguredKeeps
<1>7. Ended'
  <2>1. \A h \in Stores : h # g => h # service /\ (h <= g => h <= created)
    BY <1>0, <1>1, <1>2 DEF Stores
  <2> QED BY <1>1, <1>5, <2>1 DEF Inv, Ended
<1>8. Counted'
  <2>1. Running(g) = {}
    BY <1>0, <1>2 DEF Inv, Warming, Running
  <2>2. Running(g)' = {} /\ Cardinality({}) = 0
    BY <1>3, <1>6, <2>1, FS_EmptySet
  <2>3. store'[g].closeWg = 0 /\ store'[g].closing = 0
    BY <1>4, <1>5
  <2>4. SUFFICES ASSUME NEW h \in Stores
                 PROVE  store'[h].closeWg = store'[h].closing + Cardinality(Running(h)')
    BY DEF Counted
  <2>5. CASE h = g
    BY <2>2, <2>3, <2>5
  <2>6. CASE h # g
    BY <1>5, <1>6, <2>6 DEF Inv, Counted
  <2> QED BY <2>5, <2>6
<1> QED BY <1>6, <1>7, <1>8 DEF Inv

LEMMA ReconfigurePreserves ==
    ASSUME Inv, NEW t \in Threads, Reconfigure(t)
    PROVE  Inv'
<1> DEFINE s == store[service]
           r == Drained(s, configures + 1)
<1>1. /\ service # 0 /\ UNCHANGED <<service, created>> /\ Configured(t)
      /\ store' = store \/ store' = [store EXCEPT ![service] = r]
  BY DEF Reconfigure
<1>2. configures \in 0..MaxConfigures /\ created \in 0..MaxConfigures /\ created <= configures /\ configures < MaxConfigures
  BY <1>1 DEF Inv, TypeIntact, HostType, Made, Configured
<1>3. service \in Stores /\ service = created
  BY <1>1, BoundAssumption DEF Inv, TypeIntact, HostType, Made, Stores
<1>4. s \in StoreIntact
  BY <1>3 DEF Inv, TypeIntact, StoresType
<1>5. r \in StoreIntact /\ r.closeWg - r.closing = s.closeWg - s.closing
  <2>1. configures + 1 \in 0..MaxConfigures
    BY <1>2, BoundAssumption
  <2> QED BY <1>4, <2>1, DrainedType
<1> HIDE DEF r
<1>6. StoresType' /\ store'[service] \in {s, r} /\ \A h \in Stores : h # service => store'[h] = store[h]
  <2>1. CASE store' = store
    BY <2>1 DEF Inv, TypeIntact, StoresType
  <2>2. CASE store' = [store EXCEPT ![service] = r]
    BY <1>3, <1>5, <2>2, StoreChanges DEF Inv, TypeIntact
  <2> QED BY <1>1, <2>1, <2>2
<1>7. created' \in created..(configures + 1) /\ created' # 0 /\ service' = created'
  BY <1>1, <1>2, <1>3
<1>8. TypeIntact' /\ Made' /\ Warming' /\ Holding' /\ \A h \in Stores : Running(h)' = Running(h)
  BY <1>1, <1>6, <1>7, ConfiguredKeeps
<1>9. Ended'
  BY <1>1, <1>6 DEF Inv, Ended
<1>10. Counted'
  <2>1. s.closeWg = s.closing + Cardinality(Running(service)) /\ Cardinality(Running(service)) \in Nat
    BY <1>3, RunningFinite DEF Inv, Counted
  <2>2. /\ s.closeWg \in Int /\ s.closing \in Nat /\ r.closeWg \in Int /\ r.closing \in Nat
    BY <1>4, <1>5 DEF StoreIntact
  <2>3. r.closeWg = r.closing + Cardinality(Running(service))
    BY <1>5, <2>1, <2>2
  <2> QED BY <1>6, <1>8, <2>1, <2>3 DEF Inv, Counted
<1> QED BY <1>8, <1>9, <1>10 DEF Inv

-----------------------------------------------------------------------------
(* The goroutines: a detached close and a prewarm. *)
LEMMA ThreadsKept ==
    ASSUME Inv, UNCHANGED <<hostVars, threadVars>>
    PROVE  /\ HostType' /\ ThreadType'
           /\ UNCHANGED <<serviceMu, service, created, configures, pc, svc>> /\ configures <= configures
           /\ \A u \in Threads : pc'[u] \in OnStore => svc'[u] \in 1..created
BY DEF Inv, TypeIntact, HostType, ThreadType, Made, hostVars, threadVars

LEMMA CloserClosesPreserves ==
    ASSUME Inv, NEW g \in Stores, CloserCloses(g)
    PROVE  Inv'
<1> DEFINE s == store[g]
           r == [s EXCEPT !.closing = s.closing - 1, !.closeWg = s.closeWg - 1]
<1>1. s.closing > 0 /\ UNCHANGED <<hostVars, prewarm, threadVars>>
  BY DEF CloserCloses
<1>2. s \in StoreIntact /\ store' = [store EXCEPT ![g] = r]
  BY DEF CloserCloses, Inv, TypeIntact, StoresType
<1>3. /\ s.closing \in Nat /\ s.closeWg \in Int
      /\ r \in StoreIntact /\ r.closed = s.closed /\ r.table = s.table /\ r.doomed = s.doomed
      /\ r.closing = s.closing - 1 /\ r.closeWg = s.closeWg - 1
  <2> DEFINE c == s.closing - 1
             w == s.closeWg - 1
  <2>1. s.closing \in Nat /\ s.closeWg \in Int
    BY <1>2 DEF StoreIntact
  <2>2. c \in Nat /\ w \in Int
    BY <1>1, <2>1
  <2> HIDE DEF c, w
  <2>3. LET q == [s EXCEPT !.closing = c, !.closeWg = w]
        IN  /\ q \in StoreIntact /\ q.closed = s.closed /\ q.table = s.table /\ q.doomed = s.doomed
            /\ q.closing = c /\ q.closeWg = w
    BY <1>2, <2>2 DEF StoreIntact
  <2> QED BY <2>1, <2>3 DEF c, w
<1> HIDE DEF r
<1>4. StoresType' /\ store'[g] = r /\ \A h \in Stores : h # g => store'[h] = store[h] /\ SameLife(h)
  BY <1>2, <1>3, StoreChanges DEF Inv, TypeIntact
<1>5. g = service
  <2>1. s.closeWg # 0
    BY <1>1, <1>3, CountedZero DEF Inv
  <2> QED BY <2>1 DEF Inv, Ended
<1>6. \A n \in Prewarms : SameWarmth(n)
  BY <1>1 DEF SameWarmth
<1>7. TypeIntact'
  BY <1>1, <1>4, ThreadsKept DEF Inv, TypeIntact, PrewarmType
<1>8. Holding'
  BY <1>1, <1>3, <1>4, ThreadsKept, HoldingKept
<1>9. Counted'
  <2>1. \A h \in Stores : Running(h)' = Running(h) /\ Cardinality(Running(h)) \in Nat
    BY <1>6, SameWarmthCounts, RunningFinite
  <2>2. s.closeWg = s.closing + Cardinality(Running(g))
    BY DEF Inv, Counted
  <2>3. r.closeWg = r.closing + Cardinality(Running(g))
    BY <1>3, <2>1, <2>2
  <2> QED BY <1>4, <2>1, <2>3 DEF Inv, Counted
<1>10. Warming'
  BY <1>1, <1>6, ThreadsKept, WarmingKept
<1> QED BY <1>1, <1>4, <1>5, <1>7, <1>8, <1>9, <1>10, ThreadsKept, ServiceChanges

(* A prewarm goes on, and its Store with it. *)
LEMMA PrewarmMoves ==
    ASSUME Inv, NEW n \in Prewarms, prewarm[n].pc # "none",
           NEW label \in {"none", "lock", "locked", "opened"}, PrewarmGoto(n, label)
    PROVE  /\ PrewarmType'
           /\ prewarm[n].store \in Stores /\ prewarm[n].store <= created
           /\ prewarm'[n].store = prewarm[n].store /\ prewarm'[n].pc = label
           /\ \A k \in Prewarms : k # n => prewarm'[k] = prewarm[k]
           /\ (label \in Counting <=> prewarm[n].pc \in Counting) => \A k \in Prewarms : SameWarmth(k)
<1>1. /\ PrewarmType'
      /\ prewarm'[n].store = prewarm[n].store /\ prewarm'[n].pc = label
      /\ \A k \in Prewarms : k # n => prewarm'[k] = prewarm[k]
  BY DEF PrewarmGoto, Inv, TypeIntact, PrewarmType
<1>2. prewarm[n].store \in Stores /\ prewarm[n].store <= created
  BY BoundAssumption DEF Inv, Warming, TypeIntact, HostType, Stores
<1>3. ASSUME label \in Counting <=> prewarm[n].pc \in Counting, NEW k \in Prewarms
      PROVE  SameWarmth(k)
  BY <1>1, <1>3 DEF SameWarmth
<1> QED BY <1>1, <1>2, <1>3

LEMMA PrewarmLockPreserves ==
    ASSUME Inv, NEW n \in Prewarms, PrewarmLock(n)
    PROVE  Inv'
<1>1. /\ prewarm[n].pc = "lock" /\ UNCHANGED <<hostVars, threadVars>> /\ PrewarmGoto(n, "locked")
      /\ store' = [store EXCEPT ![prewarm[n].store].openMu = n]
  BY DEF PrewarmLock
<1>2. PrewarmType' /\ prewarm[n].store \in Stores /\ \A k \in Prewarms : SameWarmth(k)
  BY <1>1, PrewarmMoves DEF Counting
<1>3. StoresType' /\ \A h \in Stores : SameLife(h)
  BY <1>1, <1>2, OpenMuChanges DEF Inv, TypeIntact
<1>4. TypeIntact'
  BY <1>1, <1>2, <1>3, ThreadsKept DEF TypeIntact
<1> QED BY <1>1, <1>2, <1>3, <1>4, ThreadsKept, QuietPreserves

LEMMA PrewarmOpenPreserves ==
    ASSUME Inv, NEW n \in Prewarms, PrewarmOpen(n)
    PROVE  Inv'
<1>1. prewarm[n].pc = "locked" /\ UNCHANGED <<hostVars, store, threadVars>> /\ PrewarmGoto(n, "opened")
  BY DEF PrewarmOpen
<1>2. PrewarmType' /\ \A k \in Prewarms : SameWarmth(k)
  BY <1>1, PrewarmMoves DEF Counting
<1>3. StoresType' /\ \A h \in Stores : SameLife(h)
  BY <1>1, StoresUnchanged
<1>4. TypeIntact'
  BY <1>1, <1>2, <1>3, ThreadsKept DEF TypeIntact
<1> QED BY <1>1, <1>2, <1>3, <1>4, ThreadsKept, QuietPreserves

(* A prewarm counts itself in while its Store is not closed; that is the     *)
(* Service's then.                                                           *)
LEMMA PrewarmAddPreserves ==
    ASSUME Inv, NEW n \in Prewarms, PrewarmAdd(n)
    PROVE  Inv'
<1>0. PICK g : g = prewarm[n].store
  OBVIOUS
<1> DEFINE s == store[g]
           r == [s EXCEPT !.closeWg = @ + 1]
<1>1. prewarm[n].pc = "start" /\ UNCHANGED <<hostVars, threadVars>>
  BY DEF PrewarmAdd
<1>2. CASE s.closed
  <2>1. PrewarmGoto(n, "none") /\ UNCHANGED store
    BY <1>0, <1>2 DEF PrewarmAdd
  <2>2. PrewarmType' /\ \A k \in Prewarms : SameWarmth(k)
    BY <1>1, <2>1, PrewarmMoves DEF Counting
  <2>3. StoresType' /\ \A h \in Stores : SameLife(h)
    BY <2>1, StoresUnchanged
  <2>4. TypeIntact'
    BY <1>1, <2>2, <2>3, ThreadsKept DEF TypeIntact
  <2> QED BY <1>1, <2>2, <2>3, <2>4, ThreadsKept, QuietPreserves
<1>3. CASE ~s.closed
  <2>1. PrewarmGoto(n, "lock")
    BY <1>0, <1>3 DEF PrewarmAdd
  <2>2. /\ PrewarmType' /\ g \in Stores /\ g <= created
        /\ prewarm'[n].store = g /\ prewarm'[n].pc = "lock" /\ \A k \in Prewarms : k # n => prewarm'[k] = prewarm[k]
    BY <1>0, <1>1, <2>1, PrewarmMoves
  <2>3. s \in StoreIntact /\ store' = [store EXCEPT ![g] = r]
    BY <1>0, <1>3, <2>2 DEF PrewarmAdd, Inv, TypeIntact, StoresType
  <2>4. /\ s.closing \in Nat /\ s.closeWg \in Int
        /\ r \in StoreIntact /\ r.closed = s.closed /\ r.table = s.table /\ r.doomed = s.doomed
        /\ r.closing = s.closing /\ r.closeWg = s.closeWg + 1
    BY <2>3 DEF StoreIntact
  <2> HIDE DEF r
  <2>5. StoresType' /\ store'[g] = r /\ \A h \in Stores : h # g => store'[h] = store[h] /\ SameLife(h)
    BY <2>2, <2>3, <2>4, StoreChanges DEF Inv, TypeIntact
  <2>6. g = service
    BY <1>3, <2>2 DEF Inv, Ended
  <2>7. TypeIntact'
    BY <1>1, <2>2, <2>5, ThreadsKept DEF TypeIntact
  <2>8. Holding'
    BY <1>1, <2>4, <2>5, ThreadsKept, HoldingKept
  <2>9. Counted'
    <3>1. Running(g)' = Running(g) \cup {n} /\ n \notin Running(g)
      BY <1>0, <1>1, <2>2 DEF Running
    <3>2. \A h \in Stores : h # g => Running(h)' = Running(h)
      BY <1>0, <1>1, <2>2 DEF Running
    <3>3. Cardinality(Running(g)') = Cardinality(Running(g)) + 1 /\ Cardinality(Running(g)) \in Nat
      BY <3>1, RunningFinite, FS_AddElement
    <3>4. s.closeWg = s.closing + Cardinality(Running(g))
      BY <2>2 DEF Inv, Counted
    <3>5. r.closeWg = r.closing + Cardinality(Running(g)')
      BY <2>4, <3>3, <3>4
    <3>6. SUFFICES ASSUME NEW h \in Stores
                   PROVE  store'[h].closeWg = store'[h].closing + Cardinality(Running(h)')
      BY DEF Counted
    <3>7. CASE h = g
      BY <2>5, <3>5, <3>7
    <3>8. CASE h # g
      BY <2>5, <3>2, <3>8 DEF Inv, Counted
    <3> QED BY <3>7, <3>8
  <2>10. Warming'
    <3>1. UNCHANGED <<created, configures>>
      BY <1>1, ThreadsKept
    <3> QED BY <1>0, <1>1, <2>2, <3>1 DEF Inv, Warming
  <2> QED BY <1>1, <2>5, <2>6, <2>7, <2>8, <2>9, <2>10, ThreadsKept, ServiceChanges
<1> QED BY <1>2, <1>3

(* A prewarm that counts is one of the Service's. *)
LEMMA PrewarmExitPreserves ==
    ASSUME Inv, NEW n \in Prewarms, PrewarmExit(n)
    PROVE  Inv'
<1>0. PICK g : g = prewarm[n].store
  OBVIOUS
<1> DEFINE s == store[g]
           r == [s EXCEPT !.openMu = None, !.closeWg = s.closeWg - 1]
<1>1. prewarm[n].pc \in {"locked", "opened"} /\ UNCHANGED <<hostVars, threadVars>> /\ PrewarmGoto(n, "none")
  BY DEF PrewarmExit
<1>2. /\ PrewarmType' /\ g \in Stores /\ g <= created
      /\ prewarm'[n].store = g /\ prewarm'[n].pc = "none" /\ \A k \in Prewarms : k # n => prewarm'[k] = prewarm[k]
  BY <1>0, <1>1, PrewarmMoves
<1>3. s \in StoreIntact /\ store' = [store EXCEPT ![g] = r]
  BY <1>0, <1>2 DEF PrewarmExit, Inv, TypeIntact, StoresType
<1>4. /\ s.closing \in Nat /\ s.closeWg \in Int
      /\ r \in StoreIntact /\ r.closed = s.closed /\ r.table = s.table /\ r.doomed = s.doomed
      /\ r.closing = s.closing /\ r.closeWg = s.closeWg - 1
  <2> DEFINE w == s.closeWg - 1
  <2>1. s.closing \in Nat /\ s.closeWg \in Int /\ w \in Int
    BY <1>3 DEF StoreIntact
  <2> HIDE DEF w
  <2>2. LET q == [s EXCEPT !.openMu = None, !.closeWg = w]
        IN  /\ q \in StoreIntact /\ q.closed = s.closed /\ q.table = s.table /\ q.doomed = s.doomed
            /\ q.closing = s.closing /\ q.closeWg = w
    BY <1>3, <2>1 DEF StoreIntact
  <2> QED BY <2>1, <2>2 DEF w
<1> HIDE DEF r
<1>5. StoresType' /\ store'[g] = r /\ \A h \in Stores : h # g => store'[h] = store[h] /\ SameLife(h)
  BY <1>2, <1>3, <1>4, StoreChanges DEF Inv, TypeIntact
<1>6. n \in Running(g)
  BY <1>0, <1>1 DEF Running
<1>7. g = service
  BY <1>2, <1>6, CountedZero DEF Inv, Ended
<1>8. TypeIntact'
  BY <1>1, <1>2, <1>5, ThreadsKept DEF TypeIntact
<1>9. Holding'
  BY <1>1, <1>4, <1>5, ThreadsKept, HoldingKept
<1>10. Counted'
  <2>1. Running(g)' = Running(g) \ {n}
    BY <1>0, <1>2 DEF Running
  <2>2. \A h \in Stores : h # g => Running(h)' = Running(h)
    BY <1>0, <1>2 DEF Running
  <2>3. Cardinality(Running(g)') = Cardinality(Running(g)) - 1 /\ Cardinality(Running(g)) \in Nat
    BY <1>6, <2>1, RunningFinite, FS_RemoveElement
  <2>4. s.closeWg = s.closing + Cardinality(Running(g))
    BY <1>2 DEF Inv, Counted
  <2>5. r.closeWg = r.closing + Cardinality(Running(g)')
    BY <1>4, <2>3, <2>4
  <2>6. SUFFICES ASSUME NEW h \in Stores
                 PROVE  store'[h].closeWg = store'[h].closing + Cardinality(Running(h)')
    BY DEF Counted
  <2>7. CASE h = g
    BY <1>5, <2>5, <2>7
  <2>8. CASE h # g
    BY <1>5, <2>2, <2>8 DEF Inv, Counted
  <2> QED BY <2>7, <2>8
<1>11. Warming'
  <2>1. UNCHANGED <<created, configures>>
    BY <1>1, ThreadsKept
  <2> QED BY <1>0, <1>2, <2>1 DEF Inv, Warming
<1> QED BY <1>1, <1>5, <1>7, <1>8, <1>9, <1>10, <1>11, ThreadsKept, ServiceChanges

-----------------------------------------------------------------------------
LEMMA NextInv == Inv /\ [Next]_vars => Inv'
<1> SUFFICES ASSUME Inv, [Next]_vars PROVE Inv'
  OBVIOUS
<1>1. CASE UNCHANGED vars
  BY <1>1 DEF vars, Inv, TypeIntact, HostType, StoresType, PrewarmType, ThreadType, Made, Warming, Holding, Ended, Counted, Running
<1>2. ASSUME NEW t \in Threads, NEW method \in {"configure", "intercept", "shutdown"}, Call(t, method)
      PROVE  Inv'
  BY <1>2, CallPreserves
<1>3. ASSUME NEW t \in Threads, LockServiceMu(t) PROVE Inv'
  BY <1>3, RegisterPreserves, ReconfigurePreserves, PassThroughPreserves, AdmitPreserves,
     ShutdownNothingPreserves, ShutdownBeginPreserves DEF LockServiceMu
<1>4. ASSUME NEW t \in Threads, LockOpenMu(t) PROVE Inv'
  BY <1>4, LockOpenMuPreserves
<1>5. ASSUME NEW t \in Threads, Proceed(t) PROVE Inv'
  BY <1>5, RefuseClosedPreserves, EnterForScopePreserves, LookupPreserves, WaitPendingClosePreserves,
     RecheckHitPreserves, OpenEnginePreserves, OpenFailsPreserves, InsertPreserves, DiscardPreserves,
     UsePreserves, DrainPreserves, CloseDoomedPreserves, ShutdownEndPreserves DEF Proceed
<1>6. ASSUME NEW n \in Prewarms, PrewarmLock(n) \/ PrewarmProceeds(n) PROVE Inv'
  BY <1>6, PrewarmLockPreserves, PrewarmAddPreserves, PrewarmOpenPreserves, PrewarmExitPreserves DEF PrewarmProceeds
<1>7. ASSUME NEW g \in Stores, CloserCloses(g) \/ CloseDiscarded(g) PROVE Inv'
  BY <1>7, CloserClosesPreserves, CloseDiscardedPreserves
<1> QED BY <1>1, <1>2, <1>3, <1>4, <1>5, <1>6, <1>7 DEF Next

LEMMA InvHolds == Spec => []Inv
<1> QED BY InitInv, NextInv, PTL DEF Spec

(* The variables keep their types; closeWg never goes below zero, which      *)
(* would panic.                                                              *)
THEOREM TypeCorrect == Spec => []TypeOK
<1>1. Inv => TypeOK
  <2> SUFFICES ASSUME Inv PROVE TypeOK
    OBVIOUS
  <2>1. \A g \in Stores : store[g] \in StoreIntact /\ store[g].closeWg >= store[g].closing
    BY CountedZero DEF Inv, TypeIntact, StoresType
  <2>2. \A g \in Stores : store[g] \in StoreType
    BY <2>1 DEF StoreIntact, StoreType
  <2> QED BY <2>2 DEF Inv, TypeIntact, HostType, StoresType, PrewarmType, ThreadType, TypeOK
<1> QED BY <1>1, InvHolds, PTL

(* What was ever published, and every prewarm, is closed by the time the     *)
(* Service is gone, in whichever order registers, reconfigurations,          *)
(* shutdowns and calls meet.                                                 *)
THEOREM StoresAreApart == Spec => []StoresApart
<1>1. Inv => StoresApart
  <2> SUFFICES ASSUME Inv, NEW g \in Stores, Tracked(g) PROVE g = service
    BY DEF StoresApart
  <2>1. SUFFICES ASSUME g # service PROVE FALSE
    OBVIOUS
  <2>2. store[g].closing = 0 /\ Running(g) = {}
    BY <2>1, CountedZero DEF Inv, Ended
  <2> QED BY <2>1, <2>2 DEF Inv, Ended, Tracked, Running
<1> QED BY <1>1, InvHolds, PTL

(* A Store that is no longer the Service's is closed, and nothing of it is   *)
(* under way that anybody would have to join.                                *)
THEOREM NoStoreIsLeft == Spec => []NoStoreLeft
<1>1. Inv => NoStoreLeft
  BY BoundAssumption DEF Inv, TypeIntact, HostType, Ended, NoStoreLeft, Stores
<1> QED BY <1>1, InvHolds, PTL
=============================================================================
